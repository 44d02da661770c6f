------------------------------ MODULE Ruleset -------------------------------
(***************************************************************************)
(* The signed ruleset: the pair of files the update channel serves, the    *)
(* pair in the cache, and the load of a session, which takes the cache if  *)
(* its signature fits, else the embedded document, and then asks the       *)
(* channel.  A document is its version; a signature fits the document of   *)
(* its own version.                                                        *)
(***************************************************************************)
EXTENDS Naturals

CONSTANTS Embedded,    \* version of the bundled document
          MinVersion,  \* channel.json, min_ruleset_version
          MaxVersion   \* bound: versions the channel publishes

ASSUME RulesetAssumption == Embedded \in Nat \ {0} /\ MinVersion \in Nat /\ MaxVersion \in Nat

VARIABLES
  channel,  \* the files served, [json, sig]
  cache,    \* the files in the cache, [json, sig], 0 for none
  recent,   \* last_check.txt is younger than the interval
  load,     \* [pc, raw, sig]: how far the load is, and what it has fetched
  snap,     \* the document it will return, [version, source]
  asked     \* history: this load has asked the channel

rulesetVars == <<channel, cache, recent, load, snap, asked>>

NoLoad == [pc |-> "none", raw |-> 0, sig |-> 0]
NoSnap == [version |-> 0, source |-> "none"]

RulesetInit ==
  /\ channel = [json |-> Embedded, sig |-> Embedded]
  /\ cache = [json |-> 0, sig |-> 0] /\ recent = FALSE
  /\ load = NoLoad /\ snap = NoSnap /\ asked = FALSE

\* VerifyHexKey.
Verified(pair) == pair.json # 0 /\ pair.sig = pair.json

\* The maintainers replace the document, then its signature.
Publish ==
  /\ \/ channel.sig = channel.json /\ channel.json < MaxVersion /\ channel' = [channel EXCEPT !.json = @ + 1]
     \/ channel.sig # channel.json /\ channel' = [channel EXCEPT !.sig = channel.json]
  /\ UNCHANGED <<cache, recent, load, snap, asked>>

\* The interval passes.
Elapse == recent /\ recent' = FALSE /\ UNCHANGED <<channel, cache, load, snap, asked>>

\* Variant: a check made lately is enough, whatever the load has found.
UpToDateAnySource(s) == recent

\* tryRemoteUpdate leaves a cache it has checked lately alone.
UpToDate(s) == recent /\ s.source = "cache"

\* LoadFile of the cache, or MustLoadEmbedded.
LoadBegin ==
  /\ load.pc \in {"none", "done"}
  /\ \E s \in {[version |-> Embedded, source |-> "embedded"]} \cup
              (IF Verified(cache) THEN {[version |-> cache.json, source |-> "cache"]} ELSE {}) :
       /\ snap' = s
       /\ load' = [NoLoad EXCEPT !.pc = IF UpToDate(s) THEN "done" ELSE "json"]
  /\ asked' = FALSE
  /\ UNCHANGED <<channel, cache, recent>>

Done == load' = [NoLoad EXCEPT !.pc = "done"]

\* Only a document that cannot be fetched counts as a check.
FetchDocument ==
  /\ load.pc = "json" /\ asked' = TRUE
  /\ \/ load' = [pc |-> "sig", raw |-> channel.json, sig |-> 0] /\ UNCHANGED recent
     \/ Done /\ recent' = TRUE
  /\ UNCHANGED <<channel, cache, snap>>

FetchSignature ==
  /\ load.pc = "sig"
  /\ IF Verified([json |-> load.raw, sig |-> channel.sig]) /\ load.raw >= MinVersion
     THEN load' = [load EXCEPT !.pc = "document", !.sig = channel.sig]
     ELSE Done
  /\ UNCHANGED <<channel, cache, recent, snap, asked>>

\* Both temporary files are written; the document is renamed, then the
\* signature.
RenameDocument ==
  /\ load.pc = "document"
  /\ cache' = [cache EXCEPT !.json = load.raw]
  /\ load' = [load EXCEPT !.pc = "signature"]
  /\ UNCHANGED <<channel, recent, snap, asked>>

RenameSignature ==
  /\ load.pc = "signature"
  /\ cache' = [cache EXCEPT !.sig = load.sig]
  /\ recent' \in {recent, TRUE}
  /\ snap' = [version |-> load.raw, source |-> "remote"]
  /\ Done
  /\ UNCHANGED <<channel, asked>>

\* A fetch, a write or a rename fails: the load returns what it had.
UpdateFails ==
  /\ load.pc \in {"sig", "document", "signature"}
  /\ Done
  /\ UNCHANGED <<channel, cache, recent, snap, asked>>

\* The process ends in the middle of it.
LoadKilled == load' = NoLoad /\ snap' = NoSnap /\ asked' = FALSE /\ UNCHANGED <<channel, cache, recent>>

LoadNext ==
  LoadBegin \/ FetchDocument \/ FetchSignature \/ RenameDocument \/ RenameSignature \/ UpdateFails

-----------------------------------------------------------------------------
\* A load returns a document whose signature fits: the embedded one, or one the
\* channel published whole; and although an update may end between the two
\* renames, no load both leaves the cache torn and has not asked the channel for
\* a whole pair (tryRemoteUpdate, current.Source == "cache").
RulesetIsSound ==
  load.pc = "done" =>
    /\ snap.version = Embedded \/ (snap.version \in MinVersion..channel.json)
    /\ snap.source = "remote" => Verified(cache) /\ cache.json = snap.version
    /\ cache.json # cache.sig => asked
=============================================================================
