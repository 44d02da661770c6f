----------------------------- MODULE SystemDNS -----------------------------
(***************************************************************************)
(* How the macOS build points the system resolver at the local stub and    *)
(* how it gets the user's settings back: applySystemDNSWith and            *)
(* restoreSystemDNSWith, the undo record dns-restore.json, the resolver    *)
(* session that owns both, Repair, and a daemon that dies between any two  *)
(* of their steps.                                                         *)
(*                                                                         *)
(* One networksetup call, or one read, write or removal of the undo record *)
(* is one step: the record is replaced by a rename, so it is never seen    *)
(* half written.  The services are visited in any order.                   *)
(***************************************************************************)
EXTENDS Naturals, FiniteSets

CONSTANTS Services,         \* the network services filterDNSTargets keeps
          Settings,         \* what a service's DNS can be set to
          Stub, DHCP,       \* 127.0.0.1, and no servers of its own
          Original,         \* the settings before offveil first ran
          NoRecord,         \* no undo record
          ConcurrentRepair, \* Repair may overlap a resolver session's steps
          MaxCrashes,       \* bound: deaths of the daemon
          MaxFailures       \* bound: networksetup or file operations that fail

ASSUME SettingsAssumption == /\ Stub \in Settings /\ DHCP \in Settings
                             /\ Original \in [Services -> Settings]
                             /\ ConcurrentRepair \in BOOLEAN

ASSUME DNSBoundAssumption == MaxCrashes \in Nat /\ MaxFailures \in Nat

ASSUME RecordAssumption == \A S \in SUBSET Services : NoRecord \notin [S -> Settings]

VARIABLES dns,       \* what networksetup reports for each service
          snap,      \* the undo record on disk
          session,   \* the resolver session: none, up, or up with the guard applied
          job,       \* what the resolver session and Repair are doing
          crashes, failures,
          closed     \* history: the last resolver session was closed, not lost

dnsVars == <<dns, snap, session, job, crashes, failures, closed>>

Actors == {"guard", "repair"}
Pcs    == {"idle", "read", "save", "set", "load", "restore", "flush"}
Records == UNION {[S -> Settings] : S \in SUBSET Services}
Idle   == [pc |-> "idle", mem |-> NoRecord, todo |-> {}, pending |-> {}, applied |-> {}, armed |-> FALSE]

JobType == [pc : Pcs, mem : Records \cup {NoRecord}, todo : SUBSET Services,
            pending : SUBSET Services, applied : SUBSET Services, armed : BOOLEAN]

\* Every variable holds a value of its kind; in particular networksetup is
\* never given an empty list instead of the word that means DHCP.
DNSTypeOK ==
  /\ dns \in [Services -> Settings]
  /\ snap \in Records \cup {NoRecord}
  /\ session \in {"none", "up", "applied"}
  /\ job \in [Actors -> JobType]
  /\ crashes \in Nat /\ failures \in Nat
  /\ closed \in BOOLEAN

DNSInit ==
  /\ dns = Original /\ snap = NoRecord
  /\ session = "none"
  /\ job = [a \in Actors |-> Idle]
  /\ crashes = 0 /\ failures = 0
  /\ closed = FALSE

-----------------------------------------------------------------------------
Become(a, r) == job' = [job EXCEPT ![a] = r]

At(a, pc) == job[a].pc = pc

Goes(a, pc) == Become(a, [job[a] EXCEPT !.pc = pc])

Fails == failures < MaxFailures /\ failures' = failures + 1

\* A networksetup call that reports an error changed nothing.
SetDNS(s, v) == dns' = [dns EXCEPT ![s] = v] /\ UNCHANGED failures

\* The stub's port admits one resolver session at a time.  Engine.mu keeps
\* Repair apart from the session's own resolver, not from the one that
\* recoverComponent is starting or closing without the lock.
MayBegin(a) ==
  /\ At(a, "idle")
  /\ ConcurrentRepair \/ \A b \in Actors : At(b, "idle")

-----------------------------------------------------------------------------
\* dns.Start: the stub listens, then newNRPTGuard applies.  A record left by an
\* earlier session makes it give up, which only leaves the guard unapplied.
ApplyBegin ==
  /\ session = "none" /\ MayBegin("guard")
  /\ closed' = FALSE
  /\ \/ snap = NoRecord /\ Goes("guard", "read") /\ UNCHANGED session
     \/ snap # NoRecord /\ session' = "up" /\ UNCHANGED job
  /\ UNCHANGED <<dns, snap, crashes, failures>>

\* GetDNS of every service, remembered as the undo record.
ApplyRead ==
  /\ At("guard", "read")
  /\ \/ /\ Become("guard", [Idle EXCEPT !.pc = "save", !.mem = dns])
        /\ UNCHANGED <<session, failures>>
     \/ Fails /\ Become("guard", Idle) /\ session' = "up"
  /\ UNCHANGED <<dns, snap, crashes, closed>>

\* Variant: the services are changed before the record is written.
ApplySaveLate ==
  /\ At("guard", "save")
  /\ Become("guard", [job["guard"] EXCEPT !.pc = "set", !.todo = Services])
  /\ UNCHANGED <<dns, snap, session, crashes, failures, closed>>

\* The record is on disk before the first service is changed.
ApplySave ==
  /\ At("guard", "save")
  /\ \/ /\ snap' = job["guard"].mem
        /\ Become("guard", [job["guard"] EXCEPT !.pc = "set", !.todo = Services])
        /\ UNCHANGED <<session, failures>>
     \/ Fails /\ Become("guard", Idle) /\ session' = "up" /\ UNCHANGED snap
  /\ UNCHANGED <<dns, crashes, closed>>

ApplySet ==
  /\ At("guard", "set")
  /\ \E s \in job["guard"].todo :
       \/ /\ SetDNS(s, Stub)
          /\ Become("guard", [job["guard"] EXCEPT !.todo = @ \ {s}, !.applied = @ \cup {s}])
       \/ /\ Fails /\ UNCHANGED dns
          /\ Become("guard", [job["guard"] EXCEPT !.todo = @ \ {s}])
  /\ UNCHANGED <<snap, session, crashes, closed>>

\* When no service could be changed everything is put back at once.
ApplyEnd ==
  /\ At("guard", "set") /\ job["guard"].todo = {}
  /\ \/ job["guard"].applied # {} /\ Become("guard", Idle) /\ session' = "applied"
     \/ job["guard"].applied = {} /\ Become("guard", [Idle EXCEPT !.pc = "load", !.armed = TRUE]) /\ session' = "up"
  /\ UNCHANGED <<dns, snap, crashes, failures, closed>>

-----------------------------------------------------------------------------
\* session.Close: an applied guard restores, an unapplied one has nothing to do.
CloseBegin ==
  /\ session # "none" /\ MayBegin("guard")
  /\ session' = "none"
  /\ closed' = TRUE
  /\ \/ session = "applied" /\ Become("guard", [Idle EXCEPT !.pc = "load", !.armed = TRUE])
     \/ session = "up" /\ UNCHANGED job
  /\ UNCHANGED <<dns, snap, crashes, failures>>

\* NRPTPresent: a record or a service at the stub's address.
Leftover == snap # NoRecord \/ \E s \in Services : dns[s] = Stub

\* Repair.  The engine stopped whatever ran, but a resolver recoverComponent is
\* starting does not count, and the command line's repair asks nobody.
RepairBegin ==
  /\ MayBegin("repair") /\ (ConcurrentRepair \/ session = "none")
  /\ Become("repair", [Idle EXCEPT !.pc = "load", !.armed = Leftover])
  /\ UNCHANGED <<dns, snap, session, crashes, failures, closed>>

\* restoreSystemDNSWith.  With a record, exactly the services in it are put
\* back; without one, an armed caller clears the services left at the stub's
\* address.
RestoreLoad(a) ==
  /\ At(a, "load")
  /\ \/ snap # NoRecord /\ Become(a, [Idle EXCEPT !.pc = "restore", !.mem = snap, !.todo = DOMAIN snap])
     \/ snap = NoRecord /\ job[a].armed /\ Become(a, [Idle EXCEPT !.pc = "flush", !.todo = Services])
     \/ snap = NoRecord /\ ~job[a].armed /\ Become(a, Idle)
  /\ UNCHANGED <<dns, snap, session, crashes, failures, closed>>

\* Variant: a service that cannot be put back is handed to DHCP.
RestoreSetOrDHCP(a) ==
  /\ At(a, "restore")
  /\ \E s \in job[a].todo :
       /\ \/ SetDNS(s, job[a].mem[s])
          \/ Fails /\ dns' = [dns EXCEPT ![s] = DHCP]
       /\ Become(a, [job[a] EXCEPT !.todo = @ \ {s}])
  /\ UNCHANGED <<snap, session, crashes, closed>>

RestoreSet(a) ==
  /\ At(a, "restore")
  /\ \E s \in job[a].todo :
       \/ SetDNS(s, job[a].mem[s]) /\ Become(a, [job[a] EXCEPT !.todo = @ \ {s}])
       \/ /\ Fails /\ UNCHANGED dns
          /\ Become(a, [job[a] EXCEPT !.todo = @ \ {s}, !.pending = @ \cup {s}])
  /\ UNCHANGED <<snap, session, crashes, closed>>

\* The record keeps the services that could not be put back, or goes away.
RestoreRecord(a) ==
  /\ At(a, "restore") /\ job[a].todo = {}
  /\ \/ /\ snap' = (IF job[a].pending = {} THEN NoRecord
                    ELSE [s \in job[a].pending |-> job[a].mem[s]])
        /\ UNCHANGED failures
     \/ Fails /\ UNCHANGED snap
  /\ Become(a, Idle)
  /\ UNCHANGED <<dns, session, crashes, closed>>

FlushLeftover(a) ==
  /\ At(a, "flush")
  /\ \E s \in job[a].todo :
       /\ Become(a, [job[a] EXCEPT !.todo = @ \ {s}])
       /\ \/ dns[s] = Stub /\ SetDNS(s, DHCP)
          \/ dns[s] = Stub /\ Fails /\ UNCHANGED dns
          \/ dns[s] # Stub /\ UNCHANGED <<dns, failures>>
  /\ UNCHANGED <<snap, session, crashes, closed>>

FlushEnd(a) ==
  /\ At(a, "flush") /\ job[a].todo = {}
  /\ Become(a, Idle)
  /\ UNCHANGED <<dns, snap, session, crashes, failures, closed>>

\* The daemon is killed or the machine loses power; nothing is undone when it
\* comes back.
Crash ==
  /\ crashes < MaxCrashes /\ crashes' = crashes + 1
  /\ job' = [a \in Actors |-> Idle]
  /\ session' = "none" /\ closed' = FALSE
  /\ UNCHANGED <<dns, snap, failures>>

RestoreStep(a) ==
  RestoreLoad(a) \/ RestoreSet(a) \/ RestoreRecord(a) \/ FlushLeftover(a) \/ FlushEnd(a)

DNSNext ==
  \/ ApplyBegin \/ ApplyRead \/ ApplySave \/ ApplySet \/ ApplyEnd
  \/ CloseBegin \/ RepairBegin
  \/ \E a \in Actors : RestoreStep(a)
  \/ Crash

DNSSpec == DNSInit /\ [][DNSNext]_dnsVars

-----------------------------------------------------------------------------
(* Properties.  A service that was at 127.0.0.1 before offveil ran cannot be *)
(* told from a leftover (system.go says so) and is left out of them.         *)

Mine(s) == Original[s] # Stub

\* Whatever step the daemon dies after, a service that is not back at the
\* user's setting has that setting in the undo record: applySystemDNSWith
\* writes the record before it changes anything and restoreSystemDNSWith drops
\* only what it put back.
UndoIsRecorded ==
  \A s \in Services : Mine(s) /\ dns[s] # Original[s] =>
    /\ snap # NoRecord
    /\ s \in DOMAIN snap
    /\ snap[s] = Original[s]

\* system.go: "Never flush a restored service or replace a failed restore with
\* DHCP."  A service is at the user's setting or at the stub, nothing else.
NeverReplaced == \A s \in Services : Mine(s) => dns[s] \in {Stub, Original[s]}

\* beta.md: "After stopping or quitting, confirm the original network settings
\* are restored", and engine-reliability.md: "Resolver cleanup always closes
\* the current replacement session and restores its DNS changes."  When no
\* operation failed and the last resolver was closed in order, every service
\* is back at the user's setting.
CloseRestores ==
  closed /\ failures = 0 /\ (\A a \in Actors : At(a, "idle"))
    => \A s \in Services : Mine(s) => dns[s] = Original[s]

=============================================================================
