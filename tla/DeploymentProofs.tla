-------------------------- MODULE DeploymentProofs --------------------------
(***************************************************************************)
(* Proofs about module Deployment, for any number of commands and any      *)
(* versions of the ruleset, and about module Client, the application that  *)
(* has the commands run, for any number of clicks, attempts and faults.    *)
(*                                                                         *)
(* The commands: the steps of stopService establish the clean system one   *)
(* trace at a time, and nothing can undo a step, since only a daemon makes *)
(* traces and the daemon is gone from the first step on (StopProgress).    *)
(* That it is gone rests on launchd: a daemon runs only under a loaded     *)
(* job, so the signal to the job reaches it. The ruleset: whatever is in   *)
(* the cache, or on its way there, the channel has published               *)
(* (CacheIsPublished, LoadIsChecked).                                      *)
(*                                                                         *)
(* The application: protection that the user has turned off stays off.     *)
(* StayOff is not inductive: it says nothing of a start that has not       *)
(* reached the engine yet, nor of CANCELLED, which is what keeps auto-     *)
(* connect from beginning another. ClientInv adds that CANCELLED is set by *)
(* the time a stop that counts is carried out and as long as protection    *)
(* has to stay off, and that each start under way is one the stop found    *)
(* under way.                                                              *)
(***************************************************************************)
EXTENDS Deployment, Client, TLAPS

CommandPcs == {"none", "ok", "failed", "verify", "terminate", "bootout", "sidecars", "socket",
               "restore", "copy", "unregister", "register", "load", "kick", "leftover", "remove"}

\* No installed program is ever a damaged one: the type says so.
InstallTypeOK ==
  /\ files \in [Names -> {"none", "old", "new"}]
  /\ payload \in Names \cup {"whole"}
  /\ plist \in {"none", "old", "new"}
  /\ job \in BOOLEAN /\ daemon \in BOOLEAN /\ socket \in BOOLEAN
  /\ traces \subseteq {"undo", "dns", "sidecars", "routes"}
  /\ command \in [op : {"none", "setup", "start", "stop", "uninstall"}, pc : CommandPcs, at : Nat]
  /\ At("copy") => command.at \in {1, 2, 3}
  /\ commands \in Nat

\* The daemon runs under its job, and changes the DNS settings only after it
\* recorded how to undo that.
DaemonIsKnown == (daemon => job) /\ ("dns" \in traces => "undo" \in traces)

AfterBootOut == {"sidecars", "socket", "restore", "copy", "unregister", "register"}

\* Which commands a step belongs to: setup stops the service before it copies,
\* and starts it after it registered it.
OwnSteps ==
  /\ command.pc \in {"verify", "copy", "unregister", "register"} => command.op = "setup"
  /\ command.pc \in {"terminate", "bootout", "sidecars", "socket", "restore"}
       => command.op \in {"setup", "stop"}
  /\ command.pc \in {"load", "kick"} => command.op \in {"setup", "start"}
  /\ command.pc \in {"leftover", "remove"} => command.op = "uninstall"

\* What each step of stopService leaves to the next.
StopProgress ==
  /\ At("bootout") => ~daemon
  /\ command.pc \in AfterBootOut => ~daemon /\ ~job
  /\ command.pc \in AfterBootOut \ {"sidecars"} => "sidecars" \notin traces
  /\ command.pc \in AfterBootOut \ {"sidecars", "socket"} => ~socket
  /\ command.pc \in {"copy", "unregister", "register"} => traces = NoTrace
  /\ At("ok") /\ command.op = "stop" => ~job /\ ~daemon /\ ~socket /\ traces = NoTrace
  /\ At("kick") => job

\* The steps of setup after the stop: which programs and which registration
\* are new.
SetupProgress ==
  /\ At("copy") => \A i \in {1, 2, 3} : i < command.at => files[Programs[i]] = "new"
  /\ command.op = "setup" /\ command.pc \in {"unregister", "register", "load", "kick", "ok"} =>
       \A n \in Names : files[n] = "new"
  /\ At("register") => plist = "none"
  /\ command.op = "setup" /\ command.pc \in {"load", "kick", "ok"} => plist = "new"

InstallInv == InstallTypeOK /\ DaemonIsKnown /\ OwnSteps /\ StopProgress /\ SetupProgress

RulesetTypeOK ==
  /\ channel \in [json : Nat, sig : Nat] /\ cache \in [json : Nat, sig : Nat]
  /\ recent \in BOOLEAN /\ asked \in BOOLEAN
  /\ load \in [pc : {"none", "done", "json", "sig", "document", "signature"}, raw : Nat, sig : Nat]
  /\ snap \in [version : Nat, source : {"none", "embedded", "cache", "remote"}]

Published(v) == v \in MinVersion..channel.json

\* A document in the cache was published, whether or not its signature fits.
CacheIsPublished == cache.json # 0 => Published(cache.json)

\* What a load has fetched was published, and from the check of its signature
\* on it is whole.
LoadIsChecked ==
  /\ load.pc = "sig" => load.raw <= channel.json
  /\ load.pc \in {"document", "signature"} => Published(load.raw) /\ load.sig = load.raw /\ load.raw # 0
  /\ load.pc = "signature" => cache.json = load.raw
  /\ load.pc \in {"sig", "document", "signature"} => asked

\* What a load would return at any time.
SnapIsSound ==
  load.pc # "none" =>
    /\ snap.version = Embedded \/ Published(snap.version)
    /\ snap.source = "remote" => load.pc = "done" /\ Verified(cache) /\ cache.json = snap.version
    /\ load.pc = "done" /\ cache.json # cache.sig => asked

RulesetInv == RulesetTypeOK /\ CacheIsPublished /\ LoadIsChecked /\ SnapIsSound

IInv == InstallInv /\ RulesetInv

-----------------------------------------------------------------------------
(* The commands. *)

\* The three programs setup installs, in its order.
LEMMA ProgramNames ==
  /\ Names = {"core", "byedpi", "singbox"} /\ Len(Programs) = 3
  /\ Programs[1] = "core" /\ Programs[2] = "byedpi" /\ Programs[3] = "singbox"
BY DEF Names, Programs

\* The changes a session makes, in its order.
LEMMA TraceNames ==
  /\ DOMAIN Traces = {1, 2, 3, 4}
  /\ Traces[1] = "undo" /\ Traces[2] = "dns" /\ Traces[3] = "sidecars" /\ Traces[4] = "routes"
BY DEF Traces

\* A session adds one change; the DNS settings only after their record.
LEMMA ProtectAdds ==
  ASSUME Protect
  PROVE  \E t \in {"undo", "dns", "sidecars", "routes"} :
           traces' = traces \cup {t} /\ (t = "dns" => "undo" \in traces)
<1>1. PICK i \in {1, 2, 3, 4} : /\ \A j \in 1..(i - 1) : Traces[j] \in traces
                                /\ traces' = traces \cup {Traces[i]}
  BY TraceNames, Zenon DEF Protect
<1>2. CASE i = 1
  BY <1>1, <1>2, TraceNames, Zenon
<1>3. CASE i = 2
  <2>1. 1 \in 1..(i - 1)
    BY <1>3
  <2> QED BY <1>1, <1>3, <2>1, TraceNames, Zenon
<1>4. CASE i = 3
  BY <1>1, <1>4, TraceNames, Zenon
<1>5. CASE i = 4
  BY <1>1, <1>5, TraceNames, Zenon
<1> QED BY <1>2, <1>3, <1>4, <1>5, Zenon

\* Nothing is installed half, and no command runs, at the start.
LEMMA InstallInitInv == InstallInit => InstallInv
<1> SUFFICES ASSUME InstallInit PROVE InstallInv
  OBVIOUS
<1> USE DEF InstallInit, NoTrace, At
<1>1. InstallTypeOK
  BY Zenon DEF InstallTypeOK, CommandPcs
<1>2. DaemonIsKnown /\ OwnSteps /\ StopProgress /\ SetupProgress
  BY Zenon DEF DaemonIsKnown, OwnSteps, StopProgress, SetupProgress, AfterBootOut
<1> QED BY <1>1, <1>2, Zenon DEF InstallInv

\* Every step of a command and of the daemon keeps the variables typed.
LEMMA InstallTypeStep == ASSUME InstallTypeOK, InstallNext PROVE InstallTypeOK'
<1> USE ProgramNames DEF InstallTypeOK, At, Go, CommandPcs
<1>1. CASE Protect
  <2>1. \E t \in {"undo", "dns", "sidecars", "routes"} : traces' = traces \cup {t}
    BY <1>1, ProtectAdds, Zenon
  <2>2. traces' \subseteq {"undo", "dns", "sidecars", "routes"}
    BY <2>1, Zenon
  <2> QED BY <1>1, <2>2 DEF Protect
<1>2. CASE Unprotect
  BY <1>2 DEF Unprotect, TakenBack, NoTrace
<1>3. CASE DaemonDies
  <2>1. daemon' \in BOOLEAN
    BY <1>3, Zenon DEF DaemonDies, Dies
  <2> QED BY <1>3, <2>1 DEF DaemonDies, Dies
<1>4. CASE PayloadChanges
  BY <1>4, Zenon DEF PayloadChanges, Idle
<1>5. CASE Begin
  BY <1>5 DEF Begin, Idle, First
<1>6. CASE CommandFails
  BY <1>6, Zenon DEF CommandFails, Idle
<1>7. CASE VerifyPayload
  BY <1>7, Zenon DEF VerifyPayload
<1>8. CASE Terminate
  BY <1>8, Zenon DEF Terminate, Exits, Dies, TakenBack, NoTrace
<1>9. CASE BootOut
  BY <1>9, Zenon DEF BootOut
<1>10. CASE StopSidecars
  BY <1>10, Zenon DEF StopSidecars
<1>11. CASE RemoveSocket
  BY <1>11, Zenon DEF RemoveSocket
<1>12. CASE Restore
  <2>1. CASE Go("copy")
    BY <1>12, <2>1, Zenon DEF Restore
  <2>2. CASE Go("ok")
    BY <1>12, <2>2, Zenon DEF Restore
  <2> QED BY <1>12, <2>1, <2>2, Zenon DEF Restore, AfterStop
<1>13. CASE RestorePartly
  BY <1>13, Zenon DEF RestorePartly
<1>14. CASE Copy
  <2>1. files' \in [Names -> {"none", "old", "new"}]
    BY <1>14, Zenon DEF Copy, Copies
  <2>2. CASE command.at < 3 /\ command' = [command EXCEPT !.at = @ + 1]
    BY <1>14, <2>1, <2>2 DEF Copy
  <2>3. CASE Go("unregister")
    BY <1>14, <2>1, <2>3, Zenon DEF Copy
  <2> QED BY <1>14, <2>2, <2>3, Zenon DEF Copy
<1>15. CASE CopyLost
  BY <1>15, Zenon DEF CopyLost
<1>16. CASE Unregister
  BY <1>16, Zenon DEF Unregister
<1>17. CASE Register
  BY <1>17, Zenon DEF Register
<1>18. CASE LoadJob
  BY <1>18, Zenon DEF LoadJob
<1>19. CASE Kick
  BY <1>19, Zenon DEF Kick
<1>20. CASE Leftover
  BY <1>20, Zenon DEF Leftover
<1>21. CASE Remove
  BY <1>21, Zenon DEF Remove, Exits, TakenBack, NoTrace
<1> QED BY <1>1, <1>2, <1>3, <1>4, <1>5, <1>6, <1>7, <1>8, <1>9, <1>10, <1>11, <1>12, <1>13, <1>14,
    <1>15, <1>16, <1>17, <1>18, <1>19, <1>20, <1>21, Zenon
    DEF InstallNext

\* Every step keeps what the steps of stopService have established so far.
LEMMA StopStep == ASSUME InstallInv, InstallNext PROVE (DaemonIsKnown /\ OwnSteps /\ StopProgress)'
<1> USE ProgramNames
    DEF InstallInv, InstallTypeOK, At, Go, DaemonIsKnown, OwnSteps, StopProgress, AfterBootOut, NoTrace
<1>1. CASE Protect
  BY <1>1, ProtectAdds, Zenon DEF Protect
<1>2. CASE Unprotect
  BY <1>2, Zenon DEF Unprotect, TakenBack
<1>3. CASE DaemonDies
  BY <1>3, Zenon DEF DaemonDies, Dies
<1>4. CASE PayloadChanges
  BY <1>4, Zenon DEF PayloadChanges, Idle
<1>5. CASE Begin
  BY <1>5 DEF Begin, Idle, First
<1>6. CASE CommandFails
  BY <1>6, Zenon DEF CommandFails, Idle
<1>7. CASE VerifyPayload
  BY <1>7, Zenon DEF VerifyPayload
<1>8. CASE Terminate
  BY <1>8 DEF Terminate, Exits, Dies, TakenBack
<1>9. CASE BootOut
  BY <1>9, Zenon DEF BootOut
<1>10. CASE StopSidecars
  BY <1>10, Zenon DEF StopSidecars
<1>11. CASE RemoveSocket
  BY <1>11, Zenon DEF RemoveSocket
<1>12. CASE Restore
  <2>1. traces' = NoTrace /\ ~daemon' /\ ~job' /\ ~socket'
    BY <1>12 DEF Restore
  <2>2. command.op \in {"setup", "stop"} /\ ~daemon /\ ~job
    BY <1>12, Zenon DEF Restore
  <2>3. CASE command.op = "setup" /\ Go("copy")
    BY <1>12, <2>1, <2>2, <2>3, Zenon DEF Restore
  <2>4. CASE command.op = "stop" /\ Go("ok")
    BY <1>12, <2>1, <2>2, <2>4, Zenon DEF Restore
  <2> QED BY <1>12, <2>2, <2>3, <2>4, Zenon DEF Restore, AfterStop
<1>13. CASE RestorePartly
  BY <1>13, Zenon DEF RestorePartly
<1>14. CASE Copy
  <2>1. command'.op = command.op /\ command'.pc \in {"copy", "unregister"}
    <3>1. CASE command' = [command EXCEPT !.at = @ + 1]
      BY <1>14, <3>1, Zenon DEF Copy
    <3>2. CASE Go("unregister")
      BY <1>14, <3>2, Zenon DEF Copy
    <3> QED BY <1>14, <3>1, <3>2, Zenon DEF Copy
  <2> QED BY <1>14, <2>1, Zenon DEF Copy
<1>15. CASE CopyLost
  BY <1>15, Zenon DEF CopyLost
<1>16. CASE Unregister
  BY <1>16, Zenon DEF Unregister
<1>17. CASE Register
  BY <1>17, Zenon DEF Register
<1>18. CASE LoadJob
  BY <1>18, Zenon DEF LoadJob
<1>19. CASE Kick
  BY <1>19, Zenon DEF Kick
<1>20. CASE Leftover
  BY <1>20, Zenon DEF Leftover
<1>21. CASE Remove
  BY <1>21, SMTT(30) DEF Remove, Exits, TakenBack
<1> QED BY <1>1, <1>2, <1>3, <1>4, <1>5, <1>6, <1>7, <1>8, <1>9, <1>10, <1>11, <1>12, <1>13, <1>14,
    <1>15, <1>16, <1>17, <1>18, <1>19, <1>20, <1>21, Zenon
    DEF InstallNext

\* Every step keeps what setup has installed so far.
LEMMA SetupStep == ASSUME InstallInv, InstallNext PROVE SetupProgress'
<1> USE ProgramNames DEF InstallInv, InstallTypeOK, At, Go, OwnSteps, SetupProgress
<1>1. CASE Protect
  BY <1>1, ProtectAdds, Zenon DEF Protect
<1>2. CASE Unprotect
  BY <1>2, Zenon DEF Unprotect, TakenBack
<1>3. CASE DaemonDies
  BY <1>3, Zenon DEF DaemonDies, Dies
<1>4. CASE PayloadChanges
  BY <1>4, Zenon DEF PayloadChanges, Idle
<1>5. CASE Begin
  BY <1>5 DEF Begin, Idle, First
<1>6. CASE CommandFails
  BY <1>6, Zenon DEF CommandFails, Idle
<1>7. CASE VerifyPayload
  BY <1>7, Zenon DEF VerifyPayload
<1>8. CASE Terminate
  BY <1>8, Zenon DEF Terminate, Exits, Dies, TakenBack
<1>9. CASE BootOut
  BY <1>9, Zenon DEF BootOut
<1>10. CASE StopSidecars
  BY <1>10, Zenon DEF StopSidecars
<1>11. CASE RemoveSocket
  BY <1>11, Zenon DEF RemoveSocket
<1>12. CASE Restore
  <2>1. CASE command.op = "setup" /\ Go("copy")
    BY <1>12, <2>1 DEF Restore
  <2>2. CASE command.op = "stop" /\ Go("ok")
    BY <1>12, <2>2, Zenon DEF Restore
  <2> QED BY <1>12, <2>1, <2>2, Zenon DEF Restore, AfterStop
<1>13. CASE RestorePartly
  BY <1>13, Zenon DEF RestorePartly
<1>14. CASE Copy
  <2>1. files' = [files EXCEPT ![Programs[command.at]] = "new"] /\ plist' = plist
    BY <1>14, Zenon DEF Copy, Copies
  <2>2. command.op = "setup" /\ command.at \in {1, 2, 3}
    BY <1>14, Zenon DEF Copy
  <2>3. \A i \in {1, 2, 3} : i < command.at + 1 => files'[Programs[i]] = "new"
    BY <1>14, <2>1, <2>2 DEF Copy
  <2>4. CASE command.at < 3
    BY <1>14, <2>2, <2>3, <2>4 DEF Copy
  <2>5. CASE command.at = 3
    <3>1. \A n \in Names : files'[n] = "new"
      BY <2>3, <2>5
    <3>2. command'.pc = "unregister" /\ command'.op = "setup"
      <4>1. ~(command.at < Len(Programs))
        BY <2>5
      <4>2. command' = [command EXCEPT !.pc = "unregister", !.at = 1]
        BY <1>14, <4>1, Zenon DEF Copy
      <4> QED BY <2>2, <4>2, Zenon
    <3> QED BY <3>1, <3>2, Zenon
  <2> QED BY <2>2, <2>4, <2>5
<1>15. CASE CopyLost
  BY <1>15, Zenon DEF CopyLost
<1>16. CASE Unregister
  BY <1>16, Zenon DEF Unregister
<1>17. CASE Register
  BY <1>17, Zenon DEF Register
<1>18. CASE LoadJob
  BY <1>18, Zenon DEF LoadJob
<1>19. CASE Kick
  BY <1>19, Zenon DEF Kick
<1>20. CASE Leftover
  BY <1>20, Zenon DEF Leftover
<1>21. CASE Remove
  BY <1>21, Zenon DEF Remove, Exits, TakenBack
<1> QED BY <1>1, <1>2, <1>3, <1>4, <1>5, <1>6, <1>7, <1>8, <1>9, <1>10, <1>11, <1>12, <1>13, <1>14,
    <1>15, <1>16, <1>17, <1>18, <1>19, <1>20, <1>21, Zenon
    DEF InstallNext

-----------------------------------------------------------------------------
(* The ruleset. *)

\* Nothing is cached and no load has begun at the start.
LEMMA RulesetInitInv == RulesetInit => RulesetInv
<1> SUFFICES ASSUME RulesetInit PROVE RulesetInv
  OBVIOUS
<1> USE DEF RulesetInit, NoLoad
<1>1. RulesetTypeOK
  BY RulesetAssumption, Zenon DEF RulesetTypeOK, NoSnap
<1>2. CacheIsPublished /\ LoadIsChecked /\ SnapIsSound
  BY Zenon DEF CacheIsPublished, LoadIsChecked, SnapIsSound
<1> QED BY <1>1, <1>2, Zenon DEF RulesetInv

\* Every step of the channel and of a load keeps what is cached, fetched and
\* returned published.
LEMMA RulesetStep == ASSUME RulesetInv, LoadNext \/ Publish \/ Elapse \/ LoadKilled PROVE RulesetInv'
<1> USE RulesetAssumption DEF RulesetInv, RulesetTypeOK, CacheIsPublished, LoadIsChecked,
        SnapIsSound, NoLoad, Published, Verified, Done
<1>1. CASE LoadBegin
  <2>1. snap' \in [version : Nat, source : {"embedded", "cache"}]
    BY <1>1 DEF LoadBegin
  <2>2. snap'.version = Embedded \/ Published(snap'.version)
    BY <1>1 DEF LoadBegin
  <2>3. UpToDate(snap') => cache.json = cache.sig
    BY <1>1 DEF LoadBegin, UpToDate
  <2>4. /\ load' \in [pc : {"done", "json"}, raw : Nat, sig : Nat]
        /\ load'.pc = "done" => UpToDate(snap')
    BY <1>1 DEF LoadBegin
  <2>5. UNCHANGED <<channel, cache, recent>> /\ asked' = FALSE
    BY <1>1, Zenon DEF LoadBegin
  <2> HIDE DEF UpToDate
  <2> QED BY <2>1, <2>2, <2>3, <2>4, <2>5, Zenon
<1>2. CASE FetchDocument
  <2>1. CASE load' = [pc |-> "sig", raw |-> channel.json, sig |-> 0] /\ UNCHANGED recent
    BY <1>2, <2>1 DEF FetchDocument
  <2>2. CASE Done /\ recent' = TRUE
    BY <1>2, <2>2, Zenon DEF FetchDocument
  <2> QED BY <1>2, <2>1, <2>2, Zenon DEF FetchDocument
<1>3. CASE FetchSignature
  <2>1. CASE /\ load.raw # 0 /\ channel.sig = load.raw /\ load.raw >= MinVersion
             /\ load' = [load EXCEPT !.pc = "document", !.sig = channel.sig]
    <3>1. load' = [pc |-> "document", raw |-> load.raw, sig |-> load.raw]
      BY <2>1, Zenon
    <3>2. Published(load.raw)
      BY <1>3, <2>1 DEF FetchSignature
    <3> QED BY <1>3, <2>1, <3>1, <3>2, Zenon DEF FetchSignature
  <2>2. CASE Done
    BY <1>3, <2>2, Zenon DEF FetchSignature
  <2> QED BY <1>3, <2>1, <2>2, Zenon DEF FetchSignature
<1>4. CASE RenameDocument
  BY <1>4, Zenon DEF RenameDocument
<1>5. CASE RenameSignature
  BY <1>5, Zenon DEF RenameSignature
<1>6. CASE UpdateFails
  BY <1>6, Zenon DEF UpdateFails
<1>7. CASE Publish
  BY <1>7 DEF Publish
<1>8. CASE Elapse
  BY <1>8, Zenon DEF Elapse
<1>9. CASE LoadKilled
  BY <1>9, Zenon DEF LoadKilled, NoSnap
<1> QED BY <1>1, <1>2, <1>3, <1>4, <1>5, <1>6, <1>7, <1>8, <1>9, Zenon DEF LoadNext

-----------------------------------------------------------------------------
(* The two together. *)

\* Every step of the deployment keeps the invariant: a command changes nothing of
\* the ruleset unless it ends the daemon, which ends the load.
LEMMA DeploymentStep == ASSUME IInv, [Next]_vars PROVE IInv'
<1> USE DEF IInv
<1>1. CASE InstallNext /\ WithDaemon
  <2>1. InstallInv'
    BY <1>1, InstallTypeStep, StopStep, SetupStep, Zenon DEF InstallInv
  <2>2. RulesetInv'
    <3>1. CASE LoadKilled
      BY <3>1, RulesetStep, Zenon
    <3>2. CASE UNCHANGED rulesetVars
      BY <3>2, Zenon
        DEF rulesetVars, RulesetInv, RulesetTypeOK, CacheIsPublished, LoadIsChecked, SnapIsSound,
                  Published, Verified
    <3> QED BY <1>1, <3>1, <3>2, Zenon DEF WithDaemon
  <2> QED BY <2>1, <2>2, Zenon
<1>2. CASE (Loads \/ Publish \/ Elapse) /\ UNCHANGED installVars
  <2>1. RulesetInv'
    BY <1>2, RulesetStep, Zenon DEF Loads
  <2>2. InstallInv'
    BY <1>2 DEF installVars, InstallInv, InstallTypeOK, DaemonIsKnown, OwnSteps, StopProgress,
                SetupProgress, At
  <2> QED BY <2>1, <2>2, Zenon
<1>3. CASE UNCHANGED vars
  BY <1>3 DEF vars, installVars, rulesetVars, InstallInv, InstallTypeOK, DaemonIsKnown, OwnSteps,
              StopProgress, SetupProgress, At, RulesetInv, RulesetTypeOK, CacheIsPublished, LoadIsChecked,
              SnapIsSound, Published, Verified
<1> QED BY <1>1, <1>2, <1>3, Zenon DEF Next

\* The inductive invariant holds in every state of the deployment.
LEMMA Invariance == Spec => []IInv
<1>1. Init => IInv
  BY InstallInitInv, RulesetInitInv, Zenon DEF Init, IInv
<1> QED BY <1>1, DeploymentStep, PTL DEF Spec

\* stop, and the stop inside setup, leave a clean system whenever they report
\* success, for any number of earlier commands that failed, were killed, or met
\* a daemon that was killed (stopService).
THEOREM StopLeavesNothing == Spec => []StoppedIsClean
<1>1. IInv => StoppedIsClean
  BY Zenon DEF IInv, InstallInv, InstallTypeOK, StopProgress, StoppedIsClean, At, AfterBootOut
<1> QED BY <1>1, Invariance, PTL

\* A setup that reports success has replaced all it installs, and never
\* publishes a damaged program, for any number of earlier setups that were left
\* half done (mustSetup, CopySigned).
THEOREM SetupInstallsAll == Spec => []SetupIsWhole
<1>1. IInv => SetupIsWhole
  BY ProgramNames, Zenon DEF IInv, InstallInv, InstallTypeOK, SetupProgress, SetupIsWhole, At
<1> QED BY <1>1, Invariance, PTL

\* Every load returns the embedded document or one the channel published, and
\* never settles for a torn cache, whatever versions are published and wherever
\* earlier updates were cut off (tryRemoteUpdate).
THEOREM RulesetLoadsSound == Spec => []RulesetIsSound
<1>1. IInv => RulesetIsSound
  BY Zenon DEF IInv, RulesetInv, RulesetTypeOK, SnapIsSound, RulesetIsSound, Published
<1> QED BY <1>1, Invariance, PTL

-----------------------------------------------------------------------------
(* The application. *)

Kinds   == {"none", "connect", "disconnect", "refresh", "reset", "install"}
Starts  == {"connect", "refresh"}
Pcs     == {"none", "serve", "launch", "setup", "start", "restart", "repair", "probe", "set",
            "refreshing", "awaits", "cancel", "halt", "ok", "bad"}
QuitPcs == {"none", "cancel", "halt", "exit"}
Trying  == {"serve", "launch", "start", "awaits"}

\* The command's step is one of its kind.
CommandFits ==
  /\ cmd \in [kind : Kinds, pc : Pcs]
  /\ cmd.pc \in {"start", "restart"} => cmd.kind \in Starts
  /\ cmd.pc \in {"serve", "launch", "setup"} => cmd.kind \in Kinds \ {"none", "disconnect"}
  /\ cmd.pc \in {"cancel", "halt"} => cmd.kind = "disconnect"

HistoryFits ==
  /\ stops \subseteq Nat /\ off \in BOOLEAN /\ cancelled \in BOOLEAN
  /\ quit \in [Quits -> QuitPcs]

\* A stop that counts comes after its cancel_pending, which nothing has undone.
StopsAreCancelled ==
  /\ cmd.pc = "halt" /\ 0 \in stops => cancelled
  /\ \A q \in Quits : quit[q] = "halt" /\ q \in stops => cancelled

\* Where protection has to stay off no attempt begins, and a start under way
\* is one the stop found under way.
OffIsCancelled == off => cancelled
OnlyLate ==
  off => /\ auto \in Trying => attempts \in late
         /\ cmd.kind \in Starts => 0 \in late

ClientInv == CommandFits /\ HistoryFits /\ StopsAreCancelled /\ OffIsCancelled /\ OnlyLate /\ StayOff

-----------------------------------------------------------------------------
(* The command. *)

\* What start_installed goes on to belongs to the command.
LEMMA ServedFits ==
  ASSUME cmd.kind \in Kinds \ {"none", "disconnect"}
  PROVE  /\ Served \in {"start", "restart", "repair", "probe"}
         /\ Served \in {"start", "restart"} => cmd.kind \in Starts
BY Zenon DEF Served, Kinds, Starts

\* A step that moves the command on keeps its kind.
LEMMA GoesFits ==
  ASSUME CommandFits, NEW pc \in Pcs, Goes(pc),
         pc \in {"start", "restart"} => cmd.kind \in Starts,
         pc \in {"serve", "launch", "setup"} => cmd.kind \in Kinds \ {"none", "disconnect"},
         pc \in {"cancel", "halt"} => cmd.kind = "disconnect"
  PROVE  CommandFits'
<1>1. cmd' \in [kind : Kinds, pc : Pcs] /\ cmd'.kind = cmd.kind /\ cmd'.pc = pc
  BY Zenon DEF CommandFits, Goes
<1> QED
  BY <1>1, Zenon DEF CommandFits

\* A command that is over leaves none.
LEMMA NoneFits == ASSUME cmd' = NoCommand PROVE CommandFits'
BY Zenon DEF CommandFits, NoCommand, Kinds, Pcs

\* A step after which the command is over, waits for the status, is dropped, or
\* is what it was.
LEMMA DroppedFits ==
  ASSUME CommandFits,
         \/ CommandDropped \/ UNCHANGED cmd \/ cmd' = NoCommand
         \/ \E pc \in {"ok", "bad", "refreshing", "awaits", "repair", "probe", "set"} : Goes(pc)
  PROVE  CommandFits'
<1>1. CASE UNCHANGED cmd
  BY <1>1, Zenon DEF CommandFits
<1>2. CASE cmd' = NoCommand
  BY <1>2, NoneFits, Zenon
<1>3. ASSUME NEW pc \in {"ok", "bad", "refreshing", "awaits", "repair", "probe", "set"}, Goes(pc)
      PROVE  CommandFits'
  BY <1>3, GoesFits, Zenon DEF Pcs
<1>4. CASE CommandDropped
  <2>1. CASE UNCHANGED cmd
    BY <2>1, <1>1, Zenon
  <2>2. CASE Goes("bad")
    BY <2>2, <1>3, Zenon
  <2> QED
    BY <1>4, <2>1, <2>2, Zenon DEF CommandDropped, Goes
<1> QED
  BY <1>1, <1>2, <1>3, <1>4, Zenon

\* CommandFits is kept by every step.
LEMMA CommandStep == ASSUME CommandFits, [ClientNext]_clientVars PROVE CommandFits'
<1>1. CASE EngineDone
  <2>1. \/ UNCHANGED cmd \/ Goes("ok") \/ Goes("bad")
    BY <1>1, Zenon DEF EngineDone, Goes
  <2> QED
    BY <2>1, DroppedFits, Zenon
<1>2. CASE Click
  <2>1. PICK kind \in {Pad, "reset"} : cmd' = [kind |-> kind, pc |-> FirstStep(kind)]
    BY <1>2, Zenon DEF Click
  <2>2. kind \in Kinds \ {"none"}
    BY <2>1, Zenon DEF Pad, Kinds
  <2>3. /\ FirstStep(kind) \in {"cancel", "serve"}
        /\ FirstStep(kind) = "cancel" <=> kind = "disconnect"
    BY Zenon DEF FirstStep
  <2> QED
    BY <2>1, <2>2, <2>3, Zenon DEF CommandFits, Kinds, Pcs
<1>3. CASE Serve
  <2>1. cmd.kind \in Kinds \ {"none", "disconnect"}
    BY <1>3, Zenon DEF Serve, CommandFits
  <2>2. Goes("setup") \/ Goes("bad") \/ Goes("launch") \/ Goes(Served)
    BY <1>3, Zenon DEF Serve
  <2>3. Served \in Pcs
    BY <2>1, ServedFits, Zenon DEF Pcs
  <2> QED
    BY <2>1, <2>2, <2>3, ServedFits, GoesFits, Zenon DEF Pcs
<1>4. CASE Launch \/ Setup
  <2>1. cmd.kind \in Kinds \ {"none", "disconnect"}
    BY <1>4, Zenon DEF Launch, Setup, CommandFits
  <2>2. Goes("set") \/ Goes("bad") \/ Goes(Served)
    BY <1>4, Zenon DEF Launch, Setup
  <2>3. Served \in Pcs
    BY <2>1, ServedFits, Zenon DEF Pcs
  <2> QED
    BY <2>1, <2>2, <2>3, ServedFits, GoesFits, Zenon DEF Pcs
<1>5. CASE Start \/ Repair \/ Timeout \/ Halt
  <2>1. Goes("awaits") \/ Goes("bad") \/ Goes("ok")
    BY <1>5, Zenon DEF Start, Repair, Timeout, Halt
  <2> QED
    BY <2>1, DroppedFits, Zenon
<1>6. CASE Cancel
  BY <1>6, GoesFits, Zenon DEF Cancel, CommandFits, Pcs
<1>7. CASE Ok \/ AfterInstall \/ Bad \/ RequestDone
  <2>1. UNCHANGED cmd \/ cmd' = NoCommand \/ Goes("refreshing")
    BY <1>7, Zenon DEF Ok, AfterInstall, Bad, Freed, RequestDone, Resumed, Goes
  <2> QED
    BY <2>1, DroppedFits, Zenon
<1>8. CASE CoreDies \/ UpdateHalt \/ \E q \in Quits : QuitHalt(q)
  <2>1. CommandDropped \/ UNCHANGED cmd
    BY <1>8, Zenon DEF CoreDies, UpdateHalt, QuitHalt
  <2> QED
    BY <2>1, DroppedFits, Zenon
<1>9. CASE Ends
  BY <1>9, NoneFits, Zenon DEF Ends
<1>10. CASE \/ Breaks \/ AutoNext \/ AutoTimeout \/ BootProbe \/ PollFires \/ RequestReads
            \/ SetAutoconnect \/ Quit \/ Update \/ UpdateError
            \/ \E q \in Quits : QuitCancel(q)
  <2>1. UNCHANGED cmd
    BY <1>10, Zenon
      DEF Breaks, AutoNext, AutoCheck, AutoServe, AutoLaunch, AutoStart, AutoTimeout,
      autoRest,
                 BootProbe, PollFires, RequestReads, SetAutoconnect, Quit, Update, UpdateError, QuitCancel
  <2> QED
    BY <2>1, DroppedFits, Zenon
<1>11. CASE UNCHANGED clientVars
  BY <1>11, DroppedFits, Zenon DEF clientVars
<1> HIDE DEF CommandFits
<1> QED
  BY <1>1, <1>2, <1>3, <1>4, <1>5, <1>6, <1>7, <1>8, <1>9, <1>10, <1>11, Zenon
  DEF ClientNext, CommandNext, QuitNext, UpdateNext, QuitExit, UpdateFinish

\* Only set_protection(false) comes to its stop, behind its cancel_pending, and
\* only a click begins a command that starts protection.
LEMMA CommandMoves ==
  ASSUME CommandFits, [ClientNext]_clientVars
  PROVE  /\ cmd'.pc = "halt" => cmd.pc = "halt" \/ Cancel
         /\ cmd'.kind \in Starts => cmd.kind \in Starts \/ Click
<1> DEFINE Goal == /\ cmd'.pc = "halt" => cmd.pc = "halt" \/ Cancel
                   /\ cmd'.kind \in Starts => cmd.kind \in Starts \/ Click
<1>1. ASSUME NEW pc \in Pcs \ {"halt"}, Goes(pc) PROVE Goal
  BY <1>1, Zenon DEF Goes, CommandFits
<1>2. ASSUME cmd' = NoCommand PROVE Goal
  BY <1>2, Zenon DEF NoCommand, Starts
<1>3. ASSUME UNCHANGED cmd PROVE Goal
  BY <1>3, Zenon
<1>4. ASSUME CommandDropped PROVE Goal
  <2>1. UNCHANGED cmd \/ Goes("bad")
    BY <1>4, Zenon DEF CommandDropped, Goes
  <2> QED
    BY <2>1, <1>1, <1>3, Zenon DEF Pcs
<1>5. ASSUME Click PROVE Goal
  <2>1. PICK kind \in {Pad, "reset"} : cmd' = [kind |-> kind, pc |-> FirstStep(kind)]
    BY <1>5, Zenon DEF Click
  <2> QED
    BY <1>5, <2>1, Zenon DEF FirstStep
<1>6. ASSUME Cancel PROVE Goal
  BY <1>6, Zenon DEF Cancel, Goes, CommandFits
<1>7. ASSUME EngineDone \/ Start \/ Repair \/ Timeout \/ Halt PROVE Goal
  <2>1. UNCHANGED cmd \/ Goes("awaits") \/ Goes("ok") \/ Goes("bad")
    BY <1>7, Zenon DEF EngineDone, Start, Repair, Timeout, Halt, Goes
  <2> QED
    BY <2>1, <1>1, <1>3, Zenon DEF Pcs
<1>8. ASSUME Serve \/ Launch \/ Setup PROVE Goal
  <2>1. Served \in Pcs \ {"halt"}
    BY <1>8, ServedFits, Zenon DEF Serve, Launch, Setup, CommandFits, Pcs
  <2>2. Goes("setup") \/ Goes("bad") \/ Goes("launch") \/ Goes("set") \/ Goes(Served)
    BY <1>8, Zenon DEF Serve, Launch, Setup
  <2> QED
    BY <2>1, <2>2, <1>1, Zenon DEF Pcs
<1>9. ASSUME Ok \/ AfterInstall \/ Bad \/ RequestDone PROVE Goal
  <2>1. UNCHANGED cmd \/ cmd' = NoCommand \/ Goes("refreshing")
    BY <1>9, Zenon DEF Ok, AfterInstall, Bad, Freed, RequestDone, Resumed, Goes
  <2> QED
    BY <2>1, <1>1, <1>2, <1>3, Zenon DEF Pcs
<1>10. ASSUME CoreDies \/ UpdateHalt \/ \E q \in Quits : QuitHalt(q) PROVE Goal
  <2>1. CommandDropped \/ UNCHANGED cmd
    BY <1>10, Zenon DEF CoreDies, UpdateHalt, QuitHalt
  <2> QED
    BY <2>1, <1>3, <1>4, Zenon
<1>11. ASSUME Ends PROVE Goal
  BY <1>11, <1>2, Zenon DEF Ends
<1>12. ASSUME \/ Breaks \/ AutoNext \/ AutoTimeout \/ BootProbe \/ PollFires \/ RequestReads
              \/ SetAutoconnect \/ Quit \/ Update \/ UpdateError
              \/ \E q \in Quits : QuitCancel(q)
       PROVE  Goal
  <2>1. UNCHANGED cmd
    BY <1>12, Zenon
      DEF Breaks, AutoNext, AutoCheck, AutoServe, AutoLaunch, AutoStart, AutoTimeout,
      autoRest,
                 BootProbe, PollFires, RequestReads, SetAutoconnect, Quit, Update, UpdateError, QuitCancel
  <2> QED
    BY <2>1, <1>3, Zenon
<1>13. ASSUME UNCHANGED clientVars PROVE Goal
  BY <1>13, <1>3, Zenon DEF clientVars
<1> HIDE DEF Goal
<1>14. Goal
  BY <1>5, <1>6, <1>7, <1>8, <1>9, <1>10, <1>11, <1>12, <1>13, Zenon
  DEF ClientNext, CommandNext, QuitNext, UpdateNext, QuitExit, UpdateFinish
<1> QED
  BY <1>14, Zenon DEF Goal

-----------------------------------------------------------------------------
(* The stops and CANCELLED. *)

\* A step that is no step of a stop: it leaves the history, CANCELLED and the
\* threads of Quit alone.
Quiet == UNCHANGED <<histVars, cancelled, quit>>

\* Which steps are.
LEMMA StopsMove ==
  ASSUME [ClientNext]_clientVars
  PROVE  \/ Quiet \/ Click \/ Cancel \/ Halt \/ SetAutoconnect \/ Quit \/ Ends
         \/ \E q \in Quits : QuitCancel(q) \/ QuitHalt(q)
<1>1. CASE EngineDone \/ Breaks \/ CoreDies
  BY <1>1, Zenon DEF EngineDone, Breaks, CoreDies, Quiet, flagVars
<1>2. CASE AutoNext \/ AutoTimeout
  BY <1>2, Zenon
    DEF AutoNext, AutoCheck, AutoServe, AutoLaunch, AutoStart, AutoTimeout, autoRest,
    flagVars, Quiet
<1>3. CASE Serve \/ Launch \/ Setup \/ Start \/ Repair \/ Ok \/ AfterInstall \/ Bad \/ Timeout
  BY <1>3, Zenon
    DEF Serve, Launch, Setup, Start, Repair, Ok, AfterInstall, Bad, Timeout,
    commandRest, flagVars,
              Quiet
<1>4. CASE BootProbe \/ PollFires \/ RequestReads \/ RequestDone
  BY <1>4, Zenon
    DEF BootProbe, PollFires, RequestReads, RequestDone, viewRest, flagVars, Quiet
<1>5. CASE Update \/ UpdateHalt \/ UpdateError
  BY <1>5, Zenon DEF Update, UpdateHalt, UpdateError, Quiet
<1>6. CASE UNCHANGED clientVars
  BY <1>6, Zenon DEF clientVars, flagVars, Quiet
<1> QED
  BY <1>1, <1>2, <1>3, <1>4, <1>5, <1>6, Zenon
  DEF ClientNext, CommandNext, QuitNext, UpdateNext, QuitExit, UpdateFinish

Stops == HistoryFits /\ StopsAreCancelled /\ OffIsCancelled

\* A click: a stop that is asked for is not at its stop yet.
LEMMA ClickStops == ASSUME CommandFits, Stops, Click PROVE Stops'
<1>1. PICK kind \in {Pad, "reset"} :
        /\ cmd' = [kind |-> kind, pc |-> FirstStep(kind)]
        /\ CASE kind \in Starts -> Asked [] kind = "disconnect" -> AskedToStop(0)
             [] OTHER -> UNCHANGED histVars
  BY Zenon DEF Click, Starts
<1>2. Asked \/ AskedToStop(0) \/ UNCHANGED histVars
  BY <1>1, Zenon
<1>3. cmd'.pc # "halt" /\ UNCHANGED <<quit, cancelled>>
  BY <1>1, Zenon DEF FirstStep, Click, flagVars
<1>4. CASE Asked
  BY <1>3, <1>4, Zenon DEF Stops, HistoryFits, StopsAreCancelled, OffIsCancelled, Asked
<1>5. CASE AskedToStop(0)
  <2>1. stops' = stops \cup {0} /\ UNCHANGED <<off, late>> /\ \A q \in Quits : q # 0
    BY <1>5, ClientAssumption DEF AskedToStop, Quits
  <2> QED
    BY <1>3, <2>1 DEF Stops, HistoryFits, StopsAreCancelled, OffIsCancelled
<1>6. CASE UNCHANGED histVars
  BY <1>3, <1>6, Zenon DEF Stops, HistoryFits, StopsAreCancelled, OffIsCancelled, histVars
<1> QED
  BY <1>2, <1>4, <1>5, <1>6, Zenon

\* The stop s fails or is carried out: it counts only with CANCELLED set.
LEMMA EndOfStop ==
  ASSUME Stops, NEW s, NEW starts, Failed(s) \/ CarriedOut(s, starts), s \in stops => cancelled,
         UNCHANGED cancelled
  PROVE  /\ stops' \subseteq stops /\ off' \in BOOLEAN
         /\ off' => cancelled'
<1>1. CASE Failed(s)
  BY <1>1, Zenon DEF Stops, HistoryFits, OffIsCancelled, Failed
<1>2. CASE CarriedOut(s, starts)
  <2>1. stops' = stops \ {s} /\ off' = (off \/ s \in stops)
    BY <1>2, Zenon DEF CarriedOut
  <2> QED
    BY <2>1, Zenon DEF Stops, HistoryFits, OffIsCancelled
<1> QED
  BY <1>1, <1>2, Zenon

\* Every step of a stop keeps what ClientInv says of the stops.
LEMMA StopsStep ==
  ASSUME CommandFits, Stops, [ClientNext]_clientVars
  PROVE  Stops'
<1>1. cmd'.pc = "halt" => cmd.pc = "halt" \/ Cancel
  BY CommandMoves, Zenon
<1>2. CASE Quiet
  BY <1>1, <1>2, Zenon
    DEF Quiet, histVars, Stops, HistoryFits, StopsAreCancelled, OffIsCancelled, Cancel, Goes
<1>3. CASE Cancel
  BY <1>3, Zenon DEF Cancel, histVars, Stops, HistoryFits, StopsAreCancelled, OffIsCancelled
<1>4. CASE Halt
  <2>1. /\ cmd.pc = "halt" /\ (Goes("ok") \/ Goes("bad"))
        /\ Failed(0) \/ CarriedOut(0, InAttempt)
        /\ UNCHANGED <<cancelled, quit>>
    BY <1>4, Zenon DEF Halt, commandRest, flagVars
  <2>2. 0 \in stops => cancelled
    BY <2>1, Zenon DEF Stops, StopsAreCancelled
  <2>3. stops' \subseteq stops /\ off' \in BOOLEAN /\ (off' => cancelled')
    BY <2>1, <2>2, EndOfStop, Zenon
  <2>4. cmd'.pc # "halt"
    BY <2>1, Zenon DEF Goes, CommandFits
  <2> QED
    BY <2>1, <2>3, <2>4, Zenon DEF Stops, HistoryFits, StopsAreCancelled, OffIsCancelled
<1>5. CASE SetAutoconnect
  <2>1. UNCHANGED <<cmd, quit>>
    BY <1>5, Zenon DEF SetAutoconnect
  <2>2. PICK enabled \in BOOLEAN :
          /\ cancelled' = (cancelled /\ ~enabled)
          /\ IF enabled THEN Asked ELSE UNCHANGED histVars
    BY <1>5, Zenon DEF SetAutoconnect
  <2>3. CASE enabled
    BY <2>1, <2>2, <2>3, Zenon DEF Asked, Stops, HistoryFits, StopsAreCancelled, OffIsCancelled
  <2>4. CASE ~enabled
    <3>1. UNCHANGED <<stops, off>>
      BY <2>2, <2>4, Zenon DEF histVars
    <3>2. cancelled' \in BOOLEAN /\ (cancelled => cancelled')
      BY <2>2, <2>4, Zenon
    <3> QED
      BY <2>1, <3>1, <3>2, Zenon DEF Stops, HistoryFits, StopsAreCancelled, OffIsCancelled
  <2> QED
    BY <2>3, <2>4, Zenon
<1>6. CASE Quit
  <2>1. PICK q \in Quits : quit' = [quit EXCEPT ![q] = "cancel"] /\ AskedToStop(q)
    BY <1>6, Zenon DEF Quit
  <2>2. UNCHANGED <<cmd, cancelled, off>> /\ stops' = stops \cup {q} /\ q \in Nat \ {0}
    BY <1>6, <2>1, ClientAssumption DEF Quit, AskedToStop, Quits
  <2> QED
    BY <2>1, <2>2, Zenon DEF Stops, HistoryFits, StopsAreCancelled, OffIsCancelled, QuitPcs
<1>7. CASE Ends
  BY <1>7, Zenon
    DEF Ends, flagVars, NoQuit, NoCommand, Stops, HistoryFits, StopsAreCancelled, OffIsCancelled,
              QuitPcs
<1>8. ASSUME NEW q \in Quits, QuitCancel(q) PROVE Stops'
  <2>1. quit' = [quit EXCEPT ![q] = "halt"] /\ cancelled' = TRUE /\ UNCHANGED <<stops, off>>
    BY <1>8, Zenon DEF QuitCancel, QuitGoes, histVars
  <2> QED
    BY <2>1, Zenon DEF Stops, HistoryFits, StopsAreCancelled, OffIsCancelled, QuitPcs
<1>9. ASSUME NEW q \in Quits, QuitHalt(q) PROVE Stops'
  <2>1. /\ quit[q] = "halt" /\ quit' = [quit EXCEPT ![q] = "exit"] /\ UNCHANGED cancelled
        /\ Failed(q) \/ CarriedOut(q, InAttempt \cup InCommand)
    BY <1>9, Zenon DEF QuitHalt, QuitGoes, flagVars
  <2>2. q \in stops => cancelled
    BY <2>1, Zenon DEF Stops, StopsAreCancelled
  <2>3. stops' \subseteq stops /\ off' \in BOOLEAN /\ (off' => cancelled')
    BY <2>1, <2>2, EndOfStop, Zenon
  <2>4. cmd'.pc = "halt" => cmd.pc = "halt"
    BY <1>9, Zenon DEF QuitHalt, CommandDropped, CommandFits
  <2> QED
    BY <2>1, <2>3, <2>4, Zenon DEF Stops, HistoryFits, StopsAreCancelled, OffIsCancelled, QuitPcs
<1> HIDE DEF Stops, CommandFits
<1> QED
  BY <1>2, <1>3, <1>4, <1>5, <1>6, <1>7, <1>8, <1>9, ClickStops, StopsMove, Zenon

-----------------------------------------------------------------------------
(* The starts. *)

\* An attempt begins only where try_connect_loop finds CANCELLED unset.
LEMMA AttemptsMove ==
  ASSUME [ClientNext]_clientVars, auto' \in Trying
  PROVE  \/ auto \in Trying /\ attempts' = attempts
         \/ ~cancelled /\ Quiet
<1>1. CASE AutoCheck
  <2>1. MayTry
    BY <1>1, Zenon DEF AutoCheck, Trying
  <2> QED
    BY <1>1, <2>1, Zenon DEF AutoCheck, MayTry, autoRest, flagVars, Quiet
<1>2. CASE AutoServe \/ AutoLaunch \/ AutoStart \/ AutoTimeout
  BY <1>2, Zenon DEF AutoServe, AutoLaunch, AutoStart, AutoTimeout, Trying
<1>3. CASE EngineDone \/ CoreDies
  BY <1>3, Zenon DEF EngineDone, CoreDies, AutoDropped, Trying
<1>4. CASE Setup \/ Halt
  BY <1>4, Zenon DEF Setup, Halt, AutoDropped, commandRest, Trying
<1>5. CASE UpdateHalt \/ \E q \in Quits : QuitHalt(q)
  BY <1>5, Zenon DEF UpdateHalt, QuitHalt, AutoDropped, Trying
<1>6. CASE SetAutoconnect
  BY <1>6, Zenon DEF SetAutoconnect, Trying
<1>7. CASE Ends
  BY <1>7, Zenon DEF Ends, Trying
<1>8. CASE Serve \/ Launch \/ Start \/ Repair \/ Cancel \/ Ok \/ AfterInstall \/ Bad \/ Timeout
  BY <1>8, Zenon
    DEF Serve, Launch, Start, Repair, Cancel, Ok, AfterInstall, Bad, Timeout,
    commandRest, autoVars
<1>9. CASE \/ Breaks \/ Click \/ BootProbe \/ PollFires \/ RequestReads \/ RequestDone
           \/ Quit \/ Update \/ UpdateError \/ \E q \in Quits : QuitCancel(q)
  BY <1>9, Zenon
    DEF Breaks, Click, BootProbe, PollFires, RequestReads, RequestDone, viewRest, Quit,
    Update,
              UpdateError, QuitCancel, autoVars
<1>10. CASE UNCHANGED clientVars
  BY <1>10, Zenon DEF clientVars, autoVars
<1> QED
  BY <1>1, <1>2, <1>3, <1>4, <1>5, <1>6, <1>7, <1>8, <1>9, <1>10, Zenon
  DEF ClientNext, AutoNext, CommandNext, QuitNext, UpdateNext, QuitExit, UpdateFinish

\* The engine is started by an attempt of auto-connect or by a command that
\* starts protection.
LEMMA EngineMoves ==
  ASSUME CommandFits, [ClientNext]_clientVars, engine' # "off"
  PROVE  \/ engine # "off" /\ owner' = owner
         \/ auto \in Trying /\ owner' = attempts /\ Quiet
         \/ cmd.kind \in Starts /\ owner' = 0 /\ Quiet
<1>1. CASE AutoStart
  BY <1>1, Zenon DEF AutoStart, autoRest, flagVars, Trying, Quiet
<1>2. CASE Start
  BY <1>2, Zenon DEF Start, commandRest, flagVars, CommandFits, Quiet
<1>3. CASE EngineDone \/ Breaks \/ CoreDies
  BY <1>3, Zenon DEF EngineDone, Breaks, CoreDies, Halts
<1>4. CASE AutoCheck \/ AutoServe \/ AutoLaunch \/ AutoTimeout
  BY <1>4, Zenon DEF AutoCheck, AutoServe, AutoLaunch, AutoTimeout, coreVars
<1>5. CASE Setup \/ Halt \/ Repair
  BY <1>5, Zenon DEF Setup, Halt, Repair, Halts, coreVars
<1>6. CASE UpdateHalt \/ \E q \in Quits : QuitHalt(q)
  BY <1>6, Zenon DEF UpdateHalt, QuitHalt, Halts, coreVars
<1>7. CASE Serve \/ Launch \/ Cancel \/ Ok \/ AfterInstall \/ Bad \/ Timeout
  BY <1>7, Zenon DEF Serve, Launch, Cancel, Ok, AfterInstall, Bad, Timeout, coreVars
<1>8. CASE Ends
  BY <1>8, Zenon DEF Ends, coreVars
<1>9. CASE \/ Click \/ BootProbe \/ PollFires \/ RequestReads \/ RequestDone \/ SetAutoconnect
           \/ Quit \/ Update \/ UpdateError \/ \E q \in Quits : QuitCancel(q)
  BY <1>9, Zenon
    DEF Click, BootProbe, PollFires, RequestReads, RequestDone, viewRest, SetAutoconnect,
    Quit,
              Update, UpdateError, QuitCancel, coreVars
<1>10. CASE UNCHANGED clientVars
  BY <1>10, Zenon DEF clientVars, coreVars
<1> QED
  BY <1>1, <1>2, <1>3, <1>4, <1>5, <1>6, <1>7, <1>8, <1>9, <1>10, Zenon
  DEF ClientNext, AutoNext, CommandNext, QuitNext, UpdateNext, QuitExit, UpdateFinish

\* What the history says stays, or someone asks for protection, or a stop is
\* carried out, which leaves the engine off and the starts under way in late.
LEMMA HistoryMoves ==
  ASSUME CommandFits, Stops, [ClientNext]_clientVars
  PROVE  \/ off' = off /\ late' = late /\ (Click => cmd'.kind \notin Starts)
         \/ ~off'
         \/ /\ engine' = "off"
            /\ auto' \in Trying => attempts' \in late'
            /\ cmd'.kind \in Starts => 0 \in late'
<1> DEFINE Goal == \/ off' = off /\ late' = late /\ (Click => cmd'.kind \notin Starts)
                   \/ ~off'
                   \/ /\ engine' = "off"
                      /\ auto' \in Trying => attempts' \in late'
                      /\ cmd'.kind \in Starts => 0 \in late'
<1>1. ASSUME Click PROVE Goal
  <2>1. PICK kind \in {Pad, "reset"} :
          /\ cmd' = [kind |-> kind, pc |-> FirstStep(kind)]
          /\ CASE kind \in Starts -> Asked [] kind = "disconnect" -> AskedToStop(0)
               [] OTHER -> UNCHANGED histVars
    BY <1>1, Zenon DEF Click, Starts
  <2>2. CASE kind \in Starts
    <3>1. Asked
      BY <2>1, <2>2, Zenon DEF Starts
    <3> QED
      BY <3>1, Zenon DEF Asked
  <2>3. CASE kind \notin Starts
    <3>1. AskedToStop(0) \/ UNCHANGED histVars
      BY <2>1, <2>3, Zenon
    <3> QED
      BY <2>1, <2>3, <3>1, Zenon DEF AskedToStop, histVars
  <2> QED
    BY <2>2, <2>3, Zenon
<1>2. ASSUME Halt PROVE Goal
  <2>1. ~Click
    BY <1>2, Zenon DEF Halt, Click, Busy, CommandFits
  <2>2. CASE Failed(0) \/ (0 \notin stops /\ CarriedOut(0, InAttempt))
    BY <2>1, <2>2, Zenon DEF Failed, CarriedOut, Stops, HistoryFits
  <2>3. CASE 0 \in stops /\ CarriedOut(0, InAttempt) /\ ~Failed(0)
    <3>1. /\ Halts /\ AutoDropped /\ late' = InAttempt /\ attempts' = attempts
          /\ cmd.pc = "halt" /\ Goes("ok")
      BY <1>2, <2>3, Zenon DEF Halt, CarriedOut, commandRest
    <3>2. cmd'.kind \notin Starts
      BY <3>1, Zenon DEF CommandFits, Goes, Starts
    <3>3. auto' \in Trying => attempts' \in late'
      BY <3>1, Zenon DEF AutoDropped, InAttempt, Trying
    <3> QED
      BY <3>1, <3>2, <3>3, Zenon DEF Halts
  <2> QED
    BY <1>2, <2>2, <2>3, Zenon DEF Halt
<1>3. ASSUME NEW q \in Quits, QuitHalt(q) PROVE Goal
  <2>1. ~Click
    BY <1>3, Zenon DEF QuitHalt, QuitGoes, Click, Stops, HistoryFits, QuitPcs
  <2>2. CASE Failed(q) \/ (q \notin stops /\ CarriedOut(q, InAttempt \cup InCommand))
    BY <2>1, <2>2, Zenon DEF Failed, CarriedOut, Stops, HistoryFits
  <2>3. CASE q \in stops /\ CarriedOut(q, InAttempt \cup InCommand) /\ ~Failed(q)
    <3>1. /\ Halts /\ AutoDropped /\ CommandDropped /\ late' = InAttempt \cup InCommand
          /\ attempts' = attempts
      BY <1>3, <2>3, Zenon DEF QuitHalt, CarriedOut
    <3>2. cmd'.kind \in Starts => 0 \in late'
      BY <3>1, Zenon DEF CommandFits, CommandDropped, InCommand, Starts
    <3>3. auto' \in Trying => attempts' \in late'
      BY <3>1, Zenon DEF AutoDropped, InAttempt, Trying
    <3> QED
      BY <3>1, <3>2, <3>3, Zenon DEF Halts
  <2> QED
    BY <1>3, <2>2, <2>3, Zenon DEF QuitHalt
<1>4. ASSUME SetAutoconnect, ~Click PROVE Goal
  BY <1>4, Zenon DEF SetAutoconnect, Asked, histVars
<1>5. ASSUME \/ Quiet \/ Cancel \/ Quit \/ Ends \/ \E q \in Quits : QuitCancel(q),
             ~Click
      PROVE  Goal
  BY <1>5, Zenon DEF Quiet, Cancel, Quit, AskedToStop, Ends, QuitCancel, histVars
<1> HIDE DEF Goal, CommandFits, Stops
<1>6. Goal
  BY <1>1, <1>2, <1>3, <1>4, <1>5, StopsMove, Zenon
<1> QED
  BY <1>6, Zenon DEF Goal

\* A start under way where protection has to stay off is one the stop found
\* under way, and so is the engine's.
LEMMA LateStep ==
  ASSUME CommandFits, Stops, OnlyLate, StayOff, [ClientNext]_clientVars
  PROVE  OnlyLate' /\ StayOff'
<1>1. CASE ~off'
  BY <1>1, Zenon DEF OnlyLate, StayOff
<1>2. CASE /\ engine' = "off"
           /\ auto' \in Trying => attempts' \in late'
           /\ cmd'.kind \in Starts => 0 \in late'
  BY <1>2, Zenon DEF OnlyLate, StayOff
<1>3. CASE off' /\ off' = off /\ late' = late /\ (Click => cmd'.kind \notin Starts)
  <2>1. off /\ cancelled
    BY <1>3, Zenon DEF Stops, OffIsCancelled
  <2>2. auto' \in Trying => attempts' \in late'
    BY <1>3, <2>1, AttemptsMove, Zenon DEF OnlyLate
  <2>3. cmd'.kind \in Starts => 0 \in late'
    BY <1>3, <2>1, CommandMoves, Zenon DEF OnlyLate
  <2>4. engine' = "off" \/ owner' \in late'
    BY <1>3, <2>1, EngineMoves, Zenon DEF OnlyLate, StayOff
  <2> QED
    BY <2>2, <2>3, <2>4, Zenon DEF OnlyLate, StayOff
<1> QED
  BY <1>1, <1>2, <1>3, HistoryMoves, Zenon

-----------------------------------------------------------------------------
\* At the launch nothing has been asked for.
LEMMA ClientInitInv == ClientInit => ClientInv
<1> SUFFICES ASSUME ClientInit PROVE ClientInv
  OBVIOUS
<1>1. CommandFits /\ cmd.kind \notin Starts /\ cmd.pc # "halt"
  BY Zenon DEF ClientInit, CommandFits, NoCommand, Kinds, Pcs, Starts
<1>2. HistoryFits
  BY Zenon DEF ClientInit, HistoryFits, NoQuit, QuitPcs
<1>3. ~off /\ stops = {}
  BY Zenon DEF ClientInit
<1> QED
  BY <1>1, <1>2, <1>3, Zenon DEF ClientInv, StopsAreCancelled, OffIsCancelled, OnlyLate, StayOff

\* ClientInv is inductive.
LEMMA ClientInvariance == ClientInv /\ [ClientNext]_clientVars => ClientInv'
<1>1. ASSUME ClientInv, [ClientNext]_clientVars PROVE CommandFits' /\ Stops' /\ OnlyLate' /\ StayOff'
  BY <1>1, CommandStep, StopsStep, LateStep, Zenon DEF ClientInv, Stops
<1> QED
  BY <1>1, Zenon DEF ClientInv, Stops

\* Once the user's stop was carried out, protection does not come back by
\* itself, however the threads of the application interleave (set_protection,
\* quit_with_core, try_connect_loop).
THEOREM OffStaysOff == ClientSpec => []StayOff
<1>1. ClientInv => StayOff
  BY Zenon DEF ClientInv
<1> QED
  BY <1>1, ClientInitInv, ClientInvariance, PTL DEF ClientSpec
=============================================================================
