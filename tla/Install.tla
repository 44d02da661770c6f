------------------------------ MODULE Install -------------------------------
(***************************************************************************)
(* The commands that install, start, stop and remove the daemon on macOS,  *)
(* one at a time, against launchd and a daemon that protects the network   *)
(* meanwhile, may hang and may die.  Any step of a command may fail, and   *)
(* any command may be killed between two of its steps.                     *)
(***************************************************************************)
EXTENDS Naturals, Sequences

CONSTANT MaxCommands  \* bound: commands run

ASSUME InstallAssumption == MaxCommands \in Nat

VARIABLES
  files,     \* the installed programs: "none", "old", "new" or "damaged"
  payload,   \* the programs beside the one setup runs from: "whole", or one is damaged
  plist,     \* the registration with launchd: "none", "old" or "new"
  job,       \* launchd has the job loaded
  daemon,    \* the daemon runs
  socket,    \* the file of its socket
  traces,    \* what the engine has changed in the system
  command,   \* the command that runs: [op, pc, at]
  commands   \* commands so far

installVars == <<files, payload, plist, job, daemon, socket, traces, command, commands>>

Programs == <<"core", "byedpi", "singbox">>
Names    == {Programs[i] : i \in DOMAIN Programs}

\* In the order a session makes them: the undo record of the system DNS, the DNS
\* settings, the helper processes, the split default routes.
Traces == <<"undo", "dns", "sidecars", "routes">>

Idle    == {"none", "ok", "failed"}
NoTrace == {}

InstallInit ==
  /\ \/ files = [n \in Names |-> "none"] /\ plist = "none"
     \/ files = [n \in Names |-> "old"] /\ plist = "old"
  /\ payload = "whole"
  /\ job = FALSE /\ daemon = FALSE /\ socket = FALSE /\ traces = NoTrace
  /\ command = [op |-> "none", pc |-> "none", at |-> 0] /\ commands = 0

-----------------------------------------------------------------------------
(* The daemon. *)

\* A session makes the next of its changes.
Protect ==
  /\ daemon
  /\ \E i \in DOMAIN Traces :
       /\ Traces[i] \notin traces /\ \A j \in 1..(i - 1) : Traces[j] \in traces
       /\ traces' = traces \cup {Traces[i]}
  /\ UNCHANGED <<files, payload, plist, job, daemon, socket, command, commands>>

\* A session that ends takes its changes back; the DNS settings and their record
\* stay if they cannot be restored, the routes if they cannot be deleted.
TakenBack == {NoTrace, traces \cap {"undo", "dns"}, traces \cap {"routes"}}

Unprotect ==
  /\ daemon /\ traces # NoTrace
  /\ traces' \in TakenBack
  /\ UNCHANGED <<files, payload, plist, job, daemon, socket, command, commands>>

\* SIGTERM: Program.Stop.
Exits == daemon' = FALSE /\ socket' = FALSE /\ traces' \in TakenBack

\* SIGKILL, or the process dies.
Dies == daemon' = FALSE /\ UNCHANGED <<socket, traces>>

DaemonDies ==
  /\ daemon /\ Dies
  /\ UNCHANGED <<files, payload, plist, job, command, commands>>

\* The application is replaced or damaged while setup runs from it.
PayloadChanges ==
  /\ command.op = "setup" /\ command.pc \notin Idle
  /\ payload' \in (Names \cup {"whole"}) \ {payload}
  /\ UNCHANGED <<files, plist, job, daemon, socket, traces, command, commands>>

-----------------------------------------------------------------------------
(* The steps of the commands. *)

At(pc) == command.pc = pc
Go(pc) == command' = [command EXCEPT !.pc = pc, !.at = 1]

First == [setup |-> "verify", start |-> "load", stop |-> "terminate", uninstall |-> "leftover"]

Begin ==
  /\ command.pc \in Idle /\ commands < MaxCommands /\ commands' = commands + 1
  /\ \E op \in DOMAIN First :
       /\ command' = [op |-> op, pc |-> First[op], at |-> 1]
       /\ payload' \in IF op = "setup" THEN Names \cup {"whole"} ELSE {"whole"}
  /\ UNCHANGED <<files, plist, job, daemon, socket, traces>>

\* A step returns an error, or the command is killed before it.
CommandFails ==
  /\ command.pc \notin Idle /\ Go("failed")
  /\ UNCHANGED <<files, payload, plist, job, daemon, socket, traces, commands>>

\* prepareServiceInstall: the whole payload first.
VerifyPayload ==
  /\ At("verify") /\ payload = "whole"
  /\ Go("terminate")
  /\ UNCHANGED <<files, payload, plist, job, daemon, socket, traces, commands>>

\* StopLaunchDaemon: SIGTERM to the job, and SIGKILL to one that is still there
\* after five seconds.
Terminate ==
  /\ At("terminate")
  /\ IF job /\ daemon THEN Exits \/ Dies ELSE UNCHANGED <<daemon, socket, traces>>
  /\ Go("bootout")
  /\ UNCHANGED <<files, payload, plist, job, commands>>

BootOut ==
  /\ At("bootout") /\ job' = FALSE
  /\ Go("sidecars")
  /\ UNCHANGED <<files, payload, plist, daemon, socket, traces, commands>>

\* Variant: the helpers are left to the daemon that started them.
StopSidecarsNone ==
  /\ At("sidecars") /\ Go("socket")
  /\ UNCHANGED <<files, payload, plist, job, daemon, socket, traces, commands>>

\* stopInstalledSidecars: the helpers of a daemon that was killed.
StopSidecars ==
  /\ At("sidecars") /\ traces' = traces \ {"sidecars"}
  /\ Go("socket")
  /\ UNCHANGED <<files, payload, plist, job, daemon, socket, commands>>

\* RemoveIdleSocket.
RemoveSocket ==
  /\ At("socket") /\ socket' = (socket /\ daemon)
  /\ Go("restore")
  /\ UNCHANGED <<files, payload, plist, job, daemon, traces, commands>>

AfterStop == IF command.op = "setup" THEN Go("copy") ELSE Go("ok")

\* stopService: without an undo record only the routes are cleared; with one,
\* LeftoverNetwork restores the DNS settings too.
Restore ==
  /\ At("restore") /\ AfterStop
  /\ traces' = traces \ (IF "undo" \in traces THEN {"undo", "dns", "routes"} ELSE {"routes"})
  /\ UNCHANGED <<files, payload, plist, job, daemon, socket, commands>>

\* LeftoverNetwork tries the other steps when one of them fails.
RestorePartly ==
  /\ At("restore") /\ Go("failed") /\ "undo" \in traces
  /\ traces' \in {traces \ {"undo", "dns"}, traces \ {"routes"}}
  /\ UNCHANGED <<files, payload, plist, job, daemon, socket, commands>>

\* Variant: the copy is published before its signature is verified.
CopiesUnverified(n) == {IF payload = n THEN "damaged" ELSE "new"}

\* What copyReplace may leave in place of an installed program: the copy, whose
\* signature is verified before it is renamed.
Copies(n) == IF payload = n THEN {} ELSE {"new"}

\* installCanonicalBinary and installSidecars.
Copy ==
  /\ At("copy")
  /\ \E f \in Copies(Programs[command.at]) : files' = [files EXCEPT ![Programs[command.at]] = f]
  /\ IF command.at < Len(Programs) THEN command' = [command EXCEPT !.at = @ + 1] ELSE Go("unregister")
  /\ UNCHANGED <<payload, plist, job, daemon, socket, traces, commands>>

\* The rename fails, the old program is removed, and it fails again.
CopyLost ==
  /\ At("copy") /\ payload # Programs[command.at]
  /\ files' = [files EXCEPT ![Programs[command.at]] = "none"]
  /\ Go("failed")
  /\ UNCHANGED <<payload, plist, job, daemon, socket, traces, commands>>

Unregister ==
  /\ At("unregister") /\ plist' = "none"
  /\ Go("register")
  /\ UNCHANGED <<files, payload, job, daemon, socket, traces, commands>>

\* mustSetup: installed if the status says it is not.
Register ==
  /\ At("register") /\ plist' = IF plist = "none" THEN "new" ELSE plist
  /\ Go("load")
  /\ UNCHANGED <<files, payload, job, daemon, socket, traces, commands>>

\* StartLaunchDaemon: bootstrap unless it is loaded, then kickstart, which leaves
\* a daemon that runs alone.
LoadJob ==
  /\ At("load") /\ (job \/ plist # "none") /\ job' = TRUE
  /\ Go("kick")
  /\ UNCHANGED <<files, payload, plist, daemon, socket, traces, commands>>

Kick ==
  /\ At("kick") /\ (daemon \/ files["core"] # "none")
  /\ daemon' = TRUE /\ socket' = TRUE
  /\ Go("ok")
  /\ UNCHANGED <<files, payload, plist, job, traces, commands>>

\* uninstall: what LeftoverNetwork can restore, whether or not the daemon runs.
Leftover ==
  /\ At("leftover")
  /\ traces' \in {traces, traces \ {"undo", "dns"}, traces \ {"routes"}, traces \ {"undo", "dns", "routes"}}
  /\ Go("remove")
  /\ UNCHANGED <<files, payload, plist, job, daemon, socket, commands>>

\* Uninstall of the service library stops the job and deletes the registration;
\* afterUninstall removes the socket.
Remove ==
  /\ At("remove")
  /\ IF daemon THEN (Exits \/ (daemon' = FALSE /\ socket' = FALSE /\ UNCHANGED traces))
     ELSE daemon' = FALSE /\ socket' = FALSE /\ UNCHANGED traces
  /\ job' = FALSE /\ plist' = "none"
  /\ Go("ok")
  /\ UNCHANGED <<files, payload, commands>>

InstallNext ==
  \/ Protect \/ Unprotect \/ DaemonDies \/ PayloadChanges
  \/ Begin \/ CommandFails
  \/ VerifyPayload \/ Terminate \/ BootOut \/ StopSidecars \/ RemoveSocket \/ Restore \/ RestorePartly
  \/ Copy \/ CopyLost \/ Unregister \/ Register \/ LoadJob \/ Kick \/ Leftover \/ Remove

-----------------------------------------------------------------------------
\* When stop reports success, and before setup replaces the first program, the
\* daemon is gone and the system is as it was before any session: no job, no
\* helper process, no socket, no route, no DNS setting and no record of one,
\* although earlier daemons may have been killed and earlier stops have failed
\* (stopService, "Restore only offveil's recorded DNS/routes after sidecars have
\* exited").
StoppedIsClean ==
  command.pc = "copy" \/ (command.op = "stop" /\ command.pc = "ok") =>
    ~job /\ ~daemon /\ ~socket /\ traces = NoTrace

\* A setup that reports success has replaced every program and the registration,
\* whatever an earlier setup left half done; and no installed program is ever a
\* damaged one, although the payload may change after it was verified
\* (CopySigned, "Verify the temporary copy before publishing it").
SetupIsWhole ==
  /\ \A n \in Names : files[n] # "damaged"
  /\ command.op = "setup" /\ command.pc \in {"load", "kick", "ok"} =>
       plist = "new" /\ \A n \in Names : files[n] = "new"
=============================================================================
