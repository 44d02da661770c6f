------------------------------- MODULE Client -------------------------------
(***************************************************************************)
(* The application on macOS: the window with its one command at a time and *)
(* its status polling, the auto-connect thread, Quit and the installation  *)
(* of an update, against a daemon that any of them may start, stop or ask  *)
(* for something.  The daemon is seen through its answers; what happens in *)
(* it is the subject of the modules Service and Install.                   *)
(*                                                                         *)
(* An action is one call a thread makes, or one turn of the event loop.    *)
(* Timers fire at any time.                                                *)
(***************************************************************************)
EXTENDS Naturals

CONSTANTS MaxClicks,   \* bound: what the user does
          MaxAttempts, \* bound: attempts of auto-connect (in the code 16 for each thread)
          MaxFaults    \* bound: calls that fail, components and daemons that die

ASSUME ClientAssumption == /\ MaxClicks \in Nat /\ MaxFaults \in Nat
                           /\ MaxAttempts \in Nat \ {0}

VARIABLES
  installed, core,     \* the service is installed and current; it runs
  engine,              \* "off", "starting", "on" or "broken"
  owner,               \* history: the attempt of auto-connect that started it, 0 for the user
  alive, quitting,     \* the application runs; QUITTING
  cancelled, disabled, \* CANCELLED; the marker of the preference
  auto, attempts,      \* where the auto-connect thread is; attempts so far
  quit, update,        \* where the thread of each Quit and the one of an update are
  phase, status,       \* the window's phase, and the status it shows
  needsInstall,        \* what the last probe of the installation said
  boot,                \* the first probe is still to come
  request,             \* statusRequestRef: "none", "asked", or what came of it
  poll,                \* useStatusPolling: "off", "timer" or "running"
  cmd,                 \* the command that makes the window busy
  stops, off, late,    \* history: the stops asked for since protection last was; see StayOff
  clicks, faults

coreVars == <<installed, core, engine, owner>>
flagVars == <<quitting, cancelled, disabled>>
autoVars == <<auto, attempts>>
viewVars == <<phase, status, needsInstall, boot>>
histVars == <<stops, off, late>>
clientVars == <<coreVars, alive, flagVars, autoVars, quit, update, viewVars, request, poll, cmd,
                histVars, clicks, faults>>

NoCommand == [kind |-> "none", pc |-> "none"]

\* The threads of Quit: as many as there are clicks, at most.
Quits == 1..MaxClicks
NoQuit == [q \in Quits |-> "none"]

ClientInit ==
  /\ installed \in BOOLEAN /\ core \in {FALSE, installed}
  /\ engine = IF core THEN "on" ELSE "off"
  /\ owner = 0
  /\ alive = TRUE /\ quitting = FALSE /\ cancelled = FALSE /\ disabled \in BOOLEAN
  /\ auto = (IF disabled THEN "none" ELSE "check") /\ attempts = 0
  /\ quit = NoQuit /\ update = "none"
  /\ phase = "loading" /\ status = "none" /\ needsInstall = FALSE /\ boot = TRUE
  /\ request = "none" /\ poll = "off" /\ cmd = NoCommand
  /\ stops = {} /\ off = FALSE /\ late = {}
  /\ clicks = 0 /\ faults = 0

-----------------------------------------------------------------------------
Busy      == cmd.kind # "none"
Enabled   == phase \in {"ready", "error"} /\ ~Busy
Protected == engine \in {"on", "broken"}
Shown     == status \in {"on", "broken"}

\* useStatusPolling's effect after a render: cleaned up when polling is not
\* enabled, set up with its timer when it is again, and at p otherwise.
Rerender(p) == poll' = IF ~Enabled' THEN "off" ELSE IF poll = "off" THEN "timer" ELSE p

\* refreshStatus: a request under way is shared.
Joined  == IF request = "none" THEN "asked" ELSE request
Refresh == request' = Joined

Fault == faults < MaxFaults /\ faults' = faults + 1

Goes(pc) == cmd' = [cmd EXCEPT !.pc = pc]

\* Calls that wait for the engine when the daemon goes end in an error.
AutoDropped    == auto' = IF auto = "awaits" THEN "check" ELSE auto
CommandDropped == cmd' = IF cmd.pc = "awaits" THEN [cmd EXCEPT !.pc = "bad"] ELSE cmd

\* sudo offveil-core stop.
Halts == core' = FALSE /\ engine' = "off" /\ owner' = 0 /\ UNCHANGED installed

\* The attempt of auto-connect under way when the user's stop is carried out.
InAttempt == IF auto \in {"serve", "launch", "start", "awaits"}
             THEN {attempts} ELSE {}

\* The same for a command of the window (0 is the user).
InCommand == IF cmd.kind \in {"connect", "refresh"} THEN {0} ELSE {}

\* History: the user asks for protection, or for a stop (0 is the one of the
\* window's command, the others those of Quit); a stop fails, or is carried out
\* with these starts under way, and counts if no one asked for protection since.
Asked == stops' = {} /\ off' = FALSE /\ late' = {}

AskedToStop(s) == stops' = stops \cup {s} /\ UNCHANGED <<off, late>>

Failed(s) == stops' = stops \ {s} /\ UNCHANGED <<off, late>>

CarriedOut(s, starts) ==
  /\ stops' = stops \ {s} /\ off' = (off \/ s \in stops)
  /\ late' = IF s \in stops THEN starts ELSE late

-----------------------------------------------------------------------------
(* The daemon. *)

\* A start ends, and the call that waits for it, if there still is one, returns.
EngineDone ==
  /\ engine = "starting"
  /\ \E ok \in BOOLEAN :
       /\ engine' = IF ok THEN "on" ELSE "off"
       /\ auto' = IF auto = "awaits" THEN (IF ok THEN "none" ELSE "check") ELSE auto
       /\ cmd' = IF cmd.pc = "awaits"
                 THEN [cmd EXCEPT !.pc = IF ok THEN "ok" ELSE "bad"] ELSE cmd
  /\ UNCHANGED <<installed, core, owner, alive, flagVars, attempts, quit, update, viewVars, request,
                 poll, histVars, clicks, faults>>

Breaks ==
  /\ Fault /\ engine = "on" /\ engine' = "broken"
  /\ UNCHANGED <<installed, core, owner, alive, flagVars, autoVars, quit, update, viewVars, request,
                 poll, cmd, histVars, clicks>>

CoreDies ==
  /\ Fault /\ core /\ Halts
  /\ AutoDropped /\ CommandDropped
  /\ UNCHANGED <<alive, flagVars, attempts, quit, update, viewVars, request, poll, histVars, clicks>>

-----------------------------------------------------------------------------
(* Auto-connect. *)

autoRest == <<alive, flagVars, quit, update, viewVars, request, poll, cmd, histVars, clicks>>

\* The loop looks at QUITTING, CANCELLED and the preference before an attempt.
MayTry == ~quitting /\ ~cancelled /\ ~disabled /\ attempts < MaxAttempts

\* try_connect_loop and the head of try_connect_once.  The probe of spawn's
\* thread is left to AutoServe, which ends the loop for the same reason.
AutoCheck ==
  /\ auto = "check"
  /\ auto' = IF MayTry THEN "serve" ELSE "none"
  /\ attempts' = IF MayTry THEN attempts + 1 ELSE attempts
  /\ UNCHANGED <<coreVars, faults, autoRest>>

\* The first status and start_installed: protection that is on or coming is
\* success; an error that needs the administrator ends the loop.
AutoServe ==
  /\ auto = "serve"
  /\ auto' = IF ~installed \/ engine # "off" THEN "none" ELSE IF core THEN "start" ELSE "launch"
  /\ UNCHANGED <<coreVars, attempts, faults, autoRest>>

AutoLaunch ==
  /\ auto = "launch"
  /\ \/ auto' = "start" /\ core' = TRUE /\ UNCHANGED faults
     \/ auto' = "check" /\ Fault /\ UNCHANGED core
  /\ UNCHANGED <<installed, engine, owner, attempts, autoRest>>

\* The second status and core_ipc::start, which a running engine refuses and
\* one that is starting keeps waiting.
AutoStart ==
  /\ auto = "start"
  /\ IF core /\ engine = "off"
     THEN auto' = "awaits" /\ engine' = "starting" /\ owner' = attempts
     ELSE auto' = (IF core THEN "none" ELSE "check") /\ UNCHANGED <<engine, owner>>
  /\ UNCHANGED <<installed, core, attempts, faults, autoRest>>

\* The answer does not come in time; the engine goes on.
AutoTimeout ==
  /\ auto = "awaits" /\ Fault /\ auto' = "check"
  /\ UNCHANGED <<coreVars, attempts, autoRest>>

AutoNext == AutoCheck \/ AutoServe \/ AutoLaunch \/ AutoStart

-----------------------------------------------------------------------------
(* The commands of the window.                                             *)

commandRest == <<alive, flagVars, attempts, quit, update, boot, clicks>>
viewSame    == UNCHANGED <<viewVars, request, poll>>

\* onPad.
Pad == IF phase = "setup" \/ (phase = "error" /\ needsInstall) THEN "install"
       ELSE IF status = "broken" THEN "refresh"
       ELSE IF Shown THEN "disconnect" ELSE "connect"

FirstStep(kind) == IF kind = "disconnect" THEN "cancel" ELSE "serve"

Click ==
  /\ alive /\ ~Busy /\ clicks < MaxClicks /\ clicks' = clicks + 1
  /\ \E kind \in {Pad, "reset"} :
       /\ cmd' = [kind |-> kind, pc |-> FirstStep(kind)]
       /\ CASE kind \in {"connect", "refresh"} -> Asked [] kind = "disconnect" -> AskedToStop(0)
            [] OTHER -> UNCHANGED histVars
  /\ UNCHANGED phase /\ Rerender(poll)
  /\ UNCHANGED <<coreVars, alive, flagVars, autoVars, quit, update, status, needsInstall, boot, request,
                 faults>>

\* What a command does once the daemon answers.
Served == CASE cmd.kind = "connect" -> "start"   [] cmd.kind = "refresh" -> "restart"
            [] cmd.kind = "reset"   -> "repair"  [] cmd.kind = "install" -> "probe"

\* start_installed; ensure_service and revert_network go on to the set-up.
Serve ==
  /\ cmd.pc = "serve"
  /\ Goes(IF ~installed THEN (IF cmd.kind \in {"install", "reset"} THEN "setup" ELSE "bad")
          ELSE IF core THEN Served ELSE "launch")
  /\ viewSame /\ UNCHANGED <<coreVars, auto, histVars, faults, commandRest>>

Launch ==
  /\ cmd.pc = "launch"
  /\ \/ Goes(Served) /\ core' = TRUE /\ UNCHANGED faults
     \/ Goes("bad") /\ Fault /\ UNCHANGED core
  /\ viewSame /\ UNCHANGED <<installed, engine, owner, auto, histVars, commandRest>>

\* The administrator approves the set-up, which replaces the daemon, or not.
Setup ==
  /\ cmd.pc = "setup"
  /\ \/ /\ installed' = TRUE /\ core' = TRUE /\ engine' = "off" /\ owner' = 0
        /\ Goes(IF cmd.kind = "install" THEN "set" ELSE Served) /\ AutoDropped
     \/ Goes("bad") /\ UNCHANGED <<coreVars, auto>>
  /\ viewSame /\ UNCHANGED <<histVars, faults, commandRest>>

\* core_ipc::start and core_ipc::restart, behind a start under way.
Start ==
  /\ cmd.pc \in {"start", "restart"} /\ ~(core /\ engine = "starting")
  /\ IF core /\ (engine = "off" \/ cmd.pc = "restart")
     THEN Goes("awaits") /\ engine' = "starting" /\ owner' = 0
     ELSE Goes("bad") /\ UNCHANGED <<engine, owner>>
  /\ viewSame /\ UNCHANGED <<installed, core, auto, histVars, faults, commandRest>>

Timeout ==
  /\ cmd.pc = "awaits" /\ Fault /\ Goes("bad")
  /\ viewSame /\ UNCHANGED <<coreVars, auto, histVars, commandRest>>

\* core_ipc::repair.
Repair ==
  /\ cmd.pc = "repair" /\ ~(core /\ engine = "starting")
  /\ \/ /\ core /\ Goes("ok") /\ engine' = "off" /\ owner' = 0 /\ UNCHANGED faults
     \/ /\ core /\ Fault /\ Goes("bad") /\ UNCHANGED <<engine, owner>>
     \/ /\ ~core /\ Goes("bad") /\ UNCHANGED <<engine, owner, faults>>
  /\ viewSame /\ UNCHANGED <<installed, core, auto, histVars, commandRest>>

\* Variant: turning protection off leaves auto-connect alone.
CancelNothing ==
  /\ cmd.pc = "cancel" /\ Goes("halt")
  /\ viewSame /\ UNCHANGED <<coreVars, alive, flagVars, autoVars, quit, update, histVars, clicks, faults>>

\* set_protection(false): cancel_pending, and then the stop of a service that
\* is installed, since the window shows protection.
Cancel ==
  /\ cmd.pc = "cancel" /\ Goes("halt")
  /\ cancelled' = TRUE
  /\ viewSame /\ UNCHANGED <<coreVars, alive, quitting, disabled, autoVars, quit, update, histVars,
                              clicks, faults>>

Halt ==
  /\ cmd.pc = "halt"
  /\ \/ /\ Halts /\ AutoDropped /\ Goes("ok")
        /\ CarriedOut(0, InAttempt) /\ UNCHANGED faults
     \/ Fault /\ Goes("bad") /\ Failed(0) /\ UNCHANGED <<coreVars, auto>>
  /\ viewSame /\ UNCHANGED commandRest

\* The command's answer is shown and the window is free again (holdBusy only
\* delays that).
Ok ==
  /\ cmd.pc = "ok" /\ cmd' = NoCommand
  /\ status' = IF cmd.kind \in {"connect", "refresh"} THEN "on" ELSE "off"
  /\ phase' = "ready"
  /\ Rerender(poll)
  /\ UNCHANGED <<coreVars, auto, needsInstall, request, histVars, faults, commandRest>>

\* onInstall after ensure_service.
AfterInstall ==
  /\ cmd.pc \in {"probe", "set"}
  /\ needsInstall' = ~installed
  /\ LET pipe_ok == cmd.pc = "set" \/ core
     IN  /\ cmd' = IF pipe_ok THEN [cmd EXCEPT !.pc = "refreshing"] ELSE NoCommand
         /\ request' = IF pipe_ok THEN Joined ELSE request
         /\ phase' = IF pipe_ok THEN phase ELSE "setup"
  /\ Rerender(poll)
  /\ UNCHANGED <<coreVars, auto, status, histVars, faults, commandRest>>

\* The catch blocks of onRefresh and onRevert ask for the status, unless the
\* error is that the service has to be set up.
AsksAgain == cmd.kind = "reset" \/ (cmd.kind = "refresh" /\ installed)

\* Variant: onToggle returns from its catch block when it shows the set-up,
\* without the finally block.
FreedAfterError == IF AsksAgain THEN [cmd EXCEPT !.pc = "refreshing"]
                   ELSE IF installed THEN NoCommand ELSE cmd

Freed == IF AsksAgain THEN [cmd EXCEPT !.pc = "refreshing"] ELSE NoCommand

\* The command failed; onToggle probes before it shows why.
Bad ==
  /\ cmd.pc = "bad" /\ cmd' = Freed
  /\ needsInstall' = IF cmd.kind \in {"connect", "disconnect"} THEN ~installed ELSE needsInstall
  /\ phase' = IF cmd.kind = "install" \/ (~installed /\ ~AsksAgain) THEN "setup" ELSE phase
  /\ request' = IF AsksAgain THEN Joined ELSE request
  /\ Rerender(poll)
  /\ UNCHANGED <<coreVars, auto, status, histVars, faults, commandRest>>

CommandNext ==
  \/ Serve \/ Launch \/ Setup \/ Start \/ Repair \/ Cancel \/ Halt
  \/ Ok \/ AfterInstall \/ Bad

-----------------------------------------------------------------------------
(* The window's view of the daemon.                                        *)

viewRest == <<coreVars, alive, flagVars, autoVars, quit, update, histVars, clicks>>

BootProbe ==
  /\ boot /\ boot' = FALSE
  /\ needsInstall' = ~installed
  /\ IF installed THEN Refresh /\ UNCHANGED phase ELSE phase' = "setup" /\ UNCHANGED request
  /\ UNCHANGED cmd /\ Rerender(poll)
  /\ UNCHANGED <<status, faults, viewRest>>

PollFires ==
  /\ poll = "timer" /\ poll' = "running" /\ Refresh
  /\ UNCHANGED <<viewVars, cmd, faults, viewRest>>

\* get_status, and for a daemon that does not answer probe_bootstrap.
RequestReads ==
  /\ request \in {"asked", "down"}
  /\ \/ /\ request' = IF request = "down" THEN (IF installed THEN "idle" ELSE "setup")
                      ELSE IF core THEN engine ELSE "down"
        /\ needsInstall' = IF request = "down" THEN ~installed ELSE needsInstall
        /\ UNCHANGED faults
     \/ request = "asked" /\ request' = "error" /\ Fault /\ UNCHANGED needsInstall
  /\ UNCHANGED <<phase, status, boot, poll, cmd, viewRest>>

Answers == {"off", "starting", "on", "broken", "idle", "setup", "error"}

\* Variant: a request that fails is not cleared.
ClearedIfAnswered == IF request = "error" THEN "kept" ELSE "none"

\* request.then(clear, clear).
Cleared == "none"

\* What waits for the request goes on.
Resumed == IF cmd.pc = "refreshing" THEN NoCommand ELSE cmd

\* The answer is shown, whatever has been done since it was read, and the
\* request is over.
RequestDone ==
  /\ request \in Answers /\ request' = Cleared
  /\ status' = CASE request \in {"idle", "setup"} -> "none" [] request = "error" -> status
                [] OTHER -> request
  /\ phase' = IF request \in {"setup", "error"} THEN request ELSE "ready"
  /\ cmd' = Resumed
  /\ Rerender(IF poll = "running" THEN "timer" ELSE poll)
  /\ UNCHANGED <<needsInstall, boot, faults, viewRest>>

-----------------------------------------------------------------------------
(* The preference, Quit and the installation of an update.                 *)

SetAutoconnect ==
  /\ alive /\ clicks < MaxClicks /\ clicks' = clicks + 1
  /\ \E enabled \in BOOLEAN :
       /\ disabled' = ~enabled
       /\ cancelled' = (cancelled /\ ~enabled)
       /\ auto' = IF enabled /\ auto = "none" THEN "check" ELSE auto
       /\ IF enabled THEN Asked ELSE UNCHANGED histVars
  /\ UNCHANGED <<coreVars, alive, quitting, attempts, quit, update, viewVars, request, poll, cmd,
                 faults>>

\* quit_with_core; nothing happens when QUITTING is set.  An update that fails
\* resets it, and Quit may then be asked for again beside an earlier thread.
Quit ==
  /\ alive /\ ~quitting /\ clicks < MaxClicks /\ clicks' = clicks + 1
  /\ quitting' = TRUE
  /\ \E q \in Quits :
       /\ quit[q] = "none" /\ \A p \in 1..q - 1 : quit[p] # "none"
       /\ quit' = [quit EXCEPT ![q] = "cancel"] /\ AskedToStop(q)
  /\ UNCHANGED <<coreVars, alive, cancelled, disabled, autoVars, update, viewVars, request, poll, cmd,
                 faults>>

QuitGoes(q, from, to) == quit[q] = from /\ quit' = [quit EXCEPT ![q] = to]

QuitCancel(q) ==
  /\ QuitGoes(q, "cancel", "halt") /\ cancelled' = TRUE
  /\ UNCHANGED <<coreVars, alive, quitting, disabled, autoVars, update, viewVars, request, poll, cmd,
                 histVars, clicks, faults>>

\* The error of the stop is only logged.
QuitHalt(q) ==
  /\ QuitGoes(q, "halt", "exit")
  /\ \/ /\ installed /\ Halts /\ AutoDropped /\ CommandDropped
        /\ CarriedOut(q, InAttempt \cup InCommand) /\ UNCHANGED faults
     \/ ~installed /\ Failed(q) /\ UNCHANGED <<coreVars, auto, cmd, faults>>
     \/ installed /\ Fault /\ Failed(q) /\ UNCHANGED <<coreVars, auto, cmd>>
  /\ UNCHANGED <<alive, flagVars, attempts, update, viewVars, request, poll, clicks>>

\* The process ends, and with it its threads; a start in the daemon goes on.
Ends ==
  /\ alive' = FALSE /\ auto' = "none" /\ quit' = NoQuit /\ update' = "none"
  /\ phase' = "loading" /\ status' = "none" /\ needsInstall' = FALSE
  /\ boot' = FALSE /\ request' = "none" /\ poll' = "off" /\ cmd' = NoCommand
  /\ stops' = {}
  /\ UNCHANGED <<coreVars, flagVars, attempts, off, late, clicks, faults>>

QuitExit(q) == quit[q] = "exit" /\ Ends

\* installDownloadedUpdate: prepare_update, install, finish_update or
\* cancel_update.
Update ==
  /\ alive /\ update = "none" /\ clicks < MaxClicks /\ clicks' = clicks + 1
  /\ quitting' = TRUE /\ update' = "halt"
  /\ UNCHANGED <<coreVars, alive, cancelled, disabled, autoVars, quit, viewVars, request, poll, cmd,
                 histVars, faults>>

UpdateHalt ==
  /\ update = "halt"
  /\ \/ /\ installed /\ Halts /\ AutoDropped /\ CommandDropped
        /\ update' = "install" /\ UNCHANGED <<quitting, faults>>
     \/ /\ ~installed /\ update' = "install" /\ UNCHANGED <<coreVars, auto, cmd, quitting, faults>>
     \/ /\ installed /\ Fault /\ update' = "none" /\ quitting' = FALSE
        /\ UNCHANGED <<coreVars, auto, cmd>>
  /\ UNCHANGED <<alive, cancelled, disabled, attempts, quit, viewVars, request, poll, histVars, clicks>>

UpdateError ==
  /\ update = "install" /\ update' = "none" /\ quitting' = FALSE
  /\ UNCHANGED <<coreVars, alive, cancelled, disabled, autoVars, quit, viewVars, request, poll, cmd,
                 histVars, clicks, faults>>

UpdateFinish == update = "install" /\ Ends

QuitNext   == \E q \in Quits : QuitCancel(q) \/ QuitHalt(q) \/ QuitExit(q)
UpdateNext == UpdateHalt \/ UpdateError \/ UpdateFinish

ClientNext ==
  \/ EngineDone \/ Breaks \/ CoreDies
  \/ AutoNext \/ AutoTimeout
  \/ Click \/ CommandNext \/ Timeout
  \/ BootProbe \/ PollFires \/ RequestReads \/ RequestDone
  \/ SetAutoconnect \/ Quit \/ QuitNext \/ Update \/ UpdateNext

ClientSpec == ClientInit /\ [][ClientNext]_clientVars

\* Every thread gets on with what it does, a timer that is set fires, and the
\* daemon finishes a start (its phases are bounded by timeouts).
Fairness ==
  /\ WF_clientVars(EngineDone) /\ WF_clientVars(AutoNext) /\ WF_clientVars(CommandNext)
  /\ WF_clientVars(BootProbe) /\ WF_clientVars(PollFires) /\ WF_clientVars(RequestReads)
  /\ WF_clientVars(RequestDone) /\ WF_clientVars(QuitNext) /\ WF_clientVars(UpdateNext)

FairSpec == ClientSpec /\ Fairness

-----------------------------------------------------------------------------
(* Properties.                                                             *)

\* Once the user has turned protection off or has quit, the stop was carried
\* out, and no one has asked for protection since the stop was asked for,
\* protection does not come back by itself: the engine is off, or it was
\* started by what was under way when it was stopped - an attempt of
\* auto-connect past its look at CANCELLED and QUITTING, or at Quit a command
\* of the window.  No later attempt starts it (autoconnect.rs, lib.rs).
StayOff == off => (engine = "off" \/ owner \in late)

\* What the window shows comes to agree with the daemon: if protection stays
\* on, or stays off, while the window is open, free and not at the set-up, the
\* window shows it from some time on, in spite of answers that were read
\* before a command and are shown after it, and of requests that fail
\* (refreshStatus, useStatusPolling).
ShownEventually ==
  \A b \in BOOLEAN :
    <>[](alive /\ ~Busy /\ phase # "setup" /\ engine # "starting" /\ Protected = b) => <>[](Shown = b)

\* A command ends on every path of its handler, and the window is free again
\* (the finally blocks of App.tsx).
CommandEnds == Busy ~> ~Busy

=============================================================================
