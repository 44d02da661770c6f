----------------------------- MODULE Deployment -----------------------------
(***************************************************************************)
(* The installed daemon and the ruleset it loads: a load runs in the       *)
(* daemon, and a command that stops the daemon, or its death, ends the     *)
(* load wherever it is.                                                    *)
(***************************************************************************)
EXTENDS Install, Ruleset

vars == <<installVars, rulesetVars>>

Init == InstallInit /\ RulesetInit

\* A daemon that exits takes the load of its session with it.
WithDaemon == IF daemon /\ ~daemon' THEN LoadKilled ELSE UNCHANGED rulesetVars

\* A session loads the ruleset before it changes anything in the system.
Loads == daemon /\ traces = NoTrace /\ LoadNext

Next ==
  \/ InstallNext /\ WithDaemon
  \/ (Loads \/ Publish \/ Elapse) /\ UNCHANGED installVars

Spec == Init /\ [][Next]_vars
=============================================================================
