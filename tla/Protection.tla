----------------------------- MODULE Protection -----------------------------
(***************************************************************************)
(* What the daemon promises its user about protection being on or off,     *)
(* whatever runs in the background.                                        *)
(*                                                                         *)
(* Protection may be lost without the user (a rebuild after a network      *)
(* change stops it, and starting again may fail).  It may come back        *)
(* without the user only as the second half of such a rebuild, and only    *)
(* when the user asked for nothing in between.                             *)
(***************************************************************************)
VARIABLES wanted,    \* the last thing the user asked for was "on"
          on,        \* protection is up
          pending    \* an automatic rebuild took it down and may restore it

pvars == <<wanted, on, pending>>

PInit == ~wanted /\ ~on /\ ~pending

\* An accepted "start": it may fail, and it never turns off what is on.
UserOn == /\ wanted' = TRUE
          /\ on' \in BOOLEAN
          /\ on => on'
          /\ pending' = FALSE

\* Stop, repair and crash cleanup.
UserOff == /\ wanted' = FALSE
           /\ on' = FALSE
           /\ pending' = FALSE

\* A refused request changes nothing, but ends a rebuild that is under way.
UserRefused == /\ pending' = FALSE
               /\ UNCHANGED <<wanted, on>>

RebuildBegin == /\ on /\ wanted
                /\ on' = FALSE
                /\ pending' = TRUE
                /\ UNCHANGED wanted

RebuildEnd == /\ pending
              /\ pending' = FALSE
              /\ on' \in BOOLEAN
              /\ UNCHANGED wanted

PNext == UserOn \/ UserOff \/ UserRefused \/ RebuildBegin \/ RebuildEnd

PSpec == PInit /\ [][PNext]_pvars

=============================================================================
