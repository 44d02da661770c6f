---------------------------- MODULE MCSystemDNS ----------------------------
(* Three services: one with servers of its own, one on DHCP and one that an *)
(* earlier version left at the stub's address without a record.             *)
EXTENDS SystemDNS, TLC

CONSTANTS wifi, wired, usb, manual

MCServices == {wifi, wired, usb}
MCSettings == {manual, DHCP, Stub}
MCOriginal == wifi :> manual @@ wired :> DHCP @@ usb :> Stub
============================================================================
