--------------------------- MODULE MCDeviceStatus ---------------------------
(***************************************************************************)
(* Two Drones, and status runs that check one Drone each.                  *)
(***************************************************************************)
EXTENDS DeviceStatus

CONSTANTS d1, d2

PublicFirst == <<d1, d2>>
=============================================================================
