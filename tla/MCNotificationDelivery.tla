----------------------- MODULE MCNotificationDelivery -----------------------
(***************************************************************************)
(* An API worker and two instances of the scheduled function.              *)
(***************************************************************************)
EXTENDS NotificationDelivery, TLC

CONSTANTS w1, j1, j2

\* The instances of one function, and the notifications, are interchangeable.
Interchangeable == Permutations({j1, j2}) \cup Permutations(Notes)
=============================================================================
