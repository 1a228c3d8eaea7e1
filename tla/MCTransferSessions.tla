------------------------- MODULE MCTransferSessions -------------------------
EXTENDS TransferSessions

CONSTANTS c1, c2

\* One Drone sends, the other receives, in every session.
OneWay == [s \in Sessions |-> [sender |-> {c1}, receiver |-> {c2}]]

RelayRoles == {"sender", "receiver"}
=============================================================================
