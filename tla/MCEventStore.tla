--------------------------- MODULE MCEventStore ---------------------------
\* A flood (a polygon) that may close or reopen, and a fire (a point).
EXTENDS EventStore

CONSTANTS flood, fire

MCMaxVersion == [e \in Events |-> IF e = flood THEN 2 ELSE 1]
MCFits == [e \in Events |-> IF e = flood THEN {"inside", "outside"} ELSE {"inside", "unusable"}]
=============================================================================
