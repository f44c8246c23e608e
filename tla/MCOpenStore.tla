---------------------------- MODULE MCOpenStore ----------------------------
\* Instances of OpenStore for TLC.
EXTENDS OpenStore

CONSTANTS sdk1, sdk2, store, none

\* One L1 store, and L2 processes beside it.
Layers == [p \in Opener |-> IF p = store THEN "L1" ELSE "L2"]
=============================================================================
