------------------------- MODULE MCConnectionDriver -------------------------
\* Instances of ConnectionDriver for TLC.
EXTENDS ConnectionDriver

\* Every task may make any call.
AnyCall == [t \in Task |-> {"execute", "batch", "transaction"}]
=============================================================================
