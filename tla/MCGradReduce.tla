----------------------------- MODULE MCGradReduce -----------------------------
(***************************************************************************)
(* The last of three ranks, five parameters, three sub-groups, and buckets   *)
(* of 8 elements.  On this rank the shards of 2 and 3 are empty, that of 4    *)
(* is short, those of 1 and 5 are full; 4 does not fit in the flat buffer.   *)
(***************************************************************************)
EXTENDS GradReduce

MCNumel == <<6, 1, 2, 10, 3>>

\* Buckets {4}, {5}, sent as it is while 1 is packed over it, {1, 2} and {3};
\* {4}, {2, 3, 5}, not contiguous, and {1};
\* {2}, {4}, {5} and {1, 3}, not contiguous and the last.
MCOrders == {<<4, 5, 1, 2, 3>>, <<4, 5, 2, 3, 1>>, <<2, 4, 5, 1, 3>>}

\* The DPU overtakes the reduce stream in one iteration with one order ...
MCEarlyOnce == [o \in MCOrders |-> IF o = <<4, 5, 2, 3, 1>> THEN {2} ELSE {}]

\* ... or whenever it can.
MCEarly == [o \in MCOrders |-> 1 .. MaxIters]
=============================================================================
