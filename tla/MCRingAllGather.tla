-------------------------- MODULE MCRingAllGather ----------------------------
(* RingAllGather with the settings a rank can have after the imports.      *)
EXTENDS RingAllGather

MCSettings == {[mode |-> "legacy", dual |-> FALSE],
               [mode |-> "gpu_direct", dual |-> TRUE],
               [mode |-> "full", dual |-> TRUE]}

\* Two ranks of the same job whose rail-1 imports went differently.
MCRailFallback == [mode : {"full"}, dual : BOOLEAN]
=============================================================================
