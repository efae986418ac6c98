----------------------------- MODULE MCParamGather -----------------------------
(* A small network: an embedding, a linear layer with two parameters, a head   *)
(* tied to the embedding, and a root that holds the tied parameter as well.     *)
EXTENDS ParamGather

MCMods == {"root", "emb", "lin", "head"}
MCParams == {1, 2, 3}
MCParamsOf == [m \in MCMods |-> IF m = "lin" THEN {2, 3} ELSE {1}]
MCNumel == [p \in MCParams |-> IF p = 3 THEN 2 ELSE 1]
MCOutputs == [m \in MCMods |-> IF m = "root" THEN 2 ELSE 1]
MCNoGradIn == {"root", "emb"}

Leaf(m) == <<Event("pre_fwd", m), Event("use", m), Event("post_fwd", m)>>
Chain(ms) == FlattenSeq([i \in DOMAIN ms |-> Leaf(ms[i])])

\* Two iterations alike; the layers in another order, which invalidates the
\* trace and records it again; a layer called twice; one left out; a root
\* around the others that uses the parameter of its head once more.
Usual    == Chain(<<"emb", "lin", "head">>)
Pair     == Chain(<<"lin", "head">>)
PairBack == Chain(<<"head", "lin">>)
Repeated == Chain(<<"emb", "lin", "lin">>)
Shorter  == Chain(<<"head">>)
Nested   == <<Event("pre_fwd", "root")>> \o Pair \o <<Event("use", "root"), Event("post_fwd", "root")>>

MCSchedules ==
  {<<Usual, Usual>>, <<Pair, PairBack, Pair>>, <<Repeated>>, <<Pair, Shorter>>, <<Nested, Nested>>}
=============================================================================
