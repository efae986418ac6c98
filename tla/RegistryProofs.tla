---------------------------- MODULE RegistryProofs -----------------------------
(***************************************************************************)
(* What holds of module ParamGather from the first hook of an iteration to *)
(* the update of the shards, for every set of parameters and submodules    *)
(* and every schedule of forward scripts; from the invariants of module    *)
(* ParamGatherProofs.                                                      *)
(*                                                                         *)
(* The hooks and the registry: the order of the events of the two passes   *)
(* fixes what the hooks have counted, so that a submodule uses its         *)
(* parameters until the call that releases them, and none is released      *)
(* that the registry has a handle for (RegistryInv).                       *)
(*                                                                         *)
(* The end of a pass: whatever the allgather stream has still to do, a     *)
(* computation to come waits for it (Computing), so that nothing is        *)
(* gathered any more when the shards change.                               *)
(***************************************************************************)
EXTENDS ParamGatherProofs

-----------------------------------------------------------------------------
(* What the hooks have counted, and what the kernels will wait for *)

\* The host thread has come to an event of the script; the hook of the one it
\* fetches for has run.
Begun == IF fetching = NoMod THEN Done ELSE Done + 1
Ran(kind, m) == \E y \in 1 .. Done : Script(iter)[y] = Event(kind, m)
Began(kind, m) == \E y \in 1 .. Begun : Script(iter)[y] = Event(kind, m)
Ahead(kind, m) == \E y \in Done + 1 .. Len(Script(iter)) : Script(iter)[y] = Event(kind, m)

\* A call is numbered once, and its gradients are counted down once.
CallCount(h) ==
  /\ \A i \in DOMAIN h.stack : h.stack[i] <= h.calls
  /\ h.lastPre <= h.calls /\ h.gradsLeft <= 1
CallCounts == \A m \in Mods : CallCount(hook[m])

\* The first backward pass of a submodule fetches its parameters, and they stay
\* in use until its gradients have been counted down.
PassCount(m) ==
  /\ Began("pre_fwd", m) /\ ~ Began("pre_bwd", m) => hook[m].stack # <<>> /\ Last(hook[m].stack) > hook[m].lastPre
  /\ Ran("post_fwd", m) /\ ~ Began("pre_bwd", m) => hook[m].refs > 0
  /\ Ran("pre_bwd", m) /\ hook[m].gradsLeft = 1 => \A p \in ParamsOf[m] : m \in active[p]
PassCounts == Running /\ iter > 0 /\ Len(todo) > 4 => \A m \in Mods : PassCount(m)

\* What a submodule uses, or has been released, is in no handle of the registry.
Registered ==
  \A p \in Params : active[p] # {} \/ status[p] = "NOT_AVAILABLE" => ~ InRegistry(p)

\* The compute stream waits at k for all the allgather stream has to do, and
\* goes on to a computation: one that is queued or one of the script.
WaitsFor(k) ==
  /\ cuQ[k].op = "wait_stream" /\ cuQ[k].n >= agPos + Len(agQ)
  /\ \/ \E j \in Cu : k < j /\ cuQ[j].op = "kernel"
     \/ \E m \in Mods : ParamsOf[m] # {} /\ Ahead("use", m)

\* What the allgather stream has still to do is for a computation to come.
Computing ==
  Running /\ agQ # <<>> => (fetching # NoMod /\ ParamsOf[fetching] # {}) \/ \E k \in Cu : WaitsFor(k)

-----------------------------------------------------------------------------
(* The order of the events of the two passes *)

\* o tells from which of the first n sequences of ss each element of q, their
\* concatenation, comes.
IsOrigin(o, q, ss, n) ==
  /\ o \in [1 .. Len(q) -> 1 .. n]
  /\ \A y \in 1 .. Len(q) : \E k \in 1 .. Len(ss[o[y]]) : q[y] = ss[o[y]][k]
  /\ \A y, z \in 1 .. Len(q) : y < z => o[y] <= o[z]
  /\ \A i \in 1 .. n : \A k \in 1 .. Len(ss[i]) : \E y \in 1 .. Len(q) : o[y] = i /\ q[y] = ss[i][k]

\* One sequence more.
LEMMA OriginAppend ==
  ASSUME NEW S, NEW ss \in Seq(Seq(S)), NEW n \in Nat, n + 1 <= Len(ss), NEW q \in Seq(S), NEW o, IsOrigin(o, q, ss, n)
  PROVE  \E p : IsOrigin(p, q \o ss[n + 1], ss, n + 1)
<1> DEFINE t == ss[n + 1]
           r == q \o t
           p == [y \in 1 .. Len(r) |-> IF y <= Len(q) THEN o[y] ELSE n + 1]
<1>1. t \in Seq(S)
  OBVIOUS
<1> HIDE DEF t
<1>2. /\ Len(r) = Len(q) + Len(t) /\ Len(q) \in Nat /\ Len(t) \in Nat
      /\ \A i \in 1 .. Len(q) : r[i] = q[i]
      /\ \A i \in 1 .. Len(t) : r[Len(q) + i] = t[i]
  BY <1>1, ConcatFacts
<1> HIDE DEF r
<1>3. PICK a \in Nat, b \in Nat : a = Len(q) /\ b = Len(t) /\ Len(r) = a + b
  BY <1>2
<1>4. ASSUME NEW y \in 1 .. a PROVE y \in 1 .. Len(r) /\ p[y] = o[y] /\ o[y] \in 1 .. n /\ r[y] = q[y]
  <2>1. y \in 1 .. a + b /\ y <= a
    OBVIOUS
  <2>2. o[y] \in 1 .. n
    BY <1>3 DEF IsOrigin
  <2> QED BY <1>2, <1>3, <2>1, <2>2
<1>5. ASSUME NEW i \in 1 .. b PROVE a + i \in 1 .. Len(r) /\ p[a + i] = n + 1 /\ r[a + i] = t[i]
  <2>1. a + i \in 1 .. a + b /\ ~ (a + i <= a)
    OBVIOUS
  <2> QED BY <1>2, <1>3, <2>1
<1>6. ASSUME NEW y \in 1 .. Len(r) PROVE y \in 1 .. a \/ \E i \in 1 .. b : y = a + i
  <2>1. y \in 1 .. a + b
    BY <1>3
  <2>2. CASE y > a
    <3>1. y - a \in 1 .. b /\ y = a + (y - a)
      BY <2>1, <2>2
    <3> QED BY <3>1
  <2> QED BY <2>1, <2>2
<1>7. p = [y \in 1 .. Len(r) |-> p[y]]
  OBVIOUS
<1> HIDE DEF p
<1>8. ASSUME NEW y \in 1 .. Len(r)
      PROVE  p[y] \in 1 .. n + 1 /\ \E k \in 1 .. Len(ss[p[y]]) : r[y] = ss[p[y]][k]
  <2>1. CASE y \in 1 .. a
    <3>1. \E k \in 1 .. Len(ss[o[y]]) : q[y] = ss[o[y]][k]
      BY <1>3, <2>1 DEF IsOrigin
    <3>2. p[y] = o[y] /\ r[y] = q[y] /\ o[y] \in 1 .. n
      BY <1>4, <2>1
    <3>3. o[y] \in 1 .. n + 1
      BY <3>2
    <3> QED BY ONLY <3>1, <3>2, <3>3
  <2>2. ASSUME NEW i \in 1 .. b, y = a + i PROVE p[y] \in 1 .. n + 1 /\ \E k \in 1 .. Len(ss[p[y]]) : r[y] = ss[p[y]][k]
    <3>1. p[y] = n + 1 /\ r[y] = t[i] /\ i \in 1 .. Len(t)
      BY <1>3, <1>5, <2>2
    <3> QED BY <3>1 DEF t
  <2> QED BY <1>6, <2>1, <2>2
<1>9. ASSUME NEW y \in 1 .. Len(r), NEW z \in 1 .. Len(r), y < z PROVE p[y] <= p[z]
  <2>1. CASE z \in 1 .. a
    <3>1. y \in 1 .. a
      BY <1>3, <1>9, <2>1
    <3>2. o[y] <= o[z]
      BY <1>3, <1>9, <2>1, <3>1 DEF IsOrigin
    <3> QED BY <1>4, <2>1, <3>1, <3>2
  <2>2. CASE \E i \in 1 .. b : z = a + i
    <3>1. p[z] = n + 1
      BY <1>5, <2>2
    <3>2. p[y] \in 1 .. n + 1
      BY <1>8
    <3> QED BY <3>1, <3>2
  <2> QED BY <1>6, <2>1, <2>2
<1>10. ASSUME NEW i \in 1 .. n + 1, NEW k \in 1 .. Len(ss[i])
       PROVE  \E y \in 1 .. Len(r) : p[y] = i /\ r[y] = ss[i][k]
  <2>1. CASE i = n + 1
    <3>1. k \in 1 .. b /\ ss[i][k] = t[k]
      BY <1>3, <2>1 DEF t
    <3> QED BY <1>5, <2>1, <3>1
  <2>2. CASE i # n + 1
    <3>1. i \in 1 .. n
      BY <2>2
    <3>2. PICK y \in 1 .. Len(q) : o[y] = i /\ q[y] = ss[i][k]
      BY <3>1 DEF IsOrigin
    <3>3. y \in 1 .. a
      BY <1>3
    <3> QED BY <1>4, <3>2, <3>3
  <2> QED BY <2>1, <2>2
<1>11. p \in [1 .. Len(r) -> 1 .. n + 1]
  BY <1>7, <1>8
<1>12. IsOrigin(p, r, ss, n + 1)
  BY <1>8, <1>9, <1>10, <1>11 DEF IsOrigin
<1> QED BY <1>12 DEF r, t

\* Every element of a concatenation comes from one of its parts, in their order.
LEMMA FlattenOrigin ==
  ASSUME NEW S, NEW ss \in Seq(Seq(S))
  PROVE  \E o : IsOrigin(o, FlattenSeq(ss), ss, Len(ss))
<1>1. CASE ss = <<>>
  <2>1. FlattenSeq(ss) = <<>> /\ Len(ss) = 0
    BY <1>1 DEF FlattenSeq
  <2> DEFINE o == [y \in 1 .. 0 |-> 0]
  <2>2. IsOrigin(o, <<>>, ss, 0)
    BY DEF IsOrigin
  <2> QED BY <2>1, <2>2
<1>2. CASE ss # <<>>
  <2> DEFINE n == Len(ss)
             P(f) == FlattenSeq(ss) = f[n]
  <2>1. n \in Nat /\ n # 0
    BY <1>2
  <2>2. PICK f \in [1 .. n -> Seq(S)] :
          /\ f[1] = ss[1]
          /\ \A i \in 1 .. n : i # 1 => f[i] = f[i - 1] \o ss[i]
          /\ P(f)
    BY <1>2, FlattenFacts, Zenon
  <2> DEFINE T == {k \in Nat : k + 1 <= n => \E o : IsOrigin(o, f[k + 1], ss, k + 1)}
  <2>3. 0 \in T
    <3>1. <<>> \in Seq(S) /\ Len(<<>>) = 0
      OBVIOUS
    <3> DEFINE e == [y \in 1 .. 0 |-> 0]
    <3>2. IsOrigin(e, <<>>, ss, 0)
      BY DEF IsOrigin
    <3>3. 0 + 1 <= Len(ss) /\ 0 \in Nat
      BY <2>1
    <3> HIDE DEF e
    <3>4. \E p : IsOrigin(p, <<>> \o ss[0 + 1], ss, 0 + 1)
      BY <3>1, <3>2, <3>3, OriginAppend
    <3>5. <<>> \o ss[0 + 1] = f[0 + 1]
      <4>1. ss[1] \in Seq(S)
        BY <2>1
      <4> QED BY <2>2, <4>1
    <3> QED BY <3>4, <3>5
  <2>4. ASSUME NEW k \in Nat, k \in T PROVE k + 1 \in T
    <3> SUFFICES ASSUME k + 1 + 1 <= n PROVE \E o : IsOrigin(o, f[k + 1 + 1], ss, k + 1 + 1)
      OBVIOUS
    <3>1. PICK j \in Nat : j = k + 1
      OBVIOUS
    <3>2. j \in 1 .. n /\ j + 1 \in 1 .. n /\ j + 1 # 1 /\ (j + 1) - 1 = j /\ j + 1 <= Len(ss)
      BY <2>1, <3>1
    <3>3. PICK o : IsOrigin(o, f[j], ss, j)
      BY <2>1, <2>4, <3>1, <3>2
    <3>4. f[j + 1] = f[j] \o ss[j + 1] /\ f[j] \in Seq(S)
      BY <2>2, <3>2
    <3>5. \E p : IsOrigin(p, f[j] \o ss[j + 1], ss, j + 1)
      BY <3>2, <3>3, <3>4, OriginAppend
    <3> QED BY <3>1, <3>4, <3>5
  <2>5. \A k \in Nat : k \in T
    <3> HIDE DEF T
    <3> QED BY <2>3, <2>4, Induction
  <2>6. PICK k \in Nat : k + 1 = n
    <3>1. n - 1 \in Nat /\ (n - 1) + 1 = n
      BY <2>1
    <3> QED BY <3>1
  <2>7. \E o : IsOrigin(o, f[k + 1], ss, k + 1)
    BY <2>1, <2>5, <2>6
  <2> QED BY <2>2, <2>6, <2>7
<1> QED BY <1>1, <1>2

\* The backward pass mirrors the forward one: before the hook behind the
\* backward computation of a submodule comes the one before it, and behind that
\* one the computation.
LEMMA BackwardOrder ==
  ASSUME NEW f \in Seq(ForwardEvents), Called(f), NEW m \in Mods, NEW y \in 1 .. Len(Backward(f))
  PROVE  LET b == Backward(f) IN
         /\ b[y] = Event("post_bwd", m) => \E z \in 1 .. Len(b) : z < y /\ b[z] = Event("pre_bwd", m)
         /\ b[y] = Event("pre_bwd", m) =>
              /\ \E z \in 1 .. Len(b) : y < z /\ b[z] = Event("use", m)
              /\ \E i, j \in 1 .. Len(f) : i < j /\ f[i] = Event("pre_fwd", m) /\ f[j] = Event("post_fwd", m)
<1> DEFINE n == Len(f)
           g == [i \in DOMAIN f |-> Undo(f[n + 1 - i])]
           b == Backward(f)
<1>1. n \in Nat /\ DOMAIN f = 1 .. n /\ \A i \in 1 .. n : f[i] \in ForwardEvents
  OBVIOUS
<1>2. \A i \in 1 .. n : n + 1 - i \in 1 .. n /\ n + 1 - (n + 1 - i) = i
  BY <1>1
<1>3. /\ g = [i \in 1 .. n |-> Undo(f[n + 1 - i])] /\ Len(g) = n
      /\ \A i \in 1 .. n : g[i] = Undo(f[n + 1 - i]) /\ g[i] \in Seq(BackwardEvents)
  <2>1. \A i \in 1 .. n : Undo(f[n + 1 - i]) \in Seq(BackwardEvents)
    BY <1>1, <1>2, UndoType
  <2> QED BY <1>1, <2>1
<1>4. g \in Seq(Seq(BackwardEvents)) /\ b = FlattenSeq(g)
  BY <1>1, <1>3 DEF Backward
<1> HIDE DEF g
<1>5. PICK o : IsOrigin(o, b, g, n)
  BY <1>3, <1>4, FlattenOrigin
<1>6. b \in Seq(BackwardEvents) /\ Len(b) \in Nat
  BY BackwardType
<1>7. \A e \in ForwardEvents : e = Event(e.ev, e.m) /\ e.ev \in {"pre_fwd", "use", "post_fwd"} /\ e.m \in Mods
  BY DEF ForwardEvents, Event
<1>8. Outputs[m] \in Nat /\ Outputs[m] # 0
  BY OffloadAssumption
<1> HIDE DEF b
\* Where an event of the backward pass comes from.
<1>9. ASSUME NEW x \in 1 .. Len(b), NEW kind \in {"pre_bwd", "post_bwd"}, b[x] = Event(kind, m)
      PROVE  \E i \in 1 .. n : /\ i = n + 1 - o[x]
                               /\ f[i] = Event(IF kind = "pre_bwd" THEN "post_fwd" ELSE "pre_fwd", m)
  <2>1. PICK k \in 1 .. Len(g[o[x]]) : b[x] = g[o[x]][k]
    BY <1>5 DEF IsOrigin
  <2>2. o[x] \in 1 .. n
    BY <1>5 DEF IsOrigin
  <2>3. PICK i \in 1 .. n : i = n + 1 - o[x]
    BY <1>2, <2>2
  <2>4. g[o[x]] = Undo(f[i]) /\ f[i] \in ForwardEvents
    BY <1>1, <1>3, <2>2, <2>3
  <2>5. k \in 1 .. Len(Undo(f[i])) /\ Undo(f[i])[k].ev = kind /\ Undo(f[i])[k].m = m
    BY <1>9, <2>1, <2>4 DEF Event
  <2>6. /\ f[i].m \in Mods /\ Outputs[f[i].m] \in Nat /\ f[i] = Event(f[i].ev, f[i].m)
        /\ f[i].ev \in {"pre_fwd", "use", "post_fwd"}
    BY <1>7, <2>4, OffloadAssumption
  <2>7. CASE f[i].ev = "post_fwd"
    <3>1. Undo(f[i]) = [l \in 1 .. Outputs[f[i].m] |-> Event("pre_bwd", f[i].m)]
      BY <2>7 DEF Undo
    <3>2. Undo(f[i])[k] = Event("pre_bwd", f[i].m)
      BY <2>5, <2>6, <3>1
    <3>3. kind = "pre_bwd" /\ f[i].m = m
      BY <2>5, <3>2 DEF Event
    <3> QED BY <2>3, <2>6, <2>7, <3>3
  <2>8. CASE f[i].ev = "pre_fwd"
    <3>1. Undo(f[i]) = IF f[i].m \in NoGradIn THEN <<>> ELSE <<Event("post_bwd", f[i].m)>>
      BY <2>8 DEF Undo
    <3>2. Undo(f[i])[k] = Event("post_bwd", f[i].m)
      BY <2>5, <3>1
    <3>3. kind = "post_bwd" /\ f[i].m = m
      BY <2>5, <3>2 DEF Event
    <3> QED BY <2>3, <2>6, <2>8, <3>3
  <2>9. CASE f[i].ev = "use"
    <3>1. Undo(f[i]) = <<f[i]>>
      BY <2>9 DEF Undo
    <3>2. Undo(f[i])[k] = f[i]
      BY <2>5, <3>1
    <3> QED BY <2>5, <2>9, <3>2
  <2> QED BY <2>6, <2>7, <2>8, <2>9
\* And where the mirror image of an event is.
<1>10. ASSUME NEW j \in 1 .. n, NEW e, e = f[j], Undo(e) # <<>>
       PROVE  \E z \in 1 .. Len(b) : o[z] = n + 1 - j /\ b[z] = Undo(e)[1]
  <2>1. PICK i \in 1 .. n : i = n + 1 - j
    BY <1>2
  <2>2. g[i] = Undo(e)
    BY <1>2, <1>3, <1>10, <2>1
  <2>3. Undo(e) \in Seq(BackwardEvents)
    BY <1>3, <2>2
  <2>4. 1 \in 1 .. Len(g[i])
    BY <1>10, <2>2, <2>3
  <2>5. PICK z \in 1 .. Len(b) : o[z] = i /\ b[z] = g[i][1]
    BY <1>5, <2>4 DEF IsOrigin
  <2> QED BY ONLY <2>1, <2>2, <2>5
<1>11. ASSUME NEW x \in 1 .. Len(b), NEW z \in 1 .. Len(b), o[x] < o[z] PROVE x < z
  <2>1. x \in Nat /\ z \in Nat /\ (x < z \/ x = z \/ z < x)
    BY <1>6
  <2>2. o[x] \in 1 .. n /\ o[z] \in 1 .. n
    BY <1>5 DEF IsOrigin
  <2>3. CASE z < x
    <3>1. o[z] <= o[x]
      BY <1>5, <2>3 DEF IsOrigin
    <3> QED BY ONLY <1>1, <1>11, <2>2, <3>1
  <2> QED BY <1>1, <1>11, <2>1, <2>2, <2>3
<1>12. ASSUME b[y] = Event("post_bwd", m) PROVE \E z \in 1 .. Len(b) : z < y /\ b[z] = Event("pre_bwd", m)
  <2>0. y \in 1 .. Len(b)
    BY DEF b
  <2>1. PICK i \in 1 .. n : i = n + 1 - o[y] /\ f[i] = Event("pre_fwd", m)
    BY <1>9, <1>12, <2>0
  <2>2. PICK j \in 1 .. n : IsCall(f, i, j)
    BY <1>1, <2>1 DEF Called, Event
  <2>3. i < j /\ f[j] = Event("post_fwd", m)
    BY <2>1, <2>2 DEF IsCall, Event
  <2>4. Undo(f[j]) = [l \in 1 .. Outputs[m] |-> Event("pre_bwd", m)]
    BY <2>3 DEF Undo, Event
  <2>5. Undo(f[j])[1] = Event("pre_bwd", m) /\ Undo(f[j]) # <<>>
    BY <1>8, <2>4
  <2>6. PICK z \in 1 .. Len(b) : o[z] = n + 1 - j /\ b[z] = Event("pre_bwd", m)
    BY <1>10, <2>5
  <2>7. o[z] < o[y]
    <3>1. o[y] \in 1 .. n
      BY <1>5, <2>0 DEF IsOrigin
    <3>2. \A a, c, d \in 1 .. n : c = n + 1 - a /\ c < d => n + 1 - d < a
      BY ONLY <1>1
    <3> QED BY ONLY <2>1, <2>3, <2>6, <3>1, <3>2
  <2> QED BY <1>11, <2>0, <2>6, <2>7
<1>13. ASSUME b[y] = Event("pre_bwd", m)
       PROVE  /\ \E z \in 1 .. Len(b) : y < z /\ b[z] = Event("use", m)
              /\ \E i, j \in 1 .. n : i < j /\ f[i] = Event("pre_fwd", m) /\ f[j] = Event("post_fwd", m)
  <2>0. y \in 1 .. Len(b)
    BY DEF b
  <2>1. PICK j \in 1 .. n : j = n + 1 - o[y] /\ f[j] = Event("post_fwd", m)
    BY <1>9, <1>13, <2>0
  <2>2. PICK i \in 1 .. n : IsCall(f, i, j)
    BY <1>1, <2>1 DEF Called, Event
  <2>3. PICK k \in i + 1 .. j - 1 : f[k] = Event("use", m)
    BY <2>1, <2>2 DEF IsCall, Event
  <2>4. i < j /\ f[i] = Event("pre_fwd", m)
    BY <2>1, <2>2 DEF IsCall, Event
  <2>5. k \in 1 .. n /\ k < j
    BY <1>1, <2>3
  <2>6. Undo(f[k]) = <<Event("use", m)>>
    BY <2>3 DEF Undo, Event
  <2>7. Undo(f[k])[1] = Event("use", m) /\ Undo(f[k]) # <<>>
    BY <2>6
  <2>8. PICK z \in 1 .. Len(b) : o[z] = n + 1 - k /\ b[z] = Event("use", m)
    BY <1>10, <2>5, <2>7
  <2>9. o[y] < o[z]
    <3>1. o[y] \in 1 .. n
      BY <1>5, <2>0 DEF IsOrigin
    <3>2. \A a, c, d \in 1 .. n : d = n + 1 - a /\ c < d => a < n + 1 - c
      BY ONLY <1>1
    <3> QED BY ONLY <2>1, <2>5, <2>8, <3>1, <3>2
  <2> QED BY <1>11, <2>0, <2>1, <2>4, <2>8, <2>9
<1> QED BY <1>12, <1>13 DEF b

\* The places of the two passes in the script of an iteration.
LEMMA PassPlaces ==
  ASSUME schedule \in Schedules, NEW n \in 1 .. Len(schedule)
  PROVE  LET f == schedule[n]
             b == Backward(f)
         IN /\ f \in Seq(ForwardEvents) /\ Called(f) /\ Len(f) \in Nat /\ Len(b) \in Nat
            /\ Len(Script(n)) = Len(f) + Len(b) + 4
            /\ \A y \in 1 .. Len(f) : Script(n)[y] = f[y]
            /\ \A y \in 1 .. Len(b) : Script(n)[Len(f) + y] = b[y]
            /\ \A y \in 1 .. Len(Script(n)) : y > Len(f) + Len(b) => Script(n)[y] \in EndEvents
<1> DEFINE f == schedule[n]
           b == Backward(f)
<1>1. f \in Seq(ForwardEvents) /\ Called(f) /\ Len(f) \in Nat /\ \A y \in 1 .. Len(f) : Script(n)[y] = f[y]
  BY PassScript
<1>2. /\ b \in Seq(HookEvents) /\ f \in Seq(HookEvents)
      /\ EndOfStep \in Seq(EndEvents) /\ Len(EndOfStep) = 4
  BY <1>1, BackwardType DEF EndOfStep, EndEvents
<1>3. f \in Seq(HostEvents) /\ b \in Seq(HostEvents) /\ EndOfStep \in Seq(HostEvents)
  BY <1>2 DEF HostEvents
<1>4. Script(n) = (f \o b) \o EndOfStep
  <2>1. n # 0
    OBVIOUS
  <2> QED BY <1>3, <2>1 DEF Script
<1> HIDE DEF f, b
<1>5. /\ f \o b \in Seq(HostEvents) /\ Len(f \o b) = Len(f) + Len(b) /\ Len(f) \in Nat /\ Len(b) \in Nat
      /\ \A i \in 1 .. Len(b) : (f \o b)[Len(f) + i] = b[i]
  BY <1>3, ConcatFacts
<1>6. /\ Len(Script(n)) = Len(f \o b) + 4
      /\ \A i \in 1 .. Len(f \o b) : Script(n)[i] = (f \o b)[i]
      /\ \A i \in 1 .. 4 : Script(n)[Len(f \o b) + i] = EndOfStep[i]
  <2>1. /\ Len((f \o b) \o EndOfStep) = Len(f \o b) + Len(EndOfStep)
        /\ \A i \in 1 .. Len(f \o b) : ((f \o b) \o EndOfStep)[i] = (f \o b)[i]
        /\ \A i \in 1 .. Len(EndOfStep) : ((f \o b) \o EndOfStep)[Len(f \o b) + i] = EndOfStep[i]
    BY <1>3, <1>5, ConcatFacts
  <2> QED BY ONLY <1>2, <1>4, <2>1
<1>7. PICK k \in Nat, l \in Nat : k = Len(f) /\ l = Len(b) /\ Len(f \o b) = k + l
  BY <1>5
<1>8. ASSUME NEW y \in 1 .. l PROVE Script(n)[k + y] = b[y]
  <2>1. k + y \in 1 .. k + l
    OBVIOUS
  <2> QED BY <1>5, <1>6, <1>7, <2>1
<1>9. ASSUME NEW y \in 1 .. k + l + 4, y > k + l PROVE Script(n)[y] \in EndEvents
  <2>1. y - (k + l) \in 1 .. 4 /\ k + l + (y - (k + l)) = y
    BY <1>9
  <2>2. Script(n)[y] = EndOfStep[y - (k + l)]
    <3>1. PICK i \in 1 .. 4 : i = y - (k + l)
      BY <2>1
    <3>2. Script(n)[Len(f \o b) + i] = EndOfStep[i] /\ Len(f \o b) + i = y
      BY <1>6, <1>7, <2>1, <3>1
    <3> QED BY ONLY <3>1, <3>2
  <2>3. \A i \in 1 .. 4 : EndOfStep[i] \in EndEvents
    <3>1. \A e \in Seq(EndEvents) : \A i \in 1 .. Len(e) : e[i] \in EndEvents
      OBVIOUS
    <3>2. EndOfStep \in Seq(EndEvents) /\ Len(EndOfStep) = 4
      BY <1>2
    <3> QED BY ONLY <3>1, <3>2
  <2> QED BY ONLY <2>1, <2>2, <2>3
<1>10. Len(Script(n)) = k + l + 4
  BY <1>6, <1>7
<1> QED BY <1>1, <1>7, <1>8, <1>9, <1>10 DEF f, b

\* In the script of an iteration a fetch comes before a computation, the hook
\* behind a backward computation after the one before it, and the whole
\* backward pass after the forward pass.
LEMMA PassOrder ==
  ASSUME schedule \in Schedules, NEW n \in 1 .. Len(schedule), NEW y \in 1 .. Len(Script(n)), NEW m \in Mods
  PROVE  LET s == Script(n) IN
         /\ s[y] = Event("pre_fwd", m) \/ s[y] = Event("pre_bwd", m) =>
              \E z \in 1 .. Len(s) : y < z /\ s[z] = Event("use", m)
         /\ s[y] = Event("post_bwd", m) => \E z \in 1 .. Len(s) : z < y /\ s[z] = Event("pre_bwd", m)
         /\ s[y] = Event("pre_bwd", m) =>
              /\ \E z \in 1 .. Len(s) : z < y /\ s[z] = Event("pre_fwd", m)
              /\ \E z \in 1 .. Len(s) : z < y /\ s[z] = Event("post_fwd", m)
              /\ \A z \in 1 .. Len(s) : s[z].ev \in {"pre_fwd", "post_fwd"} => z < y
<1> DEFINE f == schedule[n]
           b == Backward(f)
           s == Script(n)
<1>1. /\ f \in Seq(ForwardEvents) /\ Called(f)
      /\ \A x \in 1 .. Len(f) : s[x] = f[x] /\ f[x] \in ForwardEvents
  <2>1. /\ f \in Seq(ForwardEvents) /\ Called(f) /\ \A x \in 1 .. Len(f) : s[x] = f[x]
    BY PassPlaces
  <2>2. \A x \in 1 .. Len(f) : f[x] \in ForwardEvents
    BY <2>1
  <2> QED BY <2>1, <2>2
<1>2. PICK k \in Nat, l \in Nat :
        /\ k = Len(f) /\ l = Len(b) /\ Len(s) = k + l + 4
        /\ \A x \in 1 .. l : s[k + x] = b[x] /\ b[x] \in BackwardEvents
        /\ \A x \in 1 .. Len(s) : x > k + l => s[x] \in EndEvents
  <2>1. b \in Seq(BackwardEvents)
    BY <1>1, BackwardType
  <2>2. \A x \in 1 .. Len(b) : b[x] \in BackwardEvents
    BY <2>1
  <2>3. /\ Len(f) \in Nat /\ Len(b) \in Nat /\ Len(s) = Len(f) + Len(b) + 4
        /\ \A x \in 1 .. Len(b) : s[Len(f) + x] = b[x]
        /\ \A x \in 1 .. Len(s) : x > Len(f) + Len(b) => s[x] \in EndEvents
    BY PassPlaces
  <2> HIDE DEF f, b, s
  <2> QED BY ONLY <2>2, <2>3
<1> HIDE DEF f, b, s
<1>3. \A e \in ForwardEvents : e.ev \in {"pre_fwd", "use", "post_fwd"}
  BY DEF ForwardEvents, Event
<1>4. \A e \in BackwardEvents : e.ev \in {"pre_bwd", "use", "post_bwd"}
  BY DEF BackwardEvents, Event
<1>5. \A e \in EndEvents : e.ev \in {"reset_step", "epilogue", "release_all", "update"}
  BY DEF EndEvents, Event
<1>6. \A x \in 1 .. Len(s) : x \in 1 .. k \/ (\E i \in 1 .. l : x = k + i) \/ x > k + l
  <2> SUFFICES ASSUME NEW x \in 1 .. Len(s), ~ (x \in 1 .. k), ~ (x > k + l) PROVE \E i \in 1 .. l : x = k + i
    OBVIOUS
  <2>1. x - k \in 1 .. l /\ x = k + (x - k)
    BY <1>2
  <2> QED BY <2>1
<1>7. ASSUME NEW x \in 1 .. Len(s), s[x].ev \in {"pre_fwd", "post_fwd"} PROVE x \in 1 .. k /\ s[x] = f[x]
  <2>1. \A i \in 1 .. l : s[k + i] \in BackwardEvents
    BY <1>2
  <2>2. s[x] \notin BackwardEvents /\ s[x] \notin EndEvents
    BY <1>4, <1>5, <1>7
  <2>3. x \in 1 .. k
    BY <1>2, <1>6, <2>1, <2>2
  <2> QED BY <1>1, <1>2, <2>3
<1>8. ASSUME NEW x \in 1 .. Len(s), s[x].ev \in {"pre_bwd", "post_bwd"} PROVE \E i \in 1 .. l : x = k + i /\ s[x] = b[i]
  <2>1. s[x] \notin ForwardEvents /\ s[x] \notin EndEvents
    BY <1>3, <1>5, <1>8
  <2>2. ~ (x > k + l)
    BY <1>2, <2>1
  <2>3. x \notin 1 .. k
    BY <1>1, <1>2, <2>1
  <2> QED BY <1>2, <1>6, <2>2, <2>3
<1>9. y \in 1 .. Len(s)
  BY DEF s
<1>10. ASSUME s[y] = Event("pre_fwd", m) PROVE \E z \in 1 .. Len(s) : y < z /\ s[z] = Event("use", m)
  <2>1. y \in 1 .. k /\ f[y] = Event("pre_fwd", m)
    BY <1>7, <1>9, <1>10 DEF Event
  <2>2. PICK j \in 1 .. k : IsCall(f, y, j)
    BY <1>1, <1>2, <2>1 DEF Called, Event
  <2>3. PICK z \in y + 1 .. j - 1 : f[z] = Event("use", m)
    BY <2>1, <2>2 DEF IsCall, Event
  <2>4. z \in 1 .. k /\ z \in 1 .. Len(s) /\ y < z
    BY <1>2, <2>1, <2>3
  <2> QED BY <1>1, <1>2, <2>3, <2>4
<1>11. ASSUME s[y] = Event("pre_bwd", m)
       PROVE  /\ \E z \in 1 .. Len(s) : y < z /\ s[z] = Event("use", m)
              /\ \E z \in 1 .. Len(s) : z < y /\ s[z] = Event("pre_fwd", m)
              /\ \E z \in 1 .. Len(s) : z < y /\ s[z] = Event("post_fwd", m)
              /\ \A z \in 1 .. Len(s) : s[z].ev \in {"pre_fwd", "post_fwd"} => z < y
  <2>1. PICK x \in 1 .. l : y = k + x /\ b[x] = Event("pre_bwd", m)
    BY <1>8, <1>9, <1>11 DEF Event
  <2>2. /\ \E z \in 1 .. Len(b) : x < z /\ b[z] = Event("use", m)
        /\ \E i, j \in 1 .. Len(f) : i < j /\ f[i] = Event("pre_fwd", m) /\ f[j] = Event("post_fwd", m)
    <3>1. x \in 1 .. Len(Backward(f)) /\ Backward(f)[x] = Event("pre_bwd", m)
      BY <1>2, <2>1 DEF b
    <3> QED BY <1>1, <3>1, BackwardOrder DEF b
  <2>3. PICK z \in 1 .. l : x < z /\ b[z] = Event("use", m)
    BY <1>2, <2>2
  <2>4. k + z \in 1 .. Len(s) /\ y < k + z /\ s[k + z] = Event("use", m)
    BY <1>2, <2>1, <2>3
  <2>5. PICK i \in 1 .. k, j \in 1 .. k : f[i] = Event("pre_fwd", m) /\ f[j] = Event("post_fwd", m)
    BY <1>2, <2>2
  <2>6. /\ i \in 1 .. Len(s) /\ i < y /\ s[i] = Event("pre_fwd", m)
        /\ j \in 1 .. Len(s) /\ j < y /\ s[j] = Event("post_fwd", m)
    <3>1. \A a \in 1 .. k : a \in 1 .. Len(s) /\ a < y /\ s[a] = f[a]
      <4>1. Len(s) = k + l + 4 /\ y = k + x /\ \A a \in 1 .. k : s[a] = f[a]
        BY <1>1, <1>2, <2>1
      <4> QED BY ONLY <4>1
    <3> QED BY ONLY <2>5, <3>1
  <2>7. ASSUME NEW q \in 1 .. Len(s), s[q].ev \in {"pre_fwd", "post_fwd"} PROVE q < y
    <3>1. q \in 1 .. k
      BY <1>7, <2>7
    <3> QED BY <2>1, <3>1
  <2> QED BY <2>4, <2>6, <2>7
<1>12. ASSUME s[y] = Event("post_bwd", m) PROVE \E z \in 1 .. Len(s) : z < y /\ s[z] = Event("pre_bwd", m)
  <2>1. PICK x \in 1 .. l : y = k + x /\ b[x] = Event("post_bwd", m)
    BY <1>8, <1>9, <1>12 DEF Event
  <2>2. \E z \in 1 .. Len(b) : z < x /\ b[z] = Event("pre_bwd", m)
    <3>1. x \in 1 .. Len(Backward(f)) /\ Backward(f)[x] = Event("post_bwd", m)
      BY <1>2, <2>1 DEF b
    <3> QED BY <1>1, <3>1, BackwardOrder DEF b
  <2>3. PICK z \in 1 .. l : z < x /\ b[z] = Event("pre_bwd", m)
    BY <1>2, <2>2
  <2>4. k + z \in 1 .. Len(s) /\ k + z < y /\ s[k + z] = Event("pre_bwd", m)
    BY <1>2, <2>1, <2>3
  <2> QED BY <2>4
<1> QED BY <1>10, <1>11, <1>12 DEF s

-----------------------------------------------------------------------------
(* What the hooks count *)

\* The actions of the hooks themselves.
HookRuns == PreForward \/ PostForward \/ PreBackward \/ PostBackward

\* No other action of the host thread changes the counters of the hooks.
LEMMA HookChanges ==
  ASSUME Host, ~ UNCHANGED hook
  PROVE  HookRuns
<1>1. StartIteration \/ UseParams \/ FetchParam \/ FetchDone \/ Start \/ Loop => UNCHANGED hook
  BY DEF StartIteration, UseParams, FetchParam, FetchDone, Start, Loop, ConvertParam, GatherForHook, AddHook,
         StepReset, Epilogue, ReleaseAll, UpdateShards, hookVars
<1> QED BY <1>1, Zenon DEF Host, Hooks, HookRuns

\* What the hooks do to the counters of a submodule.
LEMMA HookFields ==
  ASSUME CtlInv, Counters, HookRuns
  PROVE  /\ Mod \in Mods /\ todo # <<>> /\ fetching = NoMod /\ todo[1] = Event(todo[1].ev, Mod) /\ ~ StartIteration
         /\ \A m \in Mods \ {Mod} : hook'[m] = hook[m]
         /\ LET h == hook[Mod]
                g == hook'[Mod]
            IN \/ /\ PreForward /\ todo[1].ev = "pre_fwd"
                  /\ g.stack = Append(h.stack, h.calls + 1) /\ g.calls = h.calls + 1
                  /\ g.lastPre = h.lastPre /\ g.refs = h.refs /\ g.gradsLeft <= 1
               \/ /\ PostForward /\ todo[1].ev = "post_fwd"
                  /\ g.stack = h.stack /\ g.calls = h.calls /\ g.lastPre = h.lastPre
                  /\ g.refs > 0 /\ g.gradsLeft = h.gradsLeft
               \/ /\ PreBackward /\ todo[1].ev = "pre_bwd" /\ AlreadyFetched(h)
                  /\ g.stack = h.stack /\ g.calls = h.calls /\ g.lastPre = h.lastPre /\ g.gradsLeft = h.gradsLeft
               \/ /\ PreBackward /\ todo[1].ev = "pre_bwd" /\ ~ AlreadyFetched(h)
                  /\ g.stack = h.stack /\ g.calls = h.calls /\ g.gradsLeft = h.gradsLeft
                  /\ g.lastPre = h.lastPre \/ (h.stack # <<>> /\ g.lastPre = Last(h.stack))
               \/ /\ PostBackward /\ todo[1].ev = "post_bwd"
                  /\ g.stack = h.stack \/ (h.stack # <<>> /\ g.stack = Front(h.stack))
                  /\ g.calls = h.calls /\ g.lastPre = h.lastPre
                  /\ g.gradsLeft = 0 \/ g.gradsLeft = h.gradsLeft - 1
<1>1. PreForward \/ PostForward \/ PreBackward \/ PostBackward
  BY DEF HookRuns
<1>2. PICK kind \in {"pre_fwd", "post_fwd", "pre_bwd", "post_bwd"} :
        /\ Now(kind)
        /\ PreForward => kind = "pre_fwd"
        /\ PostForward => kind = "post_fwd"
        /\ PreBackward => kind = "pre_bwd"
        /\ PostBackward => kind = "post_bwd"
  BY <1>1 DEF PreForward, PostForward, PreBackward, PostBackward, Now
<1>3. Mod \in Mods /\ todo # <<>> /\ fetching = NoMod /\ Head(todo) = todo[1] /\ todo[1].ev = kind /\ Mod = todo[1].m
  BY <1>2, NowLoop DEF Now, CtlInv, AtScript, Mod
<1>4. todo[1] = Event(todo[1].ev, Mod)
  <2>1. todo[1] \in HostEvents
    BY <1>3 DEF CtlInv, AtScript
  <2>2. \A e \in HostEvents : e = Event(e.ev, e.m)
    BY DEF HostEvents, StartEvents, HookEvents, EndEvents, Event
  <2> QED BY <1>3, <2>1, <2>2
<1>5. ~ StartIteration
  BY <1>3 DEF StartIteration
<1> DEFINE h == hook[Mod]
           g == hook'[Mod]
<1>6. h \in HookType /\ hook \in [Mods -> HookType]
  BY <1>3 DEF Counters
<1>7. ASSUME NEW x, hook' = [hook EXCEPT ![Mod] = x] PROVE g = x /\ \A m \in Mods \ {Mod} : hook'[m] = hook[m]
  BY <1>3, <1>6, <1>7
<1>8. CASE PreForward
  <2>1. hook' = [hook EXCEPT ![Mod] = [h EXCEPT !.calls = h.calls + 1, !.stack = Append(h.stack, h.calls + 1),
                                                !.gradsLeft = IF Mod \in NoGradIn THEN 0 ELSE 1]]
    BY <1>3, <1>6, <1>8 DEF PreForward
  <2> DEFINE r == [h EXCEPT !.calls = h.calls + 1, !.stack = Append(h.stack, h.calls + 1),
                           !.gradsLeft = IF Mod \in NoGradIn THEN 0 ELSE 1]
  <2>5. hook' = [hook EXCEPT ![Mod] = r]
    BY <2>1
  <2> HIDE DEF h, g, r
  <2>6. g = r /\ \A m \in Mods \ {Mod} : hook'[m] = hook[m]
    BY <1>7, <2>5
  <2>2. /\ g = [h EXCEPT !.calls = h.calls + 1, !.stack = Append(h.stack, h.calls + 1),
                         !.gradsLeft = IF Mod \in NoGradIn THEN 0 ELSE 1]
        /\ \A m \in Mods \ {Mod} : hook'[m] = hook[m]
    BY <2>6 DEF r
  <2>3. /\ g.stack = Append(h.stack, h.calls + 1) /\ g.calls = h.calls + 1
        /\ g.lastPre = h.lastPre /\ g.refs = h.refs /\ g.gradsLeft <= 1
    BY <1>6, <2>2 DEF HookType
  <2> QED BY <1>2, <1>3, <1>4, <1>5, <1>8, <2>2, <2>3 DEF h, g
<1>9. CASE PostForward
  <2>1. hook' = [hook EXCEPT ![Mod] = [h EXCEPT !.refs = h.refs + Outputs[Mod]]]
    BY <1>3, <1>6, <1>9 DEF PostForward
  <2> DEFINE o == Outputs[Mod]
             r == [h EXCEPT !.refs = h.refs + o]
  <2>5. hook' = [hook EXCEPT ![Mod] = r]
    BY <2>1
  <2>3. o \in Nat /\ o > 0 /\ h.refs \in Nat
    BY <1>3, <1>6, OffloadAssumption DEF HookType
  <2> HIDE DEF h, g, o, r
  <2>6. g = r /\ \A m \in Mods \ {Mod} : hook'[m] = hook[m]
    BY <1>7, <2>5
  <2>4. /\ g.stack = h.stack /\ g.calls = h.calls /\ g.lastPre = h.lastPre
        /\ g.refs > 0 /\ g.gradsLeft = h.gradsLeft
    <3>1. g = [h EXCEPT !.refs = h.refs + o]
      BY <2>6 DEF r
    <3> QED BY ONLY <1>6, <2>3, <3>1 DEF HookType
  <2> QED BY <1>2, <1>3, <1>4, <1>5, <1>9, <2>6, <2>4 DEF h, g
<1>10. CASE PreBackward /\ AlreadyFetched(h)
  <2>1. hook' = hook \/ hook' = [hook EXCEPT ![Mod] = [h EXCEPT !.current = CurrentCall(h)]]
    BY <1>3, <1>6, <1>10 DEF PreBackward
  <2> DEFINE c == CurrentCall(h)
  <2> HIDE DEF h, g, c
  <2>2. g = h \/ g = [h EXCEPT !.current = c]
    BY <1>7, <2>1 DEF c, g, h
  <2>3. \A m \in Mods \ {Mod} : hook'[m] = hook[m]
    BY <1>7, <2>1
  <2>4. g.stack = h.stack /\ g.calls = h.calls /\ g.lastPre = h.lastPre /\ g.gradsLeft = h.gradsLeft
    BY ONLY <1>6, <2>2 DEF HookType
  <2> QED BY <1>2, <1>3, <1>4, <1>5, <1>10, <2>3, <2>4 DEF h, g
<1>11. CASE PreBackward /\ ~ AlreadyFetched(h)
  <2> DEFINE c == CurrentCall(h)
             l == IF h.stack = <<>> THEN h.lastPre ELSE Last(h.stack)
  <2>1. hook' = [hook EXCEPT ![Mod] = [h EXCEPT !.current = c, !.lastPre = l, !.refs = @ - 1]]
    BY <1>3, <1>6, <1>11 DEF PreBackward
  <2> DEFINE r == [h EXCEPT !.current = c, !.lastPre = l, !.refs = @ - 1]
  <2>5. hook' = [hook EXCEPT ![Mod] = r]
    BY <2>1
  <2> HIDE DEF h, g, c, r
  <2>6. g = r /\ \A m \in Mods \ {Mod} : hook'[m] = hook[m]
    BY <1>7, <2>5
  <2>2. g = [h EXCEPT !.current = c, !.lastPre = l, !.refs = @ - 1] /\ \A m \in Mods \ {Mod} : hook'[m] = hook[m]
    BY <2>6 DEF r
  <2>3. g.lastPre = h.lastPre \/ (h.stack # <<>> /\ g.lastPre = Last(h.stack))
    <3>1. g.lastPre = l
      <4> HIDE DEF l
      <4> QED BY ONLY <1>6, <2>2 DEF HookType
    <3> QED BY <3>1
  <2> HIDE DEF l
  <2>4. g.stack = h.stack /\ g.calls = h.calls /\ g.gradsLeft = h.gradsLeft
    BY ONLY <1>6, <2>2 DEF HookType
  <2> QED BY <1>2, <1>3, <1>4, <1>5, <1>11, <2>2, <2>3, <2>4 DEF h, g
<1>12. CASE PostBackward
  <2> DEFINE s == IF h.stack = <<>> THEN h.stack ELSE Front(h.stack)
  <2>1. \/ hook' = [hook EXCEPT ![Mod] = [h EXCEPT !.gradsLeft = 0, !.current = None, !.stack = s]]
        \/ hook' = [hook EXCEPT ![Mod] = [h EXCEPT !.gradsLeft = @ - 1]]
    BY <1>3, <1>6, <1>12 DEF PostBackward
  <2> HIDE DEF h, g
  <2>2. /\ \/ g = [h EXCEPT !.gradsLeft = 0, !.current = None, !.stack = s]
           \/ g = [h EXCEPT !.gradsLeft = @ - 1]
        /\ \A m \in Mods \ {Mod} : hook'[m] = hook[m]
    BY <1>7, <2>1
  <2>3. s = h.stack \/ (h.stack # <<>> /\ s = Front(h.stack))
    OBVIOUS
  <2> HIDE DEF s
  <2>4. /\ g.stack = h.stack \/ g.stack = s
        /\ g.calls = h.calls /\ g.lastPre = h.lastPre
        /\ g.gradsLeft = 0 \/ g.gradsLeft = h.gradsLeft - 1
    BY ONLY <1>6, <2>2 DEF HookType
  <2> QED BY <1>2, <1>3, <1>4, <1>5, <1>12, <2>2, <2>3, <2>4 DEF h, g
<1> QED BY <1>1, <1>8, <1>9, <1>10, <1>11, <1>12

\* A number of a call stays below the count of the calls.
LEMMA CallCountsStep ==
  ASSUME CtlInv, Counters, CallCounts, [Next]_vars
  PROVE  CallCounts'
<1>1. CASE UNCHANGED hook
  BY <1>1 DEF CallCounts, CallCount
<1>2. CASE Device \/ UNCHANGED vars
  BY <1>1, <1>2 DEF Device, hookVars, vars
<1>3. CASE Host /\ ~ UNCHANGED hook
  <2> DEFINE h == hook[Mod]
             g == hook'[Mod]
  <2>1. /\ Mod \in Mods /\ \A m \in Mods \ {Mod} : hook'[m] = hook[m]
        /\ g.stack = Append(h.stack, h.calls + 1) \/ g.stack = h.stack \/ (h.stack # <<>> /\ g.stack = Front(h.stack))
        /\ g.calls = h.calls \/ g.calls = h.calls + 1
        /\ g.stack = Append(h.stack, h.calls + 1) => g.calls = h.calls + 1
        /\ g.lastPre = h.lastPre \/ (h.stack # <<>> /\ g.lastPre = Last(h.stack))
        /\ g.gradsLeft <= 1 \/ g.gradsLeft = h.gradsLeft \/ g.gradsLeft = 0 \/ g.gradsLeft = h.gradsLeft - 1
    <3>1. h.stack \in Seq(Nat) /\ h.calls \in Nat
      <4>1. Mod \in Mods
        BY <1>3, HookChanges, HookFields
      <4> QED BY <4>1 DEF Counters, HookType
    <3>2. Append(h.stack, h.calls + 1) # h.stack /\ (h.stack # <<>> => Append(h.stack, h.calls + 1) # Front(h.stack))
      <4> HIDE DEF h
      <4>1. Len(Append(h.stack, h.calls + 1)) = Len(h.stack) + 1 /\ Len(h.stack) \in Nat
        BY <3>1
      <4>2. h.stack # <<>> => Len(Front(h.stack)) = Len(h.stack) - 1
        BY <3>1 DEF Front
      <4> QED BY <4>1, <4>2
    <3> HIDE DEF h, g
    <3>3. /\ Mod \in Mods /\ \A m \in Mods \ {Mod} : hook'[m] = hook[m]
          /\ \/ g.stack = Append(h.stack, h.calls + 1) /\ g.calls = h.calls + 1
             \/ g.calls = h.calls /\ (g.stack = h.stack \/ (h.stack # <<>> /\ g.stack = Front(h.stack)))
          /\ g.lastPre = h.lastPre \/ (h.stack # <<>> /\ g.lastPre = Last(h.stack))
          /\ g.gradsLeft <= 1 \/ g.gradsLeft = h.gradsLeft \/ g.gradsLeft = 0 \/ g.gradsLeft = h.gradsLeft - 1
      BY <1>3, HookChanges, HookFields, Zenon DEF h, g
    <3> QED BY ONLY <3>2, <3>3, Zenon
  <2>2. h \in HookType /\ CallCount(h) /\ g \in HookType
    <3>1. hook' \in [Mods -> HookType]
      BY HooksStep DEF Counters
    <3> QED BY <2>1, <3>1 DEF Counters, CallCounts
  <2>3. /\ h.stack \in Seq(Nat) /\ h.calls \in Nat /\ h.lastPre \in Nat /\ h.gradsLeft \in Int
        /\ g.stack \in Seq(Nat)
        /\ (\A i \in 1 .. Len(h.stack) : h.stack[i] <= h.calls) /\ h.lastPre <= h.calls /\ h.gradsLeft <= 1
    <3> HIDE DEF h, g
    <3>1. /\ h.stack \in Seq(Nat) /\ h.calls \in Nat /\ h.lastPre \in Nat /\ h.gradsLeft \in Int
          /\ g.stack \in Seq(Nat)
      BY <2>2 DEF HookType
    <3>2. DOMAIN h.stack = 1 .. Len(h.stack)
      BY <3>1
    <3>3. (\A i \in DOMAIN h.stack : h.stack[i] <= h.calls) /\ h.lastPre <= h.calls /\ h.gradsLeft <= 1
      BY <2>2 DEF CallCount
    <3> QED BY <3>1, <3>2, <3>3, Zenon
  <2> HIDE DEF h, g
  <2>4. PICK s \in Seq(Nat), c \in Nat : s = h.stack /\ c = h.calls /\ \A i \in 1 .. Len(s) : s[i] <= c
    BY <2>3
  <2>5. \A i \in DOMAIN g.stack : g.stack[i] <= g.calls
    <3>1. CASE g.stack = Append(s, c + 1) /\ g.calls = c + 1
      <4>1. \A i \in 1 .. Len(s) + 1 : Append(s, c + 1)[i] <= c + 1
        <5> SUFFICES ASSUME NEW i \in 1 .. Len(s) + 1 PROVE Append(s, c + 1)[i] <= c + 1
          OBVIOUS
        <5>1. CASE i = Len(s) + 1
          BY ONLY <2>4, <5>1
        <5>2. CASE i \in 1 .. Len(s)
          <6>1. Append(s, c + 1)[i] = s[i] /\ s[i] <= c /\ s[i] \in Nat
            BY <2>4, <5>2
          <6> QED BY ONLY <2>4, <6>1
        <5> QED BY <2>4, <5>1, <5>2
      <4>2. DOMAIN Append(s, c + 1) = 1 .. Len(s) + 1
        BY <2>4
      <4> QED BY ONLY <3>1, <4>1, <4>2
    <3>2. CASE g.stack = s /\ (g.calls = c \/ g.calls = c + 1)
      <4>1. \A i \in 1 .. Len(s) : s[i] \in Nat /\ s[i] <= c
        BY <2>4
      <4>2. DOMAIN s = 1 .. Len(s)
        BY <2>4
      <4> QED BY ONLY <2>4, <3>2, <4>1, <4>2
    <3>3. CASE s # <<>> /\ g.stack = Front(s) /\ (g.calls = c \/ g.calls = c + 1)
      <4>1. \A i \in DOMAIN Front(s) : Front(s)[i] \in Nat /\ Front(s)[i] <= c
        <5>1. Front(s) = [i \in 1 .. Len(s) - 1 |-> s[i]]
          BY <2>4, <3>3 DEF Front
        <5>2. Len(s) \in Nat /\ \A i \in 1 .. Len(s) : s[i] \in Nat /\ s[i] <= c
          BY <2>4
        <5>3. \A i \in 1 .. Len(s) - 1 : s[i] \in Nat /\ s[i] <= c
          BY ONLY <5>2
        <5> QED BY ONLY <5>1, <5>3
      <4> QED BY ONLY <2>4, <3>3, <4>1
    <3> QED BY <2>1, <2>4, <3>1, <3>2, <3>3
  <2>6. g.lastPre <= g.calls
    <3>1. s # <<>> => Last(s) \in Nat /\ Last(s) <= c
      BY <2>4 DEF Last
    <3> QED BY ONLY <2>1, <2>3, <2>4, <3>1
  <2>7. g.gradsLeft <= 1
    BY ONLY <2>1, <2>3
  <2>8. CallCount(g)
    BY <2>5, <2>6, <2>7 DEF CallCount
  <2>9. ASSUME NEW m \in Mods PROVE CallCount(hook'[m])
    <3>1. CASE m = Mod
      BY <2>8, <3>1 DEF g
    <3>2. CASE m # Mod
      BY <2>1, <3>2 DEF CallCounts
    <3> QED BY <3>1, <3>2
  <2> QED BY <2>9 DEF CallCounts
<1> QED BY <1>1, <1>2, <1>3 DEF Next

\* What the host thread has run, and begun, of the script.
LEMMA BeganFacts ==
  ASSUME AtScript, fetching = NoMod \/ todo # <<>>, NEW kind, NEW m
  PROVE  Began(kind, m) <=> Ran(kind, m) \/ (fetching # NoMod /\ todo[1] = Event(kind, m))
<1>1. Done \in Nat
  BY DEF AtScript
<1>2. CASE fetching = NoMod
  BY <1>2 DEF Began, Ran, Begun
<1>3. CASE fetching # NoMod
  <2>1. todo # <<>> /\ Begun = Done + 1 /\ todo[1] = Script(iter)[Done + 1]
    <3>1. todo # <<>> /\ 1 \in 1 .. Len(todo)
      BY <1>3 DEF AtScript
    <3> QED BY <1>3, <3>1 DEF AtScript, Begun
  <2>2. PICK d \in Nat : d = Done
    BY <1>1
  <2>3. \A y \in 1 .. d + 1 : y \in 1 .. d \/ y = d + 1
    OBVIOUS
  <2>4. \A y \in 1 .. d : y \in 1 .. d + 1
    OBVIOUS
  <2>5. d + 1 \in 1 .. d + 1
    OBVIOUS
  <2>6. Began(kind, m) <=> \E y \in 1 .. d + 1 : Script(iter)[y] = Event(kind, m)
    BY <2>1, <2>2 DEF Began
  <2>7. Ran(kind, m) <=> \E y \in 1 .. d : Script(iter)[y] = Event(kind, m)
    BY <2>2 DEF Ran
  <2>8. todo[1] = Script(iter)[d + 1]
    BY <2>1, <2>2
  <2> QED BY ONLY <1>3, <2>3, <2>4, <2>5, <2>6, <2>7, <2>8, Zenon
<1> QED BY <1>2, <1>3

\* When a fetch begins, so does the event it is for.
LEMMA BeganFetching ==
  ASSUME AtScript, UNCHANGED loopVars, todo' = todo, todo # <<>>, fetching' # NoMod, NEW kind, NEW m
  PROVE  Began(kind, m)' <=> Ran(kind, m) \/ todo[1] = Event(kind, m)
<1>1. Begun' = Done + 1 /\ Script(iter)' = Script(iter) /\ todo[1] = Script(iter)[Done + 1] /\ Done \in Nat
  <2>1. Script(iter)' = Script(iter) /\ Done' = Done
    BY ScriptStep
  <2>2. 1 \in 1 .. Len(todo)
    BY DEF AtScript
  <2> QED BY <2>1, <2>2 DEF Begun, AtScript
<1>2. PICK d \in Nat : d = Done
  BY <1>1
<1>3. Began(kind, m)' <=> \E y \in 1 .. d + 1 : Script(iter)[y] = Event(kind, m)
  <2>1. Began(kind, m)' <=> \E y \in 1 .. Begun' : Script(iter)'[y] = Event(kind, m)
    BY DEF Began
  <2> QED BY <1>1, <1>2, <2>1
<1>4. Ran(kind, m) <=> \E y \in 1 .. d : Script(iter)[y] = Event(kind, m)
  BY <1>2 DEF Ran
<1>5. \A y \in 1 .. d + 1 : y \in 1 .. d \/ y = d + 1
  OBVIOUS
<1>6. \A y \in 1 .. d : y \in 1 .. d + 1
  OBVIOUS
<1>7. d + 1 \in 1 .. d + 1
  OBVIOUS
<1>8. Script(iter)[d + 1] = todo[1]
  BY <1>1, <1>2
<1> QED BY ONLY <1>3, <1>4, <1>5, <1>6, <1>7, <1>8, Zenon

\* A step of the host thread runs the event it is at, or none.
LEMMA RanStep ==
  ASSUME AtScript, UNCHANGED loopVars, todo' = todo \/ (todo # <<>> /\ todo' = Tail(todo)), NEW kind, NEW m
  PROVE  Ran(kind, m)' <=> Ran(kind, m) \/ (todo' # todo /\ todo[1] = Event(kind, m))
<1>1. /\ Script(iter)' = Script(iter) /\ Done \in Nat
      /\ todo' = todo => Done' = Done
      /\ todo' # todo => Done' = Done + 1
  BY ScriptStep DEF AtScript
<1>2. CASE todo' = todo
  BY <1>1, <1>2 DEF Ran
<1>3. CASE todo' # todo
  <2>1. PICK d \in Nat : d = Done
    BY <1>1
  <2>2. todo[1] = Script(iter)[d + 1]
    <3>1. todo # <<>> /\ 1 \in 1 .. Len(todo)
      BY <1>3 DEF AtScript
    <3> QED BY <2>1, <3>1 DEF AtScript
  <2>3. \A y \in 1 .. d + 1 : y \in 1 .. d \/ y = d + 1
    OBVIOUS
  <2>4. \A y \in 1 .. d : y \in 1 .. d + 1
    OBVIOUS
  <2>5. d + 1 \in 1 .. d + 1
    OBVIOUS
  <2>6. Ran(kind, m)' <=> \E y \in 1 .. d + 1 : Script(iter)[y] = Event(kind, m)
    <3>1. Ran(kind, m)' <=> \E y \in 1 .. Done' : Script(iter)'[y] = Event(kind, m)
      BY DEF Ran
    <3> QED BY <1>1, <1>3, <2>1, <3>1
  <2>7. Ran(kind, m) <=> \E y \in 1 .. d : Script(iter)[y] = Event(kind, m)
    BY <2>1 DEF Ran
  <2> QED BY ONLY <1>3, <2>2, <2>3, <2>4, <2>5, <2>6, <2>7, Zenon
<1> QED BY <1>2, <1>3

\* The order of the two passes, seen from the event the host thread is at.
LEMMA PassSoFar ==
  ASSUME AtScript, iter > 0, todo # <<>>, NEW m \in Mods
  PROVE  /\ todo[1] = Event("post_bwd", m) => Ran("pre_bwd", m)
         /\ todo[1] = Event("pre_bwd", m) => Ran("pre_fwd", m) /\ Ran("post_fwd", m)
         /\ todo[1].ev \in {"pre_fwd", "post_fwd"} => ~ Ran("pre_bwd", m)
         /\ todo[1] \in {Event("pre_fwd", m), Event("pre_bwd", m)} =>
              \E y \in Done + 2 .. Len(Script(iter)) : Script(iter)[y] = Event("use", m)
<1>1. schedule \in Schedules /\ iter \in 1 .. Len(schedule) /\ Done \in Nat /\ Len(todo) \in Nat /\ Len(todo) > 0
  BY DEF AtScript
<1>2. PICK n \in 1 .. Len(schedule) : n = iter
  BY <1>1
<1>3. PICK d \in Nat : d = Done
  BY <1>1
<1>4. PICK l \in Nat : l = Len(Script(n)) /\ d + 1 \in 1 .. l
  <2>1. Len(Script(n)) \in Nat
    <3>1. Script(n) \in Seq(HostEvents)
      BY <1>1, LoopScript
    <3> QED BY <3>1
  <2>2. d = Len(Script(n)) - Len(todo)
    BY <1>2, <1>3 DEF Done
  <2> QED BY <1>1, <2>1, <2>2
<1>5. todo[1] = Script(n)[d + 1]
  <2>1. 1 \in 1 .. Len(todo)
    BY <1>1
  <2> QED BY <1>2, <1>3, <2>1 DEF AtScript
<1> DEFINE s == Script(n)
<1>6. /\ \A y \in 1 .. l :
           /\ s[y] = Event("pre_fwd", m) \/ s[y] = Event("pre_bwd", m) => \E z \in 1 .. l : y < z /\ s[z] = Event("use", m)
           /\ s[y] = Event("post_bwd", m) => \E z \in 1 .. l : z < y /\ s[z] = Event("pre_bwd", m)
           /\ s[y] = Event("pre_bwd", m) =>
                /\ \E z \in 1 .. l : z < y /\ s[z] = Event("pre_fwd", m)
                /\ \E z \in 1 .. l : z < y /\ s[z] = Event("post_fwd", m)
                /\ \A z \in 1 .. l : s[z].ev \in {"pre_fwd", "post_fwd"} => z < y
  BY <1>1, <1>4, PassOrder
<1>7. ASSUME NEW kind PROVE Ran(kind, m) <=> \E y \in 1 .. d : s[y] = Event(kind, m)
  BY <1>2, <1>3 DEF Ran
<1> HIDE DEF s
<1>8. s[d + 1] = todo[1]
  BY <1>5 DEF s
<1>9. ASSUME NEW kind, \E z \in 1 .. l : z < d + 1 /\ s[z] = Event(kind, m) PROVE Ran(kind, m)
  BY <1>7, <1>9
<1>10. todo[1] = Event("post_bwd", m) => Ran("pre_bwd", m)
  BY <1>4, <1>6, <1>8, <1>9
<1>11. todo[1] = Event("pre_bwd", m) => Ran("pre_fwd", m) /\ Ran("post_fwd", m)
  BY <1>4, <1>6, <1>8, <1>9
<1>12. todo[1].ev \in {"pre_fwd", "post_fwd"} => ~ Ran("pre_bwd", m)
  <2> SUFFICES ASSUME todo[1].ev \in {"pre_fwd", "post_fwd"}, Ran("pre_bwd", m) PROVE FALSE
    OBVIOUS
  <2>1. PICK y \in 1 .. d : s[y] = Event("pre_bwd", m)
    BY <1>7
  <2>2. y \in 1 .. l
    BY <1>4, <2>1
  <2>3. d + 1 < y
    BY <1>4, <1>6, <1>8, <2>1, <2>2
  <2> QED BY ONLY <2>1, <2>3
<1>13. todo[1] \in {Event("pre_fwd", m), Event("pre_bwd", m)} =>
         \E y \in Done + 2 .. Len(Script(iter)) : Script(iter)[y] = Event("use", m)
  <2> SUFFICES ASSUME todo[1] \in {Event("pre_fwd", m), Event("pre_bwd", m)}
               PROVE  \E y \in d + 2 .. l : s[y] = Event("use", m)
    BY <1>2, <1>3, <1>4 DEF s
  <2>1. PICK z \in 1 .. l : d + 1 < z /\ s[z] = Event("use", m)
    BY <1>4, <1>6, <1>8
  <2>2. z \in d + 2 .. l
    BY ONLY <2>1
  <2> QED BY <2>1, <2>2
<1> QED BY <1>10, <1>11, <1>12, <1>13

\* What keeps the counts of a submodule.
LEMMA PassKept ==
  ASSUME NEW m \in Mods, PassCount(m), hook'[m] = hook[m],
         Began("pre_fwd", m)' => Began("pre_fwd", m), Began("pre_bwd", m) => Began("pre_bwd", m)',
         Ran("post_fwd", m)' => Ran("post_fwd", m), Ran("pre_bwd", m)' => Ran("pre_bwd", m),
         \A p \in ParamsOf[m] : m \in active[p] => m \in active'[p]
  PROVE  PassCount(m)'
BY DEF PassCount

\* In a step to the next event, nothing else of the script has been run.
LEMMA PassElsewhere ==
  ASSUME AtScript, AtScript', UNCHANGED loopVars, todo # <<>>, todo' = Tail(todo), fetching' = NoMod, todo' # todo,
         NEW m \in Mods, PassCount(m), hook'[m] = hook[m],
         \A kind \in {"pre_fwd", "pre_bwd", "post_fwd"} : todo[1] # Event(kind, m),
         \A p \in ParamsOf[m] : m \in active[p] => m \in active'[p]
  PROVE  PassCount(m)'
<1>1. ASSUME NEW kind \in {"pre_fwd", "pre_bwd", "post_fwd"}
      PROVE  (Ran(kind, m)' <=> Ran(kind, m)) /\ (Began(kind, m)' <=> Ran(kind, m)) /\ (Began(kind, m) <=> Ran(kind, m))
  <2>1. Ran(kind, m)' <=> Ran(kind, m)
    BY RanStep
  <2>2. Began(kind, m) <=> Ran(kind, m)
    BY BeganFacts
  <2>3. Began(kind, m)' <=> Ran(kind, m)'
    <3>1. Begun' = Done'
      BY DEF Begun
    <3> QED BY <3>1 DEF Began, Ran
  <2> QED BY <2>1, <2>2, <2>3
<1> QED BY <1>1, PassKept

\* The hook of a submodule: what its own counters become.
LEMMA PassHook ==
  ASSUME CtlInv, CtlInv', Counters, CallCounts, PassCounts, [Next]_vars, HookRuns, Running, Running', UNCHANGED loopVars,
         NEW m, m = Mod
  PROVE  PassCount(m)'
<1>0. /\ m \in Mods /\ todo # <<>> /\ fetching = NoMod /\ todo[1] = Event(todo[1].ev, m)
      /\ \A n \in Mods \ {m} : hook'[n] = hook[n]
  BY HookFields, Zenon
<1> DEFINE h == hook[m]
           g == hook'[m]
<1>1. \/ /\ PreForward /\ todo[1].ev = "pre_fwd"
         /\ g.stack = Append(h.stack, h.calls + 1) /\ g.calls = h.calls + 1
         /\ g.lastPre = h.lastPre /\ g.refs = h.refs /\ g.gradsLeft <= 1
      \/ /\ PostForward /\ todo[1].ev = "post_fwd"
         /\ g.stack = h.stack /\ g.calls = h.calls /\ g.lastPre = h.lastPre
         /\ g.refs > 0 /\ g.gradsLeft = h.gradsLeft
      \/ /\ PreBackward /\ todo[1].ev = "pre_bwd" /\ AlreadyFetched(h)
         /\ g.stack = h.stack /\ g.calls = h.calls /\ g.lastPre = h.lastPre /\ g.gradsLeft = h.gradsLeft
      \/ /\ PreBackward /\ todo[1].ev = "pre_bwd" /\ ~ AlreadyFetched(h)
         /\ g.stack = h.stack /\ g.calls = h.calls /\ g.gradsLeft = h.gradsLeft
      \/ /\ PostBackward /\ todo[1].ev = "post_bwd"
         /\ g.gradsLeft = 0 \/ g.gradsLeft = h.gradsLeft - 1
  BY HookFields, Zenon
<1>2. AtScript /\ AtScript' /\ FetchUnderWay /\ FetchUnderWay'
  BY DEF CtlInv
<1>3. h \in HookType /\ g \in HookType /\ h.lastPre <= h.calls /\ h.gradsLeft <= 1
  <2>1. hook' \in [Mods -> HookType]
    BY HooksStep DEF Counters
  <2> QED BY <1>0, <2>1 DEF Counters, CallCounts, CallCount
<1>4. h.stack \in Seq(Nat) /\ h.calls \in Nat /\ h.lastPre \in Nat /\ h.gradsLeft \in Int /\ h.refs \in Nat
      /\ g.gradsLeft \in Int
  <2> HIDE DEF h, g
  <2> QED BY <1>3 DEF HookType
<1>5. PassCount(m)
  <2>1. \A kind \in {"pre_fwd", "use", "post_fwd", "pre_bwd", "post_bwd"} :
          Head(todo).ev = kind => iter > 0 /\ Len(todo) > 4
    BY <1>0, <1>2, NowLoop
  <2>2. Head(todo) = todo[1]
    BY <1>0
  <2>3. iter > 0 /\ Len(todo) > 4
    BY <1>1, <2>1, <2>2
  <2> QED BY <1>0, <2>3 DEF PassCounts
<1>6. iter > 0 /\ Len(todo) > 4 /\ Len(todo) \in Nat
  <2>1. \A kind \in {"pre_fwd", "use", "post_fwd", "pre_bwd", "post_bwd"} :
          Head(todo).ev = kind => iter > 0 /\ Len(todo) > 4
    BY <1>0, <1>2, NowLoop
  <2>2. Head(todo) = todo[1] /\ Len(todo) \in Nat
    BY <1>0, <1>2 DEF AtScript
  <2> QED BY <1>1, <2>1, <2>2
<1>7. ASSUME NEW kind PROVE Began(kind, m) <=> Ran(kind, m)
  BY <1>0, <1>2, BeganFacts
<1>8. /\ todo[1].ev = "post_bwd" => Ran("pre_bwd", m)
      /\ todo[1].ev = "pre_bwd" => Ran("pre_fwd", m) /\ Ran("post_fwd", m)
      /\ todo[1].ev \in {"pre_fwd", "post_fwd"} => ~ Ran("pre_bwd", m)
  BY <1>0, <1>2, <1>6, PassSoFar
<1>9. ASSUME todo' = Tail(todo), fetching' = NoMod
      PROVE  \A kind : /\ Ran(kind, m)' <=> Ran(kind, m) \/ todo[1].ev = kind
                       /\ Began(kind, m)' <=> Ran(kind, m) \/ todo[1].ev = kind
  <2> SUFFICES ASSUME NEW kind
               PROVE  /\ Ran(kind, m)' <=> Ran(kind, m) \/ todo[1].ev = kind
                      /\ Began(kind, m)' <=> Ran(kind, m) \/ todo[1].ev = kind
    OBVIOUS
  <2>1. todo' # todo
    <3>1. Len(todo') = Len(todo) - 1
      BY <1>2, <1>6, <1>9 DEF AtScript
    <3> QED BY <1>6, <3>1
  <2>2. todo[1] = Event(kind, m) <=> todo[1].ev = kind
    BY <1>0 DEF Event
  <2>3. Ran(kind, m)' <=> Ran(kind, m) \/ todo[1].ev = kind
    BY <1>0, <1>2, <1>9, <2>1, <2>2, RanStep
  <2>4. Began(kind, m)' <=> Ran(kind, m)'
    <3>1. Begun' = Done'
      BY <1>9 DEF Begun
    <3> QED BY <3>1 DEF Began, Ran
  <2> QED BY <2>3, <2>4
<1>10. ASSUME todo' = todo, fetching' = m
       PROVE  \A kind : /\ Ran(kind, m)' <=> Ran(kind, m)
                        /\ Began(kind, m)' <=> Ran(kind, m) \/ todo[1].ev = kind
  <2> SUFFICES ASSUME NEW kind
               PROVE  /\ Ran(kind, m)' <=> Ran(kind, m)
                      /\ Began(kind, m)' <=> Ran(kind, m) \/ todo[1].ev = kind
    OBVIOUS
  <2>1. todo[1] = Event(kind, m) <=> todo[1].ev = kind
    BY <1>0 DEF Event
  <2>2. Ran(kind, m)' <=> Ran(kind, m)
    BY <1>2, <1>10, RanStep
  <2>3. m # NoMod
    BY <1>0, Network DEF NetworkFacts
  <2>4. Began(kind, m)' <=> Ran(kind, m) \/ todo[1] = Event(kind, m)
    BY <1>0, <1>2, <1>10, <2>3, BeganFetching
  <2> QED BY <2>1, <2>2, <2>4
<1> HIDE DEF h, g
<1>11. UNCHANGED coordVars => UNCHANGED <<active, fetching>>
  BY DEF coordVars
<1>12. CASE PreForward
  <2>1. todo[1].ev = "pre_fwd"
    BY <1>12, <1>0 DEF PreForward, Now
  <2>2. g.stack = Append(h.stack, h.calls + 1) /\ g.lastPre = h.lastPre /\ g.refs = h.refs
    BY <1>1, <2>1
  <2>3. todo' = todo /\ fetching' = m
    BY <1>12 DEF PreForward, BeginFetch, Raise, Running
  <2>4. g.stack # <<>> /\ Last(g.stack) > g.lastPre
    <3>1. Len(Append(h.stack, h.calls + 1)) = Len(h.stack) + 1 /\ Len(h.stack) \in Nat
          /\ Append(h.stack, h.calls + 1)[Len(h.stack) + 1] = h.calls + 1
      <4>1. \A s \in Seq(Nat) : \A c \in Nat :
              Len(Append(s, c)) = Len(s) + 1 /\ Len(s) \in Nat /\ Append(s, c)[Len(s) + 1] = c
        OBVIOUS
      <4>2. h.calls + 1 \in Nat
        BY ONLY <1>4
      <4> QED BY ONLY <1>4, <4>1, <4>2
    <3>2. Last(g.stack) = h.calls + 1 /\ g.stack # <<>>
      <4>1. g.stack[Len(g.stack)] = h.calls + 1 /\ Len(g.stack) > 0
        BY ONLY <2>2, <3>1
      <4>2. Len(<<>>) = 0
        OBVIOUS
      <4> QED BY <4>1, <4>2 DEF Last
    <3> QED BY ONLY <1>3, <1>4, <2>2, <3>2
  <2>5. ~ Ran("pre_bwd", m)' /\ (Ran("post_fwd", m)' => Ran("post_fwd", m)) /\ (Began("pre_bwd", m)' <=> Began("pre_bwd", m))
    BY <1>7, <1>8, <1>10, <2>1, <2>3
  <2> QED BY <1>5, <2>2, <2>4, <2>5 DEF PassCount, h, g
<1>13. CASE PostForward
  <2>1. todo[1].ev = "post_fwd"
    BY <1>13, <1>0 DEF PostForward, Now
  <2>2. g.stack = h.stack /\ g.lastPre = h.lastPre /\ g.refs > 0
    BY <1>1, <2>1
  <2>3. todo' = Tail(todo) /\ fetching' = NoMod
    BY <1>0, <1>13 DEF PostForward, ReleaseSubModule
  <2>4. /\ ~ Ran("pre_bwd", m)'
        /\ Began("pre_fwd", m)' <=> Began("pre_fwd", m)
        /\ Began("pre_bwd", m)' <=> Began("pre_bwd", m)
    BY <1>7, <1>8, <1>9, <2>1, <2>3
  <2> QED BY <1>5, <2>2, <2>4 DEF PassCount, h, g
<1>14. CASE PreBackward /\ AlreadyFetched(h)
  <2>1. todo[1].ev = "pre_bwd"
    BY <1>14, <1>0 DEF PreBackward, Now
  <2>2. g.gradsLeft = h.gradsLeft
    BY <1>1, <1>14, <2>1
  <2>3. todo' = Tail(todo) /\ fetching' = NoMod /\ UNCHANGED active
    BY <1>0, <1>11, <1>14 DEF PreBackward, h
  <2>4. Ran("pre_bwd", m)
    <3> SUFFICES ASSUME ~ Ran("pre_bwd", m) PROVE FALSE
      OBVIOUS
    <3>1. h.stack # <<>> /\ Last(h.stack) > h.lastPre /\ h.refs > 0
      BY <1>5, <1>7, <1>8, <2>1 DEF PassCount, h
    <3>2. Last(h.stack) = h.lastPre
      BY <1>14, <3>1 DEF AlreadyFetched
    <3> QED BY ONLY <1>4, <3>1, <3>2
  <2>5. Began("pre_bwd", m)'
    BY <1>9, <2>1, <2>3
  <2> QED BY <1>5, <2>2, <2>3, <2>4, <2>5 DEF PassCount, h, g
<1>15. CASE PreBackward /\ ~ AlreadyFetched(h)
  <2>1. todo[1].ev = "pre_bwd"
    BY <1>15, <1>0 DEF PreBackward, Now
  <2>2. g.gradsLeft = h.gradsLeft
    BY <1>1, <1>15, <2>1
  <2>3. todo' = todo /\ fetching' = m /\ UNCHANGED active
    BY <1>15 DEF PreBackward, BeginFetch, Raise, Running, h
  <2>4. Began("pre_bwd", m)' /\ (Ran("pre_bwd", m)' => Ran("pre_bwd", m))
    BY <1>10, <2>1, <2>3
  <2> QED BY <1>5, <2>2, <2>3, <2>4 DEF PassCount, h, g
<1>16. CASE PostBackward
  <2>1. todo[1].ev = "post_bwd"
    BY <1>16, <1>0 DEF PostBackward, Now
  <2>2. g.gradsLeft # 1
    <3>1. g.gradsLeft = 0 \/ g.gradsLeft = h.gradsLeft - 1
      BY <1>1, <2>1
    <3> QED BY ONLY <1>3, <1>4, <3>1
  <2>3. todo' = Tail(todo) /\ fetching' = NoMod
    BY <1>0, <1>11, <1>16 DEF PostBackward, ReleaseSubModule
  <2>4. Began("pre_bwd", m)'
    BY <1>8, <1>9, <2>1, <2>3
  <2> QED BY <2>2, <2>4 DEF PassCount, g
<1> QED BY <1>1, <1>12, <1>13, <1>14, <1>15, <1>16

\* An iteration begins at the start of its script.
LEMMA IterationDone ==
  ASSUME CtlInv, Running, StartIteration
  PROVE  Done' = 0 /\ fetching' = NoMod /\ todo' = Script(iter)' /\ iter' \in 1 .. Len(schedule) /\ schedule' = schedule
<1>1. CtlInv' /\ iter \in 0 .. Len(schedule) /\ schedule \in Schedules
  BY IterationStep DEF CtlInv, AtScript
<1>2. iter' \in 1 .. Len(schedule) /\ schedule' = schedule
  BY <1>1, ScheduleAssumption DEF StartIteration
<1>3. todo' = Script(iter)'
  <2>1. todo' = schedule[iter'] \o Backward(schedule[iter']) \o EndOfStep
    BY DEF StartIteration
  <2>2. iter' # 0
    BY <1>1, <1>2, ScheduleAssumption
  <2> QED BY <1>2, <2>1, <2>2 DEF Script
<1>4. Len(todo)' \in Nat
  BY <1>1 DEF CtlInv, AtScript
<1>5. Len(Script(iter))' = Len(todo)'
  BY <1>3
<1>6. fetching' = NoMod
  BY DEF StartIteration, CtlInv, FetchUnderWay, coordVars
<1> QED BY <1>2, <1>3, <1>4, <1>5, <1>6 DEF Done

\* Every step keeps the counts of the submodules in the two passes.
LEMMA PassCountsStep ==
  ASSUME CtlInv, Counters, CallCounts, PassCounts, [Next]_vars
  PROVE  PassCounts'
<1> SUFFICES ASSUME Running', iter' > 0, Len(todo') > 4, NEW m \in Mods PROVE PassCount(m)'
  BY DEF PassCounts
<1>0. CtlInv' /\ AtScript /\ AtScript' /\ FetchUnderWay
  BY CtlStep DEF CtlInv
<1>1. ASSUME UNCHANGED <<todo, hook, active, fetching, loopVars>>, Running PROVE PassCount(m)'
  <2>1. ASSUME NEW kind PROVE (Ran(kind, m)' <=> Ran(kind, m)) /\ (Began(kind, m)' <=> Began(kind, m))
    <3>1. UNCHANGED Done /\ UNCHANGED Begun /\ UNCHANGED Script(iter)
      BY <1>0, <1>1, ScriptStep DEF Begun
    <3> QED BY <3>1 DEF Ran, Began
  <2>2. PassCount(m)
    BY <1>1 DEF PassCounts, loopVars
  <2> QED BY <1>1, <2>1, <2>2, PassKept
<1>2. CASE Device \/ UNCHANGED vars
  <2>1. UNCHANGED <<todo, hook, active, fetching, loopVars>> /\ Running
    BY <1>2 DEF Device, coordVars, hookVars, loopVars, vars, Running
  <2> QED BY <1>1, <2>1
<1>3. CASE Host /\ StartIteration
  <2>1. Done' = 0 /\ fetching' = NoMod
    BY <1>0, <1>3, IterationDone DEF Host
  <2>2. ASSUME NEW kind PROVE ~ Ran(kind, m)' /\ ~ Began(kind, m)'
    BY <2>1 DEF Ran, Began, Begun
  <2> QED BY <2>2 DEF PassCount
<1>4. CASE Host /\ Start /\ UNCHANGED loopVars
  <2>1. \A kind \in {"convert", "gather", "add_hook"} : todo # <<>> /\ Head(todo).ev = kind => iter = 0
    BY <1>0, NowLoop
  <2> QED BY <1>4, <2>1 DEF Start, ConvertParam, GatherForHook, AddHook, Now, loopVars
<1>5. CASE Host /\ Loop /\ UNCHANGED loopVars
  <2>1. \A kind \in {"reset_step", "epilogue", "release_all", "update"} : todo # <<>> /\ Head(todo).ev = kind => Len(todo) <= 4
    <3> SUFFICES ASSUME NEW kind \in {"reset_step", "epilogue", "release_all", "update"}, todo # <<>>, Head(todo).ev = kind
                 PROVE  Len(todo) <= 4
      OBVIOUS
    <3>1. /\ kind = "reset_step" => Len(todo) = 4
          /\ kind = "epilogue" => Len(todo) = 3
          /\ kind = "release_all" => Len(todo) = 2
          /\ kind = "update" => Len(todo) = 1
      BY <1>0, NowLoop, Zenon
    <3>2. Len(todo) = 1 \/ Len(todo) = 2 \/ Len(todo) = 3 \/ Len(todo) = 4
      BY <3>1, Zenon
    <3>3. PICK l \in {1, 2, 3, 4} : l = Len(todo)
      BY <3>2
    <3> QED BY <3>3
  <2>2. todo # <<>> /\ todo' = Tail(todo) /\ Len(todo) <= 4
    BY <1>5, <2>1 DEF Loop, StepReset, Epilogue, ReleaseAll, UpdateShards, Now
  <2>3. Len(todo') = Len(todo) - 1 /\ Len(todo) \in Nat
    BY <1>0, <2>2 DEF AtScript
  <2> QED BY <2>2, <2>3
<1>6. CASE Host /\ HookRuns /\ UNCHANGED loopVars
  <2>1. /\ Mod \in Mods /\ todo # <<>> /\ fetching = NoMod /\ todo[1] = Event(todo[1].ev, Mod)
        /\ \A n \in Mods \ {Mod} : hook'[n] = hook[n]
        /\ PreForward \/ PostForward \/ PreBackward \/ PostBackward
    BY <1>6, HookFields, Zenon DEF HookRuns
  <2>2. Running
    BY <1>6 DEF Host
  <2>3. CASE m = Mod
    BY <1>0, <1>6, <2>2, <2>3, PassHook
  <2>4. CASE m # Mod
    <3>1. /\ hook'[m] = hook[m] /\ \A kind : todo[1] # Event(kind, m)
      BY <2>1, <2>4 DEF Event
    <3>2. PassCount(m) /\ Len(todo) \in Nat /\ Len(todo) > 4
      <4>1. \A kind \in {"pre_fwd", "use", "post_fwd", "pre_bwd", "post_bwd"} :
              Head(todo).ev = kind => iter > 0 /\ Mod \in Mods /\ Len(todo) > 4
        BY <1>0, <2>1, NowLoop
      <4>2. iter > 0 /\ Len(todo) > 4
        BY <2>1, <4>1 DEF PreForward, PostForward, PreBackward, PostBackward, Now
      <4> QED BY <1>0, <2>2, <4>2 DEF PassCounts, AtScript
    <3>3. CASE todo' = Tail(todo) /\ fetching' = NoMod /\ \A p \in ParamsOf[m] : m \in active[p] => m \in active'[p]
      <4>1. todo' # todo
        <5>1. Len(todo') = Len(todo) - 1
          BY <1>0, <2>1, <3>3 DEF AtScript
        <5> QED BY <3>2, <5>1
      <4> QED BY <1>0, <1>6, <2>1, <3>1, <3>2, <3>3, <4>1, PassElsewhere
    <3>4. CASE todo' = todo /\ fetching' # NoMod /\ UNCHANGED active
      <4>1. ASSUME NEW kind PROVE (Ran(kind, m)' <=> Ran(kind, m)) /\ (Began(kind, m) <=> Ran(kind, m))
        BY <1>0, <1>6, <2>1, <3>4, RanStep, BeganFacts
      <4>2. ASSUME NEW kind PROVE Began(kind, m)' <=> Ran(kind, m)
        BY <1>0, <1>6, <2>1, <3>1, <3>4, BeganFetching
      <4> QED BY <3>1, <3>2, <3>4, <4>1, <4>2, PassKept
    <3>5. Mod # NoMod
      BY <2>1, Network DEF NetworkFacts
    <3>6. CASE PreForward
      <4>1. todo' = todo /\ fetching' = Mod /\ UNCHANGED active
        BY <3>6 DEF PreForward, BeginFetch, Raise, Running
      <4> QED BY <3>4, <3>5, <4>1
    <3>7. CASE PreBackward
      <4>1. \/ todo' = todo /\ fetching' = Mod /\ UNCHANGED active
            \/ todo' = Tail(todo) /\ fetching' = NoMod /\ UNCHANGED active
        BY <2>1, <3>7 DEF PreBackward, BeginFetch, Raise, Running, coordVars
      <4> QED BY <3>3, <3>4, <3>5, <4>1
    <3>8. CASE PostForward \/ PostBackward
      <4>1. todo' = Tail(todo) /\ fetching' = NoMod
        BY <2>1, <3>8 DEF PostForward, PostBackward, ReleaseSubModule, coordVars
      <4>2. \/ UNCHANGED active
            \/ active' = [p \in Params |-> IF p \in ParamsOf[Mod] THEN active[p] \ {Mod} ELSE active[p]]
        BY <3>8 DEF PostForward, PostBackward, ReleaseSubModule, coordVars
      <4>3. \A p \in ParamsOf[m] : p \in Params
        BY Network DEF NetworkFacts
      <4>4. \A p \in ParamsOf[m] : m \in active[p] => m \in active'[p]
        BY <2>4, <4>2, <4>3
      <4> QED BY <3>3, <4>1, <4>4
    <3> QED BY <2>1, <3>6, <3>7, <3>8
  <2> QED BY <2>3, <2>4
<1>7. CASE Host /\ UseParams /\ UNCHANGED loopVars
  <2>1. todo # <<>> /\ fetching = NoMod /\ Head(todo).ev = "use" /\ todo' = Tail(todo) /\ UNCHANGED <<hook, active, fetching>>
    BY <1>7 DEF UseParams, Now, Raise, coordVars
  <2>2. todo[1].ev = "use" /\ iter > 0 /\ Len(todo) > 4 /\ Len(todo) \in Nat
    BY <1>0, <2>1, NowLoop DEF AtScript
  <2>3. PassCount(m) /\ todo' # todo
    <3>1. Len(todo') = Len(todo) - 1
      BY <1>0, <2>1 DEF AtScript
    <3> QED BY <1>7, <2>2, <3>1 DEF PassCounts, Host
  <2>4. \A kind \in {"pre_fwd", "pre_bwd", "post_fwd"} : todo[1] # Event(kind, m)
    BY <2>2 DEF Event
  <2> QED BY <1>0, <1>7, <2>1, <2>3, <2>4, PassElsewhere
<1>8. CASE Host /\ FetchParam /\ UNCHANGED loopVars
  <2>1. PICK p \in Params : WaitParam(p) /\ UNCHANGED hookVars
    BY <1>8 DEF FetchParam
  <2>2. WaitRound(p)
    BY <2>1 DEF WaitParam, Raise, Running
  <2>3. UNCHANGED <<todo, hook, fetching, loopVars>> /\ p \in waiting /\ Running
        /\ active' = [active EXCEPT ![p] = @ \cup {fetching}]
    BY <1>8, <2>1, <2>2 DEF WaitRound, WaitParam, hookVars, Host
  <2>4. ASSUME NEW kind PROVE (Ran(kind, m)' <=> Ran(kind, m)) /\ (Began(kind, m)' <=> Began(kind, m))
    <3>1. UNCHANGED Done /\ UNCHANGED Begun /\ UNCHANGED Script(iter)
      BY <1>0, <2>3, ScriptStep DEF Begun
    <3> QED BY <3>1 DEF Ran, Began
  <2>5. PassCount(m)
    BY <2>3 DEF PassCounts, loopVars
  <2>6. \A q \in Params : active[q] \subseteq active'[q]
    <3>1. active \in [Params -> SUBSET Mods]
      BY LifeType DEF CtlInv, StatusType
    <3> QED BY <2>3, <3>1
  <2>7. \A q \in ParamsOf[m] : q \in Params
    BY Network DEF NetworkFacts
  <2> QED BY <2>3, <2>4, <2>5, <2>6, <2>7, PassKept
<1>9. CASE Host /\ FetchDone /\ UNCHANGED loopVars
  <2>1. /\ fetching # NoMod /\ waiting = {} /\ todo' = Tail(todo) /\ UNCHANGED <<hook, active>> /\ fetching' = NoMod /\ Running
    BY <1>9 DEF FetchDone, EndFetch, Raise, Running, Host
  <2>2. /\ todo # <<>> /\ todo[1].m = fetching /\ todo[1].ev \in {"pre_fwd", "pre_bwd"}
        /\ \A p \in ParamsOf[fetching] : fetching \in active[p]
    BY <1>0, <2>1 DEF FetchUnderWay
  <2>3. iter > 0 /\ Len(todo) > 4 /\ Len(todo) \in Nat
    BY <1>0, <2>1, NowFetch DEF AtScript
  <2>4. todo' # todo
    <3>1. Len(todo') = Len(todo) - 1
      BY <1>0, <2>1, <2>2 DEF AtScript
    <3> QED BY <2>3, <3>1
  <2>5. ASSUME NEW kind PROVE Ran(kind, m)' <=> Ran(kind, m) \/ todo[1] = Event(kind, m)
    BY <1>0, <1>9, <2>1, <2>2, <2>4, RanStep
  <2>6. ASSUME NEW kind PROVE Began(kind, m) <=> Ran(kind, m) \/ todo[1] = Event(kind, m)
    BY <1>0, <2>1, <2>2, BeganFacts
  <2>7. ASSUME NEW kind PROVE Began(kind, m)' <=> Ran(kind, m)'
    <3>1. Begun' = Done'
      BY <2>1 DEF Begun
    <3> QED BY <3>1 DEF Began, Ran
  <2>8. todo[1] # Event("post_fwd", m)
    BY <2>2 DEF Event
  <2>9. todo[1] = Event("pre_bwd", m) => \A p \in ParamsOf[m] : m \in active[p]
    BY <2>2 DEF Event
  <2>10. PassCount(m)
    BY <2>1, <2>3 DEF PassCounts
  <2>11. /\ Began("pre_fwd", m)' <=> Began("pre_fwd", m)
         /\ Began("pre_bwd", m)' <=> Began("pre_bwd", m)
         /\ Ran("post_fwd", m)' <=> Ran("post_fwd", m)
         /\ Ran("pre_bwd", m)' => Ran("pre_bwd", m) \/ \A p \in ParamsOf[m] : m \in active[p]
    BY <2>5, <2>6, <2>7, <2>8, <2>9
  <2> QED BY <2>1, <2>10, <2>11 DEF PassCount
<1> QED BY <1>2, <1>3, <1>4, <1>5, <1>6, <1>7, <1>8, <1>9 DEF Next, Host, Hooks, HookRuns

-----------------------------------------------------------------------------
(* What the registry holds *)

\* What keeps the registry free of the parameters in use and of the released.
LEMMA RegisteredKept ==
  ASSUME Registered,
         \A p \in Params : active'[p] # {} \/ status'[p] = "NOT_AVAILABLE" =>
           \/ registry'[p] = NoHandle
           \/ registry'[p] = registry[p] /\ (active[p] # {} \/ status[p] = "NOT_AVAILABLE")
  PROVE  Registered'
BY DEF Registered, InRegistry

\* A gather is for parameters that no submodule is using.
LEMMA RegisteredAsk ==
  ASSUME CtlInv, Registered, NEW S \in SUBSET Params, AllGatherParams(S), UNCHANGED active
  PROVE  Registered'
<1>1. /\ InFlightTogether /\ StatusType
      /\ \A p \in Params : active[p] # {} => status[p] = "AVAILABLE"
  BY LifeType DEF CtlInv
<1>2. \A p \in Params : status[p] # "NOT_AVAILABLE" => status'[p] = status[p] /\ registry'[p] = registry[p]
  BY <1>1, GatherMapped
<1>3. ASSUME NEW p \in Params, status[p] = "NOT_AVAILABLE"
      PROVE  status'[p] = "INFLIGHT" \/ (status'[p] = status[p] /\ registry'[p] = registry[p])
  BY <1>3 DEF AllGatherParams
<1>4. ASSUME NEW p \in Params, active'[p] # {} \/ status'[p] = "NOT_AVAILABLE"
      PROVE  \/ registry'[p] = NoHandle
             \/ registry'[p] = registry[p] /\ (active[p] # {} \/ status[p] = "NOT_AVAILABLE")
  BY <1>1, <1>2, <1>3, <1>4
<1> QED BY <1>4, RegisteredKept

\* A parameter is released by a submodule that has been using it.
LEMMA RegisteredRelease ==
  ASSUME CtlInv, Registered, NEW m \in Mods, NEW ops, ReleaseSubModule(m, ops), \A p \in ParamsOf[m] : m \in active[p]
  PROVE  Registered'
<1>1. active \in [Params -> SUBSET Mods] /\ ParamsOf[m] \subseteq Params
  BY LifeType, Network DEF CtlInv, StatusType, NetworkFacts
<1>2. /\ active' = [p \in Params |-> IF p \in ParamsOf[m] THEN active[p] \ {m} ELSE active[p]]
      /\ status' = [p \in Params |-> IF p \in Releasable(ParamsToRelease(m), active') THEN "NOT_AVAILABLE" ELSE status[p]]
      /\ registry' = registry
  BY DEF ReleaseSubModule, Partition, PartitionParams
<1>3. Releasable(ParamsToRelease(m), active') \subseteq ParamsOf[m]
  BY DEF Releasable, ParamsToRelease
<1>4. ASSUME NEW p \in Params, active'[p] # {} \/ status'[p] = "NOT_AVAILABLE"
      PROVE  active[p] # {} \/ status[p] = "NOT_AVAILABLE"
  BY <1>1, <1>2, <1>3, <1>4
<1> QED BY <1>2, <1>4, RegisteredKept

\* Every step keeps the registry free of them.
LEMMA RegisteredStep ==
  ASSUME CtlInv, Calls, Registered, Counters, CallCounts, PassCounts, [Next]_vars
  PROVE  Registered'
<1>0. AtScript /\ InFlightTogether /\ FetchUnderWay /\ LP!Inv
  BY DEF CtlInv
<1>1. ASSUME UNCHANGED <<registry, status, active>> PROVE Registered'
  BY <1>1, RegisteredKept
<1>2. CASE Device \/ UNCHANGED vars
  BY <1>1, <1>2 DEF Device, coordVars, vars
<1>3. CASE Host /\ StartIteration
  BY <1>1, <1>3 DEF StartIteration, coordVars
<1>4. CASE Host /\ Start
  <2>1. \A kind \in {"convert", "gather", "add_hook"} : todo # <<>> /\ Head(todo).ev = kind => iter = 0
    BY <1>0, NowLoop
  <2>2. iter = 0 /\ Running /\ UNCHANGED registry
    BY <1>4, <2>1 DEF Start, ConvertParam, GatherForHook, AddHook, Now, Host
  <2>3. \A p \in Params : registry[p] = NoHandle
    BY <2>2 DEF CtlInv, BeforeLoop
  <2> QED BY <2>2, <2>3, RegisteredKept
<1>5. CASE Host /\ Loop
  <2>1. CASE StepReset \/ Epilogue \/ UpdateShards
    BY <1>1, <2>1 DEF StepReset, ResetStep, Raise, Epilogue, UpdateShards, coordVars
  <2>2. CASE ReleaseAll
    <3>1. CASE \E p \in Params : InRegistry(p)
      BY <1>1, <2>2, <3>1 DEF ReleaseAll, ReleaseAndResetAll, Raise
    <3>2. CASE ~ \E p \in Params : InRegistry(p)
      <4>1. UNCHANGED registry
        BY <2>2, <3>2 DEF ReleaseAll, ReleaseAndResetAll
      <4> QED BY <3>2, <4>1, RegisteredKept DEF InRegistry
    <3> QED BY <3>1, <3>2
  <2> QED BY <1>5, <2>1, <2>2 DEF Loop
<1>6. ASSUME NEW m \in Mods, BeginFetch(m) PROVE Registered'
  <2>1. CASE UNCHANGED <<registry, status, active>>
    BY <1>1, <2>1
  <2>2. CASE AllGatherParams(ParamsOf[m]) /\ UNCHANGED active
    <3>1. ParamsOf[m] \in SUBSET Params
      BY Network DEF NetworkFacts
    <3> QED BY <2>2, <3>1, RegisteredAsk
  <2> QED BY <1>6, <2>1, <2>2 DEF BeginFetch, Raise
<1>7. ASSUME Host, HookRuns
      PROVE  Mod \in Mods /\ fetching = NoMod /\ iter > 0 /\ Len(todo) > 4 /\ Running /\ todo # <<>> /\ todo[1] = Event(todo[1].ev, Mod)
  <2>1. Mod \in Mods /\ todo # <<>> /\ fetching = NoMod /\ todo[1] = Event(todo[1].ev, Mod)
    BY <1>7, HookFields, Zenon
  <2>2. \A kind \in {"pre_fwd", "use", "post_fwd", "pre_bwd", "post_bwd"} :
          Head(todo).ev = kind => iter > 0 /\ Len(todo) > 4
    BY <1>0, <2>1, NowLoop
  <2>3. iter > 0 /\ Len(todo) > 4
    BY <1>7, <2>2 DEF HookRuns, PreForward, PostForward, PreBackward, PostBackward, Now
  <2> QED BY <1>7, <2>1, <2>3 DEF Host
<1>8. CASE Host /\ (PreForward \/ PreBackward)
  <2>1. Mod \in Mods
    BY <1>7, <1>8 DEF HookRuns
  <2>2. BeginFetch(Mod) \/ UNCHANGED coordVars
    BY <1>8 DEF PreForward, PreBackward
  <2> QED BY <1>1, <1>6, <2>1, <2>2 DEF coordVars
<1>9. CASE Host /\ PostForward
  <2>1. Mod \in Mods /\ \A p \in ParamsOf[Mod] : Mod \in active[p]
    BY <1>9, ReturnHasParams DEF PostForward
  <2> QED BY <1>9, <2>1, RegisteredRelease DEF PostForward
<1>10. CASE Host /\ PostBackward
  <2>1. CASE hook[Mod].gradsLeft = 1
    <3>1. PICK m \in Mods : m = Mod
      BY <1>7, <1>10 DEF HookRuns
    <3>2. todo[1] = Event("post_bwd", m)
      <4>1. todo[1].ev = "post_bwd" /\ todo[1] = Event(todo[1].ev, Mod)
        BY <1>7, <1>10 DEF PostBackward, Now, HookRuns
      <4> QED BY <3>1, <4>1
    <3>3. Ran("pre_bwd", m)
      BY <1>0, <1>7, <1>10, <3>2, PassSoFar DEF HookRuns
    <3>4. PassCount(m)
      BY <1>7, <1>10 DEF PassCounts, HookRuns
    <3>5. \A p \in ParamsOf[m] : m \in active[p]
      BY <2>1, <3>1, <3>3, <3>4 DEF PassCount
    <3>6. ReleaseSubModule(m, <<>>)
      BY <1>10, <2>1, <3>1 DEF PostBackward
    <3> QED BY <3>5, <3>6, RegisteredRelease
  <2>2. CASE hook[Mod].gradsLeft # 1
    BY <1>1, <1>10, <2>2 DEF PostBackward, coordVars
  <2> QED BY <2>1, <2>2
<1>11. CASE Host /\ UseParams
  BY <1>1, <1>11 DEF UseParams, Raise, coordVars
<1>12. CASE Host /\ FetchParam
  <2>1. PICK p \in Params : WaitParam(p)
    BY <1>12 DEF FetchParam
  <2>2. CASE CopyMissing(p)
    BY <1>1, <2>1, <2>2 DEF WaitParam, Raise
  <2>3. CASE ~ CopyMissing(p)
    <3>1. WaitRound(p) /\ p \in waiting
      BY <2>1, <2>3 DEF WaitParam
    <3>2. /\ status' = [q \in Params |-> IF status[p] = "INFLIGHT" /\ q \in registry[p].ps THEN "AVAILABLE" ELSE status[q]]
          /\ registry' = [registry EXCEPT ![p] = NoHandle]
      BY <1>0, <3>1, WaitMapped
    <3>3. active' = [active EXCEPT ![p] = @ \cup {fetching}]
      BY <3>1 DEF WaitRound
    <3>4. registry = [q \in Params |-> registry[q]] /\ active \in [Params -> SUBSET Mods]
      BY <1>0, LifeType DEF InFlightTogether, StatusType
    <3>5. ASSUME NEW q \in Params, active'[q] # {} \/ status'[q] = "NOT_AVAILABLE"
          PROVE  \/ registry'[q] = NoHandle
                 \/ registry'[q] = registry[q] /\ (active[q] # {} \/ status[q] = "NOT_AVAILABLE")
      <4>1. CASE q = p
        BY <3>2, <3>4, <4>1
      <4>2. CASE q # p
        BY <3>2, <3>3, <3>4, <3>5, <4>2
      <4> QED BY <4>1, <4>2
    <3> QED BY <3>5, RegisteredKept
  <2> QED BY <2>2, <2>3
<1>13. CASE Host /\ FetchDone
  <2>1. \/ UNCHANGED <<registry, status, active>>
        \/ AllGatherParams(ParamsIn(tr.queue, Discarded(fetching) + 1, Scanned(fetching))) /\ UNCHANGED active
        \/ AllGatherParams({}) /\ UNCHANGED active
    BY <1>13 DEF FetchDone, EndFetch, Raise
  <2>2. ParamsIn(tr.queue, Discarded(fetching) + 1, Scanned(fetching)) \in SUBSET Params
    BY QueueCuts DEF CtlInv
  <2> QED BY <1>1, <2>1, <2>2, RegisteredAsk
<1> QED BY <1>2, <1>3, <1>4, <1>5, <1>8, <1>9, <1>10, <1>11, <1>12, <1>13 DEF Next, Host, Hooks

\* The invariant of the hooks and the registry.
RegistryInv == CallCounts /\ PassCounts /\ Registered

\* Before the first event nothing is counted and the registry is empty.
LEMMA RegistryStarts ==
  ASSUME Init
  PROVE  RegistryInv
<1>1. hook = [m \in Mods |-> NoHooks] /\ iter = 0 /\ registry = [p \in Params |-> NoHandle]
  BY DEF Init, CoordinatorInit
<1>2. CallCount(NoHooks)
  BY DEF CallCount, NoHooks, None
<1>3. CallCounts
  BY <1>1, <1>2 DEF CallCounts
<1>4. PassCounts
  BY <1>1 DEF PassCounts
<1>5. Registered
  BY <1>1 DEF Registered, InRegistry
<1> QED BY <1>3, <1>4, <1>5 DEF RegistryInv

\* A submodule is using its parameters from the first backward pass that fetches
\* them to the one that releases them, whatever the counters of its hooks, so
\* that no parameter is released that the registry has a handle for.
THEOREM RegistryInvariance == Spec => [](TypeInv /\ RegistryInv)
<1>1. Init => RegistryInv
  BY RegistryStarts
<1>2. TypeInv /\ RegistryInv /\ [Next]_vars => RegistryInv'
  BY CallCountsStep, PassCountsStep, RegisteredStep DEF TypeInv, RegistryInv
<1> QED BY <1>1, <1>2, TypeInvariance, PTL DEF Spec

\* A parameter is in flight exactly when the registry has a handle for it that
\* nobody has waited for, and an available one owns its block.
THEOREM RegistryHolds == Spec => []RegistrySound
<1>1. TypeInv /\ DataInv /\ RegistryInv => RegistrySound
  <2> SUFFICES ASSUME TypeInv, DataInv, RegistryInv, NEW p \in Params
               PROVE  /\ status[p] = "INFLIGHT" => InRegistry(p) /\ p \in registry[p].ps
                      /\ status[p] = "NOT_AVAILABLE" => ~ InRegistry(p) /\ data[p] = NoBlock
                      /\ status[p] = "AVAILABLE" => data[p] \in held /\ \A q \in Params \ {p} : data[q] # data[p]
    BY DEF RegistrySound
  <2>1. CtlInv /\ DataTypes
    BY DEF TypeInv
  <2>2. status[p] = "INFLIGHT" => InRegistry(p) /\ p \in registry[p].ps
    <3>1. status[p] = "INFLIGHT" => p \in registry[p].ps
      BY <2>1 DEF CtlInv, InFlightTogether
    <3> QED BY <3>1 DEF InRegistry, NoHandle
  <2>3. status[p] = "NOT_AVAILABLE" => ~ InRegistry(p) /\ data[p] = NoBlock
    <3>1. status[p] = "NOT_AVAILABLE" => ~ InRegistry(p)
      BY DEF RegistryInv, Registered
    <3>2. status[p] = "NOT_AVAILABLE" => data[p] = NoBlock
      BY <2>1 DEF DataTypes, ParamTypes
    <3> QED BY <3>1, <3>2
  <2>4. status[p] = "AVAILABLE" => data[p] \in held /\ \A q \in Params \ {p} : data[q] # data[p]
    <3> SUFFICES ASSUME status[p] = "AVAILABLE" PROVE data[p] \in held /\ \A q \in Params \ {p} : data[q] # data[p]
      OBVIOUS
    <3>1. p \in Available
      BY DEF Available
    <3>2. data[p] \in held /\ data[p] \in Block
      <4>1. BlockInv
        BY DEF DataInv
      <4> QED BY <2>1, <3>1, <4>1, InUse, BlockFacts
    <3>3. ASSUME NEW q \in Params \ {p} PROVE data[q] # data[p]
      <4>1. CASE q \in Available
        BY <3>1, <4>1 DEF DataInv, BlockInv, Ownership, OneParam
      <4>2. CASE q \notin Available
        <5>1. data[q] = NoBlock
          BY <2>1, <4>2 DEF DataTypes, ParamTypes, Available
        <5> QED BY <2>1, <3>2, <5>1, BlockFacts
      <4> QED BY <4>1, <4>2
    <3> QED BY <3>2, <3>3
  <2> QED BY <2>2, <2>3, <2>4
<1> QED BY <1>1, DataInvariance, RegistryInvariance, PTL

-----------------------------------------------------------------------------
(* What the allgather stream has still to do *)

\* The kernels of a computation, one for each of its parameters.
LEMMA KernelsFacts ==
  ASSUME DataTypes, NEW S \in SUBSET Available
  PROVE  LET ops == [i \in 1 .. Cardinality(S) |-> KernelOp(Nth(S, i), data[Nth(S, i)], weights)] IN
         /\ ops \in Seq(CuOps) /\ Len(ops) = Cardinality(S) /\ Cardinality(S) \in Nat /\ (S # {} => Len(ops) > 0)
         /\ \A i \in 1 .. Len(ops) : ops[i].op = "kernel"
<1> DEFINE f(i) == KernelOp(Nth(S, i), data[Nth(S, i)], weights)
           ops == [i \in 1 .. Cardinality(S) |-> f(i)]
<1>1. S \in SUBSET Params /\ IsFiniteSet(S) /\ S \subseteq Nat /\ Cardinality(S) \in Nat
  <2>1. S \in SUBSET Params
    BY DEF Available
  <2> QED BY <2>1, StreamsAssumption, FS_Subset, FS_CardinalityType
<1>2. \A i \in 1 .. Cardinality(S) : Nth(S, i) \in S
  BY <1>1, NthFacts
<1>3. \A p \in S : p \in Params /\ data[p] \in Block
  BY DEF DataTypes, ParamTypes, Available
<1>4. weights \in Nat
  BY DEF DataTypes, StreamTypes
<1>5. S # {} => Cardinality(S) > 0
  BY <1>1, FS_EmptySet
<1>6. ASSUME NEW i \in 1 .. Cardinality(S) PROVE f(i) \in CuOps /\ f(i).op = "kernel"
  <2>1. PICK q \in S : q = Nth(S, i)
    BY <1>2
  <2>2. f(i) = KernelOp(q, data[q], weights)
    BY <2>1
  <2>3. KernelOp(q, data[q], weights) \in CuOps
    BY <1>3, <1>4, CuOpFacts
  <2>4. KernelOp(q, data[q], weights).op = "kernel"
    BY DEF KernelOp, Op
  <2> QED BY <2>2, <2>3, <2>4
<1> HIDE DEF f
<1>7. ops \in Seq(CuOps) /\ Len(ops) = Cardinality(S) /\ \A i \in 1 .. Cardinality(S) : ops[i] = f(i)
  BY <1>1, <1>6
<1>8. ops = [i \in 1 .. Cardinality(S) |-> KernelOp(Nth(S, i), data[Nth(S, i)], weights)]
  BY DEF f
<1> HIDE DEF ops
<1> QED BY <1>1, <1>5, <1>6, <1>7, <1>8

\* What is ahead stays there until it is run.
LEMMA AheadStep ==
  ASSUME AtScript, UNCHANGED loopVars, todo' = todo \/ (todo # <<>> /\ todo' = Tail(todo)),
         NEW kind, NEW m, Ahead(kind, m), todo' = todo \/ todo[1] # Event(kind, m)
  PROVE  Ahead(kind, m)'
<1>1. /\ Script(iter)' = Script(iter) /\ Done \in Nat
      /\ todo' = todo => Done' = Done
      /\ todo' # todo => Done' = Done + 1
  BY ScriptStep DEF AtScript
<1>2. PICK y \in Done + 1 .. Len(Script(iter)) : Script(iter)[y] = Event(kind, m)
  BY DEF Ahead
<1>3. todo' # todo => todo[1] = Script(iter)[Done + 1]
  <2>1. todo' # todo => todo # <<>> /\ 1 \in 1 .. Len(todo)
    BY DEF AtScript
  <2> QED BY <2>1 DEF AtScript
<1>4. y \in Done' + 1 .. Len(Script(iter))
  <2>0. PICK d \in Nat : d = Done
    BY <1>1
  <2>1. PICK l : d = Done /\ l = Len(Script(iter))
    BY <2>0
  <2>2. todo' # todo => y # d + 1
    BY <1>2, <1>3, <2>1
  <2>3. y \in d + 1 .. l
    BY <2>1
  <2>4. Done' = d \/ (todo' # todo /\ Done' = d + 1)
    BY <1>1, <2>1
  <2>5. y \in Done' + 1 .. l
    BY ONLY <2>1, <2>2, <2>3, <2>4
  <2> QED BY <2>1, <2>5
<1>5. Script(iter)'[y] = Event(kind, m) /\ y \in Done' + 1 .. Len(Script(iter)')
  BY <1>1, <1>2, <1>4
<1> QED BY <1>5 DEF Ahead

\* A wait that is queued stays in the compute stream until it is over.
LEMMA WaitsKept ==
  ASSUME DataTypes, DataStep, UNCHANGED <<agQ, agPos>> \/ (HostKept /\ AllGatherStream),
         agQ' # <<>>, NEW k \in Cu, WaitsFor(k), \A m \in Mods : Ahead("use", m) => Ahead("use", m)'
  PROVE  \E l \in Cu' : WaitsFor(l)'
<1>1. agPos' + Len(agQ') = agPos + Len(agQ) /\ agPos + Len(agQ) \in Nat /\ Len(agQ) \in Nat /\ agPos \in Nat /\ agQ # <<>>
  <2>1. Len(agQ) \in Nat /\ agPos \in Nat
    BY DEF DataTypes, StreamTypes
  <2>2. CASE UNCHANGED <<agQ, agPos>>
    BY <2>1, <2>2
  <2>3. CASE HostKept /\ AllGatherStream
    <3>1. agQ # <<>> /\ agQ' = Tail(agQ) /\ agPos' = agPos + 1
      BY <2>3 DEF AllGatherStream
    <3>2. Len(agQ') = Len(agQ) - 1
      BY <3>1, AgPop
    <3> QED BY ONLY <2>1, <3>1, <3>2
  <2> QED BY <2>2, <2>3
<1>2. cuQ[k].op = "wait_stream" /\ cuQ[k].n >= agPos' + Len(agQ')
  BY <1>1 DEF WaitsFor
<1>3. ASSUME NEW l \in Cu', cuQ'[l] = cuQ[k], \A j \in Cu : k < j => \E i \in Cu' : l < i /\ cuQ'[i] = cuQ[j]
      PROVE  WaitsFor(l)'
  <2>1. cuQ'[l].op = "wait_stream" /\ cuQ'[l].n >= agPos' + Len(agQ')
    BY <1>2, <1>3
  <2>2. CASE \E j \in Cu : k < j /\ cuQ[j].op = "kernel"
    BY <1>3, <2>1, <2>2 DEF WaitsFor
  <2>3. CASE \E m \in Mods : ParamsOf[m] # {} /\ Ahead("use", m)
    BY <2>1, <2>3 DEF WaitsFor
  <2> QED BY <2>2, <2>3 DEF WaitsFor
<1>4. ASSUME NEW K \in Seq(CuOps), cuQ' = cuQ \o K PROVE \E l \in Cu' : WaitsFor(l)'
  <2>1. \A i \in Cu : i \in Cu' /\ cuQ'[i] = cuQ[i]
    BY <1>4, CuAppend
  <2> QED BY <1>3, <2>1
<1>5. CASE UNCHANGED cuQ
  <2>1. Cu' = Cu
    BY <1>5 DEF Cu
  <2> QED BY <1>3, <1>5, <2>1
<1>6. CASE ComputeStream
  <2>1. cuQ # <<>> /\ cuQ' = Tail(cuQ) /\ (Head(cuQ).op = "wait_stream" => Head(cuQ).n <= agPos)
    BY <1>6 DEF ComputeStream
  <2>2. /\ \A i \in Cu : i \in Nat /\ (i = 1 \/ (i - 1 \in Cu' /\ cuQ'[i - 1] = cuQ[i]))
        /\ Head(cuQ) = cuQ[1]
    BY <2>1, CuPop
  <2>3. k # 1
    <3> SUFFICES ASSUME k = 1 PROVE FALSE
      OBVIOUS
    <3>1. cuQ[k].n <= agPos /\ cuQ[k].n >= agPos + Len(agQ) /\ cuQ[k].n \in Nat
      <4>1. cuQ[k] \in CuOps
        BY DEF DataTypes, StreamTypes, Cu
      <4> QED BY <1>1, <1>2, <2>1, <2>2, <4>1, CuOpFacts
    <3>2. Len(agQ) > 0
      BY <1>1 DEF DataTypes, StreamTypes
    <3> QED BY ONLY <1>1, <3>1, <3>2
  <2>4. k \in Nat /\ k - 1 \in Cu' /\ cuQ'[k - 1] = cuQ[k]
    BY <2>2, <2>3
  <2>5. ASSUME NEW j \in Cu, k < j PROVE j - 1 \in Cu' /\ k - 1 < j - 1 /\ cuQ'[j - 1] = cuQ[j]
    <3>1. j \in Nat /\ j # 1
      <4>1. j \in Nat /\ k >= 1
        BY <2>2 DEF Cu
      <4> QED BY <2>4, <2>5, <4>1
    <3> QED BY <2>2, <2>4, <2>5, <3>1
  <2> QED BY <1>3, <2>4, <2>5
<1>7. UNCHANGED cuQ \/ ComputeStream \/ \E K \in Seq(CuOps) : cuQ' = cuQ \o K
  <2>1. Idle \/ Update \/ Begin => UNCHANGED cuQ
    BY DEF Idle, Update, Begin
  <2>2. \A R \in SUBSET Params : \A K \in Seq(CuOps) : Launch(R, K) => cuQ' = cuQ \o K
    BY DEF Launch
  <2>3. \A J \in {<<>>, JoinOps} : Joins(J) => \E K \in Seq(CuOps) : cuQ' = cuQ \o K
    <3>1. <<>> \in Seq(CuOps) /\ JoinOps \in Seq(CuOps)
      <4>1. WaitStreamOp(agPos + Len(agQ)) \in CuOps
        BY <1>1, CuOpFacts
      <4> QED BY <4>1 DEF JoinOps
    <3> QED BY <3>1 DEF Joins
  <2>4. \A p \in Params : Took(p) => UNCHANGED cuQ
    BY DEF Took
  <2>5. \A p \in Params : \A W \in Seq(AgOps) : Take(p, W) => UNCHANGED cuQ
    BY DEF Take
  <2>6. \A p \in Params : \A h \in Handle : Bring(p, h) => UNCHANGED cuQ
    BY DEF Bring
  <2>7. (\E h \in dpu : DpuGather(h)) \/ AllGatherStream => UNCHANGED cuQ
    BY DEF DpuGather, AllGatherStream
  <2> QED BY <2>1, <2>2, <2>3, <2>4, <2>5, <2>6, <2>7, Zenon DEF DataStep
<1> QED BY <1>4, <1>5, <1>6, <1>7

\* Steps that take nothing new to the allgather stream and run no computation.
LEMMA ComputingKept ==
  ASSUME DataTypes, DataStep, Computing, Running, UNCHANGED <<agQ, agPos>> \/ (HostKept /\ AllGatherStream),
         fetching = NoMod \/ fetching' = fetching,
         \A m \in Mods : Ahead("use", m) => Ahead("use", m)'
  PROVE  Computing'
<1> SUFFICES ASSUME agQ' # <<>>, ~ (fetching # NoMod /\ ParamsOf[fetching] # {})
             PROVE  \E l \in Cu' : WaitsFor(l)'
  BY DEF Computing
<1>1. agQ # <<>>
  BY DEF AllGatherStream
<1>2. PICK k \in Cu : WaitsFor(k)
  BY <1>1 DEF Computing
<1> QED BY <1>2, WaitsKept

\* The computation of a submodule is queued behind what the stream waits for.
LEMMA ComputingUse ==
  ASSUME CtlInv, DataTypes, DataStep, Computing, Running, Running', UNCHANGED loopVars, UseParams
  PROVE  Computing'
<1>1. /\ fetching = NoMod /\ Mod \in Mods /\ todo # <<>> /\ Head(todo) = todo[1] /\ Head(todo).ev = "use"
      /\ todo' = Tail(todo) /\ AtScript
  <2>1. Now("use") /\ todo # <<>> /\ Head(todo) = todo[1]
    <3>1. Now("use") /\ todo \in Seq(HostEvents)
      BY DEF UseParams, CtlInv, AtScript
    <3> QED BY <3>1 DEF Now
  <2> QED BY <2>1, NowLoop DEF UseParams, Now, CtlInv
<1>2. \A p \in ParamsOf[Mod] : status[p] = "AVAILABLE"
  BY DEF UseParams, Raise, Running
<1>3. /\ cuQ' = cuQ \o [i \in 1 .. Cardinality(ParamsOf[Mod]) |-> KernelOp(Nth(ParamsOf[Mod], i), data[Nth(ParamsOf[Mod], i)], weights)]
      /\ UNCHANGED <<agQ, agPos>> /\ UNCHANGED fetching
  BY <1>2 DEF UseParams, coordVars
<1>4. PICK m \in Mods : m = Mod
  BY <1>1
<1>5. ParamsOf[m] \in SUBSET Available
  BY <1>2, <1>4, Network DEF NetworkFacts, Available
<1>6. PICK K \in Seq(CuOps) : /\ cuQ' = cuQ \o K /\ (ParamsOf[m] # {} => Len(K) > 0)
                              /\ \A i \in 1 .. Len(K) : K[i].op = "kernel"
  BY <1>3, <1>4, <1>5, KernelsFacts
<1>7. CASE \E k \in Cu : /\ cuQ[k].op = "wait_stream" /\ cuQ[k].n >= agPos + Len(agQ)
                         /\ ParamsOf[m] # {}
  <2>1. PICK k \in Cu : cuQ[k].op = "wait_stream" /\ cuQ[k].n >= agPos + Len(agQ) /\ ParamsOf[m] # {}
    BY <1>7
  <2>2. Len(K) \in Nat /\ Len(K) > 0
    BY <1>6, <2>1
  <2>3. 1 \in 1 .. Len(K)
    BY ONLY <2>2
  <2>4. /\ k \in Cu' /\ cuQ'[k] = cuQ[k]
        /\ Len(cuQ) + 1 \in Cu' /\ cuQ'[Len(cuQ) + 1] = K[1] /\ k < Len(cuQ) + 1
    BY <1>6, <2>3, CuAppend
  <2>5. WaitsFor(k)'
    BY <1>3, <1>6, <2>1, <2>3, <2>4 DEF WaitsFor
  <2> QED BY <2>4, <2>5 DEF Computing
<1>8. CASE ~ \E k \in Cu : /\ cuQ[k].op = "wait_stream" /\ cuQ[k].n >= agPos + Len(agQ)
                           /\ ParamsOf[m] # {}
  <2> SUFFICES ASSUME agQ' # <<>> PROVE \E l \in Cu' : WaitsFor(l)'
    BY DEF Computing
  <2>1. PICK k \in Cu : WaitsFor(k)
    BY <1>1, <1>3 DEF Computing
  <2>2. ParamsOf[m] = {} /\ cuQ[k].op = "wait_stream" /\ cuQ[k].n >= agPos + Len(agQ)
    BY <1>8, <2>1 DEF WaitsFor
  <2>3. ASSUME NEW n \in Mods, ParamsOf[n] # {}, Ahead("use", n) PROVE Ahead("use", n)'
    <3>1. todo[1] # Event("use", n)
      <4>1. Event("use", n).m = n
        BY DEF Event
      <4> QED BY <1>1, <1>4, <2>2, <2>3, <4>1 DEF Mod
    <3> QED BY <1>1, <2>3, <3>1, AheadStep
  <2>4. /\ \A i \in Cu : i \in Cu' /\ cuQ'[i] = cuQ[i]
    BY <1>6, CuAppend
  <2>5. WaitsFor(k)'
    <3>1. k \in Cu' /\ cuQ'[k].op = "wait_stream" /\ cuQ'[k].n >= agPos' + Len(agQ')
      BY <1>3, <2>2, <2>4
    <3>2. CASE \E j \in Cu : k < j /\ cuQ[j].op = "kernel"
      BY <2>4, <3>1, <3>2 DEF WaitsFor
    <3>3. CASE \E n \in Mods : ParamsOf[n] # {} /\ Ahead("use", n)
      BY <2>3, <3>1, <3>3 DEF WaitsFor
    <3> QED BY <2>1, <3>2, <3>3 DEF WaitsFor
  <2> QED BY <2>4, <2>5
<1> QED BY <1>7, <1>8

\* At the end of a fetch the compute stream waits for the other one, and the
\* submodule it was for computes.
LEMMA ComputingJoin ==
  ASSUME CtlInv, DataTypes, DataStep, Computing, Running, Running', UNCHANGED loopVars, FetchDone
  PROVE  Computing'
<1>1. /\ fetching # NoMod /\ todo' = Tail(todo) /\ cuQ' = cuQ \o JoinOps /\ UNCHANGED <<agQ, agPos>> /\ fetching' = NoMod
  BY DEF FetchDone, EndFetch, Raise, Running
<1>2. /\ todo # <<>> /\ iter > 0 /\ fetching \in Mods /\ AtScript
      /\ todo[1].m = fetching /\ todo[1].ev \in {"pre_fwd", "pre_bwd"}
  <2>1. todo # <<>> /\ iter > 0 /\ fetching \in Mods
    BY <1>1, NowFetch
  <2> QED BY <1>1, <2>1 DEF CtlInv, FetchUnderWay
<1>3. PICK m \in Mods : m = fetching
  BY <1>2
<1>4. \A n \in Mods : Ahead("use", n) => Ahead("use", n)'
  <2>1. \A n : todo[1] # Event("use", n)
    BY <1>2 DEF Event
  <2> QED BY <1>1, <1>2, <2>1, AheadStep
<1>5. CASE ParamsOf[m] # {}
  <2>1. Ahead("use", m)'
    <3>1. todo[1] \in {Event("pre_fwd", m), Event("pre_bwd", m)}
      <4>1. todo[1] \in HostEvents
        BY <1>2 DEF AtScript
      <4>2. \A e \in HostEvents : e = Event(e.ev, e.m)
        BY DEF HostEvents, StartEvents, HookEvents, EndEvents, Event
      <4> QED BY <1>2, <1>3, <4>1, <4>2
    <3>2. PICK y \in Done + 2 .. Len(Script(iter)) : Script(iter)[y] = Event("use", m)
      BY <1>2, <3>1, PassSoFar
    <3>3. Script(iter)' = Script(iter) /\ Done \in Nat /\ (Done' = Done \/ Done' = Done + 1)
      BY <1>1, <1>2, ScriptStep DEF AtScript
    <3>4. y \in Done' + 1 .. Len(Script(iter))
      BY ONLY <3>2, <3>3
    <3> QED BY <3>2, <3>3, <3>4 DEF Ahead
  <2>2. Len(agQ) \in Nat /\ agPos \in Nat
    BY DEF DataTypes, StreamTypes
  <2>3. JoinOps \in Seq(CuOps) /\ Len(JoinOps) = 1 /\ JoinOps[1] = WaitStreamOp(agPos + Len(agQ))
    <3>1. WaitStreamOp(agPos + Len(agQ)) \in CuOps
      BY <2>2, CuOpFacts
    <3> QED BY <3>1 DEF JoinOps
  <2>4. Len(cuQ) + 1 \in Cu' /\ cuQ'[Len(cuQ) + 1] = WaitStreamOp(agPos + Len(agQ))
    <3>1. Len(cuQ) + 1 \in Cu' /\ cuQ'[Len(cuQ) + 1] = JoinOps[1]
      <4>1. 1 \in 1 .. Len(JoinOps)
        BY <2>3
      <4>2. JoinOps \in Seq(CuOps) /\ cuQ' = cuQ \o JoinOps
        BY <1>1, <2>3
      <4>3. \A i \in 1 .. Len(JoinOps) : Len(cuQ) + i \in Cu' /\ cuQ'[Len(cuQ) + i] = JoinOps[i]
        BY <4>2, CuAppend
      <4> QED BY <4>1, <4>3
    <3> QED BY <2>3, <3>1
  <2>6. PICK l \in Cu' : cuQ'[l] = WaitStreamOp(agPos + Len(agQ))
    BY <2>4
  <2>7. cuQ'[l].op = "wait_stream" /\ cuQ'[l].n = agPos + Len(agQ)
    BY <2>6 DEF WaitStreamOp, Op
  <2>8. WaitsFor(l)'
    BY <1>1, <1>5, <2>1, <2>2, <2>7 DEF WaitsFor
  <2> QED BY <2>8 DEF Computing
<1>6. CASE ParamsOf[m] = {}
  <2> SUFFICES ASSUME agQ' # <<>> PROVE \E l \in Cu' : WaitsFor(l)'
    BY DEF Computing
  <2>1. PICK k \in Cu : WaitsFor(k)
    BY <1>1, <1>3, <1>6 DEF Computing
  <2> QED BY <1>1, <1>4, <2>1, WaitsKept
<1> QED BY <1>5, <1>6

\* Every step.
LEMMA ComputingStep ==
  ASSUME CtlInv, Calls, Starting, AtUpdate, DataTypes, Computing, [Next]_vars
  PROVE  Computing'
<1> SUFFICES ASSUME Running' PROVE Computing'
  BY DEF Computing
<1>0. DataStep /\ CtlInv' /\ AtScript /\ FetchUnderWay
  BY DataSteps, CtlStep DEF CtlInv
<1>1. ASSUME Running, UNCHANGED <<agQ, agPos>> \/ (HostKept /\ AllGatherStream), UNCHANGED <<fetching, todo, loopVars>>
      PROVE  Computing'
  <2>1. \A m \in Mods : Ahead("use", m) => Ahead("use", m)'
    BY <1>0, <1>1, AheadStep
  <2> QED BY <1>0, <1>1, <2>1, ComputingKept
<1>2. CASE Device
  <2>1. UNCHANGED <<fetching, todo, loopVars>> /\ Running /\ HostKept
    BY <1>2 DEF Device, coordVars, hookVars, loopVars, Running, HostKept
  <2>2. UNCHANGED <<agQ, agPos>> \/ AllGatherStream
    BY <1>2 DEF Device, DpuGather, ComputeStream
  <2> QED BY <1>1, <2>1, <2>2
<1>3. CASE UNCHANGED vars
  BY <1>1, <1>3 DEF vars, loopVars, Running
<1>4. CASE Host /\ StartIteration
  <2>1. UNCHANGED <<agQ, agPos, cuQ, fetching>> /\ Running /\ todo = <<>>
    BY <1>4 DEF StartIteration, streamVars, coordVars, Host
  <2>2. fetching = NoMod
    BY <1>0, <2>1 DEF FetchUnderWay
  <2>3. ASSUME NEW m PROVE ~ Ahead("use", m)
    <3>1. Done \in Nat /\ Len(todo) = 0 /\ Done = Len(Script(iter)) - Len(todo)
      BY <1>0, <2>1 DEF AtScript, Done
    <3>2. iter = 0 \/ iter \in 1 .. Len(schedule)
      BY <1>0 DEF AtScript
    <3>3. Len(Script(iter)) \in Nat
      <4>1. CASE iter = 0
        BY <4>1, StartScript
      <4>2. CASE iter \in 1 .. Len(schedule)
        BY <1>0, <4>2, LoopScript DEF AtScript
      <4> QED BY <3>2, <4>1, <4>2
    <3>4. Done + 1 > Len(Script(iter))
      BY ONLY <3>1, <3>3
    <3> QED BY <3>1, <3>3, <3>4 DEF Ahead
  <2>4. \A m \in Mods : Ahead("use", m) => Ahead("use", m)'
    BY <2>3
  <2> QED BY <1>0, <2>1, <2>4, ComputingKept
<1>5. CASE Host /\ Start /\ UNCHANGED loopVars
  <2>1. \A kind \in {"convert", "gather", "add_hook"} : todo # <<>> /\ Head(todo).ev = kind => iter = 0
    BY <1>0, NowLoop
  <2>2. iter = 0 /\ UNCHANGED agQ
    BY <1>5, <2>1 DEF Start, ConvertParam, GatherForHook, AddHook, Now
  <2> QED BY <2>2 DEF Starting, Computing
<1>6. ASSUME NEW kind \in {"pre_fwd", "post_fwd", "pre_bwd", "post_bwd", "reset_step", "epilogue", "release_all", "update"},
             todo # <<>>, todo[1].ev = kind, Running, UNCHANGED <<agQ, agPos, loopVars>>, fetching = NoMod,
             todo' = todo \/ todo' = Tail(todo)
      PROVE  Computing'
  <2>1. \A m : todo[1] # Event("use", m)
    BY <1>6 DEF Event
  <2>2. \A m \in Mods : Ahead("use", m) => Ahead("use", m)'
    BY <1>0, <1>6, <2>1, AheadStep
  <2> QED BY <1>0, <1>6, <2>2, ComputingKept
<1>7. CASE Host /\ (HookRuns \/ Loop) /\ UNCHANGED loopVars
  <2>1. PICK kind \in {"pre_fwd", "post_fwd", "pre_bwd", "post_bwd", "reset_step", "epilogue", "release_all", "update"} : Now(kind)
    BY <1>7 DEF HookRuns, Loop, PreForward, PostForward, PreBackward, PostBackward, StepReset, Epilogue, ReleaseAll, UpdateShards
  <2>2. todo # <<>> /\ fetching = NoMod /\ todo[1].ev = kind /\ Running
    <3>1. todo # <<>> /\ Head(todo) = todo[1]
      BY <1>0, <2>1 DEF Now, AtScript
    <3> QED BY <1>7, <2>1, <3>1 DEF Now, Host
  <2>3. UNCHANGED <<agQ, agPos>> /\ (todo' = todo \/ todo' = Tail(todo))
    <3>1. CASE PreForward \/ PreBackward
      BY <3>1 DEF PreForward, PreBackward, BeginFetch, Raise, streamVars
    <3>2. CASE PostForward \/ PostBackward
      BY <3>2 DEF PostForward, PostBackward, ReleaseSubModule, streamVars
    <3>3. CASE Loop
      BY <3>3 DEF Loop, StepReset, Epilogue, ReleaseAll, UpdateShards, ResetStep, ReleaseAndResetAll, Raise, streamVars
    <3> QED BY <1>7, <3>1, <3>2, <3>3 DEF HookRuns
  <2> QED BY <1>6, <1>7, <2>2, <2>3
<1>8. CASE Host /\ UseParams /\ UNCHANGED loopVars
  BY <1>0, <1>8, ComputingUse DEF Host
<1>9. CASE Host /\ FetchDone /\ UNCHANGED loopVars
  BY <1>0, <1>9, ComputingJoin DEF Host
<1>10. CASE Host /\ FetchParam /\ UNCHANGED loopVars
  <2>1. PICK p \in Params : WaitParam(p)
    BY <1>10 DEF FetchParam
  <2>2. p \in waiting /\ WaitRound(p)
    BY <2>1 DEF WaitParam, Raise, Running
  <2>3. fetching # NoMod /\ waiting \subseteq ParamsOf[fetching]
    BY <1>0, <2>2 DEF FetchUnderWay
  <2>4. fetching' = fetching
    BY <2>2 DEF WaitRound
  <2> QED BY <2>2, <2>3, <2>4 DEF Computing
<1> QED BY <1>2, <1>3, <1>4, <1>5, <1>7, <1>8, <1>9, <1>10 DEF Next, Host, Hooks, HookRuns

\* What the allgather stream has still to do is for a computation to come: no
\* parameter is gathered for nothing.
THEOREM GatheredToCompute == Spec => [](TypeInv /\ Computing)
<1>1. Init => Computing
  BY DEF Init, StreamsInit, Computing
<1>2. TypeInv /\ Computing /\ [Next]_vars => Computing'
  BY ComputingStep DEF TypeInv
<1> QED BY <1>1, <1>2, TypeInvariance, PTL DEF Spec

\* At the update no gather is under way: it would be waited for, and the wait
\* followed by a computation.
LEMMA UpdateIdle ==
  ASSUME TypeInv, DataInv, Computing, Running, UNCHANGED loopVars, UpdateShards
  PROVE  dpu = {} /\ \A p \in Params : status[p] = "NOT_AVAILABLE"
<1>1. CtlInv /\ DataTypes /\ AtUpdate /\ AtScript
  BY DEF TypeInv, CtlInv
<1>2. \A p \in Params : status[p] = "NOT_AVAILABLE"
  BY <1>1, UpdateStep
<1>3. iter > 0 /\ Len(todo) = 1 /\ fetching = NoMod /\ todo # <<>> /\ todo[1].ev = "update"
  <2>1. Now("update")
    BY DEF UpdateShards
  <2>2. Head(todo) = todo[1]
    BY <1>1, <2>1 DEF Now, AtScript
  <2> QED BY <1>1, <2>1, <2>2, NowLoop DEF Now
<1>4. ~ \E j \in Cu : cuQ[j].op = "kernel"
  BY <1>1, <1>3 DEF AtUpdate, KernelsDrained, Cu, DataTypes, StreamTypes
<1>5. ASSUME NEW m PROVE ~ Ahead("use", m)
  <2>1. PICK d \in Nat : d = Done /\ Len(Script(iter)) = d + 1 /\ Script(iter)[d + 1] = todo[1]
    <3>1. Len(Script(iter)) \in Nat
      <4>1. iter \in 1 .. Len(schedule) /\ schedule \in Schedules
        BY <1>1, <1>3 DEF AtScript
      <4> QED BY <4>1, LoopScript
    <3>2. Done = Len(Script(iter)) - 1 /\ Done \in Nat
      BY <1>1, <1>3 DEF Done, AtScript
    <3>3. 1 \in 1 .. Len(todo)
      BY <1>3
    <3>4. todo[1] = Script(iter)[Done + 1]
      BY <1>1, <3>3 DEF AtScript
    <3> QED BY <3>1, <3>2, <3>4
  <2>2. \A y \in d + 1 .. d + 1 : y = d + 1
    OBVIOUS
  <2>3. todo[1] # Event("use", m)
    BY <1>3 DEF Event
  <2> QED BY <2>1, <2>2, <2>3 DEF Ahead
<1>6. agQ = <<>>
  BY <1>3, <1>4, <1>5 DEF Computing, WaitsFor
<1>7. dpu = {}
  <2> SUFFICES ASSUME NEW h \in dpu PROVE FALSE
    OBVIOUS
  <2>1. InFlight = {}
    BY <1>2 DEF InFlight
  <2>2. \E j \in Ag : Awaits(agQ[j], h)
    BY <1>3, <2>1 DEF DataInv, BlockInv, Awaited
  <2> QED BY <1>6, <2>2 DEF Ag
<1> QED BY <1>2, <1>7

\* The shards change in no other step.
LEMMA UpdateOnly ==
  ASSUME [Next]_vars, weights' # weights
  PROVE  Running /\ UpdateShards /\ UNCHANGED loopVars
<1>1. Device \/ StartIteration \/ UNCHANGED vars => UNCHANGED weights
  BY DEF Device, DpuGather, AllGatherStream, ComputeStream, StartIteration, streamVars, vars
<1>2. Start => UNCHANGED weights
  BY DEF Start, ConvertParam, GatherForHook, AddHook
<1>3. \A m : BeginFetch(m) => UNCHANGED weights
  BY DEF BeginFetch, Raise, streamVars
<1>4. PreForward \/ PreBackward => UNCHANGED weights
  BY <1>3 DEF PreForward, PreBackward, streamVars
<1>5. UseParams \/ PostForward \/ PostBackward => UNCHANGED weights
  BY DEF UseParams, PostForward, PostBackward, ReleaseSubModule, Raise, streamVars
<1>6. FetchParam \/ FetchDone => UNCHANGED weights
  BY DEF FetchParam, FetchDone, WaitParam, WaitRound, EndFetch, Raise, streamVars
<1>7. StepReset \/ Epilogue \/ ReleaseAll => UNCHANGED weights
  BY DEF StepReset, Epilogue, ReleaseAll, ResetStep, ReleaseAndResetAll, Raise, streamVars
<1> QED BY <1>1, <1>2, <1>4, <1>5, <1>6, <1>7 DEF Next, Host, Hooks, Loop

\* The shards only change when no gather that reads them is under way.
THEOREM ShardsChangeWhenIdle == Spec => UpdateWhenIdle
<1>1. TypeInv /\ DataInv /\ Computing /\ [Next]_vars =>
        [weights' # weights => dpu = {} /\ \A p \in Params : status[p] = "NOT_AVAILABLE"]_vars
  BY UpdateOnly, UpdateIdle
<1> QED BY <1>1, DataInvariance, GatheredToCompute, PTL DEF Spec, UpdateWhenIdle
=============================================================================
