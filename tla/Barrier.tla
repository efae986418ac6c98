------------------------------- MODULE Barrier -------------------------------
(***************************************************************************)
(* What a barrier promises to the ranks that call it, with nothing said of *)
(* how it is built.  rdb_barrier() falls back on MPI_Barrier() when the    *)
(* RDMA doorbell barrier is not available, so both must be this barrier.   *)
(* A rank's k-th call is in progress while entered[p] = k > exited[p].     *)
(***************************************************************************)
EXTENDS Naturals

CONSTANT Proc

VARIABLES entered,   \* entered[p]: barrier calls p has started
          exited     \* exited[p]: barrier calls that have returned to p

vars == <<entered, exited>>

Init == /\ entered = [p \in Proc |-> 0]
        /\ exited  = [p \in Proc |-> 0]

\* p calls the barrier; it cannot call it again before it returns.
Enter(p) == /\ exited[p] = entered[p]
            /\ entered' = [entered EXCEPT ![p] = @ + 1]
            /\ UNCHANGED exited

\* The k-th call returns to p only when every process has made its k-th call.
Exit(p) == /\ exited[p] # entered[p]
           /\ \A q \in Proc : entered[q] >= entered[p]
           /\ exited' = [exited EXCEPT ![p] = entered[p]]
           /\ UNCHANGED entered

Next == \E p \in Proc : Enter(p) \/ Exit(p)

Spec == Init /\ [][Next]_vars
=============================================================================
