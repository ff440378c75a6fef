------------------------------- MODULE MCVmExit -------------------------------
(***************************************************************************)
(* Instances of VmExit for TLC: the values of VectoringInfo, which a .cfg  *)
(* cannot write, and the table PriorityIndex stands for.                   *)
(***************************************************************************)
EXTENDS VmExitRefinement, FiniteSetsExt

NoVectoring == {}

AllVectoring ==
  { [type |-> "INTR", vector |-> 32], [type |-> "NMI", vector |-> 2],
    [type |-> "SW", vector |-> 128], Exception(0), Exception(14) }

\* The vectors of Handler.c's ExceptionPriorities, in order.
ExceptionPriorities ==
  <<18, 1, 2, 32, 1, 13, 14, 6, 7, 13, 0, 10, 11, 12, 13, 14, 16, 17, 19>>

\* PriorityIndex is the first (0-based) index at which the loop's test hits.
ASSUME PriorityIndexIsFirstHit ==
  \A v \in 0..255 :
    LET hits == {i \in DOMAIN ExceptionPriorities :
                   \/ ExceptionPriorities[i] = v
                   \/ ExceptionPriorities[i] = 32 /\ v > 32 /\ v <= 255}
    IN  PriorityIndex(v) = IF hits = {} THEN Unlisted ELSE Min(hits) - 1
=============================================================================
