--------------------------- MODULE MCNodeRuntime ---------------------------
(***************************************************************************)
(* Small runs of NodeRuntime.  The part "seeds" has the constants of the   *)
(* cfg: two seeds compete for calls after routing has spent one, and a     *)
(* child is refused as too deep.  In the part "tree" a seed has a child    *)
(* and a grandchild.  Both have the same calls and invocations, so that    *)
(* the properties read the same in both.                                   *)
(***************************************************************************)
EXTENDS NodeRuntime, TLC

CONSTANTS nodeA, nodeB, nodeC,
          Parts  \* the parts to explore

VARIABLE part

Tree == INSTANCE NodeRuntime WITH
    Nodes <- {nodeA, nodeB, nodeC}, Seeds <- {nodeC}, Spent <- 0, MaxOperations <- 10,
    MaxSteps <- 1, MaxDepth <- 2, MaxConcurrency <- 1

MCInit ==
    /\ part \in Parts
    /\ IF part = "tree" THEN Tree!Init ELSE Init

MCNext ==
    /\ UNCHANGED part
    /\ \/ part = "seeds" /\ Next
       \/ part = "tree" /\ Tree!Next

MCSpec == MCInit /\ [][MCNext]_<<vars, part>>

\* The two seeds, and the two nodes under the seed of the tree.
Interchangeable == Permutations({nodeA, nodeB})
=============================================================================
