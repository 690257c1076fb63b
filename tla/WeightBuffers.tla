--------------------------- MODULE WeightBuffers ---------------------------
(* What two buffers of weights promise: a caller writes a buffer, exchanges *)
(* the one in use for the other, or gives up the one that is not.  Nothing  *)
(* else changes what a model reads.                                        *)
EXTENDS Naturals

CONSTANT Lost            \* contents of memory that was given up

VARIABLES
    inUse,               \* the buffer that models read
    weights,             \* contents of both
    optional             \* weights a caller may leave out

Sides == {1, 2}
Other(b) == 3 - b
Weights == DOMAIN weights[1]

\* The weights that are given, all in one call; what a buffer that is not in use is
\* not given, and may be left out, it takes from the one in use.
Write ==
    /\ \E b \in Sides, given \in SUBSET Weights : \E new \in {weights'[b][i] : i \in Weights} :
          weights' = [weights EXCEPT ![b] =
              [i \in Weights |-> IF i \in given THEN new
                                 ELSE IF b # inUse /\ i \in optional THEN weights[inUse][i]
                                 ELSE weights[b][i]]]
    /\ UNCHANGED <<inUse, optional>>

Exchange == inUse' = Other(inUse) /\ UNCHANGED <<weights, optional>>

GiveUp ==
    /\ weights'[inUse] = weights[inUse]
    /\ \A i \in Weights : weights'[Other(inUse)][i] \in {weights[Other(inUse)][i], Lost}
    /\ UNCHANGED <<inUse, optional>>

Next == Write \/ Exchange \/ GiveUp
Spec == [][Next]_<<inUse, weights, optional>>
=============================================================================
