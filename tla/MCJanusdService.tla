-------------------------- MODULE MCJanusdService --------------------------
(* Instances of JanusdService for TLC: the keys are pods of one guard.       *)
EXTENDS JanusdService, TLC

CONSTANT guardA

MCNameOf == [k \in Keys |-> guardA]
ClientSymmetry == Permutations(Clients)

\* A state stream is open, or its last messages unread, beside one call at most:
\* MCJanusdCalls has streams among several.
StreamsApart ==
    streaming \/ buffered > 0 => Cardinality({c \in Clients : pc[c] # "idle"}) <= 1
=============================================================================
