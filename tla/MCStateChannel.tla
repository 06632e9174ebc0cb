--------------------------- MODULE MCStateChannel ---------------------------
(* Finite instances of StateChannel for TLC. *)
EXTENDS StateChannel, TLC

OneEach == {<<e>> : e \in Conversation}
EvenWeight == [e \in Conversation |-> 1]
TurnSymmetry == Permutations(Turns)

=============================================================================
