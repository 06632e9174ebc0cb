------------------------------ MODULE MCOutbox ------------------------------
(* Finite instances of Outbox for TLC: a light and a heavy entity, published *)
(* alone or together. *)
EXTENDS Outbox

AloneOrTogether == {<<"light">>, <<"heavy">>, <<"light", "heavy">>}
LightAndHeavy == [e \in Entities |-> IF e = "light" THEN 1 ELSE 2]

=============================================================================
