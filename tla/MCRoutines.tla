----------------------------- MODULE MCRoutines -----------------------------
EXTENDS Routines

\* Every ask names the Routine with the smallest id; the backoff grows.
FirstRoutine == [a \in Asks |-> CHOOSE r \in Routine : IsFirst(r, Routine)]
Growing == [n \in 1..PauseAfter |-> n]
=============================================================================
