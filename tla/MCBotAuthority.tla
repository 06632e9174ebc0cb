--------------------------- MODULE MCBotAuthority ---------------------------
(* Finite instances of BotAuthority for TLC. *)
EXTENDS BotAuthorityInvariant

AgentThenUser == <<"agent", "user">>
BackgroundThenUser == <<"background", "user">>
AgentTwoUsers == <<"agent", "user", "user">>

\* Fences only ever refuse a command: where they are not the question, the
\* states behind a fence are not explored.
NoFences == fences = <<>>
\* The slots and queues of three runs, one of them stopped.
NoFencesOneStop ==
  NoFences /\ \A r, o \in Runs : run[r].stop /\ run[o].stop => r = o

=============================================================================
