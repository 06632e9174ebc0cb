------------------------ MODULE BotAuthorityInvariant ------------------------
(***************************************************************************)
(* The inductive invariant behind the safety properties of BotAuthority:    *)
(* what each place of a strand says about the run it works on.              *)
(***************************************************************************)
EXTENDS BotAuthority

\* A strand that works on a run names one.
TargetsNamed == \A s \in Strands : pc[s] \in Targeting => tgt[s] \in Runs

\* Only a caller stands in run(), and while it does it waits for a run.
CallsNamed ==
  \A s \in Strands :
    /\ pc[s] \in CallerPlaces \/ cont[s] # "loop" => s \in Callers
    /\ s \in Callers /\ pc[s] \notin {"idle", "could not start"} => want[s] \in Runs

\* A caller that tries to start its own run has an attempt left.
AttemptsLeft ==
  \A s \in Strands : cont[s] = "mine" =>
    /\ pc[s] \in Executing \cup {"promote", "finish", "unwind", "unwindThrow",
                                "return", "threw"}
    /\ pc[s] = "promote" => attempts[s] < MaxAttempts

\* The drive works for the head of its chain.
DriveNamed == pc["drive"] # "idle" => drive # <<>>

TypeInv == TypeOK /\ TargetsNamed /\ CallsNamed /\ AttemptsLeft /\ DriveNamed

-----------------------------------------------------------------------------

\* A strand in one of these keeps executingRunId for its run.
Holding == Executing \cup {"unwindThrow"}

\* Some strand is in a Turn that has not decided to end.
InOpenTurn == \E s \in Strands : pc[s] \in {"start", "turn"}

HolderIsActive ==
  \A s \in Strands : pc[s] \in Holding =>
    /\ tgt[s] = active /\ tgt[s] = executing
    /\ \A o \in Strands \ {s} : pc[o] \notin Holding

\* A promoted run is active and nobody's Turn until its strand has read it.
PromotedIsActive ==
  \A s \in Strands : pc[s] = "promoted" =>
    /\ tgt[s] = active
    /\ \A o \in Strands \ {s} : pc[o] \notin Holding \cup {"promoted"}

\* The active run that recovery read is still active, or settled since; it is
\* not about to be parked.
RecoveryIsCurrent ==
  \A s \in Strands : pc[s] = "recoverTx" =>
    /\ tgt[s] = active \/ Terminal(tgt[s])
    /\ \A o \in Strands : pc[o] = "park" => tgt[o] # tgt[s]

\* The parked run that recovery read is not about to be parked again, and is
\* not on its way out of a Turn unless another Turn holds the slot.
UnparkIsCurrent ==
  \A s, o \in Strands : pc[s] = "unpark" /\ tgt[o] = tgt[s] =>
    /\ pc[o] # "park"
    /\ pc[o] = "unwind" => InOpenTurn

ParkIsFree == \A s \in Strands : pc[s] = "park" => parked = NoRun

FinishedIsSettled == \A s \in Strands : pc[s] = "finish" => Terminal(tgt[s])

\* A strand that parked its run is out of its Turn before anything resumes it.
UnwoundIsAside ==
  \A s \in Strands : pc[s] = "unwind" =>
    /\ InPhase(tgt[s], "parked") \/ Terminal(tgt[s])
    /\ executing = tgt[s] \/ InOpenTurn
    /\ \A o \in Strands \ {s} : pc[o] \in {"finish", "unwind"} => tgt[o] # tgt[s]

\* The slots are exact, and what the strands hold agrees with them.
SlotInv ==
  /\ ActiveSlot /\ ParkedSlot /\ QueuesHoldWaitingRuns
  /\ HolderIsActive /\ PromotedIsActive /\ RecoveryIsCurrent /\ UnparkIsCurrent
  /\ ParkIsFree /\ FinishedIsSettled /\ UnwoundIsAside

=============================================================================
