-------------------------- MODULE BotAuthoritySlots --------------------------
(***************************************************************************)
(* SlotInv is inductive: for every set of runs and callers and every bound, *)
(* the slots and the queues of a Bot are exact and one strand at a time     *)
(* holds a Turn.  One lemma per operation, one step per conjunct that the   *)
(* operation can disturb.                                                   *)
(***************************************************************************)
EXTENDS BotAuthorityTypes

-----------------------------------------------------------------------------
(* What the invariant says about the run a strand works on                  *)

\* The run of a strand that holds a Turn is the active one, and nobody else
\* is on the way out of it.
LEMMA HolderFacts ==
  ASSUME TypeInv, SlotInv, NEW s \in Strands, pc[s] \in Holding
  PROVE  /\ tgt[s] \in Runs /\ tgt[s] = active /\ tgt[s] = executing
         /\ Running(tgt[s]) /\ run[tgt[s]].phase \in {"admitted", "executing"}
         /\ \A o \in Strands \ {s} : pc[o] \notin Holding
         /\ \A o \in Strands : pc[o] # "promoted"
         /\ \A o \in Strands : pc[o] \in {"finish", "unwind"} => tgt[o] # tgt[s]
  <1>1. tgt[s] \in Runs
    BY DEF TypeInv, TargetsNamed, Targeting, Holding
  <1>2. /\ tgt[s] = active /\ tgt[s] = executing
        /\ \A o \in Strands \ {s} : pc[o] \notin Holding
    BY DEF SlotInv, HolderIsActive
  <1>3. Running(tgt[s]) /\ run[tgt[s]].phase \in {"admitted", "executing"}
    BY <1>1, <1>2 DEF SlotInv, ActiveSlot
  <1>4. ASSUME NEW o \in Strands, pc[o] \in {"finish", "unwind"}
        PROVE  tgt[o] # tgt[s]
    BY <1>3, <1>4
    DEF SlotInv, FinishedIsSettled, UnwoundIsAside, InPhase, Terminal, Running
  <1>5. \A o \in Strands : pc[o] # "promoted"
    BY DEF SlotInv, PromotedIsActive, Holding, Executing
  <1> QED
    BY <1>1, <1>2, <1>3, <1>4, <1>5

\* With the slot empty, or its run not executing here, no strand holds a Turn;
\* with the slot empty, none has just promoted a run.
LEMMA NoHolder ==
  ASSUME TypeInv, SlotInv, active = NoRun \/ active # executing
  PROVE  /\ \A o \in Strands : pc[o] \notin Holding
         /\ ~InOpenTurn
         /\ active = NoRun => \A o \in Strands : pc[o] # "promoted"
  <1>1. ASSUME NEW o \in Strands, pc[o] \in Holding PROVE FALSE
    BY <1>1, HolderFacts, RunsAssumption
  <1>2. ASSUME NEW o \in Strands, pc[o] = "promoted" PROVE active \in Runs
    BY <1>2 DEF TypeInv, TargetsNamed, Targeting, SlotInv, PromotedIsActive
  <1> QED
    BY <1>1, <1>2, RunsAssumption DEF InOpenTurn, Holding, Executing

\* Every entry of a queue is live, so livePendingHead deletes none.
LEMMA NothingToPrune ==
  ASSUME TypeInv, SlotInv
  PROVE  /\ LivePending(pendingUser) = pendingUser /\ Pruned(pendingUser) = pendingUser
         /\ LivePending(pendingAgent) = pendingAgent /\ Pruned(pendingAgent) = pendingAgent
  <1>1. /\ pendingUser \subseteq Runs /\ pendingAgent \subseteq Runs
        /\ \A r \in pendingUser \cup pendingAgent : InPhase(r, "queued")
    BY DEF TypeInv, TypeOK, SlotInv, QueuesHoldWaitingRuns
  <1>2. /\ LivePending(pendingUser) = pendingUser
        /\ LivePending(pendingAgent) = pendingAgent
    BY <1>1 DEF LivePending
  <1>3. \A r \in Runs : r <= r
    BY RunsAssumption
  <1> QED
    BY <1>1, <1>2, <1>3 DEF Pruned

\* What a strand does outside a Turn, without touching the slots, disturbs
\* nothing: it may leave recovery, but it enters no place SlotInv speaks of.
Watched == Holding \cup {"promoted", "recoverTx", "unpark", "finish", "unwind"}

LEMMA QuietStep ==
  ASSUME TypeInv, SlotInv, UNCHANGED <<slots, executing>>,
         \A o \in Strands :
           \/ pc'[o] = pc[o] /\ tgt'[o] = tgt[o]
           \/ pc[o] \notin Holding /\ pc'[o] \notin Watched
  PROVE  SlotInv'
  <1>1. UNCHANGED <<run, active, parked, pendingUser, pendingAgent, executing>>
    BY DEF slots
  <1>2. (ActiveSlot /\ ParkedSlot /\ QueuesHoldWaitingRuns)'
    BY <1>1 DEF SlotInv, ActiveSlot, ParkedSlot, QueuesHoldWaitingRuns, InPhase, Running
  <1>3. \A o \in Strands :
          /\ pc'[o] \in Watched => pc'[o] = pc[o] /\ tgt'[o] = tgt[o]
          /\ pc[o] \in Holding => pc'[o] = pc[o] /\ tgt'[o] = tgt[o]
    BY DEF Watched
  <1>4. InOpenTurn => InOpenTurn'
    BY <1>3 DEF InOpenTurn, Holding, Executing
  <1>5. HolderIsActive' /\ PromotedIsActive'
    BY <1>1, <1>3 DEF SlotInv, HolderIsActive, PromotedIsActive, Watched
  <1>6. RecoveryIsCurrent'
    BY <1>1, <1>3 DEF SlotInv, RecoveryIsCurrent, Watched, Holding, Executing, Terminal
  <1>7. UnparkIsCurrent'
    BY <1>3, <1>4 DEF SlotInv, UnparkIsCurrent, Watched, Holding, Executing
  <1>8. ParkIsFree' /\ FinishedIsSettled'
    BY <1>1, <1>3 DEF SlotInv, ParkIsFree, FinishedIsSettled, Watched, Holding, Executing,
                    Terminal
  <1>9. UnwoundIsAside'
    BY <1>1, <1>3, <1>4 DEF SlotInv, UnwoundIsAside, Watched, InPhase, Running, Terminal
  <1> QED
    BY <1>2, <1>5, <1>6, <1>7, <1>8, <1>9 DEF SlotInv

-----------------------------------------------------------------------------
(* Commands                                                                 *)

StrandInv ==
  /\ HolderIsActive /\ PromotedIsActive /\ RecoveryIsCurrent /\ UnparkIsCurrent
  /\ ParkIsFree /\ FinishedIsSettled /\ UnwoundIsAside

\* A command moves no strand: what the strands rely on survives as long as it
\* takes the active slot only when that is free, and neither reopens a settled
\* run nor resumes a parked one.
LEMMA CommandStep ==
  ASSUME TypeInv, SlotInv, UNCHANGED <<tgt, executing>>,
         \A o \in Strands : pc'[o] = pc[o] \/ (pc[o] = "watch" /\ pc'[o] = "loop"),
         \A r \in Runs : Terminal(r) => Terminal(r)',
         \A r \in Runs : InPhase(r, "parked") => InPhase(r, "parked")' \/ Terminal(r)',
         active' = active \/ active = NoRun,
         parked' = parked \/ parked' = NoRun
  PROVE  StrandInv'
  <1>1. \A o \in Strands : pc[o] \in Watched => tgt[o] \in Runs
    BY DEF TypeInv, TargetsNamed, Targeting, Watched, Holding
  <1>2. \A o \in Strands :
          /\ pc'[o] \in Watched => pc'[o] = pc[o]
          /\ pc[o] \in Watched => pc'[o] = pc[o]
    BY DEF Watched, Holding, Executing
  <1>3. InOpenTurn => InOpenTurn'
    BY <1>2 DEF InOpenTurn, Watched, Holding, Executing
  <1>4. HolderIsActive' /\ PromotedIsActive'
    <2>1. CASE active' = active
      BY <1>2, <2>1 DEF SlotInv, HolderIsActive, PromotedIsActive, Watched
    <2>2. CASE active = NoRun
      BY <1>2, <2>2, NoHolder DEF HolderIsActive, PromotedIsActive, Watched
    <2> QED
      BY <2>1, <2>2
  <1>5. RecoveryIsCurrent'
    <2> SUFFICES ASSUME NEW s \in Strands, pc'[s] = "recoverTx"
                 PROVE  /\ tgt'[s] = active' \/ Terminal(tgt[s])'
                        /\ \A o \in Strands : pc'[o] = "park" => tgt'[o] # tgt'[s]
      BY DEF RecoveryIsCurrent, Terminal
    <2>1. pc[s] = "recoverTx" /\ tgt[s] \in Runs
      BY <1>1, <1>2 DEF Watched
    <2>2. \A o \in Strands : pc'[o] = "park" => tgt'[o] # tgt'[s]
      BY <1>2, <2>1 DEF SlotInv, RecoveryIsCurrent, Watched, Holding, Executing
    <2>3. tgt[s] = active \/ Terminal(tgt[s])
      BY <2>1 DEF SlotInv, RecoveryIsCurrent
    <2>4. tgt[s] = active => active' = active
      BY <2>1, RunsAssumption
    <2> QED
      BY <2>1, <2>2, <2>3, <2>4
  <1>6. UnparkIsCurrent'
    BY <1>2, <1>3 DEF SlotInv, UnparkIsCurrent, Watched, Holding, Executing
  <1>7. ParkIsFree'
    BY <1>2 DEF SlotInv, ParkIsFree, Watched, Holding, Executing
  <1>8. FinishedIsSettled'
    <2> SUFFICES ASSUME NEW s \in Strands, pc'[s] = "finish" PROVE Terminal(tgt[s])'
      BY DEF FinishedIsSettled, Terminal
    <2>1. pc[s] = "finish" /\ tgt[s] \in Runs
      BY <1>1, <1>2 DEF Watched
    <2> QED
      BY <2>1 DEF SlotInv, FinishedIsSettled
  <1>9. UnwoundIsAside'
    <2> SUFFICES ASSUME NEW s \in Strands, pc'[s] = "unwind"
                 PROVE  /\ InPhase(tgt[s], "parked")' \/ Terminal(tgt[s])'
                        /\ executing' = tgt'[s] \/ InOpenTurn'
                        /\ \A o \in Strands \ {s} :
                             pc'[o] \in {"finish", "unwind"} => tgt'[o] # tgt'[s]
      BY DEF UnwoundIsAside, InPhase, Running, Terminal
    <2>1. pc[s] = "unwind" /\ tgt[s] \in Runs
      BY <1>1, <1>2 DEF Watched
    <2>2. /\ InPhase(tgt[s], "parked") \/ Terminal(tgt[s])
          /\ executing = tgt[s] \/ InOpenTurn
          /\ \A o \in Strands \ {s} : pc[o] \in {"finish", "unwind"} => tgt[o] # tgt[s]
      BY <2>1 DEF SlotInv, UnwoundIsAside
    <2> QED
      BY <1>2, <1>3, <2>1, <2>2 DEF Watched
  <1> QED
    BY <1>4, <1>5, <1>6, <1>7, <1>8, <1>9 DEF StrandInv

\* acceptRun, replayAdmission, fenceRunAdmission, recordUnadmittedFailure and
\* stopRun keep the slots exact.
LEMMA CommandSlots ==
  ASSUME TypeInv, SlotInv, NEW r \in Runs, Command(r)
  PROVE  SlotInv'
  <1>0. /\ run \in [Runs -> RunRecords] /\ NoRun \notin Runs
        /\ LaneOf[r] \in {"user", "agent", "background"}
    BY RunsAssumption, LanesAssumption DEF TypeInv, TypeOK
  <1>s. ActiveSlot /\ ParkedSlot /\ QueuesHoldWaitingRuns
    BY DEF SlotInv
  <1>1. CASE AcceptRun(r)
    <2> DEFINE queued == MustQueue(LaneOf[r])
    <2>1. /\ run[r].status = "none"
          /\ run'[r].status = "running"
          /\ run'[r].phase = IF queued THEN "queued" ELSE "admitted"
          /\ \A o \in Runs \ {r} : run'[o] = run[o]
          /\ UNCHANGED <<parked, executing, pc, tgt>>
          /\ active' = IF queued THEN active ELSE r
          /\ pendingUser' = IF queued /\ LaneOf[r] # "agent" THEN pendingUser \cup {r}
                                                             ELSE pendingUser
          /\ pendingAgent' = IF queued /\ LaneOf[r] = "agent" THEN pendingAgent \cup {r}
                                                              ELSE pendingAgent
      BY <1>0, <1>1 DEF AcceptRun, held
    <2>2. ~queued => active = NoRun
      BY DEF MustQueue
    <2>3. queued => LaneOf[r] # "background"
      BY <1>1 DEF AcceptRun, MustQueue, Owed
    <2> HIDE DEF queued
    <2>4. ActiveSlot'
      BY <1>0, <1>s, <2>1, <2>2 DEF ActiveSlot, Running
    <2>5. ParkedSlot'
      BY <1>0, <1>s, <2>1 DEF ParkedSlot, InPhase, Running
    <2>6. QueuesHoldWaitingRuns'
      BY <1>0, <1>s, <2>1, <2>3 DEF QueuesHoldWaitingRuns, InPhase, Running
    <2>7. StrandInv'
      <3>1. \A o \in Runs : Terminal(o) => Terminal(o)'
        BY <2>1 DEF Terminal
      <3>2. \A o \in Runs : InPhase(o, "parked") => InPhase(o, "parked")' \/ Terminal(o)'
        BY <2>1 DEF InPhase, Running
      <3> QED
        BY <2>1, <2>2, <3>1, <3>2, CommandStep
    <2> QED
      BY <2>4, <2>5, <2>6, <2>7 DEF SlotInv, StrandInv
  <1>2. CASE ReplayAdmission(r) \/ FenceRunAdmission(r)
    BY <1>2, QuietStep DEF ReplayAdmission, FenceRunAdmission, held
  <1>3. CASE RecordUnadmittedFailure(r)
    <2>1. /\ run[r].status = "none" /\ run'[r].status = "failed"
          /\ \A o \in Runs \ {r} : run'[o] = run[o]
          /\ UNCHANGED <<active, parked, pendingUser, pendingAgent, executing, pc, tgt>>
      BY <1>0, <1>3 DEF RecordUnadmittedFailure, WithStatus, held
    <2>2. (ActiveSlot /\ ParkedSlot /\ QueuesHoldWaitingRuns)'
      BY <1>s, <2>1 DEF ActiveSlot, ParkedSlot, QueuesHoldWaitingRuns, InPhase, Running
    <2>3. StrandInv'
      <3>1. \A o \in Runs : Terminal(o) => Terminal(o)'
        BY <2>1 DEF Terminal
      <3>2. \A o \in Runs : InPhase(o, "parked") => InPhase(o, "parked")' \/ Terminal(o)'
        BY <2>1 DEF InPhase, Running
      <3> QED
        BY <2>1, <3>1, <3>2, CommandStep
    <2> QED
      BY <2>2, <2>3 DEF SlotInv, StrandInv
  <1>4. CASE StopRun(r)
    <2>1. /\ \A o \in Runs : run'[o].status = run[o].status /\ run'[o].phase = run[o].phase
          /\ UNCHANGED <<active, parked, pendingUser, pendingAgent, executing, pc, tgt>>
      BY <1>0, <1>4 DEF StopRun, WithStop, held
    <2>2. (ActiveSlot /\ ParkedSlot /\ QueuesHoldWaitingRuns)'
      BY <1>s, <2>1 DEF ActiveSlot, ParkedSlot, QueuesHoldWaitingRuns, InPhase, Running
    <2>3. StrandInv'
      <3>1. \A o \in Runs : Terminal(o) => Terminal(o)'
        BY <2>1 DEF Terminal
      <3>2. \A o \in Runs : InPhase(o, "parked") => InPhase(o, "parked")' \/ Terminal(o)'
        BY <2>1 DEF InPhase, Running
      <3> QED
        BY <2>1, <3>1, <3>2, CommandStep
    <2> QED
      BY <2>2, <2>3 DEF SlotInv, StrandInv
  <1> QED
    BY <1>1, <1>2, <1>3, <1>4 DEF Command

\* settleStoppedParkedRun gives the parked slot up with the run it settles.
LEMMA SettleStoppedSlots ==
  ASSUME TypeInv, SlotInv, NEW r \in Runs, SettleStoppedParkedRun(r)
  PROVE  SlotInv'
  <1>0. /\ run \in [Runs -> RunRecords] /\ NoRun \notin Runs
        /\ pc \in [Strands -> Places]
        /\ UNCHANGED <<executing, tgt>>
    BY RunsAssumption DEF TypeInv, TypeOK, SettleStoppedParkedRun, held
  <1>s. ActiveSlot /\ ParkedSlot /\ QueuesHoldWaitingRuns
    BY DEF SlotInv
  <1>1. CASE InPhase(r, "parked") /\ run[r].stop
    <2>1. parked = r /\ active # r
      BY <1>1, <1>s DEF ParkedSlot, ActiveSlot, InPhase
    <2>2. FailStoredRun(r) /\ pc' = Waking({r}, pc)
      BY <1>1 DEF SettleStoppedParkedRun
    <2>3. /\ run'[r].status = "cancelled"
          /\ \A o \in Runs \ {r} : run'[o] = run[o]
          /\ parked' = NoRun
          /\ UNCHANGED <<active, pendingUser, pendingAgent>>
      BY <1>0, <1>1, <2>1, <2>2
      DEF FailStoredRun, LeaveQueue, Settled, SettledAs, WithLog, WithStatus, InPhase, Running
    <2>4. \A o \in Strands : pc'[o] = pc[o] \/ (pc[o] = "watch" /\ pc'[o] = "loop")
      BY <1>0, <2>2, WakingType
    <2>5. (ActiveSlot /\ ParkedSlot /\ QueuesHoldWaitingRuns)'
      BY <1>0, <1>s, <1>1, <2>1, <2>3
      DEF ActiveSlot, ParkedSlot, QueuesHoldWaitingRuns, InPhase, Running
    <2>6. StrandInv'
      <3>1. \A o \in Runs : Terminal(o) => Terminal(o)'
        BY <2>3 DEF Terminal
      <3>2. \A o \in Runs : InPhase(o, "parked") => InPhase(o, "parked")' \/ Terminal(o)'
        BY <2>3 DEF InPhase, Running, Terminal
      <3> QED
        BY <1>0, <2>3, <2>4, <3>1, <3>2, CommandStep
    <2> QED
      BY <2>5, <2>6 DEF SlotInv, StrandInv
  <1>2. CASE ~(InPhase(r, "parked") /\ run[r].stop)
    BY <1>0, <1>2, QuietStep DEF SettleStoppedParkedRun
  <1> QED
    BY <1>1, <1>2

\* An eviction forgets every strand and keeps the storage.
LEMMA EvictSlots ==
  ASSUME TypeInv, SlotInv, Evict
  PROVE  SlotInv'
  <1>1. /\ UNCHANGED <<run, active, parked, pendingUser, pendingAgent>>
        /\ \A o \in Strands : pc'[o] = "idle"
    BY DEF Evict, slots
  <1>2. (ActiveSlot /\ ParkedSlot /\ QueuesHoldWaitingRuns)'
    BY <1>1 DEF SlotInv, ActiveSlot, ParkedSlot, QueuesHoldWaitingRuns, InPhase, Running
  <1>3. StrandInv'
    BY <1>1 DEF StrandInv, HolderIsActive, PromotedIsActive, RecoveryIsCurrent,
                UnparkIsCurrent, ParkIsFree, FinishedIsSettled, UnwoundIsAside, Holding,
                Executing
  <1> QED
    BY <1>2, <1>3 DEF SlotInv, StrandInv

-----------------------------------------------------------------------------
(* Recovery                                                                 *)

\* Where a strand stands after a Goto; the others stay where they are.
LEMMA Moved ==
  ASSUME TypeInv, NEW s \in Strands, NEW p, Goto(s, p)
  PROVE  pc'[s] = p /\ \A o \in Strands \ {s} : pc'[o] = pc[o]
  BY DEF Goto, TypeInv, TypeOK

\* recoverActiveRun takes up an active run only if nothing executes it, so
\* nothing is about to park it.
LEMMA ReadActiveSlots ==
  ASSUME TypeInv, SlotInv, NEW s \in Strands, ReadActive(s)
  PROVE  SlotInv'
  <1>1. UNCHANGED <<slots, executing>> /\ pc[s] = "recover"
    BY DEF ReadActive, held
  <1>2. CASE UNCHANGED tgt /\ \E p \in {"queued", "return"} : Goto(s, p)
    BY <1>1, <1>2, Moved, QuietStep DEF Watched, Holding, Executing
  <1>3. CASE /\ active # NoRun /\ active # executing
             /\ Goto(s, "recoverTx") /\ tgt' = [tgt EXCEPT ![s] = active]
    <2>1. /\ pc'[s] = "recoverTx" /\ \A o \in Strands \ {s} : pc'[o] = pc[o]
          /\ tgt'[s] = active /\ \A o \in Strands \ {s} : tgt'[o] = tgt[o]
      BY <1>3, Moved DEF TypeInv, TypeOK
    <2>2. \A o \in Strands : pc[o] \notin Holding /\ pc'[o] \notin Holding
      BY <1>3, <2>1, NoHolder DEF Holding, Executing
    <2>3. UNCHANGED <<run, active, parked, pendingUser, pendingAgent, executing>>
      BY <1>1 DEF slots
    <2>4. (ActiveSlot /\ ParkedSlot /\ QueuesHoldWaitingRuns)'
      BY <2>3 DEF SlotInv, ActiveSlot, ParkedSlot, QueuesHoldWaitingRuns, InPhase, Running
    <2>5. InOpenTurn => InOpenTurn'
      BY <2>2 DEF InOpenTurn, Holding, Executing
    <2>6. HolderIsActive' /\ PromotedIsActive' /\ ParkIsFree'
      BY <2>1, <2>2, <2>3
      DEF SlotInv, HolderIsActive, PromotedIsActive, ParkIsFree, Holding, Executing
    <2>7. RecoveryIsCurrent'
      BY <2>1, <2>2, <2>3 DEF SlotInv, RecoveryIsCurrent, Terminal, Holding, Executing
    <2>8. UnparkIsCurrent'
      BY <2>1, <2>5, <2>2 DEF SlotInv, UnparkIsCurrent, Holding, Executing
    <2>9. FinishedIsSettled'
      BY <2>1, <2>3 DEF SlotInv, FinishedIsSettled, Terminal
    <2>10. UnwoundIsAside'
      BY <2>1, <2>3, <2>5 DEF SlotInv, UnwoundIsAside, InPhase, Running, Terminal
    <2> QED
      BY <2>4, <2>6, <2>7, <2>8, <2>9, <2>10 DEF SlotInv
  <1> QED
    BY <1>2, <1>3 DEF ReadActive

\* recoverQueuedRun takes up a parked run only if this object is not still
\* unwinding the Turn that parked it.
LEMMA ReadQueueSlots ==
  ASSUME TypeInv, SlotInv, NEW s \in Strands, ReadQueue(s)
  PROVE  SlotInv'
  <1>1. /\ UNCHANGED <<slots, executing>> /\ pc[s] = "queued"
        /\ \A o \in Strands \ {s} : tgt'[o] = tgt[o]
    BY DEF ReadQueue, held, TypeInv, TypeOK
  <1>2. CASE \E p \in {"promote", "return"} : Goto(s, p)
    BY <1>1, <1>2, Moved, QuietStep DEF Watched, Holding, Executing
  <1>3. CASE /\ parked # NoRun /\ parked # executing
             /\ Goto(s, "unpark") /\ tgt' = [tgt EXCEPT ![s] = parked]
    <2>1. /\ pc'[s] = "unpark" /\ \A o \in Strands \ {s} : pc'[o] = pc[o]
          /\ tgt'[s] = parked /\ \A o \in Strands \ {s} : tgt'[o] = tgt[o]
      BY <1>3, Moved DEF TypeInv, TypeOK
    <2>2. UNCHANGED <<run, active, parked, pendingUser, pendingAgent, executing>>
      BY <1>1 DEF slots
    <2>3. (ActiveSlot /\ ParkedSlot /\ QueuesHoldWaitingRuns)'
      BY <2>2 DEF SlotInv, ActiveSlot, ParkedSlot, QueuesHoldWaitingRuns, InPhase, Running
    <2>4. InOpenTurn <=> InOpenTurn'
      BY <1>1, <2>1 DEF InOpenTurn
    <2>5. HolderIsActive' /\ PromotedIsActive'
      BY <1>1, <2>1, <2>2 DEF SlotInv, HolderIsActive, PromotedIsActive, Holding, Executing
    <2>6. RecoveryIsCurrent' /\ ParkIsFree' /\ FinishedIsSettled'
      BY <2>1, <2>2
      DEF SlotInv, RecoveryIsCurrent, ParkIsFree, FinishedIsSettled, Terminal
    <2>7. UnparkIsCurrent'
      <3>1. \A o \in Strands : pc[o] # "park"
        BY <1>3 DEF SlotInv, ParkIsFree
      <3>2. \A o \in Strands : pc[o] = "unwind" /\ tgt[o] = parked => InOpenTurn
        BY <1>3 DEF SlotInv, UnwoundIsAside
      <3> QED
        BY <2>1, <2>4, <3>1, <3>2 DEF SlotInv, UnparkIsCurrent
    <2>8. UnwoundIsAside'
      BY <2>1, <2>2, <2>4 DEF SlotInv, UnwoundIsAside, InPhase, Running, Terminal
    <2> QED
      BY <2>3, <2>5, <2>6, <2>7, <2>8 DEF SlotInv
  <1> QED
    BY <1>2, <1>3 DEF ReadQueue

\* A run that was in the active slot settles, and its strand goes to
\* notifySettled: whether recovery, its own Turn or a failure settles it.
LEMMA SettledSlots ==
  ASSUME TypeInv, SlotInv, NEW s \in Strands, tgt[s] \in Runs, active = tgt[s],
         \A o \in Strands \ {s} : pc[o] \notin Holding \cup {"promoted"},
         pc[s] \in {"recoverTx", "complete", "fail"},
         Terminal(tgt[s])', \A r \in Runs \ {tgt[s]} : run'[r] = run[r],
         active' = NoRun, Goto(s, "finish"),
         UNCHANGED <<parked, pendingUser, pendingAgent, executing, tgt>>
  PROVE  SlotInv'
  <1>0. /\ ActiveSlot /\ ParkedSlot /\ QueuesHoldWaitingRuns
        /\ Running(tgt[s]) /\ run[tgt[s]].phase \in {"admitted", "executing"}
        /\ NoRun \notin Runs
    BY RunsAssumption DEF SlotInv, ActiveSlot
  <1>1. pc'[s] = "finish" /\ \A o \in Strands \ {s} : pc'[o] = pc[o]
    BY Moved
  <1>2. \A o \in Strands : pc'[o] \notin Holding \cup {"promoted"}
    BY <1>1 DEF Holding, Executing
  <1>3. \A o \in Strands : pc[o] \in Watched => tgt[o] \in Runs
    BY DEF TypeInv, TargetsNamed, Targeting, Watched, Holding
  <1>4. (ActiveSlot /\ ParkedSlot /\ QueuesHoldWaitingRuns)'
    BY <1>0 DEF ActiveSlot, ParkedSlot, QueuesHoldWaitingRuns, InPhase, Running, Terminal
  <1>5. InOpenTurn => InOpenTurn'
    BY DEF InOpenTurn, Holding, Executing
  <1>6. HolderIsActive' /\ PromotedIsActive' /\ ParkIsFree'
    BY <1>2 DEF HolderIsActive, PromotedIsActive, ParkIsFree, Holding, Executing
  <1>7. \A r \in Runs : Terminal(r) => Terminal(r)'
    BY DEF Terminal
  <1>8. RecoveryIsCurrent'
    <2> SUFFICES ASSUME NEW o \in Strands, pc'[o] = "recoverTx"
                 PROVE  Terminal(tgt[o])'
      BY <1>2 DEF RecoveryIsCurrent, Terminal, Holding, Executing
    <2>1. pc[o] = "recoverTx" /\ tgt[o] \in Runs
      BY <1>1, <1>3 DEF Watched
    <2> QED
      BY <1>7, <2>1 DEF SlotInv, RecoveryIsCurrent
  <1>9. UnparkIsCurrent'
    BY <1>1, <1>2, <1>5 DEF SlotInv, UnparkIsCurrent, Holding, Executing
  <1>10. FinishedIsSettled'
    <2> SUFFICES ASSUME NEW o \in Strands \ {s}, pc'[o] = "finish"
                 PROVE  Terminal(tgt[o])'
      BY DEF FinishedIsSettled, Terminal
    <2>1. pc[o] = "finish" /\ tgt[o] \in Runs
      BY <1>1, <1>3 DEF Watched
    <2> QED
      BY <1>7, <2>1 DEF SlotInv, FinishedIsSettled
  <1>11. UnwoundIsAside'
    <2> SUFFICES ASSUME NEW u \in Strands \ {s}, pc[u] = "unwind"
                 PROVE  /\ InPhase(tgt[u], "parked")' \/ Terminal(tgt[u])'
                        /\ executing' = tgt'[u] \/ InOpenTurn'
                        /\ \A o \in Strands \ {u} :
                             pc'[o] \in {"finish", "unwind"} => tgt'[o] # tgt'[u]
      BY <1>1 DEF UnwoundIsAside, InPhase, Running, Terminal
    <2>1. /\ InPhase(tgt[u], "parked") \/ Terminal(tgt[u])
          /\ executing = tgt[u] \/ InOpenTurn
          /\ \A o \in Strands \ {u} : pc[o] \in {"finish", "unwind"} => tgt[o] # tgt[u]
      BY DEF SlotInv, UnwoundIsAside
    <2>2. tgt[u] # tgt[s] /\ tgt[u] \in Runs
      BY <1>0, <1>3, <2>1 DEF InPhase, Running, Terminal, Watched
    <2> QED
      BY <1>1, <1>5, <2>1, <2>2 DEF InPhase, Running, Terminal
  <1> QED
    BY <1>4, <1>6, <1>8, <1>9, <1>10, <1>11 DEF SlotInv

\* A strand takes a run up: the slot was free or the run's own, and the strand
\* is in the Turn, marked executing, before anything else runs.
LEMMA TakenUp ==
  ASSUME TypeInv, SlotInv, NEW s \in Strands, NEW r \in Runs,
         NEW p \in {"start", "turn"}, Goto(s, p),
         tgt'[s] = r, \A o \in Strands \ {s} : tgt'[o] = tgt[o],
         \A o \in Strands \ {s} : pc[o] \notin Holding \cup {"promoted"},
         Running(r), run[r].phase # "parked",
         \A o \in Runs \ {r} : run'[o] = run[o],
         active \in {r, NoRun}, active' = r, executing' = r
  PROVE  StrandInv'
  <1>1. /\ pc'[s] = p /\ \A o \in Strands \ {s} : pc'[o] = pc[o]
        /\ pc'[s] # "promoted"
        /\ \A o \in Strands \ {s} : pc'[o] \notin Holding \cup {"promoted"}
        /\ NoRun \notin Runs
    BY Moved, RunsAssumption
  <1>2. \A o \in Strands : pc[o] \in Watched => tgt[o] \in Runs
    BY DEF TypeInv, TargetsNamed, Targeting, Watched, Holding
  <1>3. InOpenTurn'
    BY <1>1 DEF InOpenTurn
  <1>4. HolderIsActive' /\ PromotedIsActive' /\ ParkIsFree'
    BY <1>1 DEF HolderIsActive, PromotedIsActive, ParkIsFree, Holding, Executing
  <1>5. RecoveryIsCurrent'
    <2> SUFFICES ASSUME NEW o \in Strands \ {s}, pc[o] = "recoverTx"
                 PROVE  tgt[o] = active' \/ Terminal(tgt[o])'
      BY <1>1 DEF RecoveryIsCurrent, Terminal, Holding, Executing
    <2>1. tgt[o] \in Runs /\ (tgt[o] = active \/ Terminal(tgt[o]))
      BY <1>2 DEF SlotInv, RecoveryIsCurrent, Watched
    <2> QED
      BY <1>1, <2>1 DEF Terminal, Running
  <1>6. UnparkIsCurrent'
    BY <1>1, <1>3 DEF UnparkIsCurrent, Holding, Executing
  <1>7. FinishedIsSettled'
    <2> SUFFICES ASSUME NEW o \in Strands \ {s}, pc[o] = "finish"
                 PROVE  Terminal(tgt[o])'
      BY <1>1 DEF FinishedIsSettled, Terminal
    <2>1. tgt[o] \in Runs /\ Terminal(tgt[o])
      BY <1>2 DEF SlotInv, FinishedIsSettled, Watched
    <2> QED
      BY <2>1 DEF Terminal, Running
  <1>8. UnwoundIsAside'
    <2> SUFFICES ASSUME NEW u \in Strands \ {s}, pc[u] = "unwind"
                 PROVE  /\ InPhase(tgt[u], "parked")' \/ Terminal(tgt[u])'
                        /\ \A o \in Strands \ {u} :
                             pc'[o] \in {"finish", "unwind"} => tgt'[o] # tgt'[u]
      BY <1>1, <1>3 DEF UnwoundIsAside, InPhase, Running, Terminal
    <2>1. /\ tgt[u] \in Runs /\ (InPhase(tgt[u], "parked") \/ Terminal(tgt[u]))
          /\ \A o \in Strands \ {u} : pc[o] \in {"finish", "unwind"} => tgt[o] # tgt[u]
      BY <1>2 DEF SlotInv, UnwoundIsAside, Watched
    <2> QED
      BY <1>1, <2>1 DEF InPhase, Running, Terminal
  <1> QED
    BY <1>4, <1>5, <1>6, <1>7, <1>8 DEF StrandInv

\* recoverActiveRun settles, restarts or resumes the active run.
LEMMA RecoverActiveSlots ==
  ASSUME TypeInv, SlotInv, NEW s \in Strands, RecoverActiveRun(s)
  PROVE  SlotInv'
  <1> DEFINE r == tgt[s]
  <1>0. /\ run \in [Runs -> RunRecords] /\ NoRun \notin Runs
        /\ pc[s] = "recoverTx" /\ r \in Runs
        /\ ActiveSlot /\ ParkedSlot /\ QueuesHoldWaitingRuns
        /\ tgt \in [Strands -> Runs \cup {NoRun}]
    BY RunsAssumption
    DEF TypeInv, TypeOK, TargetsNamed, Targeting, RecoverActiveRun, SlotInv
  <1>1. CASE UNCHANGED <<slots, held>> /\ \E p \in {"return", "threw"} : Goto(s, p)
    <2>1. \A o \in Strands \ {s} : tgt'[o] = tgt[o]
      BY <1>0 DEF RecoverActiveRun, ForgetTarget
    <2> QED
      BY <1>0, <1>1, <2>1, Moved, QuietStep DEF Watched, Holding, Executing, held
  <1>2. CASE ~NothingToRecover /\ Running(r)
    <2>1. /\ active = r /\ active # executing
          /\ run[r].phase \in {"admitted", "executing"}
          /\ \A o \in Strands : pc[o] \notin Holding \cup {"promoted"}
      <3>1. active = r
        BY <1>0, <1>2 DEF SlotInv, RecoveryIsCurrent, Terminal, Running
      <3>2. \A o \in Strands : pc[o] # "promoted"
        BY <3>1 DEF RecoverActiveRun, ReadsAreAnswered, SlotInv, PromotedIsActive
      <3> QED
        BY <1>0, <1>2, <3>1, <3>2, NoHolder DEF NothingToRecover, ActiveSlot
    <2>2. CASE /\ FailStoredRun(r) \/ CompleteStoredRun(r)
               /\ Goto(s, "finish") /\ UNCHANGED held
      <3>1. UNCHANGED <<executing, tgt>>
        <4>1. pc'[s] = "finish"
          BY <2>2, Moved
        <4> QED
          BY <2>2, <4>1 DEF RecoverActiveRun, ForgetTarget, Targeting, held
      <3>2. /\ Terminal(r)' /\ \A o \in Runs \ {r} : run'[o] = run[o]
            /\ active' = NoRun /\ UNCHANGED <<parked, pendingUser, pendingAgent>>
        <4>1. /\ Settled(r, "failed").status \in {"failed", "cancelled"}
              /\ Settled(r, "completed").status \in {"completed", "cancelled"}
          BY DEF Settled, SettledAs, WithLog, WithStatus
        <4>2. CASE FailStoredRun(r)
          BY <1>0, <1>2, <2>1, <3>1, <4>1, <4>2 DEF FailStoredRun, LeaveQueue, Running, Terminal
        <4>3. CASE CompleteStoredRun(r)
          BY <1>0, <3>1, <4>1, <4>3 DEF CompleteStoredRun, Terminal
        <4> QED
          BY <2>2, <4>2, <4>3
      <3> QED
        BY <1>0, <2>1, <2>2, <3>1, <3>2, SettledSlots
    <2>3. CASE /\ \/ /\ run' = [run EXCEPT ![r] =
                                  WithLog(WithPhase(run[r], "admitted"), "quiet")]
                     /\ Goto(s, "start")
                  \/ /\ run' = [run EXCEPT ![r] = WithPhase(run[r], "executing")]
                     /\ Goto(s, "turn")
               /\ executing' = r
               /\ UNCHANGED <<active, parked, pendingUser, pendingAgent>>
      <3>1. /\ run'[r].status = "running" /\ run'[r].phase \in {"admitted", "executing"}
            /\ \A o \in Runs \ {r} : run'[o] = run[o]
        BY <1>0, <1>2, <2>3 DEF WithLog, WithPhase, Running
      <3>2. (ActiveSlot /\ ParkedSlot /\ QueuesHoldWaitingRuns)'
        BY <1>0, <2>1, <2>3, <3>1
        DEF ActiveSlot, ParkedSlot, QueuesHoldWaitingRuns, InPhase, Running
      <3>3. PICK p \in {"start", "turn"} : Goto(s, p)
        BY <2>3
      <3>4. UNCHANGED tgt
        <4>1. pc'[s] = p
          BY <3>3, Moved
        <4> QED
          BY <4>1 DEF RecoverActiveRun, ForgetTarget, Targeting, Executing
      <3>5. StrandInv'
        BY <1>0, <1>2, <2>1, <2>3, <3>1, <3>3, <3>4, TakenUp
      <3> QED
        BY <3>2, <3>5 DEF SlotInv, StrandInv
    <2>4. ~(active # r)
      BY <2>1
    <2> QED
      BY <1>2, <2>2, <2>3, <2>4 DEF RecoverActiveRun
  <1> QED
    BY <1>1, <1>2 DEF RecoverActiveRun

\* Recovery promotes a run: the slot was free, so no strand was in a Turn, and
\* until the run is read none is.
LEMMA JustPromoted ==
  ASSUME TypeInv, SlotInv, NEW s \in Strands, pc[s] = "promote",
         NEW r \in Runs, tgt[s] = r, UNCHANGED <<tgt, executing>>,
         Goto(s, "promoted"),
         \A o \in Strands : pc[o] \notin Holding \cup {"promoted"},
         Running(r), run[r].phase = "queued",
         \A o \in Runs \ {r} : run'[o] = run[o],
         active = NoRun, active' = r
  PROVE  StrandInv'
  <1>1. /\ pc'[s] = "promoted" /\ \A o \in Strands \ {s} : pc'[o] = pc[o]
        /\ \A o \in Strands : pc'[o] \notin Holding
        /\ NoRun \notin Runs
    BY Moved, RunsAssumption DEF Holding, Executing
  <1>2. \A o \in Strands : pc[o] \in Watched => tgt[o] \in Runs
    BY DEF TypeInv, TargetsNamed, Targeting, Watched, Holding
  <1>3. ~InOpenTurn
    BY DEF InOpenTurn, Holding, Executing
  <1>4. HolderIsActive' /\ PromotedIsActive' /\ ParkIsFree'
    BY <1>1 DEF HolderIsActive, PromotedIsActive, ParkIsFree, Holding, Executing
  <1>5. RecoveryIsCurrent'
    <2> SUFFICES ASSUME NEW o \in Strands \ {s}, pc[o] = "recoverTx"
                 PROVE  Terminal(tgt[o])'
      BY <1>1 DEF RecoveryIsCurrent, Terminal, Holding, Executing
    <2>1. tgt[o] \in Runs /\ Terminal(tgt[o])
      BY <1>1, <1>2 DEF SlotInv, RecoveryIsCurrent, Watched
    <2> QED
      BY <2>1 DEF Terminal, Running
  <1>6. UnparkIsCurrent'
    BY <1>1, <1>3 DEF SlotInv, UnparkIsCurrent, Holding, Executing
  <1>7. FinishedIsSettled'
    <2> SUFFICES ASSUME NEW o \in Strands \ {s}, pc[o] = "finish"
                 PROVE  Terminal(tgt[o])'
      BY <1>1 DEF FinishedIsSettled, Terminal
    <2>1. tgt[o] \in Runs /\ Terminal(tgt[o])
      BY <1>2 DEF SlotInv, FinishedIsSettled, Watched
    <2> QED
      BY <2>1 DEF Terminal, Running
  <1>8. UnwoundIsAside'
    <2> SUFFICES ASSUME NEW u \in Strands \ {s}, pc[u] = "unwind"
                 PROVE  /\ InPhase(tgt[u], "parked")' \/ Terminal(tgt[u])'
                        /\ executing' = tgt'[u]
                        /\ \A o \in Strands \ {u} :
                             pc'[o] \in {"finish", "unwind"} => tgt'[o] # tgt'[u]
      BY <1>1 DEF UnwoundIsAside, InPhase, Running, Terminal
    <2>1. /\ tgt[u] \in Runs /\ (InPhase(tgt[u], "parked") \/ Terminal(tgt[u]))
          /\ executing = tgt[u]
          /\ \A o \in Strands \ {u} : pc[o] \in {"finish", "unwind"} => tgt[o] # tgt[u]
      BY <1>2, <1>3 DEF SlotInv, UnwoundIsAside, Watched
    <2> QED
      BY <1>1, <2>1 DEF InPhase, Running, Terminal
  <1> QED
    BY <1>4, <1>5, <1>6, <1>7, <1>8 DEF StrandInv

\* promoteQueuedRun hands a free slot to the run at the head of its queue.
LEMMA PromoteSlots ==
  ASSUME TypeInv, SlotInv, NEW s \in Strands, PromoteQueuedRun(s)
  PROVE  SlotInv'
  <1> DEFINE r == tgt[s]
  <1>0. /\ run \in [Runs -> RunRecords] /\ NoRun \notin Runs
        /\ pc[s] = "promote" /\ r \in Runs
        /\ ActiveSlot /\ ParkedSlot /\ QueuesHoldWaitingRuns
        /\ tgt \in [Strands -> Runs \cup {NoRun}]
        /\ UNCHANGED parked
    BY RunsAssumption
    DEF TypeInv, TypeOK, TargetsNamed, Targeting, PromoteQueuedRun, SlotInv
  <1>1. /\ pendingUser' = IF NotQueued(r) \/ Blocked(r) THEN pendingUser
                                                        ELSE pendingUser \ {r}
        /\ pendingAgent' = IF NotQueued(r) \/ Blocked(r) THEN pendingAgent
                                                         ELSE pendingAgent \ {r}
    BY NothingToPrune DEF PromoteQueuedRun, Dequeued
  <1>2. \A o \in Strands \ {s} : tgt'[o] = tgt[o]
    BY <1>0 DEF PromoteQueuedRun, ForgetTarget
  <1>3. CASE NotQueued(r) \/ Blocked(r)
    <2>1. UNCHANGED <<slots, executing>>
      BY <1>0, <1>1, <1>3 DEF PromoteQueuedRun, slots, held
    <2>2. \E p \in {"queued", "return", "idle", "recover"} : Goto(s, p)
      BY <1>3 DEF PromoteQueuedRun, CallerLeaves
    <2> QED
      BY <1>0, <1>2, <2>1, <2>2, Moved, QuietStep DEF Watched, Holding, Executing
  <1>4. CASE ~NotQueued(r) /\ ~Blocked(r)
    <2>1. /\ run' = [run EXCEPT ![r] = WithPhase(run[r], "admitted")]
          /\ active' = r
          /\ \/ executing' = r /\ Goto(s, "start")
             \/ UNCHANGED executing /\ Goto(s, "promoted")
      BY <1>4 DEF PromoteQueuedRun, held
    <2>2. /\ active = NoRun /\ Running(r) /\ run[r].phase = "queued"
          /\ \A o \in Strands : pc[o] \notin Holding \cup {"promoted"}
      BY <1>4, NoHolder DEF NotQueued, Blocked, InPhase
    <2>3. /\ run'[r].status = "running" /\ run'[r].phase = "admitted"
          /\ \A o \in Runs \ {r} : run'[o] = run[o]
      BY <1>0, <2>1, <2>2 DEF WithPhase, Running
    <2>4. ActiveSlot' /\ ParkedSlot'
      BY <1>0, <2>1, <2>2, <2>3 DEF ActiveSlot, ParkedSlot, InPhase, Running
    <2>5. QueuesHoldWaitingRuns'
      BY <1>0, <1>1, <1>4, <2>3 DEF QueuesHoldWaitingRuns, InPhase, Running
    <2>6. UNCHANGED tgt
      <3>1. pc'[s] \in {"start", "promoted"}
        BY <2>1, Moved
      <3> QED
        BY <3>1 DEF PromoteQueuedRun, ForgetTarget, Targeting, Executing
    <2>7. StrandInv'
      <3>1. CASE executing' = r /\ Goto(s, "start")
        BY <1>0, <2>1, <2>2, <2>3, <2>6, <3>1, TakenUp
      <3>2. CASE UNCHANGED executing /\ Goto(s, "promoted")
        BY <1>0, <2>1, <2>2, <2>3, <2>6, <3>2, JustPromoted
      <3> QED
        BY <2>1, <3>1, <3>2
    <2> QED
      BY <2>4, <2>5, <2>7 DEF SlotInv, StrandInv
  <1> QED
    BY <1>3, <1>4

\* recoverQueuedRun executes the run it promoted, which nobody took up while
\* it read it; a read that throws leaves the run in the slot, to recovery.
LEMMA ExecutePromotedSlots ==
  ASSUME TypeInv, SlotInv, NEW s \in Strands, ExecutePromoted(s)
  PROVE  SlotInv'
  <1> DEFINE r == tgt[s]
  <1>0. /\ pc[s] = "promoted" /\ r \in Runs /\ UNCHANGED slots
        /\ tgt \in [Strands -> Runs \cup {NoRun}]
        /\ \A o \in Strands \ {s} : tgt'[o] = tgt[o]
    BY DEF TypeInv, TypeOK, TargetsNamed, Targeting, ExecutePromoted, ForgetTarget
  <1>1. /\ r = active /\ \A o \in Strands \ {s} : pc[o] \notin Holding \cup {"promoted"}
    BY <1>0 DEF SlotInv, PromotedIsActive
  <1>2. CASE Goto(s, "threw") /\ UNCHANGED held
    BY <1>0, <1>2, Moved, QuietStep DEF Watched, Holding, Executing, held
  <1>3. CASE Goto(s, "start") /\ executing' = r
    <2>1. Running(r) /\ run[r].phase # "parked"
      BY <1>0, <1>1 DEF SlotInv, ActiveSlot
    <2>2. UNCHANGED <<run, active, parked, pendingUser, pendingAgent>>
      BY <1>0 DEF slots
    <2>3. (ActiveSlot /\ ParkedSlot /\ QueuesHoldWaitingRuns)'
      BY <2>2 DEF SlotInv, ActiveSlot, ParkedSlot, QueuesHoldWaitingRuns, InPhase, Running
    <2>4. tgt'[s] = r
      <3>1. pc'[s] = "start"
        BY <1>3, Moved
      <3> QED
        BY <3>1 DEF ExecutePromoted, ForgetTarget, Targeting, Executing
    <2>5. StrandInv'
      BY <1>0, <1>1, <1>3, <2>1, <2>2, <2>4, TakenUp
    <2> QED
      BY <2>3, <2>5 DEF SlotInv, StrandInv
  <1> QED
    BY <1>2, <1>3 DEF ExecutePromoted

\* unparkRun moves the parked run to a free active slot.  The strand that
\* parked it is out of its Turn, or another Turn would hold the slot.
LEMMA UnparkSlots ==
  ASSUME TypeInv, SlotInv, NEW s \in Strands, UnparkRun(s)
  PROVE  SlotInv'
  <1> DEFINE r == tgt[s]
  <1>0. /\ run \in [Runs -> RunRecords] /\ NoRun \notin Runs
        /\ pc[s] = "unpark" /\ r \in Runs
        /\ ActiveSlot /\ ParkedSlot /\ QueuesHoldWaitingRuns
        /\ tgt \in [Strands -> Runs \cup {NoRun}]
        /\ UNCHANGED executing
    BY RunsAssumption
    DEF TypeInv, TypeOK, TargetsNamed, Targeting, UnparkRun, SlotInv, held
  <1>1. \A o \in Strands \ {s} : tgt'[o] = tgt[o]
    BY <1>0 DEF UnparkRun, ForgetTarget
  <1>2. PICK p \in {"queued", "return", "recover"} : Goto(s, p)
    BY DEF UnparkRun
  <1>3. CASE parked # r \/ UnparkBlocked
    <2>1. UNCHANGED slots
      BY <1>3, NothingToPrune DEF UnparkRun, slots
    <2> QED
      BY <1>0, <1>1, <1>2, <2>1, Moved, QuietStep DEF Watched, Holding, Executing
  <1>4. CASE parked = r /\ ~UnparkBlocked
    <2>1. active = NoRun /\ Running(r) /\ run[r].phase = "parked"
      BY <1>0, <1>4 DEF UnparkBlocked, ParkedSlot, InPhase
    <2>2. /\ run' = [run EXCEPT ![r] = WithPhase(run[r], "admitted")]
          /\ active' = r /\ parked' = NoRun
          /\ UNCHANGED <<pendingUser, pendingAgent>>
      BY <1>4, <2>1, NothingToPrune DEF UnparkRun, InPhase
    <2>3. /\ run'[r].status = "running" /\ run'[r].phase = "admitted"
          /\ \A o \in Runs \ {r} : run'[o] = run[o]
      BY <1>0, <2>1, <2>2 DEF WithPhase, Running
    <2>4. (ActiveSlot /\ ParkedSlot /\ QueuesHoldWaitingRuns)'
      BY <1>0, <1>4, <2>1, <2>2, <2>3
      DEF ActiveSlot, ParkedSlot, QueuesHoldWaitingRuns, InPhase, Running
    <2>5. /\ ~InOpenTurn
          /\ \A o \in Strands : pc[o] \notin Holding /\ pc'[o] \notin Holding
          /\ \A o \in Strands : pc'[o] # "promoted"
          /\ pc'[s] = p /\ \A o \in Strands \ {s} : pc'[o] = pc[o]
      BY <1>2, <2>1, NoHolder, Moved DEF Holding, Executing
    <2>6. \A o \in Strands : pc[o] = "unwind" => tgt[o] # r
      BY <1>0, <2>5 DEF SlotInv, UnparkIsCurrent
    <2>7. \A o \in Strands : pc[o] \in Watched => tgt[o] \in Runs
      BY DEF TypeInv, TargetsNamed, Targeting, Watched, Holding
    <2>8. HolderIsActive' /\ PromotedIsActive' /\ ParkIsFree'
      BY <2>5 DEF HolderIsActive, PromotedIsActive, ParkIsFree, Holding, Executing
    <2>9. RecoveryIsCurrent'
      <3> SUFFICES ASSUME NEW o \in Strands \ {s}, pc[o] = "recoverTx"
                   PROVE  Terminal(tgt[o])'
        BY <1>1, <2>5 DEF RecoveryIsCurrent, Terminal, Holding, Executing
      <3>1. tgt[o] \in Runs /\ Terminal(tgt[o])
        BY <1>0, <2>1, <2>7 DEF SlotInv, RecoveryIsCurrent, Watched
      <3> QED
        BY <1>1, <2>1, <2>3, <3>1 DEF Terminal, Running
    <2>10. UnparkIsCurrent'
      BY <1>1, <2>5 DEF SlotInv, UnparkIsCurrent, Holding, Executing
    <2>11. FinishedIsSettled'
      <3> SUFFICES ASSUME NEW o \in Strands \ {s}, pc[o] = "finish"
                   PROVE  Terminal(tgt[o])'
        BY <1>1, <2>5 DEF FinishedIsSettled, Terminal
      <3>1. tgt[o] \in Runs /\ Terminal(tgt[o])
        BY <2>7 DEF SlotInv, FinishedIsSettled, Watched
      <3> QED
        BY <1>1, <2>1, <2>3, <3>1 DEF Terminal, Running
    <2>12. UnwoundIsAside'
      <3> SUFFICES ASSUME NEW u \in Strands \ {s}, pc[u] = "unwind"
                   PROVE  /\ InPhase(tgt[u], "parked")' \/ Terminal(tgt[u])'
                          /\ executing' = tgt'[u]
                          /\ \A o \in Strands \ {u} :
                               pc'[o] \in {"finish", "unwind"} => tgt'[o] # tgt'[u]
        BY <1>1, <2>5 DEF UnwoundIsAside, InPhase, Running, Terminal
      <3>1. /\ tgt[u] \in Runs /\ (InPhase(tgt[u], "parked") \/ Terminal(tgt[u]))
            /\ executing = tgt[u]
            /\ \A o \in Strands \ {u} : pc[o] \in {"finish", "unwind"} => tgt[o] # tgt[u]
        BY <2>5, <2>7 DEF SlotInv, UnwoundIsAside, Watched
      <3> QED
        BY <1>0, <1>1, <2>3, <2>5, <2>6, <3>1 DEF InPhase, Running, Terminal
    <2> QED
      BY <2>4, <2>8, <2>9, <2>10, <2>11, <2>12 DEF SlotInv
  <1> QED
    BY <1>3, <1>4

-----------------------------------------------------------------------------
(* Turns                                                                    *)

\* A strand stays in the Turn of its run and out of the two places, start and
\* turn, that others may rely on; or nobody relies on them.
LEMMA StaysHolding ==
  ASSUME TypeInv, SlotInv, NEW s \in Strands, pc[s] \in Holding,
         NEW p \in Holding, Goto(s, p), UNCHANGED <<tgt, active, parked, executing>>,
         \A o \in Runs \ {tgt[s]} : run'[o] = run[o],
         \/ pc[s] \notin {"start", "turn"} \/ p \in {"start", "turn"}
         \/ TurnMayStep(s),
         p = "park" => parked = NoRun /\ TurnMayStep(s)
  PROVE  StrandInv'
  <1>0. /\ tgt[s] \in Runs /\ tgt[s] = active /\ tgt[s] = executing
        /\ \A o \in Strands \ {s} : pc[o] \notin Holding
        /\ \A o \in Strands : pc[o] # "promoted"
        /\ \A o \in Strands : pc[o] \in {"finish", "unwind"} => tgt[o] # tgt[s]
        /\ Running(tgt[s])
    BY HolderFacts
  <1>1. pc'[s] = p /\ \A o \in Strands \ {s} : pc'[o] = pc[o]
    BY Moved
  <1>2. \A o \in Strands : pc[o] \in Watched => tgt[o] \in Runs
    BY DEF TypeInv, TargetsNamed, Targeting, Watched, Holding
  <1>3. HolderIsActive' /\ PromotedIsActive' /\ ParkIsFree'
    BY <1>0, <1>1 DEF HolderIsActive, PromotedIsActive, ParkIsFree, Holding, Executing
  <1>4. p = "park" => \A o \in Strands : pc'[o] \notin {"recoverTx", "unpark"}
    BY <1>1 DEF TurnMayStep, Queueing
  <1>5. RecoveryIsCurrent'
    <2> SUFFICES ASSUME NEW o \in Strands \ {s}, pc[o] = "recoverTx"
                 PROVE  /\ tgt[o] = active \/ Terminal(tgt[o])'
                        /\ \A u \in Strands : pc'[u] = "park" => tgt[u] # tgt[o]
      BY <1>1 DEF RecoveryIsCurrent, Terminal, Holding, Executing
    <2>1. tgt[o] \in Runs /\ (tgt[o] = active \/ Terminal(tgt[o]))
      BY <1>2 DEF SlotInv, RecoveryIsCurrent, Watched
    <2>2. \A u \in Strands : pc'[u] # "park"
      BY <1>0, <1>1, <1>4 DEF Holding, Executing
    <2> QED
      BY <1>0, <2>1, <2>2 DEF Terminal, Running
  <1>6. (\E o \in Strands : pc[o] = "unwind") => (InOpenTurn => InOpenTurn')
    <2>1. CASE TurnMayStep(s)
      BY <2>1 DEF TurnMayStep, Queueing, Holding, Executing
    <2>2. CASE pc[s] \notin {"start", "turn"} \/ p \in {"start", "turn"}
      BY <1>0, <1>1, <2>2 DEF InOpenTurn, Holding, Executing
    <2> QED
      BY <2>1, <2>2
  <1>7. UnparkIsCurrent'
    BY <1>0, <1>1, <1>4, <1>6 DEF SlotInv, UnparkIsCurrent, Holding, Executing
  <1>8. FinishedIsSettled'
    <2> SUFFICES ASSUME NEW o \in Strands \ {s}, pc[o] = "finish"
                 PROVE  Terminal(tgt[o])'
      BY <1>1 DEF FinishedIsSettled, Terminal, Holding, Executing
    <2> QED
      BY <1>0, <1>2 DEF SlotInv, FinishedIsSettled, Watched, Terminal
  <1>9. UnwoundIsAside'
    <2> SUFFICES ASSUME NEW u \in Strands \ {s}, pc[u] = "unwind"
                 PROVE  /\ InPhase(tgt[u], "parked")' \/ Terminal(tgt[u])'
                        /\ executing' = tgt'[u] \/ InOpenTurn'
                        /\ \A o \in Strands \ {u} :
                             pc'[o] \in {"finish", "unwind"} => tgt'[o] # tgt'[u]
      BY <1>1 DEF UnwoundIsAside, InPhase, Running, Terminal, Holding, Executing
    <2>1. /\ tgt[u] \in Runs /\ (InPhase(tgt[u], "parked") \/ Terminal(tgt[u]))
          /\ executing = tgt[u] \/ InOpenTurn
          /\ \A o \in Strands \ {u} : pc[o] \in {"finish", "unwind"} => tgt[o] # tgt[u]
          /\ tgt[u] # tgt[s]
      BY <1>0, <1>2 DEF SlotInv, UnwoundIsAside, Watched
    <2> QED
      BY <1>1, <1>6, <2>1 DEF InPhase, Running, Terminal, Holding, Executing
  <1> QED
    BY <1>3, <1>5, <1>7, <1>8, <1>9 DEF StrandInv

\* The slots stay exact when a run at work is written, still at work.
LEMMA StillAtWork ==
  ASSUME TypeInv, SlotInv, UNCHANGED <<active, parked, pendingUser, pendingAgent>>,
         NEW r \in Runs, active = r,
         run'[r].status = "running", run'[r].phase \in {"admitted", "executing"},
         \A o \in Runs \ {r} : run'[o] = run[o]
  PROVE  (ActiveSlot /\ ParkedSlot /\ QueuesHoldWaitingRuns)'
  BY RunsAssumption
  DEF SlotInv, ActiveSlot, ParkedSlot, QueuesHoldWaitingRuns, InPhase, Running

\* executeAdmittedRun's first transaction and deferRunRecovery leave the run
\* at work and in the hands of the strand.
LEMMA StartOrDeferSlots ==
  ASSUME TypeInv, SlotInv, NEW s \in Strands, StartRun(s) \/ DeferRunRecovery(s)
  PROVE  SlotInv'
  <1>0. /\ run \in [Runs -> RunRecords] /\ pc[s] \in Holding
        /\ UNCHANGED <<active, parked, pendingUser, pendingAgent, executing, tgt>>
    BY DEF TypeInv, TypeOK, StartRun, DeferRunRecovery, Holding, Executing, held
  <1>1. /\ tgt[s] \in Runs /\ tgt[s] = active /\ tgt[s] = executing /\ Running(tgt[s])
    BY <1>0, HolderFacts
  <1>2. run' = [run EXCEPT ![tgt[s]] = WithPhase(run[tgt[s]], "executing")]
    BY <1>1 DEF StartRun, DeferRunRecovery
  <1>3. /\ run'[tgt[s]].status = "running" /\ run'[tgt[s]].phase = "executing"
        /\ \A o \in Runs \ {tgt[s]} : run'[o] = run[o]
    BY <1>0, <1>1, <1>2 DEF WithPhase, Running
  <1>4. (ActiveSlot /\ ParkedSlot /\ QueuesHoldWaitingRuns)'
    BY <1>0, <1>1, <1>3, StillAtWork
  <1>5. \/ pc[s] = "start" /\ Goto(s, "turn")
        \/ pc[s] = "defer" /\ Goto(s, "unwindThrow")
    BY <1>1 DEF StartRun, DeferRunRecovery
  <1>6. StrandInv'
    BY <1>0, <1>3, <1>5, StaysHolding DEF Holding, Executing
  <1> QED
    BY <1>4, <1>6 DEF SlotInv, StrandInv

\* The steps of a Turn leave it with its strand.  A strand enters parkRun only
\* while nobody has a transaction queued that read the slots before.
LEMMA TurnSlots ==
  ASSUME TypeInv, SlotInv, NEW s \in Strands, Turn(s)
  PROVE  SlotInv'
  <1>0. /\ run \in [Runs -> RunRecords] /\ pc[s] = "turn" /\ TurnMayStep(s)
        /\ UNCHANGED <<active, parked, pendingUser, pendingAgent, executing, tgt>>
        /\ pc[s] \in Holding /\ pc \in [Strands -> Places]
    BY DEF TypeInv, TypeOK, Turn, JournalIntent, AdmitRunEffect, JournalOutcome, EndTurn,
           LeaveTurnOpen, InTurn, Journal, slots, held, Holding, Executing
  <1>1. /\ tgt[s] \in Runs /\ tgt[s] = active /\ tgt[s] = executing /\ Running(tgt[s])
        /\ run[tgt[s]].phase \in {"admitted", "executing"}
    BY <1>0, HolderFacts
  <1>2. /\ run'[tgt[s]].status = "running"
        /\ run'[tgt[s]].phase = run[tgt[s]].phase
        /\ \A o \in Runs \ {tgt[s]} : run'[o] = run[o]
    <2>1. \/ UNCHANGED run
          \/ \E l \in Journals : run' = [run EXCEPT ![tgt[s]] = WithLog(run[tgt[s]], l)]
      BY DEF Turn, JournalIntent, AdmitRunEffect, JournalOutcome, EndTurn, LeaveTurnOpen,
             Journal, slots, Journals
    <2> QED
      BY <1>0, <1>1, <2>1 DEF WithLog, Running
  <1>3. (ActiveSlot /\ ParkedSlot /\ QueuesHoldWaitingRuns)'
    BY <1>0, <1>1, <1>2, StillAtWork
  <1>4. \/ \E p \in {"turn", "complete", "fail", "defer"} : Goto(s, p)
        \/ parked = NoRun /\ Goto(s, "park")
    <2>1. UNCHANGED pc => Goto(s, "turn")
      BY <1>0 DEF Goto
    <2> QED
      BY <2>1 DEF Turn, JournalIntent, AdmitRunEffect, JournalOutcome, EndTurn,
                  LeaveTurnOpen
  <1>5. StrandInv'
    BY <1>0, <1>2, <1>4, StaysHolding DEF Holding, Executing
  <1> QED
    BY <1>3, <1>5 DEF SlotInv, StrandInv

\* completeRun and failRun settle the active run.
LEMMA SettleSlots ==
  ASSUME TypeInv, SlotInv, NEW s \in Strands, CompleteRun(s) \/ FailRun(s)
  PROVE  SlotInv'
  <1>0. /\ run \in [Runs -> RunRecords] /\ pc[s] \in {"complete", "fail"}
        /\ pc[s] \in Holding /\ UNCHANGED <<executing, tgt>>
    BY DEF TypeInv, TypeOK, CompleteRun, FailRun, Holding, Executing, held
  <1>1. /\ tgt[s] \in Runs /\ tgt[s] = active /\ tgt[s] = executing /\ Running(tgt[s])
        /\ run[tgt[s]].phase \in {"admitted", "executing"}
        /\ \A o \in Strands \ {s} : pc[o] \notin Holding \cup {"promoted"}
    BY <1>0, HolderFacts
  <1>2. /\ Settled(tgt[s], "failed").status \in {"failed", "cancelled"}
        /\ Settled(tgt[s], "completed").status \in {"completed", "cancelled"}
    BY DEF Settled, SettledAs, WithLog, WithStatus
  <1>3. /\ Terminal(tgt[s])' /\ \A o \in Runs \ {tgt[s]} : run'[o] = run[o]
        /\ active' = NoRun /\ UNCHANGED <<parked, pendingUser, pendingAgent>>
        /\ Goto(s, "finish")
    <2>1. CASE FailRun(s)
      BY <1>0, <1>1, <1>2, <2>1 DEF FailRun, FailStoredRun, LeaveQueue, Running, Terminal
    <2>2. CASE CompleteRun(s)
      BY <1>0, <1>1, <1>2, <2>2 DEF CompleteRun, CompleteStoredRun, Terminal
    <2> QED
      BY <2>1, <2>2
  <1> QED
    BY <1>0, <1>1, <1>3, SettledSlots

\* parkRun moves the active run to a parked slot that is free, and no recovery
\* has that run in its hands.
LEMMA ParkSlots ==
  ASSUME TypeInv, SlotInv, NEW s \in Strands, ParkRun(s)
  PROVE  SlotInv'
  <1> DEFINE r == tgt[s]
  <1>0. /\ run \in [Runs -> RunRecords] /\ pc[s] = "park" /\ pc[s] \in Holding
        /\ UNCHANGED <<executing, tgt>> /\ NoRun \notin Runs
        /\ ActiveSlot /\ ParkedSlot /\ QueuesHoldWaitingRuns
    BY RunsAssumption DEF TypeInv, TypeOK, ParkRun, Holding, Executing, held, SlotInv
  <1>1. /\ r \in Runs /\ r = active /\ r = executing /\ Running(r)
        /\ run[r].phase \in {"admitted", "executing"}
        /\ \A o \in Strands \ {s} : pc[o] \notin Holding \cup {"promoted"}
        /\ \A o \in Strands : pc[o] \in {"finish", "unwind"} => tgt[o] # r
    BY <1>0, HolderFacts
  <1>2. parked = NoRun
    BY <1>0 DEF SlotInv, ParkIsFree
  <1>3. /\ run' = [run EXCEPT ![r] = WithPhase(run[r], "parked")]
        /\ parked' = r /\ active' = NoRun
        /\ UNCHANGED <<pendingUser, pendingAgent>> /\ Goto(s, "unwind")
    BY <1>1 DEF ParkRun, ActiveAfterPark
  <1>4. /\ run'[r].status = "running" /\ run'[r].phase = "parked"
        /\ \A o \in Runs \ {r} : run'[o] = run[o]
    BY <1>0, <1>1, <1>3 DEF WithPhase, Running
  <1>5. (ActiveSlot /\ ParkedSlot /\ QueuesHoldWaitingRuns)'
    BY <1>0, <1>1, <1>2, <1>3, <1>4
    DEF ActiveSlot, ParkedSlot, QueuesHoldWaitingRuns, InPhase, Running
  <1>6. /\ pc'[s] = "unwind" /\ \A o \in Strands \ {s} : pc'[o] = pc[o]
        /\ \A o \in Strands : pc'[o] \notin Holding \cup {"promoted"}
        /\ ~InOpenTurn
    BY <1>0, <1>1, <1>3, Moved DEF Holding, Executing, InOpenTurn
  <1>7. \A o \in Strands : pc[o] \in Watched => tgt[o] \in Runs
    BY DEF TypeInv, TargetsNamed, Targeting, Watched, Holding
  <1>8. HolderIsActive' /\ PromotedIsActive' /\ ParkIsFree'
    BY <1>6 DEF HolderIsActive, PromotedIsActive, ParkIsFree, Holding, Executing
  <1>9. RecoveryIsCurrent'
    <2> SUFFICES ASSUME NEW o \in Strands \ {s}, pc[o] = "recoverTx"
                 PROVE  Terminal(tgt[o])'
      BY <1>6 DEF RecoveryIsCurrent, Terminal, Holding, Executing
    <2>1. tgt[o] \in Runs /\ tgt[o] # r /\ Terminal(tgt[o])
      BY <1>0, <1>1, <1>7 DEF SlotInv, RecoveryIsCurrent, Watched
    <2> QED
      BY <1>0, <1>4, <2>1 DEF Terminal
  <1>10. UnparkIsCurrent'
    BY <1>0, <1>6 DEF SlotInv, UnparkIsCurrent, Holding, Executing
  <1>11. FinishedIsSettled'
    <2> SUFFICES ASSUME NEW o \in Strands \ {s}, pc[o] = "finish"
                 PROVE  Terminal(tgt[o])'
      BY <1>6 DEF FinishedIsSettled, Terminal
    <2> QED
      BY <1>0, <1>1, <1>4, <1>7 DEF SlotInv, FinishedIsSettled, Watched, Terminal
  <1>12. UnwoundIsAside'
    <2>1. ASSUME NEW u \in Strands \ {s}, pc[u] = "unwind"
          PROVE  /\ InPhase(tgt[u], "parked")' \/ Terminal(tgt[u])'
                 /\ executing' = tgt'[u]
                 /\ \A o \in Strands \ {u} :
                      pc'[o] \in {"finish", "unwind"} => tgt'[o] # tgt'[u]
      <3>1. /\ tgt[u] \in Runs /\ (InPhase(tgt[u], "parked") \/ Terminal(tgt[u]))
            /\ executing = tgt[u] /\ tgt[u] # r
            /\ \A o \in Strands \ {u} : pc[o] \in {"finish", "unwind"} => tgt[o] # tgt[u]
        BY <1>1, <1>6, <1>7, <2>1 DEF SlotInv, UnwoundIsAside, Watched
      <3> QED
        BY <1>0, <1>4, <1>6, <3>1 DEF InPhase, Running, Terminal
    <2>2. /\ InPhase(r, "parked")' /\ executing' = tgt'[s]
          /\ \A o \in Strands \ {s} : pc'[o] \in {"finish", "unwind"} => tgt'[o] # tgt'[s]
      BY <1>0, <1>1, <1>4, <1>6 DEF InPhase, Running
    <2> QED
      BY <1>6, <2>1, <2>2 DEF UnwoundIsAside, InPhase, Running, Terminal
  <1> QED
    BY <1>5, <1>8, <1>9, <1>10, <1>11, <1>12 DEF SlotInv

\* noteSettled and the finally blocks give up executingRunId only if it names
\* the strand's own run, which no other strand works on.
LEMMA FinishSlots ==
  ASSUME TypeInv, SlotInv, NEW s \in Strands, Finish(s)
  PROVE  SlotInv'
  <1>0. /\ pc \in [Strands -> Places] /\ pc[s] \in {"finish", "unwind", "unwindThrow"}
        /\ UNCHANGED <<run, active, parked, pendingUser, pendingAgent>>
        /\ executing' = IF executing = tgt[s] THEN NoRun ELSE executing
        /\ \A o \in Strands \ {s} : tgt'[o] = tgt[o]
        /\ tgt[s] \in Runs
    BY DEF TypeInv, TypeOK, Finish, ExecutingAfter, slots, TargetsNamed, Targeting
  <1>1. /\ pc'[s] \in {"return", "threw"}
        /\ \A o \in Strands \ {s} : pc'[o] = pc[o] \/ (pc[o] = "watch" /\ pc'[o] = "loop")
    <2>1. PICK p \in {"return", "threw"}, S \in {{tgt[s]}, {}} : pc' = Waking(S, [pc EXCEPT ![s] = p])
      BY DEF Finish
    <2> DEFINE places == [pc EXCEPT ![s] = p]
    <2>2. /\ places \in [Strands -> Places] /\ places[s] = p
          /\ \A o \in Strands \ {s} : places[o] = pc[o]
      BY <1>0 DEF Places
    <2>3. pc' = Waking(S, places)
      BY <2>1 DEF places
    <2> HIDE DEF places
    <2> QED
      BY <2>2, <2>3, WakingType
  <1>2. \A o \in Strands \ {s} : /\ pc'[o] \in Watched => pc'[o] = pc[o]
                                 /\ pc[o] \in Watched => pc'[o] = pc[o]
    BY <1>1 DEF Watched, Holding, Executing
  <1>3. pc'[s] \notin Watched
    BY <1>1 DEF Watched, Holding, Executing
  <1>4. (ActiveSlot /\ ParkedSlot /\ QueuesHoldWaitingRuns)'
    BY <1>0 DEF SlotInv, ActiveSlot, ParkedSlot, QueuesHoldWaitingRuns, InPhase, Running
  <1>5. InOpenTurn => InOpenTurn'
    BY <1>0, <1>2 DEF InOpenTurn, Watched, Holding, Executing
  <1>6. HolderIsActive'
    <2> SUFFICES ASSUME NEW o \in Strands \ {s}, pc'[o] \in Holding
                 PROVE  /\ tgt'[o] = active' /\ tgt'[o] = executing'
                        /\ \A u \in Strands \ {o} : pc'[u] \notin Holding
      BY <1>3 DEF HolderIsActive, Watched
    <2>1. pc[o] \in Holding
      BY <1>2 DEF Watched
    <2>2. /\ tgt[o] = active /\ tgt[o] = executing /\ pc[s] \notin Holding
          /\ \A u \in Strands \ {o} : pc[u] \notin Holding
          /\ \A u \in Strands : pc[u] \in {"finish", "unwind"} => tgt[u] # tgt[o]
      BY <2>1, HolderFacts
    <2>3. tgt[s] # executing
      BY <1>0, <2>2 DEF Holding
    <2> QED
      BY <1>0, <1>2, <1>3, <2>2, <2>3 DEF Watched
  <1>7. PromotedIsActive' /\ RecoveryIsCurrent' /\ ParkIsFree' /\ FinishedIsSettled'
    BY <1>0, <1>2, <1>3
    DEF SlotInv, PromotedIsActive, RecoveryIsCurrent, ParkIsFree, FinishedIsSettled, Watched, Holding,
        Executing, Terminal
  <1>8. UnparkIsCurrent'
    BY <1>0, <1>2, <1>3, <1>5 DEF SlotInv, UnparkIsCurrent, Watched, Holding, Executing
  <1>9. UnwoundIsAside'
    <2> SUFFICES ASSUME NEW u \in Strands \ {s}, pc[u] = "unwind"
                 PROVE  /\ InPhase(tgt[u], "parked")' \/ Terminal(tgt[u])'
                        /\ executing' = tgt'[u] \/ InOpenTurn'
                        /\ \A o \in Strands \ {u} :
                             pc'[o] \in {"finish", "unwind"} => tgt'[o] # tgt'[u]
      BY <1>2, <1>3 DEF UnwoundIsAside, InPhase, Running, Terminal, Watched
    <2>1. /\ InPhase(tgt[u], "parked") \/ Terminal(tgt[u])
          /\ executing = tgt[u] \/ InOpenTurn
          /\ \A o \in Strands \ {u} : pc[o] \in {"finish", "unwind"} => tgt[o] # tgt[u]
      BY DEF SlotInv, UnwoundIsAside
    <2>2. tgt[u] # tgt[s]
      <3>1. CASE pc[s] = "unwindThrow"
        BY <3>1, HolderFacts DEF Holding
      <3>2. CASE pc[s] \in {"finish", "unwind"}
        BY <2>1, <3>2
      <3> QED
        BY <1>0, <3>1, <3>2
    <2> QED
      BY <1>0, <1>2, <1>3, <1>5, <2>1, <2>2 DEF InPhase, Running, Terminal, Watched
  <1> QED
    BY <1>4, <1>6, <1>7, <1>8, <1>9 DEF SlotInv

-----------------------------------------------------------------------------
(* The alarm, the drive and the callers                                     *)

\* None of the three touches the slots, nor a strand inside a Turn.
LEMMA OutsideSlots ==
  ASSUME TypeInv, SlotInv,
         \/ AlarmFires \/ AlarmChecks \/ AlarmReturns \/ DrivePumps \/ DriveReturns
         \/ \E s \in Callers : Caller(s) \/ \E r \in Awaited : CallRun(s, r)
  PROVE  SlotInv'
  <1>0. pc \in [Strands -> Places] /\ tgt \in [Strands -> Runs \cup {NoRun}]
    BY DEF TypeInv, TypeOK
  <1>1. CASE AlarmFires \/ AlarmChecks \/ AlarmReturns
    <2>1. /\ UNCHANGED <<slots, executing, tgt>> /\ "alarm" \in Strands
          /\ pc["alarm"] \in {"idle", "alarmed", "return", "threw"}
          /\ \E p \in {"alarmed", "idle", "queued", "recover"} : Goto("alarm", p)
      BY <1>1 DEF AlarmFires, AlarmChecks, AlarmReturns, held, Strands
    <2> QED
      BY <2>1, Moved, QuietStep DEF Watched, Holding, Executing
  <1>2. CASE DrivePumps \/ DriveReturns
    <2>1. /\ UNCHANGED <<slots, executing, tgt>> /\ "drive" \in Strands
          /\ pc["drive"] \in {"idle", "return", "threw"}
      BY <1>2 DEF DrivePumps, DriveReturns, held, Strands
    <2>2. CASE \E p \in {"idle", "recover"} : Goto("drive", p)
      BY <2>1, <2>2, Moved, QuietStep DEF Watched, Holding, Executing
    <2>3. CASE pc' = Waking(Runs, [pc EXCEPT !["drive"] = "idle"])
      <3> DEFINE places == [pc EXCEPT !["drive"] = "idle"]
      <3>1. /\ places \in [Strands -> Places] /\ places["drive"] = "idle"
            /\ \A o \in Strands \ {"drive"} : places[o] = pc[o]
        BY <1>0, <2>1 DEF Places
      <3>2. pc' = Waking(Runs, places)
        BY <2>3 DEF places
      <3> HIDE DEF places
      <3>3. \A o \in Strands : \/ pc'[o] = places[o]
                               \/ places[o] = "watch" /\ pc'[o] = "loop"
        BY <3>1, <3>2, WakingType
      <3> QED
        BY <2>1, <3>1, <3>3, QuietStep DEF Watched, Holding, Executing
    <2> QED
      BY <1>2, <2>2, <2>3 DEF DrivePumps, DriveReturns, DriveEnds
  <1>3. CASE \E s \in Callers : Caller(s) \/ \E r \in Awaited : CallRun(s, r)
    <2>1. PICK s \in Callers : Caller(s) \/ \E r \in Awaited : CallRun(s, r)
      BY <1>3
    <2>2. /\ UNCHANGED <<slots, executing>> /\ s \in Strands
          /\ pc[s] \in {"idle", "loop", "attempt", "return", "threw", "could not start"}
          /\ \A o \in Strands \ {s} : tgt'[o] = tgt[o]
      BY <1>0, <2>1
      DEF Caller, CallerLooks, CallerAttempts, CallerReturns, CallerGaveUp, CallRun,
          held, Strands
    <2>3. \E p \in {"idle", "loop", "watch", "attempt", "recover", "promote",
                    "could not start"} : Goto(s, p)
      BY <2>1 DEF Caller, CallerLooks, CallerAttempts, CallerReturns, CallerGaveUp, CallRun,
                  CallerLeaves
    <2> QED
      BY <2>2, <2>3, Moved, QuietStep DEF Watched, Holding, Executing
  <1> QED
    BY <1>1, <1>2, <1>3

-----------------------------------------------------------------------------
(* The invariant                                                            *)

\* An empty object has nothing in its slots and no strand at work.
LEMMA InitSlots == Init => SlotInv
  <1> SUFFICES ASSUME Init PROVE SlotInv
    OBVIOUS
  <1>1. ActiveSlot /\ ParkedSlot /\ QueuesHoldWaitingRuns
    BY RunsAssumption
    DEF Init, NoRecord, ActiveSlot, ParkedSlot, QueuesHoldWaitingRuns, InPhase, Running
  <1>2. StrandInv
    BY DEF Init, StrandInv, HolderIsActive, PromotedIsActive, RecoveryIsCurrent,
           UnparkIsCurrent, ParkIsFree, FinishedIsSettled, UnwoundIsAside, Holding, Executing
  <1> QED
    BY <1>1, <1>2 DEF SlotInv, StrandInv

\* Every step of the authority keeps the slots exact.
LEMMA NextSlots == TypeInv /\ SlotInv /\ [Next]_vars => SlotInv'
  <1> SUFFICES ASSUME TypeInv, SlotInv, [Next]_vars PROVE SlotInv'
    OBVIOUS
  <1>1. CASE UNCHANGED vars
    <2>1. UNCHANGED <<slots, executing, pc, tgt>>
      BY <1>1 DEF vars, held
    <2> QED
      BY <2>1, QuietStep
  <1>2. ASSUME NEW s \in Strands, Recovery(s) PROVE SlotInv'
    BY <1>2, ReadActiveSlots, ReadQueueSlots, RecoverActiveSlots, PromoteSlots,
       ExecutePromotedSlots, UnparkSlots, StartOrDeferSlots, SettleSlots, ParkSlots, FinishSlots
    DEF Recovery
  <1> QED
    BY <1>1, <1>2, CommandSlots, SettleStoppedSlots, EvictSlots, TurnSlots, OutsideSlots
    DEF Next

\* Types and slots together are an invariant of the authority.
LEMMA InvariantHolds == Spec => [](TypeInv /\ SlotInv)
  <1>1. Init => TypeInv /\ SlotInv
    BY InitType, InitSlots
  <1>2. TypeInv /\ SlotInv /\ [Next]_vars => (TypeInv /\ SlotInv)'
    BY NextType, NextSlots
  <1> QED
    BY <1>1, <1>2, PTL DEF Spec

\* What each strand read in an earlier step is worth what SlotInv says at every
\* later one, beside any other strand, command or eviction.
THEOREM SlotsExact == Spec => []SlotInv
  <1>1. TypeInv /\ SlotInv => SlotInv
    OBVIOUS
  <1> QED
    BY <1>1, InvariantHolds, PTL

\* ACTIVE_RUN_KEY always names exactly the run whose record is at work.
THEOREM ActiveSlotExact == Spec => []ActiveSlot
  <1>1. TypeInv /\ SlotInv => ActiveSlot
    BY DEF SlotInv
  <1> QED
    BY <1>1, InvariantHolds, PTL

\* PARKED_RUN_KEY always names exactly the run whose record is parked.
THEOREM ParkedSlotExact == Spec => []ParkedSlot
  <1>1. TypeInv /\ SlotInv => ParkedSlot
    BY DEF SlotInv
  <1> QED
    BY <1>1, InvariantHolds, PTL

\* The pending entries are always exactly the runs that wait, each in the
\* queue of its lane.
THEOREM QueuesExact == Spec => []QueuesHoldWaitingRuns
  <1>1. TypeInv /\ SlotInv => QueuesHoldWaitingRuns
    BY DEF SlotInv
  <1> QED
    BY <1>1, InvariantHolds, PTL

\* Whatever the number of callers and the interleaving of the alarm, the drive
\* and recovery, at most one strand runs a Turn, and it is the Turn of the
\* active slot and of executingRunId.
THEOREM OneTurn == Spec => []OneTurnAtATime
  <1>1. TypeInv /\ SlotInv => OneTurnAtATime
    BY DEF SlotInv, HolderIsActive, OneTurnAtATime, Holding
  <1> QED
    BY <1>1, InvariantHolds, PTL

====
