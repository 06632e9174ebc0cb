-------------------------- MODULE BotAuthorityPromise --------------------------
(***************************************************************************)
(* What the exact slots give the callers of the authority: settlement is    *)
(* final, a fence holds, a person goes next, owed work has an alarm behind  *)
(* it, and the authority implements TurnSlot.  Most of it follows from one  *)
(* account of what a step may write to a run record.  A call of run() that  *)
(* waits is woken when its run settles, and no reservation outlives the call *)
(* that made it.                                                            *)
(***************************************************************************)
EXTENDS BotAuthoritySlots

AtWork == {"admitted", "executing"}

\* Everything a step may do to the status and the phase of run r.
Written(r) ==
  \/ run'[r].status = run[r].status /\ run'[r].phase = run[r].phase
  \/ /\ run[r].status = "none" /\ ~Fenced(r) /\ run'[r].status = "running"
     /\ run'[r].phase = "queued" \/ (active = NoRun /\ run'[r].phase = "admitted")
  \/ run[r].status = "none" /\ run'[r].status = "failed"
  \/ /\ Running(r) /\ run[r].phase \in {"queued", "parked"} /\ active = NoRun
     /\ run'[r].status = "running" /\ run'[r].phase = "admitted"
  \/ /\ Running(r) /\ run[r].phase \in AtWork
     /\ run'[r].status = "running" /\ run'[r].phase \in AtWork \cup {"parked"}
  \/ /\ Running(r) /\ run'[r].status \in {"completed", "failed", "cancelled"}
     /\ run[r].stop => run'[r].status = "cancelled"

\* A step writes one run at most.
OneWrite ==
  \/ UNCHANGED run
  \/ \E r \in Runs : Written(r) /\ \A o \in Runs \ {r} : run'[o] = run[o]

\* failStoredRun and completeStoredRun settle a running run, with a Stop as
\* cancelled.
LEMMA SettlementWrites ==
  ASSUME TypeInv, NEW r \in Runs, Running(r), FailStoredRun(r) \/ CompleteStoredRun(r)
  PROVE  OneWrite
  <1>0. run \in [Runs -> RunRecords]
    BY DEF TypeInv, TypeOK
  <1>1. \A st \in {"failed", "completed"} :
          /\ Settled(r, st).status \in {"completed", "failed", "cancelled"}
          /\ run[r].stop => Settled(r, st).status = "cancelled"
    BY DEF Settled, SettledAs, WithLog, WithStatus
  <1>2. \E st \in {"failed", "completed"} : run' = [run EXCEPT ![r] = Settled(r, st)]
    BY DEF FailStoredRun, CompleteStoredRun, Running
  <1>3. Written(r) /\ \A o \in Runs \ {r} : run'[o] = run[o]
    BY <1>0, <1>1, <1>2 DEF Written
  <1> QED
    BY <1>3 DEF OneWrite

\* Commands write one run: a new one, or the Stop of a running one.
LEMMA CommandWrites ==
  ASSUME TypeInv, SlotInv, NEW r \in Runs, Command(r)
  PROVE  OneWrite
  <1>0. run \in [Runs -> RunRecords]
    BY DEF TypeInv, TypeOK
  <1>1. CASE AcceptRun(r)
    <2>1. ~MustQueue(LaneOf[r]) => active = NoRun
      BY DEF MustQueue
    <2>2. /\ run[r].status = "none" /\ ~Fenced(r) /\ run'[r].status = "running"
          /\ run'[r].phase = IF MustQueue(LaneOf[r]) THEN "queued" ELSE "admitted"
          /\ \A o \in Runs \ {r} : run'[o] = run[o]
      BY <1>0, <1>1 DEF AcceptRun
    <2> QED
      BY <2>1, <2>2 DEF OneWrite, Written
  <1>2. CASE ReplayAdmission(r) \/ FenceRunAdmission(r)
    BY <1>2 DEF ReplayAdmission, FenceRunAdmission, slots, OneWrite
  <1>3. CASE RecordUnadmittedFailure(r)
    BY <1>0, <1>3 DEF RecordUnadmittedFailure, WithStatus, OneWrite, Written
  <1>4. CASE StopRun(r)
    BY <1>0, <1>4 DEF StopRun, WithStop, OneWrite, Written
  <1> QED
    BY <1>1, <1>2, <1>3, <1>4 DEF Command

\* Recovery and the transactions around a Turn write the run they work on.
LEMMA RecoveryWrites ==
  ASSUME TypeInv, SlotInv, NEW s \in Strands, Recovery(s)
  PROVE  OneWrite
  <1>0. run \in [Runs -> RunRecords] /\ NoRun \notin Runs
    BY RunsAssumption DEF TypeInv, TypeOK
  <1>1. CASE ReadActive(s) \/ ReadQueue(s) \/ ExecutePromoted(s) \/ Finish(s)
    BY <1>1 DEF ReadActive, ReadQueue, ExecutePromoted, Finish, slots, OneWrite
  <1>2. CASE RecoverActiveRun(s)
    <2>1. tgt[s] \in Runs /\ pc[s] = "recoverTx"
      BY <1>2 DEF RecoverActiveRun, TypeInv, TargetsNamed, Targeting
    <2>2. CASE UNCHANGED slots
      BY <2>2 DEF slots, OneWrite
    <2>3. CASE Running(tgt[s]) /\ (FailStoredRun(tgt[s]) \/ CompleteStoredRun(tgt[s]))
      BY <2>1, <2>3, SettlementWrites
    <2>4. CASE /\ ~NothingToRecover /\ Running(tgt[s])
               /\ \/ run' = [run EXCEPT ![tgt[s]] =
                               WithLog(WithPhase(run[tgt[s]], "admitted"), "quiet")]
                  \/ run' = [run EXCEPT ![tgt[s]] = WithPhase(run[tgt[s]], "executing")]
      <3>1. active = tgt[s]
        BY <2>1, <2>4 DEF SlotInv, RecoveryIsCurrent, Terminal, Running
      <3>2. run[tgt[s]].phase \in AtWork
        BY <2>1, <3>1 DEF SlotInv, ActiveSlot, AtWork
      <3>3. /\ run'[tgt[s]].status = "running" /\ run'[tgt[s]].phase \in AtWork
            /\ \A o \in Runs \ {tgt[s]} : run'[o] = run[o]
        BY <1>0, <2>1, <2>4 DEF WithLog, WithPhase, Running, AtWork
      <3> QED
        BY <2>1, <2>4, <3>2, <3>3 DEF OneWrite, Written
    <2> QED
      BY <1>2, <2>2, <2>3, <2>4 DEF RecoverActiveRun
  <1>3. CASE PromoteQueuedRun(s)
    <2>1. tgt[s] \in Runs
      BY <1>3 DEF PromoteQueuedRun, TypeInv, TargetsNamed, Targeting
    <2>2. CASE NotQueued(tgt[s]) \/ Blocked(tgt[s])
      BY <1>3, <2>2 DEF PromoteQueuedRun, OneWrite
    <2>3. CASE ~NotQueued(tgt[s]) /\ ~Blocked(tgt[s])
      <3>1. active = NoRun /\ Running(tgt[s]) /\ run[tgt[s]].phase = "queued"
        BY <2>3 DEF NotQueued, Blocked, InPhase
      <3>2. run' = [run EXCEPT ![tgt[s]] = WithPhase(run[tgt[s]], "admitted")]
        BY <1>3, <2>3 DEF PromoteQueuedRun
      <3> QED
        BY <1>0, <2>1, <3>1, <3>2 DEF OneWrite, Written, WithPhase, Running
    <2> QED
      BY <2>2, <2>3
  <1>4. CASE UnparkRun(s)
    <2>1. tgt[s] \in Runs
      BY <1>4 DEF UnparkRun, TypeInv, TargetsNamed, Targeting
    <2>2. CASE UNCHANGED run
      BY <2>2 DEF OneWrite
    <2>3. CASE /\ ~UnparkBlocked /\ InPhase(tgt[s], "parked")
               /\ run' = [run EXCEPT ![tgt[s]] = WithPhase(run[tgt[s]], "admitted")]
      BY <1>0, <2>1, <2>3 DEF OneWrite, Written, WithPhase, Running, InPhase, UnparkBlocked
    <2> QED
      BY <1>4, <2>2, <2>3 DEF UnparkRun, slots
  <1>5. CASE StartRun(s) \/ CompleteRun(s) \/ FailRun(s) \/ ParkRun(s) \/ DeferRunRecovery(s)
    <2>1. pc[s] \in Holding
      BY <1>5
      DEF StartRun, CompleteRun, FailRun, ParkRun, DeferRunRecovery, Holding, Executing
    <2>2. /\ tgt[s] \in Runs /\ active = tgt[s]
          /\ Running(tgt[s]) /\ run[tgt[s]].phase \in AtWork
      BY <2>1, HolderFacts DEF AtWork
    <2>3. CASE FailStoredRun(tgt[s]) \/ CompleteStoredRun(tgt[s])
      BY <2>2, <2>3, SettlementWrites
    <2>4. CASE \E p \in {"executing", "parked"} :
                 run' = [run EXCEPT ![tgt[s]] = WithPhase(run[tgt[s]], p)]
      BY <1>0, <2>2, <2>4 DEF OneWrite, Written, WithPhase, Running, AtWork
    <2> QED
      BY <1>5, <2>2, <2>3, <2>4
      DEF StartRun, CompleteRun, FailRun, ParkRun, DeferRunRecovery
  <1> QED
    BY <1>1, <1>2, <1>3, <1>4, <1>5 DEF Recovery

\* Every step writes one run at most, in one of the ways of Written.
LEMMA NextWrites ==
  ASSUME TypeInv, SlotInv, [Next]_vars
  PROVE  OneWrite
  <1>0. run \in [Runs -> RunRecords]
    BY DEF TypeInv, TypeOK
  <1>1. CASE UNCHANGED vars
    BY <1>1 DEF vars, slots, OneWrite
  <1>2. ASSUME NEW r \in Runs, SettleStoppedParkedRun(r) PROVE OneWrite
    <2>1. CASE InPhase(r, "parked") /\ run[r].stop
      BY <1>2, <2>1, SettlementWrites DEF SettleStoppedParkedRun, InPhase
    <2>2. CASE ~(InPhase(r, "parked") /\ run[r].stop)
      BY <1>2, <2>2 DEF SettleStoppedParkedRun, slots, OneWrite
    <2> QED
      BY <2>1, <2>2
  <1>3. ASSUME NEW s \in Strands, Turn(s) PROVE OneWrite
    <2>1. \/ UNCHANGED run
          \/ \E l \in Journals : run' = [run EXCEPT ![tgt[s]] = WithLog(run[tgt[s]], l)]
      BY <1>3 DEF Turn, JournalIntent, AdmitRunEffect, JournalOutcome, EndTurn,
                  LeaveTurnOpen, Journal, slots, Journals
    <2>2. tgt[s] \in Runs
      BY <1>3 DEF Turn, JournalIntent, AdmitRunEffect, JournalOutcome, EndTurn,
                  LeaveTurnOpen, InTurn, TypeInv, TargetsNamed, Targeting, Executing
    <2>3. ASSUME NEW l \in Journals, run' = [run EXCEPT ![tgt[s]] = WithLog(run[tgt[s]], l)]
          PROVE  Written(tgt[s]) /\ \A o \in Runs \ {tgt[s]} : run'[o] = run[o]
      BY <1>0, <2>2, <2>3 DEF Written, WithLog
    <2> QED
      BY <2>1, <2>2, <2>3 DEF OneWrite
  <1>4. CASE Evict \/ AlarmFires \/ AlarmChecks \/ AlarmReturns \/ DrivePumps \/ DriveReturns
    BY <1>4 DEF Evict, AlarmFires, AlarmChecks, AlarmReturns, DrivePumps, DriveReturns,
                slots, OneWrite
  <1>5. ASSUME NEW s \in Callers, Caller(s) \/ \E r \in Awaited : CallRun(s, r)
        PROVE  OneWrite
    BY <1>5 DEF Caller, CallerLooks, CallerAttempts, CallerReturns, CallerGaveUp, CallRun,
                slots, OneWrite
  <1> QED
    BY <1>1, <1>2, <1>3, <1>4, <1>5, CommandWrites, RecoveryWrites DEF Next

-----------------------------------------------------------------------------

\* A settled run keeps its status for ever, and a run with a durable Stop
\* settles only as cancelled, whichever transaction settles it.
THEOREM SettledForGood == Spec => SettlementIsFinal
  <1> DEFINE A == \A r \in Runs :
                    /\ Terminal(r) => run'[r].status = run[r].status
                    /\ Running(r) /\ run[r].stop => run'[r].status \in {"running", "cancelled"}
  <1>1. ASSUME TypeInv, SlotInv, [Next]_vars PROVE A
    <2>1. OneWrite
      BY <1>1, NextWrites
    <2> QED
      BY <2>1 DEF OneWrite, Written, Terminal, Running
  <1>2. TypeInv /\ SlotInv /\ [Next]_vars => [A]_vars
    BY <1>1
  <1> QED
    BY <1>2, InvariantHolds, PTL DEF Spec, SettlementIsFinal

\* Only fenceRunAdmission writes the index of fences.
LEMMA FencesWritten ==
  ASSUME [Next]_vars
  PROVE  UNCHANGED fences \/ \E r \in Runs : FenceRunAdmission(r)
  <1>1. CASE UNCHANGED vars
    BY <1>1 DEF vars
  <1>2. ASSUME NEW r \in Runs, Command(r), ~FenceRunAdmission(r) PROVE UNCHANGED fences
    BY <1>2 DEF Command, AcceptRun, ReplayAdmission, RecordUnadmittedFailure, StopRun
  <1>3. ASSUME NEW r \in Runs, SettleStoppedParkedRun(r) PROVE UNCHANGED fences
    BY <1>3 DEF SettleStoppedParkedRun
  <1>4. ASSUME NEW s \in Strands, Recovery(s) PROVE UNCHANGED fences
    BY <1>4 DEF Recovery, ReadActive, ReadQueue, RecoverActiveRun, PromoteQueuedRun,
                ExecutePromoted, UnparkRun, StartRun, CompleteRun, FailRun, ParkRun, DeferRunRecovery, Finish
  <1>5. ASSUME NEW s \in Strands, Turn(s) PROVE UNCHANGED fences
    BY <1>5 DEF Turn, JournalIntent, AdmitRunEffect, JournalOutcome, EndTurn,
                LeaveTurnOpen, Journal
  <1>6. CASE Evict \/ AlarmFires \/ AlarmChecks \/ AlarmReturns \/ DrivePumps \/ DriveReturns
    BY <1>6 DEF Evict, AlarmFires, AlarmChecks, AlarmReturns, DrivePumps, DriveReturns
  <1>7. ASSUME NEW s \in Callers, Caller(s) \/ \E r \in Awaited : CallRun(s, r)
        PROVE  UNCHANGED fences
    BY <1>7 DEF Caller, CallerLooks, CallerAttempts, CallerReturns, CallerGaveUp, CallRun
  <1> QED
    BY <1>1, <1>2, <1>3, <1>4, <1>5, <1>6, <1>7 DEF Next

\* A fence holds: an id acceptRun could still find in the index has no Turn,
\* whether it was fenced before or after its admission failed, and however
\* often the index was rewritten and cut to its limit.
THEOREM FenceHolds == Spec => []FencedNeverRan
  <1> DEFINE Unran == {r \in Runs : run[r].status \in {"none", "failed"}}
  <1>1. TypeInv => (FencedNeverRan <=> fences \in Seq(Unran))
    <2>1. ASSUME TypeInv, FencedNeverRan PROVE fences \in Seq(Unran)
      <3>1. fences \in Seq(Runs)
        BY <2>1 DEF TypeInv, TypeOK
      <3>2. \A i \in 1 .. Len(fences) : fences[i] \in Unran
        BY <2>1, <3>1 DEF FencedNeverRan
      <3> QED
        BY <3>1, <3>2
    <2>2. ASSUME TypeInv, fences \in Seq(Unran) PROVE FencedNeverRan
      BY <2>2 DEF FencedNeverRan
    <2> QED
      BY <2>1, <2>2
  <1>2. Init => FencedNeverRan
    BY DEF Init, FencedNeverRan
  <1>3. ASSUME TypeInv, SlotInv, FencedNeverRan, [Next]_vars
        PROVE  FencedNeverRan'
    <2>1. CASE UNCHANGED fences
      <3>1. ASSUME NEW i \in DOMAIN fences
            PROVE  run'[fences[i]].status \in {"none", "failed"}
        <4>1. fences[i] \in Runs /\ Fenced(fences[i])
          BY <1>3 DEF TypeInv, TypeOK, Fenced
        <4>2. run[fences[i]].status \in {"none", "failed"}
          BY <1>3 DEF FencedNeverRan
        <4> QED
          BY <1>3, <4>1, <4>2, NextWrites DEF OneWrite, Written, Running
      <3> QED
        BY <2>1, <3>1 DEF FencedNeverRan
    <2>2. ASSUME NEW r \in Runs, FenceRunAdmission(r) PROVE FencedNeverRan'
      <3>1. r \in Unran /\ UNCHANGED run
        BY <2>2 DEF FenceRunAdmission, slots
      <3>2. fences \in Seq(Unran)
        BY <1>1, <1>3
      <3> HIDE DEF Unran
      <3>3. fences' \in Seq(Unran)
        BY <2>2, <3>1, <3>2, FencesType
      <3>4. \A i \in DOMAIN fences' : fences'[i] \in Unran
        BY <3>3
      <3> QED
        BY <3>1, <3>4 DEF FencedNeverRan, Unran
    <2> QED
      BY <1>3, <2>1, <2>2, FencesWritten
  <1>4. TypeInv /\ SlotInv /\ FencedNeverRan /\ [Next]_vars => FencedNeverRan'
    BY <1>3
  <1> QED
    BY <1>2, <1>4, InvariantHolds, PTL DEF Spec

\* The active slot is taken by admission, promotion and unparking alone.
LEMMA SlotTakers ==
  ASSUME [Next]_vars
  PROVE  \/ active' = active \/ active' = NoRun
         \/ \E r \in Runs : AcceptRun(r)
         \/ \E s \in Strands : PromoteQueuedRun(s) \/ UnparkRun(s)
  <1> DEFINE Kept == active' = active \/ active' = NoRun
  <1>1. CASE UNCHANGED vars
    BY <1>1 DEF vars, slots
  <1>2. ASSUME NEW r \in Runs, Command(r), ~AcceptRun(r) PROVE Kept
    BY <1>2 DEF Command, ReplayAdmission, FenceRunAdmission, RecordUnadmittedFailure,
                StopRun, slots
  <1>3. ASSUME NEW r \in Runs, SettleStoppedParkedRun(r) PROVE Kept
    BY <1>3 DEF SettleStoppedParkedRun, FailStoredRun, slots
  <1>4. ASSUME NEW s \in Strands, Recovery(s), ~PromoteQueuedRun(s), ~UnparkRun(s)
        PROVE  Kept
    BY <1>4 DEF Recovery, ReadActive, ReadQueue, RecoverActiveRun, ExecutePromoted, StartRun,
                CompleteRun, FailRun, ParkRun, DeferRunRecovery, Finish, FailStoredRun,
                CompleteStoredRun, ActiveAfterPark, slots
  <1>5. ASSUME NEW s \in Strands, Turn(s) PROVE Kept
    BY <1>5 DEF Turn, JournalIntent, AdmitRunEffect, JournalOutcome, EndTurn,
                LeaveTurnOpen, Journal, slots
  <1>6. CASE Evict \/ AlarmFires \/ AlarmChecks \/ AlarmReturns \/ DrivePumps \/ DriveReturns
    BY <1>6 DEF Evict, AlarmFires, AlarmChecks, AlarmReturns, DrivePumps, DriveReturns, slots
  <1>7. ASSUME NEW s \in Callers, Caller(s) \/ \E r \in Awaited : CallRun(s, r) PROVE Kept
    BY <1>7 DEF Caller, CallerLooks, CallerAttempts, CallerReturns, CallerGaveUp, CallRun,
                slots
  <1> QED
    BY <1>1, <1>2, <1>3, <1>4, <1>5, <1>6, <1>7 DEF Next

\* While a person's message waits, the slot passes only to a person's message
\* that is not behind it, although promotion acts on a queue that was read in
\* an earlier step and unparking on a claim that was.
THEOREM PersonIsNext == Spec => PersonGoesNext
  <1> DEFINE A == \A u \in pendingUser :
                    active' # active /\ active' # NoRun =>
                      LaneOf[active'] = "user" /\ active' <= u
  <1>1. ASSUME TypeInv, SlotInv, [Next]_vars PROVE A
    <2> SUFFICES ASSUME NEW u \in pendingUser, active' # active, active' # NoRun
                 PROVE  LaneOf[active'] = "user" /\ active' <= u
      OBVIOUS
    <2>1. LivePending(pendingUser) = pendingUser /\ pendingUser \subseteq Runs
      BY <1>1, NothingToPrune DEF TypeInv, TypeOK
    <2>2. ASSUME NEW r \in Runs, AcceptRun(r) PROVE FALSE
      BY <2>2 DEF AcceptRun, MustQueue
    <2>3. ASSUME NEW s \in Strands, UnparkRun(s) PROVE FALSE
      BY <2>1, <2>3 DEF UnparkRun, UnparkBlocked, slots
    <2>4. ASSUME NEW s \in Strands, PromoteQueuedRun(s)
          PROVE  LaneOf[active'] = "user" /\ active' <= u
      <3>1. active' = tgt[s] /\ ~NotQueued(tgt[s]) /\ ~Blocked(tgt[s])
        BY <2>4 DEF PromoteQueuedRun
      <3>2. LaneOf[tgt[s]] # "agent" /\ FirstPending(pendingUser) = tgt[s]
        BY <2>1, <3>1 DEF Blocked
      <3>3. tgt[s] \in pendingUser /\ tgt[s] <= u
        BY <2>1, <3>2, FirstPendingIsOldest
      <3>4. LaneOf[tgt[s]] = "user"
        BY <1>1, <2>1, <3>3 DEF SlotInv, QueuesHoldWaitingRuns
      <3> QED
        BY <3>1, <3>3, <3>4
    <2> QED
      BY <1>1, <2>2, <2>3, <2>4, SlotTakers
  <1>2. TypeInv /\ SlotInv /\ [Next]_vars => [A]_vars
    BY <1>1
  <1> QED
    BY <1>2, InvariantHolds, PTL DEF Spec, PersonGoesNext

\* The authority implements TurnSlot: one Turn works at a time, a Turn set
\* aside comes back only to an idle slot, nothing admitted disappears and
\* nothing settled moves again.
THEOREM AuthorityImplementsTurnSlot == Spec => ImplementsTurnSlot
  <1> DEFINE place == [r \in Runs |-> PlaceOf(run[r])]
  <1>1. Init => Slot!Init
    BY DEF Init, NoRecord, PlaceOf, Slot!Init
  <1>2. ASSUME TypeInv, SlotInv, [Next]_vars
        PROVE  [Slot!Next]_place
    <2>1. CASE UNCHANGED run
      BY <2>1
    <2>2. ASSUME NEW r \in Runs, Written(r), \A o \in Runs \ {r} : run'[o] = run[o]
          PROVE  [Slot!Next]_place
      <3>1. /\ place[r] = PlaceOf(run[r]) /\ place'[r] = PlaceOf(run'[r])
            /\ place' = [place EXCEPT ![r] = PlaceOf(run'[r])]
        BY <2>2
      <3>2. active = NoRun => Slot!Idle
        BY RunsAssumption, <1>2
        DEF Slot!Idle, SlotInv, ActiveSlot, Running, PlaceOf
      <3>3. PlaceOf(run'[r]) = PlaceOf(run[r]) => UNCHANGED place
        BY <2>2
      <3>4. \/ PlaceOf(run'[r]) = PlaceOf(run[r])
            \/ PlaceOf(run[r]) = "absent" /\ PlaceOf(run'[r]) = "waiting"
            \/ PlaceOf(run[r]) = "absent" /\ active = NoRun /\ PlaceOf(run'[r]) = "working"
            \/ PlaceOf(run[r]) = "absent" /\ PlaceOf(run'[r]) = "settled"
            \/ PlaceOf(run[r]) = "waiting" /\ active = NoRun /\ PlaceOf(run'[r]) = "working"
            \/ PlaceOf(run[r]) = "working" /\ PlaceOf(run'[r]) = "waiting"
            \/ PlaceOf(run[r]) \in {"waiting", "working"} /\ PlaceOf(run'[r]) = "settled"
        <4>1. run[r] \in RunRecords /\ run[r].phase \in Phases
          BY <1>2 DEF TypeInv, TypeOK, RunRecords
        <4> QED
          BY <2>2, <4>1 DEF Written, PlaceOf, Running, AtWork, Phases
      <3> QED
        BY <3>1, <3>2, <3>3, <3>4
        DEF Slot!Next, Slot!Move, Slot!AdmitWaiting, Slot!AdmitWorking, Slot!Refuse,
            Slot!Start, Slot!SetAside, Slot!Settle
    <2> QED
      BY <1>2, <2>1, <2>2, NextWrites DEF OneWrite
  <1>3. TypeInv /\ SlotInv /\ [Next]_vars => [Slot!Next]_place
    BY <1>2
  <1> QED
    BY <1>1, <1>3, InvariantHolds, PTL DEF Spec, ImplementsTurnSlot, Slot!Spec

-----------------------------------------------------------------------------
(* Owed work and the alarm                                                  *)

\* The alarm handler has not ended.
Handling == pc["alarm"] # "idle"

\* A step that calls refreshRecoveryAlarm leaves owed work with an alarm.
LEMMA RefreshArms == RefreshRecoveryAlarm => OwedWorkHasAlarm'
  BY Zenon DEF RefreshRecoveryAlarm, OwedWorkHasAlarm

\* A step that owes no more than before, keeps the alarm and does not end the
\* alarm handler, leaves owed work with an alarm.
LEMMA AlarmKept ==
  ASSUME OwedWorkHasAlarm, Owed' => Owed, UNCHANGED alarm, Handling => Handling'
  PROVE  OwedWorkHasAlarm'
  BY Zenon DEF OwedWorkHasAlarm, Handling

\* A strand that goes anywhere but to idle does not end the alarm handler.
LEMMA HandlingKept ==
  ASSUME TypeInv, NEW s \in Strands, NEW p, Goto(s, p), p # "idle" \/ s # "alarm"
  PROVE  Handling => Handling'
  <1>1. "alarm" \in Strands
    BY DEF Strands
  <1> QED
    BY <1>1, Moved DEF Handling

\* The commands and the second transaction of a Stop.
LEMMA CommandAlarm ==
  ASSUME TypeInv, SlotInv, OwedWorkHasAlarm, NEW r \in Runs,
         Command(r) \/ SettleStoppedParkedRun(r)
  PROVE  OwedWorkHasAlarm'
  <1>1. CASE RefreshRecoveryAlarm
    BY <1>1, RefreshArms
  <1>2. CASE UNCHANGED <<active, parked, pendingUser, pendingAgent, alarm, pc>>
    BY <1>2, AlarmKept DEF Owed, Handling
  <1> QED
    BY <1>1, <1>2
    DEF Command, AcceptRun, ReplayAdmission, FenceRunAdmission, RecordUnadmittedFailure,
        StopRun, SettleStoppedParkedRun, slots

\* promoteQueuedRun refreshes the alarm whenever it dequeues, and dequeues
\* whenever it fills the active slot.
LEMMA PromoteAlarm ==
  ASSUME TypeInv, SlotInv, OwedWorkHasAlarm, NEW s \in Strands, PromoteQueuedRun(s)
  PROVE  OwedWorkHasAlarm'
  <1>1. CASE pendingUser' # pendingUser \/ pendingAgent' # pendingAgent
    BY <1>1, RefreshArms DEF PromoteQueuedRun
  <1>2. CASE ~(pendingUser' # pendingUser \/ pendingAgent' # pendingAgent)
    <2>1. tgt[s] \in Runs
      BY DEF PromoteQueuedRun, TypeInv, TargetsNamed, Targeting
    <2>2. NotQueued(tgt[s]) \/ Blocked(tgt[s])
      <3> SUFFICES ASSUME ~NotQueued(tgt[s]), ~Blocked(tgt[s]) PROVE FALSE
        OBVIOUS
      <3>1. InPhase(tgt[s], "queued")
        BY DEF NotQueued
      <3>2. tgt[s] \in pendingUser \cup pendingAgent
        BY <2>1, <3>1, LanesAssumption DEF SlotInv, QueuesHoldWaitingRuns
      <3>3. pendingUser' = pendingUser \ {tgt[s]} /\ pendingAgent' = pendingAgent \ {tgt[s]}
        BY NothingToPrune DEF PromoteQueuedRun, Dequeued
      <3> QED
        BY <1>2, <3>2, <3>3
    <2>3. Owed' => Owed
      BY <1>2, <2>2 DEF PromoteQueuedRun, Owed
    <2>4. UNCHANGED alarm
      BY <1>2 DEF PromoteQueuedRun
    <2>5. \E p : Goto(s, p) /\ (p # "idle" \/ s # "alarm")
      <3>1. cont[s] = "mine" => s # "alarm"
        BY StrandsAssumption DEF TypeInv, CallsNamed
      <3> QED
        BY <2>2, <3>1 DEF PromoteQueuedRun, CallerLeaves
    <2> QED
      BY <2>3, <2>4, <2>5, HandlingKept, AlarmKept
  <1> QED
    BY <1>1, <1>2

\* Recovery and the transactions around a Turn.
LEMMA RecoveryAlarm ==
  ASSUME TypeInv, SlotInv, OwedWorkHasAlarm, NEW s \in Strands, Recovery(s)
  PROVE  OwedWorkHasAlarm'
  <1>1. CASE RefreshRecoveryAlarm
    BY <1>1, RefreshArms
  <1>2. CASE PromoteQueuedRun(s)
    BY <1>2, PromoteAlarm
  <1>3. CASE /\ UNCHANGED <<active, parked, pendingUser, pendingAgent, alarm>>
             /\ \E p : Goto(s, p) /\ p # "idle"
    BY <1>3, HandlingKept, AlarmKept DEF Owed
  <1>4. CASE Finish(s)
    <2>1. UNCHANGED <<active, parked, pendingUser, pendingAgent, alarm>>
      BY <1>4 DEF Finish, slots
    <2>2. PICK p \in {"return", "threw"}, S \in {{tgt[s]}, {}} : pc' = Waking(S, [pc EXCEPT ![s] = p])
      BY <1>4 DEF Finish
    <2> DEFINE places == [pc EXCEPT ![s] = p]
    <2>3. /\ places \in [Strands -> Places] /\ pc' = Waking(S, places)
          /\ \A o \in Strands : pc[o] # "idle" => places[o] # "idle"
      BY <2>2 DEF TypeInv, TypeOK, Places
    <2> HIDE DEF places
    <2>4. Handling => Handling'
      BY <2>3, WakingType DEF Handling, Strands
    <2> QED
      BY <2>1, <2>4, AlarmKept DEF Owed
  <1>5. CASE UnparkRun(s)
    BY <1>1, <1>3, <1>5 DEF UnparkRun, slots
  <1> QED
    BY <1>1, <1>2, <1>3, <1>4, <1>5
    DEF Recovery, ReadActive, ReadQueue, RecoverActiveRun, ExecutePromoted, StartRun,
        CompleteRun, FailRun, ParkRun, DeferRunRecovery, slots

\* Turns, the alarm, the drive and the callers.
LEMMA OtherAlarm ==
  ASSUME TypeInv, SlotInv, OwedWorkHasAlarm,
         \/ \E s \in Strands : Turn(s)
         \/ AlarmFires \/ AlarmChecks \/ AlarmReturns \/ DrivePumps \/ DriveReturns
         \/ \E s \in Callers : Caller(s) \/ \E r \in Awaited : CallRun(s, r)
  PROVE  OwedWorkHasAlarm'
  <1>0. pc \in [Strands -> Places] /\ "alarm" \in Strands /\ "drive" \in Strands
    BY DEF TypeInv, TypeOK, Strands
  <1>1. CASE RefreshRecoveryAlarm
    BY <1>1, RefreshArms
  <1>2. CASE UNCHANGED <<active, parked, pendingUser, pendingAgent, alarm, pc>>
    BY <1>2, AlarmKept DEF Owed, Handling
  <1>3. ASSUME NEW s \in Strands, Turn(s) PROVE OwedWorkHasAlarm'
    <2>1. CASE /\ UNCHANGED <<active, parked, pendingUser, pendingAgent, alarm>>
               /\ \E p : Goto(s, p) /\ p # "idle"
      BY <1>3, <2>1, HandlingKept, AlarmKept DEF Owed
    <2> QED
      BY <1>1, <1>2, <1>3, <2>1
      DEF Turn, JournalIntent, AdmitRunEffect, JournalOutcome, EndTurn, LeaveTurnOpen,
          Journal, slots
  <1>4. CASE AlarmFires
    <2>1. pc'["alarm"] # "idle"
      BY <1>0, <1>4 DEF AlarmFires, Goto
    <2> QED
      BY <2>1 DEF OwedWorkHasAlarm
  <1>5. CASE AlarmChecks
    <2>1. CASE /\ UNCHANGED <<slots, alarm>>
               /\ \E p \in {"queued", "recover"} : Goto("alarm", p)
      BY <1>0, <2>1, HandlingKept, AlarmKept DEF Owed, slots
    <2> QED
      BY <1>1, <1>5, <2>1 DEF AlarmChecks
  <1>6. CASE AlarmReturns
    BY <1>1, <1>6 DEF AlarmReturns
  <1>7. CASE DrivePumps \/ DriveReturns
    <2>1. UNCHANGED <<active, parked, pendingUser, pendingAgent, alarm>>
      BY <1>7 DEF DrivePumps, DriveReturns, slots
    <2>2. CASE \E p : Goto("drive", p)
      BY <1>0, <2>1, <2>2, HandlingKept, AlarmKept DEF Owed
    <2>3. CASE pc' = Waking(Runs, [pc EXCEPT !["drive"] = "idle"])
      <3> DEFINE places == [pc EXCEPT !["drive"] = "idle"]
      <3>1. places \in [Strands -> Places] /\ pc' = Waking(Runs, places)
            /\ places["alarm"] = pc["alarm"]
        BY <1>0, <2>3 DEF Places
      <3> HIDE DEF places
      <3>2. Handling => Handling'
        BY <1>0, <3>1, WakingType DEF Handling
      <3> QED
        BY <2>1, <3>2, AlarmKept DEF Owed
    <2> QED
      BY <1>7, <2>2, <2>3 DEF DrivePumps, DriveReturns, DriveEnds
  <1>8. ASSUME NEW s \in Callers, Caller(s) \/ \E r \in Awaited : CallRun(s, r)
        PROVE  OwedWorkHasAlarm'
    <2>1. UNCHANGED <<active, parked, pendingUser, pendingAgent, alarm>>
      BY <1>8 DEF Caller, CallerLooks, CallerAttempts, CallerReturns, CallerGaveUp, CallRun,
                  slots
    <2>2. s \in Strands /\ s # "alarm"
      BY StrandsAssumption DEF Strands
    <2>3. \E p : Goto(s, p)
      BY <1>8 DEF Caller, CallerLooks, CallerAttempts, CallerReturns, CallerGaveUp, CallRun,
                  CallerLeaves
    <2> QED
      BY <2>1, <2>2, <2>3, HandlingKept, AlarmKept DEF Owed
  <1> QED
    BY <1>3, <1>4, <1>5, <1>6, <1>7, <1>8

\* Owed work always has the alarm, or the handler that will arm it again,
\* behind it, whatever was evicted, parked, deferred or stopped.
THEOREM AlarmBehindOwedWork == Spec => []OwedWorkHasAlarm
  <1>1. Init => OwedWorkHasAlarm
    BY DEF Init, OwedWorkHasAlarm, Owed
  <1>2. ASSUME TypeInv, SlotInv, OwedWorkHasAlarm, [Next]_vars
        PROVE  OwedWorkHasAlarm'
    <2>1. CASE UNCHANGED vars
      <3>1. UNCHANGED <<active, parked, pendingUser, pendingAgent, alarm, pc>>
        BY <2>1 DEF vars, slots
      <3> QED
        BY <1>2, <3>1, AlarmKept DEF Owed, Handling
    <2>2. CASE Evict
      <3>1. Owed' => Owed
        BY <2>2 DEF Evict, slots, Owed
      <3>2. alarm' = (alarm \/ pc["alarm"] # "idle")
        BY <2>2 DEF Evict
      <3> QED
        BY Zenon, <1>2, <3>1, <3>2 DEF OwedWorkHasAlarm
    <2> QED
      BY <1>2, <2>1, <2>2, CommandAlarm, RecoveryAlarm, OtherAlarm DEF Next
  <1>3. TypeInv /\ SlotInv /\ OwedWorkHasAlarm /\ [Next]_vars => OwedWorkHasAlarm'
    BY <1>2
  <1> QED
    BY <1>1, <1>3, InvariantHolds, PTL DEF Spec


-----------------------------------------------------------------------------
(* Waking                                                                   *)

\* Enough for a step to lose no wake-up: nobody starts to watch, nobody on the
\* way to notifySettled is turned back, and a run that settles has somebody
\* on that way.
LEMMA WakeupKept ==
  ASSUME TypeInv, NoLostWakeup,
         \A c \in Callers : pc'[c] = "watch" => pc[c] = "watch" /\ want'[c] = want[c],
         \A s \in Strands : pc[s] = "finish" => pc'[s] = "finish" /\ tgt'[s] = tgt[s],
         \A r \in Runs : run[r].status = "running" =>
           \/ run'[r].status = "running"
           \/ \E s \in Strands : pc'[s] = "finish" /\ tgt'[s] = r
  PROVE  NoLostWakeup'
  <1> SUFFICES ASSUME NEW c \in Callers, pc'[c] = "watch", run'[want'[c]].status # "running"
               PROVE  \E s \in Strands : pc'[s] = "finish" /\ tgt'[s] = want'[c]
    BY DEF NoLostWakeup, Running
  <1>1. pc[c] = "watch" /\ want'[c] = want[c]
    OBVIOUS
  <1>2. want[c] \in Runs
    BY <1>1 DEF TypeInv, CallsNamed, Strands
  <1>3. CASE run[want[c]].status = "running"
    BY <1>1, <1>2, <1>3
  <1>4. CASE run[want[c]].status # "running"
    <2>1. PICK s \in Strands : pc[s] = "finish" /\ tgt[s] = want[c]
      BY <1>1, <1>4 DEF NoLostWakeup, Running
    <2> QED
      BY <1>1, <2>1
  <1> QED
    BY <1>3, <1>4

\* The same of a step of one strand that does not come from notifySettled.
LEMMA StrandKeepsWakeup ==
  ASSUME TypeInv, NoLostWakeup, NEW s \in Strands, pc[s] # "finish",
         NEW p, p # "watch", pc' = [pc EXCEPT ![s] = p],
         \A o \in Strands \ {s} : tgt'[o] = tgt[o] /\ want'[o] = want[o],
         \A r \in Runs : run[r].status = "running" =>
           run'[r].status = "running" \/ (p = "finish" /\ tgt'[s] = r)
  PROVE  NoLostWakeup'
  <1>1. pc'[s] = p /\ \A o \in Strands \ {s} : pc'[o] = pc[o]
    BY DEF TypeInv, TypeOK
  <1>2. Callers \subseteq Strands
    BY DEF Strands
  <1> QED
    BY <1>1, <1>2, WakeupKept

\* Commands settle nothing but an id that has no record, and move no strand.
LEMMA CommandWakes ==
  ASSUME TypeInv, NoLostWakeup, NEW r \in Runs, Command(r)
  PROVE  NoLostWakeup'
  <1>0. run \in [Runs -> RunRecords]
    BY DEF TypeInv, TypeOK
  <1>1. UNCHANGED <<pc, tgt, waiting>>
    BY DEF Command, AcceptRun, ReplayAdmission, FenceRunAdmission,
           RecordUnadmittedFailure, StopRun
  <1>2. \A o \in Runs : run[o].status = "running" => run'[o].status = "running"
    <2>1. CASE AcceptRun(r) \/ RecordUnadmittedFailure(r)
      BY <1>0, <2>1 DEF AcceptRun, RecordUnadmittedFailure, WithStatus
    <2>2. CASE ReplayAdmission(r) \/ FenceRunAdmission(r)
      BY <2>2 DEF ReplayAdmission, FenceRunAdmission, slots
    <2>3. CASE StopRun(r)
      BY <1>0, <2>3 DEF StopRun, WithStop
    <2> QED
      BY <2>1, <2>2, <2>3 DEF Command
  <1> QED
    BY <1>1, <1>2, WakeupKept DEF waiting

\* settleStoppedParkedRun wakes the callers of the run it settles itself.
LEMMA SettleStoppedWakes ==
  ASSUME TypeInv, NoLostWakeup, NEW r \in Runs, SettleStoppedParkedRun(r)
  PROVE  NoLostWakeup'
  <1>0. run \in [Runs -> RunRecords] /\ pc \in [Strands -> Places] /\ Callers \subseteq Strands
    BY DEF TypeInv, TypeOK, Strands
  <1>1. CASE ~(InPhase(r, "parked") /\ run[r].stop)
    <2>1. UNCHANGED <<run, pc, tgt, want>>
      BY <1>1 DEF SettleStoppedParkedRun, slots, waiting
    <2> QED
      BY <2>1, WakeupKept
  <1>2. CASE InPhase(r, "parked") /\ run[r].stop
    <2>1. /\ pc' = Waking({r}, pc) /\ UNCHANGED <<tgt, want>>
          /\ run' = [run EXCEPT ![r] = Settled(r, "failed")]
      BY <1>2 DEF SettleStoppedParkedRun, FailStoredRun, InPhase, Running, waiting
    <2>2. \A o \in Runs \ {r} : run'[o] = run[o]
      BY <1>0, <2>1
    <2>3. \A s \in Strands : /\ pc[s] = "finish" => pc'[s] = "finish"
                             /\ pc'[s] = "watch" => pc[s] = "watch" /\ want[s] # r
      BY <1>0, <2>1 DEF Waking
    <2> SUFFICES ASSUME NEW c \in Callers, pc'[c] = "watch",
                        run'[want[c]].status # "running"
                 PROVE  \E s \in Strands : pc'[s] = "finish" /\ tgt'[s] = want[c]
      BY <2>1 DEF NoLostWakeup, Running
    <2>4. pc[c] = "watch" /\ want[c] \in Runs \ {r}
      BY <1>0, <2>3 DEF TypeInv, CallsNamed
    <2>5. PICK s \in Strands : pc[s] = "finish" /\ tgt[s] = want[c]
      BY <2>2, <2>4 DEF NoLostWakeup, Running
    <2> QED
      BY <2>1, <2>3, <2>5
  <1> QED
    BY <1>1, <1>2

\* Whoever settles a run, in recovery or at the end of a Turn, is then on its
\* way to notifySettled with it.
LEMMA RecoveryWakes ==
  ASSUME TypeInv, NoLostWakeup, NEW s \in Strands, Recovery(s), ~Finish(s)
  PROVE  NoLostWakeup'
  <1>0. run \in [Runs -> RunRecords] /\ tgt \in [Strands -> Runs \cup {NoRun}]
        /\ want \in [Strands -> Runs \cup {NoRun}]
    BY DEF TypeInv, TypeOK
  <1> DEFINE Kept == \A r \in Runs : run[r].status = "running" => run'[r].status = "running"
             Still == \A o \in Strands \ {s} : tgt'[o] = tgt[o] /\ want'[o] = want[o]
  <1>1. CASE ReadActive(s) \/ ReadQueue(s)
    <2>1. PICK p \in {"queued", "return", "recoverTx", "unpark", "promote"} :
            pc' = [pc EXCEPT ![s] = p]
      BY <1>1 DEF ReadActive, ReadQueue, Goto
    <2>2. pc[s] # "finish" /\ UNCHANGED <<run, want>>
      BY <1>1 DEF ReadActive, ReadQueue, slots, waiting
    <2>3. \A o \in Strands \ {s} : tgt'[o] = tgt[o]
      BY <1>0, <1>1 DEF ReadActive, ReadQueue
    <2> QED
      BY <2>1, <2>2, <2>3, StrandKeepsWakeup
  <1>2. CASE RecoverActiveRun(s)
    <2>1. tgt[s] \in Runs /\ pc[s] = "recoverTx" /\ UNCHANGED want
      BY <1>2 DEF RecoverActiveRun, TypeInv, TargetsNamed, Targeting, waiting
    <2>2. PICK p \in {"return", "finish", "threw", "start", "turn"} :
            /\ pc' = [pc EXCEPT ![s] = p]
            /\ \/ UNCHANGED run
               \/ /\ p = "finish"
                  /\ \E st \in {"failed", "completed"} :
                       run' = [run EXCEPT ![tgt[s]] = Settled(tgt[s], st)]
               \/ run' = [run EXCEPT ![tgt[s]] =
                            WithLog(WithPhase(run[tgt[s]], "admitted"), "quiet")]
               \/ run' = [run EXCEPT ![tgt[s]] = WithPhase(run[tgt[s]], "executing")]
      BY <1>2 DEF RecoverActiveRun, Goto, slots, FailStoredRun, CompleteStoredRun, Running
    <2>3. pc'[s] = p
      BY <2>2 DEF TypeInv, TypeOK
    <2>4. p = "finish" => tgt' = tgt
      BY <1>2, <2>3 DEF RecoverActiveRun, ForgetTarget, Targeting
    <2>5. \A o \in Strands \ {s} : tgt'[o] = tgt[o]
      BY <1>0, <1>2 DEF RecoverActiveRun, ForgetTarget
    <2>6. \A r \in Runs : run[r].status = "running" =>
            run'[r].status = "running" \/ (p = "finish" /\ tgt'[s] = r)
      BY <1>0, <2>1, <2>2, <2>4 DEF WithLog, WithPhase
    <2> QED
      BY <2>1, <2>2, <2>5, <2>6, StrandKeepsWakeup
  <1>3. CASE PromoteQueuedRun(s) \/ UnparkRun(s)
    <2>1. PICK p \in {"start", "promoted", "queued", "return", "idle", "recover"} :
            pc' = [pc EXCEPT ![s] = p]
      BY <1>3 DEF PromoteQueuedRun, UnparkRun, Goto, CallerLeaves
    <2>2. /\ pc[s] # "finish" /\ tgt[s] \in Runs
          /\ \A o \in Strands \ {s} : tgt'[o] = tgt[o]
      BY <1>0, <1>3 DEF PromoteQueuedRun, UnparkRun, ForgetTarget, TypeInv, TargetsNamed,
                        Targeting
    <2>3. \A o \in Strands \ {s} : want'[o] = want[o]
      BY <1>0, <1>3 DEF PromoteQueuedRun, UnparkRun, CallerLeaves, waiting
    <2>4. \/ UNCHANGED run
          \/ run' = [run EXCEPT ![tgt[s]] = WithPhase(run[tgt[s]], "admitted")]
      BY <1>3 DEF PromoteQueuedRun, UnparkRun, slots
    <2>5. Kept
      BY <1>0, <2>2, <2>4 DEF WithPhase
    <2> QED
      BY <2>1, <2>2, <2>3, <2>5, StrandKeepsWakeup
  <1>4. CASE ExecutePromoted(s)
    <2>1. PICK p \in {"start", "threw"} : pc' = [pc EXCEPT ![s] = p]
      BY <1>4 DEF ExecutePromoted, Goto
    <2>2. pc[s] # "finish" /\ UNCHANGED <<run, want>>
      BY <1>4 DEF ExecutePromoted, slots, waiting
    <2>3. \A o \in Strands \ {s} : tgt'[o] = tgt[o]
      BY <1>0, <1>4 DEF ExecutePromoted, ForgetTarget
    <2> QED
      BY <2>1, <2>2, <2>3, StrandKeepsWakeup
  <1>5. CASE StartRun(s) \/ CompleteRun(s) \/ FailRun(s) \/ ParkRun(s) \/ DeferRunRecovery(s)
    <2>1. /\ tgt[s] \in Runs /\ pc[s] # "finish" /\ UNCHANGED <<tgt, want>>
      BY <1>5 DEF StartRun, CompleteRun, FailRun, ParkRun, DeferRunRecovery, TypeInv,
                  TargetsNamed, Targeting, Executing, waiting
    <2>2. PICK p \in {"turn", "fail", "finish", "unwind", "unwindThrow"} :
            /\ pc' = [pc EXCEPT ![s] = p]
            /\ \/ UNCHANGED run
               \/ /\ p = "finish"
                  /\ \E st \in {"failed", "completed"} :
                       run' = [run EXCEPT ![tgt[s]] = Settled(tgt[s], st)]
               \/ \E ph \in {"executing", "parked"} :
                    run' = [run EXCEPT ![tgt[s]] = WithPhase(run[tgt[s]], ph)]
      BY <1>5 DEF StartRun, CompleteRun, FailRun, ParkRun, DeferRunRecovery, Goto, slots,
                  FailStoredRun, CompleteStoredRun
    <2>3. \A r \in Runs : run[r].status = "running" =>
            run'[r].status = "running" \/ (p = "finish" /\ tgt'[s] = r)
      BY <1>0, <2>1, <2>2 DEF WithPhase
    <2> QED
      BY <2>1, <2>2, <2>3, StrandKeepsWakeup
  <1> QED
    BY <1>1, <1>2, <1>3, <1>4, <1>5 DEF Recovery

\* notifySettled: who finishes a run wakes every caller that watches it.
LEMMA FinishWakes ==
  ASSUME TypeInv, NoLostWakeup, NEW s \in Strands, Finish(s)
  PROVE  NoLostWakeup'
  <1>0. /\ pc \in [Strands -> Places] /\ tgt \in [Strands -> Runs \cup {NoRun}]
        /\ Callers \subseteq Strands
    BY DEF TypeInv, TypeOK, Strands
  <1>1. UNCHANGED <<run, want>> /\ \A o \in Strands \ {s} : tgt'[o] = tgt[o]
    BY <1>0 DEF Finish, slots, waiting
  <1>2. \A o \in Strands \ {s} : pc[o] = "finish" => pc'[o] = "finish"
    BY <1>0 DEF Finish, Waking
  <1>3. \A c \in Strands : pc'[c] = "watch" =>
          pc[c] = "watch" /\ (pc[s] = "finish" => want[c] # tgt[s])
    BY <1>0 DEF Finish, Waking
  <1> SUFFICES ASSUME NEW c \in Callers, pc'[c] = "watch", run[want[c]].status # "running"
               PROVE  \E o \in Strands : pc'[o] = "finish" /\ tgt'[o] = want[c]
    BY <1>1 DEF NoLostWakeup, Running
  <1>4. PICK o \in Strands : pc[o] = "finish" /\ tgt[o] = want[c]
    BY <1>0, <1>3 DEF NoLostWakeup, Running
  <1>5. o # s
    BY <1>0, <1>3, <1>4
  <1> QED
    BY <1>1, <1>2, <1>4, <1>5

\* A Turn settles nothing by itself.
LEMMA TurnWakes ==
  ASSUME TypeInv, NoLostWakeup, NEW s \in Strands, Turn(s)
  PROVE  NoLostWakeup'
  <1>0. run \in [Runs -> RunRecords] /\ pc \in [Strands -> Places]
    BY DEF TypeInv, TypeOK
  <1>1. pc[s] = "turn" /\ tgt[s] \in Runs /\ UNCHANGED <<tgt, want>>
    BY DEF Turn, JournalIntent, AdmitRunEffect, JournalOutcome, EndTurn, LeaveTurnOpen,
           Journal, InTurn, waiting, TypeInv, TargetsNamed, Targeting, Executing
  <1>2. \/ UNCHANGED run
        \/ \E l \in Journals : run' = [run EXCEPT ![tgt[s]] = WithLog(run[tgt[s]], l)]
    BY DEF Turn, JournalIntent, AdmitRunEffect, JournalOutcome, EndTurn, LeaveTurnOpen,
           Journal, slots, Journals
  <1>3. \A r \in Runs : run[r].status = "running" => run'[r].status = "running"
    <2>1. ASSUME NEW l \in Journals, run' = [run EXCEPT ![tgt[s]] = WithLog(run[tgt[s]], l)]
          PROVE  \A r \in Runs : run'[r].status = run[r].status
      BY <1>0, <1>1, <2>1 DEF WithLog
    <2> QED
      BY <1>2, <2>1
  <1>4. \/ UNCHANGED pc
        \/ \E p \in {"complete", "fail", "defer", "park"} : pc' = [pc EXCEPT ![s] = p]
    BY DEF Turn, JournalIntent, AdmitRunEffect, JournalOutcome, EndTurn, LeaveTurnOpen,
           Journal, Goto
  <1>5. CASE UNCHANGED pc
    BY <1>1, <1>3, <1>5, WakeupKept
  <1>6. ASSUME NEW p \in {"complete", "fail", "defer", "park"}, pc' = [pc EXCEPT ![s] = p]
        PROVE  NoLostWakeup'
    BY <1>1, <1>3, <1>6, StrandKeepsWakeup
  <1> QED
    BY <1>4, <1>5, <1>6

\* The alarm and the drive, whose end wakes every caller, and eviction, which
\* leaves none.
LEMMA PlatformWakes ==
  ASSUME TypeInv, NoLostWakeup,
         Evict \/ AlarmFires \/ AlarmChecks \/ AlarmReturns \/ DrivePumps \/ DriveReturns
  PROVE  NoLostWakeup'
  <1>0. /\ pc \in [Strands -> Places] /\ Callers \subseteq Strands
        /\ "alarm" \in Strands /\ "drive" \in Strands
    BY DEF TypeInv, TypeOK, Strands
  <1>1. CASE Evict
    BY <1>0, <1>1 DEF Evict, NoLostWakeup
  <1>2. CASE AlarmFires \/ AlarmChecks \/ AlarmReturns
    <2>1. pc["alarm"] # "finish" /\ UNCHANGED <<run, tgt, want>>
      BY <1>2 DEF AlarmFires, AlarmChecks, AlarmReturns, slots, waiting
    <2>2. PICK p \in {"alarmed", "idle", "queued", "recover"} : pc' = [pc EXCEPT !["alarm"] = p]
      BY <1>2 DEF AlarmFires, AlarmChecks, AlarmReturns, Goto
    <2> QED
      BY <1>0, <2>1, <2>2, StrandKeepsWakeup
  <1>3. CASE DrivePumps \/ DriveReturns
    <2>1. pc["drive"] # "finish" /\ UNCHANGED <<run, tgt, want>>
      BY <1>3 DEF DrivePumps, DriveReturns, slots, waiting
    <2>2. \/ \E p \in {"recover", "idle"} : pc' = [pc EXCEPT !["drive"] = p]
          \/ pc' = Waking(Runs, [pc EXCEPT !["drive"] = "idle"])
      BY <1>3 DEF DrivePumps, DriveReturns, DriveEnds, Goto
    <2>3. ASSUME NEW p \in {"recover", "idle"}, pc' = [pc EXCEPT !["drive"] = p]
          PROVE  NoLostWakeup'
      BY <1>0, <2>1, <2>3, StrandKeepsWakeup
    <2>4. CASE pc' = Waking(Runs, [pc EXCEPT !["drive"] = "idle"])
      <3>1. \A c \in Callers : pc[c] = "watch" => want[c] \in Runs
        BY <1>0 DEF TypeInv, CallsNamed
      <3>2. \A c \in Callers : pc'[c] # "watch"
        BY <1>0, <2>4, <3>1 DEF Waking
      <3> QED
        BY <3>2 DEF NoLostWakeup
    <2> QED
      BY <2>2, <2>3, <2>4
  <1> QED
    BY <1>1, <1>2, <1>3

\* A caller starts to watch a run only while it is running.
LEMMA CallerWakes ==
  ASSUME TypeInv, NoLostWakeup, NEW s \in Callers, Caller(s) \/ \E r \in Awaited : CallRun(s, r)
  PROVE  NoLostWakeup'
  <1>0. /\ pc \in [Strands -> Places] /\ tgt \in [Strands -> Runs \cup {NoRun}]
        /\ want \in [Strands -> Runs \cup {NoRun}]
        /\ s \in Strands /\ Callers \subseteq Strands
    BY DEF TypeInv, TypeOK, Strands
  <1>1. UNCHANGED run /\ pc[s] # "finish"
    BY DEF Caller, CallerLooks, CallerAttempts, CallerReturns, CallerGaveUp, CallRun, slots
  <1>2. \A o \in Strands \ {s} : tgt'[o] = tgt[o]
    BY <1>0 DEF Caller, CallerLooks, CallerAttempts, CallerReturns, CallerGaveUp, CallRun
  <1>3. \A o \in Strands \ {s} : want'[o] = want[o]
    BY <1>0 DEF Caller, CallerLooks, CallerAttempts, CallerReturns, CallerGaveUp, CallRun,
                CallerLeaves, waiting
  <1>4. \/ \E p \in Places : p # "watch" /\ pc' = [pc EXCEPT ![s] = p]
        \/ pc' = [pc EXCEPT ![s] = "watch"] /\ Running(want[s]) /\ UNCHANGED want
    BY DEF Caller, CallerLooks, CallerAttempts, CallerReturns, CallerGaveUp, CallRun,
           CallerLeaves, Goto, waiting, Places, CallerPlaces, Queueing
  <1>5. ASSUME NEW p \in Places, p # "watch", pc' = [pc EXCEPT ![s] = p]
        PROVE  NoLostWakeup'
    BY <1>0, <1>1, <1>2, <1>3, <1>5, StrandKeepsWakeup
  <1>6. CASE pc' = [pc EXCEPT ![s] = "watch"] /\ Running(want[s]) /\ UNCHANGED want
    <2> SUFFICES ASSUME NEW c \in Callers, pc'[c] = "watch", run[want[c]].status # "running"
                 PROVE  \E o \in Strands : pc'[o] = "finish" /\ tgt'[o] = want[c]
      BY <1>1, <1>6 DEF NoLostWakeup, Running
    <2>1. c # s /\ pc[c] = "watch"
      BY <1>0, <1>6 DEF Running
    <2>2. PICK o \in Strands : pc[o] = "finish" /\ tgt[o] = want[c]
      BY <2>1 DEF NoLostWakeup, Running
    <2> QED
      BY <1>0, <1>1, <1>2, <1>6, <2>2
  <1> QED
    BY <1>4, <1>5, <1>6

\* No caller sleeps on a settled run unless somebody is on the way to announce
\* it, whichever of recovery, a Turn, a Stop or the drive settled it.
THEOREM WakeupNeverLost == Spec => []NoLostWakeup
  <1>1. Init => NoLostWakeup
    BY DEF Init, NoLostWakeup, Strands
  <1>2. ASSUME TypeInv, NoLostWakeup, [Next]_vars PROVE NoLostWakeup'
    <2>1. CASE UNCHANGED vars
      <3>1. UNCHANGED <<run, pc, tgt, want>>
        BY <2>1 DEF vars, slots, waiting
      <3> QED
        BY <1>2, <3>1, WakeupKept
    <2> QED
      BY <1>2, <2>1, CommandWakes, SettleStoppedWakes, RecoveryWakes, FinishWakes, TurnWakes,
         PlatformWakes, CallerWakes DEF Next
  <1>3. TypeInv /\ NoLostWakeup /\ [Next]_vars => NoLostWakeup'
    BY <1>2
  <1> QED
    BY <1>1, <1>3, InvariantHolds, PTL DEF Spec

-----------------------------------------------------------------------------
(* Reservations                                                             *)

Reserving == {"attempt", "mine"}

\* A call that drives the run ahead of its own is in recovery.
AttemptsUnderWay ==
  \A s \in Strands : cont[s] = "attempt" =>
    pc[s] \notin {"idle", "loop", "watch", "could not start"}

\* What ReservedForACaller needs to be kept.
Reservations == AttemptsUnderWay /\ ReservedForACaller

\* Steps that leave run() alone keep the reservations, wherever a strand goes
\* that stands behind none.
LEMMA ReservationsLeftAlone ==
  ASSUME TypeInv, Reservations, UNCHANGED waiting,
         \A s \in Strands :
           \/ pc'[s] = pc[s]
           \/ pc[s] = "watch" /\ pc'[s] = "loop"
           \/ pc[s] # "attempt" /\ (cont[s] = "loop" \/ pc'[s] \notin CallerPlaces \cup {"idle"})
  PROVE  Reservations'
  <1>0. Callers \subseteq Strands /\ cont \in [Strands -> {"loop", "attempt", "mine"}]
        /\ UNCHANGED <<want, cont, queuedWaiters>>
    BY DEF TypeInv, TypeOK, Strands, waiting
  <1>1. AttemptsUnderWay'
    BY <1>0 DEF Reservations, AttemptsUnderWay, CallerPlaces
  <1>2. ReservedForACaller'
    BY <1>0 DEF Reservations, ReservedForACaller
  <1> QED
    BY <1>1, <1>2 DEF Reservations

\* A step of one strand that gives up no reservation but its own: it still
\* stands behind the run it wants, or that run is reserved no more.
LEMMA ReservationsMoved ==
  ASSUME TypeInv, Reservations, NEW s \in Callers, NEW p, pc' = [pc EXCEPT ![s] = p],
         \A o \in Strands \ {s} : want'[o] = want[o] /\ cont'[o] = cont[o],
         cont'[s] = "attempt" => p \notin {"idle", "loop", "watch", "could not start"},
         queuedWaiters' \subseteq queuedWaiters \cup {want[s]},
         \/ want'[s] = want[s] /\ (p = "attempt" \/ cont'[s] \in Reserving)
         \/ want[s] \notin queuedWaiters'
         \/ queuedWaiters' = queuedWaiters /\ pc[s] # "attempt" /\ cont[s] \notin Reserving
  PROVE  Reservations'
  <1>0. s \in Strands /\ Callers \subseteq Strands /\ pc \in [Strands -> Places]
    BY DEF TypeInv, TypeOK, Strands
  <1>1. pc'[s] = p /\ \A o \in Strands \ {s} : pc'[o] = pc[o]
    BY <1>0
  <1>2. AttemptsUnderWay'
    BY <1>0, <1>1 DEF Reservations, AttemptsUnderWay
  <1>3. ReservedForACaller'
    <2> SUFFICES ASSUME NEW r \in queuedWaiters'
                 PROVE  \E c \in Callers : want'[c] = r /\ (pc'[c] = "attempt" \/ cont'[c] \in Reserving)
      BY DEF ReservedForACaller, Reserving
    <2>1. CASE r = want[s] /\ want'[s] = want[s] /\ (p = "attempt" \/ cont'[s] \in Reserving)
      BY <1>1, <2>1
    <2>2. CASE ~(r = want[s] /\ want'[s] = want[s] /\ (p = "attempt" \/ cont'[s] \in Reserving))
      <3>1. r \in queuedWaiters
        BY <2>2
      <3>2. PICK c \in Callers : want[c] = r /\ (pc[c] = "attempt" \/ cont[c] \in Reserving)
        BY <3>1 DEF Reservations, ReservedForACaller, Reserving
      <3>3. c # s
        BY <2>2, <3>1, <3>2
      <3> QED
        BY <1>0, <1>1, <3>2, <3>3
    <2> QED
      BY <2>1, <2>2
  <1> QED
    BY <1>2, <1>3 DEF Reservations

\* run() ends: its finally takes the reservation back.
LEMMA LeavingReleases ==
  ASSUME TypeInv, Reservations, NEW s \in Callers, NEW p, CallerLeaves(s, p)
  PROVE  Reservations'
  <1>0. /\ want \in [Strands -> Runs \cup {NoRun}]
        /\ cont \in [Strands -> {"loop", "attempt", "mine"}] /\ s \in Strands
    BY DEF TypeInv, TypeOK, Strands
  <1>1. /\ pc' = [pc EXCEPT ![s] = p] /\ cont'[s] = "loop"
        /\ \A o \in Strands \ {s} : want'[o] = want[o] /\ cont'[o] = cont[o]
        /\ queuedWaiters' = queuedWaiters \ {want[s]}
    BY <1>0 DEF CallerLeaves, Goto
  <1> QED
    BY <1>1, ReservationsMoved

\* One pass of run(), one attempt of runQueuedRun, and what follows recovery.
LEMMA CallerReserves ==
  ASSUME TypeInv, Reservations, NEW s \in Callers, Caller(s)
  PROVE  Reservations'
  <1>0. /\ want \in [Strands -> Runs \cup {NoRun}] /\ s \in Strands
        /\ cont \in [Strands -> {"loop", "attempt", "mine"}]
    BY DEF TypeInv, TypeOK, Strands
  <1>a. pc[s] \in {"loop", "could not start"} => cont[s] = "loop"
    BY <1>0 DEF TypeInv, AttemptsLeft, Executing, Reservations, AttemptsUnderWay
  <1>1. ASSUME NEW p, CallerLeaves(s, p) PROVE Reservations'
    BY <1>1, LeavingReleases
  <1>2. ASSUME CallerLooks(s), \A p : ~CallerLeaves(s, p) PROVE Reservations'
    <2>1. pc[s] = "loop"
      BY <1>2 DEF CallerLooks
    <2>2. CASE Goto(s, "attempt") /\ queuedWaiters' = queuedWaiters \cup {want[s]}
               /\ UNCHANGED <<want, cont>>
      BY <2>2, ReservationsMoved, <1>a, <2>1 DEF Goto
    <2>3. CASE (Goto(s, "recover") \/ Goto(s, "watch")) /\ UNCHANGED waiting
      BY <1>0, <1>a, <2>1, <2>3, ReservationsMoved DEF Goto, waiting, Reserving
    <2> QED
      BY <1>2, <2>2, <2>3 DEF CallerLooks
  <1>3. ASSUME CallerAttempts(s), \A p : ~CallerLeaves(s, p) PROVE Reservations'
    <2>1. /\ cont' = [cont EXCEPT ![s] = "mine"] /\ Goto(s, "promote")
          /\ UNCHANGED <<want, queuedWaiters>>
      BY <1>3 DEF CallerAttempts
    <2>2. cont'[s] = "mine" /\ \A o \in Strands \ {s} : cont'[o] = cont[o]
      BY <1>0, <2>1
    <2> QED
      BY <2>1, <2>2, ReservationsMoved DEF Goto, Reserving
  <1>4. ASSUME CallerReturns(s), \A p : ~CallerLeaves(s, p) PROVE Reservations'
    <2>1. CASE cont[s] = "attempt" /\ Goto(s, "attempt") /\ UNCHANGED waiting
      BY <2>1, ReservationsMoved DEF Goto, waiting
    <2>2. CASE cont[s] = "loop" /\ (Goto(s, "loop") \/ Goto(s, "watch")) /\ UNCHANGED waiting
               /\ pc[s] # "attempt"
      BY <2>2, ReservationsMoved DEF Goto, waiting, Reserving
    <2>3. CASE /\ Goto(s, "loop") /\ cont' = [cont EXCEPT ![s] = "loop"]
               /\ queuedWaiters' = queuedWaiters \ {want[s]} /\ UNCHANGED want
      <3>1. cont'[s] = "loop" /\ \A o \in Strands \ {s} : cont'[o] = cont[o]
        BY <1>0, <2>3
      <3> QED
        BY <2>3, <3>1, ReservationsMoved DEF Goto
    <2> QED
      BY <1>4, <2>1, <2>2, <2>3 DEF CallerReturns
  <1>5. CASE CallerGaveUp(s)
    BY <1>0, <1>5, <1>a, ReservationsMoved DEF CallerGaveUp, Goto, waiting, Reserving
  <1> QED
    BY <1>1, <1>2, <1>3, <1>4, <1>5 DEF Caller

\* A new call has no reservation yet.
LEMMA CallReserves ==
  ASSUME TypeInv, Reservations, NEW s \in Callers, NEW r \in Awaited, CallRun(s, r)
  PROVE  Reservations'
  <1>0. /\ want \in [Strands -> Runs \cup {NoRun}] /\ s \in Strands
        /\ cont \in [Strands -> {"loop", "attempt", "mine"}]
    BY DEF TypeInv, TypeOK, Strands
  <1>1. pc[s] = "idle" /\ cont[s] = "loop"
    BY <1>0 DEF CallRun, TypeInv, AttemptsLeft, Executing, Reservations, AttemptsUnderWay
  <1>2. /\ pc' = [pc EXCEPT ![s] = "loop"] /\ UNCHANGED <<cont, queuedWaiters>>
        /\ \A o \in Strands \ {s} : want'[o] = want[o]
    BY <1>0 DEF CallRun, Goto
  <1> QED
    BY <1>1, <1>2, ReservationsMoved DEF Reserving

\* promoteQueuedRun on behalf of a call: it is driven on, or leaves.
LEMMA PromoteReserves ==
  ASSUME TypeInv, Reservations, NEW s \in Strands, PromoteQueuedRun(s)
  PROVE  Reservations'
  <1>0. /\ pc \in [Strands -> Places] /\ cont \in [Strands -> {"loop", "attempt", "mine"}]
        /\ pc[s] = "promote" /\ (cont[s] = "mine" => s \in Callers)
    BY DEF TypeInv, TypeOK, CallsNamed, PromoteQueuedRun
  <1>1. CASE UNCHANGED waiting /\ \E p \in {"start", "promoted", "queued", "return"} : Goto(s, p)
    BY <1>0, <1>1, ReservationsLeftAlone DEF Goto, CallerPlaces
  <1>2. CASE cont[s] = "mine" /\ CallerLeaves(s, "idle")
    BY <1>0, <1>2, LeavingReleases
  <1>3. CASE /\ cont[s] = "mine" /\ cont' = [cont EXCEPT ![s] = "attempt"]
             /\ Goto(s, "recover") /\ UNCHANGED <<want, queuedWaiters>>
    <2>1. cont'[s] = "attempt" /\ \A o \in Strands \ {s} : cont'[o] = cont[o]
      BY <1>0, <1>3
    <2> QED
      BY <1>0, <1>3, <2>1, ReservationsMoved DEF Goto, Reserving
  <1> QED
    BY <1>1, <1>2, <1>3 DEF PromoteQueuedRun

\* Every other step leaves run() alone.
LEMMA OthersReserve ==
  ASSUME TypeInv, Reservations,
         \/ \E r \in Runs : Command(r) \/ SettleStoppedParkedRun(r)
         \/ \E s \in Strands : (Recovery(s) /\ ~PromoteQueuedRun(s)) \/ Turn(s)
         \/ AlarmFires \/ AlarmChecks \/ AlarmReturns \/ DrivePumps \/ DriveReturns
  PROVE  Reservations'
  <1>0. /\ pc \in [Strands -> Places] /\ cont \in [Strands -> {"loop", "attempt", "mine"}]
        /\ "alarm" \in Strands /\ "drive" \in Strands
    BY DEF TypeInv, TypeOK, Strands
  <1>1. ASSUME NEW r \in Runs, Command(r) PROVE Reservations'
    <2>1. UNCHANGED <<pc, waiting>>
      BY <1>1 DEF Command, AcceptRun, ReplayAdmission, FenceRunAdmission,
                  RecordUnadmittedFailure, StopRun
    <2> QED
      BY <2>1, ReservationsLeftAlone
  <1>2. ASSUME NEW r \in Runs, SettleStoppedParkedRun(r) PROVE Reservations'
    <2>1. UNCHANGED waiting /\ (UNCHANGED pc \/ pc' = Waking({r}, pc))
      BY <1>2 DEF SettleStoppedParkedRun
    <2>2. \A s \in Strands : pc'[s] = pc[s] \/ (pc[s] = "watch" /\ pc'[s] = "loop")
      BY <1>0, <2>1 DEF Waking
    <2> QED
      BY <2>1, <2>2, ReservationsLeftAlone
  <1>3. ASSUME NEW s \in Strands, NEW p, p \notin CallerPlaces \cup {"idle"}, pc[s] # "attempt",
               pc' = [pc EXCEPT ![s] = p], UNCHANGED waiting
        PROVE  Reservations'
    BY <1>0, <1>3, ReservationsLeftAlone
  <1>4. ASSUME NEW s \in Strands, Recovery(s), ~PromoteQueuedRun(s), ~Finish(s)
        PROVE  Reservations'
    <2>1. UNCHANGED waiting /\ pc[s] # "attempt"
      BY <1>4 DEF Recovery, ReadActive, ReadQueue, RecoverActiveRun, ExecutePromoted,
                  UnparkRun, StartRun, CompleteRun, FailRun, ParkRun, DeferRunRecovery
    <2>2. PICK p \in {"queued", "return", "recoverTx", "unpark", "promote", "finish", "threw",
                      "start", "turn", "recover", "fail", "unwind", "unwindThrow"} :
            pc' = [pc EXCEPT ![s] = p]
      BY <1>4 DEF Recovery, ReadActive, ReadQueue, RecoverActiveRun, ExecutePromoted,
                  UnparkRun, StartRun, CompleteRun, FailRun, ParkRun, DeferRunRecovery, Goto
    <2> QED
      BY <1>3, <2>1, <2>2 DEF CallerPlaces
  <1>5. ASSUME NEW s \in Strands, Turn(s) PROVE Reservations'
    <2>1. UNCHANGED waiting /\ pc[s] = "turn"
      BY <1>5 DEF Turn, JournalIntent, AdmitRunEffect, JournalOutcome, EndTurn, LeaveTurnOpen,
                  Journal, InTurn
    <2>2. \/ UNCHANGED pc
          \/ \E p \in {"complete", "fail", "defer", "park"} : pc' = [pc EXCEPT ![s] = p]
      BY <1>5 DEF Turn, JournalIntent, AdmitRunEffect, JournalOutcome, EndTurn, LeaveTurnOpen,
                  Journal, Goto
    <2> QED
      BY <1>0, <2>1, <2>2, ReservationsLeftAlone DEF CallerPlaces
  <1>6. ASSUME NEW s \in Strands, Finish(s) PROVE Reservations'
    <2>1. UNCHANGED waiting /\ pc[s] \in {"finish", "unwind", "unwindThrow"}
      BY <1>6 DEF Finish
    <2>2. /\ pc'[s] \in {"return", "threw"}
          /\ \A o \in Strands \ {s} : pc'[o] = pc[o] \/ (pc[o] = "watch" /\ pc'[o] = "loop")
      BY <1>0, <1>6 DEF Finish, Waking
    <2> QED
      BY <2>1, <2>2, ReservationsLeftAlone DEF CallerPlaces
  <1>7. CASE AlarmFires \/ AlarmChecks \/ AlarmReturns \/ DrivePumps \/ DriveReturns
    <2>1. UNCHANGED waiting
      BY <1>7 DEF AlarmFires, AlarmChecks, AlarmReturns, DrivePumps, DriveReturns
    <2>2. \A s \in {"alarm", "drive"} : cont[s] = "loop" /\ pc[s] # "attempt"
      BY <1>0, StrandsAssumption DEF TypeInv, CallsNamed, CallerPlaces
    <2>3. \A s \in Strands \ {"alarm", "drive"} :
            pc'[s] = pc[s] \/ (pc[s] = "watch" /\ pc'[s] = "loop")
      BY <1>0, <1>7 DEF AlarmFires, AlarmChecks, AlarmReturns, DrivePumps, DriveReturns,
                        DriveEnds, Goto, Waking
    <2> QED
      BY <2>1, <2>2, <2>3, ReservationsLeftAlone
  <1> QED
    BY <1>1, <1>2, <1>4, <1>5, <1>6, <1>7

\* A reservation in queuedWaiters always belongs to a call that will start the
\* run or give the reservation back: no queued run is left to nobody.
THEOREM ReservationsHaveCallers == Spec => []ReservedForACaller
  <1>1. Init => Reservations
    BY DEF Init, Reservations, AttemptsUnderWay, ReservedForACaller
  <1>2. ASSUME TypeInv, Reservations, [Next]_vars PROVE Reservations'
    <2>1. CASE UNCHANGED vars
      BY <1>2, <2>1, ReservationsLeftAlone DEF vars
    <2>2. CASE Evict
      BY <2>2 DEF Evict, Reservations, AttemptsUnderWay, ReservedForACaller
    <2> QED
      BY <1>2, <2>1, <2>2, CallerReserves, CallReserves, PromoteReserves, OthersReserve DEF Next
  <1>3. TypeInv /\ Reservations /\ [Next]_vars => Reservations'
    BY <1>2
  <1>4. Reservations => ReservedForACaller
    BY DEF Reservations
  <1> QED
    BY <1>1, <1>3, <1>4, InvariantHolds, PTL DEF Spec

====
