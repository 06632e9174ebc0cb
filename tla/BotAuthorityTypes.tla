-------------------------- MODULE BotAuthorityTypes --------------------------
(***************************************************************************)
(* The records and the memory of a Bot's object keep their types, for every *)
(* set of runs and callers and every bound.  One lemma per operation.       *)
(***************************************************************************)
EXTENDS BotAuthorityInvariant, SequenceTheorems, WellFoundedInduction, TLAPS

-----------------------------------------------------------------------------
(* The pending queues                                                       *)

\* firstPendingRunV1 finds the oldest entry of a queue that is not empty.
LEMMA FirstPendingIsOldest ==
  ASSUME NEW q \in SUBSET Runs, q # {}
  PROVE  FirstPending(q) \in q /\ \A o \in q : FirstPending(q) <= o
  <1> DEFINE R == OpToRel(<, Nat)
  <1>1. q \subseteq Nat
    BY RunsAssumption
  <1>2. IsWellFoundedOn(R, Nat)
    BY NatLessThanWellFounded
  <1> HIDE DEF R
  <1>3. \E x \in q : \A y \in q : ~(<<y, x>> \in R)
    BY <1>1, <1>2, WFMin
  <1>4. \A x, y \in Nat : ~(<<y, x>> \in R) => x <= y
    BY DEF R, OpToRel
  <1>5. \E x \in q : \A y \in q : x <= y
    BY <1>1, <1>3, <1>4
  <1> QED
    BY <1>5 DEF FirstPending

-----------------------------------------------------------------------------
(* Records and fences                                                       *)

\* Replacing a field of a run record by a value of its type, as every write
\* of a run in core/durable does, gives a run record.
LEMMA RecordType ==
  ASSUME NEW rec \in RunRecords
  PROVE  /\ \A v \in Statuses : WithStatus(rec, v) \in RunRecords
         /\ \A v \in Phases : WithPhase(rec, v) \in RunRecords
         /\ \A v \in BOOLEAN : WithStop(rec, v) \in RunRecords
         /\ \A v \in Journals : WithLog(rec, v) \in RunRecords
  BY DEF RunRecords, WithStatus, WithPhase, WithStop, WithLog

\* What settlement stores is a run record (run-terminal.ts).
LEMMA SettledType ==
  ASSUME TypeOK, NEW r \in Runs, NEW st \in {"completed", "failed"}
  PROVE  Settled(r, st) \in RunRecords
  <1>1. run[r] \in RunRecords
    BY DEF TypeOK
  <1>2. SettledAs(r, st) \in Statuses
    BY DEF SettledAs, Statuses
  <1>3. WithStatus(run[r], SettledAs(r, st)) \in RunRecords
    BY <1>1, <1>2, RecordType
  <1>4. "closed" \in Journals
    BY DEF Journals
  <1> QED
    BY <1>3, <1>4, RecordType DEF Settled

\* fenceRunAdmission drops the id it fences again and adds no other: what was
\* a sequence of S stays one.
LEMMA FencesWithoutType ==
  ASSUME NEW S, NEW r, fences \in Seq(S)
  PROVE  FencesWithout(r) \in Seq(S)
  <1>1. CASE ~Fenced(r)
    BY <1>1 DEF FencesWithout
  <1>2. CASE Fenced(r)
    <2> DEFINE i == CHOOSE i \in DOMAIN fences : fences[i] = r
    <2>1. i \in DOMAIN fences
      BY <1>2 DEF Fenced
    <2>2. i \in 1 .. Len(fences) /\ Len(fences) \in Nat
      BY <2>1, LenProperties
    <2>3. \A j \in 1 .. Len(fences) : fences[j] \in S
      BY ElementOfSeq
    <2> HIDE DEF i
    <2>4. /\ 1 \in Int /\ i - 1 \in Int
          /\ \A j \in 1 .. (i - 1) : fences[j] \in S
      BY <2>2, <2>3
    <2>5. /\ i + 1 \in Int /\ Len(fences) \in Int
          /\ \A j \in (i + 1) .. Len(fences) : fences[j] \in S
      BY <2>2, <2>3
    <2>6. SubSeq(fences, 1, i - 1) \in Seq(S)
      BY <2>4, <2>2
    <2>7. SubSeq(fences, i + 1, Len(fences)) \in Seq(S)
      BY <2>5, <2>2
    <2>8. SubSeq(fences, 1, i - 1) \o SubSeq(fences, i + 1, Len(fences)) \in Seq(S)
      BY <2>6, <2>7, ConcatProperties
    <2> QED
      BY <1>2, <2>8 DEF FencesWithout, i
  <1> QED
    BY <1>1, <1>2

\* The index fenceRunAdmission stores holds ids that were in there, and the
\* fenced one.
LEMMA FencesType ==
  ASSUME NEW S, NEW r \in S, fences \in Seq(S), FenceRunAdmission(r)
  PROVE  fences' \in Seq(S)
  <1> DEFINE others == FencesWithout(r)
             kept == IF Len(others) < MaxFences THEN others
                     ELSE SubSeq(others, Len(others) - MaxFences + 2, Len(others))
  <1>1. others \in Seq(S)
    BY FencesWithoutType
  <1> HIDE DEF others
  <1>2. Len(others) \in Nat /\ \A j \in 1 .. Len(others) : others[j] \in S
    BY <1>1, LenProperties, ElementOfSeq
  <1>3. ASSUME ~(Len(others) < MaxFences)
        PROVE  SubSeq(others, Len(others) - MaxFences + 2, Len(others)) \in Seq(S)
    BY <1>1, <1>2, <1>3, BoundsAssumption
  <1>4. kept \in Seq(S)
    BY <1>1, <1>3
  <1> HIDE DEF kept
  <1>5. fences' = Append(kept, r)
    BY DEF FenceRunAdmission, kept, others
  <1> QED
    BY <1>4, <1>5, AppendProperties

\* A call that has not tried yet is within MAX_QUEUED_RUN_START_ATTEMPTS.
LEMMA NoAttempts == 0 \in 0 .. MaxAttempts
  BY BoundsAssumption

\* refreshRecoveryAlarm leaves the alarm armed or not.
LEMMA RefreshType == RefreshRecoveryAlarm => alarm' \in BOOLEAN
  BY Zenon DEF RefreshRecoveryAlarm, Owed

\* scheduleDrive chains a pump: the drive is a sequence of ids with work in it.
LEMMA DriveType ==
  ASSUME drive \in Seq(Runs), NEW r \in Runs, drive' = Append(drive, r)
  PROVE  drive' \in Seq(Runs) /\ drive' # <<>>
  <1>1. Append(drive, r) \in Seq(Runs) /\ Len(Append(drive, r)) = Len(drive) + 1
    BY AppendProperties
  <1>2. Len(drive) \in Nat
    BY LenProperties
  <1> QED
    BY <1>1, <1>2

-----------------------------------------------------------------------------
(* The type invariant                                                       *)

\* The object starts, empty, in a state of the right types.
LEMMA InitType == Init => TypeInv
  <1> SUFFICES ASSUME Init PROVE TypeInv
    OBVIOUS
  <1>1. run \in [Runs -> RunRecords]
    BY DEF Init, NoRecord, RunRecords, Statuses, Phases, Journals
  <1>2. /\ pc \in [Strands -> Places] /\ attempts \in [Strands -> 0 .. MaxAttempts]
        /\ evictions \in 0 .. MaxEvictions
    BY BoundsAssumption DEF Init, Places
  <1>3. alarm \in BOOLEAN
    BY DEF Init
  <1>4. TypeOK
    BY <1>1, <1>2, <1>3 DEF Init, TypeOK
  <1>5. /\ TargetsNamed /\ CallsNamed /\ AttemptsLeft /\ DriveNamed
    BY DEF Init, TargetsNamed, CallsNamed, AttemptsLeft, DriveNamed, Targeting,
           Executing, CallerPlaces, Strands
  <1> QED
    BY <1>4, <1>5 DEF TypeInv

\* Commands of clients keep the types (acceptRun, replayAdmission,
\* fenceRunAdmission, recordUnadmittedFailure, stopRun).
LEMMA CommandType ==
  ASSUME TypeInv, NEW r \in Runs, Command(r)
  PROVE  TypeInv'
  <1>0. TypeOK /\ run[r] \in RunRecords
    BY DEF TypeInv, TypeOK
  <1>1. CASE AcceptRun(r)
    <2>1. run' \in [Runs -> RunRecords]
      BY <1>0, <1>1 DEF AcceptRun, TypeOK, RunRecords, Statuses, Phases, Journals
    <2>2. drive' \in Seq(Runs) /\ drive' # <<>>
      BY <1>0, <1>1, DriveType DEF AcceptRun, TypeOK
    <2>3. alarm' \in BOOLEAN
      BY <1>1, RefreshType DEF AcceptRun
    <2>4. TypeOK'
      BY <1>0, <1>1, <2>1, <2>2, <2>3 DEF AcceptRun, TypeOK, held, waiting
    <2> QED
      BY <1>1, <2>2, <2>4 DEF AcceptRun, TypeInv, TargetsNamed, CallsNamed, AttemptsLeft,
                    DriveNamed, waiting
  <1>2. CASE ReplayAdmission(r)
    <2>1. drive' \in Seq(Runs) /\ drive' # <<>>
      BY <1>0, <1>2, DriveType DEF ReplayAdmission, TypeOK
    <2>2. TypeOK'
      BY <1>0, <1>2, <2>1 DEF ReplayAdmission, TypeOK, slots, held, waiting
    <2> QED
      BY <1>2, <2>1, <2>2 DEF ReplayAdmission, TypeInv, TargetsNamed, CallsNamed,
                    AttemptsLeft, DriveNamed, waiting
  <1>3. CASE FenceRunAdmission(r)
    <2>1. fences' \in Seq(Runs)
      BY <1>0, <1>3, FencesType DEF TypeOK
    <2>2. TypeOK'
      BY <1>0, <1>3, <2>1 DEF FenceRunAdmission, TypeOK, slots, held, driver, waiting
    <2> QED
      BY <1>3, <2>2 DEF FenceRunAdmission, TypeInv, TargetsNamed, CallsNamed,
                    AttemptsLeft, DriveNamed, driver, waiting
  <1>4. CASE RecordUnadmittedFailure(r)
    <2>1. run' \in [Runs -> RunRecords]
      BY <1>0, <1>4, RecordType DEF RecordUnadmittedFailure, TypeOK, Statuses
    <2>2. TypeOK'
      BY <1>0, <1>4, <2>1 DEF RecordUnadmittedFailure, TypeOK, held, driver, waiting
    <2> QED
      BY <1>4, <2>2 DEF RecordUnadmittedFailure, TypeInv, TargetsNamed, CallsNamed,
                    AttemptsLeft, DriveNamed, driver, waiting
  <1>5. CASE StopRun(r)
    <2>1. run' \in [Runs -> RunRecords]
      BY <1>0, <1>5, RecordType DEF StopRun, TypeOK
    <2>2. alarm' \in BOOLEAN
      BY <1>5, RefreshType DEF StopRun
    <2>3. TypeOK'
      BY <1>0, <1>5, <2>1, <2>2 DEF StopRun, TypeOK, held, driver, waiting
    <2> QED
      BY <1>5, <2>3 DEF StopRun, TypeInv, TargetsNamed, CallsNamed,
                    AttemptsLeft, DriveNamed, driver, waiting
  <1> QED
    BY <1>1, <1>2, <1>3, <1>4, <1>5 DEF Command

\* Settlement leaves records and slots of the right types (run-terminal.ts).
LEMMA SettlementType ==
  ASSUME TypeOK, NEW r \in Runs, FailStoredRun(r) \/ CompleteStoredRun(r)
  PROVE  /\ run' \in [Runs -> RunRecords]
         /\ active' \in Runs \cup {NoRun} /\ parked' \in Runs \cup {NoRun}
         /\ pendingUser' \subseteq Runs /\ pendingAgent' \subseteq Runs
  <1>1. Settled(r, "failed") \in RunRecords /\ Settled(r, "completed") \in RunRecords
    BY SettledType
  <1>2. run' \in [Runs -> RunRecords]
    BY <1>1 DEF FailStoredRun, CompleteStoredRun, TypeOK
  <1> QED
    BY <1>2 DEF FailStoredRun, CompleteStoredRun, LeaveQueue, TypeOK

\* Waking the callers that watch a run puts them at a place of run()'s loop.
LEMMA WakingType ==
  ASSUME NEW S, NEW places \in [Strands -> Places]
  PROVE  /\ Waking(S, places) \in [Strands -> Places]
         /\ \A c \in Strands :
              \/ Waking(S, places)[c] = places[c]
              \/ places[c] = "watch" /\ Waking(S, places)[c] = "loop"
  BY DEF Waking, Places, CallerPlaces

\* The second transaction of a Stop (settleStoppedParkedRun) keeps the types.
LEMMA SettleStoppedType ==
  ASSUME TypeInv, NEW r \in Runs, SettleStoppedParkedRun(r)
  PROVE  TypeInv'
  <1>0. TypeOK
    BY DEF TypeInv
  <1>1. CASE InPhase(r, "parked") /\ run[r].stop
    <2>1. /\ run' \in [Runs -> RunRecords]
          /\ active' \in Runs \cup {NoRun} /\ parked' \in Runs \cup {NoRun}
          /\ pendingUser' \subseteq Runs /\ pendingAgent' \subseteq Runs
      BY <1>0, <1>1, SettlementType DEF SettleStoppedParkedRun
    <2>2. alarm' \in BOOLEAN
      BY <1>1, RefreshType DEF SettleStoppedParkedRun
    <2>3. /\ pc' \in [Strands -> Places]
          /\ \A c \in Strands : pc'[c] = pc[c] \/ (pc[c] = "watch" /\ pc'[c] = "loop")
      <3>1. pc \in [Strands -> Places]
        BY <1>0 DEF TypeOK
      <3>2. pc' = Waking({r}, pc)
        BY <1>1 DEF SettleStoppedParkedRun
      <3> QED
        BY <3>1, <3>2, WakingType
    <2>4. TypeOK'
      BY <1>0, <2>1, <2>2, <2>3 DEF SettleStoppedParkedRun, TypeOK, held, driver, waiting
    <2>5. UNCHANGED <<tgt, want, cont, attempts, drive>>
      BY DEF SettleStoppedParkedRun, driver, waiting
    <2>6. TargetsNamed' /\ AttemptsLeft' /\ DriveNamed'
      BY <2>3, <2>5, StrandsAssumption
      DEF TypeInv, TargetsNamed, CallsNamed, AttemptsLeft, DriveNamed, Targeting, Executing,
          CallerPlaces, Strands
    <2>7. CallsNamed'
      BY <2>3, <2>5 DEF TypeInv, CallsNamed, CallerPlaces
    <2> QED
      BY <2>4, <2>6, <2>7 DEF TypeInv
  <1>2. CASE ~(InPhase(r, "parked") /\ run[r].stop)
    <2>1. UNCHANGED <<slots, alarm, pc, fences, held, driver, tgt, waiting, evictions>>
      BY <1>2 DEF SettleStoppedParkedRun
    <2>2. TypeOK'
      BY <1>0, <2>1
      DEF SettleStoppedParkedRun, TypeOK, slots, held, driver, waiting
    <2> QED
      BY <2>1, <2>2 DEF TypeInv, TargetsNamed, CallsNamed, AttemptsLeft, DriveNamed,
                    driver, waiting
  <1> QED
    BY <1>1, <1>2

\* An eviction leaves memory as a new object finds it.
LEMMA EvictType ==
  ASSUME TypeInv, Evict
  PROVE  TypeInv'
  <1>0. TypeOK
    BY DEF TypeInv
  <1>1. alarm' \in BOOLEAN
    BY Zenon DEF Evict
  <1>2. /\ pc' \in [Strands -> Places] /\ attempts' \in [Strands -> 0 .. MaxAttempts]
        /\ evictions' \in 0 .. MaxEvictions
    BY <1>0, BoundsAssumption DEF Evict, TypeOK, Places
  <1>3. TypeOK'
    BY <1>0, <1>1, <1>2 DEF Evict, TypeOK, slots
  <1>4. (TargetsNamed /\ CallsNamed /\ AttemptsLeft /\ DriveNamed)'
    BY DEF Evict, TargetsNamed, CallsNamed, AttemptsLeft, DriveNamed, Targeting,
           Executing, CallerPlaces, Strands
  <1> QED
    BY <1>3, <1>4 DEF TypeInv

-----------------------------------------------------------------------------
(* The type invariant: strands                                              *)

\* A strand goes on, for the same call of run(), to a place that its target
\* and its continuation allow: what recovery and Turns do with a strand.
LEMMA GotoType ==
  ASSUME TypeInv, NEW s \in Strands, NEW p \in Places, Goto(s, p),
         tgt' \in [Strands -> Runs \cup {NoRun}],
         p \in Targeting => tgt'[s] \in Runs,
         \A o \in Strands \ {s} : tgt'[o] = tgt[o],
         p \notin CallerPlaces \cup {"idle"}, pc[s] # "idle",
         pc[s] \notin CallerPlaces,
         cont[s] = "mine" =>
           p \in Executing \cup {"finish", "unwind", "unwindThrow", "return", "threw"},
         UNCHANGED <<drive, want, cont, attempts>>
  PROVE  /\ pc' \in [Strands -> Places]
         /\ TargetsNamed' /\ CallsNamed' /\ AttemptsLeft' /\ DriveNamed'
  <1>1. /\ pc \in [Strands -> Places] /\ pc' = [pc EXCEPT ![s] = p]
        /\ pc' \in [Strands -> Places]
        /\ pc'[s] = p /\ \A o \in Strands \ {s} : pc'[o] = pc[o]
    BY DEF Goto, TypeInv, TypeOK
  <1>2. TargetsNamed'
    BY <1>1 DEF TypeInv, TargetsNamed
  <1>3. CallsNamed'
    BY <1>1 DEF TypeInv, CallsNamed, CallerPlaces
  <1>4. AttemptsLeft'
    BY <1>1 DEF TypeInv, AttemptsLeft, Executing
  <1>5. DriveNamed'
    BY <1>1 DEF TypeInv, DriveNamed, Strands
  <1> QED
    BY <1>1, <1>2, <1>3, <1>4, <1>5

\* recoverActiveRun and recoverQueuedRun read the slots and pick a target.
LEMMA ReadType ==
  ASSUME TypeInv, NEW s \in Strands, ReadActive(s) \/ ReadQueue(s)
  PROVE  TypeInv'
  <1>0. TypeOK /\ AttemptsLeft
    BY DEF TypeInv
  <1>1. pendingUser # {} => FirstPending(pendingUser) \in Runs
    BY <1>0, FirstPendingIsOldest DEF TypeOK
  <1>2. pendingAgent # {} => FirstPending(pendingAgent) \in Runs
    BY <1>0, FirstPendingIsOldest DEF TypeOK
  <1>3. /\ UNCHANGED <<slots, fences, alarm, held, driver, stopping, waiting, evictions>>
        /\ pc[s] \in {"recover", "queued"}
    BY DEF ReadActive, ReadQueue
  <1>4. cont[s] # "mine"
    BY <1>0, <1>3 DEF AttemptsLeft, Executing
  <1>5. PICK p \in {"queued", "return", "recoverTx", "unpark", "promote"} :
          /\ Goto(s, p)
          /\ tgt' \in [Strands -> Runs \cup {NoRun}]
          /\ p \in Targeting => tgt'[s] \in Runs
          /\ \A o \in Strands \ {s} : tgt'[o] = tgt[o]
    <2>1. CASE ReadActive(s)
      BY <1>0, <2>1 DEF ReadActive, TypeOK, Targeting, Executing
    <2>2. CASE ReadQueue(s)
      BY <1>0, <1>1, <1>2, <2>2 DEF ReadQueue, TypeOK, Targeting, Executing
    <2> QED
      BY <2>1, <2>2
  <1>6. /\ pc' \in [Strands -> Places]
        /\ TargetsNamed' /\ CallsNamed' /\ AttemptsLeft' /\ DriveNamed'
    BY <1>3, <1>4, <1>5, GotoType
    DEF Places, Queueing, Executing, CallerPlaces, driver, waiting
  <1>7. TypeOK'
    BY <1>0, <1>3, <1>5, <1>6 DEF TypeOK, slots, held, driver, waiting
  <1> QED
    BY <1>6, <1>7 DEF TypeInv

\* A write of one run record by recovery or a Turn keeps the records' type.
LEMMA RunWriteType ==
  ASSUME TypeOK, NEW r \in Runs, NEW p \in Phases, NEW l \in Journals
  PROVE  /\ [run EXCEPT ![r] = WithPhase(run[r], p)] \in [Runs -> RunRecords]
         /\ [run EXCEPT ![r] = WithLog(run[r], l)] \in [Runs -> RunRecords]
         /\ [run EXCEPT ![r] = WithLog(WithPhase(run[r], p), l)]
              \in [Runs -> RunRecords]
  <1>1. run[r] \in RunRecords /\ WithPhase(run[r], p) \in RunRecords
    BY RecordType DEF TypeOK
  <1>2. WithLog(run[r], l) \in RunRecords /\ WithLog(WithPhase(run[r], p), l) \in RunRecords
    BY <1>1, RecordType
  <1> QED
    BY <1>1, <1>2 DEF TypeOK

\* recoverActiveRun's transaction keeps the types.
LEMMA RecoverActiveType ==
  ASSUME TypeInv, NEW s \in Strands, RecoverActiveRun(s)
  PROVE  TypeInv'
  <1>0. TypeOK /\ AttemptsLeft /\ TargetsNamed
    BY DEF TypeInv
  <1>1. /\ pc[s] = "recoverTx" /\ tgt[s] \in Runs
        /\ UNCHANGED <<fences, driver, stopping, waiting, evictions>>
    BY <1>0 DEF RecoverActiveRun, TargetsNamed, Targeting
  <1>2. cont[s] # "mine"
    BY <1>0, <1>1 DEF AttemptsLeft, Executing
  <1>3. /\ [run EXCEPT ![tgt[s]] = WithPhase(run[tgt[s]], "executing")]
             \in [Runs -> RunRecords]
        /\ [run EXCEPT ![tgt[s]] = WithLog(WithPhase(run[tgt[s]], "admitted"), "quiet")]
             \in [Runs -> RunRecords]
    BY <1>0, <1>1, RunWriteType DEF Phases, Journals
  <1>4. FailStoredRun(tgt[s]) \/ CompleteStoredRun(tgt[s]) =>
        /\ run' \in [Runs -> RunRecords]
        /\ active' \in Runs \cup {NoRun} /\ parked' \in Runs \cup {NoRun}
        /\ pendingUser' \subseteq Runs /\ pendingAgent' \subseteq Runs
    BY <1>0, <1>1, SettlementType
  <1>5. /\ run' \in [Runs -> RunRecords]
        /\ active' \in Runs \cup {NoRun} /\ parked' \in Runs \cup {NoRun}
        /\ pendingUser' \subseteq Runs /\ pendingAgent' \subseteq Runs
        /\ executing' \in Runs \cup {NoRun}
        /\ activity' \in Strands \cup {NoStrand}
    BY <1>0, <1>1, <1>3, <1>4 DEF RecoverActiveRun, TypeOK, slots, held
  <1>6. alarm' \in BOOLEAN
    <2>1. RefreshRecoveryAlarm \/ UNCHANGED alarm
      BY DEF RecoverActiveRun
    <2> QED
      BY <1>0, <2>1, RefreshType DEF TypeOK
  <1>7. PICK p \in {"return", "finish", "threw", "start", "turn"} : Goto(s, p)
    BY DEF RecoverActiveRun
  <1>8. /\ tgt' \in [Strands -> Runs \cup {NoRun}]
        /\ p \in Targeting => tgt'[s] \in Runs
        /\ \A o \in Strands \ {s} : tgt'[o] = tgt[o]
    BY <1>0, <1>1, <1>7 DEF RecoverActiveRun, ForgetTarget, Goto, TypeOK
  <1>9. /\ pc' \in [Strands -> Places]
        /\ TargetsNamed' /\ CallsNamed' /\ AttemptsLeft' /\ DriveNamed'
    BY <1>1, <1>2, <1>7, <1>8, GotoType
    DEF Places, Queueing, Executing, CallerPlaces, driver, waiting
  <1>10. TypeOK'
    BY <1>0, <1>1, <1>5, <1>6, <1>8, <1>9 DEF TypeOK, driver, waiting
  <1> QED
    BY <1>9, <1>10 DEF TypeInv

\* unparkRun keeps the types.
LEMMA UnparkType ==
  ASSUME TypeInv, NEW s \in Strands, UnparkRun(s)
  PROVE  TypeInv'
  <1>0. TypeOK /\ AttemptsLeft /\ TargetsNamed
    BY DEF TypeInv
  <1>1. /\ pc[s] = "unpark" /\ tgt[s] \in Runs
        /\ UNCHANGED <<fences, held, driver, stopping, waiting, evictions>>
    BY <1>0 DEF UnparkRun, TargetsNamed, Targeting
  <1>2. cont[s] # "mine"
    BY <1>0, <1>1 DEF AttemptsLeft, Executing
  <1>3. [run EXCEPT ![tgt[s]] = WithPhase(run[tgt[s]], "admitted")] \in [Runs -> RunRecords]
    BY <1>0, <1>1, RunWriteType DEF Phases, Journals
  <1>5. /\ run' \in [Runs -> RunRecords]
        /\ active' \in Runs \cup {NoRun} /\ parked' \in Runs \cup {NoRun}
        /\ pendingUser' \subseteq Runs /\ pendingAgent' \subseteq Runs
    BY <1>0, <1>1, <1>3 DEF UnparkRun, TypeOK, slots, Pruned
  <1>6. alarm' \in BOOLEAN
    <2>1. RefreshRecoveryAlarm \/ UNCHANGED alarm
      BY DEF UnparkRun
    <2> QED
      BY <1>0, <2>1, RefreshType DEF TypeOK
  <1>7. PICK p \in {"return", "queued", "recover"} : Goto(s, p)
    BY DEF UnparkRun
  <1>8. /\ tgt' \in [Strands -> Runs \cup {NoRun}]
        /\ p \in Targeting => tgt'[s] \in Runs
        /\ \A o \in Strands \ {s} : tgt'[o] = tgt[o]
    BY <1>0, <1>1, <1>7 DEF UnparkRun, ForgetTarget, Goto, TypeOK
  <1>9. /\ pc' \in [Strands -> Places]
        /\ TargetsNamed' /\ CallsNamed' /\ AttemptsLeft' /\ DriveNamed'
    BY <1>1, <1>2, <1>7, <1>8, GotoType
    DEF Places, Queueing, Executing, CallerPlaces, driver, waiting
  <1>10. TypeOK'
    BY <1>0, <1>1, <1>5, <1>6, <1>8, <1>9 DEF TypeOK, held, driver, waiting
  <1> QED
    BY <1>9, <1>10 DEF TypeInv

\* The transactions that start, settle, park or defer a Turn keep the types.
LEMMA TurnTransactionType ==
  ASSUME TypeInv, NEW s \in Strands,
         StartRun(s) \/ CompleteRun(s) \/ FailRun(s) \/ ParkRun(s) \/ DeferRunRecovery(s)
  PROVE  TypeInv'
  <1>0. TypeOK /\ AttemptsLeft /\ TargetsNamed
    BY DEF TypeInv
  <1>1. /\ pc[s] \in {"start", "complete", "fail", "park", "defer"}
        /\ UNCHANGED <<fences, held, driver, stopping, tgt, waiting, evictions>>
    BY DEF StartRun, CompleteRun, FailRun, ParkRun, DeferRunRecovery
  <1>2. tgt[s] \in Runs
    BY <1>0, <1>1 DEF TargetsNamed, Targeting, Executing
  <1>3. /\ [run EXCEPT ![tgt[s]] = WithPhase(run[tgt[s]], "executing")]
             \in [Runs -> RunRecords]
        /\ [run EXCEPT ![tgt[s]] = WithPhase(run[tgt[s]], "parked")]
             \in [Runs -> RunRecords]
    BY <1>0, <1>2, RunWriteType DEF Phases, Journals
  <1>4. FailStoredRun(tgt[s]) \/ CompleteStoredRun(tgt[s]) =>
        /\ run' \in [Runs -> RunRecords]
        /\ active' \in Runs \cup {NoRun} /\ parked' \in Runs \cup {NoRun}
        /\ pendingUser' \subseteq Runs /\ pendingAgent' \subseteq Runs
    BY <1>0, <1>2, SettlementType
  <1>5. /\ run' \in [Runs -> RunRecords]
        /\ active' \in Runs \cup {NoRun} /\ parked' \in Runs \cup {NoRun}
        /\ pendingUser' \subseteq Runs /\ pendingAgent' \subseteq Runs
    BY <1>0, <1>2, <1>3, <1>4
    DEF StartRun, CompleteRun, FailRun, ParkRun, DeferRunRecovery, ActiveAfterPark,
        TypeOK, slots
  <1>6. alarm' \in BOOLEAN
    <2>1. RefreshRecoveryAlarm \/ UNCHANGED alarm
      BY DEF StartRun, CompleteRun, FailRun, ParkRun, DeferRunRecovery
    <2> QED
      BY <1>0, <2>1, RefreshType DEF TypeOK
  <1>7. PICK p \in {"turn", "fail", "finish", "unwind", "unwindThrow"} : Goto(s, p)
    BY DEF StartRun, CompleteRun, FailRun, ParkRun, DeferRunRecovery
  <1>9. /\ pc' \in [Strands -> Places]
        /\ TargetsNamed' /\ CallsNamed' /\ AttemptsLeft' /\ DriveNamed'
    BY <1>0, <1>1, <1>2, <1>7, GotoType
    DEF Places, Queueing, Executing, CallerPlaces, driver, waiting, TypeOK
  <1>10. TypeOK'
    BY <1>0, <1>1, <1>5, <1>6, <1>9 DEF TypeOK, held, driver, waiting
  <1> QED
    BY <1>9, <1>10 DEF TypeInv

\* The steps of a Turn keep the types.
LEMMA TurnType ==
  ASSUME TypeInv, NEW s \in Strands, Turn(s)
  PROVE  TypeInv'
  <1>0. TypeOK /\ AttemptsLeft /\ TargetsNamed
    BY DEF TypeInv
  <1>1. /\ pc[s] = "turn"
        /\ UNCHANGED <<active, parked, pendingUser, pendingAgent, fences, held, driver,
                       stopping, tgt, waiting, evictions>>
    BY DEF Turn, JournalIntent, AdmitRunEffect, JournalOutcome, EndTurn, LeaveTurnOpen,
           InTurn, Journal, slots
  <1>2. tgt[s] \in Runs
    BY <1>0, <1>1 DEF TargetsNamed, Targeting, Executing
  <1>3. run' \in [Runs -> RunRecords]
    <2>1. \A l \in Journals : [run EXCEPT ![tgt[s]] = WithLog(run[tgt[s]], l)]
                                \in [Runs -> RunRecords]
      BY <1>0, <1>2, RunWriteType DEF Phases
    <2>2. \/ UNCHANGED run
          \/ \E l \in Journals : run' = [run EXCEPT ![tgt[s]] = WithLog(run[tgt[s]], l)]
      BY DEF Turn, JournalIntent, AdmitRunEffect, JournalOutcome, EndTurn, LeaveTurnOpen,
             Journal, slots, Journals
    <2> QED
      BY <1>0, <2>1, <2>2 DEF TypeOK
  <1>4. alarm' \in BOOLEAN
    <2>1. RefreshRecoveryAlarm \/ UNCHANGED alarm
      BY DEF Turn, JournalIntent, AdmitRunEffect, JournalOutcome, EndTurn, LeaveTurnOpen,
             Journal
    <2> QED
      BY <1>0, <2>1, RefreshType DEF TypeOK
  <1>5. PICK p \in {"turn", "complete", "fail", "defer", "park"} : Goto(s, p)
    <2>1. UNCHANGED pc => Goto(s, "turn")
      BY <1>0, <1>1 DEF Goto, TypeOK
    <2> QED
      BY <2>1 DEF Turn, JournalIntent, AdmitRunEffect, JournalOutcome, EndTurn,
                  LeaveTurnOpen
  <1>6. /\ pc' \in [Strands -> Places]
        /\ TargetsNamed' /\ CallsNamed' /\ AttemptsLeft' /\ DriveNamed'
    BY <1>0, <1>1, <1>2, <1>5, GotoType
    DEF Places, Queueing, Executing, CallerPlaces, driver, waiting, TypeOK
  <1>7. TypeOK'
    BY <1>0, <1>1, <1>3, <1>4, <1>6 DEF TypeOK, held, driver, waiting
  <1> QED
    BY <1>6, <1>7 DEF TypeInv

\* A call of run() that ends leaves nothing of its strand behind.
LEMMA CallerLeavesType ==
  ASSUME TypeInv, NEW s \in Callers, NEW p \in {"idle", "could not start"},
         CallerLeaves(s, p), tgt' \in [Strands -> Runs \cup {NoRun}],
         \A o \in Strands \ {s} : tgt'[o] = tgt[o], UNCHANGED drive
  PROVE  /\ pc' \in [Strands -> Places]
         /\ want' \in [Strands -> Runs \cup {NoRun}]
         /\ cont' \in [Strands -> {"loop", "attempt", "mine"}]
         /\ attempts' \in [Strands -> 0 .. MaxAttempts]
         /\ queuedWaiters' \subseteq Runs
         /\ TargetsNamed' /\ CallsNamed' /\ AttemptsLeft' /\ DriveNamed'
  <1>0. TypeOK /\ s \in Strands /\ s # "drive"
    BY StrandsAssumption DEF TypeInv, Strands
  <1>1. /\ pc' \in [Strands -> Places]
        /\ pc'[s] = p /\ \A o \in Strands \ {s} : pc'[o] = pc[o]
    BY <1>0 DEF CallerLeaves, Goto, TypeOK, Places, CallerPlaces
  <1>2. /\ want' \in [Strands -> Runs \cup {NoRun}]
        /\ \A o \in Strands \ {s} : want'[o] = want[o]
    BY <1>0 DEF CallerLeaves, TypeOK
  <1>3. /\ cont' \in [Strands -> {"loop", "attempt", "mine"}]
        /\ cont'[s] = "loop" /\ \A o \in Strands \ {s} : cont'[o] = cont[o]
    BY <1>0 DEF CallerLeaves, TypeOK
  <1>4. /\ attempts' \in [Strands -> 0 .. MaxAttempts]
        /\ \A o \in Strands \ {s} : attempts'[o] = attempts[o]
    <2>1. 0 \in 0 .. MaxAttempts
      BY NoAttempts
    <2>2. attempts \in [Strands -> 0 .. MaxAttempts]
      BY <1>0 DEF TypeOK
    <2>3. attempts' = [attempts EXCEPT ![s] = 0]
      BY DEF CallerLeaves
    <2> QED
      BY <1>0, <2>1, <2>2, <2>3
  <1>5. queuedWaiters' \subseteq Runs
    BY <1>0 DEF CallerLeaves, TypeOK
  <1>6. TargetsNamed'
    BY <1>1 DEF TypeInv, TargetsNamed, Targeting, Executing
  <1>7. CallsNamed'
    BY <1>1, <1>2, <1>3 DEF TypeInv, CallsNamed
  <1>8. AttemptsLeft' /\ DriveNamed'
    BY <1>0, <1>1, <1>3, <1>4 DEF TypeInv, AttemptsLeft, DriveNamed, Strands
  <1> QED
    BY <1>1, <1>2, <1>3, <1>4, <1>5, <1>6, <1>7, <1>8

\* promoteQueuedRun, for recovery and for a caller, keeps the types.
LEMMA PromoteType ==
  ASSUME TypeInv, NEW s \in Strands, PromoteQueuedRun(s)
  PROVE  TypeInv'
  <1>0. TypeOK /\ AttemptsLeft /\ TargetsNamed /\ CallsNamed
    BY DEF TypeInv
  <1>1. /\ pc[s] = "promote" /\ tgt[s] \in Runs
        /\ UNCHANGED <<parked, fences, driver, stopping, evictions>>
    BY <1>0 DEF PromoteQueuedRun, TargetsNamed, Targeting
  <1>2. [run EXCEPT ![tgt[s]] = WithPhase(run[tgt[s]], "admitted")] \in [Runs -> RunRecords]
    BY <1>0, <1>1, RunWriteType DEF Phases, Journals
  <1>3. /\ run' \in [Runs -> RunRecords]
        /\ active' \in Runs \cup {NoRun}
        /\ pendingUser' \subseteq Runs /\ pendingAgent' \subseteq Runs
        /\ executing' \in Runs \cup {NoRun}
        /\ activity' \in Strands \cup {NoStrand}
    BY <1>0, <1>1, <1>2 DEF PromoteQueuedRun, TypeOK, held, Dequeued, Pruned
  <1>4. alarm' \in BOOLEAN
    <2>1. RefreshRecoveryAlarm \/ UNCHANGED alarm
      BY DEF PromoteQueuedRun
    <2> QED
      BY <1>0, <2>1, RefreshType DEF TypeOK
  <1>5. ASSUME NEW p, Goto(s, p), p \in Places, p \in {"start", "promoted"} \/ p \notin Targeting
        PROVE  /\ tgt' \in [Strands -> Runs \cup {NoRun}]
               /\ p \in Targeting => tgt'[s] \in Runs
               /\ \A o \in Strands \ {s} : tgt'[o] = tgt[o]
    BY <1>0, <1>1, <1>5 DEF PromoteQueuedRun, ForgetTarget, Goto, TypeOK
  <1> DEFINE Rest == /\ tgt' \in [Strands -> Runs \cup {NoRun}]
                     /\ pc' \in [Strands -> Places]
                     /\ want' \in [Strands -> Runs \cup {NoRun}]
                     /\ cont' \in [Strands -> {"loop", "attempt", "mine"}]
                     /\ attempts' \in [Strands -> 0 .. MaxAttempts]
                     /\ queuedWaiters' \subseteq Runs
                     /\ TargetsNamed' /\ CallsNamed' /\ AttemptsLeft' /\ DriveNamed'
  <1>6. Rest
    <2>1. ASSUME NEW p \in {"start", "promoted", "queued", "return"}, Goto(s, p),
                 p \in {"promoted", "queued"} => cont[s] # "mine", UNCHANGED waiting
          PROVE  Rest
      <3>1. /\ tgt' \in [Strands -> Runs \cup {NoRun}]
            /\ p \in Targeting => tgt'[s] \in Runs
            /\ \A o \in Strands \ {s} : tgt'[o] = tgt[o]
        BY <2>1, <1>5 DEF Places, Targeting, Queueing, Executing
      <3>2. /\ pc' \in [Strands -> Places]
            /\ TargetsNamed' /\ CallsNamed' /\ AttemptsLeft' /\ DriveNamed'
        BY <1>1, <2>1, <3>1, GotoType
        DEF Places, Queueing, Executing, CallerPlaces, driver, waiting
      <3> QED
        BY <1>0, <2>1, <3>1, <3>2 DEF TypeOK, waiting
    <2>2. ASSUME CallerLeaves(s, "idle"), cont[s] = "mine"
          PROVE  Rest
      <3>1. s \in Callers
        BY <1>0, <2>2 DEF CallsNamed
      <3>2. /\ tgt' \in [Strands -> Runs \cup {NoRun}]
            /\ \A o \in Strands \ {s} : tgt'[o] = tgt[o]
        BY <1>5, <2>2 DEF CallerLeaves, Places, Targeting, Executing
      <3> QED
        BY <1>1, <2>2, <3>1, <3>2, CallerLeavesType DEF driver
    <2>3. ASSUME attempts' = [attempts EXCEPT ![s] = @ + 1],
                 cont' = [cont EXCEPT ![s] = "attempt"], cont[s] = "mine",
                 Goto(s, "recover"), UNCHANGED <<want, queuedWaiters>>
          PROVE  Rest
      <3>1. s \in Callers /\ s # "drive" /\ want[s] \in Runs
        BY <1>0, <1>1, <2>3, StrandsAssumption DEF CallsNamed
      <3>2. /\ tgt' \in [Strands -> Runs \cup {NoRun}]
            /\ \A o \in Strands \ {s} : tgt'[o] = tgt[o]
        BY <1>5, <2>3 DEF Places, Targeting, Executing
      <3>3. attempts[s] \in 0 .. MaxAttempts /\ attempts[s] < MaxAttempts
        BY <1>0, <1>1, <2>3 DEF AttemptsLeft, TypeOK
      <3>4. /\ attempts' \in [Strands -> 0 .. MaxAttempts]
            /\ \A o \in Strands \ {s} : attempts'[o] = attempts[o]
        BY <1>0, <2>3, <3>3, BoundsAssumption DEF TypeOK
      <3>5. /\ cont' \in [Strands -> {"loop", "attempt", "mine"}]
            /\ cont'[s] = "attempt" /\ \A o \in Strands \ {s} : cont'[o] = cont[o]
        BY <1>0, <2>3 DEF TypeOK
      <3>6. /\ pc' \in [Strands -> Places]
            /\ pc'[s] = "recover" /\ \A o \in Strands \ {s} : pc'[o] = pc[o]
        BY <1>0, <2>3 DEF Goto, TypeOK, Places
      <3>7. TargetsNamed'
        BY <1>0, <3>2, <3>6 DEF TargetsNamed, Targeting, Executing
      <3>8. CallsNamed'
        BY <1>0, <2>3, <3>1, <3>5, <3>6 DEF CallsNamed
      <3>9. AttemptsLeft' /\ DriveNamed'
        BY <1>1, <3>1, <3>4, <3>5, <3>6
        DEF TypeInv, AttemptsLeft, DriveNamed, Strands, driver
      <3> QED
        BY <1>0, <2>3, <3>2, <3>4, <3>5, <3>6, <3>7, <3>8, <3>9 DEF TypeOK
    <2> HIDE DEF Rest
    <2> QED
      BY <2>1, <2>2, <2>3 DEF PromoteQueuedRun
  <1>7. TypeOK'
    BY <1>0, <1>1, <1>3, <1>4, <1>6 DEF TypeOK, driver
  <1> QED
    BY <1>6, <1>7 DEF TypeInv

\* recoverQueuedRun's execution of the run it promoted keeps the types.
LEMMA ExecutePromotedType ==
  ASSUME TypeInv, NEW s \in Strands, ExecutePromoted(s)
  PROVE  TypeInv'
  <1>0. TypeOK /\ AttemptsLeft /\ TargetsNamed
    BY DEF TypeInv
  <1>1. /\ pc[s] = "promoted" /\ tgt[s] \in Runs
        /\ UNCHANGED <<slots, fences, alarm, driver, stopping, waiting, evictions>>
    BY <1>0 DEF ExecutePromoted, TargetsNamed, Targeting
  <1>2. cont[s] # "mine"
    BY <1>0, <1>1 DEF AttemptsLeft, Executing
  <1>3. executing' \in Runs \cup {NoRun} /\ activity' \in Strands \cup {NoStrand}
    BY <1>0, <1>1 DEF ExecutePromoted, TypeOK, held
  <1>4. PICK p \in {"start", "threw"} : Goto(s, p)
    BY DEF ExecutePromoted
  <1>5. /\ tgt' \in [Strands -> Runs \cup {NoRun}]
        /\ p \in Targeting => tgt'[s] \in Runs
        /\ \A o \in Strands \ {s} : tgt'[o] = tgt[o]
    BY <1>0, <1>1, <1>4 DEF ExecutePromoted, ForgetTarget, Goto, TypeOK
  <1>6. /\ pc' \in [Strands -> Places]
        /\ TargetsNamed' /\ CallsNamed' /\ AttemptsLeft' /\ DriveNamed'
    BY <1>1, <1>2, <1>4, <1>5, GotoType
    DEF Places, Queueing, Executing, CallerPlaces, driver, waiting
  <1>7. TypeOK'
    BY <1>0, <1>1, <1>3, <1>5, <1>6 DEF TypeOK, slots, driver, waiting
  <1> QED
    BY <1>6, <1>7 DEF TypeInv

\* noteSettled and the finally blocks keep the types.
LEMMA FinishType ==
  ASSUME TypeInv, NEW s \in Strands, Finish(s)
  PROVE  TypeInv'
  <1>0. TypeOK /\ AttemptsLeft /\ TargetsNamed /\ CallsNamed /\ DriveNamed
    BY DEF TypeInv
  <1>1. /\ pc[s] \in {"finish", "unwind", "unwindThrow"}
        /\ tgt' = [tgt EXCEPT ![s] = NoRun]
        /\ UNCHANGED <<slots, fences, alarm, driver, stopping, waiting, evictions>>
        /\ executing' \in {executing, NoRun} /\ activity' \in {activity, NoStrand}
    BY DEF Finish, ExecutingAfter
  <1>2. PICK p \in {"return", "threw"}, S \in {{tgt[s]}, {}} :
          pc' = Waking(S, [pc EXCEPT ![s] = p])
    BY DEF Finish
  <1>3. /\ pc' \in [Strands -> Places]
        /\ pc'[s] = p
        /\ \A o \in Strands \ {s} : pc'[o] = pc[o] \/ (pc[o] = "watch" /\ pc'[o] = "loop")
    <2> DEFINE places == [pc EXCEPT ![s] = p]
    <2>1. places \in [Strands -> Places] /\ places[s] = p
          /\ \A o \in Strands \ {s} : places[o] = pc[o]
      BY <1>0 DEF TypeOK, Places
    <2> HIDE DEF places
    <2>2. pc' = Waking(S, places)
      BY <1>2 DEF places
    <2> QED
      BY <2>1, <2>2, WakingType
  <1>4. /\ tgt' \in [Strands -> Runs \cup {NoRun}]
        /\ \A o \in Strands \ {s} : tgt'[o] = tgt[o]
    BY <1>0, <1>1 DEF TypeOK
  <1>5. TypeOK'
    BY <1>0, <1>1, <1>3, <1>4 DEF TypeOK, slots, driver, waiting
  <1>6. TargetsNamed'
    BY <1>0, <1>3, <1>4 DEF TargetsNamed, Targeting, Executing
  <1>7. CallsNamed'
    BY <1>0, <1>1, <1>3 DEF CallsNamed, CallerPlaces, waiting
  <1>8. AttemptsLeft' /\ DriveNamed'
    BY <1>0, <1>1, <1>3, StrandsAssumption
    DEF AttemptsLeft, DriveNamed, CallsNamed, CallerPlaces, Executing, Strands, waiting, driver
  <1> QED
    BY <1>5, <1>6, <1>7, <1>8 DEF TypeInv

\* The alarm handler keeps the types.
LEMMA AlarmType ==
  ASSUME TypeInv, AlarmFires \/ AlarmChecks \/ AlarmReturns
  PROVE  TypeInv'
  <1>0. TypeOK /\ AttemptsLeft /\ TargetsNamed /\ CallsNamed /\ DriveNamed
    BY DEF TypeInv
  <1>1. /\ UNCHANGED <<slots, fences, held, driver, stopping, tgt, waiting, evictions>>
        /\ "alarm" \in Strands /\ "alarm" \notin Callers
    BY StrandsAssumption DEF AlarmFires, AlarmChecks, AlarmReturns, Strands
  <1>2. alarm' \in BOOLEAN
    <2>1. RefreshRecoveryAlarm \/ UNCHANGED alarm \/ alarm' = FALSE
      BY DEF AlarmFires, AlarmChecks, AlarmReturns
    <2> QED
      BY <1>0, <2>1, RefreshType DEF TypeOK
  <1>3. PICK p \in {"alarmed", "idle", "queued", "recover"} : Goto("alarm", p)
    BY DEF AlarmFires, AlarmChecks, AlarmReturns
  <1>4. /\ pc' \in [Strands -> Places]
        /\ pc'["alarm"] = p /\ \A o \in Strands \ {"alarm"} : pc'[o] = pc[o]
    BY <1>0, <1>1, <1>3 DEF Goto, TypeOK, Places, Queueing
  <1>5. TypeOK'
    BY <1>0, <1>1, <1>2, <1>4 DEF TypeOK, slots, held, driver, waiting
  <1>6. TargetsNamed'
    BY <1>0, <1>1, <1>4 DEF TargetsNamed, Targeting, Executing
  <1>7. CallsNamed'
    BY <1>0, <1>1, <1>4 DEF CallsNamed, CallerPlaces, waiting
  <1>8. AttemptsLeft' /\ DriveNamed'
    BY <1>0, <1>1, <1>4
    DEF AttemptsLeft, DriveNamed, CallsNamed, Strands, waiting, driver
  <1> QED
    BY <1>5, <1>6, <1>7, <1>8 DEF TypeInv

\* The drive chain keeps the types (scheduleDrive, pumpUntil).
LEMMA DriveStepType ==
  ASSUME TypeInv, DrivePumps \/ DriveReturns
  PROVE  TypeInv'
  <1>0. TypeOK /\ AttemptsLeft /\ TargetsNamed /\ CallsNamed /\ DriveNamed
    BY DEF TypeInv
  <1>1. /\ UNCHANGED <<slots, fences, alarm, held, stopping, tgt, waiting, evictions>>
        /\ "drive" \in Strands /\ "drive" \notin Callers
        /\ drive # <<>>
    BY <1>0, StrandsAssumption DEF DrivePumps, DriveReturns, Strands, DriveNamed
  <1>2. Head(drive) \in Runs /\ Tail(drive) \in Seq(Runs)
    BY <1>0, <1>1, HeadTailProperties DEF TypeOK
  <1>3. drive' \in Seq(Runs) /\ driveError' \in Runs \cup {NoRun}
    BY <1>0, <1>2 DEF DrivePumps, DriveReturns, DriveEnds, driver, TypeOK
  <1>4. /\ pc' \in [Strands -> Places]
        /\ pc'["drive"] \in {"idle", "recover"}
        /\ pc'["drive"] = "recover" => drive' = drive
        /\ \A o \in Strands \ {"drive"} : pc'[o] = pc[o] \/ (pc[o] = "watch" /\ pc'[o] = "loop")
    <2> DEFINE places == [pc EXCEPT !["drive"] = "idle"]
    <2>1. CASE UNCHANGED driver /\ \E p \in {"idle", "recover"} : Goto("drive", p)
      BY <1>0, <1>1, <2>1 DEF Goto, TypeOK, Places, driver
    <2>2. CASE pc' = Waking(Runs, places)
      <3>1. /\ places \in [Strands -> Places] /\ places["drive"] = "idle"
            /\ \A o \in Strands \ {"drive"} : places[o] = pc[o]
        BY <1>0, <1>1 DEF TypeOK, Places
      <3> HIDE DEF places
      <3> QED
        BY <1>1, <2>2, <3>1, WakingType
    <2> QED
      BY <2>1, <2>2 DEF DrivePumps, DriveReturns, DriveEnds
  <1>5. TypeOK'
    BY <1>0, <1>1, <1>3, <1>4 DEF TypeOK, slots, held, waiting
  <1>6. TargetsNamed'
    BY <1>0, <1>1, <1>4 DEF TargetsNamed, Targeting, Executing
  <1>7. CallsNamed'
    BY <1>0, <1>1, <1>4 DEF CallsNamed, CallerPlaces, waiting
  <1>8. AttemptsLeft' /\ DriveNamed'
    BY <1>0, <1>1, <1>4
    DEF AttemptsLeft, DriveNamed, CallsNamed, CallerPlaces, Executing, waiting
  <1> QED
    BY <1>5, <1>6, <1>7, <1>8 DEF TypeInv

\* A caller moves on inside the same call of run().
LEMMA CallerGotoType ==
  ASSUME TypeInv, NEW s \in Callers,
         NEW p \in {"loop", "watch", "attempt", "recover"}, Goto(s, p),
         want' \in [Strands -> Runs \cup {NoRun}], want'[s] \in Runs,
         \A o \in Strands \ {s} : want'[o] = want[o] /\ cont'[o] = cont[o]
                                  /\ attempts'[o] = attempts[o],
         cont'[s] # "mine", drive # <<>> => drive' # <<>>, UNCHANGED tgt
  PROVE  /\ pc' \in [Strands -> Places]
         /\ TargetsNamed' /\ CallsNamed' /\ AttemptsLeft' /\ DriveNamed'
  <1>0. TypeOK /\ s \in Strands /\ s # "drive"
    BY StrandsAssumption DEF TypeInv, Strands
  <1>1. /\ pc' \in [Strands -> Places]
        /\ pc'[s] = p /\ \A o \in Strands \ {s} : pc'[o] = pc[o]
    BY <1>0 DEF Goto, TypeOK, Places, CallerPlaces
  <1>2. TargetsNamed'
    BY <1>1 DEF TypeInv, TargetsNamed, Targeting, Executing
  <1>3. CallsNamed'
    BY <1>1 DEF TypeInv, CallsNamed
  <1>4. AttemptsLeft' /\ DriveNamed'
    BY <1>0, <1>1 DEF TypeInv, AttemptsLeft, DriveNamed, Strands
  <1> QED
    BY <1>1, <1>2, <1>3, <1>4

\* A call of run() keeps the types.
LEMMA CallerType ==
  ASSUME TypeInv, NEW s \in Callers,
         Caller(s) \/ \E r \in Awaited : CallRun(s, r)
  PROVE  TypeInv'
  <1>0. /\ TypeOK /\ AttemptsLeft /\ TargetsNamed /\ CallsNamed /\ DriveNamed
        /\ s \in Strands /\ s # "drive"
    BY StrandsAssumption DEF TypeInv, Strands
  <1>1. CASE \E r \in Awaited : CallRun(s, r)
    <2>1. PICK r \in Runs : CallRun(s, r)
      BY <1>1, StrandsAssumption
    <2>2. /\ want' \in [Strands -> Runs \cup {NoRun}] /\ want'[s] = r
          /\ \A o \in Strands \ {s} : want'[o] = want[o]
      BY <1>0, <2>1 DEF CallRun, TypeOK
    <2>3. cont[s] # "mine"
      BY <1>0, <2>1 DEF CallRun, AttemptsLeft, Executing
    <2>4. /\ pc' \in [Strands -> Places]
          /\ TargetsNamed' /\ CallsNamed' /\ AttemptsLeft' /\ DriveNamed'
      BY <2>1, <2>2, <2>3, CallerGotoType DEF CallRun, driver
    <2>5. TypeOK'
      BY <1>0, <2>1, <2>2, <2>4 DEF CallRun, TypeOK, slots, held, driver
    <2> QED
      BY <2>4, <2>5 DEF TypeInv
  <1>2. CASE CallerLooks(s)
    <2>1. /\ UNCHANGED <<slots, fences, alarm, held, drive, stopping, tgt, evictions>>
          /\ pc[s] = "loop" /\ driveError' \in {driveError, NoRun}
      BY <1>2 DEF CallerLooks
    <2>2. want[s] \in Runs /\ cont[s] # "mine"
      BY <1>0, <2>1 DEF CallsNamed, AttemptsLeft, Executing
    <2>3. CASE CallerLeaves(s, "idle")
      <3>1. /\ pc' \in [Strands -> Places]
            /\ want' \in [Strands -> Runs \cup {NoRun}]
            /\ cont' \in [Strands -> {"loop", "attempt", "mine"}]
            /\ attempts' \in [Strands -> 0 .. MaxAttempts]
            /\ queuedWaiters' \subseteq Runs
            /\ TargetsNamed' /\ CallsNamed' /\ AttemptsLeft' /\ DriveNamed'
        BY <1>0, <2>1, <2>3, CallerLeavesType DEF TypeOK
      <3>2. TypeOK'
        BY <1>0, <2>1, <3>1 DEF TypeOK, slots, held
      <3> QED
        BY <3>1, <3>2 DEF TypeInv
    <2>4. CASE /\ \E p \in {"attempt", "recover", "watch"} : Goto(s, p)
               /\ UNCHANGED <<want, cont, attempts>>
               /\ queuedWaiters' \in {queuedWaiters, queuedWaiters \cup {want[s]}}
      <3>1. /\ pc' \in [Strands -> Places]
            /\ TargetsNamed' /\ CallsNamed' /\ AttemptsLeft' /\ DriveNamed'
        BY <1>0, <2>1, <2>2, <2>4, CallerGotoType DEF TypeOK
      <3>2. TypeOK'
        BY <1>0, <2>1, <2>2, <2>4, <3>1 DEF TypeOK, slots, held
      <3> QED
        BY <3>1, <3>2 DEF TypeInv
    <2> QED
      BY <1>2, <2>3, <2>4 DEF CallerLooks, waiting
  <1>3. CASE CallerAttempts(s)
    <2>1. /\ UNCHANGED <<slots, fences, alarm, held, driver, stopping, evictions>>
          /\ pc[s] = "attempt"
      BY <1>3 DEF CallerAttempts
    <2>2. want[s] \in Runs
      BY <1>0, <2>1 DEF CallsNamed
    <2>3. CASE UNCHANGED tgt /\ \E p \in {"idle", "could not start"} : CallerLeaves(s, p)
      <3>1. /\ pc' \in [Strands -> Places]
            /\ want' \in [Strands -> Runs \cup {NoRun}]
            /\ cont' \in [Strands -> {"loop", "attempt", "mine"}]
            /\ attempts' \in [Strands -> 0 .. MaxAttempts]
            /\ queuedWaiters' \subseteq Runs
            /\ TargetsNamed' /\ CallsNamed' /\ AttemptsLeft' /\ DriveNamed'
        BY <1>0, <2>1, <2>3, CallerLeavesType DEF TypeOK, driver
      <3>2. TypeOK'
        BY <1>0, <2>1, <2>3, <3>1 DEF TypeOK, slots, held, driver
      <3> QED
        BY <3>1, <3>2 DEF TypeInv
    <2>4. CASE /\ ~OutOfAttempts(s)
               /\ tgt' = [tgt EXCEPT ![s] = want[s]]
               /\ cont' = [cont EXCEPT ![s] = "mine"]
               /\ Goto(s, "promote")
               /\ UNCHANGED <<want, attempts, queuedWaiters>>
      <3>1. attempts[s] < MaxAttempts
        BY <1>0, <2>4, BoundsAssumption DEF OutOfAttempts, TypeOK
      <3>2. /\ pc' \in [Strands -> Places]
            /\ pc'[s] = "promote" /\ \A o \in Strands \ {s} : pc'[o] = pc[o]
        BY <1>0, <2>4 DEF Goto, TypeOK, Places, Queueing
      <3>3. /\ tgt' \in [Strands -> Runs \cup {NoRun}] /\ tgt'[s] = want[s]
            /\ \A o \in Strands \ {s} : tgt'[o] = tgt[o]
        BY <1>0, <2>2, <2>4 DEF TypeOK
      <3>4. /\ cont' \in [Strands -> {"loop", "attempt", "mine"}]
            /\ \A o \in Strands \ {s} : cont'[o] = cont[o]
        BY <1>0, <2>4 DEF TypeOK
      <3>5. TypeOK'
        BY <1>0, <2>1, <2>4, <3>2, <3>3, <3>4 DEF TypeOK, slots, held, driver
      <3>6. TargetsNamed'
        BY <1>0, <2>2, <3>2, <3>3 DEF TargetsNamed
      <3>7. CallsNamed'
        BY <1>0, <2>2, <2>4, <3>2, <3>4 DEF CallsNamed
      <3>8. AttemptsLeft' /\ DriveNamed'
        BY <1>0, <2>1, <2>4, <3>1, <3>2, <3>4
        DEF AttemptsLeft, DriveNamed, Strands, driver
      <3> QED
        BY <3>5, <3>6, <3>7, <3>8 DEF TypeInv
    <2> QED
      BY <1>3, <2>3, <2>4 DEF CallerAttempts
  <1>4. CASE CallerReturns(s)
    <2>1. /\ UNCHANGED <<slots, fences, alarm, held, driveError, stopping, tgt, evictions>>
          /\ pc[s] \in {"return", "threw"}
      BY <1>4 DEF CallerReturns
    <2>2. want[s] \in Runs
      BY <1>0, <2>1 DEF CallsNamed
    <2>3. CASE /\ \E p \in {"attempt", "loop", "watch"} : Goto(s, p)
               /\ cont[s] # "mine"
               /\ UNCHANGED <<waiting, drive>>
      <3>1. /\ pc' \in [Strands -> Places]
            /\ TargetsNamed' /\ CallsNamed' /\ AttemptsLeft' /\ DriveNamed'
        BY <1>0, <2>1, <2>2, <2>3, CallerGotoType DEF TypeOK, waiting
      <3>2. TypeOK'
        BY <1>0, <2>1, <2>3, <3>1 DEF TypeOK, slots, held, waiting
      <3> QED
        BY <3>1, <3>2 DEF TypeInv
    <2>4. CASE CallerLeaves(s, "idle") /\ UNCHANGED drive
      <3>1. /\ pc' \in [Strands -> Places]
            /\ want' \in [Strands -> Runs \cup {NoRun}]
            /\ cont' \in [Strands -> {"loop", "attempt", "mine"}]
            /\ attempts' \in [Strands -> 0 .. MaxAttempts]
            /\ queuedWaiters' \subseteq Runs
            /\ TargetsNamed' /\ CallsNamed' /\ AttemptsLeft' /\ DriveNamed'
        BY <1>0, <2>1, <2>4, CallerLeavesType DEF TypeOK
      <3>2. TypeOK'
        BY <1>0, <2>1, <2>4, <3>1 DEF TypeOK, slots, held
      <3> QED
        BY <3>1, <3>2 DEF TypeInv
    <2>5. CASE /\ Goto(s, "loop")
               /\ cont' = [cont EXCEPT ![s] = "loop"]
               /\ attempts' = [attempts EXCEPT ![s] = 0]
               /\ queuedWaiters' = queuedWaiters \ {want[s]}
               /\ drive' = Append(drive, want[s])
               /\ UNCHANGED want
      <3>1. drive' \in Seq(Runs) /\ drive' # <<>>
        BY <1>0, <2>2, <2>5, DriveType DEF TypeOK
      <3>2. /\ cont' \in [Strands -> {"loop", "attempt", "mine"}]
            /\ cont'[s] = "loop" /\ \A o \in Strands \ {s} : cont'[o] = cont[o]
        BY <1>0, <2>5 DEF TypeOK
      <3>3. /\ attempts' \in [Strands -> 0 .. MaxAttempts]
            /\ \A o \in Strands \ {s} : attempts'[o] = attempts[o]
        <4>1. attempts \in [Strands -> 0 .. MaxAttempts]
          BY <1>0 DEF TypeOK
        <4> QED
          BY <1>0, <2>5, <4>1, NoAttempts
      <3>4. /\ pc' \in [Strands -> Places]
            /\ TargetsNamed' /\ CallsNamed' /\ AttemptsLeft' /\ DriveNamed'
        BY <1>0, <2>1, <2>2, <2>5, <3>1, <3>2, <3>3, CallerGotoType DEF TypeOK
      <3>5. TypeOK'
        BY <1>0, <2>1, <2>5, <3>1, <3>2, <3>3, <3>4 DEF TypeOK, slots, held
      <3> QED
        BY <3>4, <3>5 DEF TypeInv
    <2> QED
      BY <1>4, <2>3, <2>4, <2>5 DEF CallerReturns
  <1>5. CASE CallerGaveUp(s)
    <2>1. /\ UNCHANGED <<slots, fences, alarm, held, driver, stopping, tgt, waiting, evictions>>
          /\ pc[s] = "could not start"
          /\ pc' = [pc EXCEPT ![s] = "idle"]
      BY <1>5 DEF CallerGaveUp, Goto
    <2>2. /\ pc' \in [Strands -> Places]
          /\ pc'[s] = "idle" /\ \A o \in Strands \ {s} : pc'[o] = pc[o]
      BY <1>0, <2>1 DEF TypeOK, Places
    <2>3. TypeOK'
      BY <1>0, <2>1, <2>2 DEF TypeOK, slots, held, driver, waiting
    <2>4. TargetsNamed'
      BY <1>0, <2>1, <2>2 DEF TargetsNamed, Targeting, Executing
    <2>5. CallsNamed'
      BY <1>0, <2>1, <2>2 DEF CallsNamed, waiting
    <2>6. AttemptsLeft' /\ DriveNamed'
      BY <1>0, <2>1, <2>2 DEF AttemptsLeft, DriveNamed, Executing, Strands, driver, waiting
    <2> QED
      BY <2>3, <2>4, <2>5, <2>6 DEF TypeInv
  <1> QED
    BY <1>1, <1>2, <1>3, <1>4, <1>5 DEF Caller

\* Every step of the authority keeps the types.
LEMMA NextType == TypeInv /\ [Next]_vars => TypeInv'
  <1> SUFFICES ASSUME TypeInv, [Next]_vars PROVE TypeInv'
    OBVIOUS
  <1>1. CASE UNCHANGED vars
    BY <1>1 DEF vars, slots, held, driver, waiting, TypeInv, TypeOK, TargetsNamed,
                CallsNamed, AttemptsLeft, DriveNamed
  <1>2. ASSUME NEW s \in Strands, Recovery(s) PROVE TypeInv'
    BY <1>2, ReadType, RecoverActiveType, PromoteType,
       ExecutePromotedType, UnparkType, TurnTransactionType,
       FinishType
    DEF Recovery
  <1> QED
    BY <1>1, <1>2, CommandType, SettleStoppedType, EvictType, TurnType, AlarmType,
       DriveStepType, CallerType
    DEF Next

\* The records and the memory of the object always have their types.
THEOREM TypeCorrect == Spec => []TypeOK
  <1>1. Spec => []TypeInv
    BY InitType, NextType, PTL DEF Spec
  <1>2. TypeInv => TypeOK
    BY DEF TypeInv
  <1> QED
    BY <1>1, <1>2, PTL

====
