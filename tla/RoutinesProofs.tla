--------------------------- MODULE RoutinesProofs ---------------------------
(***************************************************************************)
(* Proofs about the Routine scheduler: its type invariant, the truth of the *)
(* run log, the sweep of a deletion, one firing per ask, the alarm that is  *)
(* never lost, and the debt a busy object keeps.                            *)
(***************************************************************************)
EXTENDS Routines, TLAPS

-----------------------------------------------------------------------------
(* Operators                                                                *)

\* The later of two moments ahead is a moment ahead.
LEMMA LargerType ==
  /\ \A a, b \in Int : Larger(a, b) \in Int
  /\ \A a, b \in Nat : Larger(a, b) \in Nat
  /\ \A a \in Int : Larger(a, 0) \in Nat
  BY DEF Larger

\* What the deadlines are computed from.
DeadlineInputs ==
  /\ due \in [Routine -> Int] /\ held \in [Routine -> Nat]
  /\ lease \in [Routine -> Nat]

\* scheduledDeadlines names moments, none of them in the past.
LEMMA DeadlinesType == DeadlineInputs => Deadlines \subseteq Nat
  <1> SUFFICES ASSUME DeadlineInputs PROVE Deadlines \subseteq Nat
    OBVIOUS
  <1>1. \A r \in Routine : Deadline(r) \in Nat /\ LockDeadline(r) \in Nat
    BY LargerType DEF DeadlineInputs, Deadline, LockDeadline
  <1>2. \A r \in Routine : DeadlinesOf(r) \subseteq Nat
    BY <1>1 DEF DeadlinesOf
  <1>3. Recovery \in Nat
    BY DelaysAssumption
  <1> QED
    <2>1. UNION {DeadlinesOf(r) : r \in Routine} \subseteq Nat
      BY <1>2
    <2> QED
      BY <2>1, <1>3 DEF Deadlines

LEMMA DeadlinesTypeNext == DeadlineInputs' => (Deadlines \subseteq Nat)'
  BY DeadlinesType, PTL

\* Work that can be done has a deadline.
Debt == KernelOwes \/ \E r \in Routine : Live(r) \/ (queue[r] # <<>> /\ lock[r] = None)
LEMMA DebtHasDeadline == Debt => Deadlines # {}
  <1>1. KernelOwes => Recovery \in Deadlines
    BY DEF Deadlines
  <1>2. ASSUME NEW r \in Routine, Live(r) PROVE Deadlines # {}
    BY <1>2 DEF Deadlines, DeadlinesOf
  <1>3. ASSUME NEW r \in Routine, queue[r] # <<>>, lock[r] = None PROVE 0 \in Deadlines
    BY <1>3 DEF Deadlines, Waiting
  <1> QED
    BY <1>1, <1>2, <1>3 DEF Debt
LEMMA DebtHasDeadlineNext == Debt' => (Deadlines # {})'
  BY DebtHasDeadline, PTL

\* refreshRecoveryAlarm leaves an alarm whenever something is owed.
LEMMA ArmedByRefresh ==
  ASSUME DeadlineInputs', ArmAlarm
  PROVE  alarm' \in Nat \cup {None} /\ call' = "none" /\ (Debt' => alarm' # None)
  <1>1. Deadlines' \subseteq Nat
    BY DeadlinesTypeNext
  <1>2. Deadlines' # {} => alarm' \in Nat
    BY <1>1 DEF ArmAlarm
  <1>3. Deadlines' = {} => alarm' = None
    BY DEF ArmAlarm
  <1>4. None \notin Nat
    BY IdsAssumption
  <1>5. Debt' => Deadlines' # {}
    BY DebtHasDeadlineNext
  <1> QED
    BY <1>2, <1>3, <1>4, <1>5 DEF ArmAlarm

-----------------------------------------------------------------------------
(* Types                                                                    *)

\* The clocks and the alarm, which every refresh writes.
ClockTypes ==
  /\ due \in [Routine -> Int] /\ held \in [Routine -> Nat]
  /\ fails \in [Routine -> 0..PauseAfter]
  /\ kept \in [Routine -> {"none", "stale", "fresh"}]

LEMMA RebuildType == ClockTypes /\ RebuildClocks => ClockTypes'
  BY DelaysAssumption DEF ClockTypes, RebuildClocks

LEMMA DeferType == ClockTypes /\ Defer => ClockTypes'
  BY DelaysAssumption DEF ClockTypes, Defer

LEMMA RefreshType ==
  ASSUME ClockTypes, lease' \in [Routine -> Nat], Refresh
  PROVE  ClockTypes' /\ alarm' \in Nat \cup {None} /\ call' = "none"
  <1>1. ClockTypes'
    BY RebuildType DEF Refresh
  <1>2. DeadlineInputs'
    BY <1>1 DEF ClockTypes, DeadlineInputs
  <1> QED
    BY <1>1, <1>2, ArmedByRefresh DEF Refresh

\* The other parts of the type invariant.
RecordTypes == rec \in [Routine -> {"absent", "on", "off", "deleted"}]
FiringTypes ==
  /\ lock \in [Routine -> Asks \cup {None, "cron"}] /\ lease \in [Routine -> Nat]
  /\ queue \in [Routine -> Seq(Asks)]
  /\ log \in [Routine -> {"none", "running", "ok", "failed"}]
  /\ run \in [Routine -> {"none", "running", "ok", "failed"}]
  /\ receipts \subseteq Asks /\ minted \subseteq Asks
TurnTypes ==
  /\ active \in Routine \cup {None, Chat} /\ parked \in Routine \cup {None}
  /\ stray \in BOOLEAN /\ waiting \in BOOLEAN /\ executing \in BOOLEAN
AlarmTypes == alarm \in Nat \cup {None} /\ call \in {"none", "refreshing", "lost"}
PassTypes ==
  /\ pc \in {"idle", "queued", "settle", "reap", "claim", "exec", "rest", "recover", "drive"}
  /\ reaping \subseteq Routine /\ drained \in 0..Batch
  /\ firing \in Routine \cup {None} /\ (pc = "exec" => firing \in Routine)
  /\ phase \in {"none", "ask", "turn", "notify", "done"}
  /\ outcome \in {"none", "ok", "failed"} /\ timer \in Nat
  /\ abandoned \subseteq Routine
BoundTypes == chats \in Nat /\ edits \in Nat /\ evictions \in Nat

LEMMA TypeParts ==
  TypeOK <=> /\ RecordTypes /\ ClockTypes /\ FiringTypes /\ TurnTypes
             /\ AlarmTypes /\ PassTypes /\ BoundTypes
  BY DEF TypeOK, RecordTypes, ClockTypes, FiringTypes, TurnTypes, AlarmTypes,
         PassTypes, BoundTypes
LEMMA TypePartsNext ==
  RecordTypes' /\ ClockTypes' /\ FiringTypes' /\ TurnTypes' /\ AlarmTypes'
    /\ PassTypes' /\ BoundTypes' => TypeOK'
  BY TypeParts, PTL

\* What a step leaves alone keeps its type.
LEMMA KeptTypes ==
  /\ RecordTypes /\ UNCHANGED rec => RecordTypes'
  /\ ClockTypes /\ UNCHANGED clocks => ClockTypes'
  /\ FiringTypes /\ UNCHANGED firings => FiringTypes'
  /\ TurnTypes /\ UNCHANGED turns => TurnTypes'
  /\ AlarmTypes /\ UNCHANGED <<alarm, call>> => AlarmTypes'
  /\ PassTypes /\ UNCHANGED pass => PassTypes'
  /\ BoundTypes /\ UNCHANGED bounds => BoundTypes'
  BY DEF RecordTypes, ClockTypes, FiringTypes, TurnTypes, AlarmTypes, PassTypes,
         BoundTypes, clocks, firings, turns, pass, bounds

\* A refresh, after whatever the step did to the locks.
LEMMA RefreshTypes ==
  ASSUME ClockTypes, FiringTypes', Refresh
  PROVE  ClockTypes' /\ AlarmTypes'
  BY RefreshType DEF FiringTypes, AlarmTypes

\* The delays, one by one.
LEMMA Delays ==
  /\ Period \in Nat /\ Period > 0 /\ Deferral \in Nat /\ Lease \in Nat /\ Timeout \in Nat
  /\ PauseAfter \in Nat /\ PauseAfter > 0 /\ Batch \in Nat /\ Batch > 0
  BY DelaysAssumption

\* #settleFiring writes well-formed records.
LEMMA SettleTypes ==
  ASSUME TypeOK, NEW r \in Routine, NEW o \in Outcomes, SettleFiring(r, o)
  PROVE  RecordTypes' /\ ClockTypes' /\ FiringTypes' /\ stray' \in BOOLEAN
  <1>1. RecordTypes /\ ClockTypes /\ FiringTypes /\ TurnTypes
    BY TypeParts
  <1>2. FiringTypes'
    BY <1>1 DEF FiringTypes, SettleFiring, SettledRow, Outcomes
  <1>3. stray' \in BOOLEAN
    BY <1>1, Zenon DEF TurnTypes, SettleFiring
  <1>4. CASE UNCHANGED <<rec, held, fails, kept>>
    BY <1>1, <1>2, <1>3, <1>4 DEF RecordTypes, ClockTypes, SettleFiring
  <1>5. CASE ~UNCHANGED <<rec, held, fails, kept>>
    <2>1. kept[r] # "none" /\ RecordOutcomeOnClock(r, o)
      BY <1>5 DEF SettleFiring, RecordOutcomeOnClock
    <2>2. fails' \in [Routine -> 0..PauseAfter]
      <3> DEFINE f == IF o = "ok" THEN 0
                      ELSE IF fails[r] < PauseAfter THEN fails[r] + 1 ELSE fails[r]
      <3>1. fails \in [Routine -> 0..PauseAfter] /\ fails' = [fails EXCEPT ![r] = f]
        BY <1>1, <2>1 DEF RecordOutcomeOnClock, ClockTypes
      <3>2. f \in 0..PauseAfter
        BY <3>1, Delays
      <3> QED
        BY <3>1, <3>2
    <2>3. RecordTypes' /\ kept' \in [Routine -> {"none", "stale", "fresh"}]
      BY <1>1, <2>1 DEF RecordOutcomeOnClock, ClockTypes, RecordTypes
    <2>4. o # "ok" => fails'[r] \in 1..PauseAfter
      BY <1>1, <2>1, DelaysAssumption DEF RecordOutcomeOnClock, ClockTypes
    <2>5. o # "ok" => Larger(held[r], Backoff[fails'[r]]) \in Nat
      BY <1>1, <2>4, LargerType, DelaysAssumption DEF ClockTypes
    <2>6. held' \in [Routine -> Nat]
      BY <1>1, <2>1, <2>5 DEF RecordOutcomeOnClock, ClockTypes
    <2> QED
      BY <1>1, <1>2, <1>3, <2>2, <2>3, <2>6 DEF SettleFiring, ClockTypes
  <1> QED
    BY <1>4, <1>5

\* #writeClaim writes well-formed records.
LEMMA ClaimTypes ==
  ASSUME TypeOK, BatchLeft, NEW r \in Routine, NEW f \in Asks \cup {"cron"}, WriteClaim(r, f)
  PROVE  /\ lock' \in [Routine -> Asks \cup {None, "cron"}] /\ lease' \in [Routine -> Nat]
         /\ log' \in [Routine -> {"none", "running", "ok", "failed"}]
         /\ run' \in [Routine -> {"none", "running", "ok", "failed"}]
         /\ receipts' \subseteq Asks
         /\ TurnTypes' /\ AlarmTypes' /\ PassTypes' /\ BoundTypes'
  <1>1. FiringTypes /\ TurnTypes /\ AlarmTypes /\ PassTypes /\ BoundTypes
    BY TypeParts
  <1>2. TurnTypes' /\ AlarmTypes' /\ BoundTypes'
    BY <1>1, KeptTypes DEF WriteClaim
  <1>3. PassTypes'
    BY <1>1, DelaysAssumption DEF PassTypes, WriteClaim, BatchLeft
  <1> QED
    BY <1>1, <1>2, <1>3, DelaysAssumption DEF FiringTypes, WriteClaim

\* acceptRun keeps the types.
LEMMA ChatArrivesTypes ==
  ASSUME TypeOK, ChatArrives
  PROVE  TypeOK'
  <1>1. RecordTypes /\ ClockTypes /\ FiringTypes /\ TurnTypes /\ AlarmTypes
        /\ PassTypes /\ BoundTypes
    BY TypeParts
  <1>2. RecordTypes' /\ FiringTypes' /\ PassTypes'
    BY <1>1, KeptTypes DEF ChatArrives, clocks, firings, turns, pass, bounds
  <1>3. TurnTypes'
    BY <1>1 DEF ChatArrives, TurnTypes, clocks, firings, turns, pass, bounds
  <1>4. BoundTypes'
    BY <1>1 DEF ChatArrives, BoundTypes, clocks, firings, turns, pass, bounds
  <1>5. Refresh
    BY DEF ChatArrives
  <1>6. ClockTypes' /\ AlarmTypes'
    BY <1>1, <1>2, <1>3, <1>4, <1>5, RefreshTypes
  <1> QED
    BY <1>2, <1>3, <1>4, <1>6, TypePartsNext

\* completeRun and failRun keep the types.
LEMMA TurnEndsTypes ==
  ASSUME TypeOK, NEW o \in Outcomes, TurnEnds(o)
  PROVE  TypeOK'
  <1>1. RecordTypes /\ ClockTypes /\ FiringTypes /\ TurnTypes /\ AlarmTypes
        /\ PassTypes /\ BoundTypes
    BY TypeParts
  <1>2. RecordTypes' /\ PassTypes' /\ BoundTypes'
    BY <1>1, KeptTypes DEF TurnEnds, clocks, firings, turns, pass, bounds
  <1>3. FiringTypes'
    BY <1>1 DEF TurnEnds, FiringTypes, Outcomes, clocks, firings, turns, pass, bounds
  <1>4. TurnTypes'
    BY <1>1 DEF TurnEnds, TurnTypes, clocks, firings, turns, pass, bounds
  <1>5. Refresh
    BY DEF TurnEnds
  <1>6. ClockTypes' /\ AlarmTypes'
    BY <1>1, <1>2, <1>3, <1>4, <1>5, RefreshTypes
  <1> QED
    BY <1>2, <1>3, <1>4, <1>6, TypePartsNext

\* parkRun keeps the types.
LEMMA TurnParksTypes ==
  ASSUME TypeOK, TurnParks
  PROVE  TypeOK'
  <1>1. RecordTypes /\ ClockTypes /\ FiringTypes /\ TurnTypes /\ AlarmTypes
        /\ PassTypes /\ BoundTypes
    BY TypeParts
  <1>2. RecordTypes' /\ FiringTypes' /\ PassTypes' /\ BoundTypes'
    BY <1>1, KeptTypes DEF TurnParks, clocks, firings, turns, pass, bounds
  <1>3. TurnTypes'
    BY <1>1 DEF TurnParks, TurnTypes, clocks, firings, turns, pass, bounds
  <1>4. Refresh
    BY DEF TurnParks
  <1>5. ClockTypes' /\ AlarmTypes'
    BY <1>1, <1>2, <1>3, <1>4, RefreshTypes
  <1> QED
    BY <1>2, <1>3, <1>5, TypePartsNext

\* deferRunRecovery keeps the types.
LEMMA TurnDefersTypes ==
  ASSUME TypeOK, TurnDefers
  PROVE  TypeOK'
  <1>1. RecordTypes /\ ClockTypes /\ FiringTypes /\ TurnTypes /\ AlarmTypes
        /\ PassTypes /\ BoundTypes
    BY TypeParts
  <1>2. RecordTypes' /\ FiringTypes' /\ PassTypes' /\ BoundTypes'
    BY <1>1, KeptTypes DEF TurnDefers, clocks, firings, turns, pass, bounds
  <1>3. TurnTypes'
    BY <1>1 DEF TurnDefers, TurnTypes, clocks, firings, turns, pass, bounds
  <1>4. Refresh
    BY DEF TurnDefers
  <1>5. ClockTypes' /\ AlarmTypes'
    BY <1>1, <1>2, <1>3, <1>4, RefreshTypes
  <1> QED
    BY <1>2, <1>3, <1>5, TypePartsNext

\* The drive's promotion keeps the types.
LEMMA DrivePromotesTypes ==
  ASSUME TypeOK, DrivePromotes
  PROVE  TypeOK'
  <1>1. RecordTypes /\ ClockTypes /\ FiringTypes /\ TurnTypes /\ AlarmTypes
        /\ PassTypes /\ BoundTypes
    BY TypeParts
  <1>2. RecordTypes' /\ FiringTypes' /\ PassTypes' /\ BoundTypes'
    BY <1>1, KeptTypes DEF DrivePromotes, PromoteQueued, clocks, firings, turns, pass, bounds
  <1>3. TurnTypes'
    BY <1>1 DEF DrivePromotes, PromoteQueued, TurnTypes, clocks, firings, turns, pass, bounds
  <1>4. Refresh
    BY DEF DrivePromotes
  <1>5. ClockTypes' /\ AlarmTypes'
    BY <1>1, <1>2, <1>3, <1>4, RefreshTypes
  <1> QED
    BY <1>2, <1>3, <1>5, TypePartsNext

\* The start of alarm() keeps the types.
LEMMA AlarmFiresTypes ==
  ASSUME TypeOK, AlarmFires
  PROVE  TypeOK'
  <1>1. RecordTypes /\ ClockTypes /\ FiringTypes /\ TurnTypes /\ AlarmTypes
        /\ PassTypes /\ BoundTypes
    BY TypeParts
  <1>2. RecordTypes' /\ ClockTypes' /\ FiringTypes' /\ TurnTypes' /\ BoundTypes'
    BY <1>1, KeptTypes DEF AlarmFires, clocks, firings, turns, pass, bounds
  <1>3. AlarmTypes'
    BY <1>1 DEF AlarmFires, AlarmTypes, clocks, firings, turns, pass, bounds
  <1>4. PassTypes'
    BY <1>1 DEF AlarmFires, PassTypes, clocks, firings, turns, pass, bounds
  <1> QED
    BY <1>2, <1>3, <1>4, TypePartsNext

\* recoverQueuedRun keeps the types.
LEMMA AlarmPromotesTypes ==
  ASSUME TypeOK, AlarmPromotes
  PROVE  TypeOK'
  <1>1. RecordTypes /\ ClockTypes /\ FiringTypes /\ TurnTypes /\ AlarmTypes
        /\ PassTypes /\ BoundTypes
    BY TypeParts
  <1>2. RecordTypes' /\ FiringTypes' /\ BoundTypes'
    BY <1>1, KeptTypes DEF AlarmPromotes, PromoteQueued, clocks, firings, turns, pass, bounds
  <1>3. TurnTypes'
    BY <1>1 DEF AlarmPromotes, PromoteQueued, TurnTypes, clocks, firings, turns, pass, bounds
  <1>4. PassTypes'
    BY <1>1 DEF AlarmPromotes, PromoteQueued, PassTypes, clocks, firings, turns, pass, bounds
  <1>5. Refresh
    BY DEF AlarmPromotes
  <1>6. ClockTypes' /\ AlarmTypes'
    BY <1>1, <1>2, <1>3, <1>4, <1>5, RefreshTypes
  <1> QED
    BY <1>2, <1>3, <1>4, <1>6, TypePartsNext

\* The reaper's listing keeps the types.
LEMMA ListLocksTypes ==
  ASSUME TypeOK, ListLocks
  PROVE  TypeOK'
  <1>1. RecordTypes /\ ClockTypes /\ FiringTypes /\ TurnTypes /\ AlarmTypes
        /\ PassTypes /\ BoundTypes
    BY TypeParts
  <1>2. RecordTypes' /\ ClockTypes' /\ FiringTypes' /\ TurnTypes' /\ AlarmTypes' /\ BoundTypes'
    BY <1>1, KeptTypes DEF ListLocks, clocks, firings, turns, pass, bounds
  <1>3. PassTypes'
    BY <1>1 DEF ListLocks, PassTypes, clocks, firings, turns, pass, bounds
  <1> QED
    BY <1>2, <1>3, TypePartsNext

\* The end of the reaping keeps the types.
LEMMA ReapEndsTypes ==
  ASSUME TypeOK, ReapEnds
  PROVE  TypeOK'
  <1>1. RecordTypes /\ ClockTypes /\ FiringTypes /\ TurnTypes /\ AlarmTypes
        /\ PassTypes /\ BoundTypes
    BY TypeParts
  <1>2. RecordTypes' /\ ClockTypes' /\ FiringTypes' /\ TurnTypes' /\ AlarmTypes' /\ BoundTypes'
    BY <1>1, KeptTypes DEF ReapEnds, clocks, firings, turns, pass, bounds
  <1>3. PassTypes'
    BY <1>1 DEF ReapEnds, PassTypes, clocks, firings, turns, pass, bounds
  <1> QED
    BY <1>2, <1>3, TypePartsNext

\* The end of the drain keeps the types.
LEMMA NothingToClaimTypes ==
  ASSUME TypeOK, NothingToClaim
  PROVE  TypeOK'
  <1>1. RecordTypes /\ ClockTypes /\ FiringTypes /\ TurnTypes /\ AlarmTypes
        /\ PassTypes /\ BoundTypes
    BY TypeParts
  <1>2. RecordTypes' /\ ClockTypes' /\ FiringTypes' /\ TurnTypes' /\ AlarmTypes' /\ BoundTypes'
    BY <1>1, KeptTypes DEF NothingToClaim, DrainEnds, clocks, firings, turns, pass, bounds
  <1>3. PassTypes'
    BY <1>1, DelaysAssumption DEF NothingToClaim, DrainEnds, PassTypes, clocks, firings, turns, pass, bounds
  <1> QED
    BY <1>2, <1>3, TypePartsNext

\* The rest of settleScheduledWork keeps the types.
LEMMA SettleRestTypes ==
  ASSUME TypeOK, SettleRest
  PROVE  TypeOK'
  <1>1. RecordTypes /\ ClockTypes /\ FiringTypes /\ TurnTypes /\ AlarmTypes
        /\ PassTypes /\ BoundTypes
    BY TypeParts
  <1>2. RecordTypes' /\ FiringTypes' /\ TurnTypes' /\ BoundTypes'
    BY <1>1, KeptTypes DEF SettleRest, clocks, firings, turns, pass, bounds
  <1>3. PassTypes'
    BY <1>1 DEF SettleRest, PassTypes, clocks, firings, turns, pass, bounds
  <1>4. Refresh
    BY DEF SettleRest
  <1>5. ClockTypes' /\ AlarmTypes'
    BY <1>1, <1>2, <1>3, <1>4, RefreshTypes
  <1> QED
    BY <1>2, <1>3, <1>5, TypePartsNext

\* recoverActiveRun keeps the types.
LEMMA AlarmRecoversTypes ==
  ASSUME TypeOK, AlarmRecovers
  PROVE  TypeOK'
  <1>1. RecordTypes /\ ClockTypes /\ FiringTypes /\ TurnTypes /\ AlarmTypes
        /\ PassTypes /\ BoundTypes
    BY TypeParts
  <1>2. RecordTypes' /\ ClockTypes' /\ FiringTypes' /\ AlarmTypes' /\ BoundTypes'
    BY <1>1, KeptTypes DEF AlarmRecovers, clocks, firings, turns, pass, bounds
  <1>3. TurnTypes'
    BY <1>1 DEF AlarmRecovers, TurnTypes, clocks, firings, turns, pass, bounds
  <1>4. PassTypes'
    BY <1>1 DEF AlarmRecovers, PassTypes, clocks, firings, turns, pass, bounds
  <1> QED
    BY <1>2, <1>3, <1>4, TypePartsNext

\* The end of alarm() keeps the types.
LEMMA AlarmReturnsTypes ==
  ASSUME TypeOK, AlarmReturns
  PROVE  TypeOK'
  <1>1. RecordTypes /\ ClockTypes /\ FiringTypes /\ TurnTypes /\ AlarmTypes
        /\ PassTypes /\ BoundTypes
    BY TypeParts
  <1>2. RecordTypes' /\ FiringTypes' /\ TurnTypes' /\ BoundTypes'
    BY <1>1, KeptTypes DEF AlarmReturns, clocks, firings, turns, pass, bounds
  <1>3. PassTypes'
    BY <1>1 DEF AlarmReturns, PassTypes, clocks, firings, turns, pass, bounds
  <1>4. Refresh
    BY DEF AlarmReturns
  <1>5. ClockTypes' /\ AlarmTypes'
    BY <1>1, <1>2, <1>3, <1>4, RefreshTypes
  <1> QED
    BY <1>2, <1>3, <1>5, TypePartsNext

\* An answer without a Turn keeps the types.
LEMMA ExecutorAnswersTypes ==
  ASSUME TypeOK, NEW o \in Outcomes, ExecutorAnswers(o)
  PROVE  TypeOK'
  <1>1. RecordTypes /\ ClockTypes /\ FiringTypes /\ TurnTypes /\ AlarmTypes
        /\ PassTypes /\ BoundTypes
    BY TypeParts
  <1>2. RecordTypes' /\ ClockTypes' /\ FiringTypes' /\ TurnTypes' /\ AlarmTypes' /\ BoundTypes'
    BY <1>1, KeptTypes DEF ExecutorAnswers, Reports, PassKeeps, clocks, firings, turns, pass, bounds
  <1>3. PassTypes'
    BY <1>1 DEF ExecutorAnswers, Reports, PassKeeps, PassTypes, Outcomes, clocks, firings, turns, pass, bounds
  <1> QED
    BY <1>2, <1>3, TypePartsNext

\* The admission of a firing keeps the types.
LEMMA ExecutorAdmitsTypes ==
  ASSUME TypeOK, ExecutorAdmits
  PROVE  TypeOK'
  <1>1. RecordTypes /\ ClockTypes /\ FiringTypes /\ TurnTypes /\ AlarmTypes
        /\ PassTypes /\ BoundTypes
    BY TypeParts
  <1>2. RecordTypes' /\ BoundTypes'
    BY <1>1, KeptTypes DEF ExecutorAdmits, InExecutor, Admits, PassKeeps, clocks, firings, turns, pass, bounds
  <1>3. FiringTypes'
    BY <1>1 DEF ExecutorAdmits, InExecutor, Admits, PassKeeps, FiringTypes, clocks, firings, turns, pass, bounds
  <1>4. TurnTypes'
    BY <1>1 DEF ExecutorAdmits, InExecutor, Admits, PassKeeps, TurnTypes, PassTypes, clocks, firings, turns, pass, bounds
  <1>5. PassTypes'
    BY <1>1 DEF ExecutorAdmits, InExecutor, Admits, PassKeeps, PassTypes, clocks, firings, turns, pass, bounds
  <1>6. Refresh
    BY DEF ExecutorAdmits
  <1>7. ClockTypes' /\ AlarmTypes'
    BY <1>1, <1>2, <1>3, <1>4, <1>5, <1>6, RefreshTypes
  <1> QED
    BY <1>2, <1>3, <1>4, <1>5, <1>7, TypePartsNext

\* A refused admission keeps the types.
LEMMA ExecutorRefusedTypes ==
  ASSUME TypeOK, ExecutorRefused
  PROVE  TypeOK'
  <1>1. RecordTypes /\ ClockTypes /\ FiringTypes /\ TurnTypes /\ AlarmTypes
        /\ PassTypes /\ BoundTypes
    BY TypeParts
  <1>2. RecordTypes' /\ ClockTypes' /\ FiringTypes' /\ TurnTypes' /\ AlarmTypes' /\ BoundTypes'
    BY <1>1, KeptTypes DEF ExecutorRefused, Reports, PassKeeps, clocks, firings, turns, pass, bounds
  <1>3. PassTypes'
    BY <1>1 DEF ExecutorRefused, Reports, PassKeeps, PassTypes, clocks, firings, turns, pass, bounds
  <1> QED
    BY <1>2, <1>3, TypePartsNext

\* The return of the Turn's call keeps the types.
LEMMA ExecutorReturnsTypes ==
  ASSUME TypeOK, ExecutorReturns
  PROVE  TypeOK'
  <1>1. RecordTypes /\ ClockTypes /\ FiringTypes /\ TurnTypes /\ AlarmTypes
        /\ PassTypes /\ BoundTypes
    BY TypeParts
  <1>2. RecordTypes' /\ ClockTypes' /\ FiringTypes' /\ TurnTypes' /\ AlarmTypes' /\ BoundTypes'
    BY <1>1, KeptTypes DEF ExecutorReturns, Reports, PassKeeps, clocks, firings, turns, pass, bounds
  <1>3. PassTypes'
    BY <1>1 DEF ExecutorReturns, Reports, PassKeeps, PassTypes, Settled, clocks, firings, turns, pass, bounds
  <1> QED
    BY <1>2, <1>3, TypePartsNext

\* notifyFailedFiring keeps the types.
LEMMA ExecutorNotifiesTypes ==
  ASSUME TypeOK, ExecutorNotifies
  PROVE  TypeOK'
  <1>1. RecordTypes /\ ClockTypes /\ FiringTypes /\ TurnTypes /\ AlarmTypes
        /\ PassTypes /\ BoundTypes
    BY TypeParts
  <1>2. RecordTypes' /\ ClockTypes' /\ TurnTypes' /\ AlarmTypes' /\ BoundTypes'
    BY <1>1, KeptTypes DEF ExecutorNotifies, InExecutor, PassKeeps, clocks, firings, turns, pass, bounds
  <1>3. FiringTypes'
    BY <1>1 DEF ExecutorNotifies, InExecutor, PassKeeps, FiringTypes, PassTypes, clocks, firings, turns, pass, bounds
  <1>4. PassTypes'
    BY <1>1 DEF ExecutorNotifies, InExecutor, PassKeeps, PassTypes, clocks, firings, turns, pass, bounds
  <1> QED
    BY <1>2, <1>3, <1>4, TypePartsNext

\* routine/create keeps the types.
LEMMA CreateTypes ==
  ASSUME TypeOK, NEW r \in Routine, Create(r)
  PROVE  TypeOK'
  <1>1. RecordTypes /\ ClockTypes /\ FiringTypes /\ TurnTypes /\ AlarmTypes
        /\ PassTypes /\ BoundTypes
    BY TypeParts
  <1>2. FiringTypes' /\ TurnTypes' /\ PassTypes'
    BY <1>1, KeptTypes DEF Create, Commits, clocks, firings, turns, pass, bounds
  <1>3. RecordTypes'
    BY <1>1 DEF Create, Commits, RecordTypes, clocks, firings, turns, pass, bounds
  <1>4. ClockTypes'
    BY <1>1, DelaysAssumption DEF Create, Commits, ClockTypes, AnchorDue, clocks, firings, turns, pass, bounds
  <1>5. AlarmTypes'
    BY <1>1 DEF Create, Commits, AlarmTypes, clocks, firings, turns, pass, bounds
  <1>6. BoundTypes'
    BY <1>1 DEF Create, Commits, BoundTypes, clocks, firings, turns, pass, bounds
  <1> QED
    BY <1>2, <1>3, <1>4, <1>5, <1>6, TypePartsNext

\* routine/pause, resume and update keep the types.
LEMMA RewriteTypes ==
  ASSUME TypeOK, NEW r \in Routine, NEW to \in {"on", "off"}, Rewrite(r, to)
  PROVE  TypeOK'
  <1>1. RecordTypes /\ ClockTypes /\ FiringTypes /\ TurnTypes /\ AlarmTypes
        /\ PassTypes /\ BoundTypes
    BY TypeParts
  <1>2. FiringTypes' /\ TurnTypes' /\ PassTypes'
    BY <1>1, KeptTypes DEF Rewrite, Commits, clocks, firings, turns, pass, bounds
  <1>3. RecordTypes'
    BY <1>1 DEF Rewrite, Commits, RecordTypes, clocks, firings, turns, pass, bounds
  <1>4. ClockTypes'
    BY <1>1, DelaysAssumption DEF Rewrite, Commits, ClockTypes, AnchorDue, Outdated, clocks, firings, turns, pass, bounds
  <1>5. AlarmTypes'
    BY <1>1 DEF Rewrite, Commits, AlarmTypes, clocks, firings, turns, pass, bounds
  <1>6. BoundTypes'
    BY <1>1 DEF Rewrite, Commits, BoundTypes, clocks, firings, turns, pass, bounds
  <1> QED
    BY <1>2, <1>3, <1>4, <1>5, <1>6, TypePartsNext

\* routine/delete keeps the types.
LEMMA DeleteTypes ==
  ASSUME TypeOK, NEW r \in Routine, Delete(r)
  PROVE  TypeOK'
  <1>1. RecordTypes /\ ClockTypes /\ FiringTypes /\ TurnTypes /\ AlarmTypes
        /\ PassTypes /\ BoundTypes
    BY TypeParts
  <1>2. TurnTypes' /\ PassTypes'
    BY <1>1, KeptTypes DEF Delete, Commits, LogSwept, clocks, firings, turns, pass, bounds
  <1>3. RecordTypes'
    BY <1>1 DEF Delete, Commits, LogSwept, RecordTypes, clocks, firings, turns, pass, bounds
  <1>4. ClockTypes'
    BY <1>1, DelaysAssumption DEF Delete, Commits, LogSwept, ClockTypes, clocks, firings, turns, pass, bounds
  <1>5. FiringTypes'
    BY <1>1 DEF Delete, Commits, LogSwept, FiringTypes, clocks, firings, turns, pass, bounds
  <1>6. AlarmTypes'
    BY <1>1 DEF Delete, Commits, LogSwept, AlarmTypes, clocks, firings, turns, pass, bounds
  <1>7. BoundTypes'
    BY <1>1 DEF Delete, Commits, LogSwept, BoundTypes, clocks, firings, turns, pass, bounds
  <1> QED
    BY <1>2, <1>3, <1>4, <1>5, <1>6, <1>7, TypePartsNext

\* routine/run and a delivery keep the types.
LEMMA AskTypes ==
  ASSUME TypeOK, NEW a \in Asks, Ask(a)
  PROVE  TypeOK'
  <1>1. RecordTypes /\ ClockTypes /\ FiringTypes /\ TurnTypes /\ AlarmTypes
        /\ PassTypes /\ BoundTypes
    BY TypeParts
  <1>2. RecordTypes' /\ ClockTypes' /\ TurnTypes' /\ PassTypes'
    BY <1>1, KeptTypes DEF Ask, Commits
  <1>3. AlarmTypes'
    BY <1>1 DEF Ask, Commits, AlarmTypes
  <1>4. BoundTypes'
    BY <1>1 DEF Ask, Commits, BoundTypes
  <1>5. AskOf[a] \in Routine
    BY IdsAssumption
  <1>6. Append(queue[AskOf[a]], a) \in Seq(Asks)
    BY <1>1, <1>5 DEF FiringTypes
  <1>7. Enqueued(a) \in [Routine -> Seq(Asks)]
    BY <1>1, <1>5, <1>6 DEF Enqueued, FiringTypes
  <1>8. queue' \in [Routine -> Seq(Asks)] /\ receipts' \subseteq Asks
    BY <1>1, <1>7 DEF Ask, FiringTypes
  <1>9. FiringTypes'
    BY <1>1, <1>8 DEF Ask, FiringTypes
  <1> QED
    BY <1>2, <1>3, <1>4, <1>9, TypePartsNext

\* A dropped delivery keeps the types.
LEMMA DropDeliveryTypes ==
  ASSUME TypeOK, NEW a \in Asks, DropDelivery(a)
  PROVE  TypeOK'
  <1>1. RecordTypes /\ ClockTypes /\ FiringTypes /\ TurnTypes /\ AlarmTypes
        /\ PassTypes /\ BoundTypes
    BY TypeParts
  <1>2. RecordTypes' /\ ClockTypes' /\ TurnTypes' /\ PassTypes'
    BY <1>1, KeptTypes DEF DropDelivery, Commits, clocks, firings, turns, pass, bounds
  <1>3. FiringTypes'
    BY <1>1 DEF DropDelivery, Commits, FiringTypes, clocks, firings, turns, pass, bounds
  <1>4. AlarmTypes'
    BY <1>1 DEF DropDelivery, Commits, AlarmTypes, clocks, firings, turns, pass, bounds
  <1>5. BoundTypes'
    BY <1>1 DEF DropDelivery, Commits, BoundTypes, clocks, firings, turns, pass, bounds
  <1> QED
    BY <1>2, <1>3, <1>4, <1>5, TypePartsNext

\* The refresh of a call keeps the types.
LEMMA CallRefreshesTypes ==
  ASSUME TypeOK, CallRefreshes
  PROVE  TypeOK'
  <1>1. RecordTypes /\ ClockTypes /\ FiringTypes /\ TurnTypes /\ AlarmTypes
        /\ PassTypes /\ BoundTypes
    BY TypeParts
  <1>2. RecordTypes' /\ FiringTypes' /\ TurnTypes' /\ PassTypes' /\ BoundTypes'
    BY <1>1, KeptTypes DEF CallRefreshes, clocks, firings, turns, pass, bounds
  <1>3. Refresh
    BY DEF CallRefreshes
  <1>4. ClockTypes' /\ AlarmTypes'
    BY <1>1, <1>2, <1>3, RefreshTypes
  <1> QED
    BY <1>2, <1>4, TypePartsNext

\* An eviction keeps the types.
LEMMA EvictTypes ==
  ASSUME TypeOK, Evict
  PROVE  TypeOK'
  <1>1. RecordTypes /\ ClockTypes /\ FiringTypes /\ TurnTypes /\ AlarmTypes
        /\ PassTypes /\ BoundTypes
    BY TypeParts
  <1>2. RecordTypes' /\ ClockTypes' /\ FiringTypes'
    BY <1>1, KeptTypes DEF Evict, clocks, firings, turns, pass, bounds
  <1>3. TurnTypes'
    BY <1>1 DEF Evict, TurnTypes, clocks, firings, turns, pass, bounds
  <1>4. AlarmTypes'
    BY <1>1 DEF Evict, AlarmTypes, clocks, firings, turns, pass, bounds
  <1>5. PassTypes'
    BY <1>1, DelaysAssumption DEF Evict, PassTypes, clocks, firings, turns, pass, bounds
  <1>6. BoundTypes'
    BY <1>1 DEF Evict, BoundTypes, clocks, firings, turns, pass, bounds
  <1> QED
    BY <1>2, <1>3, <1>4, <1>5, <1>6, TypePartsNext

\* The deferral of a busy isolate keeps the types.
LEMMA AlarmDefersTypes ==
  ASSUME TypeOK, AlarmDefers
  PROVE  TypeOK'
  <1>1. RecordTypes /\ ClockTypes /\ FiringTypes /\ TurnTypes /\ AlarmTypes
        /\ PassTypes /\ BoundTypes
    BY TypeParts
  <1>2. RecordTypes' /\ FiringTypes' /\ TurnTypes' /\ PassTypes' /\ BoundTypes'
    BY <1>1, KeptTypes DEF AlarmDefers, clocks, firings, turns, pass, bounds
  <1>3. ClockTypes'
    BY <1>1, DeferType DEF AlarmDefers, ClockTypes, clocks, firings, turns, pass, bounds
  <1>4. AlarmTypes'
    <2>1. ClockTypes' /\ FiringTypes' /\ ArmAlarm
      BY <1>1, KeptTypes, DeferType DEF AlarmDefers
    <2>2. DeadlineInputs'
      BY <2>1 DEF ClockTypes, FiringTypes, DeadlineInputs
    <2> QED
      BY <2>1, <2>2, ArmedByRefresh DEF AlarmTypes
  <1> QED
    BY <1>2, <1>3, <1>4, TypePartsNext

\* The deferral of an occupied object keeps the types.
LEMMA HoldFiringsTypes ==
  ASSUME TypeOK, HoldFirings
  PROVE  TypeOK'
  <1>1. RecordTypes /\ ClockTypes /\ FiringTypes /\ TurnTypes /\ AlarmTypes
        /\ PassTypes /\ BoundTypes
    BY TypeParts
  <1>2. RecordTypes' /\ FiringTypes' /\ TurnTypes' /\ AlarmTypes' /\ BoundTypes'
    BY <1>1, KeptTypes DEF HoldFirings, clocks, firings, turns, pass, bounds
  <1>3. ClockTypes'
    BY <1>1, DeferType DEF HoldFirings, ClockTypes, clocks, firings, turns, pass, bounds
  <1>4. PassTypes'
    BY <1>1 DEF HoldFirings, PassTypes, clocks, firings, turns, pass, bounds
  <1> QED
    BY <1>2, <1>3, <1>4, TypePartsNext

\* The passing of time keeps the types.
LEMMA TickTypes ==
  ASSUME TypeOK, Tick
  PROVE  TypeOK'
  <1>1. RecordTypes /\ ClockTypes /\ FiringTypes /\ TurnTypes /\ AlarmTypes
        /\ PassTypes /\ BoundTypes
    BY TypeParts
  <1>2. RecordTypes' /\ TurnTypes' /\ BoundTypes'
    BY <1>1, KeptTypes DEF Tick
  <1>3. \A n \in Nat : Larger(n - 1, 0) \in Nat
    BY DEF Larger
  <1>4. due' \in [Routine -> Int]
    BY <1>1, Delays DEF Tick, ClockTypes
  <1>5. held' \in [Routine -> Nat]
    BY <1>1, <1>3 DEF Tick, ClockTypes
  <1>6. ClockTypes'
    BY <1>1, <1>4, <1>5 DEF Tick, ClockTypes
  <1>7. lease' \in [Routine -> Nat]
    BY <1>1, <1>3 DEF Tick, FiringTypes
  <1>8. FiringTypes'
    BY <1>1, <1>7 DEF Tick, FiringTypes
  <1>9. AlarmTypes'
    BY <1>1, <1>3, IdsAssumption DEF Tick, AlarmTypes
  <1>10. timer' \in Nat
    BY <1>1, <1>3 DEF Tick, PassTypes
  <1>11. PassTypes'
    BY <1>1, <1>10 DEF Tick, PassTypes
  <1> QED
    BY <1>2, <1>6, <1>8, <1>9, <1>11, TypePartsNext

\* A zone move keeps the types.
LEMMA MoveZoneTypes ==
  ASSUME TypeOK, MoveZone
  PROVE  TypeOK'
  <1>1. RecordTypes /\ ClockTypes /\ FiringTypes /\ TurnTypes /\ AlarmTypes
        /\ PassTypes /\ BoundTypes
    BY TypeParts
  <1>2. RecordTypes' /\ FiringTypes' /\ TurnTypes' /\ PassTypes'
    BY <1>1, KeptTypes DEF MoveZone
  <1>3. ClockTypes'
    BY <1>1, DelaysAssumption DEF MoveZone, ClockTypes
  <1>4. BoundTypes'
    BY <1>1 DEF MoveZone, BoundTypes
  <1>5. DeadlineInputs' /\ ArmAlarm
    BY <1>2, <1>3 DEF MoveZone, ClockTypes, FiringTypes, DeadlineInputs
  <1>6. AlarmTypes'
    BY <1>5, ArmedByRefresh DEF AlarmTypes
  <1> QED
    BY <1>2, <1>3, <1>4, <1>6, TypePartsNext

\* One lock looked at by the reaper keeps the types.
LEMMA ReapTypes ==
  ASSUME TypeOK, NEW r \in Routine, Reap(r)
  PROVE  TypeOK'
  <1>1. RecordTypes /\ ClockTypes /\ FiringTypes /\ TurnTypes /\ AlarmTypes
        /\ PassTypes /\ BoundTypes
    BY TypeParts
  <1>2. AlarmTypes' /\ BoundTypes'
    BY <1>1, KeptTypes DEF Reap
  <1>3. PassTypes'
    BY <1>1 DEF Reap, PassTypes
  <1>4. ReapedAs(r) \in Outcomes
    BY DEF ReapedAs, Settled, Outcomes
  <1>5. RecordTypes' /\ ClockTypes' /\ FiringTypes' /\ stray' \in BOOLEAN
    <2>1. CASE SettleFiring(r, ReapedAs(r))
      BY <1>4, <2>1, SettleTypes
    <2>2. CASE UNCHANGED <<rec, clocks, firings, stray>>
      BY <1>1, <2>2, KeptTypes DEF TurnTypes
    <2> QED
      BY <2>1, <2>2 DEF Reap
  <1>6. TurnTypes'
    BY <1>1, <1>5 DEF Reap, TurnTypes
  <1> QED
    BY <1>2, <1>3, <1>5, <1>6, TypePartsNext

\* A queued claim keeps the types.
LEMMA ClaimQueuedTypes ==
  ASSUME TypeOK, NEW r \in Routine, ClaimQueued(r)
  PROVE  TypeOK'
  <1>1. RecordTypes /\ ClockTypes /\ FiringTypes
    BY TypeParts
  <1>2. queue[r] \in Seq(Asks) /\ queue[r] # <<>>
    BY <1>1 DEF ClaimQueued, IsFirst, QueuedFor, Waiting, FiringTypes
  <1>3. Head(queue[r]) \in Asks /\ Tail(queue[r]) \in Seq(Asks)
    BY <1>2
  <1>4. BatchLeft /\ WriteClaim(r, Head(queue[r]))
    BY DEF ClaimQueued
  <1>5. RecordTypes' /\ ClockTypes'
    BY <1>1, KeptTypes DEF ClaimQueued
  <1>6. queue' \in [Routine -> Seq(Asks)] /\ minted' \subseteq Asks
    BY <1>1, <1>3 DEF ClaimQueued, FiringTypes
  <1>7. FiringTypes' /\ TurnTypes' /\ AlarmTypes' /\ PassTypes' /\ BoundTypes'
    BY <1>3, <1>4, <1>6, ClaimTypes DEF FiringTypes
  <1> QED
    BY <1>5, <1>7, TypePartsNext

\* A scheduled claim keeps the types.
LEMMA ClaimScheduledTypes ==
  ASSUME TypeOK, NEW r \in Routine, ClaimScheduled(r)
  PROVE  TypeOK'
  <1>1. RecordTypes /\ ClockTypes /\ FiringTypes
    BY TypeParts
  <1>2. BatchLeft /\ WriteClaim(r, "cron")
    BY DEF ClaimScheduled, ClaimsDue
  <1>3. RecordTypes'
    BY <1>1, KeptTypes DEF ClaimScheduled
  <1>4. NextDue(r) \subseteq Int
    BY <1>1, DelaysAssumption DEF NextDue, ClockTypes
  <1>5. due' \in [Routine -> Int]
    BY <1>1, <1>4 DEF ClaimScheduled, ClockTypes
  <1>6. ClockTypes'
    BY <1>1, <1>5, DelaysAssumption DEF ClaimScheduled, ClockTypes
  <1>7. queue' \in [Routine -> Seq(Asks)] /\ minted' \subseteq Asks
    BY <1>1 DEF ClaimScheduled, FiringTypes
  <1>8. FiringTypes' /\ TurnTypes' /\ AlarmTypes' /\ PassTypes' /\ BoundTypes'
    BY <1>2, <1>7, ClaimTypes DEF FiringTypes
  <1> QED
    BY <1>3, <1>6, <1>8, TypePartsNext

\* A schedule with no occurrence left keeps the types.
LEMMA TurnOffTypes ==
  ASSUME TypeOK, NEW r \in Routine, TurnOff(r)
  PROVE  TypeOK'
  <1>1. RecordTypes /\ ClockTypes /\ FiringTypes /\ TurnTypes /\ AlarmTypes
        /\ PassTypes /\ BoundTypes
    BY TypeParts
  <1>2. FiringTypes' /\ TurnTypes' /\ AlarmTypes' /\ BoundTypes'
    BY <1>1, KeptTypes DEF TurnOff, DrainEnds, clocks, firings, turns, pass, bounds
  <1>3. RecordTypes'
    BY <1>1 DEF TurnOff, DrainEnds, RecordTypes, clocks, firings, turns, pass, bounds
  <1>4. ClockTypes'
    BY <1>1, DelaysAssumption DEF TurnOff, DrainEnds, ClockTypes, clocks, firings, turns, pass, bounds
  <1>5. PassTypes'
    BY <1>1, DelaysAssumption DEF TurnOff, DrainEnds, PassTypes, clocks, firings, turns, pass, bounds
  <1> QED
    BY <1>2, <1>3, <1>4, <1>5, TypePartsNext

\* The settlement at the end of #execute keeps the types.
LEMMA FiringDoneTypes ==
  ASSUME TypeOK, FiringDone, outcome \in Outcomes
  PROVE  TypeOK'
  <1>1. TurnTypes /\ AlarmTypes /\ PassTypes /\ BoundTypes
    BY TypeParts
  <1>2. firing \in Routine /\ SettleFiring(firing, outcome)
    BY <1>1 DEF FiringDone, InExecutor, PassTypes
  <1>3. RecordTypes' /\ ClockTypes' /\ FiringTypes' /\ stray' \in BOOLEAN
    BY <1>2, SettleTypes
  <1>4. AlarmTypes' /\ BoundTypes'
    BY <1>1, KeptTypes DEF FiringDone
  <1>5. TurnTypes'
    BY <1>1, <1>3 DEF FiringDone, TurnTypes
  <1>6. PassTypes'
    BY <1>1 DEF FiringDone, PassGoesOn, PassTypes
  <1> QED
    BY <1>3, <1>4, <1>5, <1>6, TypePartsNext

\* A timeout keeps the types.
LEMMA FiringTimesOutTypes ==
  ASSUME TypeOK, FiringTimesOut
  PROVE  TypeOK'
  <1>1. RecordTypes /\ ClockTypes /\ FiringTypes /\ TurnTypes /\ AlarmTypes
        /\ PassTypes /\ BoundTypes
    BY TypeParts
  <1>2. firing \in Routine /\ ReapedAs(firing) \in Outcomes
    BY <1>1 DEF FiringTimesOut, PassTypes, ReapedAs, Settled, Outcomes
  <1>3. RecordTypes' /\ ClockTypes' /\ FiringTypes' /\ stray' \in BOOLEAN
    <2>1. CASE SettleFiring(firing, ReapedAs(firing))
      BY <1>2, <2>1, SettleTypes
    <2>2. CASE UNCHANGED <<rec, clocks, firings, stray>>
      BY <1>1, <2>2, KeptTypes DEF TurnTypes
    <2> QED
      BY <2>1, <2>2 DEF FiringTimesOut
  <1>4. AlarmTypes' /\ BoundTypes'
    BY <1>1, KeptTypes DEF FiringTimesOut
  <1>5. TurnTypes'
    BY <1>1, <1>3 DEF FiringTimesOut, TurnTypes
  <1>6. PassTypes'
    BY <1>1, <1>2 DEF FiringTimesOut, PassGoesOn, PassTypes
  <1> QED
    BY <1>3, <1>4, <1>5, <1>6, TypePartsNext

\* A late admission keeps the types.
LEMMA AbandonedAsksTypes ==
  ASSUME TypeOK, NEW r \in Routine, AbandonedAsks(r)
  PROVE  TypeOK'
  <1>1. RecordTypes /\ ClockTypes /\ FiringTypes /\ TurnTypes /\ AlarmTypes
        /\ PassTypes /\ BoundTypes
    BY TypeParts
  <1>2. RecordTypes' /\ FiringTypes' /\ BoundTypes'
    BY <1>1, KeptTypes DEF AbandonedAsks
  <1>3. PassTypes'
    BY <1>1 DEF AbandonedAsks, PassTypes
  <1>4. CASE Admits(r) /\ stray' = TRUE /\ Refresh
    <2>1. TurnTypes'
      BY <1>1, <1>4 DEF Admits, TurnTypes
    <2>2. ClockTypes' /\ AlarmTypes'
      BY <1>1, <1>2, <1>4, RefreshTypes
    <2> QED
      BY <1>2, <1>3, <2>1, <2>2, TypePartsNext
  <1>5. CASE UNCHANGED <<turns, clocks, alarm, call>>
    <2>1. TurnTypes' /\ ClockTypes' /\ AlarmTypes'
      BY <1>1, <1>5, KeptTypes
    <2> QED
      BY <1>2, <1>3, <2>1, TypePartsNext
  <1> QED
    BY <1>4, <1>5 DEF AbandonedAsks

-----------------------------------------------------------------------------
(* What the records of a Routine say of each other                          *)

\* An ask waits in the queue of its Routine, once, under its receipt and not
\* yet claimed; a claimed one keeps its receipt until its Routine is deleted.
AsksAreOnce ==
  /\ \A r \in Routine : \A i \in DOMAIN queue[r] :
       /\ AskOf[queue[r][i]] = r /\ queue[r][i] \in receipts \ minted
       /\ \A j \in DOMAIN queue[r] : queue[r][i] = queue[r][j] => i = j
  /\ \A r \in Routine : lock[r] \in Asks => lock[r] \in minted
  /\ \A a \in minted : a \in receipts \/ rec[AskOf[a]] = "deleted"

RecordInv == RunLogIsTrue /\ NothingOutlivesTheRecord /\ AsksAreOnce

\* What the alarm pass holds in its locals is of Routines that were created,
\* and a firing that is over has an outcome.
PassInv ==
  /\ \A r \in reaping : rec[r] # "absent"
  /\ pc = "exec" => rec[firing] # "absent"
  /\ phase \in {"notify", "done"} => outcome \in Outcomes

SchedulerInv == TypeOK /\ RecordInv /\ PassInv

\* A step that writes no record of a Routine but the clocks of live ones.
RecordsKept ==
  /\ UNCHANGED <<rec, lock, queue, log, receipts, minted>>
  /\ \A r \in Routine : kept'[r] = kept[r] \/ Live(r)
LEMMA RecordsKeptInv == RecordInv /\ RecordsKept => RecordInv'
  <1> SUFFICES ASSUME RecordInv, RecordsKept PROVE RecordInv'
    OBVIOUS
  <1>1. RunLogIsTrue' /\ AsksAreOnce'
    BY DEF RecordInv, RecordsKept, RunLogIsTrue, AsksAreOnce
  <1>2. NothingOutlivesTheRecord'
    BY DEF RecordInv, RecordsKept, NothingOutlivesTheRecord, Live
  <1> QED
    BY <1>1, <1>2 DEF RecordInv

LEMMA RefreshKeepsRecords ==
  ASSUME TypeOK, Refresh, UNCHANGED <<rec, lock, queue, log, receipts, minted>>
  PROVE  RecordsKept
  BY DEF Refresh, RebuildClocks, RecordsKept, Stale, TypeOK
LEMMA DeferKeepsRecords ==
  ASSUME TypeOK, Defer, UNCHANGED <<rec, lock, queue, log, receipts, minted>>
  PROVE  RecordsKept
  BY DEF Defer, RecordsKept, TypeOK

\* Every step but the claims, the settlements and the calls on a Routine keeps
\* the records.
KeepingStep ==
  \/ Tick \/ AlarmDefers \/ AlarmFires \/ AlarmPromotes \/ HoldFirings \/ ListLocks
  \/ ReapEnds \/ NothingToClaim \/ SettleRest \/ AlarmRecovers \/ AlarmReturns
  \/ (\E o \in Outcomes : ExecutorAnswers(o) \/ TurnEnds(o))
  \/ ExecutorAdmits \/ ExecutorRefused \/ ExecutorReturns \/ ExecutorNotifies
  \/ (\E r \in Routine : AbandonedAsks(r))
  \/ TurnParks \/ TurnDefers \/ DrivePromotes
  \/ CallRefreshes \/ MoveZone \/ ChatArrives \/ Evict

LEMMA KeepingStepKeeps ==
  ASSUME TypeOK, KeepingStep
  PROVE  RecordsKept
  <1> USE DEF clocks, firings
  <1>1. CASE Tick \/ AlarmFires \/ ListLocks \/ ReapEnds \/ NothingToClaim \/ AlarmRecovers
             \/ ExecutorRefused \/ ExecutorReturns \/ ExecutorNotifies \/ Evict
             \/ (\E o \in Outcomes : ExecutorAnswers(o))
    BY <1>1 DEF Tick, AlarmFires, ListLocks, ReapEnds, NothingToClaim, DrainEnds,
         AlarmRecovers, ExecutorRefused, ExecutorReturns, ExecutorNotifies, Evict,
         ExecutorAnswers, RecordsKept
  <1>2. CASE AlarmPromotes \/ SettleRest \/ AlarmReturns \/ ExecutorAdmits \/ TurnParks
             \/ TurnDefers \/ DrivePromotes \/ CallRefreshes \/ ChatArrives
             \/ (\E o \in Outcomes : TurnEnds(o))
    BY <1>2, RefreshKeepsRecords DEF AlarmPromotes, SettleRest, AlarmReturns,
         ExecutorAdmits, TurnParks, TurnDefers, DrivePromotes, CallRefreshes,
         ChatArrives, TurnEnds
  <1>3. CASE AlarmDefers \/ HoldFirings
    BY <1>3, DeferKeepsRecords DEF AlarmDefers, HoldFirings
  <1>4. CASE \E r \in Routine : AbandonedAsks(r)
    <2>1. PICK r \in Routine : AbandonedAsks(r)
      BY <1>4
    <2>2. CASE Refresh
      BY <2>1, <2>2, RefreshKeepsRecords DEF AbandonedAsks
    <2>3. CASE UNCHANGED clocks
      BY <2>1, <2>3 DEF AbandonedAsks, RecordsKept
    <2> QED
      BY <2>1, <2>2, <2>3 DEF AbandonedAsks
  <1>5. CASE MoveZone
    BY <1>5 DEF MoveZone, RecordsKept, Stale, TypeOK
  <1> QED
    BY <1>1, <1>2, <1>3, <1>4, <1>5 DEF KeepingStep

\* #settleFiring keeps the records true, of a Routine that was created.
LEMMA SettleKeepsRecords ==
  ASSUME TypeOK, RecordInv, NEW r \in Routine, rec[r] # "absent", NEW o \in Outcomes,
         SettleFiring(r, o)
  PROVE  RecordInv' /\ \A x \in Routine : rec'[x] = "absent" => rec[x] = "absent"
  <1>1. \A x \in Routine : (x # r => rec'[x] = rec[x] /\ kept'[x] = kept[x])
    BY DEF SettleFiring, RecordOutcomeOnClock, TypeOK
  <1>2. \/ rec'[r] = rec[r] /\ kept'[r] = kept[r]
        \/ rec[r] \in {"on", "off"} /\ rec'[r] = "off"
    BY DEF SettleFiring, RecordOutcomeOnClock, Pauses, TypeOK
  <1>3. /\ \A x \in Routine : x # r => lock'[x] = lock[x] /\ log'[x] = log[x]
        /\ lock'[r] = None /\ log'[r] = SettledRow(r, o)
        /\ UNCHANGED <<queue, receipts, minted>>
    BY DEF SettleFiring, TypeOK
  <1>4. RunLogIsTrue'
    BY <1>3 DEF RecordInv, RunLogIsTrue, SettledRow, Outcomes
  <1>5. NothingOutlivesTheRecord'
    <2> SUFFICES ASSUME NEW x \in Routine, rec'[x] \in {"absent", "deleted"}
                 PROVE  /\ lock'[x] = None /\ queue'[x] = <<>>
                        /\ kept'[x] = "none" /\ log'[x] = "none"
      BY DEF NothingOutlivesTheRecord
    <2>1. rec'[x] = rec[x] /\ kept'[x] = kept[x]
      BY <1>1, <1>2
    <2> QED
      BY <1>3, <2>1 DEF RecordInv, NothingOutlivesTheRecord, SettledRow
  <1>6. AsksAreOnce'
    <2>1. \A a \in minted : rec[AskOf[a]] = "deleted" => rec'[AskOf[a]] = "deleted"
      BY <1>1, <1>2, IdsAssumption DEF TypeOK
    <2> QED
      BY <1>3, <2>1, IdsAssumption DEF RecordInv, AsksAreOnce
  <1> QED
    BY <1>1, <1>2, <1>4, <1>5, <1>6 DEF RecordInv

\* #claimQueued: the ask it takes off the queue is claimed for the first time.
LEMMA ClaimQueuedKeepsRecords ==
  ASSUME TypeOK, RecordInv, NEW r \in Routine, ClaimQueued(r)
  PROVE  RecordInv' /\ rec[r] \in {"on", "off"}
  <1> DEFINE q == queue[r]
  <1>1. q \in Seq(Asks) /\ q # <<>> /\ lock[r] = None
    BY DEF ClaimQueued, IsFirst, QueuedFor, Waiting, TypeOK
  <1>2. /\ 1 \in DOMAIN q /\ Head(q) = q[1] /\ Head(q) \in Asks
        /\ \A i \in DOMAIN Tail(q) : i + 1 \in DOMAIN q /\ Tail(q)[i] = q[i + 1]
        /\ DOMAIN Tail(q) \subseteq Nat
    BY <1>1
  <1>3. rec[r] \in {"on", "off"}
    BY <1>1 DEF RecordInv, NothingOutlivesTheRecord, TypeOK
  <1>4. /\ \A x \in Routine : x # r =>
             lock'[x] = lock[x] /\ log'[x] = log[x] /\ queue'[x] = queue[x]
        /\ lock'[r] = Head(q) /\ log'[r] = "running" /\ queue'[r] = Tail(q)
        /\ UNCHANGED <<rec, kept, receipts>> /\ minted' = minted \cup {Head(q)}
    BY DEF ClaimQueued, WriteClaim, TypeOK, clocks
  <1>5. RunLogIsTrue'
    BY <1>2, <1>4, IdsAssumption DEF RecordInv, RunLogIsTrue
  <1>6. NothingOutlivesTheRecord'
    BY <1>3, <1>4 DEF RecordInv, NothingOutlivesTheRecord
  <1>7. ASSUME NEW x \in Routine, NEW i \in DOMAIN queue'[x]
        PROVE  /\ AskOf[queue'[x][i]] = x /\ queue'[x][i] \in receipts' \ minted'
               /\ \A j \in DOMAIN queue'[x] : queue'[x][i] = queue'[x][j] => i = j
    <2>1. CASE x = r
      <3>1. /\ i + 1 \in DOMAIN q /\ queue'[x][i] = q[i + 1] /\ i \in Nat /\ i + 1 # 1
            /\ \A j \in DOMAIN queue'[x] :
                 j \in Nat /\ j + 1 \in DOMAIN q /\ queue'[x][j] = q[j + 1]
        <4>1. queue'[x] = Tail(q) /\ i \in Nat
          BY <1>2, <1>4, <1>7, <2>1
        <4>2. i # 0
          BY <1>1, <1>2, <4>1, <1>7
        <4> QED
          BY <1>2, <4>1, <4>2, <1>7
      <3>2. q[i + 1] \in receipts \ minted /\ AskOf[q[i + 1]] = r /\ q[i + 1] # q[1]
        BY <1>2, <3>1 DEF RecordInv, AsksAreOnce
      <3>3. \A j \in DOMAIN queue'[x] : q[i + 1] = q[j + 1] => i + 1 = j + 1
        BY <3>1 DEF RecordInv, AsksAreOnce
      <3> QED
        BY <1>2, <1>4, <2>1, <3>1, <3>2, <3>3
    <2>2. CASE x # r
      <3>1. queue'[x] = queue[x] /\ AskOf[queue[x][i]] = x /\ queue[x][i] \in receipts \ minted
        BY <1>4, <1>7, <2>2 DEF RecordInv, AsksAreOnce
      <3>2. AskOf[q[1]] = r
        BY <1>2 DEF RecordInv, AsksAreOnce
      <3> QED
        BY <1>2, <1>4, <1>7, <2>2, <3>1, <3>2 DEF RecordInv, AsksAreOnce
    <2> QED
      BY <2>1, <2>2
  <1>8. \A x \in Routine : lock'[x] \in Asks => lock'[x] \in minted'
    BY <1>4 DEF RecordInv, AsksAreOnce
  <1>9. \A a \in minted' : a \in receipts' \/ rec'[AskOf[a]] = "deleted"
    <2>1. q[1] \in receipts
      BY <1>2 DEF RecordInv, AsksAreOnce
    <2> QED
      BY <1>2, <1>4, <2>1 DEF RecordInv, AsksAreOnce
  <1>10. AsksAreOnce'
    BY <1>7, <1>8, <1>9 DEF AsksAreOnce
  <1> QED
    BY <1>3, <1>5, <1>6, <1>10 DEF RecordInv

\* #claimScheduled: the lock and the running row of a live Routine.
LEMMA ClaimScheduledKeepsRecords ==
  ASSUME TypeOK, RecordInv, NEW r \in Routine, ClaimScheduled(r)
  PROVE  RecordInv' /\ rec[r] = "on"
  <1>1. Live(r) /\ lock[r] = None
    BY DEF ClaimScheduled, ClaimsDue, IsFirst, DueNow
  <1>2. /\ \A x \in Routine : x # r => lock'[x] = lock[x] /\ log'[x] = log[x]
        /\ lock'[r] = "cron" /\ log'[r] = "running"
        /\ \A x \in Routine : kept'[x] = kept[x] \/ Live(x)
        /\ UNCHANGED <<rec, queue, receipts, minted>>
    BY <1>1 DEF ClaimScheduled, WriteClaim, TypeOK, Stale
  <1>3. RunLogIsTrue'
    BY <1>2, IdsAssumption DEF RecordInv, RunLogIsTrue
  <1>4. NothingOutlivesTheRecord'
    BY <1>1, <1>2 DEF RecordInv, NothingOutlivesTheRecord, Live
  <1>5. AsksAreOnce'
    <2>1. \A x \in Routine : lock'[x] \in Asks => lock'[x] \in minted
      BY <1>2, IdsAssumption DEF RecordInv, AsksAreOnce
    <2> QED
      BY <1>2, <2>1 DEF RecordInv, AsksAreOnce
  <1> QED
    BY <1>1, <1>3, <1>4, <1>5 DEF RecordInv, Live

\* A schedule with no occurrence left.
LEMMA TurnOffKeepsRecords ==
  ASSUME TypeOK, RecordInv, NEW r \in Routine, TurnOff(r)
  PROVE  RecordInv' /\ \A x \in Routine : rec'[x] = "absent" => rec[x] = "absent"
  <1>1. rec[r] = "on"
    BY DEF TurnOff, ClaimsDue, IsFirst, DueNow, Live
  <1>2. /\ \A x \in Routine : x # r => rec'[x] = rec[x] /\ (kept'[x] = kept[x] \/ Live(x))
        /\ rec'[r] = "off" /\ UNCHANGED <<lock, queue, log, receipts, minted>>
    BY DEF TurnOff, DrainEnds, firings, TypeOK, Stale
  <1>3. RunLogIsTrue'
    BY <1>2 DEF RecordInv, RunLogIsTrue
  <1>4. NothingOutlivesTheRecord'
    BY <1>2 DEF RecordInv, NothingOutlivesTheRecord, Live
  <1>5. AsksAreOnce'
    <2>1. \A a \in minted : AskOf[a] \in Routine
      BY IdsAssumption DEF TypeOK
    <2>2. \A a \in minted : rec[AskOf[a]] = "deleted" => rec'[AskOf[a]] = "deleted"
      BY <1>1, <1>2, <2>1
    <2> QED
      BY <1>1, <1>2, <2>2 DEF RecordInv, AsksAreOnce
  <1> QED
    BY <1>2, <1>3, <1>4, <1>5 DEF RecordInv

\* A Routine is created with nothing under its id.
LEMMA CreateKeepsRecords ==
  ASSUME TypeOK, RecordInv, NEW r \in Routine, Create(r)
  PROVE  RecordInv' /\ \A x \in Routine : rec'[x] = "absent" => rec[x] = "absent"
  <1>1. /\ \A x \in Routine : x # r => rec'[x] = rec[x]
        /\ rec[r] = "absent" /\ rec'[r] = "on"
        /\ UNCHANGED <<kept, lock, queue, log, receipts, minted>>
    BY DEF Create, firings, TypeOK
  <1>2. RunLogIsTrue' /\ NothingOutlivesTheRecord'
    BY <1>1 DEF RecordInv, RunLogIsTrue, NothingOutlivesTheRecord
  <1>3. AsksAreOnce'
    <2>1. \A a \in minted : AskOf[a] \in Routine
      BY IdsAssumption DEF TypeOK
    <2>2. \A a \in minted : rec[AskOf[a]] = "deleted" => rec'[AskOf[a]] = "deleted"
      BY <1>1, <2>1
    <2> QED
      BY <1>1, <2>2 DEF RecordInv, AsksAreOnce
  <1> QED
    BY <1>1, <1>2, <1>3 DEF RecordInv

\* A rewritten Routine is still there.
LEMMA RewriteKeepsRecords ==
  ASSUME TypeOK, RecordInv, NEW r \in Routine, NEW to \in {"on", "off"}, Rewrite(r, to)
  PROVE  RecordInv' /\ \A x \in Routine : rec'[x] = "absent" => rec[x] = "absent"
  <1>1. /\ \A x \in Routine : x # r => rec'[x] = rec[x] /\ kept'[x] = kept[x]
        /\ rec[r] \in {"on", "off"} /\ rec'[r] = to
        /\ UNCHANGED <<lock, queue, log, receipts, minted>>
    BY DEF Rewrite, Outdated, firings, TypeOK
  <1>2. RunLogIsTrue' /\ NothingOutlivesTheRecord'
    BY <1>1 DEF RecordInv, RunLogIsTrue, NothingOutlivesTheRecord
  <1>3. AsksAreOnce'
    <2>1. \A a \in minted : AskOf[a] \in Routine
      BY IdsAssumption DEF TypeOK
    <2>2. \A a \in minted : rec[AskOf[a]] = "deleted" => rec'[AskOf[a]] = "deleted"
      BY <1>1, <2>1
    <2> QED
      BY <1>1, <2>2 DEF RecordInv, AsksAreOnce
  <1> QED
    BY <1>1, <1>2, <1>3 DEF RecordInv

\* A deletion takes the receipts of its own deliveries only.
LEMMA DeleteKeepsRecords ==
  ASSUME TypeOK, RecordInv, NEW r \in Routine, Delete(r)
  PROVE  RecordInv' /\ \A x \in Routine : rec'[x] = "absent" => rec[x] = "absent"
  <1>1. /\ \A x \in Routine : x # r =>
             /\ rec'[x] = rec[x] /\ kept'[x] = kept[x] /\ lock'[x] = lock[x]
             /\ queue'[x] = queue[x] /\ log'[x] = log[x]
        /\ rec'[r] = "deleted" /\ kept'[r] = "none" /\ lock'[r] = None
        /\ queue'[r] = <<>> /\ log'[r] = "none"
        /\ receipts' = receipts \ {a \in Hooks : AskOf[a] = r} /\ minted' = minted
    BY DEF Delete, LogSwept, TypeOK
  <1>2. RunLogIsTrue'
    BY <1>1 DEF RecordInv, RunLogIsTrue
  <1>3. NothingOutlivesTheRecord'
    BY <1>1 DEF RecordInv, NothingOutlivesTheRecord
  <1>4. \A x \in Routine : \A i \in DOMAIN queue'[x] :
          /\ AskOf[queue'[x][i]] = x /\ queue'[x][i] \in receipts' \ minted'
          /\ \A j \in DOMAIN queue'[x] : queue'[x][i] = queue'[x][j] => i = j
    BY <1>1 DEF RecordInv, AsksAreOnce
  <1>5. \A x \in Routine : lock'[x] \in Asks => lock'[x] \in minted'
    BY <1>1, IdsAssumption DEF RecordInv, AsksAreOnce
  <1>6. \A a \in minted' : a \in receipts' \/ rec'[AskOf[a]] = "deleted"
    <2> SUFFICES ASSUME NEW a \in minted PROVE a \in receipts' \/ rec'[AskOf[a]] = "deleted"
      BY <1>1
    <2>1. AskOf[a] \in Routine
      BY IdsAssumption DEF TypeOK
    <2>2. a \in receipts \/ rec[AskOf[a]] = "deleted"
      BY DEF RecordInv, AsksAreOnce
    <2> QED
      BY <1>1, <2>1, <2>2
  <1> QED
    BY <1>1, <1>2, <1>3, <1>4, <1>5, <1>6 DEF RecordInv, AsksAreOnce

\* An ask without a receipt was never claimed and does not wait.
LEMMA AskKeepsRecords ==
  ASSUME TypeOK, RecordInv, NEW a \in Asks, Ask(a)
  PROVE  RecordInv'
  <1> DEFINE r == AskOf[a]
  <1>1. r \in Routine /\ rec[r] \in {"on", "off"}
    BY IdsAssumption DEF Ask, Accepts
  <1>2. UNCHANGED <<rec, kept, lock, log, minted>>
    BY DEF Ask, clocks
  <1>3. CASE UNCHANGED <<queue, receipts>>
    BY <1>2, <1>3, RecordsKeptInv DEF RecordsKept
  <1>4. CASE ~UNCHANGED <<queue, receipts>>
    <2>1. /\ a \notin receipts /\ receipts' = receipts \cup {a}
          /\ queue' = Enqueued(a)
      BY <1>4 DEF Ask, Answered
    <2>2. a \notin minted
      BY <1>1, <2>1 DEF RecordInv, AsksAreOnce
    <2>3. \A i \in DOMAIN queue[r] : queue[r][i] # a
      BY <1>1, <2>1 DEF RecordInv, AsksAreOnce
    <2>4. lock[r] # a
      BY <1>1, <2>2 DEF RecordInv, AsksAreOnce
    <2>5. queue' = [queue EXCEPT ![r] = Append(queue[r], a)]
      BY <2>1, <2>3, <2>4 DEF Enqueued, Waits
    <2>6. queue[r] \in Seq(Asks)
      BY <1>1 DEF TypeOK
    <2>7. /\ \A x \in Routine : x # r => queue'[x] = queue[x]
          /\ queue'[r] = Append(queue[r], a)
      BY <1>1, <2>5 DEF TypeOK
    <2>8. /\ DOMAIN queue[r] = 1..Len(queue[r]) /\ Len(queue[r]) \in Nat
          /\ DOMAIN queue'[r] = 1..(Len(queue[r]) + 1)
          /\ queue'[r][Len(queue[r]) + 1] = a
          /\ \A i \in DOMAIN queue[r] : queue'[r][i] = queue[r][i]
      BY <2>6, <2>7
    <2>9. ASSUME NEW x \in Routine, NEW i \in DOMAIN queue'[x]
          PROVE  /\ AskOf[queue'[x][i]] = x /\ queue'[x][i] \in receipts' \ minted'
                 /\ \A j \in DOMAIN queue'[x] : queue'[x][i] = queue'[x][j] => i = j
      <3>1. CASE x # r
        BY <1>2, <2>1, <2>7, <2>9, <3>1 DEF RecordInv, AsksAreOnce
      <3>2. CASE x = r
        <4>1. \A k \in DOMAIN queue'[r] : k \in DOMAIN queue[r] \/ k = Len(queue[r]) + 1
          BY <2>8
        <4>2. CASE i = Len(queue[r]) + 1
          BY <1>2, <2>1, <2>2, <2>3, <2>8, <3>2, <4>1, <4>2
        <4>3. CASE i \in DOMAIN queue[r]
          <5>1. /\ AskOf[queue[r][i]] = r /\ queue[r][i] \in receipts \ minted
                /\ \A j \in DOMAIN queue[r] : queue[r][i] = queue[r][j] => i = j
            BY <1>1, <4>3 DEF RecordInv, AsksAreOnce
          <5> QED
            BY <1>2, <2>1, <2>3, <2>8, <3>2, <4>1, <4>3, <5>1
        <4> QED
          BY <2>9, <3>2, <4>1, <4>2, <4>3
      <3> QED
        BY <3>1, <3>2
    <2>10. AsksAreOnce'
      BY <1>2, <2>1, <2>9 DEF RecordInv, AsksAreOnce
    <2>11. RunLogIsTrue' /\ NothingOutlivesTheRecord'
      BY <1>1, <1>2, <2>7 DEF RecordInv, RunLogIsTrue, NothingOutlivesTheRecord
    <2> QED
      BY <2>10, <2>11 DEF RecordInv
  <1> QED
    BY <1>3, <1>4

LEMMA DropDeliveryKeepsRecords ==
  ASSUME TypeOK, RecordInv, NEW a \in Asks, DropDelivery(a)
  PROVE  RecordInv'
  <1>1. UNCHANGED <<rec, kept, lock, queue, log, minted>> /\ receipts \subseteq receipts'
    BY DEF DropDelivery, clocks
  <1>2. RunLogIsTrue' /\ NothingOutlivesTheRecord'
    BY <1>1 DEF RecordInv, RunLogIsTrue, NothingOutlivesTheRecord
  <1>3. AsksAreOnce'
    BY <1>1 DEF RecordInv, AsksAreOnce
  <1> QED
    BY <1>2, <1>3 DEF RecordInv

-----------------------------------------------------------------------------
(* The locals of the alarm pass                                             *)

\* A step that starts no firing and lists no lock.
LEMMA PassKept ==
  ASSUME PassInv, \A r \in Routine : rec'[r] = "absent" => rec[r] = "absent",
         TypeOK, reaping' \subseteq reaping,
         pc' = "exec" => pc = "exec" /\ firing' = firing,
         phase' \in {"notify", "done"} => phase \in {"notify", "done"} /\ outcome' = outcome
  PROVE  PassInv'
  <1>1. \A r \in reaping' : rec'[r] # "absent"
    BY DEF PassInv, TypeOK
  <1>2. pc' = "exec" => rec'[firing'] # "absent"
    BY DEF PassInv, TypeOK
  <1> QED
    BY <1>1, <1>2 DEF PassInv

LEMMA KeepingStepPass ==
  ASSUME SchedulerInv, KeepingStep
  PROVE  PassInv'
  <1> USE DEF pass
  <1>1. TypeOK /\ PassInv /\ RecordInv /\ UNCHANGED rec
    BY KeepingStepKeeps DEF SchedulerInv, RecordsKept
  <1>2. CASE Tick \/ AlarmDefers \/ (\E o \in Outcomes : TurnEnds(o)) \/ TurnParks
             \/ TurnDefers \/ DrivePromotes \/ CallRefreshes \/ MoveZone \/ ChatArrives
    <2>1. UNCHANGED <<pc, reaping, firing, phase, outcome>>
      BY <1>2 DEF Tick, AlarmDefers, TurnEnds, TurnParks, TurnDefers, DrivePromotes,
           CallRefreshes, MoveZone, ChatArrives
    <2> QED
      BY <1>1, <2>1, PassKept
  <1>3. CASE AlarmFires \/ AlarmPromotes \/ HoldFirings \/ ReapEnds \/ NothingToClaim
             \/ SettleRest \/ AlarmRecovers \/ AlarmReturns
    <2>1. pc' # "exec" /\ UNCHANGED <<reaping, firing, phase, outcome>>
      BY <1>3 DEF AlarmFires, AlarmPromotes, HoldFirings, ReapEnds, NothingToClaim,
           DrainEnds, SettleRest, AlarmRecovers, AlarmReturns
    <2> QED
      BY <1>1, <2>1, PassKept
  <1>4. CASE ListLocks
    <2>1. pc' # "exec" /\ UNCHANGED <<rec, phase, outcome>>
      BY <1>4 DEF ListLocks
    <2>2. \A r \in reaping' : rec[r] # "absent"
      BY <1>1, <1>4 DEF ListLocks, RecordInv, NothingOutlivesTheRecord
    <2> QED
      BY <1>1, <2>1, <2>2 DEF PassInv
  <1>5. CASE Evict
    BY <1>1, <1>5 DEF Evict, PassInv
  <1>6. CASE (\E o \in Outcomes : ExecutorAnswers(o)) \/ ExecutorRefused \/ ExecutorReturns
    <2>1. \E o \in Outcomes : Reports(o)
      BY <1>6 DEF ExecutorAnswers, ExecutorRefused, ExecutorReturns, Settled, Outcomes
    <2>2. outcome' \in Outcomes
      BY <2>1 DEF Reports
    <2>3. UNCHANGED <<pc, reaping, firing>>
      BY <1>6 DEF ExecutorAnswers, ExecutorRefused, ExecutorReturns, PassKeeps
    <2> QED
      BY <1>1, <2>2, <2>3 DEF PassInv
  <1>7. CASE ExecutorAdmits \/ ExecutorNotifies
    BY <1>1, <1>7 DEF ExecutorAdmits, ExecutorNotifies, InExecutor, PassKeeps, PassInv
  <1>8. CASE \E r \in Routine : AbandonedAsks(r)
    <2>1. UNCHANGED <<pc, reaping, firing, phase, outcome>>
      BY <1>8 DEF AbandonedAsks
    <2> QED
      BY <1>1, <2>1, PassKept
  <1> QED
    BY <1>2, <1>3, <1>4, <1>5, <1>6, <1>7, <1>8 DEF KeepingStep

-----------------------------------------------------------------------------
(* The invariant                                                            *)

LEMMA KeepingStepTypes ==
  ASSUME TypeOK, KeepingStep
  PROVE  TypeOK'
  BY ChatArrivesTypes, TurnEndsTypes, TurnParksTypes, TurnDefersTypes,
     DrivePromotesTypes, AlarmFiresTypes, AlarmPromotesTypes, ListLocksTypes,
     ReapEndsTypes, NothingToClaimTypes, SettleRestTypes, AlarmRecoversTypes,
     AlarmReturnsTypes, ExecutorAnswersTypes, ExecutorAdmitsTypes,
     ExecutorRefusedTypes, ExecutorReturnsTypes, ExecutorNotifiesTypes,
     CallRefreshesTypes, EvictTypes, AlarmDefersTypes, HoldFiringsTypes, TickTypes,
     MoveZoneTypes, AbandonedAsksTypes DEF KeepingStep

\* The steps of the scheduler, with the two commands that only write a record.
LEMMA NextCases ==
  ASSUME Next
  PROVE  \/ KeepingStep
         \/ \E r \in Routine : \/ Reap(r) \/ ClaimQueued(r) \/ ClaimScheduled(r) \/ TurnOff(r)
                               \/ Create(r) \/ Delete(r)
                               \/ \E to \in {"on", "off"} : Rewrite(r, to)
         \/ FiringDone \/ FiringTimesOut
         \/ \E a \in Asks : Ask(a) \/ DropDelivery(a)
  <1>1. \A r \in Routine : Pause(r) \/ Resume(r) \/ Update(r) =>
                           \E to \in {"on", "off"} : Rewrite(r, to)
    BY DEF Pause, Resume, Update, Rewrite
  <1> QED
    BY <1>1 DEF Next, AlarmPass, Executor, Turns, Calls, KeepingStep

\* A settlement of the pass keeps the invariant.
LEMMA SettlementInv ==
  ASSUME SchedulerInv, NEW r \in Routine, rec[r] # "absent", NEW o \in Outcomes,
         SettleFiring(r, o), reaping' \subseteq reaping,
         pc' = "exec" => pc = "exec" /\ firing' = firing,
         phase' \in {"notify", "done"} => phase \in {"notify", "done"} /\ outcome' = outcome
  PROVE  RecordInv' /\ PassInv'
  <1>1. RecordInv' /\ \A x \in Routine : rec'[x] = "absent" => rec[x] = "absent"
    BY SettleKeepsRecords DEF SchedulerInv
  <1> QED
    BY <1>1, PassKept DEF SchedulerInv

LEMMA SchedulerInvStep == SchedulerInv /\ [Next]_vars => SchedulerInv'
  <1> SUFFICES ASSUME SchedulerInv, [Next]_vars PROVE SchedulerInv'
    OBVIOUS
  <1> USE DEF SchedulerInv
  <1>1. CASE UNCHANGED vars
    <2>1. TypeOK'
      BY <1>1, TypeParts, KeptTypes, TypePartsNext DEF vars
    <2>2. RecordInv'
      BY <1>1, RecordsKeptInv DEF RecordsKept, vars, clocks, firings
    <2>3. PassInv'
      BY <1>1 DEF PassInv, vars, pass
    <2> QED
      BY <2>1, <2>2, <2>3
  <1>2. CASE KeepingStep
    BY <1>2, KeepingStepTypes, KeepingStepKeeps, RecordsKeptInv, KeepingStepPass
  <1>3. ASSUME NEW r \in Routine, Reap(r) PROVE SchedulerInv'
    <2>1. /\ rec[r] # "absent" /\ reaping' \subseteq reaping
          /\ UNCHANGED <<pc, firing, phase, outcome>>
      BY <1>3 DEF Reap, PassInv
    <2>2. ReapedAs(r) \in Outcomes
      BY DEF ReapedAs, Settled, Outcomes
    <2>3. CASE SettleFiring(r, ReapedAs(r))
      BY <1>3, <2>1, <2>2, <2>3, ReapTypes, SettlementInv
    <2>4. CASE UNCHANGED <<rec, clocks, firings, stray>>
      <3>1. RecordInv'
        BY <2>4, RecordsKeptInv DEF RecordsKept, clocks, firings
      <3>2. PassInv'
        BY <2>1, <2>4, PassKept
      <3> QED
        BY <1>3, <3>1, <3>2, ReapTypes
    <2> QED
      BY <1>3, <2>3, <2>4 DEF Reap
  <1>4. ASSUME NEW r \in Routine, ClaimQueued(r) \/ ClaimScheduled(r) PROVE SchedulerInv'
    <2>1. RecordInv' /\ rec[r] \in {"on", "off"}
      BY <1>4, ClaimQueuedKeepsRecords, ClaimScheduledKeepsRecords
    <2>2. UNCHANGED <<rec, reaping>> /\ firing' = r /\ phase' = "ask"
      BY <1>4 DEF ClaimQueued, ClaimScheduled, WriteClaim
    <2>3. PassInv'
      BY <2>1, <2>2 DEF PassInv
    <2> QED
      BY <1>4, <2>1, <2>3, ClaimQueuedTypes, ClaimScheduledTypes
  <1>5. ASSUME NEW r \in Routine, TurnOff(r) PROVE SchedulerInv'
    <2>1. pc' # "exec" /\ UNCHANGED <<reaping, phase, outcome>>
      BY <1>5 DEF TurnOff, DrainEnds
    <2> QED
      BY <1>5, <2>1, TurnOffTypes, TurnOffKeepsRecords, PassKept
  <1>6. ASSUME NEW r \in Routine, Create(r) PROVE SchedulerInv'
    <2>1. UNCHANGED <<pc, reaping, firing, phase, outcome>>
      BY <1>6 DEF Create, Commits, pass
    <2> QED
      BY <1>6, <2>1, CreateTypes, CreateKeepsRecords, PassKept
  <1>7. ASSUME NEW r \in Routine, NEW to \in {"on", "off"}, Rewrite(r, to) PROVE SchedulerInv'
    <2>1. UNCHANGED <<pc, reaping, firing, phase, outcome>>
      BY <1>7 DEF Rewrite, Commits, pass
    <2> QED
      BY <1>7, <2>1, RewriteTypes, RewriteKeepsRecords, PassKept
  <1>8. ASSUME NEW r \in Routine, Delete(r) PROVE SchedulerInv'
    <2>1. UNCHANGED <<pc, reaping, firing, phase, outcome>>
      BY <1>8 DEF Delete, Commits, pass
    <2> QED
      BY <1>8, <2>1, DeleteTypes, DeleteKeepsRecords, PassKept
  <1>9. CASE FiringDone
    <2>1. /\ firing \in Routine /\ rec[firing] # "absent" /\ outcome \in Outcomes
          /\ SettleFiring(firing, outcome)
          /\ pc' = "claim" /\ phase' = "none" /\ UNCHANGED reaping
      BY <1>9 DEF FiringDone, InExecutor, PassGoesOn, PassInv, TypeOK
    <2> QED
      BY <1>9, <2>1, FiringDoneTypes, SettlementInv
  <1>10. CASE FiringTimesOut
    <2>1. /\ firing \in Routine /\ rec[firing] # "absent" /\ ReapedAs(firing) \in Outcomes
          /\ pc' = "claim" /\ phase' = "none" /\ UNCHANGED reaping
      BY <1>10 DEF FiringTimesOut, PassGoesOn, PassInv, TypeOK, ReapedAs, Settled, Outcomes
    <2>2. CASE SettleFiring(firing, ReapedAs(firing))
      BY <1>10, <2>1, <2>2, FiringTimesOutTypes, SettlementInv
    <2>3. CASE UNCHANGED <<rec, clocks, firings, stray>>
      <3>1. RecordInv'
        BY <2>3, RecordsKeptInv DEF RecordsKept, clocks, firings
      <3>2. PassInv'
        BY <2>1, <2>3, PassKept
      <3> QED
        BY <1>10, <3>1, <3>2, FiringTimesOutTypes
    <2> QED
      BY <1>10, <2>2, <2>3 DEF FiringTimesOut
  <1>11. ASSUME NEW a \in Asks, Ask(a) \/ DropDelivery(a) PROVE SchedulerInv'
    <2>1. UNCHANGED <<rec, pc, reaping, firing, phase, outcome>>
      BY <1>11 DEF Ask, DropDelivery, Commits, pass
    <2>2. PassInv'
      BY <2>1, PassKept
    <2> QED
      BY <1>11, <2>2, AskTypes, DropDeliveryTypes, AskKeepsRecords, DropDeliveryKeepsRecords
  <1> QED
    BY <1>1, <1>2, <1>3, <1>4, <1>5, <1>6, <1>7, <1>8, <1>9, <1>10, <1>11, NextCases

LEMMA SchedulerInvInit == Init => SchedulerInv
  <1> SUFFICES ASSUME Init PROVE SchedulerInv
    OBVIOUS
  <1>1. TypeOK
    <2>1. RecordTypes /\ ClockTypes
      BY Delays DEF Init, RecordTypes, ClockTypes
    <2>2. FiringTypes
      BY DEF Init, FiringTypes
    <2>3. TurnTypes /\ AlarmTypes
      BY DEF Init, TurnTypes, AlarmTypes
    <2>4. PassTypes /\ BoundTypes
      BY Delays DEF Init, PassTypes, BoundTypes
    <2> QED
      BY <2>1, <2>2, <2>3, <2>4, TypeParts
  <1>2. RecordInv
    BY IdsAssumption DEF Init, RecordInv, RunLogIsTrue, NothingOutlivesTheRecord, AsksAreOnce
  <1>3. PassInv
    BY DEF Init, PassInv
  <1> QED
    BY <1>1, <1>2, <1>3 DEF SchedulerInv

\* The scheduler's invariant holds in every state.
THEOREM SchedulerInvariant == Spec => []SchedulerInv
  BY SchedulerInvInit, SchedulerInvStep, PTL DEF Spec

\* Records, clocks, locks, queues and the locals of the alarm pass keep their
\* shapes, whatever the delays, the batch and the bounds are.
THEOREM RoutineTypes == Spec => []TypeOK
  <1>1. SchedulerInv => TypeOK
    BY DEF SchedulerInv
  <1> QED
    BY <1>1, SchedulerInvariant, PTL

\* A row of the run log is running exactly while its firing's lock is held.
THEOREM LogIsTrue == Spec => []RunLogIsTrue
  <1>1. SchedulerInv => RunLogIsTrue
    BY DEF SchedulerInv, RecordInv
  <1> QED
    BY <1>1, SchedulerInvariant, PTL

\* No firing in flight writes anything back under a deleted Routine.
THEOREM DeletionIsFinal == Spec => []NothingOutlivesTheRecord
  <1>1. SchedulerInv => NothingOutlivesTheRecord
    BY DEF SchedulerInv, RecordInv
  <1> QED
    BY <1>1, SchedulerInvariant, PTL

\* An ask is claimed once, however often it is repeated and whatever deletes,
\* evicts or outlasts its firing.
THEOREM AsksFireOnce == Spec => []AskFiresOnce
  <1>1. SchedulerInv => AskFiresOnce
    <2> SUFFICES ASSUME SchedulerInv, NEW r \in Routine, NEW i \in DOMAIN queue[r]
                 PROVE  /\ queue[r][i] \notin minted /\ queue[r][i] # lock[r]
                        /\ \A j \in DOMAIN queue[r] : queue[r][i] = queue[r][j] => i = j
      BY DEF AskFiresOnce
    <2>1. queue[r][i] \in Asks
      BY DEF SchedulerInv, TypeOK
    <2> QED
      BY <2>1 DEF SchedulerInv, RecordInv, AsksAreOnce
  <1> QED
    BY <1>1, SchedulerInvariant, PTL

-----------------------------------------------------------------------------
(* The alarm                                                                *)

\* Refreshing, and deferring, leave an alarm to whatever is owed.
LEMMA RefreshArms ==
  ASSUME TypeOK', ArmAlarm
  PROVE  NeverSilent'
  <1>1. DeadlineInputs'
    BY DEF TypeOK, DeadlineInputs
  <1>2. Debt' => alarm' # None
    BY <1>1, ArmedByRefresh
  <1> QED
    BY <1>2 DEF NeverSilent, Debt

\* Every step re-arms, or is a part of an alarm pass or of a call that will.
LEMMA NeverSilentStep ==
  ASSUME SchedulerInv, SchedulerInv', NeverSilent, [Next]_vars
  PROVE  NeverSilent'
  <1> USE DEF SchedulerInv
  <1>1. CASE ArmAlarm
    BY <1>1, RefreshArms
  <1>2. CASE pc' # "idle" \/ call' # "none"
    BY <1>2 DEF NeverSilent
  <1>3. CASE /\ UNCHANGED <<rec, lock, queue, active, parked, waiting, pc, call>>
             /\ alarm # None => alarm' # None
    BY <1>3 DEF NeverSilent, KernelOwes, Occupied, Live
  <1>4. CASE UNCHANGED vars
    BY <1>3, <1>4 DEF vars, firings, turns, pass
  <1>5. CASE Tick
    <2>1. alarm # None => alarm' # None
      <3>1. alarm # None => alarm' \in Nat
        BY <1>5, LargerType DEF Tick, TypeOK
      <3> QED
        BY <3>1, IdsAssumption
    <2> QED
      BY <1>3, <1>5, <2>1 DEF Tick, turns
  <1>6. CASE Evict
    <2>1. CASE pc = "idle"
      <3>1. CASE call = "none"
        <4>1. UNCHANGED <<rec, lock, queue, active, parked, waiting, pc, call, alarm>>
          BY <1>6, <2>1, <3>1 DEF Evict, firings
        <4> QED
          BY <1>3, <4>1
      <3>2. CASE call # "none"
        BY <1>2, <1>6, <3>2 DEF Evict
      <3> QED
        BY <3>1, <3>2
    <2>2. CASE pc # "idle"
      <3>1. alarm' # None
        BY <1>6, <2>2, IdsAssumption DEF Evict
      <3> QED
        BY <3>1 DEF NeverSilent
    <2> QED
      BY <2>1, <2>2
  <1>7. CASE \E r \in Routine : AbandonedAsks(r)
    <2>1. PICK r \in Routine : AbandonedAsks(r)
      BY <1>7
    <2>2. CASE Refresh
      BY <1>1, <2>2 DEF Refresh
    <2>3. CASE UNCHANGED <<turns, clocks, alarm, call>>
      BY <1>3, <2>1, <2>3 DEF AbandonedAsks, turns, firings
    <2> QED
      BY <2>1, <2>2, <2>3 DEF AbandonedAsks
  <1>8. CASE AlarmDefers \/ AlarmPromotes \/ SettleRest \/ AlarmReturns \/ ExecutorAdmits
             \/ TurnParks \/ TurnDefers \/ DrivePromotes \/ CallRefreshes \/ MoveZone
             \/ ChatArrives \/ \E o \in Outcomes : TurnEnds(o)
    BY <1>1, <1>8 DEF AlarmDefers, AlarmPromotes, SettleRest, AlarmReturns, ExecutorAdmits,
         TurnParks, TurnDefers, DrivePromotes, CallRefreshes, MoveZone, ChatArrives,
         TurnEnds, Refresh
  <1>9. CASE \/ AlarmFires \/ HoldFirings \/ ListLocks \/ ReapEnds \/ NothingToClaim
             \/ AlarmRecovers \/ ExecutorRefused \/ ExecutorReturns \/ ExecutorNotifies
             \/ (\E o \in Outcomes : ExecutorAnswers(o)) \/ FiringDone \/ FiringTimesOut
             \/ \E r \in Routine : Reap(r) \/ ClaimQueued(r) \/ ClaimScheduled(r) \/ TurnOff(r)
    <2>1. pc' # "idle"
      BY <1>9 DEF AlarmFires, HoldFirings, ListLocks, ReapEnds, NothingToClaim, DrainEnds,
           AlarmRecovers, ExecutorRefused, ExecutorReturns, ExecutorNotifies,
           ExecutorAnswers, InExecutor, PassKeeps, FiringDone, FiringTimesOut, PassGoesOn,
           Reap, ClaimQueued, ClaimScheduled, WriteClaim, TurnOff
    <2> QED
      BY <1>2, <2>1
  <1>10. CASE \/ \E r \in Routine : \/ Create(r) \/ Delete(r)
                                    \/ \E to \in {"on", "off"} : Rewrite(r, to)
              \/ \E a \in Asks : Ask(a) \/ DropDelivery(a)
    <2>1. call' # "none"
      BY <1>10 DEF Create, Delete, Rewrite, Ask, DropDelivery, Commits
    <2> QED
      BY <1>2, <2>1
  <1> QED
    BY <1>4, <1>5, <1>6, <1>7, <1>8, <1>9, <1>10, NextCases DEF KeepingStep

\* The Bot never goes silent.
THEOREM BotIsNeverSilent == Spec => []NeverSilent
  <1>1. Init => NeverSilent
    BY DEF Init, NeverSilent, KernelOwes, Occupied, Live
  <1> QED
    BY <1>1, NeverSilentStep, SchedulerInvariant, PTL DEF Spec

-----------------------------------------------------------------------------
(* The debt                                                                 *)

\* Only time, a claim, a person and a move of the account touch what is due.
LEMMA DueMoves ==
  ASSUME TypeOK, Next, NEW r \in Routine
  PROVE  \/ due'[r] <= due[r] \/ edits' # edits \/ rec'[r] # rec[r]
         \/ lock[r] = None /\ lock'[r] = "cron"
  <1> USE DEF clocks
  <1>0. due[r] \in Int
    BY DEF TypeOK
  <1>1. CASE UNCHANGED due
    BY <1>0, <1>1
  <1>2. CASE Tick
    BY <1>0, <1>2 DEF Tick
  <1>3. CASE \E x \in Routine : ClaimScheduled(x)
    <2>1. PICK x \in Routine : ClaimScheduled(x)
      BY <1>3
    <2>2. CASE x = r
      BY <2>1, <2>2 DEF ClaimScheduled, ClaimsDue, IsFirst, DueNow, WriteClaim, TypeOK
    <2>3. CASE x # r
      BY <1>0, <2>1, <2>3 DEF ClaimScheduled, TypeOK
    <2> QED
      BY <2>2, <2>3
  <1>4. CASE MoveZone \/ \E x \in Routine : Delete(x) \/ \E to \in {"on", "off"} : Rewrite(x, to)
    BY <1>4 DEF MoveZone, Delete, Rewrite, TypeOK
  <1>5. CASE \E x \in Routine : Create(x)
    <2>1. PICK x \in Routine : Create(x)
      BY <1>5
    <2>2. CASE x = r
      BY <2>1, <2>2 DEF Create, TypeOK
    <2>3. CASE x # r
      BY <1>0, <2>1, <2>3 DEF Create, TypeOK
    <2> QED
      BY <2>2, <2>3
  <1>6. CASE AlarmDefers \/ HoldFirings
    BY <1>1, <1>6 DEF AlarmDefers, HoldFirings, Defer
  <1>7. CASE AlarmPromotes \/ SettleRest \/ AlarmReturns \/ ExecutorAdmits \/ TurnParks
             \/ TurnDefers \/ DrivePromotes \/ CallRefreshes \/ ChatArrives
             \/ \E o \in Outcomes : TurnEnds(o)
    BY <1>1, <1>7 DEF AlarmPromotes, SettleRest, AlarmReturns, ExecutorAdmits, TurnParks,
         TurnDefers, DrivePromotes, CallRefreshes, ChatArrives, TurnEnds, Refresh,
         RebuildClocks
  <1>8. CASE \E x \in Routine : AbandonedAsks(x)
    BY <1>1, <1>8 DEF AbandonedAsks, Refresh, RebuildClocks
  <1>9. CASE \/ FiringDone \/ FiringTimesOut
             \/ \E x \in Routine : Reap(x) \/ ClaimQueued(x) \/ TurnOff(x)
    BY <1>1, <1>9 DEF FiringDone, FiringTimesOut, Reap, SettleFiring, ClaimQueued, TurnOff
  <1>10. CASE \/ AlarmFires \/ ListLocks \/ ReapEnds \/ NothingToClaim
              \/ AlarmRecovers \/ ExecutorRefused \/ ExecutorReturns \/ ExecutorNotifies
              \/ (\E o \in Outcomes : ExecutorAnswers(o)) \/ Evict
              \/ \E a \in Asks : Ask(a) \/ DropDelivery(a)
    BY <1>1, <1>10 DEF AlarmFires, ListLocks, ReapEnds, NothingToClaim, AlarmRecovers,
         ExecutorRefused, ExecutorReturns, ExecutorNotifies, ExecutorAnswers, Evict, Ask,
         DropDelivery
  <1> QED
    BY <1>2, <1>3, <1>4, <1>5, <1>6, <1>7, <1>8, <1>9, <1>10, NextCases DEF KeepingStep

\* An occurrence that has come due is never skipped by a busy object.
THEOREM DebtsAreKept == Spec => DebtIsKept
  <1>1. ASSUME TypeOK, TypeOK', [Next]_vars
        PROVE  [\A r \in Routine : Live(r) /\ due[r] <= 0 /\ due'[r] > 0 =>
                  lock'[r] # lock[r] \/ rec'[r] # rec[r] \/ edits' # edits]_vars
    <2> SUFFICES ASSUME Next, NEW r \in Routine, due[r] <= 0, due'[r] > 0
                 PROVE  lock'[r] # lock[r] \/ rec'[r] # rec[r] \/ edits' # edits
      BY <1>1
    <2>1. due[r] \in Int /\ due'[r] \in Int
      BY <1>1 DEF TypeOK
    <2> QED
      BY <1>1, <2>1, DueMoves, IdsAssumption
  <1> QED
    BY <1>1, RoutineTypes, PTL DEF Spec, DebtIsKept

=============================================================================
