------------------------------ MODULE Routines ------------------------------
(***************************************************************************)
(* The Routine scheduler of one Bot (app/routines/scheduler.ts, store.ts    *)
(* and bot.ts) on the one alarm of its Durable Object: the records, clocks, *)
(* locks and queues of the Routines, the alarm pass that reaps, claims,     *)
(* executes and settles firings, and the calls that create, change and fire *)
(* Routines beside it.                                                      *)
(*                                                                          *)
(* Time is relative: every moment the code stores (dueAt, deferredUntil,    *)
(* mintedAt + lease, the firing's timer, the alarm) is how long it still is *)
(* ahead, and Tick takes one off all of them.  No step is tied to a tick,   *)
(* so every step may be arbitrarily slow.                                   *)
(*                                                                          *)
(* The Turn authority is reduced to what the scheduler can see of it: which *)
(* Turn is active, whether this isolate executes it, which one is parked    *)
(* and whether a person's message waits.  BotAuthority has the whole of it. *)
(***************************************************************************)
EXTENDS Integers, Sequences, FiniteSets

CONSTANTS
  Routine,       \* Routine ids; their order is the order of the storage keys
  Scheduled,     \* the ones with a schedule; the others have a trigger
  Unreachable,   \* the scheduled ones whose schedule has no occurrence left
  Asks,          \* command and delivery ids that ask for a firing
  Hooks,         \* the asks that are deliveries
  AskOf,         \* the Routine each ask names
  None,          \* an absent value
  Chat,          \* a Turn of the conversation
  Period,        \* time between two occurrences of a schedule
  Deferral,      \* ROUTINE_DEFERRAL_MS
  Backoff,       \* ROUTINE_FAILURE_BACKOFF_MS
  PauseAfter,    \* ROUTINE_FAILURE_PAUSE_AFTER
  Lease,         \* ROUTINE_FIRE_LEASE_MS
  Timeout,       \* ROUTINE_FIRE_TIMEOUT_MS
  Recovery,      \* RECOVERY_ALARM_DELAY_MS
  Batch,         \* ROUTINE_SETTLE_BATCH
  QueueLimit,    \* ROUTINE_QUEUE_LIMIT
  MaxChats,      \* bound: messages the person sends
  MaxEdits,      \* bound: commands and zone moves after the creations
  MaxEvictions   \* bound: evictions of the object

ASSUME IdsAssumption ==
  /\ Routine \subseteq Nat /\ Scheduled \subseteq Routine
  /\ Unreachable \subseteq Scheduled
  /\ Hooks \subseteq Asks /\ AskOf \in [Asks -> Routine]
  /\ None \notin Int /\ Chat \notin Int /\ None # Chat
  /\ None \notin Asks /\ "cron" \notin Asks /\ None # "cron"
ASSUME DelaysAssumption ==
  /\ {Period, Deferral, Lease, Timeout, Recovery, PauseAfter, Batch} \subseteq Nat \ {0}
  /\ Backoff \in [1..PauseAfter -> Nat \ {0}]
  /\ Timeout < Lease
ASSUME LimitsAssumption == {QueueLimit, MaxChats, MaxEdits, MaxEvictions} \subseteq Nat

VARIABLES
  \* durable: one entry per Routine
  rec,         \* the record: absent, on, off, deleted
  due,         \* time to the occurrence its clock owes; past when negative
  held,        \* time to deferredUntil
  fails,       \* consecutiveFailures
  kept,        \* the stored clock: none, stale (the record is newer), fresh
  lock,        \* routine-fire: the unsettled firing, "cron" or an ask
  lease,       \* time to the lock's lease expiry
  queue,       \* routine-queue: asks waiting for the lock
  log,         \* the run log's entry for the newest firing
  run,         \* the run record of the firing that holds the lock
  \* durable: the object
  receipts,    \* asks with a command or delivery receipt
  alarm,       \* time to the alarm, or None
  active,      \* the active Turn: None, Chat or the Routine it fires
  parked,      \* the parked Turn: None or a Routine
  stray,       \* the Routine's Turn in the object is not its lock's
  waiting,     \* a person's message is pending
  \* in memory
  executing,   \* this isolate executes the active Turn
  pc,          \* where the alarm pass stands
  reaping,     \* locks the reaper has listed and not looked at
  drained,     \* firings this pass has claimed
  firing,      \* the Routine whose firing the pass waits on
  phase,       \* where that firing's executor stands
  outcome,     \* what the executor returned
  timer,       \* time to the end of the wait
  abandoned,   \* executors nobody waits on, still asking for admission
  call,        \* a call between its commit and its refresh of the alarm
  \* history and bounds
  minted,      \* asks whose firing was claimed
  chats, edits, evictions

clocks == <<due, held, fails, kept>>
firings == <<lock, lease, queue, log, run, receipts, minted>>
turns == <<active, parked, stray, waiting, executing>>
pass == <<pc, reaping, drained, firing, phase, outcome, timer, abandoned>>
bounds == <<chats, edits, evictions>>
vars == <<rec, clocks, firings, turns, alarm, pass, call, bounds>>

Larger(a, b) == IF a > b THEN a ELSE b
IsFirst(r, S) == r \in S /\ \A o \in S : r <= o

-----------------------------------------------------------------------------
(* Clocks and the alarm                                                     *)

Live(r) == rec[r] = "on" /\ r \in Scheduled
Settled(r) == run[r] \in {"ok", "failed"}

\* routineScheduleStateV1 on a record written now.
AnchorDue(r) == IF r \in Unreachable THEN 0 ELSE Period

\* routineDeadlineV1: the later of the debt and the hold.
Deadline(r) == Larger(Larger(due[r], 0), held[r])

\* What deadlines() says of a locked Routine: a settled Turn is owed its
\* settlement now, any other lock its lease or the hold, the later of them.
LockDeadline(r) == IF Settled(r) THEN 0 ELSE Larger(lease[r], held[r])

Occupied == active # None \/ parked # None
KernelOwes == Occupied \/ waiting

\* scheduledDeadlines, and what refreshRecoveryAlarm adds for the Turns.
UnlockedDeadlinesOf(r) == IF Live(r) /\ lock[r] = None THEN {Deadline(r)} ELSE {}
WrittenDeadlinesOf(r) ==
  IF Live(r) /\ kept[r] # "none"
  THEN {IF lock[r] # None THEN LockDeadline(r) ELSE Deadline(r)} ELSE {}
DeadlinesOf(r) ==
  IF Live(r) THEN {IF lock[r] # None THEN LockDeadline(r) ELSE Deadline(r)} ELSE {}
\* Routines with an ask nothing is in the way of.
Waiting == {r \in Routine : queue[r] # <<>> /\ lock[r] = None}
Deadlines ==
  (UNION {DeadlinesOf(r) : r \in Routine})
    \cup (IF Waiting = {} THEN {} ELSE {0})
    \cup (IF KernelOwes THEN {Recovery} ELSE {})

ArmAlarm ==
  /\ Deadlines' = {} => alarm' = None
  /\ Deadlines' # {} => /\ alarm' \in Deadlines'
                        /\ \A d \in Deadlines' : alarm' <= d
  /\ call' = "none"

\* #clocks writes back the clocks it rebuilt: the failures and the hold of an
\* edited Routine are forgotten.
Stale(r) == Live(r) /\ kept[r] = "stale"
RebuildClocks ==
  /\ kept' = [r \in Routine |-> IF Stale(r) THEN "fresh" ELSE kept[r]]
  /\ fails' = [r \in Routine |-> IF Stale(r) THEN 0 ELSE fails[r]]
  /\ UNCHANGED <<due, held>>

\* refreshRecoveryAlarm.
Refresh == RebuildClocks /\ ArmAlarm

\* defer(): every live clock is written, the debt where it was.
DeferMovesDebt ==
  /\ held' = [r \in Routine |-> IF Live(r) THEN Deferral ELSE held[r]]
  /\ due' = [r \in Routine |-> IF Live(r) THEN Larger(due[r], Deferral) ELSE due[r]]
  /\ kept' = [r \in Routine |-> IF Live(r) THEN "fresh" ELSE kept[r]]
  /\ fails' = [r \in Routine |-> IF Stale(r) THEN 0 ELSE fails[r]]
Defer ==
  /\ held' = [r \in Routine |-> IF Live(r) THEN Deferral ELSE held[r]]
  /\ due' = due
  /\ kept' = [r \in Routine |-> IF Live(r) THEN "fresh" ELSE kept[r]]
  /\ fails' = [r \in Routine |-> IF Stale(r) THEN 0 ELSE fails[r]]

\* Occurrences that elapsed further back than one period are one missed count.
Tick ==
  /\ due' = [r \in Routine |->
               IF Live(r) /\ due[r] > -Period THEN due[r] - 1 ELSE due[r]]
  /\ held' = [r \in Routine |-> Larger(held[r] - 1, 0)]
  /\ lease' = [r \in Routine |-> Larger(lease[r] - 1, 0)]
  /\ timer' = Larger(timer - 1, 0)
  /\ alarm' = IF alarm = None THEN None ELSE Larger(alarm - 1, 0)
  /\ UNCHANGED <<rec, fails, kept, lock, queue, log, run, receipts, minted, turns,
                 pc, reaping, drained, firing, phase, outcome, abandoned, call,
                 bounds>>

-----------------------------------------------------------------------------
(* Turns of the object, as the scheduler sees them                          *)

InObject(r) == active = r \/ parked = r

\* acceptRun of a person's message.
ChatArrives ==
  /\ chats < MaxChats
  /\ chats' = chats + 1
  /\ IF active = None /\ ~waiting
     THEN active' = Chat /\ executing' = TRUE /\ UNCHANGED waiting
     ELSE waiting' = TRUE /\ UNCHANGED <<active, executing>>
  /\ UNCHANGED <<rec, firings, parked, stray, pass, edits, evictions>>
  /\ Refresh

\* completeRun and failRun; the run of a firing is the outcome it records.
TurnEnds(o) ==
  /\ executing
  /\ active' = None
  /\ executing' = FALSE
  /\ run' = IF active \in Routine /\ ~stray THEN [run EXCEPT ![active] = o] ELSE run
  /\ stray' = (stray /\ parked # None)
  /\ UNCHANGED <<rec, lock, lease, queue, log, receipts, minted, parked, waiting,
                 pass, bounds>>
  /\ Refresh

\* parkRun: a Routine's Turn gives way to the person's message.
TurnParks ==
  /\ executing /\ active \in Routine /\ waiting /\ parked = None
  /\ parked' = active
  /\ active' = None
  /\ executing' = FALSE
  /\ UNCHANGED <<rec, firings, stray, waiting, pass, bounds>>
  /\ Refresh

\* deferRunRecovery: the Turn stays active, for the alarm to take up again.
TurnDefers ==
  /\ executing
  /\ executing' = FALSE
  /\ UNCHANGED <<rec, firings, active, parked, stray, waiting, pass, bounds>>
  /\ Refresh

\* The drive, or a caller, promotes what waits: the person first, then the
\* parked Turn.
PromoteQueued ==
  /\ active = None
  /\ \/ /\ waiting
        /\ active' = Chat
        /\ waiting' = FALSE
        /\ UNCHANGED parked
     \/ /\ ~waiting /\ parked # None
        /\ active' = parked
        /\ parked' = None
        /\ UNCHANGED waiting
  /\ executing' = TRUE
  /\ UNCHANGED stray
DrivePromotes ==
  /\ PromoteQueued
  /\ UNCHANGED <<rec, firings, pass, bounds>>
  /\ Refresh

-----------------------------------------------------------------------------
(* The alarm pass                                                           *)

\* alarm(): a busy isolate defers, queued Turns go first, and only an object
\* with neither settles scheduled work.
AlarmDefers ==
  /\ pc = "idle" /\ alarm = 0 /\ executing
  /\ UNCHANGED <<rec, firings, turns, pass, bounds>>
  /\ Defer
  /\ ArmAlarm
AlarmFires ==
  /\ pc = "idle" /\ alarm = 0 /\ ~executing
  /\ pc' = IF active = None /\ KernelOwes THEN "queued" ELSE "settle"
  /\ alarm' = None
  /\ UNCHANGED <<rec, clocks, firings, turns, reaping, drained, firing, phase,
                 outcome, timer, abandoned, call, bounds>>

\* recoverQueuedRun; what it was woken for may be gone by now.
AlarmPromotes ==
  /\ pc = "queued"
  /\ \/ PromoteQueued /\ pc' = "drive"
     \/ ~(active = None /\ KernelOwes) /\ pc' = "drive" /\ UNCHANGED turns
  /\ UNCHANGED <<rec, firings, reaping, drained, firing, phase, outcome, timer,
                 abandoned, bounds>>
  /\ Refresh

\* settleRoutineFirings: an occupied object is a deferral, any other reaps
\* first and then claims.
HoldFirings ==
  /\ pc = "settle" /\ Occupied
  /\ pc' = "rest"
  /\ Defer
  /\ UNCHANGED <<rec, firings, turns, alarm, reaping, drained, firing, phase,
                 outcome, timer, abandoned, call, bounds>>
ListLocks ==
  /\ pc = "settle" /\ ~Occupied
  /\ pc' = "reap"
  /\ reaping' = {r \in Routine : lock[r] # None}
  /\ UNCHANGED <<rec, clocks, firings, turns, alarm, drained, firing, phase,
                 outcome, timer, abandoned, call, bounds>>

\* #recordOutcomeOnClock, for a record that still exists: a Routine without a
\* stored clock counts nothing.
Pauses(r, o) == o = "failed" /\ rec[r] = "on" /\ fails[r] + 1 >= PauseAfter
RecordOutcomeOnClock(r, o) ==
  IF kept[r] = "none" THEN UNCHANGED <<rec, held, fails, kept>>
  ELSE /\ fails' = [fails EXCEPT ![r] =
                      IF o = "ok" THEN 0
                      ELSE IF fails[r] < PauseAfter THEN fails[r] + 1 ELSE fails[r]]
       /\ rec' = [rec EXCEPT ![r] = IF Pauses(r, o) THEN "off" ELSE rec[r]]
       /\ kept' = [kept EXCEPT ![r] = IF Pauses(r, o) THEN "stale" ELSE kept[r]]
       /\ held' = [held EXCEPT ![r] =
                     IF o = "ok" THEN held[r]
                     ELSE IF kept'[r] = "stale" THEN 0
                     ELSE Larger(held[r], Backoff[fails'[r]])]

\* The row a settlement leaves: none under a record that is gone.
RowOfTheGone(r, o) == o
SettledRow(r, o) == IF rec[r] = "deleted" THEN "none" ELSE o

\* #settleFiring: one transaction, whose firing is the one last minted for r.
\* A Turn of that firing still in the object goes on without its lock.
SettleFiring(r, o) ==
  /\ lock' = [lock EXCEPT ![r] = None]
  /\ lease' = [lease EXCEPT ![r] = 0]
  /\ log' = [log EXCEPT ![r] = SettledRow(r, o)]
  /\ IF rec[r] = "deleted" THEN UNCHANGED <<rec, held, fails, kept>>
     ELSE RecordOutcomeOnClock(r, o)
  /\ run' = [run EXCEPT ![r] = "none"]
  /\ stray' = (stray \/ InObject(r))
  /\ UNCHANGED <<due, queue, receipts, minted>>

\* reapExpiredFirings, one listed lock: settled from its Turn, settled for dead
\* once its lease is over, or left alone.
NeverOver(r) == FALSE
LeaseOver(r) == run[r] = "none" /\ lease[r] = 0
ReapedAs(r) == IF Settled(r) THEN run[r] ELSE "failed"
Reap(r) ==
  /\ pc = "reap" /\ r \in reaping
  /\ reaping' = reaping \ {r}
  /\ \/ /\ Settled(r) \/ LeaseOver(r)
        /\ SettleFiring(r, ReapedAs(r))
     \/ /\ ~Settled(r) /\ ~LeaseOver(r)
        /\ UNCHANGED <<rec, clocks, firings, stray>>
  /\ UNCHANGED <<active, parked, waiting, executing, alarm, pc, drained, firing,
                 phase, outcome, timer, abandoned, call, bounds>>
ReapEnds ==
  /\ pc = "reap" /\ reaping = {}
  /\ pc' = "claim"
  /\ UNCHANGED <<rec, clocks, firings, turns, alarm, reaping, drained, firing,
                 phase, outcome, timer, abandoned, call, bounds>>

\* #writeClaim: the lock, the running entry of the log.  The run id is new, so
\* the firing has no run yet, and a Turn of an earlier firing is not its own.
BatchOverrun == drained <= Batch
BatchLeft == drained < Batch
WriteClaim(r, fire) ==
  /\ lock' = [lock EXCEPT ![r] = fire]
  /\ lease' = [lease EXCEPT ![r] = Lease]
  /\ log' = [log EXCEPT ![r] = "running"]
  /\ run' = [run EXCEPT ![r] = "none"]
  /\ firing' = r /\ phase' = "ask" /\ timer' = Timeout
  /\ drained' = drained + 1
  /\ pc' = "exec"
  /\ UNCHANGED <<receipts, turns, alarm, reaping, outcome, abandoned, call, bounds>>

DueNow == {r \in Routine : Live(r) /\ lock[r] = None /\ Deadline(r) = 0}

\* #queuedRoutineIds, without the locked ones.
QueuedForTheLive == {r \in Waiting : Live(r)}
QueuedFor == Waiting

\* #claimQueued: a queued firing outranks the clock.
ClaimQueued(r) ==
  /\ pc = "claim" /\ BatchLeft /\ IsFirst(r, QueuedFor)
  /\ queue' = [queue EXCEPT ![r] = Tail(queue[r])]
  /\ minted' = minted \cup {Head(queue[r])}
  /\ WriteClaim(r, Head(queue[r]))
  /\ UNCHANGED <<rec, clocks>>

\* #claimScheduled: the clock goes forward before the Turn runs, past every
\* occurrence that elapsed; a schedule with none left turns its Routine off
\* and ends the drain.
NextDue(r) == IF due[r] > -Period THEN {due[r] + Period} ELSE 1..Period
ClaimsDue(r) == pc = "claim" /\ BatchLeft /\ QueuedFor = {} /\ IsFirst(r, DueNow)
ClaimScheduled(r) ==
  /\ ClaimsDue(r) /\ r \notin Unreachable
  /\ kept' = [o \in Routine |-> IF o = r \/ Stale(o) THEN "fresh" ELSE kept[o]]
  /\ fails' = [o \in Routine |-> IF Stale(o) THEN 0 ELSE fails[o]]
  /\ held' = [held EXCEPT ![r] = 0]
  /\ \E d \in NextDue(r) : due' = [due EXCEPT ![r] = d]
  /\ WriteClaim(r, "cron")
  /\ UNCHANGED <<rec, queue, minted>>
DrainEnds ==
  /\ pc' = "rest" /\ drained' = 0
  /\ UNCHANGED <<firings, turns, alarm, reaping, firing, phase, outcome, timer,
                 abandoned, call, bounds>>
TurnOff(r) ==
  /\ ClaimsDue(r) /\ r \in Unreachable
  /\ rec' = [rec EXCEPT ![r] = "off"]
  /\ kept' = [o \in Routine |-> IF o = r THEN "none"
                                ELSE IF Stale(o) THEN "fresh" ELSE kept[o]]
  /\ fails' = [o \in Routine |-> IF o = r \/ Stale(o) THEN 0 ELSE fails[o]]
  /\ held' = [held EXCEPT ![r] = 0]
  /\ due' = due
  /\ DrainEnds
NothingToClaim ==
  /\ pc = "claim" /\ (~BatchLeft \/ (QueuedFor = {} /\ DueNow = {}))
  /\ UNCHANGED <<rec, clocks>>
  /\ DrainEnds

\* The rest of settleScheduledWork (hand-offs, subagents, approvals), and its
\* re-arm.
SettleRest ==
  /\ pc = "rest"
  /\ pc' = "recover"
  /\ UNCHANGED <<rec, firings, turns, reaping, drained, firing, phase, outcome,
                 timer, abandoned, bounds>>
  /\ Refresh

\* recoverActiveRun, which waits for the Turn it resumes, and the last re-arm.
AlarmRecovers ==
  /\ pc = "recover" /\ active # None /\ ~executing
  /\ pc' = "drive"
  /\ executing' = TRUE
  /\ UNCHANGED <<rec, clocks, firings, active, parked, stray, waiting, alarm,
                 reaping, drained, firing, phase, outcome, timer, abandoned, call,
                 bounds>>
AlarmReturns ==
  /\ \/ pc = "drive" /\ ~executing
     \/ pc = "recover" /\ (active = None \/ executing)
  /\ pc' = "idle"
  /\ UNCHANGED <<rec, firings, turns, reaping, drained, firing, phase, outcome,
                 timer, abandoned, bounds>>
  /\ Refresh

-----------------------------------------------------------------------------
(* One firing                                                               *)

InExecutor(p) == pc = "exec" /\ phase = p
Reports(o) == outcome' = o /\ phase' = IF o = "ok" THEN "done" ELSE "notify"
PassKeeps == UNCHANGED <<pc, reaping, drained, firing, timer, abandoned>>

\* The feature switch, the daily limit and the judge answer without a Turn.
ExecutorAnswers(o) ==
  /\ InExecutor("ask")
  /\ Reports(o)
  /\ PassKeeps
  /\ UNCHANGED <<rec, clocks, firings, turns, alarm, call, bounds>>

\* runOneFiring asks for admission on the background lane, which is refused
\* while anything is active, parked or pending.
Admits(r) ==
  /\ ~KernelOwes
  /\ active' = r /\ executing' = TRUE
  /\ UNCHANGED <<parked, waiting>>
ExecutorAdmits ==
  /\ InExecutor("ask")
  /\ Admits(firing)
  /\ stray' = FALSE
  /\ run' = [run EXCEPT ![firing] = "running"]
  /\ phase' = "turn" /\ UNCHANGED outcome
  /\ PassKeeps
  /\ UNCHANGED <<rec, lock, lease, queue, log, receipts, minted, bounds>>
  /\ Refresh
ExecutorRefused ==
  /\ InExecutor("ask")
  /\ KernelOwes
  /\ Reports("failed")
  /\ PassKeeps
  /\ UNCHANGED <<rec, clocks, firings, turns, alarm, call, bounds>>

\* The call returns with the run's outcome, or throws when the Turn was left
\* for recovery; a throw is a failure whatever the run says.
ExecutorReturns ==
  /\ InExecutor("turn")
  /\ \/ Settled(firing) /\ Reports(run[firing])
     \/ active = firing /\ ~executing /\ Reports("failed")
  /\ PassKeeps
  /\ UNCHANGED <<rec, clocks, firings, turns, alarm, call, bounds>>

\* notifyFailedFiring writes the run that admission did not.
ExecutorNotifies ==
  /\ InExecutor("notify")
  /\ run' = [run EXCEPT ![firing] = IF run[firing] = "none" THEN "failed" ELSE run[firing]]
  /\ phase' = "done" /\ UNCHANGED outcome
  /\ PassKeeps
  /\ UNCHANGED <<rec, clocks, lock, lease, queue, log, receipts, minted, turns,
                 alarm, call, bounds>>

\* #execute is over.
PassGoesOn ==
  /\ pc' = "claim" /\ phase' = "none" /\ timer' = 0
  /\ firing' = None /\ outcome' = "none"
  /\ UNCHANGED <<reaping, drained>>
FiringDone ==
  /\ InExecutor("done")
  /\ SettleFiring(firing, outcome)
  /\ PassGoesOn
  /\ UNCHANGED <<active, parked, waiting, executing, alarm, abandoned, call, bounds>>

\* The timer: a Turn that is still owed an outcome keeps the lock, one that has
\* settled is the outcome, and a firing without one failed.  The executor is
\* not stopped by the abort.
FiringTimesOut ==
  /\ pc = "exec" /\ timer = 0 /\ phase # "done"
  /\ \/ /\ run[firing] = "running"
        /\ UNCHANGED <<rec, clocks, firings, stray>>
     \/ /\ run[firing] # "running"
        /\ SettleFiring(firing, ReapedAs(firing))
  /\ abandoned' = IF phase = "ask" THEN abandoned \cup {firing} ELSE abandoned
  /\ PassGoesOn
  /\ UNCHANGED <<active, parked, waiting, executing, alarm, call, bounds>>

\* An abandoned executor reaches admission after its firing was settled.
AbandonedAsks(r) ==
  /\ r \in abandoned
  /\ abandoned' = abandoned \ {r}
  /\ UNCHANGED <<pc, reaping, drained, firing, phase, outcome, timer>>
  /\ UNCHANGED <<rec, firings, bounds>>
  /\ \/ Admits(r) /\ stray' = TRUE /\ Refresh
     \/ KernelOwes /\ UNCHANGED <<turns, clocks, alarm, call>>

-----------------------------------------------------------------------------
(* Calls beside the alarm: a commit, and the refresh in a later transaction *)

Commits ==
  /\ call' = "refreshing"
  /\ UNCHANGED <<turns, alarm, pass, chats, evictions>>

\* The stored clock of a record that has just been written.
Outdated(r) == [kept EXCEPT ![r] = IF kept[r] = "none" THEN "none" ELSE "stale"]

Create(r) ==
  /\ rec[r] = "absent"
  /\ rec' = [rec EXCEPT ![r] = "on"]
  /\ due' = [due EXCEPT ![r] = IF r \in Scheduled THEN AnchorDue(r) ELSE 0]
  /\ UNCHANGED <<held, fails, kept, firings, edits>>
  /\ Commits

\* routine/pause, resume and update all move the record's anchor to now.
Rewrite(r, to) ==
  /\ edits < MaxEdits /\ edits' = edits + 1
  /\ rec[r] \in {"on", "off"}
  /\ rec' = [rec EXCEPT ![r] = to]
  /\ kept' = Outdated(r)
  /\ held' = [held EXCEPT ![r] = 0]
  /\ due' = [due EXCEPT ![r] = IF r \in Scheduled THEN AnchorDue(r) ELSE 0]
  /\ UNCHANGED <<fails, firings>>
  /\ Commits
Pause(r) == Rewrite(r, "off")
Resume(r) == Rewrite(r, "on")
Update(r) == Rewrite(r, rec[r])

\* routine/delete sweeps everything kept under the Routine's id.
LogKept(r) == log
LogSwept(r) == [log EXCEPT ![r] = "none"]
Delete(r) ==
  /\ edits < MaxEdits /\ edits' = edits + 1
  /\ rec[r] \in {"on", "off"}
  /\ rec' = [rec EXCEPT ![r] = "deleted"]
  /\ due' = [due EXCEPT ![r] = 0] /\ held' = [held EXCEPT ![r] = 0]
  /\ fails' = [fails EXCEPT ![r] = 0] /\ kept' = [kept EXCEPT ![r] = "none"]
  /\ lock' = [lock EXCEPT ![r] = None] /\ lease' = [lease EXCEPT ![r] = 0]
  /\ queue' = [queue EXCEPT ![r] = <<>>] /\ log' = LogSwept(r)
  /\ receipts' = receipts \ {a \in Hooks : AskOf[a] = r}
  /\ UNCHANGED <<run, minted>>
  /\ Commits

\* routine/run and a delivery: the receipt and enqueueWithin in one transaction.
Waits(a) == \E i \in DOMAIN queue[AskOf[a]] : queue[AskOf[a]][i] = a
Accepts(a) == rec[AskOf[a]] \in (IF a \in Hooks THEN {"on"} ELSE {"on", "off"})
AnsweredNever(a) == FALSE
Answered(a) == a \in receipts
Enqueued(a) ==
  IF lock[AskOf[a]] = a \/ Waits(a) THEN queue
  ELSE [queue EXCEPT ![AskOf[a]] = Append(@, a)]
Ask(a) ==
  /\ Accepts(a)
  /\ IF Answered(a) THEN UNCHANGED <<queue, receipts>>
     ELSE /\ Len(queue[AskOf[a]]) < QueueLimit \/ lock[AskOf[a]] = a \/ Waits(a)
          /\ queue' = Enqueued(a)
          /\ receipts' = receipts \cup {a}
  /\ UNCHANGED <<rec, clocks, lock, lease, log, run, minted, edits>>
  /\ Commits

\* A Plugin that was asked about a delivery drops it.
DropDelivery(a) ==
  /\ a \in Hooks /\ Accepts(a) /\ ~Answered(a)
  /\ receipts' = receipts \cup {a}
  /\ UNCHANGED <<rec, clocks, lock, lease, queue, log, run, minted, edits>>
  /\ Commits

\* The call's own transaction for the alarm.
CallRefreshes ==
  /\ call = "refreshing"
  /\ UNCHANGED <<rec, firings, turns, pass, bounds>>
  /\ Refresh

\* setRoutineAccountTimezone: clocks read under the old zone count from now.
MoveZone ==
  /\ edits < MaxEdits /\ edits' = edits + 1
  /\ \E d \in [Routine -> 1..Period] :
       due' = [r \in Routine |-> IF Live(r) /\ kept[r] = "fresh" /\ r \notin Unreachable
                                 THEN d[r] ELSE due[r]]
  /\ kept' = [r \in Routine |-> IF Stale(r) THEN "fresh" ELSE kept[r]]
  /\ fails' = [r \in Routine |-> IF Stale(r) THEN 0 ELSE fails[r]]
  /\ UNCHANGED <<rec, held, firings, turns, pass, chats, evictions>>
  /\ ArmAlarm

\* The object is evicted.  The platform runs an alarm whose handler did not
\* return once more, unless another one was set meanwhile.
Evict ==
  /\ evictions < MaxEvictions
  /\ evictions' = evictions + 1
  /\ executing' = FALSE
  /\ pc' = "idle" /\ phase' = "none" /\ timer' = 0
  /\ firing' = None /\ outcome' = "none"
  /\ reaping' = {} /\ drained' = 0 /\ abandoned' = {}
  /\ alarm' = IF pc # "idle" /\ alarm = None THEN 0 ELSE alarm
  /\ call' = IF call = "refreshing" THEN "lost" ELSE call
  /\ UNCHANGED <<rec, clocks, firings, active, parked, stray, waiting, chats,
                 edits>>

-----------------------------------------------------------------------------
Init ==
  /\ rec = [r \in Routine |-> "absent"]
  /\ due = [r \in Routine |-> 0] /\ held = [r \in Routine |-> 0]
  /\ fails = [r \in Routine |-> 0] /\ kept = [r \in Routine |-> "none"]
  /\ lock = [r \in Routine |-> None] /\ lease = [r \in Routine |-> 0]
  /\ queue = [r \in Routine |-> <<>>] /\ log = [r \in Routine |-> "none"]
  /\ run = [r \in Routine |-> "none"]
  /\ receipts = {} /\ minted = {} /\ alarm = None
  /\ active = None /\ parked = None /\ stray = FALSE /\ waiting = FALSE
  /\ executing = FALSE /\ pc = "idle" /\ reaping = {} /\ drained = 0
  /\ firing = None /\ phase = "none" /\ outcome = "none" /\ timer = 0
  /\ abandoned = {} /\ call = "none"
  /\ chats = 0 /\ edits = 0 /\ evictions = 0

Outcomes == {"ok", "failed"}

AlarmPass ==
  \/ AlarmDefers \/ AlarmFires \/ AlarmPromotes \/ HoldFirings \/ ListLocks
  \/ \E r \in Routine : Reap(r) \/ ClaimQueued(r) \/ ClaimScheduled(r) \/ TurnOff(r)
  \/ ReapEnds \/ NothingToClaim \/ SettleRest \/ AlarmRecovers \/ AlarmReturns
Executor ==
  \/ \E o \in Outcomes : ExecutorAnswers(o)
  \/ ExecutorAdmits \/ ExecutorRefused \/ ExecutorReturns \/ ExecutorNotifies
  \/ FiringDone \/ FiringTimesOut
  \/ \E r \in Routine : AbandonedAsks(r)
Turns == (\E o \in Outcomes : TurnEnds(o)) \/ TurnParks \/ TurnDefers \/ DrivePromotes
Calls ==
  \/ \E r \in Routine : Create(r) \/ Pause(r) \/ Resume(r) \/ Update(r) \/ Delete(r)
  \/ \E a \in Asks : Ask(a) \/ DropDelivery(a)
  \/ CallRefreshes \/ MoveZone
Next == Tick \/ AlarmPass \/ Executor \/ Turns \/ Calls \/ ChatArrives \/ Evict

Spec == Init /\ [][Next]_vars

\* Time passes, the platform runs a due alarm and its handler, an executor and
\* a call that are under way go on, and a Turn that is taken up again and again
\* ends.  Nothing is assumed of people, of hooks or of evictions.
Fairness ==
  /\ WF_vars(Tick) /\ WF_vars(AlarmPass) /\ WF_vars(Executor) /\ WF_vars(CallRefreshes)
  /\ SF_vars(\E o \in Outcomes : TurnEnds(o))
FairSpec == Spec /\ Fairness

-----------------------------------------------------------------------------
(* Properties                                                               *)

\* Every variable has the shape the storage keys and the locals of the alarm
\* pass can have.
TypeOK ==
  /\ rec \in [Routine -> {"absent", "on", "off", "deleted"}]
  /\ due \in [Routine -> Int] /\ held \in [Routine -> Nat]
  /\ fails \in [Routine -> 0..PauseAfter]
  /\ kept \in [Routine -> {"none", "stale", "fresh"}]
  /\ lock \in [Routine -> Asks \cup {None, "cron"}] /\ lease \in [Routine -> Nat]
  /\ queue \in [Routine -> Seq(Asks)]
  /\ log \in [Routine -> {"none", "running", "ok", "failed"}]
  /\ run \in [Routine -> {"none", "running", "ok", "failed"}]
  /\ receipts \subseteq Asks /\ minted \subseteq Asks
  /\ alarm \in Nat \cup {None}
  /\ active \in Routine \cup {None, Chat} /\ parked \in Routine \cup {None}
  /\ stray \in BOOLEAN /\ waiting \in BOOLEAN /\ executing \in BOOLEAN
  /\ pc \in {"idle", "queued", "settle", "reap", "claim", "exec", "rest", "recover", "drive"}
  /\ reaping \subseteq Routine /\ drained \in 0..Batch
  /\ firing \in Routine \cup {None} /\ (pc = "exec" => firing \in Routine)
  /\ phase \in {"none", "ask", "turn", "notify", "done"}
  /\ outcome \in {"none", "ok", "failed"} /\ timer \in Nat
  /\ abandoned \subseteq Routine /\ call \in {"none", "refreshing", "lost"}
  /\ chats \in Nat /\ edits \in Nat /\ evictions \in Nat

\* The run log says a firing is running exactly while its lock is held: no
\* crash, timeout, reaping or deletion leaves a row running for ever, or a lock
\* without its row (#writeClaim, #settleFiring, routine/delete).
RunLogIsTrue == \A r \in Routine : log[r] = "running" <=> lock[r] # None

\* Nothing outlives a deleted Routine: a firing that was in flight when it was
\* deleted settles without writing a row, a clock or a lock back.
NothingOutlivesTheRecord ==
  \A r \in Routine : rec[r] \in {"absent", "deleted"} =>
    lock[r] = None /\ queue[r] = <<>> /\ kept[r] = "none" /\ log[r] = "none"

\* A firing that was asked for is claimed once: what waits in a queue was not
\* claimed before, waits once, and is not the firing that holds the lock,
\* however often the ask is repeated.
AskFiresOnce ==
  \A r \in Routine : \A i \in DOMAIN queue[r] :
    /\ queue[r][i] \notin minted /\ queue[r][i] # lock[r]
    /\ \A j \in DOMAIN queue[r] : queue[r][i] = queue[r][j] => i = j

\* The Bot never goes silent: between alarm passes, and unless a call died
\* before it could re-arm, an object with an enabled schedule, a firing that
\* can be claimed, or a Turn has its alarm.
NeverSilent ==
  pc = "idle" /\ call = "none" /\
    (KernelOwes \/ \E r \in Routine : Live(r) \/ (queue[r] # <<>> /\ lock[r] = None))
  => alarm # None

\* A debt is kept: an occurrence that has come due leaves the clock when its
\* firing is minted, when the person rewrites the Routine or when the account
\* moves to another zone, and in no other way; a busy object never skips it.
DebtIsKept ==
  [][\A r \in Routine : Live(r) /\ due[r] <= 0 /\ due'[r] > 0 =>
       lock'[r] # lock[r] \/ rec'[r] # rec[r] \/ edits' # edits]_vars

\* A firing of an enabled schedule is settled, whatever is evicted on the way.
LiveFiringSettles ==
  \A r \in Routine : lock[r] # None ~> lock[r] = None \/ ~Live(r)

\* An enabled schedule goes on firing for ever, once the call that wrote it
\* has re-armed the alarm.
KeepsFiring ==
  \A r \in Scheduled \ Unreachable :
    Live(r) ~> lock[r] # None \/ ~Live(r) \/ call = "lost"

\* A firing that was asked for is claimed, unless its Routine is deleted, its
\* call died, or it waits behind a lock that nothing watches.
AskIsClaimed ==
  \A a \in Asks : Waits(a) ~> \/ ~Waits(a)
                              \/ call = "lost"
                              \/ lock[AskOf[a]] # None /\ ~Live(AskOf[a])

\* Every firing is settled: a lock left behind is a deadline rather than a
\* silence (ROUTINE_FIRE_LEASE_MS).
EveryFiringSettles == \A r \in Routine : lock[r] # None ~> lock[r] = None
=============================================================================
