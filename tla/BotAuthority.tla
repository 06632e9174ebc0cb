---------------------------- MODULE BotAuthority ----------------------------
(***************************************************************************)
(* The Turn authority of one Bot (core/durable/authority.ts): the durable   *)
(* run records of a Bot's Durable Object, the one active slot, the parked   *)
(* slot, the two pending queues and the recovery alarm, together with the   *)
(* activities that drive a run inside the object and are lost when it is    *)
(* evicted.                                                                 *)
(*                                                                          *)
(* An activity ("strand") is one chain of awaits in the object: the alarm   *)
(* handler, the drive promise that admission starts, and each               *)
(* completion-waiting call of run().  A storage.transaction is one step,    *)
(* with the synchronous code that follows it up to the next await.  Reads   *)
(* outside a transaction belong to the step that makes them, so what they   *)
(* saw can be stale when the transaction they lead to is served; reads that *)
(* follow a transaction are a step of their own.                            *)
(***************************************************************************)
EXTENDS Naturals, Sequences, FiniteSets

CONSTANTS
  Runs,             \* run ids; their order is the order of the pending keys
  LaneOf,           \* the lane of each run's command: an id names one command
  NoRun,            \* an absent run key
  Callers,          \* concurrent completion-waiting calls of run()
  Awaited,          \* the runs that such calls wait for
  NoStrand,         \* no executingActivity
  MaxPendingUsers,  \* MAX_PENDING_USER_RUNS_V1
  MaxPendingAgents, \* MAX_PENDING_AGENT_RUNS_V1
  MaxFences,        \* MAX_RUN_ADMISSION_FENCES
  MaxAttempts,      \* MAX_QUEUED_RUN_START_ATTEMPTS
  MaxDrive,         \* bound: pumps a replayed admission may queue
  MaxEvictions      \* bound: evictions of the object

ASSUME RunsAssumption == Runs \subseteq Nat /\ NoRun \notin Runs
ASSUME LanesAssumption == LaneOf \in [Runs -> {"user", "agent", "background"}]
ASSUME StrandsAssumption ==
  /\ Awaited \subseteq Runs
  /\ "alarm" \notin Callers /\ "drive" \notin Callers
  /\ NoStrand \notin Callers \cup {"alarm", "drive"}
ASSUME BoundsAssumption ==
  /\ MaxPendingUsers \in Nat /\ MaxPendingAgents \in Nat
  /\ MaxFences \in Nat \ {0} /\ MaxAttempts \in Nat \ {0}
  /\ MaxDrive \in Nat /\ MaxEvictions \in Nat

Strands == {"alarm", "drive"} \cup Callers
Statuses == {"none", "running", "completed", "failed", "cancelled"}
Phases == {"queued", "admitted", "executing", "parked"}

\* What a run's journal and effect admissions tell recovery: nothing external
\* was ever asked for; an intent is journaled; it was admitted, or fenced by a
\* Stop; its outcome is journaled; turn/end with outcome completed; turn/end
\* with any other outcome.  Settlement closes it, and nothing reads it again
\* to decide.
Journals == {"quiet", "intent", "sent", "fenced", "outcome", "ended", "broken",
             "closed"}

VARIABLES
  \* durable: the object's storage and its alarm
  run,          \* run records
  active,       \* ACTIVE_RUN_KEY
  parked,       \* PARKED_RUN_KEY
  pendingUser,  \* entries under PENDING_USER_RUN_PREFIX
  pendingAgent, \* entries under PENDING_AGENT_RUN_PREFIX
  fences,       \* RUN_ADMISSION_FENCE_INDEX_KEY, oldest first
  alarm,        \* the object's alarm is armed
  \* in memory, lost on eviction
  executing,    \* executingRunId
  activity,     \* the strand whose promise is executingActivity
  drive,        \* the runs whose pumpUntil is chained on this.drive
  driveError,   \* driveError: the run whose deferral it reports
  queuedWaiters,\* queuedWaiters
  stopping,     \* runs with a stopRun call between its two transactions
  pc,           \* where each strand stands
  tgt,          \* the run a strand works on
  want,         \* the run a caller's run() waits for
  cont,         \* where a strand goes on when recovery returns
  attempts,     \* runQueuedRun attempts of a caller
  evictions     \* evictions so far

slots == <<run, active, parked, pendingUser, pendingAgent>>
held == <<executing, activity>>
driver == <<drive, driveError>>
waiting == <<want, cont, attempts, queuedWaiters>>
vars == <<slots, fences, alarm, held, driver, stopping, pc, tgt, waiting,
          evictions>>

-----------------------------------------------------------------------------
(* Records and queues                                                       *)

NoRecord == [status |-> "none", phase |-> "admitted", stop |-> FALSE, log |-> "quiet"]

\* A stored record with one of its fields replaced.
WithStatus(rec, v) == [status |-> v, phase |-> rec.phase, stop |-> rec.stop,
                       log |-> rec.log]
WithPhase(rec, v) == [status |-> rec.status, phase |-> v, stop |-> rec.stop,
                      log |-> rec.log]
WithStop(rec, v) == [status |-> rec.status, phase |-> rec.phase, stop |-> v,
                     log |-> rec.log]
WithLog(rec, v) == [status |-> rec.status, phase |-> rec.phase, stop |-> rec.stop,
                    log |-> v]

Running(r) == run[r].status = "running"
Terminal(r) == run[r].status \in {"completed", "failed", "cancelled"}
InPhase(r, p) == Running(r) /\ run[r].phase = p

\* firstPendingRunV1: the entry with the smallest (acceptedAt, runId) key.
FirstPending(q) == CHOOSE r \in q : \A o \in q : r <= o

\* livePendingHead: entries ahead of the first live one are deleted.
LivePending(q) == {r \in q : InPhase(r, "queued")}
Pruned(q) == {r \in q : \E l \in LivePending(q) : l <= r}

\* Work the object owes: refreshRecoveryAlarm arms on exactly this.
Owed == \/ active # NoRun \/ parked # NoRun
        \/ pendingUser # {} \/ pendingAgent # {}
RefreshForgetsParked ==
  alarm' = (active' # NoRun \/ pendingUser' # {} \/ pendingAgent' # {})
RefreshForgetsActive ==
  alarm' = (parked' # NoRun \/ pendingUser' # {} \/ pendingAgent' # {})
RefreshRecoveryAlarm == alarm' = Owed'

-----------------------------------------------------------------------------
(* Strands                                                                  *)

\* A strand in one of these has a transaction queued.  Transactions are
\* served in the order they were requested, so no Turn, each of whose steps
\* needs a later one, advances before it.
Queueing == {"queued", "recoverTx", "promote", "unpark", "start", "unwind"}

\* A strand in one of these holds the Turn of its target.
Executing == {"start", "turn", "complete", "fail", "park", "defer"}

CallerPlaces == {"loop", "watch", "attempt", "could not start"}
Places == {"idle", "alarmed", "recover", "promoted", "return", "threw", "finish",
           "unwindThrow"} \cup Queueing \cup Executing \cup CallerPlaces

TurnMayStep(s) == \A o \in Strands \ {s} : pc[o] \notin Queueing

Goto(s, p) == pc' = [pc EXCEPT ![s] = p]

\* The target is a local of the calls that need it.
Targeting == Executing \cup {"recoverTx", "promote", "promoted", "unpark",
                             "finish", "unwind", "unwindThrow"}
ForgetTarget(s) ==
  tgt' = IF pc'[s] \in Targeting THEN tgt ELSE [tgt EXCEPT ![s] = NoRun]

\* run() ends for a caller, with its answer or an error.
CallerLeavesReserved(s, p) ==
  /\ Goto(s, p)
  /\ want' = [want EXCEPT ![s] = NoRun]
  /\ cont' = [cont EXCEPT ![s] = "loop"]
  /\ attempts' = [attempts EXCEPT ![s] = 0]
  /\ UNCHANGED queuedWaiters
CallerLeaves(s, p) ==
  /\ Goto(s, p)
  /\ want' = [want EXCEPT ![s] = NoRun]
  /\ cont' = [cont EXCEPT ![s] = "loop"]
  /\ attempts' = [attempts EXCEPT ![s] = 0]
  /\ queuedWaiters' = queuedWaiters \ {want[s]}

\* notifySettled and wakeSettledWaiters: the callers that watch a run of S
\* look at it again.
WakingNobody(S, places) == places
Waking(S, places) ==
  [c \in Strands |-> IF places[c] = "watch" /\ want[c] \in S
                    THEN "loop" ELSE places[c]]

-----------------------------------------------------------------------------
(* Settlement (run-terminal.ts), inside a transaction                       *)

\* leaveQueueV1: a run that settles before it starts, or while it is parked,
\* gives up its entry.
LeaveQueueKeepsParked(r) == UNCHANGED <<parked, pendingUser, pendingAgent>>
LeaveQueue(r) ==
  /\ parked' = IF run[r].phase = "parked" /\ parked = r THEN NoRun ELSE parked
  /\ pendingUser' = IF run[r].phase = "queued" /\ LaneOf[r] # "agent"
                    THEN pendingUser \ {r} ELSE pendingUser
  /\ pendingAgent' = IF run[r].phase = "queued" /\ LaneOf[r] = "agent"
                     THEN pendingAgent \ {r} ELSE pendingAgent

\* A run with a durable Stop settles as cancelled, whatever its Turn did.
SettledAsAsked(r, status) == status
SettledAs(r, status) == IF run[r].stop THEN "cancelled" ELSE status
Settled(r, status) == WithLog(WithStatus(run[r], SettledAs(r, status)), "closed")

\* failStoredRun, which routes a stopped run to cancelStoredRun and leaves a
\* completed one alone.
FailStoredRun(r) ==
  IF run[r].status \in {"none", "completed"}
  THEN UNCHANGED <<run, active, parked, pendingUser, pendingAgent>>
  ELSE /\ run' = [run EXCEPT ![r] = Settled(r, "failed")]
       /\ LeaveQueue(r)
       /\ active' = IF active = r THEN NoRun ELSE active

\* completeStoredRun past its check that the run is active: a Stop recorded
\* before the settlement wins.
CompleteStoredRun(r) ==
  /\ run' = [run EXCEPT ![r] = Settled(r, "completed")]
  /\ active' = NoRun
  /\ UNCHANGED <<parked, pendingUser, pendingAgent>>

-----------------------------------------------------------------------------
(* Commands from outside the object                                         *)

\* A command waits for the active run and for people's waiting messages; agent
\* work waits for the parked run and for earlier agent work as well.
MustQueue(lane) ==
  \/ active # NoRun
  \/ pendingUser # {}
  \/ lane = "agent" /\ (pendingAgent # {} \/ parked # NoRun)

\* acceptRun looks the fences up again inside its transaction.
FenceOverlooked(r) == FALSE
Fenced(r) == \E i \in DOMAIN fences : fences[i] = r

\* acceptRun's transaction and the scheduleDrive that follows it.  A refused
\* command (fenced, busy, queue full) changes nothing.
AcceptRun(r) ==
  LET lane == LaneOf[r]
      queued == MustQueue(lane)
  IN
  /\ run[r].status = "none"
  /\ ~Fenced(r)
  /\ lane = "background" => ~Owed
  /\ lane = "user" /\ queued => Cardinality(pendingUser) < MaxPendingUsers
  /\ lane = "agent" /\ queued => Cardinality(pendingAgent) < MaxPendingAgents
  /\ run' = [run EXCEPT ![r] =
               [status |-> "running", stop |-> FALSE, log |-> "quiet",
                phase |-> IF queued THEN "queued" ELSE "admitted"]]
  /\ active' = IF queued THEN active ELSE r
  /\ pendingUser' = IF queued /\ lane # "agent" THEN pendingUser \cup {r}
                                                ELSE pendingUser
  /\ pendingAgent' = IF queued /\ lane = "agent" THEN pendingAgent \cup {r}
                                                 ELSE pendingAgent
  /\ UNCHANGED parked
  /\ RefreshRecoveryAlarm
  /\ drive' = Append(drive, r)
  /\ UNCHANGED <<fences, held, driveError, stopping, pc, tgt, waiting, evictions>>

\* replayAdmission: an identical command for a run that has not settled only
\* chains another pump.
ReplayAdmission(r) ==
  /\ Running(r)
  /\ Len(drive) < MaxDrive
  /\ drive' = Append(drive, r)
  /\ UNCHANGED <<slots, fences, alarm, held, driveError, stopping, pc, tgt,
                 waiting, evictions>>

\* The fences other than r, which is in there at most once.
FencesWithout(r) ==
  IF Fenced(r)
  THEN LET i == CHOOSE i \in DOMAIN fences : fences[i] = r
       IN SubSeq(fences, 1, i - 1) \o SubSeq(fences, i + 1, Len(fences))
  ELSE fences

\* fenceRunAdmission: a bounded FIFO of ids that may no longer be admitted.
FenceRunAdmission(r) ==
  LET others == FencesWithout(r)
      kept == IF Len(others) < MaxFences THEN others
              ELSE SubSeq(others, Len(others) - MaxFences + 2, Len(others))
  IN
  /\ run[r].status = "none"
  /\ fences' = Append(kept, r)
  /\ UNCHANGED <<slots, alarm, held, driver, stopping, pc, tgt, waiting, evictions>>

\* recordUnadmittedFailure: the record of a Turn admission refused.
RecordUnadmittedFailure(r) ==
  /\ run[r].status = "none"
  /\ run' = [run EXCEPT ![r] = WithStatus(run[r], "failed")]
  /\ UNCHANGED <<active, parked, pendingUser, pendingAgent, fences, alarm, held,
                 driver, stopping, pc, tgt, waiting, evictions>>

\* stopRun's transaction.  It reads the record alone, whose events are stored
\* by range, so a journaled turn/end does not refuse it.
StopRun(r) ==
  /\ Running(r)
  /\ run' = [run EXCEPT ![r] = WithStop(run[r], TRUE)]
  /\ UNCHANGED <<active, parked, pendingUser, pendingAgent>>
  /\ RefreshRecoveryAlarm
  /\ stopping' = stopping \cup {r}
  /\ UNCHANGED <<fences, held, driver, pc, tgt, waiting, evictions>>

\* settleStoppedParkedRun, which stopRun calls last.
SettleStoppedParkedRun(r) ==
  /\ r \in stopping
  /\ stopping' = stopping \ {r}
  /\ IF InPhase(r, "parked") /\ run[r].stop
     THEN /\ FailStoredRun(r)
          /\ RefreshRecoveryAlarm
          /\ pc' = Waking({r}, pc)
     ELSE UNCHANGED <<slots, alarm, pc>>
  /\ UNCHANGED <<fences, held, driver, tgt, waiting, evictions>>

\* The object is evicted.  An alarm whose handler did not return is delivered
\* again by the platform.
Evict ==
  /\ evictions < MaxEvictions
  /\ evictions' = evictions + 1
  /\ alarm' = (alarm \/ pc["alarm"] # "idle")
  /\ executing' = NoRun /\ activity' = NoStrand
  /\ drive' = <<>> /\ driveError' = NoRun
  /\ queuedWaiters' = {} /\ stopping' = {}
  /\ pc' = [s \in Strands |-> "idle"]
  /\ tgt' = [s \in Strands |-> NoRun]
  /\ want' = [s \in Strands |-> NoRun]
  /\ cont' = [s \in Strands |-> "loop"]
  /\ attempts' = [s \in Strands |-> 0]
  /\ UNCHANGED <<slots, fences>>

-----------------------------------------------------------------------------
(* recoverActiveRun and recoverQueuedRun                                    *)

\* recoverActiveRun up to its transaction.
ReadActive(s) ==
  /\ pc[s] = "recover"
  /\ \/ /\ active = NoRun
        /\ Goto(s, "queued")
        /\ UNCHANGED tgt
     \/ /\ active # NoRun /\ active = executing
        /\ Goto(s, "return")
        /\ UNCHANGED tgt
     \/ /\ active # NoRun /\ active # executing
        /\ Goto(s, "recoverTx")
        /\ tgt' = [tgt EXCEPT ![s] = active]
  /\ UNCHANGED <<slots, fences, alarm, held, driver, stopping, waiting, evictions>>

\* One pass of recoverQueuedRun up to its transaction: the person's Turns,
\* then the parked one, then agent work.
ReadQueue(s) ==
  LET pending == IF pendingUser # {} THEN pendingUser ELSE pendingAgent
  IN
  /\ pc[s] = "queued"
  /\ \/ /\ pendingUser = {} /\ parked # NoRun /\ parked # executing
        /\ Goto(s, "unpark")
        /\ tgt' = [tgt EXCEPT ![s] = parked]
     \/ /\ pendingUser # {} \/ parked = NoRun
        /\ pending # {}
        /\ FirstPending(pending) \notin queuedWaiters
        /\ FirstPending(pending) # executing
        /\ Goto(s, "promote")
        /\ tgt' = [tgt EXCEPT ![s] = FirstPending(pending)]
     \/ /\ \/ pendingUser = {} /\ parked # NoRun /\ parked = executing
           \/ /\ pendingUser # {} \/ parked = NoRun
              /\ pending # {} => FirstPending(pending) \in queuedWaiters \cup {executing}
        /\ Goto(s, "return")
        /\ tgt' = [tgt EXCEPT ![s] = NoRun]
  /\ UNCHANGED <<slots, fences, alarm, held, driver, stopping, waiting, evictions>>

\* What recovery does with a journal (planBotRunRecovery).
RecoveryPlan(log) ==
  CASE log = "ended"  -> "complete"
    [] log = "broken" -> "fail"
    [] log = "quiet"  -> "restart"
    [] OTHER          -> "resume"

\* recoverActiveRun looks again, inside its transaction, whether there is
\* anything to recover that this object is not executing.
SkipsWhenIdle == active = NoRun
NothingToRecover == active = NoRun \/ active = executing

\* The object's SQLite storage answers a plain read at once, before it begins a
\* transaction that was asked for later.  Recovery that has a promoted run in
\* its hands read the active key after the promotion, whose own reads are ahead.
ReadsAreAnswered(s) == \A o \in Strands : pc[o] = "promoted" => tgt[o] # tgt[s]

\* recoverActiveRun's transaction.  A Turn it restarts or resumes is marked
\* executing in this object before anything else runs.
RecoverActiveRun(s) ==
  LET r == tgt[s]
      mine == ~NothingToRecover /\ Running(r)
      plan == IF run[r].stop THEN "cancel" ELSE RecoveryPlan(run[r].log)
  IN
  /\ pc[s] = "recoverTx" /\ ReadsAreAnswered(s)
  /\ \/ /\ NothingToRecover
        /\ Goto(s, "return")
        /\ UNCHANGED <<slots, alarm, held>>
     \/ /\ ~NothingToRecover /\ ~Running(r)
        /\ Goto(s, "return")
        /\ UNCHANGED <<slots, held>>
        /\ RefreshRecoveryAlarm
     \/ /\ mine /\ plan \in {"cancel", "fail"}
        /\ FailStoredRun(r)
        /\ RefreshRecoveryAlarm
        /\ Goto(s, "finish")
        /\ UNCHANGED held
     \/ /\ mine /\ plan = "complete"
        /\ IF active = r
           THEN CompleteStoredRun(r) /\ RefreshRecoveryAlarm /\ Goto(s, "finish")
           ELSE UNCHANGED <<slots, alarm>> /\ Goto(s, "threw")
        /\ UNCHANGED held
     \/ /\ mine /\ plan = "restart"
        /\ run' = [run EXCEPT ![r] = WithLog(WithPhase(run[r], "admitted"), "quiet")]
        /\ executing' = r /\ activity' = s
        /\ Goto(s, "start")
        /\ UNCHANGED <<active, parked, pendingUser, pendingAgent>>
        /\ RefreshRecoveryAlarm
     \/ /\ mine /\ plan = "resume"
        /\ run' = [run EXCEPT ![r] = WithPhase(run[r], "executing")]
        /\ executing' = r
        /\ Goto(s, "turn")
        /\ UNCHANGED <<active, parked, pendingUser, pendingAgent, activity>>
        /\ RefreshRecoveryAlarm
  /\ ForgetTarget(s)
  /\ UNCHANGED <<fences, driver, stopping, waiting, evictions>>

\* promoteQueuedRun: why a queued run may not start yet.
NotQueued(r) ==
  \/ ~InPhase(r, "queued")
  \/ LaneOf[r] # "agent" /\ LivePending(pendingUser) = {}
  \/ /\ LaneOf[r] = "agent" /\ LivePending(pendingUser) = {}
     /\ parked = NoRun /\ LivePending(pendingAgent) = {}

BlockedHeadUnchecked(r) ==
  \/ active # NoRun
  \/ LaneOf[r] = "agent"
     /\ (LivePending(pendingUser) # {} \/ parked # NoRun)
Blocked(r) ==
  \/ active # NoRun
  \/ LaneOf[r] # "agent" /\ FirstPending(LivePending(pendingUser)) # r
  \/ /\ LaneOf[r] = "agent"
     /\ \/ LivePending(pendingUser) # {}
        \/ parked # NoRun
        \/ FirstPending(LivePending(pendingAgent)) # r

\* The queue q that promoteQueuedRun leaves behind.
DequeuedNothing(q, r) == Pruned(q)
Dequeued(q, r) == IF NotQueued(r) \/ Blocked(r) THEN Pruned(q) ELSE Pruned(q) \ {r}

\* The transaction of promoteQueuedRun and what its two callers do with its
\* answer: recoverQueuedRun goes on to read the run, tries the next one or
\* returns; runQueuedRun executes it, leaves, or drives the run ahead of it.
PromoteQueuedRun(s) ==
  LET r == tgt[s]
  IN
  /\ pc[s] = "promote"
  /\ pendingUser' = Dequeued(pendingUser, r)
  /\ pendingAgent' = Dequeued(pendingAgent, r)
  /\ UNCHANGED parked
  /\ \/ /\ ~NotQueued(r) /\ ~Blocked(r)
        /\ run' = [run EXCEPT ![r] = WithPhase(run[r], "admitted")]
        /\ active' = r
        /\ \/ /\ cont[s] = "mine"
              /\ executing' = r /\ activity' = s
              /\ Goto(s, "start")
           \/ cont[s] # "mine" /\ Goto(s, "promoted") /\ UNCHANGED held
        /\ UNCHANGED waiting
     \/ /\ NotQueued(r) /\ cont[s] # "mine"
        /\ Goto(s, "queued")
        /\ UNCHANGED <<run, active, held, waiting>>
     \/ /\ ~NotQueued(r) /\ Blocked(r) /\ cont[s] # "mine"
        /\ Goto(s, "return")
        /\ UNCHANGED <<run, active, held, waiting>>
     \/ /\ NotQueued(r) /\ cont[s] = "mine"
        /\ CallerLeaves(s, "idle")
        /\ UNCHANGED <<run, active, held>>
     \/ /\ ~NotQueued(r) /\ Blocked(r) /\ cont[s] = "mine"
        /\ attempts' = [attempts EXCEPT ![s] = @ + 1]
        /\ cont' = [cont EXCEPT ![s] = "attempt"]
        /\ Goto(s, "recover")
        /\ UNCHANGED <<run, active, held, want, queuedWaiters>>
  /\ IF pendingUser' # pendingUser \/ pendingAgent' # pendingAgent
     THEN RefreshRecoveryAlarm ELSE UNCHANGED alarm
  /\ ForgetTarget(s)
  /\ UNCHANGED <<fences, driver, stopping, evictions>>

\* recoverQueuedRun reads the run it promoted, record and journal, before it
\* executes it.  Until then the run is active and not marked executing, and a
\* read that throws leaves it so.
ExecutePromoted(s) ==
  /\ pc[s] = "promoted"
  /\ \/ /\ executing' = tgt[s] /\ activity' = s
        /\ Goto(s, "start")
     \/ Goto(s, "threw") /\ UNCHANGED held
  /\ ForgetTarget(s)
  /\ UNCHANGED <<slots, fences, alarm, driver, stopping, waiting, evictions>>

\* unparkRun: a parked run waits for the active run and for people's messages.
UnparkBlockedByPeople == LivePending(pendingUser) # {}
UnparkBlocked == active # NoRun \/ LivePending(pendingUser) # {}

\* unparkRun, and what recoverQueuedRun does with its answer.
UnparkRun(s) ==
  LET r == tgt[s]
  IN
  /\ pc[s] = "unpark"
  /\ \/ /\ parked # r
        /\ Goto(s, "queued")
        /\ UNCHANGED <<slots, alarm>>
     \/ /\ parked = r /\ UnparkBlocked
        /\ Goto(s, "return")
        /\ pendingUser' = IF active # NoRun THEN pendingUser ELSE Pruned(pendingUser)
        /\ UNCHANGED <<run, active, parked, pendingAgent>>
        /\ IF pendingUser' # pendingUser THEN RefreshRecoveryAlarm
                                         ELSE UNCHANGED alarm
     \/ /\ parked = r /\ ~UnparkBlocked
        /\ parked' = NoRun
        /\ pendingUser' = Pruned(pendingUser)
        /\ IF InPhase(r, "parked")
           THEN /\ run' = [run EXCEPT ![r] = WithPhase(run[r], "admitted")]
                /\ active' = r
                /\ Goto(s, "recover")
           ELSE /\ UNCHANGED <<run, active>>
                /\ Goto(s, "queued")
        /\ UNCHANGED pendingAgent
        /\ RefreshRecoveryAlarm
  /\ ForgetTarget(s)
  /\ UNCHANGED <<fences, held, driver, stopping, waiting, evictions>>

-----------------------------------------------------------------------------
(* One Turn: executeAdmittedRun and executeResumedRun                       *)

\* executeAdmittedRun's first transaction.
StartRun(s) ==
  /\ pc[s] = "start"
  /\ IF Running(tgt[s])
     THEN /\ run' = [run EXCEPT ![tgt[s]] = WithPhase(run[tgt[s]], "executing")]
          /\ Goto(s, "turn")
     ELSE Goto(s, "fail") /\ UNCHANGED run
  /\ UNCHANGED <<active, parked, pendingUser, pendingAgent>>
  /\ RefreshRecoveryAlarm
  /\ UNCHANGED <<fences, held, driver, stopping, tgt, waiting, evictions>>

InTurn(s) == pc[s] = "turn" /\ TurnMayStep(s)

\* persistRunEvents: the journal moves on while the Turn runs.
Journal(s, log) ==
  /\ run' = [run EXCEPT ![tgt[s]] = WithLog(run[tgt[s]], log)]
  /\ UNCHANGED <<active, parked, pendingUser, pendingAgent>>
  /\ RefreshRecoveryAlarm
  /\ UNCHANGED <<fences, held, driver, stopping, tgt, waiting, evictions>>

\* A model request or a tool call is journaled before it is sent.
JournalIntent(s) ==
  /\ InTurn(s)
  /\ run[tgt[s]].log \in {"quiet", "outcome"}
  /\ Journal(s, "intent")
  /\ UNCHANGED pc

\* admitRunEffect: the effect is sent unless a Stop is durable by now.  What it
\* decided holds for every later attempt at the same effect.
AdmitRunEffect(s) ==
  LET r == tgt[s]
  IN
  /\ InTurn(s)
  /\ run[r].log = "intent"
  /\ active = r /\ InPhase(r, "executing")
  /\ run' = [run EXCEPT ![r] =
               WithLog(run[r], IF run[r].stop THEN "fenced" ELSE "sent")]
  /\ UNCHANGED <<active, parked, pendingUser, pendingAgent, fences, alarm, held,
                 driver, stopping, pc, tgt, waiting, evictions>>

\* Its outcome is journaled: the Turn is at a step boundary.
JournalOutcome(s) ==
  /\ InTurn(s)
  /\ run[tgt[s]].log = "sent"
  /\ Journal(s, "outcome")
  /\ UNCHANGED pc

\* turn/end is journaled and executeTurn answers or throws on its outcome.
EndTurn(s) ==
  /\ InTurn(s)
  /\ \/ run[tgt[s]].log = "outcome" /\ Journal(s, "ended") /\ Goto(s, "complete")
     \/ Journal(s, "broken") /\ Goto(s, "fail")

\* executeTurn leaves the Turn open: a delivery Turn with nothing to deliver
\* answers at once, an error journals nothing, an outcome that is durable
\* while the Turn is not asks for recovery, and a Turn outside the
\* conversation parks at a step boundary for a person's waiting message
\* (userMessageWaiting).
LeaveTurnOpen(s) ==
  /\ InTurn(s)
  /\ \/ run[tgt[s]].log = "quiet" /\ Goto(s, "complete")
     \/ Goto(s, "fail")
     \/ run[tgt[s]].log = "outcome" /\ Goto(s, "defer")
     \/ /\ run[tgt[s]].log = "outcome"
        /\ active = tgt[s] /\ Running(tgt[s]) /\ LaneOf[tgt[s]] # "user"
        /\ pendingUser # {} /\ parked = NoRun
        /\ Goto(s, "park")
  /\ UNCHANGED <<slots, fences, alarm, held, driver, stopping, tgt, waiting,
                 evictions>>

\* completeRun.  A run that is not active is failed instead.
CompleteRun(s) ==
  /\ pc[s] = "complete"
  /\ IF active = tgt[s]
     THEN /\ CompleteStoredRun(tgt[s])
          /\ RefreshRecoveryAlarm
          /\ Goto(s, "finish")
     ELSE Goto(s, "fail") /\ UNCHANGED <<slots, alarm>>
  /\ UNCHANGED <<fences, held, driver, stopping, tgt, waiting, evictions>>

FailRun(s) ==
  /\ pc[s] = "fail"
  /\ FailStoredRun(tgt[s])
  /\ RefreshRecoveryAlarm
  /\ Goto(s, "finish")
  /\ UNCHANGED <<fences, held, driver, stopping, tgt, waiting, evictions>>

\* parkRun gives the active slot away and takes the parked one.
ActiveKeptByPark(r) == active
ActiveAfterPark(r) == IF active = r THEN NoRun ELSE active

ParkRun(s) ==
  LET r == tgt[s]
  IN
  /\ pc[s] = "park"
  /\ IF Running(r)
     THEN /\ run' = [run EXCEPT ![r] = WithPhase(run[r], "parked")]
          /\ parked' = r
          /\ active' = ActiveAfterPark(r)
          /\ UNCHANGED <<pendingUser, pendingAgent>>
          /\ RefreshRecoveryAlarm
          /\ Goto(s, "unwind")
     ELSE Goto(s, "unwindThrow") /\ UNCHANGED <<slots, alarm>>
  /\ UNCHANGED <<fences, held, driver, stopping, tgt, waiting, evictions>>

DeferRunRecovery(s) ==
  /\ pc[s] = "defer"
  /\ IF Running(tgt[s])
     THEN run' = [run EXCEPT ![tgt[s]] = WithPhase(run[tgt[s]], "executing")]
     ELSE UNCHANGED run
  /\ UNCHANGED <<active, parked, pendingUser, pendingAgent>>
  /\ RefreshRecoveryAlarm
  /\ Goto(s, "unwindThrow")
  /\ UNCHANGED <<fences, held, driver, stopping, tgt, waiting, evictions>>

\* The finally of a Turn gives executingRunId up only if it is its own.
ForgetsExecuting(s) == NoRun
ExecutingAfter(s) == IF executing = tgt[s] THEN NoRun ELSE executing

\* noteSettled for a settled run, then the finally blocks.
Finish(s) ==
  /\ pc[s] \in {"finish", "unwind", "unwindThrow"}
  /\ executing' = ExecutingAfter(s)
  /\ activity' = IF activity = s THEN NoStrand ELSE activity
  /\ pc' = Waking(IF pc[s] = "finish" THEN {tgt[s]} ELSE {},
            [pc EXCEPT ![s] = IF pc[s] = "unwindThrow" THEN "threw" ELSE "return"])
  /\ tgt' = [tgt EXCEPT ![s] = NoRun]
  /\ UNCHANGED <<slots, fences, alarm, driver, stopping, waiting, evictions>>

-----------------------------------------------------------------------------
(* The alarm                                                                *)

AlarmFires ==
  /\ alarm /\ pc["alarm"] = "idle"
  /\ alarm' = FALSE
  /\ Goto("alarm", "alarmed")
  /\ UNCHANGED <<slots, fences, held, driver, stopping, tgt, waiting, evictions>>

\* alarm() past its maintenance: it defers to a Turn this object executes,
\* starts owed work, or recovers the active run after the scheduled work.
AlarmChecks ==
  /\ pc["alarm"] = "alarmed"
  /\ \/ /\ executing # NoRun
        /\ Goto("alarm", "idle")
        /\ UNCHANGED slots
        /\ RefreshRecoveryAlarm
     \/ /\ executing = NoRun /\ active = NoRun /\ Owed
        /\ Goto("alarm", "queued")
        /\ UNCHANGED <<slots, alarm>>
     \/ /\ executing = NoRun /\ (active # NoRun \/ ~Owed)
        /\ Goto("alarm", "recover")
        /\ UNCHANGED <<slots, alarm>>
  /\ UNCHANGED <<fences, held, driver, stopping, tgt, waiting, evictions>>

\* The finally that re-arms the alarm, whatever recovery did.
AlarmReturns ==
  /\ pc["alarm"] \in {"return", "threw"}
  /\ Goto("alarm", "idle")
  /\ UNCHANGED slots
  /\ RefreshRecoveryAlarm
  /\ UNCHANGED <<fences, held, driver, stopping, tgt, waiting, evictions>>

-----------------------------------------------------------------------------
(* The drive: pumpUntil for the run at the head of the chain                *)

\* One link of the drive chain ends; its finally wakes every waiter.
DriveEnds(deferred) ==
  /\ drive' = Tail(drive)
  /\ driveError' = IF deferred # NoRun THEN deferred ELSE driveError
  /\ pc' = Waking(Runs, [pc EXCEPT !["drive"] = "idle"])

\* The top of pumpUntil's loop.  It waits out an executing activity.
DrivePumps ==
  /\ pc["drive"] = "idle" /\ drive # <<>>
  /\ \/ /\ ~Running(Head(drive))
        /\ DriveEnds(NoRun)
     \/ /\ Running(Head(drive))
        /\ executing = NoRun \/ activity = NoStrand
        /\ Goto("drive", "recover")
        /\ UNCHANGED driver
  /\ UNCHANGED <<slots, fences, alarm, held, stopping, tgt, waiting, evictions>>

\* The rest of the loop once recovery returned or threw: the pump gives up a
\* run that recovery deferred, and goes round again for a run that has not
\* started, unless this was the last of its 32 passes.
DriveReturns ==
  LET r == Head(drive)
      deferred == /\ InPhase(r, "executing")
                  /\ pc["drive"] = "threw" \/ activity = NoStrand
  IN
  /\ pc["drive"] \in {"return", "threw"}
  /\ \/ /\ ~Running(r) \/ deferred
        /\ DriveEnds(IF pc["drive"] = "threw" /\ InPhase(r, "executing")
                     THEN r ELSE NoRun)
     \/ /\ Running(r) /\ ~deferred
        /\ \/ Goto("drive", "idle") /\ UNCHANGED driver
           \/ DriveEnds(NoRun)
  /\ UNCHANGED <<slots, fences, alarm, held, stopping, tgt, waiting, evictions>>

-----------------------------------------------------------------------------
(* run(): a caller that waits for its run to settle                         *)

\* run() past its admission, which chained a pump for the run.
CallRun(s, r) ==
  /\ pc[s] = "idle"
  /\ \E i \in DOMAIN drive : drive[i] = r
  /\ want' = [want EXCEPT ![s] = r]
  /\ Goto(s, "loop")
  /\ UNCHANGED <<slots, fences, alarm, held, driver, stopping, tgt, cont,
                 attempts, queuedWaiters, evictions>>

\* One pass of run()'s loop.
CallerLooks(s) ==
  LET r == want[s]
      undriven == drive = <<>> /\ activity = NoStrand
      deferred == driveError # NoRun /\ InPhase(r, "executing")
  IN
  /\ pc[s] = "loop"
  /\ \/ /\ ~Running(r)
        /\ CallerLeaves(s, "idle")
        /\ UNCHANGED driveError
     \/ /\ deferred
        /\ CallerLeaves(s, "idle")
        /\ driveError' = NoRun
     \/ /\ InPhase(r, "queued") /\ undriven
        /\ queuedWaiters' = queuedWaiters \cup {r}
        /\ Goto(s, "attempt")
        /\ UNCHANGED <<driveError, want, cont, attempts>>
     \/ /\ InPhase(r, "parked") /\ undriven
        /\ Goto(s, "recover")
        /\ UNCHANGED <<driveError, waiting>>
     \/ /\ Running(r) /\ ~deferred
        /\ run[r].phase \in {"queued", "parked"} => ~undriven
        /\ Goto(s, "watch")
        /\ UNCHANGED <<driveError, waiting>>
  /\ UNCHANGED <<slots, fences, alarm, held, drive, stopping, tgt, evictions>>

\* runQueuedRun tries MAX_QUEUED_RUN_START_ATTEMPTS times.
TriesOnceMore(s) == attempts[s] > MaxAttempts
OutOfAttempts(s) == attempts[s] = MaxAttempts

\* One attempt of runQueuedRun, once no activity is executing.
CallerAttempts(s) ==
  LET r == want[s]
  IN
  /\ pc[s] = "attempt"
  /\ activity = NoStrand
  /\ \/ /\ OutOfAttempts(s)
        /\ CallerLeaves(s, "could not start")
        /\ UNCHANGED tgt
     \/ /\ ~OutOfAttempts(s)
        /\ run[r].status \in {"completed", "cancelled"}
        /\ CallerLeaves(s, "idle")
        /\ UNCHANGED tgt
     \/ /\ ~OutOfAttempts(s)
        /\ run[r].status \notin {"completed", "cancelled"}
        /\ tgt' = [tgt EXCEPT ![s] = r]
        /\ cont' = [cont EXCEPT ![s] = "mine"]
        /\ Goto(s, "promote")
        /\ UNCHANGED <<want, attempts, queuedWaiters>>
  /\ UNCHANGED <<slots, fences, alarm, held, driver, stopping, evictions>>

\* Recovery, or the caller's own Turn, returned or threw.  A caller whose
\* Turn parked calls run() again, whose admission is a replay.
CallerReturns(s) ==
  LET r == want[s]
  IN
  /\ pc[s] \in {"return", "threw"}
  /\ \/ /\ cont[s] = "attempt"
        /\ Goto(s, "attempt")
        /\ UNCHANGED <<waiting, drive>>
     \/ /\ cont[s] = "loop"
        /\ Goto(s, IF pc[s] = "return" \/ ~Running(r) THEN "loop" ELSE "watch")
        /\ UNCHANGED <<waiting, drive>>
     \/ /\ cont[s] = "mine"
        /\ pc[s] = "threw" \/ ~Running(r)
        /\ CallerLeaves(s, "idle")
        /\ UNCHANGED drive
     \/ /\ cont[s] = "mine"
        /\ pc[s] = "return" /\ Running(r)
        /\ Goto(s, "loop")
        /\ cont' = [cont EXCEPT ![s] = "loop"]
        /\ attempts' = [attempts EXCEPT ![s] = 0]
        /\ queuedWaiters' = queuedWaiters \ {r}
        /\ drive' = Append(drive, r)
        /\ UNCHANGED want
  /\ UNCHANGED <<slots, fences, alarm, held, driveError, stopping, tgt, evictions>>

\* run() threw "could not start".
CallerGaveUp(s) ==
  /\ pc[s] = "could not start"
  /\ Goto(s, "idle")
  /\ UNCHANGED <<slots, fences, alarm, held, driver, stopping, tgt, waiting,
                 evictions>>

-----------------------------------------------------------------------------

Init ==
  /\ run = [r \in Runs |-> NoRecord]
  /\ active = NoRun /\ parked = NoRun
  /\ pendingUser = {} /\ pendingAgent = {}
  /\ fences = <<>>
  /\ alarm = FALSE
  /\ executing = NoRun /\ activity = NoStrand
  /\ drive = <<>> /\ driveError = NoRun
  /\ queuedWaiters = {} /\ stopping = {}
  /\ pc = [s \in Strands |-> "idle"]
  /\ tgt = [s \in Strands |-> NoRun]
  /\ want = [s \in Strands |-> NoRun]
  /\ cont = [s \in Strands |-> "loop"]
  /\ attempts = [s \in Strands |-> 0]
  /\ evictions = 0

Command(r) ==
  \/ AcceptRun(r)
  \/ ReplayAdmission(r) \/ FenceRunAdmission(r) \/ RecordUnadmittedFailure(r)
  \/ StopRun(r)

\* What a strand does on its own, inside recovery and around a Turn.
Recovery(s) ==
  \/ ReadActive(s) \/ ReadQueue(s) \/ RecoverActiveRun(s)
  \/ PromoteQueuedRun(s) \/ ExecutePromoted(s) \/ UnparkRun(s) \/ StartRun(s)
  \/ CompleteRun(s) \/ FailRun(s) \/ ParkRun(s) \/ DeferRunRecovery(s)
  \/ Finish(s)

Turn(s) ==
  \/ JournalIntent(s) \/ AdmitRunEffect(s) \/ JournalOutcome(s)
  \/ EndTurn(s) \/ LeaveTurnOpen(s)

Caller(s) ==
  CallerLooks(s) \/ CallerAttempts(s) \/ CallerReturns(s) \/ CallerGaveUp(s)

Next ==
  \/ \E r \in Runs : Command(r) \/ SettleStoppedParkedRun(r)
  \/ Evict
  \/ \E s \in Strands : Recovery(s) \/ Turn(s)
  \/ AlarmFires \/ AlarmChecks \/ AlarmReturns
  \/ DrivePumps \/ DriveReturns
  \/ \E s \in Callers : Caller(s) \/ \E r \in Awaited : CallRun(s, r)

Spec == Init /\ [][Next]_vars

\* The platform delivers an armed alarm and goes on with a resolved await; a
\* Turn that is taken up again and again ends once, because the provider
\* outcome it waits for is committed or the deadline of the Turn passes.
\* Nothing is assumed of the callers, of Stop or of eviction.
Fairness ==
  /\ WF_vars(AlarmFires) /\ WF_vars(AlarmChecks) /\ WF_vars(AlarmReturns)
  /\ WF_vars(DrivePumps) /\ WF_vars(DriveReturns)
  /\ \A r \in Runs : WF_vars(SettleStoppedParkedRun(r))
  /\ \A s \in Strands : WF_vars(Recovery(s)) /\ SF_vars(EndTurn(s))
  /\ \A s \in Callers : WF_vars(Caller(s))

FairSpec == Spec /\ Fairness

-----------------------------------------------------------------------------
(* Properties                                                               *)

RunRecords == [status : Statuses, phase : Phases, stop : BOOLEAN, log : Journals]

\* The types of the durable records and of the object's memory.
TypeOK ==
  /\ run \in [Runs -> RunRecords]
  /\ active \in Runs \cup {NoRun} /\ parked \in Runs \cup {NoRun}
  /\ pendingUser \subseteq Runs /\ pendingAgent \subseteq Runs
  /\ fences \in Seq(Runs)
  /\ alarm \in BOOLEAN
  /\ executing \in Runs \cup {NoRun}
  /\ activity \in Strands \cup {NoStrand}
  /\ drive \in Seq(Runs) /\ driveError \in Runs \cup {NoRun}
  /\ queuedWaiters \subseteq Runs /\ stopping \subseteq Runs
  /\ pc \in [Strands -> Places]
  /\ tgt \in [Strands -> Runs \cup {NoRun}]
  /\ want \in [Strands -> Runs \cup {NoRun}]
  /\ cont \in [Strands -> {"loop", "attempt", "mine"}]
  /\ attempts \in [Strands -> 0 .. MaxAttempts]
  /\ evictions \in 0 .. MaxEvictions

\* The active slot names exactly the run whose record says it is at work: no
\* run is orphaned outside the slot, where neither recovery nor a queue would
\* find it, and the slot never names a run recovery would skip for ever
\* (recoverActiveRun leaves ACTIVE_RUN_KEY alone when its run is not running).
ActiveSlot ==
  \A r \in Runs : active = r <=> (Running(r) /\ run[r].phase \in {"admitted", "executing"})

\* A parked run keeps its claim to resume: parkRun never overwrites another
\* run's PARKED_RUN_KEY, and a settlement gives the key up.
ParkedSlot == \A r \in Runs : parked = r <=> InPhase(r, "parked")

\* Every waiting run is in the queue of its lane and no queue holds a dead
\* entry, behind which every later Turn would wait.
QueuesHoldWaitingRuns ==
  \A r \in Runs :
    /\ r \in pendingUser <=> InPhase(r, "queued") /\ LaneOf[r] = "user"
    /\ r \in pendingAgent <=> InPhase(r, "queued") /\ LaneOf[r] = "agent"
    /\ InPhase(r, "queued") => LaneOf[r] # "background"

\* However the alarm, the drive and the callers interleave, at most one of
\* them runs a Turn, and the object knows which: executingRunId is what makes
\* recovery and the alarm leave that Turn alone.
OneTurnAtATime ==
  \A s \in Strands : pc[s] \in Executing =>
    /\ tgt[s] = active /\ tgt[s] = executing
    /\ \A o \in Strands \ {s} : pc[o] \notin Executing

\* Work the object owes always has the alarm, or the alarm handler that will
\* arm it again, behind it: nothing admitted depends on a caller coming back.
OwedWorkHasAlarm == Owed => alarm \/ pc["alarm"] # "idle"

\* A fenced command never became a Turn: its id carries at most the record of
\* the refusal.
FencedNeverRan ==
  \A i \in DOMAIN fences : run[fences[i]].status \in {"none", "failed"}

\* A settled run keeps its status, and a run with a durable Stop settles only
\* as cancelled, whichever of recovery, its own Turn or stopRun settles it.
SettlementIsFinal ==
  [][\A r \in Runs :
       /\ Terminal(r) => run'[r].status = run[r].status
       /\ Running(r) /\ run[r].stop => run'[r].status \in {"running", "cancelled"}]_vars

\* A person's waiting message is next: while one waits, the slot passes only
\* to a person's message that is not behind it, never to agent work, to the
\* parked run, or to a newer message that found the slot empty.
PersonGoesNext ==
  [][\A u \in pendingUser :
       active' # active /\ active' # NoRun =>
         LaneOf[active'] = "user" /\ active' <= u]_vars

\* No wake-up is lost: a call of run() that sleeps on a settled run has the
\* strand that settled it still on its way to notifySettled.
NoLostWakeup ==
  \A c \in Callers : pc[c] = "watch" /\ ~Running(want[c]) =>
    \E s \in Strands : pc[s] = "finish" /\ tgt[s] = want[c]

\* recoverQueuedRun leaves a run in queuedWaiters to its caller, so a run
\* stays in there only while a call of runQueuedRun is trying to start it.
ReservedForACaller ==
  \A r \in queuedWaiters : \E c \in Callers :
    want[c] = r /\ (pc[c] = "attempt" \/ cont[c] \in {"attempt", "mine"})

\* Every admitted Turn reaches a terminal state, through evictions, deferred
\* recoveries, parking and Stop, with nobody asking for it again.
EveryTurnSettles == \A r \in Runs : Running(r) ~> Terminal(r)

\* A completion-waiting call of run() comes back: no settlement, deferral or
\* end of the drive leaves its waiter asleep.
EveryCallReturns == \A c \in Callers : (pc[c] # "idle") ~> (pc[c] = "idle")

\* The authority implements the promise of TurnSlot: where a Turn is follows
\* from the status and the phase of its record alone.
PlaceOf(record) ==
  CASE record.status = "none" -> "absent"
    [] record.status = "running" /\ record.phase \in {"queued", "parked"} -> "waiting"
    [] record.status = "running" /\ record.phase \in {"admitted", "executing"} -> "working"
    [] OTHER -> "settled"

Slot == INSTANCE TurnSlot WITH Turns <- Runs,
                               place <- [r \in Runs |-> PlaceOf(run[r])]
ImplementsTurnSlot == Slot!Spec

=============================================================================
