# FrockBot: TLA+ models, model checks and proofs

FrockBot runs a person's Bots. Each Bot is a Cloudflare Durable Object that
admits commands (messages, routines, agent work), runs them one at a time as
*Turns* of an agent loop, and must finish every Turn it admitted although the
platform may throw the object's memory away at any moment. This directory
models the part of the code that carries that promise; the path by which what a
Turn did reaches a person's screen (the publication outbox, the state channel
and its client); the scheduler that fires a Bot's Routines from the same alarm;
and the queue of what a Bot is owed between its Turns, with the approvals,
presses, hand-offs and delivery Turns around it. TLC checks the models on small
instances, and TLAPS proves their main safety properties for every number of
runs, callers, drains, clients, Routines and evictions.

Paths below are relative to the repository root.

## 1. The system

Five Durable Object classes live in `apps/cloudflare/src`: `BotState`,
`UserConfiguration`, `DeploymentPolicy`, `VoiceAssistant`, `GroupChat`. They are
shells: the durable logic is in `core/durable` (Turn authority, run records,
session event log, publication, compositions), `core/agent-loop` (one Turn) and
the packages of `app/` (shell, routines, approvals, subagents, groups, memory,
billing, voice, ...). `computer/` and `core/machine-protocol` talk to remote
machines, `providers/` to model vendors, `apps/native` and the web apps to people.

| Component | State it keeps | Operations | Talks to | What is hard | What makes it correct |
|---|---|---|---|---|---|
| Turn authority (`core/durable/authority.ts`) | run records, `ACTIVE_RUN_KEY`, `PARKED_RUN_KEY`, two pending queues, admission fences, the object's alarm; in memory `executingRunId`, `executingActivity`, the `drive` chain, `driveError`, `queuedWaiters` | admit, replay, fence, run, stop, alarm, promote, park, unpark, recover, settle | shell (executes a Turn), run-terminal (settles), platform (alarm, eviction) | every await is an interleaving point; three kinds of strand drive the same runs; memory is lost at any await | slots and queues exact; one Turn at a time; settlement final; owed work always has an alarm; every Turn settles; every waiting call returns |
| Settlement (`run-terminal.ts`) and recovery plan (`run-recovery.ts`) | none of their own; write inside the authority's transactions | complete, cancel, fail; plan: complete, fail, restart, resume | authority, session log | Stop racing completion | a durable Stop wins; a settled run never changes |
| Run records (`run-records.ts`) | the encoding of a run | encode, decode, project | all of the above | stored records hold a range into the log, not events | what is read is what was decided on |
| Session event log (`session-event-log.ts`) | pages of events per session, head | append, read range, truncate suffix, quiet append | authority, memory | suffix commits over what a crash left | log is gapless; a run's range is covered |
| Publication outbox (`publication.ts`) | conversation rows, updates by cursor, pending markers, a head (`lastCursor`, `firstRetainedCursor`, `broadcastThrough`), the visible index | commit in the transaction of the change, drain, trim the replay window, replay | authority (commits, alarm), state channel (delivery) | nothing serialises two drains; a drain awaits between listing, reading and deleting | what is owed stays replayable; a broadcast is exact; no socket is passed over |
| State channel (`apps/cloudflare/src/bot-state-channel.ts`, `app/shell/conversation-*.ts`) | per socket an attachment with `lastSent`, which survives hibernation | handshake (replay or snapshot), broadcast, look notices | outbox, client | a handshake beside drains and commits | each socket carries one contiguous stream |
| Client (`frockbot_client`: `state_channel.dart`, `chat_controller.dart`) | accepted cursor, pending frames, the page and the cursor it is kept with | dial, accept, batch, apply, reconnect | state channel | an old batch is applied while the next socket replays | the page is right for its cursor, which never goes back |
| Composition store and activation (`composition-store.ts`, `composition/`) | generations, current pointer, quarantine | propose, activate, adopt, fall back | authority (pins a generation) | activation fails half way | a Turn mounts its pin or the last known good |
| Agent loop (`core/agent-loop`) | the Turn's journal | model request, tool calls, retries, resume | authority (`persistRunEvents`, `admitRunEffect`) | an effect sent before the crash | each effect is journaled before it is sent and not sent after a Stop |
| Shell (`app/shell`) | panels, input deliveries | `stopRun`, `admitRunEffect`, `settleBotTurn` | authority, agent loop | Stop between two transactions | a stopped Turn sends no new effect |
| Routines scheduler (`app/routines/scheduler.ts`, `store.ts`, `bot.ts`) | per Routine a record, a clock (due, hold, failures), a lock with a lease, a queue, a run log; receipts; the object's alarm | create, pause, resume, update, delete, run, deliver a hook, move the zone; reap, claim, execute, settle | authority (one alarm, background Turns), Plugins and webhooks | commit and re-arming are two transactions; a firing outlives its wait; an eviction between claim and settlement; a deletion in flight | the log is true to the locks; an ask fires once; a debt is never skipped; the object is never silent |
| Pending inputs (`app/routines/inbox-store.ts`, `app/shell/input-delivery.ts`) | the queue of inputs, a drain receipt per Turn, delivery marks of hand-offs | enqueue, drain, give back, open a delivery Turn | shell, authority, approvals, cards, Routines, subagents | drained and not yet told when the Turn fails, stops or is evicted; an input that rides a Turn which has already drained | what is queued is kept or told, once; somebody comes for it |
| Approvals (`app/approvals`, `app/shell/approvals.ts`) | requests and decisions | ask, decide, expire, dispatch | shell, pending inputs | a decision racing expiry, a second click, a dispatch that fails | the work goes off at most once and only for a yes |
| Subagents (`app/subagents`) | tasks | start, report, cancel | other Bots' authorities | two objects fail separately | a task reports once |
| Groups (`app/groups`) | a group's message log and cursors | post, deliver | Bots | delivery across objects | every member sees one order |
| Memory and compaction (`app/memory`) | facts, compaction state | recall, write, compact | session log | compaction beside a Turn | the log is compacted only when quiet |
| Others (billing, payments, credentials, secrets, email, voice, machines, providers, user interfaces) | configuration rows, external sessions | configuration and I/O | external services | external failure | not modelled, see section 9 |

`PROJECT.json` lists the components with their status, and every hazard met in
the code with the properties that guard against it.

## 2. Modules

| Module | What it is |
|---|---|
| `BotAuthority` | the Turn authority of one Bot: state, one action per operation, fairness, properties |
| `TurnSlot` | the abstract promise: a Turn is absent, waiting, working or settled; one works at a time; nothing admitted disappears; nothing settled moves |
| `BotAuthorityInvariant` | the inductive invariant: `TypeInv` and `SlotInv` |
| `MCBotAuthority` | finite instances for TLC |
| `BotAuthorityTypes` | proof that `TypeInv` is inductive |
| `BotAuthoritySlots` | proof that `SlotInv` is inductive; slots, queues and one Turn at a time |
| `BotAuthorityPromise` | settlement is final, fences hold, people go next, `TurnSlot` is implemented, owed work has an alarm; a waiting call is woken and a reservation has its caller |
| `Picks` | filters of sequences, which `StateChannel` and `PendingInputs` are written with |
| `PicksProofs` | what a filter keeps, and the lemmas other recursive functions are reasoned about with |
| `Outbox` | committed publication: the log, the markers, drains, the replay window, sockets and their `lastSent` |
| `StateChannel` | extends `Outbox` with the Turns that publish, the frames on each socket, and the clients |
| `MCOutbox`, `MCStateChannel` | finite instances for TLC |
| `OutboxProofs` | the outbox's inductive invariant and what follows from it |
| `StateChannelProofs` | the channel implements the outbox; no client is sent a frame it would refuse; a page shows settled Turns whole and never goes back |
| `Routines` | the scheduler of one Bot on the object's alarm: clocks, locks, queues, the alarm pass, commands and deliveries |
| `PendingInputs` | the queue of inputs, its producers, the Turns that drain it, approvals and their dispatch |
| `MCRoutines`, `MCPendingInputs` | finite instances for TLC |
| `RoutinesProofs` | the scheduler's inductive invariant and what follows from it |
| `PendingInputsProofs` | approved work goes off at most once, for a yes; what is queued is kept or told, once; a delivery has something to say; somebody comes |

`Outbox` stands on its own and is the abstract specification of what the channel
uses; `StateChannel` composes it with publishers and clients, and is proved to
implement it. `BotAuthority` leaves publication out, as nothing the authority
decides depends on it. `Routines` and `PendingInputs` are clients of the authority
and keep what they can see of it: the slots, who executes, and how a Turn ends.

### State of `BotAuthority`

`run[r]` is a run record: `status` (`"none"` before admission), `phase`, `stop`
(`stopRequestedAt`) and `log`, which is all that recovery can tell apart in the
run's journal and effect admissions: nothing external was asked for (`quiet`),
an effect is journaled (`intent`), admitted (`sent`) or refused because of a
Stop (`fenced`), answered (`outcome`), the Turn ended well (`ended`) or badly
(`broken`). `active`, `parked`, `pendingUser`, `pendingAgent`, `fences` and
`alarm` are the storage keys of the same names. Run ids are numbers whose order
is the order of the pending keys `(acceptedAt, runId)`.

The remaining variables are memory of the object. A *strand* is a chain of
awaits: `"alarm"` (the handler), `"drive"` (the promise `scheduleDrive` chains)
and one per completion-waiting call of `run()`. `pc[s]` says where a strand
stands, `tgt[s]` which run it has in its hands, `cont[s]` where it goes on when
recovery returns, `want[s]` and `attempts[s]` belong to a call of `run()`.

### Steps

A `storage.transaction` is one step, together with the synchronous code after it
up to the next await. Reads made outside a transaction belong to the step that
makes them, so what they saw may be stale when the transaction they lead to is
served: `ReadActive` / `RecoverActiveRun` and `ReadQueue` / `PromoteQueuedRun` /
`UnparkRun` are separate steps for that reason. Transactions are served in the
order they were requested; a Turn needs a new one for every step, so it does
not advance while another strand has one queued (`TurnMayStep`). Commands from
outside are not held back. The real handler order is kept inside each action:
a refresh of the alarm, a pruned queue, the wake-up of waiters are part of it.

Reads that follow a transaction are a step of their own. `recoverQueuedRun`
commits a promotion and then awaits `readRun`, which may also throw, before the
run is marked executing: between `PromoteQueuedRun` and `ExecutePromoted` the
strand stands at `"promoted"`, the slot is taken and `executingRunId` is not set.
Commands, Stops, callers, evictions and the reads of other strands may all fall
in between; a call of `runQueuedRun`, which promotes its own run, has no such
await. One thing may not: the recovery transaction of a strand that read the
promoted run as the active one (`ReadsAreAnswered`). It read the active key
after the promotion, at a time when the promoted strand had nothing left to wait
for but plain reads, and it reads the identity before it asks for its
transaction. The object's storage is SQLite (`new_sqlite_classes` in
`apps/cloudflare/wrangler.jsonc`), which answers a plain read at once, before it
begins a transaction that is asked for later. This is an assumption about the
platform, and the only one the model makes about reads; section 4 says what
depends on it.

Eviction (`Evict`) may happen between any two steps: storage survives, memory
does not, and the platform delivers again an alarm whose handler was cut off.

### State and steps of `Outbox` and `StateChannel`

`log` is the whole history of updates by cursor; `stored` are the cursors whose
update is still in storage, `pending` those with a marker, `first`, `through`
and `Len(log)` the head. Revisions of an entity grow with its cursors, so
`row[e]` is the cursor a conversation row was last written at, and a payload is
the cursor of the update it was committed with: a frame is exact when the two
are equal. A drain is four kinds of step, for the awaits of
`drainPendingPublicationV1`: list a page of markers, read one update, deliver
(synchronous, over all sockets), commit. `Drainers` are the strands that drain
after a commit of their own; the alarm is one more.

In `StateChannel` a frame is its type, its cursor and its payload. `wire[o]` is
what is on a socket, `cursor[o]` the last frame the client accepted, `queue` and
`batch` what it accepted and has not applied, `applied` the cursor its page is
kept with, `view` its runs. A snapshot is named by its cursor: `RowAt` and
`VisibleAt` compute what it shows from the history.

### State and steps of `Routines`

One entry per Routine stands for its record (`rec`), its clock (`due`, `held`,
`fails`, and `kept`, which says whether the stored clock is as new as the record),
the lock of its unsettled firing (`lock`, `lease`), its queue and the newest row
of its run log. Moments are relative: everything the code stores as a time is
how far ahead it is, and `Tick` takes one off all of them, which keeps the state
space finite without a bound on time. No step is tied to a tick, so any step may
be arbitrarily slow.

The alarm pass (`pc`) goes through deferring to a busy object, the queued Turn,
reaping, claiming and executing up to a batch of firings, the rest of the
scheduled work and recovery, with a step per transaction. `phase` is the executor
of the firing the pass waits on: asking for a Turn, in it, notifying, done. The
wait may end first (`FiringTimesOut`); the executor is then `abandoned` and may
still be admitted. Calls commit and re-arm the alarm in two steps (`call`), and
an eviction may come in between.

### State and steps of `PendingInputs`

The input names the delivery Turn that is opened for it, as its run id does in
the code. `queue` is the durable queue, `receipt[t]` what Turn `t` drained,
`journal[t]` how far its model call is, `carried[t]` the inputs in the message its
log records. `step` is where the active Turn stands between mounting, draining
(`TurnInput`), fixing its message (`SendTurn`) and the model call (`ModelCalled`);
`resumed` says it was taken up from its log. `call[i]` is where a decision or a
press stands after its commit: it dispatches, looks whether a delivery waits, and
opens one. `judging` and `opening` are the hand-offs an alarm pass has in its
hands. `owed`, `forgiven`, `astray` and `waived` are history, for the properties.

### Constants

| Constant | Code | Values checked |
|---|---|---|
| `Runs`, `LaneOf` | run ids and the lane of their command | 2 or 3 runs |
| `Callers`, `Awaited` | calls of `run()` and what they wait for | none or one |
| `MaxPendingUsers` | 32 | 2 in `parking`, so that messages wait together; 1 elsewhere |
| `MaxPendingAgents` | 32 | 1 |
| `MaxFences` | 256 | 1: entries age out |
| `MaxAttempts` | 8 | 2 |
| `MaxDrive` | bound on pumps queued by replays | 0 or 1 |
| `MaxEvictions` | bound on evictions | 0 to 2 |
| `ReplayMaxEvents`, `ReplayMaxBytes` | 64 events, 1 MiB | 1 or 2 updates, 3 units of bytes: both limits bind |
| `Batch` | 8 | 1 or 2: a drain leaves markers behind |
| `VisibleLimit` | 32 | 1 |
| `MaxLog`, `MaxSends`, `MaxLooks`, `MaxDrops` | bounds on commits, sends, looks and lost connections | 3 or 4, 1, 0 or 1, 0 to 2 |
| `Period`, `Deferral`, `Recovery`, `Timeout`, `Lease`, `Backoff` | schedule, 15 s, recovery delay, 5 min, lease, growing backoff | 1, 1, 1, 1, 2 and 1, 2: only their order is kept |
| `PauseAfter`, `Routines!Batch`, `QueueLimit` | failures to self-pausing, firings per pass, queued firings | 2, 2, 1: each is reached |
| `MaxChats`, `MaxEdits` | bounds on messages, and on commands after the creation | 0 or 1 each |
| `PressLimit`, `InputLimit`, `ReceiptLimit` | bounds of the queue, of a drain, of the receipts | 1, 1 or 2, 1: each binds |
| `MaxFaults` | bound on evictions, Stops, failures and repeated posts together | 2 |

Three runs are enough for one Turn to be parked, one at work and one waiting,
the richest situation the slots allow; two are enough where the question is
about strands. In `parking` both messages may be queued behind the agent Turn, in
either order of their arrival, so the order among waiting messages arises; no
lane has more commands there than its queue has room. Fences only ever refuse a command; the constraint `NoFencesOneStop`
of `parking` leaves the states behind a fence, and those with a second Stop, out
of a run that does not ask about them.

For the outbox, a window of one or two updates and three commits are enough for
an update to be trimmed while a drain that listed it has yet to read it, and for
a client that lost its connection to fall out of the window; two Turns are
needed for a snapshot that does not show every run. Two lost connections let a
batch of one socket be applied while the next socket replays part of it, and the
one after that too: what each of them accepted may still be on its way to the
page. Taking the queue and applying its first frame is one step, as in `_flush`,
which has no await between them. Were they two, a client could dial in between
from the older cursor of its page, and the page would go back.

For the scheduler, one Routine is enough for every interleaving of the pass, the
calls and an eviction; a second one, whose schedule has no occurrence left, makes
the batch and the order of claims matter. For the pending inputs, one input of
each kind, two messages and two faults let a Turn drain, be cut off, be taken up
and be cut off again while the next input arrives.

## 3. Runs that pass

| Run | Instance | Checks |
|---|---|---|
| `parking` | an agent Turn, two messages that may wait together, at most one Stop, no eviction | `ActiveSlot`, `ParkedSlot`, `QueuesHoldWaitingRuns`, `SettlementIsFinal`, `PersonGoesNext` |
| `evictions` | a background Turn, a message, replays, fences, two evictions, under fairness | `SlotInv`, `OneTurnAtATime`, `OwedWorkHasAlarm`, `FencedNeverRan`, `ImplementsTurnSlot`, `EveryTurnSettles` |
| `calls_return` | an agent Turn that a caller awaits and that queues or parks, a message, no eviction, under fairness | `TypeOK`, `NoLostWakeup`, `ReservedForACaller`, `EveryCallReturns` |
| `outbox` | updates of two sizes alone or together, two drains, a socket, an eviction | `WindowHoldsWhatIsOwed`, `BroadcastIsExact`, `NoSocketLeftBehind`, `OutboxInv` |
| `channel` | a Turn with a send, a look, an eviction, two lost connections, under fairness | `StreamHasNoGap`, `ShowsSettledTurns`, `NeverGoesBack`, `EveryClientCatchesUp` |
| `old_client` | two Turns, a client that is not sent looks and refuses the frame after one | `ShowsSettledTurns` |
| `routines` | two schedules, one without an occurrence left, a hook delivered again and again, an edit, a deletion or a zone move, an eviction | `TypeOK`, `RunLogIsTrue`, `NothingOutlivesTheRecord`, `AskFiresOnce` |
| `routines_live` | a schedule that is also run by hand, a message, an eviction, under fairness | `NeverSilent`, `DebtIsKept`, `LiveFiringSettles`, `KeepsFiring`, `AskIsClaimed` |
| `inputs` | an approval, a hand-off, a subagent's report, two messages, two faults | `TypeOK`, `LostOnlyAstray`, `ToldOnce`, `DeliversSomething`, `DispatchFollowsTheDecision` |
| `presses` | two presses at the bound of the queue, a message, two faults, under fairness | `SomebodyComes`, `AnswerIsCarried` |

Deadlock is checked in the runs of `Routines`, where time always goes on. In the
others it is not: an object that has settled everything it admitted, published
it and receives no command rightly does nothing.

`PersonGoesNext` is an ordering property: while a person's message waits, the
slot passes only to a message not behind it, never to agent work, the parked
run or a newer message that happened to find the slot empty. `NoLostWakeup` and
`ReservedForACaller` are about the two ways a caller can be forgotten: sleeping
on a settled run nobody will announce, and a reservation in `queuedWaiters`
that outlives the call and makes recovery skip the run for ever.

`StreamHasNoGap` is the contract between the two ends of a socket: the server
decides by `lastSent` what to send, the client by its own cursor what to accept,
and they never disagree. `ShowsSettledTurns` compares the page of a client with
the history at the cursor the page was kept with: the page may have come from a
snapshot, a replay, a broadcast or any mixture, with a batch of an earlier
socket applied in between. It claims the messages of settled Turns only; section
4 says why.

`NeverSilent`, `KeepsFiring` and `AskIsClaimed` say that a Routine depends on
nobody: the alarm is armed for whatever can be done next. Their exception is a
call that died between its commit and its re-arming of the alarm (`call = "lost"`);
`AskIsClaimed` has one more, a lock that nothing watches, which section 4 is
about. `DebtIsKept` is about deferral: a busy object pushes every clock off and
must not push an occurrence out of the schedule.

`LostOnlyAstray` follows an input from the transaction that queued it to the
model: in every state it is queued, in the receipt of a Turn under way, told, or
given up where the code says so (a press displaced at the bound, a hand-off the
judge dismissed). The one hole it allows is named and shown in section 4.
`SomebodyComes` is the safety half of `AnswerIsCarried`: an input that opens no Turn
of its own, because a delivery was seen waiting, can rely on that delivery.

## 4. Runs that find a disagreement

Each states what a comment or a test of the repository says; TLC finds a
behaviour of the code that does not do it.

* `firing_never_settles`: "The lease is what makes an abandoned firing a deadline
  rather than a silence" (`app/routines/storage-keys.ts:82`). `deadlines()` looks at
  the locks of Routines with a live clock only, so a firing of a webhook, event
  or manual Routine that outlives its pass is nobody's deadline. Unless something
  else arms the alarm its lock stays, its row says running, and each later
  delivery is accepted and waits behind it.
* `input_lost`: "a Turn that cannot be admitted costs the immediate reply and never
  the input" (`app/shell/input-delivery.ts:42`), and on a Stop "what it drained goes
  back on the queue" (`app/shell/turn.ts:253`). A delivery Turn that is stopped
  before it drained drains all the same; its model call is refused, and settling
  it as cancelled gives nothing back. A resumed Turn whose first drain was empty
  has no receipt, drains again, and cannot put what it drained into the message
  that is already in its log.

More places where the code and its words part, met while modelling and kept
without a run of their own. In the authority and the channel:

* `run()` "waits until that run is terminal". A Turn resumed after an eviction sets
  `executingRunId` but is nobody's `executingActivity` (`executeResumedRun`). A caller
  behind it cannot wait for it, and the eight attempts of `runQueuedRun` are spent
  in no time: the call throws "could not start" for a healthy queued run, which
  still settles (`EveryTurnSettles`).
* A queued run is started "exactly once — the promotion is a transaction"
  (`authority.ts:2553`). The transaction alone does not give that: until the read
  after it is answered, the run is active and not executing, and that is all
  `recoverActiveRun` looks at. Without `ReadsAreAnswered` TLC finds, in `evictions`
  and in `parking`, a second strand that restarts the run in that window, and two
  strands in its Turn. What holds is that the storage answers a read before it
  begins a later transaction. If the read throws, the run stays active with the
  alarm behind it, and recovery restarts it.
* A Stop of a parked run is settled "now rather than when its turn to resume
  comes". A Stop both of whose transactions come before `parkRun`'s finds the run
  executing; the run then parks with its Stop and waits behind people's messages.
* A Stop after `turn/end` is expected to be refused as "already terminal". `stopRun`
  looks for `turn/end` in a stored record, whose events live in the session log:
  the finished answer settles as cancelled.
* A snapshot is read "so the cursor names this exact projection", from the run
  rows. A send of a running Turn publishes its message without rewriting the row,
  so a page opened in the middle of a Turn lacks messages committed at or before
  its cursor, until the run's next status.
* "Wait for this run only" (`authority.ts:458`), but `driveError` does not say whose
  deferral it is, and the next call whose Turn is being executed throws it
  (`CallerLooks`).
* A look update is withheld from a socket below protocol 4, whose "cursor moves
  past it unsent" (`core/protocol-schemas/README.md`). Only the object's `lastSent`
  does. A client with the continuity check of `state_channel.dart` refuses the next
  frame, dials again from before the look and is replayed the same hole, for as
  long as the look is in the replay window. The model gives an older client that
  check; what an installed older version does is not in the repository.

In the scheduler:

* `defer()` overwrites the hold of a failure's backoff with 15 seconds, so a busy
  object shortens a backoff.
* The settle loop looks once whether the object is occupied; a later firing of
  the batch that finds it occupied is refused "busy" and counted as a failure.
* A firing whose wait timed out ignores the abort and may still be admitted: its
  Turn runs (`stray`) beside a row that says failed. `runOneFiring` also reports
  failed whenever `run()` throws, though the Turn may go on.
* A firing that is reaped after an eviction posts no failure message.
* A move of the zone recomputes the clocks and drops an overdue, deferred debt.
* A full queue throws; nothing is recorded as skipped.
* A Routine without a schedule has no clock: its failures are not counted and it
  never pauses itself.

In the pending inputs:

* A press that its client posts again after it was drained is queued again, and
  the Bot is told twice (`ToldOnce` excepts presses).
* A Stop gives an older press back behind a newer one; at the bound the newer one
  is then the one displaced.
* An eviction between the commit of a decision and its dispatch leaves approved
  work that is never sent. An expiry opens no Turn.

## 5. Fairness

`FairSpec` assumes weak fairness of the alarm's delivery and handler, of the
drive, of recovery steps, of a stop call's second transaction and of a caller's
own steps: the platform delivers an armed alarm and continues a resolved await.
It assumes strong fairness of `EndTurn` per strand: a Turn that is taken up
again and again ends once, because a provider's outcome is committed or the
Turn's deadline passes (`core/agent-loop`). Nothing is assumed of clients,
Stops or evictions; evictions are bounded, as without a bound the object could
be evicted before every step.

`FairSpec` of `StateChannel` assumes weak fairness of the alarm, of every step of
a drain once it has begun, and of a client's own steps, with dialling again:
`_failed` arms a timer for it. Nothing is assumed of commits or of the drains
that follow them: the alarm alone must bring every commit to the clients. Lost
connections and evictions are bounded for the reason above.

`FairSpec` of `Routines` assumes weak fairness of time, of the alarm pass, of the
executor it waits on and of a call's second transaction, and strong fairness of
the end of a Turn, as above. Nothing is assumed of abandoned executors, people,
commands or evictions.

`FairSpec` of `PendingInputs` assumes weak fairness of the steps of the active Turn
with promotion and recovery, of a call that has committed (each input's own), and
of a dispatch. Nothing is assumed of people, of the alarm pass that carries
hand-offs, or of faults.

## 6. What is proved

For all `Runs` (numbers), `Callers`, lanes and bounds that satisfy the named
assumptions of `BotAuthority`:

| Theorem | States |
|---|---|
| `TypeCorrect` | `Spec => []TypeOK` |
| `ActiveSlotExact`, `ParkedSlotExact`, `QueuesExact` | the two slots and the two queues are exact |
| `SlotsExact` | `Spec => []SlotInv` |
| `OneTurn` | `Spec => []OneTurnAtATime` |
| `SettledForGood` | `Spec => SettlementIsFinal` |
| `AuthorityImplementsTurnSlot` | `Spec => ImplementsTurnSlot` |
| `AlarmBehindOwedWork` | `Spec => []OwedWorkHasAlarm` |
| `FenceHolds` | `Spec => []FencedNeverRan` |
| `PersonIsNext` | `Spec => PersonGoesNext` |
| `WakeupNeverLost` | `Spec => []NoLostWakeup` |
| `ReservationsHaveCallers` | `Spec => []ReservedForACaller` |

and, for any entities, contributions, observers, strands and limits that satisfy
the assumptions of `Outbox` and `StateChannel`:

| Theorem | States |
|---|---|
| `OutboxInvariant` | `OutboxSpec => []OutboxInv` |
| `WindowWhole` | `OutboxSpec => []WindowHoldsWhatIsOwed` |
| `SocketsKeepUp` | `OutboxSpec => []NoSocketLeftBehind` |
| `BroadcastExact` | `OutboxSpec => []BroadcastIsExact` |
| `ChannelImplementsOutbox` | `Spec => OutboxSpec` of the channel |
| `NoGapEver` | `Spec => []StreamHasNoGap` |
| `PageInvariant` | `Spec => []PageInv` |
| `SettledTurnsShown` | `Spec => []ShowsSettledTurns` |
| `PagesNeverGoBack` | `Spec => NeverGoesBack` |

and, for any Routines, asks, delays and limits, and any approvals and inputs, that
satisfy the assumptions of `Routines` and `PendingInputs`:

| Theorem | States |
|---|---|
| `SchedulerInvariant` | `Spec => []SchedulerInv` |
| `RoutineTypes` | `Spec => []TypeOK` of the scheduler |
| `LogIsTrue` | `Spec => []RunLogIsTrue` |
| `DeletionIsFinal` | `Spec => []NothingOutlivesTheRecord` |
| `AsksFireOnce` | `Spec => []AskFiresOnce` |
| `BotIsNeverSilent` | `Spec => []NeverSilent` |
| `DebtsAreKept` | `Spec => DebtIsKept` |
| `DispatchedOnceForAYes` | `Spec => []DispatchFollowsTheDecision` |
| `TypesHold` | `Spec => []TypeOK` of the pending inputs |
| `OnlyAstrayIsLost` | `Spec => []LostOnlyAstray` |
| `BotIsToldOnce` | `Spec => []ToldOnce` |
| `SpeaksOfSomething` | `Spec => []DeliversSomething` |
| `SomebodyIsOnTheWay` | `Spec => []SomebodyComes` |

Every invariant and every action property that a passing run checks is a theorem.

### The authority

`OneTurnAtATime` is not inductive: a strand that enters a Turn does
so on the strength of something it read in an earlier step. `SlotInv` adds what
those readings still mean:

* `HolderIsActive`: a strand in a Turn has the active run, which is also
  `executingRunId`. While it is there the slot is taken, so promotion,
  unparking and immediate admission are impossible, and recovery skips.
* `PromotedIsActive`: a strand that promoted a run and has yet to read it has the
  active run in its hands, and nobody is in a Turn or has promoted another.
* `RecoveryIsCurrent`: the run recovery read is still active or has settled, and
  is not about to be parked. A strand enters `parkRun` only in a Turn step, and
  no Turn steps while a recovery transaction is queued; recovery is queued only
  for a run this object does not execute.
* `UnparkIsCurrent`, `UnwoundIsAside`: between `parkRun`'s commit and the
  `finally` that clears `executingRunId`, the run is parked but still marked as
  executing. Recovery does not take it up then, unless another Turn has taken
  the mark over, in which case the slot is not free and unparking does nothing.
* `ParkIsFree`: a Turn parks only when nothing is parked.
* `FinishedIsSettled`: a strand on its way to `notifySettled` has settled its run,
  so clearing `executingRunId` cannot hit the Turn of somebody else.

Exact queues give that `livePendingHead` never has anything to prune
(`NothingToPrune`). `BotAuthorityPromise` derives the rest from one account of
what a step may write to a run (`Written`): that account gives final settlement,
fences that hold and the simulation of `TurnSlot` alike. `FencedNeverRan` is read as
"the index is a sequence of ids without a Turn" (an id that aged out may be
admitted again, as in the code), which the lemma on
`FencesWithout` keeps for any set of ids. `PersonGoesNext` follows from the three
steps that take the slot (`SlotTakers`).

`NoLostWakeup` is inductive beside the types: whoever settles a run is on its way
to `notifySettled` in the same step, or wakes the watchers itself.
`ReservedForACaller` needs `AttemptsUnderWay`: a call that drives the run ahead of
its own is in recovery, so it is not idle and cannot be replaced by a new call
that wants something else.

TLC checks `SlotInv` in the run `evictions`, and `OutboxInv` below in `outbox`.

### The outbox

The three properties are not inductive, because a drain acts on markers it
listed and updates it read in earlier steps, while others commit, deliver and
trim. `DrainKnows(s)` says what those readings are still worth: every owed
cursor up to the drain's last marker is one of its markers; the updates it took
are in order and miss no owed one; an update is exact if it is still owed. That
last clause is the heart of it: an update may be trimmed under a drain, and then
`reconstructUpdate` may return a payload newer than its cursor, but only once
another drain has moved `broadcastThrough` past it, and then no open socket is
behind it, so nobody is sent the wrong payload. Once a drain delivered, no
socket is behind its last marker, which is what lets its transaction advance
`broadcastThrough`. Trimming never passes `broadcastThrough`, so the window stays
the interval from `first` to the last cursor with all that is owed inside.

### The channel

`ChannelInv` adds to `OutboxInv` that the frames on each open socket of the
current protocol form a chain which starts at the client's cursor and ends at
the socket's `lastSent` (`Streams`), and that a dialling client has presented its
own cursor. A handshake is such a chain from the presented cursor to the head
(`HandshakeChains`); a broadcast appends a chain that starts at `lastSent`
(`BroadcastChains`, from `DrainKnows`); accepting a frame takes one off. An
eviction touches neither end.

`PageInv` goes on from the client's cursor to its page, for observers of either
protocol:

* `RowsSaid` ties the log to the Turns: a row says settled only when the Turn is,
  counts all its messages, and is the Turn's last row.
* `Arrives`: a snapshot comes first on its socket, when the client has nothing
  queued, and is no older than anything the client is still applying.
* `Queued`: the frames accepted are consecutive and continue what is being
  applied. They may overlap it, when a new socket replays from the older cursor
  of the page. `Drawn` says why that is harmless: from the first repeated cursor
  on, the page was drawn update by update, so the entity's revision is already
  there and `applyFrame` passes the repetition over.
* `Page`: at the cursor it is kept with, the page knows the Turns of the visible
  index as their last rows say (`CurrentAt`), and shows a Turn settled only if
  that settlement is among what was applied, with every message (`TruthfulAt`).

A snapshot makes `CurrentAt` true at its own cursor, because `VisibleAt` and `RowAt`
depend on the log up to there only (`OldRowsStay`); an update moves it on by one.
`NeverGoesBack` follows from `Arrives` and `Queued`: whatever is applied next is a
snapshot no older than the page, the next update, or one that leaves the cursor
where it is.

### The scheduler

`SchedulerInv` is `TypeOK`, `RecordInv` (`RunLogIsTrue`, `NothingOutlivesTheRecord` and
`AsksAreOnce`: a waiting ask has its receipt, was not claimed and waits once, under
its own Routine; a claimed one has its receipt unless its Routine was deleted)
and `PassInv` (the pass has only Routines in its hands that were created, and a
firing that is over has an outcome). The receipt is what makes `AskFiresOnce` inductive: a repeated ask is
recognised by it and by nothing else. `NeverSilent` needs that every step which
ends a pass or a call recomputes the alarm from the deadlines, and that whatever
can be done has a deadline (`DebtHasDeadline`).

### Approvals

`DispatchInv` adds to `DispatchFollowsTheDecision` that a call about to dispatch is
the first to: only the transaction that moves a request from pending to approved
leads to a dispatch, and it finds the request pending only once.

### Pending inputs

`RunsInv` is what the others rest on: a lane holds a run once and no run waits in
both; what waits is admitted, has drained nothing and asked nothing, and is not
active; the active Turn is resumed exactly when its journal says a model call was
made. That last clause is how an eviction is survived: what a Turn may still do
is decided by what its log records.

* `LostOnlyAstray` is not inductive, since it says nothing of a Turn that goes on.
  `KeptInv` adds `Tells`: once the model call is journaled, everything in the
  receipt is in the message, or is `astray`. `Holds` leaves out a stopped delivery,
  which has given back what it had.
* `ToldOnce` needs `OwedInv` and `TellInv`: an input other than a press is queued,
  or with the active Turn, or told for good, one at a time (`OneTelling`). A
  producer queues only what was never owed: a decision finds its approval
  undecided, a Turn yields as it completes, a wake is queued once; none of them
  brings back what was told.
* `DeliversSomething` needs `SpeaksInv`: a delivery past its drain has a receipt,
  which a resumed one finds in storage.
* `SomebodyComes` needs `ComesInv`: for an answer or a press whose call is over, the
  Turn on its way is one opened for an answer or a press. A hand-off's delivery
  does not count, as no call sees it and stands back for it.

`Enqueue`, `Requeue`, `RequeueUnseen` and `Retained` enter these proofs by their
lemmas: which inputs they keep, that they keep each once, and what they displace
at the bound. Those lemmas rest on `PicksProofs`. An induction theorem that takes
an operator cannot be used here, but a recursive function is a value: `StepsDefine`
shows by a least counterexample that it obeys its own equation, and the facts
about a filter follow for each length in the same way.

`DistinctAssumption` says that the ids of approvals, presses, hand-offs, tasks,
messages and what a Turn yields do not clash. `pendingBotInputIdV1` gives presses
and yielded Turns a prefix of their own, an approval and a wake are known by the
id they were created with, and a delivery's run id is a hash of its input's.

### Only model-checked

Liveness, which is out of the prover's reach: `EveryTurnSettles`, `EveryCallReturns`,
`EveryClientCatchesUp`, `LiveFiringSettles`, `KeepsFiring`, `AskIsClaimed` and
`AnswerIsCarried`.

## 7. Correspondence

`PROJECT.json` maps every definition to its lines. In short: `AcceptRun`,
`ReplayAdmission`, `FenceRunAdmission`, `RecordUnadmittedFailure` are the methods
of those names; `StopRun` and `SettleStoppedParkedRun` the two transactions of
`stopRun`; `ReadActive` + `RecoverActiveRun` are `recoverActiveRun`; `ReadQueue` +
`PromoteQueuedRun` + `ExecutePromoted` + `UnparkRun` are `recoverQueuedRun`; `StartRun` ... `Finish`
are `executeAdmittedRun` and `executeResumedRun`; `JournalIntent`,
`AdmitRunEffect`, `JournalOutcome`, `EndTurn`, `LeaveTurnOpen` are what the
authority sees of a Turn; `AlarmFires`, `AlarmChecks`, `AlarmReturns` are `alarm`;
`DrivePumps`, `DriveReturns` are `pumpUntil`; `CallRun`, `CallerLooks`,
`CallerAttempts`, `CallerReturns`, `CallerGaveUp` are `run` and `runQueuedRun`.

Abstracted or left out of `BotAuthority`: identities and fingerprints (an id
names one command), `retryOf` chains, composition pins and re-pinning,
notifications and package records, publication (modelled in `Outbox`), quiet appends, the repair index (its entries belong to the active
run), `scheduledWorkInFlight`, the maintenance an alarm does before it looks at
the slots. A pump may stop after any pass in which its run was not deferred:
the guard of 32 passes is not counted.

In the outbox and the channel: `CommitPublications` is `commitPublicationsV1`, the
four `Drain...` actions `drainPendingPublicationV1`, `TrimReplay` is `trimReplay`,
`Attach` / `Upgrade` are `upgrade` with `handshakeFrames`, `Broadcast` is
`broadcastCommitted` with `sendFrames`; `Dial`, `Accept` and `Refuse` are `_connect`,
`_accept` and its errors; `TakeBatch` and `ApplyNext` are `_flush`; `ApplyFrame`,
`ApplySnapshot` and `ApplyUpdate` are `applyFrame`. `ShowTurn`, `SendToUser`, `SettleTurn` are the causes of
`visiblePublicationsV1`.

Abstracted or left out there: the epoch, which no code changes, so that the
handshake's reasons "epoch" and "cursor-ahead" do not occur; frames over the size
limit and their parts; drafts; the teardown of a Bot (`silence`); announcements,
cards and the computer notice, which are entities like the look but sent to
every protocol; the byte budget of a snapshot (the visible limit stands in for
it) and the archive; the client's HTTP page refresh, its optimistic sends,
failures of its local store and restarts of its process. A failed send and the
five-second deadline of a handshake are a `Disconnect`. Alarms of one object do
not run concurrently. A commit recomputes the alarm in its transaction, as all
but one caller do (`postFiringMessage` of the routines leaves that to its next
transaction).

In the scheduler: `AlarmFires` ... `AlarmReturns` are `alarm`, `Defer` and `HoldFirings`
what it does on a busy object, `Reap` is `reapExpiredFirings`, `ClaimQueued` and
`ClaimScheduled` are `#claim`, `ExecutorAdmits` ... `ExecutorNotifies` are
`runOneFiring`, `FiringDone` and `FiringTimesOut` the two ends of `#execute`,
`SettleFiring` is `#settleFiring`, `Create`, `Rewrite`, `Delete` are `#apply`, `Ask` is
`#deliver` and `routine/run`, `CallRefreshes` the refresh after them. Left out:
webhook keys, the age limit of receipts, the completion inbox, the daily spending
limit (an answer without a Turn), the text of a delivery. A schedule is a period.
Creations are followed by at most `MaxEdits` other commands.

In the pending inputs: `TurnInput` is `turnInputV1` with `drainInto`, `Enqueue`,
`Requeue`, `RequeueUnseen` and `Retained` are the functions of `inbox-store.ts`,
`CheckWaiting` and `OpenDelivery` are `openInputDeliveryTurnV1`, `Decide`, `Expire`
and `Dispatch` are `decideApproval`, `expireDueApprovals` and the dispatch after it,
`ReadHandoffs` ... `OpenHandoff` are `deliverPendingHandoffs`, `Press` is
`executeCardAction`. Hand-offs are marked or dismissed in one step, where the code
takes a transaction per key. Firings, parked Turns and subagents are not Turns
here: they appear as what they queue. A machine's results, which are delivered at
most once by design, and presses a Plugin answers on the card are left out.

## 8. Plan

1. Session event log and the ranges of run records (`SessionLog`): pages, suffix
   commits, quiet appends, a run's range after each kind of settlement;
   composed with the authority's settlements.
2. Effect ledger and agent loop (`AgentTurn`): requests, tool occurrences,
   retries, resume; an effect is admitted at most once and not after a Stop;
   refines the journal abstraction of `BotAuthority`.
3. Composition activation (`Composition`): current pointer, fail-closed
   activation, quarantine, re-pinning of a run.
4. Subagents and groups as pairs of objects, which fail separately.
5. The rest of the channel: oversized frames and parts, the client's optimistic
   sends.
6. Proofs: the invariants of the new modules, and that `BotAuthority`'s journal
   is what `AgentTurn` implements.

## 9. Not modelled

User interfaces other than the client of the state channel, marketing pages, the
admin portal; adapters to providers, payments, e-mail and voice services; the
codec of the machine protocol; policy over Turn text (supervision); configuration
rows around external services; generated tables of connectable apps; extraction
and ranking in memory. These are most of the repository's lines; they keep no
state the promise above depends on. What does and is not modelled yet is in the
plan: the session log, the agent loop's effect ledger, compositions, subagents
and groups.
