---------------------------- MODULE PendingInputs ----------------------------
(***************************************************************************)
(* What a Bot is owed between its Turns (app/routines/inbox-store.ts): the  *)
(* queue of pending inputs, its producers (an approval's decision, a press  *)
(* on a card, a Routine's hand-off, a subagent's report, a Turn that        *)
(* yielded), the Turns that drain it, and the delivery Turns that are opened *)
(* only to drain it.                                                        *)
(*                                                                          *)
(* The run id of a delivery Turn is made from the input it is opened for,   *)
(* so here the input names the Turn.  Firings and subagents are not Turns   *)
(* of this conversation: they appear as what they queue.  How a Turn is     *)
(* driven is BotAuthority's; this module keeps where in the Turn the queue  *)
(* is drained and when the model is given what was drained.                 *)
(***************************************************************************)
EXTENDS Integers, FiniteSets, SequencesExt, Picks

CONSTANTS
  Approvals,     \* approval ids
  Presses,       \* presses on a card, each with the id its client gave it
  Handoffs,      \* wakes of Routine firings
  Tasks,         \* wakes of background subagents
  Chats,         \* messages of the person, each a Turn
  None,          \* no Turn
  PressLimit,    \* ROUTINE_CARD_ACTION_LIMIT
  InputLimit,    \* ROUTINE_PENDING_INPUT_LIMIT
  ReceiptLimit,  \* ROUTINE_DRAIN_RECEIPT_LIMIT
  MaxFaults      \* bound: evictions, Stops, failures and repeated posts in all

ASSUME LimitsAssumption ==
  /\ {PressLimit, InputLimit, ReceiptLimit} \subseteq Nat \ {0}
  /\ MaxFaults \in Nat

Opening == Approvals \cup Presses            \* open an input-delivery Turn
Deliveries == Opening \cup Handoffs
Turns == Chats \cup Deliveries
Yielded(t) == <<t>>                          \* the input a yielding Turn leaves
Inputs == Deliveries \cup Tasks \cup {Yielded(t) : t \in Turns}

ASSUME DistinctAssumption ==
  /\ Approvals \cap Presses = {} /\ Opening \cap Handoffs = {} /\ Deliveries \cap Tasks = {}
  /\ Chats \cap (Deliveries \cup Tasks) = {} /\ None \notin Turns
  /\ \A t \in Turns : Yielded(t) \notin Deliveries \cup Tasks

VARIABLES
  \* durable
  decision,     \* the approval records
  queue,        \* the pending inputs, oldest first
  marked,       \* hand-offs with deliveredAt
  receipt,      \* what each Turn drained; <<>> is no receipt
  status, stop, \* the runs
  journal,      \* how far a run's log is: quiet, intent, sent
  carried,      \* the inputs in the message a run's log records
  active, pendingUser, pendingAgent,
  \* in memory
  step,         \* where the active Turn stands in executeTurn
  resumed,      \* it was taken up from its log
  call,         \* where a decision or a press stands after its commit
  judging,      \* the hand-offs the alarm pass has read and the judge weighs
  current,      \* no drain has taken them since
  opening,      \* the hand-off the alarm pass is opening a Turn for
  \* external
  dispatched,   \* how often the work of an approval was sent off
  \* history and bounds
  owed,         \* every input that was ever queued
  forgiven,     \* inputs given up by design
  astray,       \* inputs drained by a Turn that had its message, or its Stop
  waived,       \* inputs that wait for the next Turn, whoever opens it
  faults

runs == <<status, stop, journal, carried, active, pendingUser, pendingAgent>>
inputs == <<queue, marked, receipt, owed, forgiven, astray>>
handoffs == <<judging, current, opening>>
memory == <<step, resumed, call, handoffs>>
vars == <<decision, runs, inputs, memory, dispatched, waived, faults>>

Fault == faults < MaxFaults /\ faults' = faults + 1

-----------------------------------------------------------------------------
(* The queue                                                                *)

PressesIn(q) == {k \in DOMAIN q : q[k] \in Presses}

\* enqueuePendingBotInputV1: an id that waits is not queued again, and a press
\* makes room for itself among the presses.
Enqueue(q, i) ==
  LET excess == Cardinality(PressesIn(q)) + 1 - PressLimit
      old == {k \in PressesIn(q) : Cardinality({j \in PressesIn(q) : j < k}) < excess}
      kept == IF i \in Presses THEN Pick(q, DOMAIN q \ old) ELSE q
  IN IF Contains(q, i) THEN q ELSE Append(kept, i)

\* requeueDrainedInputsV1, in a transaction that can list and in a settlement,
\* which cannot.
Requeue(q, s) ==
  LET upTo[n \in 0 .. Len(s)] == IF n = 0 THEN q ELSE Enqueue(upTo[n - 1], s[n])
  IN upTo[Len(s)]
RequeueUnseen(q, s) == q \o s

\* The inputs of one drain: every id once, and past the bound the newest of
\* the kinds that may be trimmed.
Distinct(s) == Pick(s, {i \in DOMAIN s : \A j \in 1..(i - 1) : s[j] # s[i]})
Trimmable(s) == {i \in DOMAIN s : s[i] \in Handoffs \cup Tasks \cup Presses}
Retained(s) ==
  LET budget == InputLimit - Cardinality(DOMAIN s \ Trimmable(s))
  IN IF Len(s) <= InputLimit THEN s
     ELSE Pick(s, {i \in DOMAIN s : i \in Trimmable(s) =>
                     Cardinality({j \in Trimmable(s) : j > i}) < budget})

\* The queue becomes q, with what was put on it; the rest made room.
Queues(q, put) ==
  /\ queue' = q
  /\ owed' = owed \cup put
  /\ forgiven' = forgiven \cup ((ToSet(queue) \cup put) \ ToSet(q))
  /\ UNCHANGED <<marked, receipt, astray>>

-----------------------------------------------------------------------------
(* Admission and promotion                                                  *)

Starts(t) == active' = t /\ step' = "mount" /\ resumed' = FALSE
Waits == UNCHANGED <<active, step, resumed>>

\* acceptRun; the run of an id that was admitted before is only replayed.
Accept(t, lane) ==
  /\ UNCHANGED <<stop, journal, carried>>
  /\ IF status[t] # "none"
     THEN UNCHANGED <<status, pendingUser, pendingAgent>> /\ Waits
     ELSE /\ status' = [status EXCEPT ![t] = "running"]
          /\ IF active = None /\ pendingUser = <<>> /\ (lane = "agent" => pendingAgent = <<>>)
             THEN Starts(t) /\ UNCHANGED <<pendingUser, pendingAgent>>
             ELSE /\ Waits
                  /\ IF lane = "agent"
                     THEN pendingAgent' = Append(pendingAgent, t) /\ UNCHANGED pendingUser
                     ELSE pendingUser' = Append(pendingUser, t) /\ UNCHANGED pendingAgent

\* The person writes.
Chat(c) ==
  /\ status[c] = "none"
  /\ Accept(c, "user")
  /\ UNCHANGED <<decision, inputs, call, handoffs, dispatched, waived, faults>>

\* promoteQueuedRun: the person's messages first.
Promote ==
  /\ active = None
  /\ \/ /\ pendingUser # <<>>
        /\ Starts(Head(pendingUser))
        /\ pendingUser' = Tail(pendingUser) /\ UNCHANGED pendingAgent
     \/ /\ pendingUser = <<>> /\ pendingAgent # <<>>
        /\ Starts(Head(pendingAgent))
        /\ pendingAgent' = Tail(pendingAgent) /\ UNCHANGED pendingUser
  /\ UNCHANGED <<decision, status, stop, journal, carried, inputs, call, handoffs,
                 dispatched, waived, faults>>

-----------------------------------------------------------------------------
(* The active Turn                                                          *)

At(s) == active # None /\ step = s
Gone == active' = None /\ step' = "none" /\ UNCHANGED resumed
Settles(t, outcome) ==
  status' = [status EXCEPT ![t] = IF stop[t] THEN "cancelled" ELSE outcome]

\* drainInto.  Nothing owed, nothing recorded; a receipt makes others give way.
Receipts(t, inputsOf) ==
  LET others == {o \in Turns \ {t} : receipt[o] # <<>>}
      excess == Cardinality(others) - ReceiptLimit
  IN \E gone \in SUBSET others :
       /\ Cardinality(gone) = IF excess > 0 THEN excess ELSE 0
       /\ receipt' = [o \in Turns |-> IF o = t THEN inputsOf
                                      ELSE IF o \in gone THEN <<>> ELSE receipt[o]]
DrainInto(t) ==
  LET inputsOf == Retained(Distinct(queue))
  IN IF receipt[t] # <<>> \/ queue = <<>> THEN UNCHANGED <<inputs, current>>
     ELSE /\ queue' = <<>> /\ current' = FALSE
          /\ Receipts(t, inputsOf)
          /\ forgiven' = forgiven \cup (ToSet(queue) \ ToSet(inputsOf))
          /\ astray' = IF resumed \/ stop[t] THEN astray \cup ToSet(inputsOf) ELSE astray
          /\ UNCHANGED <<marked, owed>>

\* turnInputV1: a delivery Turn with nothing to deliver is over, any other one
\* goes on with what it drained.
SpeaksAnyway(t) == FALSE
NothingToSay(t) == t \in Deliveries /\ receipt[t] = <<>> /\ queue = <<>>
TurnInput ==
  /\ At("mount")
  /\ DrainInto(active)
  /\ IF NothingToSay(active) THEN Settles(active, "completed") /\ Gone
     ELSE step' = "send" /\ UNCHANGED <<status, active, resumed>>
  /\ UNCHANGED <<decision, stop, journal, carried, pendingUser, pendingAgent, call,
                 judging, opening, dispatched, waived, faults>>

\* executeBotTurn: send journals the message and asks the model; resume goes on
\* from the log, whatever the Turn was given.
SendTurn ==
  /\ At("send")
  /\ step' = "loop"
  /\ IF resumed THEN UNCHANGED <<journal, carried>>
     ELSE /\ carried' = [carried EXCEPT ![active] = ToSet(receipt[active])]
          /\ journal' = [journal EXCEPT ![active] = "intent"]
  /\ UNCHANGED <<decision, status, stop, active, pendingUser, pendingAgent, inputs,
                 resumed, call, handoffs, dispatched, waived, faults>>

\* admitRunEffect lets the call out, unless a Stop is durable.
ModelCalled ==
  /\ At("loop") /\ journal[active] = "intent" /\ ~stop[active]
  /\ journal' = [journal EXCEPT ![active] = "sent"]
  /\ UNCHANGED <<decision, status, stop, carried, active, pendingUser, pendingAgent,
                 inputs, memory, dispatched, waived, faults>>

\* completeRun, with the approvals the Turn asked for: an id that has a record
\* keeps it.
TurnCompletes ==
  /\ At("loop") /\ journal[active] = "sent"
  /\ Settles(active, "completed") /\ Gone
  /\ \E asked \in SUBSET Approvals :
       decision' = [a \in Approvals |->
                      IF a \in asked /\ decision[a] = "none" /\ ~stop[active]
                      THEN "pending" ELSE decision[a]]
  /\ forgiven' = IF stop[active] /\ active \in Chats
                 THEN forgiven \cup ToSet(receipt[active]) ELSE forgiven
  /\ UNCHANGED <<stop, journal, carried, pendingUser, pendingAgent, queue, marked,
                 receipt, owed, astray, call, handoffs, dispatched, waived, faults>>

\* The Turn gives way to a message that waits and leaves word that it did.
TurnYields ==
  /\ At("loop") /\ journal[active] = "sent" /\ pendingUser # <<>> /\ ~stop[active]
  /\ Settles(active, "completed") /\ Gone
  /\ Queues(RequeueUnseen(queue, <<Yielded(active)>>), {Yielded(active)})
  /\ UNCHANGED <<decision, stop, journal, carried, pendingUser, pendingAgent, call,
                 handoffs, dispatched, waived, faults>>

\* failRun: a delivery Turn gives back what it drained, in the settlement, and
\* a Turn of the person gives back nothing.  A stopped Turn is cancelled and
\* gives back nothing here.
GivesNothing(t) == <<>>
GivesBack(t) == IF t \in Deliveries THEN receipt[t] ELSE <<>>
Fails(t) ==
  /\ Settles(t, "failed") /\ Gone
  /\ queue' = IF stop[t] THEN queue ELSE RequeueUnseen(queue, GivesBack(t))
  /\ forgiven' = IF t \in Chats THEN forgiven \cup ToSet(receipt[t]) ELSE forgiven
  /\ waived' = IF t \in Opening /\ receipt[t] = <<>> THEN waived \cup ToSet(queue)
               ELSE waived \cup ToSet(GivesBack(t))
  /\ UNCHANGED <<decision, stop, journal, carried, pendingUser, pendingAgent, marked,
                 receipt, owed, astray, call, handoffs, dispatched>>
TurnFails ==
  /\ active # None /\ step # "none"
  /\ Fails(active)
  /\ IF stop[active] THEN UNCHANGED faults ELSE Fault

\* BotTurnRecoveryRequiredError: the Turn stays active for recovery.
TurnDefers ==
  /\ At("loop")
  /\ step' = "none"
  /\ Fault
  /\ UNCHANGED <<decision, runs, inputs, resumed, call, handoffs, dispatched, waived>>

\* recoverActiveRun: a stopped Turn is settled, one that asked nothing of
\* anybody starts over, any other one is resumed.
Recover ==
  /\ At("none")
  /\ UNCHANGED faults
  /\ \/ stop[active] /\ Fails(active)
     \/ /\ ~stop[active]
        /\ step' = "mount"
        /\ resumed' = (journal[active] # "quiet")
        /\ UNCHANGED <<decision, runs, inputs, call, handoffs, dispatched, waived>>

\* stopRun on a Turn that has not settled, however often it is asked.
AnyStopGivesBack(t) == TRUE
StopGivesBack(t) == t \in Deliveries
Stop(t) ==
  /\ status[t] = "running"
  /\ stop' = [stop EXCEPT ![t] = TRUE]
  /\ IF StopGivesBack(t) THEN Queues(Requeue(queue, receipt[t]), ToSet(receipt[t]))
                         ELSE UNCHANGED inputs
  /\ waived' = waived \cup ToSet(GivesBack(t))
  /\ Fault
  /\ UNCHANGED <<decision, status, journal, carried, active, pendingUser, pendingAgent,
                 memory, dispatched>>

-----------------------------------------------------------------------------
(* Producers                                                                *)

\* settleApproval: the decision and the input it owes, in one transaction.  The
\* first write wins; whoever comes later reads what was decided.
EverAsked(a) == decision[a] # "none"
Undecided(a) == decision[a] = "pending"
SettleApproval(a, d) ==
  /\ decision' = [decision EXCEPT ![a] = d]
  /\ Queues(Enqueue(queue, a), {a})
Decide(a, d) ==
  /\ Undecided(a)
  /\ SettleApproval(a, d)
  /\ call' = [call EXCEPT ![a] = IF d = "approved" THEN "dispatch" ELSE "check"]
  /\ UNCHANGED <<runs, step, resumed, handoffs, dispatched, waived, faults>>
\* expireDueApprovals: no Turn is opened for an expiry.
Expire(a) ==
  /\ Undecided(a)
  /\ SettleApproval(a, "expired")
  /\ waived' = waived \cup {a}
  /\ UNCHANGED <<runs, memory, dispatched, faults>>

\* What was approved is sent off after the commit; the call may fail.
Dispatch(a) ==
  /\ call[a] = "dispatch"
  /\ \/ /\ dispatched' = [dispatched EXCEPT ![a] = @ + 1]
        /\ call' = [call EXCEPT ![a] = "check"]
        /\ UNCHANGED <<waived, faults>>
     \/ /\ call' = [call EXCEPT ![a] = "none"]
        /\ waived' = waived \cup {a}
        /\ Fault
        /\ UNCHANGED dispatched
  /\ UNCHANGED <<decision, runs, inputs, step, resumed, handoffs>>

\* A press no Plugin answers; a client may post it again under the same id.
Press(p) ==
  /\ call[p] = "none"
  /\ IF p \in owed THEN Fault ELSE UNCHANGED faults
  /\ Queues(Enqueue(queue, p), {p})
  /\ call' = [call EXCEPT ![p] = "check"]
  /\ UNCHANGED <<decision, runs, step, resumed, handoffs, dispatched, waived>>

\* openInputDeliveryTurnV1: an input rides a delivery Turn that waits, and
\* opens one otherwise.
RidesTheActive ==
  active \in Opening \/ \E i \in DOMAIN pendingAgent : pendingAgent[i] \in Opening
InputDeliveryWaiting == \E i \in DOMAIN pendingAgent : pendingAgent[i] \in Opening
CheckWaiting(i) ==
  /\ call[i] = "check"
  /\ call' = [call EXCEPT ![i] = IF InputDeliveryWaiting THEN "none" ELSE "admit"]
  /\ UNCHANGED <<decision, runs, inputs, step, resumed, handoffs, dispatched, waived, faults>>
OpenDelivery(i) ==
  /\ call[i] = "admit"
  /\ call' = [call EXCEPT ![i] = "none"]
  /\ \/ Accept(i, "agent") /\ UNCHANGED faults
     \/ UNCHANGED <<runs, step, resumed>> /\ Fault
  /\ waived' = IF status[i] = "none" /\ status'[i] = "running" THEN waived
               ELSE waived \cup {i}
  /\ UNCHANGED <<decision, inputs, handoffs, dispatched>>

\* A firing hands off as it settles, which no Turn of the conversation overlaps;
\* a subagent reports whenever it is done.
HandOff(w) ==
  /\ w \notin owed
  /\ w \in Handoffs => active = None
  /\ Queues(IF w \in Handoffs THEN Append(queue, w) ELSE Enqueue(queue, w), {w})
  /\ UNCHANGED <<decision, runs, memory, dispatched, waived, faults>>

\* deliverPendingHandoffs: with the object idle, the hand-offs that wait are read
\* and judged; some are told and the others dismissed, unless a Turn drained
\* them meanwhile.  One Turn is for all that are told, which are marked first.
OwedWakes == {w \in Handoffs \cup Tasks : Contains(queue, w) /\ w \notin marked}
OwedHandoffs == {w \in Handoffs : Contains(queue, w) /\ w \notin marked}
ReadHandoffs ==
  /\ opening = None /\ judging = <<>> /\ active = None
  /\ OwedHandoffs # {}
  /\ judging' = Pick(queue, {k \in DOMAIN queue : queue[k] \in OwedHandoffs})
  /\ current' = TRUE
  /\ UNCHANGED <<decision, runs, inputs, step, resumed, call, opening, dispatched,
                 waived, faults>>
DeliverHandoffs ==
  /\ judging # <<>>
  /\ \E T \in SUBSET DOMAIN judging :
       LET told == Pick(judging, T)
           dismissed == IF current THEN ToSet(judging) \ ToSet(told) ELSE {}
       IN /\ queue' = Pick(queue, {k \in DOMAIN queue : queue[k] \notin dismissed})
          /\ marked' = IF current THEN marked \cup ToSet(told) ELSE marked
          /\ forgiven' = forgiven \cup dismissed
          /\ opening' = IF told = <<>> THEN None ELSE Last(told)
  /\ judging' = <<>> /\ current' = FALSE
  /\ UNCHANGED <<decision, runs, receipt, owed, astray, step, resumed, call, dispatched,
                 waived, faults>>
OpenHandoff ==
  /\ opening # None
  /\ opening' = None
  /\ \/ Accept(opening, "user") /\ UNCHANGED faults
     \/ UNCHANGED <<runs, step, resumed>> /\ Fault
  /\ UNCHANGED <<decision, inputs, call, judging, current, dispatched, waived>>

\* The object is evicted: calls, the alarm pass and the execution are gone.
Evict ==
  /\ Fault
  /\ step' = "none" /\ resumed' = FALSE
  /\ call' = [i \in Opening |-> "none"]
  /\ judging' = <<>> /\ current' = FALSE /\ opening' = None
  /\ waived' = waived \cup {i \in Opening : call[i] # "none"}
  /\ UNCHANGED <<decision, runs, inputs, dispatched>>

-----------------------------------------------------------------------------
Init ==
  /\ decision = [a \in Approvals |-> "none"]
  /\ queue = <<>> /\ marked = {} /\ receipt = [t \in Turns |-> <<>>]
  /\ status = [t \in Turns |-> "none"] /\ stop = [t \in Turns |-> FALSE]
  /\ journal = [t \in Turns |-> "quiet"] /\ carried = [t \in Turns |-> {}]
  /\ active = None /\ pendingUser = <<>> /\ pendingAgent = <<>>
  /\ step = "none" /\ resumed = FALSE
  /\ call = [i \in Opening |-> "none"] /\ opening = None
  /\ judging = <<>> /\ current = FALSE
  /\ dispatched = [a \in Approvals |-> 0]
  /\ owed = {} /\ forgiven = {} /\ astray = {} /\ waived = {}
  /\ faults = 0

TurnSteps == TurnInput \/ SendTurn \/ ModelCalled \/ TurnCompletes \/ TurnYields
             \/ TurnFails \/ TurnDefers \/ Recover \/ Promote
Producers ==
  \/ \E a \in Approvals : \/ \E d \in {"approved", "denied"} : Decide(a, d)
                          \/ Expire(a) \/ Dispatch(a)
  \/ \E p \in Presses : Press(p)
  \/ \E i \in Opening : CheckWaiting(i) \/ OpenDelivery(i)
  \/ \E w \in Handoffs \cup Tasks : HandOff(w)
  \/ ReadHandoffs \/ DeliverHandoffs \/ OpenHandoff
Next ==
  \/ TurnSteps \/ Producers \/ Evict
  \/ \E c \in Chats : Chat(c)
  \/ \E t \in Turns : Stop(t)

Spec == Init /\ [][Next]_vars

\* A Turn is driven, by this isolate or by the alarm, and a call that committed
\* goes on; nothing is assumed of people, firings or the alarm's hand-offs.
FairSpec ==
  /\ Spec /\ WF_vars(TurnSteps)
  /\ \A i \in Opening : WF_vars(CheckWaiting(i) \/ OpenDelivery(i))
  /\ \A a \in Approvals : WF_vars(Dispatch(a))
-----------------------------------------------------------------------------
(* Properties                                                               *)

\* What the model was given in a Turn.
Told(t) == IF journal[t] = "sent" THEN carried[t] ELSE {}

\* Every variable has the shape of the records and locals it stands for.
TypeOK ==
  /\ decision \in [Approvals -> {"none", "pending", "approved", "denied", "expired"}]
  /\ queue \in Seq(Inputs) /\ marked \subseteq Handoffs
  /\ receipt \in [Turns -> Seq(Inputs)]
  /\ status \in [Turns -> {"none", "running", "completed", "failed", "cancelled"}]
  /\ stop \in [Turns -> BOOLEAN] /\ journal \in [Turns -> {"quiet", "intent", "sent"}]
  /\ carried \in [Turns -> SUBSET Inputs]
  /\ active \in Turns \cup {None}
  /\ pendingUser \in Seq(Turns) /\ pendingAgent \in Seq(Turns)
  /\ step \in {"none", "mount", "send", "loop"} /\ resumed \in BOOLEAN
  /\ call \in [Opening -> {"none", "dispatch", "check", "admit"}]
  /\ judging \in Seq(Handoffs) /\ current \in BOOLEAN /\ opening \in Handoffs \cup {None}
  /\ dispatched \in [Approvals -> Nat]
  /\ {owed, forgiven, astray, waived} \subseteq SUBSET Inputs
  /\ faults \in Nat

\* An input that was queued is still queued, or held by the receipt of a Turn
\* under way, or was told to the model, or was given up where the code says so.
KeptOrTold(i) ==
  \/ Contains(queue, i)
  \/ \E t \in Turns : status[t] = "running" /\ Contains(receipt[t], i)
  \/ \E t \in Turns : i \in Told(t)
  \/ i \in forgiven

\* Nothing is lost between a decision, a press or a hand-off and the model,
\* whatever is evicted, fails or is stopped (drainInto, requeueDrainedInputsV1),
\* but to a Turn that drains after its Stop or when its message was already
\* sent.
LostOnlyAstray == \A i \in owed : KeptOrTold(i) \/ i \in astray

\* "The input is already queued, so a Turn that cannot be admitted costs the
\* immediate reply and never the input."
NeverLost == \A i \in owed : KeptOrTold(i)

\* The Bot is told once: no Turn has an input twice, and what a completed
\* delivery or a Turn of the person was told, no other such Turn is told, a
\* press that its client posts again excepted.
ToldOnce ==
  /\ \A t \in Turns : Cardinality(ToSet(receipt[t])) = Len(receipt[t])
  /\ \A i \in Inputs \ Presses :
       Cardinality({t \in Turns : i \in Told(t) /\ (t \in Chats \/ status[t] = "completed")}) <= 1

\* A delivery Turn never speaks from an empty hand.
DeliversSomething == \A t \in Deliveries : journal[t] = "sent" => carried[t] # {}

\* Work goes off once and only for a person's yes: no second click, no expiry
\* that races it and no retried call sends it again or changes the answer that
\* it was sent for.
DispatchFollowsTheDecision ==
  \A a \in Approvals : /\ dispatched[a] <= 1
                       /\ dispatched[a] > 0 \/ call[a] = "dispatch" => decision[a] = "approved"

\* Somebody comes for an answer or a press: once its call has returned, and
\* unless its Turn could not be had, a Turn that has not drained yet is on its
\* way, its own or the one it rides.
Undrained(t) ==
  /\ status[t] = "running" /\ receipt[t] = <<>>
  /\ t = active => step \in {"none", "mount"}
SomebodyComes ==
  \A i \in Opening : Contains(queue, i) /\ call[i] = "none" /\ i \notin waived =>
    \E t \in Turns : Undrained(t)

\* An answer or a press is carried to a Turn without the person saying another
\* word, whatever it rides on, unless its Turn could not be had.
AnswerIsCarried ==
  \A i \in Opening : Contains(queue, i) ~> ~Contains(queue, i) \/ i \in waived
=============================================================================
