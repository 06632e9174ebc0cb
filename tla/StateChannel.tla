---------------------------- MODULE StateChannel ----------------------------
(***************************************************************************)
(* A Bot's state channel from commit to screen: the Turns that publish      *)
(* (app/shell/conversation-publication.ts), the outbox and its sockets      *)
(* (Outbox), the handshake and the frames on each socket                    *)
(* (apps/cloudflare/src/bot-state-channel.ts), and the client that accepts, *)
(* queues and applies them and dials again from the cursor it applied       *)
(* (frockbot_client: state_channel.dart, chat_controller.dart).             *)
(*                                                                          *)
(* A frame names the cursor of the update whose payload it carries; a       *)
(* snapshot names the cursor it was read at, which fixes its contents.      *)
(***************************************************************************)
EXTENDS Outbox, Integers, Picks

CONSTANTS
  Turns,         \* visible runs
  MaxSends,      \* bound: sends of one Turn
  MaxLooks,      \* bound: changes of the Bot's look
  VisibleLimit,  \* CONVERSATION_VISIBLE_RUN_LIMIT_V1
  OldObservers,  \* observers whose protocol predates the look update
  MaxDrops       \* bound: connections lost

NoTurn == "none"
RunOf(t) == [kind |-> "run", turn |-> t, n |-> 0]
SendOf(t, n) == [kind |-> "send", turn |-> t, n |-> n]
Look == [kind |-> "look", turn |-> NoTurn, n |-> 0]
Conversation == {RunOf(t) : t \in Turns} \cup {Look}
                  \cup {SendOf(t, n) : t \in Turns, n \in 1 .. MaxSends}

ASSUME ConversationAssumption ==
  /\ Entities = Conversation /\ Contributions = {<<e>> : e \in Entities}
  /\ OldObservers \subseteq Observers /\ NoTurn \notin Turns
  /\ MaxSends \in Nat /\ MaxLooks \in Nat /\ VisibleLimit \in Nat \ {0} /\ MaxDrops \in Nat

VARIABLES
  \* the authority's records, as far as the chat shows them
  turn,       \* status of each Turn, and how many messages it sent
  body,       \* by cursor: what a run's row said when it was published
  \* between the object and a client
  wire,       \* frames on each observer's socket
  link,       \* closed, dialing or open
  presented,  \* the cursor a dialing client asked to resume from
  \* the client
  cursor,     \* BotStateChannel._cursor: the last frame accepted
  queue,      \* _pending: frames accepted and not yet taken
  batch,      \* the batch that _flush is applying
  applied,    \* publicationCursor, kept with the page
  seen,       \* _entityRevision
  view,       \* _runs
  drops

turns == <<turn, body>>
link_ == <<wire, link, presented, drops>>
client == <<cursor, queue, batch, applied, seen, view>>
vars == <<outbox, turns, link_, client>>

NoCursor == -1
Unknown == [known |-> FALSE, settled |-> FALSE, sends |-> {}]
Unseen == [e \in Entities |-> 0]

Init ==
  /\ OutboxInit
  /\ turn = [t \in Turns |-> [status |-> "none", sends |-> 0]] /\ body = <<>>
  /\ wire = [o \in Observers |-> <<>>] /\ link = [o \in Observers |-> "closed"]
  /\ presented = [o \in Observers |-> NoCursor] /\ drops = 0
  /\ cursor = [o \in Observers |-> NoCursor] /\ applied = [o \in Observers |-> NoCursor]
  /\ queue = [o \in Observers |-> <<>>] /\ batch = [o \in Observers |-> <<>>]
  /\ seen = [o \in Observers |-> Unseen]
  /\ view = [o \in Observers |-> [t \in Turns |-> Unknown]]

-----------------------------------------------------------------------------
(* What a Turn publishes, in the transaction that changes it                *)

Publish(e, row_) ==
  /\ CommitPublications(<<e>>)
  /\ body' = Append(body, row_)
  /\ UNCHANGED <<link_, client>>

\* runStatusContribution: the run's row with the messages it sent so far.
RunRow(t) == [settled |-> turn'[t].status = "settled", sends |-> turn'[t].sends]
NoRow == [settled |-> FALSE, sends |-> 0]

\* Admission, and promotion, parking and resumption of a running Turn.
ShowTurn(t) ==
  /\ turn[t].status \in {"none", "running"}
  /\ turn' = [turn EXCEPT ![t].status = "running"]
  /\ Publish(RunOf(t), RunRow(t))

\* cause "events": a committed send publishes its message, and no run status.
SendToUser(t) ==
  /\ turn[t].status = "running" /\ turn[t].sends < MaxSends
  /\ turn' = [turn EXCEPT ![t].sends = @ + 1]
  /\ Publish(SendOf(t, turn[t].sends + 1), NoRow)

SettleTurn(t) ==
  /\ turn[t].status = "running"
  /\ turn' = [turn EXCEPT ![t].status = "settled"]
  /\ Publish(RunOf(t), RunRow(t))

\* noticeLook
NoticeLook ==
  /\ Cardinality({c \in DOMAIN log : log[c] = Look}) < MaxLooks
  /\ UNCHANGED turn
  /\ Publish(Look, NoRow)

-----------------------------------------------------------------------------
(* The object's half of a socket                                            *)

UpdateFrame(c, p) == [type |-> "update", cursor |-> c, payload |-> p]
SnapshotFrame(c) == [type |-> "snapshot", cursor |-> c, payload |-> c]
ReadyFrame(c) == [type |-> "ready", cursor |-> c, payload |-> c]

\* ProtocolFrames.for: an old observer is not sent a look update.
ForProtocol(o, frames) ==
  IF o \notin OldObservers THEN frames
  ELSE Pick(frames, {i \in DOMAIN frames :
                       frames[i].type = "update" => log[frames[i].cursor] # Look})

\* How many of a drain's updates, which come in cursor order, a socket has had.
Known(frames, position) ==
  CHOOSE k \in 0 .. Len(frames) :
    \A i \in DOMAIN frames : Passes(frames[i], position) <=> i > k

\* broadcastCommitted puts on each socket the frames that are new to it.
NewFrames(s, o) ==
  LET k == Known(got[s], sent[o])
  IN [i \in 1 .. Len(got[s]) - k |->
        UpdateFrame(got[s][k + i].cursor, got[s][k + i].payload)]

Broadcast(s) ==
  /\ DrainDelivers(s)
  /\ wire' = [o \in Observers |->
               IF o \in open THEN wire[o] \o ForProtocol(o, NewFrames(s, o)) ELSE wire[o]]
  /\ UNCHANGED <<turns, link, presented, drops, client>>

\* planHandshakeV1, and the gap that readReplayUpdatesV1 would report.
Replays(c) == c >= first - 1 /\ c <= last /\ c + 1 .. last \subseteq stored

Handshake(c) ==
  Append(IF Replays(c) THEN [i \in 1 .. last - c |-> UpdateFrame(c + i, c + i)]
         ELSE <<SnapshotFrame(last)>>,
         ReadyFrame(last))

\* upgrade()
Upgrade(o) ==
  /\ link[o] = "dialing"
  /\ Attach(o)
  /\ wire' = [wire EXCEPT ![o] = ForProtocol(o, Handshake(presented[o]))]
  /\ link' = [link EXCEPT ![o] = "open"]
  /\ presented' = [presented EXCEPT ![o] = NoCursor]
  /\ UNCHANGED <<turns, drops, client>>

-----------------------------------------------------------------------------
(* The client                                                               *)

\* The cursor a client resumes from is the one its page was kept with.
ResumeFromAccepted(o) == cursor[o]
ResumeFrom(o) == applied[o]

\* _connect: what was accepted and not taken is dropped; a batch being
\* applied goes on.
Dial(o) ==
  /\ link[o] = "closed"
  /\ link' = [link EXCEPT ![o] = "dialing"]
  /\ presented' = [presented EXCEPT ![o] = ResumeFrom(o)]
  /\ cursor' = [cursor EXCEPT ![o] = ResumeFrom(o)]
  /\ queue' = [queue EXCEPT ![o] = <<>>]
  /\ UNCHANGED <<outbox, turns, wire, drops, batch, applied, seen, view>>

Closes(o) ==
  /\ IF o \in open THEN Detach(o) ELSE UNCHANGED outbox
  /\ link' = [link EXCEPT ![o] = "closed"]
  /\ wire' = [wire EXCEPT ![o] = <<>>]
  /\ presented' = [presented EXCEPT ![o] = NoCursor]
  /\ UNCHANGED <<turns, client>>

\* The connection is lost, with the frames still on it, or the app pauses.
Disconnect(o) ==
  /\ link[o] # "closed" /\ drops < MaxDrops
  /\ drops' = drops + 1
  /\ Closes(o)

\* _accept: an update must follow the cursor, a ready must name it.
Follows(f, c) ==
  \/ f.type = "snapshot"
  \/ f.type = "update" /\ c # NoCursor /\ f.cursor = c + 1
  \/ f.type = "ready" /\ f.cursor = c

Accept(o) ==
  /\ wire[o] # <<>> /\ Follows(Head(wire[o]), cursor[o])
  /\ wire' = [wire EXCEPT ![o] = Tail(@)]
  /\ cursor' = [cursor EXCEPT ![o] = Head(wire[o]).cursor]
  /\ queue' = IF Head(wire[o]).type = "ready" THEN queue
              ELSE [queue EXCEPT ![o] = Append(@, Head(wire[o]))]
  /\ UNCHANGED <<outbox, turns, link, presented, drops, batch, applied, seen, view>>

\* A frame that does not follow tears the socket down.
Refuse(o) ==
  /\ wire[o] # <<>> /\ ~Follows(Head(wire[o]), cursor[o])
  /\ Closes(o)
  /\ UNCHANGED drops

\* A run's row as of a cursor, and the runs a snapshot read there shows: the
\* newest in the visible index.
RowAt(t, c) == Max({0} \cup {i \in 1 .. c : log[i] = RunOf(t)})
VisibleAt(c) ==
  {t \in Turns : /\ RowAt(t, c) > 0
                 /\ Cardinality({u \in Turns : RowAt(u, c) > RowAt(t, c)}) < VisibleLimit}

\* _put: a settled run stays settled, and a running row keeps the sends drawn
\* since it was read.
PutFirst(shown, r) ==
  IF shown.known THEN shown
  ELSE [known |-> TRUE, settled |-> r.settled, sends |-> 1 .. r.sends]
Put(shown, r) ==
  IF shown.settled /\ ~r.settled THEN shown
  ELSE [known |-> TRUE, settled |-> r.settled,
        sends |-> (1 .. r.sends)
                    \cup (IF r.settled THEN {} ELSE {n \in shown.sends : n > r.sends})]

WithSnapshot(shown, c) ==
  [t \in Turns |-> IF t \in VisibleAt(c) THEN Put(shown[t], body[RowAt(t, c)])
                   ELSE shown[t]]
WithUpdate(shown, f) ==
  LET e == log[f.cursor]
  IN CASE e.kind = "run"  -> [shown EXCEPT ![e.turn] = Put(@, body[f.payload])]
       [] e.kind = "send" -> [shown EXCEPT ![e.turn] = [known |-> TRUE, settled |-> @.settled,
                                                       sends |-> @.sends \cup {e.n}]]
       [] OTHER -> shown

\* _applyUpdate drops a revision it has seen.
TakesAll(o, f) == TRUE
IsNews(o, f) == f.cursor > seen[o][log[f.cursor]]

\* applyFrame, up to its first await: the page changes at once and is saved
\* after that.
ApplySnapshot(o, f) ==
  /\ seen' = [seen EXCEPT ![o] = Unseen]
  /\ applied' = [applied EXCEPT ![o] = f.cursor]
  /\ view' = [view EXCEPT ![o] = WithSnapshot(@, f.cursor)]
ApplyUpdate(o, f) ==
  IF IsNews(o, f)
  THEN /\ seen' = [seen EXCEPT ![o][log[f.cursor]] = f.cursor]
       /\ applied' = [applied EXCEPT ![o] = f.cursor]
       /\ view' = [view EXCEPT ![o] = WithUpdate(@, f)]
  ELSE UNCHANGED <<applied, seen, view>>
ApplyFrame(o, f) ==
  /\ IF f.type = "snapshot" THEN ApplySnapshot(o, f) ELSE ApplyUpdate(o, f)
  /\ UNCHANGED <<outbox, turns, link_, cursor>>

\* _flush takes what was accepted and applies the first of it in one go; each
\* of the others waits until the page is saved.
TakeBatch(o) ==
  /\ batch[o] = <<>> /\ queue[o] # <<>>
  /\ batch' = [batch EXCEPT ![o] = Tail(queue[o])]
  /\ queue' = [queue EXCEPT ![o] = <<>>]
  /\ ApplyFrame(o, Head(queue[o]))
ApplyNext(o) ==
  /\ batch[o] # <<>>
  /\ batch' = [batch EXCEPT ![o] = Tail(@)]
  /\ ApplyFrame(o, Head(batch[o]))
  /\ UNCHANGED queue

-----------------------------------------------------------------------------

Commit == \/ \E t \in Turns : ShowTurn(t) \/ SendToUser(t) \/ SettleTurn(t)
          \/ NoticeLook
Object(s) == /\ DrainLists(s) \/ DrainReads(s) \/ DrainCommits(s)
             /\ UNCHANGED <<turns, link_, client>>
Alarm == /\ AlarmFires \/ AlarmReturns
         /\ UNCHANGED <<turns, link_, client>>
Evicted == Evict /\ UNCHANGED <<turns, link_, client>>
Client(o) == \/ Dial(o) \/ Upgrade(o) \/ Accept(o) \/ Refuse(o)
             \/ TakeBatch(o) \/ ApplyNext(o)

Next ==
  \/ Commit \/ Alarm \/ Evicted
  \/ \E s \in Strands : Object(s) \/ Broadcast(s)
  \/ \E o \in Observers : Client(o) \/ Disconnect(o)

Spec == Init /\ [][Next]_vars

\* A drain that began goes on, an armed alarm is delivered and returns, and a
\* client that has something to do does it, dialing again included.  Nothing
\* is assumed of commits, of drains that commits start, of evictions or of
\* lost connections.
Fairness ==
  /\ WF_vars(Alarm)
  /\ \A s \in Strands :
       /\ WF_vars(Object(s) /\ (s = "alarm" \/ pc[s] # "idle"))
       /\ WF_vars(Broadcast(s))
  /\ \A o \in Observers :
       /\ WF_vars(Dial(o) \/ Upgrade(o)) /\ WF_vars(Accept(o) \/ Refuse(o))
       /\ WF_vars(TakeBatch(o) \/ ApplyNext(o))

FairSpec == Spec /\ Fairness

-----------------------------------------------------------------------------
(* Properties                                                               *)

\* Where frame i of a socket leaves off.
Before(o, i) == IF i = 1 THEN cursor[o] ELSE wire[o][i - 1].cursor

\* docs/architecture.md: the channel carries every committed publication on a
\* contiguous cursor.  Whatever drains, commits, evictions and handshakes
\* interleave, a client is never sent a frame it would refuse, and every frame
\* carries the payload committed with its cursor.
StreamHasNoGap ==
  \A o \in Observers \ OldObservers :
    \A i \in DOMAIN wire[o] :
      /\ Follows(wire[o][i], Before(o, i))
      /\ wire[o][i].payload = wire[o][i].cursor

\* The page a client shows at the cursor it would resume from: each Turn of
\* the visible index as its last row said, and a settled one with every message
\* it ever sent, however the client got there.
ShowsSettledTurns ==
  \A o \in Observers : applied[o] # NoCursor =>
    \A t \in VisibleAt(applied[o]) :
      LET r == body[RowAt(t, applied[o])]
      IN /\ view[o][t].known /\ view[o][t].settled = r.settled
         /\ r.settled => view[o][t].sends = 1 .. r.sends

\* publicationCursor never goes back, although frames accepted on an earlier
\* socket are still applied while the next one replays them.
NeverGoesBack == [][\A o \in Observers : applied'[o] >= applied[o]]_vars

\* A client catches up with every commit, after any lost connection, eviction
\* or trimmed window.
EveryClientCatchesUp == \A o \in Observers : []<>(applied[o] = last)

=============================================================================
