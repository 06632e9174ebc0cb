------------------------------- MODULE Outbox -------------------------------
(***************************************************************************)
(* Committed publication (core/durable/publication.ts) and the observer     *)
(* sockets it is broadcast on (apps/cloudflare/src/bot-state-channel.ts).   *)
(*                                                                          *)
(* A transaction appends updates to the log, each with the next cursor, and *)
(* a pending marker beside each.  Any strand of the object may drain the    *)
(* markers: it lists a batch, reads the updates one await at a time,        *)
(* broadcasts them, and in a transaction of its own deletes the markers,    *)
(* advances broadcastThrough and trims the replay window.  Nothing          *)
(* serialises two drains.                                                   *)
(*                                                                          *)
(* The log is the whole history; the durable updates are the cursors in     *)
(* `stored'.  Revisions of an entity grow with its cursors, so a row is     *)
(* the cursor of the entity's last update, and a payload is the cursor of   *)
(* the update it was committed with.  A contribution whose revision does    *)
(* not advance writes nothing and is not a step.                            *)
(***************************************************************************)
EXTENDS Naturals, Sequences, FiniteSets, FiniteSetsExt

CONSTANTS
  Entities,        \* conversation entities: runs, messages, notices
  Contributions,   \* what one transaction may publish
  Weight,          \* the bytes of an entity's updates
  Observers,       \* clients that may hold a socket
  Drainers,        \* strands, besides the alarm, that drain after a commit
  ReplayMaxEvents, \* PUBLICATION_REPLAY_MAX_EVENTS_V1
  ReplayMaxBytes,  \* PUBLICATION_REPLAY_MAX_BYTES_V1
  Batch,           \* MAINTENANCE_BATCH_V1
  MaxLog,          \* bound: updates ever published
  MaxEvictions     \* bound: evictions of the object

ASSUME ContributionsAssumption == Contributions \subseteq Seq(Entities) \ {<<>>}
ASSUME WeightAssumption == Weight \in [Entities -> Nat]
ASSUME DrainersAssumption == "alarm" \notin Drainers
ASSUME OutboxBoundsAssumption ==
  /\ ReplayMaxEvents \in Nat /\ ReplayMaxBytes \in Nat /\ Batch \in Nat \ {0}
  /\ MaxLog \in Nat /\ MaxEvictions \in Nat

Strands == Drainers \cup {"alarm"}
Places == {"idle", "fired", "reading", "delivered", "drained"}

VARIABLES
  \* durable
  log,        \* the entity of every update ever committed, by cursor
  row,        \* conversation rows: the cursor each was last written at
  stored,     \* the cursors whose update is kept for replay
  pending,    \* the cursors with a pending marker
  first,      \* head.firstRetainedCursor
  through,    \* head.broadcastThrough
  alarm,      \* an alarm is armed for owed publication
  \* sockets, which outlive the object's memory
  open,       \* the observers with a socket
  sent,       \* lastSent of each socket's attachment
  \* memory
  pc,         \* where each strand's drain is
  marks,      \* the markers it listed
  reach,      \* the last of them
  left,       \* those it has yet to read
  got,        \* the updates it read: cursor and the payload it took
  evictions

head == <<first, through>>
sockets == <<open, sent>>
drains == <<pc, marks, reach, left, got>>
outbox == <<log, row, stored, pending, head, alarm, sockets, drains, evictions>>

last == Len(log)   \* head.lastCursor
Frames == [cursor : Nat, payload : Nat]

OutboxInit ==
  /\ log = <<>> /\ row = [e \in Entities |-> 0]
  /\ stored = {} /\ pending = {} /\ first = 1 /\ through = 0
  /\ alarm = FALSE
  /\ open = {} /\ sent = [o \in Observers |-> 0]
  /\ pc = [s \in Strands |-> "idle"] /\ marks = [s \in Strands |-> {}]
  /\ reach = [s \in Strands |-> 0]
  /\ left = [s \in Strands |-> {}] /\ got = [s \in Strands |-> <<>>]
  /\ evictions = 0

-----------------------------------------------------------------------------
(* The replay window                                                        *)

\* The updates from cursor f on fit the window, by count and by bytes.
Bytes(entities, cursors) == MapThenSumSet(LAMBDA c : Weight[entities[c]], cursors)
Fits(f, entities) ==
  /\ Len(entities) - f + 1 <= ReplayMaxEvents
  /\ Bytes(entities, f .. Len(entities)) <= ReplayMaxBytes

\* Only updates a drain has attempted may be dropped.
DroppableAll(thru, entities) == Len(entities)
Droppable(thru, entities) == thru

\* trimReplay: drop from the oldest while something droppable does not fit.
TrimsTo(f, entities, thru) ==
  /\ f >= first
  /\ f > Droppable(thru, entities) \/ Fits(f, entities)
  /\ \A g \in first .. f - 1 : g <= Droppable(thru, entities) /\ ~Fits(g, entities)

\* Head and updates after a transaction that leaves this log and mark.
TrimReplay(entities, updates, thru) ==
  \E f \in first .. Len(entities) + 1 :
    /\ TrimsTo(f, entities, thru)
    /\ first' = f /\ through' = thru
    /\ stored' = {c \in updates : c >= f}

\* refreshRecoveryAlarm, as far as publication is concerned.
RefreshForgetsPublication == alarm' = FALSE
RefreshAlarm == alarm' = (pending' # {})

-----------------------------------------------------------------------------
(* Commit                                                                   *)

\* commitPublicationsV1 in the transaction of the change it announces, which
\* also recomputes the alarm.
CommitPublications(entities) ==
  /\ last + Len(entities) <= MaxLog
  /\ log' = log \o entities
  /\ row' = [e \in Entities |->
              LET at == {i \in DOMAIN entities : entities[i] = e}
              IN IF at = {} THEN row[e] ELSE last + Max(at)]
  /\ pending' = pending \cup (last + 1 .. last + Len(entities))
  /\ TrimReplay(log', stored \cup (last + 1 .. last + Len(entities)), through)
  /\ RefreshAlarm
  /\ UNCHANGED <<sockets, drains, evictions>>

-----------------------------------------------------------------------------
(* Drain                                                                    *)

\* A listed page of markers: in cursor order, at most a batch of them.
IsPage(page) ==
  /\ Cardinality(page) <= Batch
  /\ page = pending \/ Cardinality(page) = Batch

DrainLists(s) ==
  /\ pc[s] = (IF s = "alarm" THEN "fired" ELSE "idle")
  /\ \E end \in pending :
       LET page == {c \in pending : c <= end}
       IN /\ IsPage(page)
          /\ reach' = [reach EXCEPT ![s] = end]
          /\ marks' = [marks EXCEPT ![s] = page]
          /\ left' = [left EXCEPT ![s] = page]
  /\ got' = [got EXCEPT ![s] = <<>>]
  /\ pc' = [pc EXCEPT ![s] = "reading"]
  /\ UNCHANGED <<log, row, stored, pending, head, alarm, sockets, evictions>>

\* reconstructUpdate: the stored update, or the entity's row under the
\* marker's cursor when the update is gone.
ReconstructedFromRow(c) == <<[cursor |-> c, payload |-> row[log[c]]]>>
Reconstructed(c) ==
  CASE c \in stored -> <<[cursor |-> c, payload |-> c]>>
    [] c \notin stored /\ row[log[c]] >= c -> <<[cursor |-> c, payload |-> row[log[c]]]>>
    [] OTHER -> <<>>

DrainReads(s) ==
  /\ pc[s] = "reading"
  /\ \E c \in left[s] :
       /\ \A k \in left[s] : c <= k
       /\ left' = [left EXCEPT ![s] = @ \ {c}]
       /\ got' = [got EXCEPT ![s] = @ \o Reconstructed(c)]
  /\ UNCHANGED <<log, row, stored, pending, head, alarm, sockets, pc, marks, reach,
                 evictions>>

\* sendFrames passes a frame to the sockets it is new to, and its cursor
\* becomes their lastSent.
PassesAll(f, position) == TRUE
Passes(f, position) == f.cursor > position
Advanced(frames, position) ==
  IF frames # <<>> /\ Passes(frames[Len(frames)], position)
  THEN frames[Len(frames)].cursor ELSE position

\* broadcastCommitted: one synchronous pass over the updates and the sockets.
DrainDelivers(s) ==
  /\ pc[s] = "reading" /\ left[s] = {}
  /\ sent' = [o \in Observers |->
               IF o \in open THEN Advanced(got[s], sent[o]) ELSE sent[o]]
  /\ pc' = [pc EXCEPT ![s] = "delivered"]
  /\ UNCHANGED <<log, row, stored, pending, head, alarm, open, marks, reach, left,
                 got, evictions>>

\* How far a drain's transaction says it has broadcast: its last marker.
ReachedTheEnd(s) == last
Reached(s) == reach[s]

DrainCommits(s) ==
  /\ pc[s] = "delivered"
  /\ TrimReplay(log, stored, IF Reached(s) > through THEN Reached(s) ELSE through)
  /\ pending' = pending \ marks[s]
  /\ RefreshAlarm
  /\ pc' = [pc EXCEPT ![s] = IF s = "alarm" THEN "drained" ELSE "idle"]
  /\ got' = [got EXCEPT ![s] = <<>>]
  /\ marks' = [marks EXCEPT ![s] = {}]
  /\ reach' = [reach EXCEPT ![s] = 0]
  /\ UNCHANGED <<log, row, sockets, left, evictions>>

-----------------------------------------------------------------------------
(* The alarm and eviction                                                   *)

AlarmFires ==
  /\ alarm /\ pc["alarm"] = "idle"
  /\ alarm' = FALSE
  /\ pc' = [pc EXCEPT !["alarm"] = "fired"]
  /\ UNCHANGED <<log, row, stored, pending, head, sockets, marks, reach, left, got,
                 evictions>>

\* Every path of alarm() after its drain ends in refreshRecoveryAlarm.
AlarmReturns ==
  /\ pc["alarm"] = "drained" \/ (pc["alarm"] = "fired" /\ pending = {})
  /\ pc' = [pc EXCEPT !["alarm"] = "idle"]
  /\ UNCHANGED pending /\ RefreshAlarm
  /\ UNCHANGED <<log, row, stored, head, sockets, marks, reach, left, got, evictions>>

\* The object's memory goes; its sockets hibernate with their attachments,
\* and an alarm that had not returned is delivered again.
Evict ==
  /\ evictions < MaxEvictions
  /\ evictions' = evictions + 1
  /\ alarm' = (alarm \/ pc["alarm"] # "idle")
  /\ pc' = [s \in Strands |-> "idle"] /\ marks' = [s \in Strands |-> {}]
  /\ reach' = [s \in Strands |-> 0]
  /\ left' = [s \in Strands |-> {}] /\ got' = [s \in Strands |-> <<>>]
  /\ UNCHANGED <<log, row, stored, pending, head, sockets>>

-----------------------------------------------------------------------------
(* Sockets                                                                  *)

\* The lastSent a handshake registers its socket with: head.lastCursor.
RegisteredAtMark == through
RegisteredAsNew == 0
Registered == last

\* upgrade(): handshake and registration in one blockConcurrencyWhile.
Attach(o) ==
  /\ o \notin open
  /\ open' = open \cup {o}
  /\ sent' = [sent EXCEPT ![o] = Registered]
  /\ UNCHANGED <<log, row, stored, pending, head, alarm, drains, evictions>>

\* The socket closes, from either end or because a send failed.
Detach(o) ==
  /\ o \in open
  /\ open' = open \ {o}
  /\ sent' = [sent EXCEPT ![o] = 0]
  /\ UNCHANGED <<log, row, stored, pending, head, alarm, drains, evictions>>

OutboxNext ==
  \/ \E entities \in Contributions : CommitPublications(entities)
  \/ \E s \in Strands : DrainLists(s) \/ DrainReads(s) \/ DrainDelivers(s) \/ DrainCommits(s)
  \/ AlarmFires \/ AlarmReturns \/ Evict
  \/ \E o \in Observers : Attach(o) \/ Detach(o)

OutboxSpec == OutboxInit /\ [][OutboxNext]_outbox

-----------------------------------------------------------------------------
(* Properties                                                               *)

\* The types of the head, of the markers and of the drains.
OutboxTypeOK ==
  /\ log \in Seq(Entities) /\ row \in [Entities -> Nat]
  /\ stored \subseteq Nat /\ pending \subseteq Nat
  /\ first \in Nat \ {0} /\ through \in Nat
  /\ alarm \in BOOLEAN
  /\ open \subseteq Observers /\ sent \in [Observers -> Nat]
  /\ pc \in [Strands -> Places]
  /\ marks \in [Strands -> SUBSET Nat] /\ left \in [Strands -> SUBSET Nat]
  /\ reach \in [Strands -> Nat] /\ got \in [Strands -> Seq(Frames)]
  /\ evictions \in Nat

\* publication.ts: an undrained obligation is never deleted merely to fit the
\* replay window.  However drains overlap, the markers are exactly the cursors
\* past broadcastThrough, the replay window has no gap, and whatever is still
\* owed can be replayed.
WindowHoldsWhatIsOwed ==
  /\ pending = through + 1 .. last
  /\ stored = first .. last
  /\ first <= through + 1

\* A socket that a drain is about to broadcast on gets every update after its
\* lastSent, up to the drain's last marker, and each with the payload it was
\* committed with, even if another drain trimmed the update meanwhile.
BroadcastIsExact ==
  \A s \in Strands, o \in open :
    pc[s] = "reading" /\ left[s] = {} =>
      /\ \A c \in sent[o] + 1 .. reach[s] :
           \E i \in DOMAIN got[s] : got[s][i].cursor = c
      /\ \A i \in DOMAIN got[s] :
           Passes(got[s][i], sent[o]) => got[s][i].payload = got[s][i].cursor

\* An update is not counted as broadcast before every open socket was offered
\* it: broadcastThrough never passes the lastSent of a socket.
NoSocketLeftBehind == \A o \in open : sent[o] >= through

\* What a drain in flight knows, although others commit, deliver and trim
\* meanwhile.  Every owed cursor up to its last marker is one of its markers;
\* the updates it took are in order, lie before what it has yet to read, miss
\* no owed one and are exact for those still owed; and once it delivered, no
\* socket is behind its last marker.
DrainKnows(s) ==
  /\ reach[s] <= last /\ marks[s] \subseteq 1 .. reach[s] /\ left[s] \subseteq marks[s]
  /\ through + 1 .. reach[s] \subseteq marks[s]
  /\ \A i, j \in DOMAIN got[s] : i < j => got[s][i].cursor < got[s][j].cursor
  /\ \A i \in DOMAIN got[s] :
       /\ got[s][i].cursor \in marks[s]
       /\ \A c \in left[s] : got[s][i].cursor < c
       /\ got[s][i].cursor > through => got[s][i].payload = got[s][i].cursor
  /\ \A c \in marks[s] \ left[s] :
       c > through => \E i \in DOMAIN got[s] : got[s][i].cursor = c
  /\ pc[s] = "delivered" => left[s] = {} /\ \A o \in open : sent[o] >= reach[s]

\* The inductive invariant behind the outbox's theorems.
OutboxInv ==
  /\ OutboxTypeOK /\ through <= last
  /\ WindowHoldsWhatIsOwed /\ NoSocketLeftBehind
  /\ \A s \in Strands : pc[s] \in {"reading", "delivered"} => DrainKnows(s)

=============================================================================
