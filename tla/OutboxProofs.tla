----------------------------- MODULE OutboxProofs -----------------------------
(***************************************************************************)
(* Theorems of Outbox: for any number of draining strands, sockets, commits *)
(* and evictions the replay window holds what is owed, no socket is left    *)
(* behind, and what a drain broadcasts is exact.  All three follow from     *)
(* OutboxInv, which is inductive.                                           *)
(***************************************************************************)
EXTENDS Outbox, WellFoundedInduction, TLAPS

\* A non-empty set of positions has a last one, and Max names it.
LEMMA MaxIsOneOfThem ==
  ASSUME NEW n \in Nat, NEW S \in SUBSET (1 .. n), S # {}
  PROVE  Max(S) \in S /\ \A y \in S : Max(S) >= y
  <1> DEFINE T == {n - x : x \in S}
  <1>0. \A x \in S : x \in Nat /\ n - x \in Nat
    OBVIOUS
  <1>1. T \subseteq Nat /\ T # {}
    BY <1>0
  <1>2. PICK m \in T : \A y \in T : ~(<<y, m>> \in OpToRel(<, Nat))
    BY <1>1, NatLessThanWellFounded, WFMin
  <1>3. \A y \in T : ~(y < m)
    BY <1>1, <1>2 DEF OpToRel
  <1>4. PICK x \in S : m = n - x
    OBVIOUS
  <1>5. \A y \in S : n - y \in T /\ ~(n - y < m)
    BY <1>3
  <1>6. \A y \in S : x >= y
    BY <1>4, <1>5
  <1> QED
    BY <1>6 DEF Max

\* trimReplay keeps the window an interval up to the last cursor, and drops
\* nothing past the mark it is given.
LEMMA TrimKeepsTheWindow ==
  ASSUME first \in Nat \ {0}, NEW entities, Len(entities) \in Nat, NEW thru \in Nat,
         first <= thru + 1, TrimReplay(entities, first .. Len(entities), thru)
  PROVE  /\ stored' = first' .. Len(entities) /\ through' = thru
         /\ first' \in Nat \ {0} /\ first' <= thru + 1
  <1>1. PICK f \in first .. Len(entities) + 1 :
          /\ TrimsTo(f, entities, thru)
          /\ first' = f /\ through' = thru
          /\ stored' = {c \in first .. Len(entities) : c >= f}
    BY DEF TrimReplay
  <1>2. f <= thru + 1
    BY <1>1 DEF TrimsTo, Droppable
  <1> QED
    BY <1>1, <1>2

\* Where the frames of two sequences are in their concatenation.
LEMMA Appended ==
  ASSUME NEW u \in Seq(Frames), NEW v \in Seq(Frames)
  PROVE  /\ DOMAIN u = 1 .. Len(u) /\ Len(u) \in Nat
         /\ DOMAIN (u \o v) = 1 .. Len(u) + Len(v)
         /\ \A i \in 1 .. Len(u) : (u \o v)[i] = u[i]
         /\ \A i \in 1 .. Len(v) : (u \o v)[Len(u) + i] = v[i]
  OBVIOUS

\* A drain goes on knowing what it knew while the log grows, the mark
\* advances and sockets come, go and catch up.
LEMMA OthersLeaveDrainsAlone ==
  ASSUME OutboxTypeOK, NEW s \in Strands, DrainKnows(s),
         last' \in Nat, last' >= last, through' \in Nat, through' >= through,
         marks'[s] = marks[s], reach'[s] = reach[s], left'[s] = left[s],
         got'[s] = got[s], pc'[s] = pc[s],
         pc[s] = "delivered" => \A o \in open' : sent'[o] >= reach[s]
  PROVE  DrainKnows(s)'
  <1>1. reach[s] \in Nat /\ last \in Nat /\ through \in Nat /\ got[s] \in Seq(Frames)
    BY DEF OutboxTypeOK, last
  <1>2. /\ reach[s] <= last' /\ marks[s] \subseteq 1 .. reach[s]
        /\ left[s] \subseteq marks[s]
        /\ through' + 1 .. reach[s] \subseteq marks[s]
    BY <1>1 DEF DrainKnows
  <1>3. \A i, j \in DOMAIN got[s] : i < j => got[s][i].cursor < got[s][j].cursor
    BY DEF DrainKnows
  <1>4. \A i \in DOMAIN got[s] : got[s][i].cursor \in Nat
    <2>1. \A i \in DOMAIN got[s] : got[s][i] \in Frames
      BY <1>1
    <2> QED
      BY <2>1 DEF Frames
  <1>5. \A i \in DOMAIN got[s] :
          /\ got[s][i].cursor \in marks[s]
          /\ \A c \in left[s] : got[s][i].cursor < c
          /\ got[s][i].cursor > through' => got[s][i].payload = got[s][i].cursor
    BY <1>1, <1>4 DEF DrainKnows
  <1>6. \A c \in marks[s] \ left[s] :
          c > through' => \E i \in DOMAIN got[s] : got[s][i].cursor = c
    BY <1>1, <1>2 DEF DrainKnows
  <1>7. pc'[s] = "delivered" => left[s] = {} /\ \A o \in open' : sent'[o] >= reach[s]
    BY DEF DrainKnows
  <1> QED
    BY <1>2, <1>3, <1>5, <1>6, <1>7 DEF DrainKnows

\* An object that has published nothing satisfies the invariant.
THEOREM InitiallyInv == OutboxInit => OutboxInv
  <1> SUFFICES ASSUME OutboxInit PROVE OutboxInv
    OBVIOUS
  <1>1. last = 0 /\ log \in Seq(Entities)
    BY DEF OutboxInit, last
  <1>2. OutboxTypeOK
    <2>1. got \in [Strands -> Seq(Frames)]
      BY DEF OutboxInit
    <2>2. marks \in [Strands -> SUBSET Nat] /\ left \in [Strands -> SUBSET Nat]
      BY DEF OutboxInit
    <2>3. /\ row \in [Entities -> Nat] /\ sent \in [Observers -> Nat]
          /\ pc \in [Strands -> Places] /\ reach \in [Strands -> Nat]
      BY DEF OutboxInit, Places
    <2>4. /\ stored \subseteq Nat /\ pending \subseteq Nat
          /\ first \in Nat \ {0} /\ through \in Nat
          /\ open \subseteq Observers /\ evictions \in Nat
      BY SMT DEF OutboxInit
    <2>5. alarm \in BOOLEAN
      BY DEF OutboxInit
    <2> QED
      BY <1>1, <2>1, <2>2, <2>3, <2>4, <2>5 DEF OutboxTypeOK
  <1>3. WindowHoldsWhatIsOwed /\ NoSocketLeftBehind /\ through <= last
    BY <1>1 DEF OutboxInit, WindowHoldsWhatIsOwed, NoSocketLeftBehind
  <1>4. \A s \in Strands : pc[s] \notin {"reading", "delivered"}
    BY DEF OutboxInit
  <1> QED
    BY <1>2, <1>3, <1>4 DEF OutboxInv

\* commitPublicationsV1 extends the window and the markers together.
LEMMA CommitKeepsInv ==
  ASSUME OutboxInv, NEW entities \in Contributions, CommitPublications(entities)
  PROVE  OutboxInv'
  <1> DEFINE more == last + 1 .. last + Len(entities)
  <1>0. /\ OutboxTypeOK /\ WindowHoldsWhatIsOwed /\ NoSocketLeftBehind /\ through <= last
        /\ log \in Seq(Entities) /\ entities \in Seq(Entities)
        /\ first \in Nat \ {0} /\ through \in Nat /\ last \in Nat /\ Len(entities) \in Nat
    BY ContributionsAssumption DEF OutboxInv, OutboxTypeOK, last
  <1>1. log' \in Seq(Entities) /\ Len(log') = last + Len(entities)
    BY <1>0 DEF CommitPublications, last
  <1>2. last' = last + Len(entities)
    BY <1>1 DEF last
  <1>3. stored \cup more = first .. Len(log')
    BY <1>0, <1>1 DEF WindowHoldsWhatIsOwed
  <1>4. /\ stored' = first' .. last' /\ through' = through
        /\ first' \in Nat \ {0} /\ first' <= through + 1
    <2>1. TrimReplay(log', first .. Len(log'), through)
      BY <1>3 DEF CommitPublications
    <2>2. first <= through + 1 /\ Len(log') \in Nat
      BY <1>0, <1>1 DEF WindowHoldsWhatIsOwed
    <2> QED
      BY <1>0, <1>1, <1>2, <2>1, <2>2, TrimKeepsTheWindow
  <1>5. pending' = through + 1 .. last'
    BY <1>0, <1>2 DEF CommitPublications, WindowHoldsWhatIsOwed
  <1>6. row' \in [Entities -> Nat]
    <2> DEFINE at(e) == {j \in DOMAIN entities : entities[j] = e}
    <2>1. ASSUME NEW e \in Entities, at(e) # {} PROVE last + Max(at(e)) \in Nat
      <3>1. at(e) \in SUBSET (1 .. Len(entities)) /\ at(e) \subseteq Nat
        BY <1>0
      <3>2. Max(at(e)) \in at(e)
        BY <1>0, <2>1, <3>1, MaxIsOneOfThem
      <3> HIDE DEF at
      <3>3. Max(at(e)) \in Nat
        BY <3>1, <3>2
      <3> QED
        BY <1>0, <3>3
    <2>2. row \in [Entities -> Nat]
      BY <1>0 DEF OutboxTypeOK
    <2> QED
      BY <2>1, <2>2 DEF CommitPublications
  <1>7. alarm' \in BOOLEAN
    BY DEF CommitPublications, RefreshAlarm
  <1>8. UNCHANGED <<open, sent, pc, marks, reach, left, got, evictions>>
    BY DEF CommitPublications, sockets, drains
  <1>9. OutboxTypeOK'
    <2>1. stored' \subseteq Nat /\ pending' \subseteq Nat /\ through' \in Nat
      BY <1>0, <1>2, <1>4, <1>5
    <2> QED
      BY <1>0, <1>1, <1>4, <1>6, <1>7, <1>8, <2>1 DEF OutboxTypeOK
  <1>10. WindowHoldsWhatIsOwed' /\ NoSocketLeftBehind' /\ through' <= last'
    BY <1>0, <1>2, <1>4, <1>5, <1>8 DEF WindowHoldsWhatIsOwed, NoSocketLeftBehind
  <1>11. ASSUME NEW s \in Strands, pc'[s] \in {"reading", "delivered"}
         PROVE  DrainKnows(s)'
    <2>1. DrainKnows(s) /\ last' \in Nat /\ last' >= last
      BY <1>0, <1>2, <1>8, <1>11 DEF OutboxInv
    <2>2. pc[s] = "delivered" => \A o \in open' : sent'[o] >= reach[s]
      BY <1>8, <2>1 DEF DrainKnows
    <2> QED
      BY <1>0, <1>4, <1>8, <2>1, <2>2, OthersLeaveDrainsAlone
  <1> QED
    BY <1>9, <1>10, <1>11 DEF OutboxInv

\* Steps that leave the log, the head and the sockets alone preserve the
\* invariant when they leave the drains sound.
LEMMA QuietStepKeepsInv ==
  ASSUME OutboxInv, UNCHANGED <<log, row, stored, pending, first, through, open, sent>>,
         OutboxTypeOK', \A s \in Strands : pc'[s] \in {"reading", "delivered"} => DrainKnows(s)'
  PROVE  OutboxInv'
  BY DEF OutboxInv, WindowHoldsWhatIsOwed, NoSocketLeftBehind, last

\* A page of markers holds every owed cursor up to its end.
LEMMA ListKeepsInv ==
  ASSUME OutboxInv, NEW s \in Strands, DrainLists(s)
  PROVE  OutboxInv'
  <1>0. OutboxTypeOK /\ WindowHoldsWhatIsOwed /\ last \in Nat /\ through \in Nat
    BY DEF OutboxInv, OutboxTypeOK, last
  <1>1. PICK end \in pending :
          /\ reach' = [reach EXCEPT ![s] = end]
          /\ marks' = [marks EXCEPT ![s] = {c \in pending : c <= end}]
          /\ left' = [left EXCEPT ![s] = {c \in pending : c <= end}]
    BY DEF DrainLists
  <1>2. UNCHANGED <<log, row, stored, pending, first, through, alarm, open, sent, evictions>>
    BY DEF DrainLists, head, sockets
  <1>3. pc' = [pc EXCEPT ![s] = "reading"] /\ got' = [got EXCEPT ![s] = <<>>]
    BY DEF DrainLists
  <1>4. OutboxTypeOK'
    <2>1. end \in Nat /\ {c \in pending : c <= end} \in SUBSET Nat
      BY <1>0 DEF OutboxTypeOK
    <2>2. /\ marks' \in [Strands -> SUBSET Nat] /\ left' \in [Strands -> SUBSET Nat]
          /\ reach' \in [Strands -> Nat]
      BY <1>0, <1>1, <2>1 DEF OutboxTypeOK
    <2>3. got' \in [Strands -> Seq(Frames)]
      BY <1>0, <1>3 DEF OutboxTypeOK
    <2>4. pc' \in [Strands -> Places]
      BY <1>0, <1>3 DEF OutboxTypeOK, Places
    <2> QED
      BY <1>0, <1>2, <2>2, <2>3, <2>4 DEF OutboxTypeOK
  <1>5. ASSUME NEW z \in Strands, pc'[z] \in {"reading", "delivered"}
        PROVE  DrainKnows(z)'
    <2>1. CASE z = s
      <3>1. /\ pc'[s] = "reading" /\ got'[s] = <<>> /\ reach'[s] = end
            /\ marks'[s] = {c \in pending : c <= end}
            /\ left'[s] = {c \in pending : c <= end}
        BY <1>0, <1>1, <1>3 DEF OutboxTypeOK
      <3>2. pending = through + 1 .. last /\ last' = last /\ through' = through
        BY <1>0, <1>2 DEF WindowHoldsWhatIsOwed, last
      <3>3. DOMAIN got'[s] = {}
        BY <3>1
      <3> QED
        BY <1>0, <2>1, <3>1, <3>2, <3>3 DEF DrainKnows
    <2>2. CASE z # s
      <3>1. /\ pc'[z] = pc[z] /\ marks'[z] = marks[z] /\ reach'[z] = reach[z]
            /\ left'[z] = left[z] /\ got'[z] = got[z]
        BY <1>0, <1>1, <1>3, <2>2 DEF OutboxTypeOK
      <3>2. DrainKnows(z) /\ last' = last
        BY <1>2, <1>5, <3>1 DEF OutboxInv, last
      <3>3. pc[z] = "delivered" => \A o \in open' : sent'[o] >= reach[z]
        BY <1>2, <3>2 DEF DrainKnows
      <3> QED
        BY <1>0, <1>2, <3>1, <3>2, <3>3, OthersLeaveDrainsAlone
    <2> QED
      BY <2>1, <2>2
  <1> QED
    BY <1>2, <1>4, <1>5, QuietStepKeepsInv

\* reconstructUpdate takes the committed update of a cursor that is still owed.
LEMMA ReadKeepsInv ==
  ASSUME OutboxInv, NEW s \in Strands, DrainReads(s)
  PROVE  OutboxInv'
  <1>0. /\ OutboxTypeOK /\ WindowHoldsWhatIsOwed /\ DrainKnows(s)
        /\ last \in Nat /\ through \in Nat /\ first \in Nat /\ log \in Seq(Entities)
        /\ got[s] \in Seq(Frames) /\ left[s] \subseteq Nat /\ marks[s] \subseteq Nat
        /\ reach[s] \in Nat /\ pc[s] = "reading"
    BY DEF OutboxInv, OutboxTypeOK, last, DrainReads
  <1>1. PICK c \in left[s] :
          /\ \A k \in left[s] : c <= k
          /\ left' = [left EXCEPT ![s] = @ \ {c}]
          /\ got' = [got EXCEPT ![s] = @ \o Reconstructed(c)]
    BY DEF DrainReads
  <1>2. UNCHANGED <<log, row, stored, pending, first, through, alarm, open, sent, pc, marks,
                    reach, evictions>>
    BY DEF DrainReads, head, sockets
  <1>3. c \in marks[s] /\ c \in 1 .. last
    BY <1>0 DEF DrainKnows
  <1> DEFINE new == Reconstructed(c)
  <1>4. /\ new \in Seq(Frames)
        /\ Len(new) \in {0, 1} /\ (Len(new) = 1 => new[1].cursor = c)
        /\ c > through => Len(new) = 1 /\ new[1].payload = c
    <2>1. row[log[c]] \in Nat /\ c \in Nat
      BY <1>0, <1>3 DEF OutboxTypeOK, last
    <2>2. c > through => c \in stored
      BY <1>0, <1>3 DEF WindowHoldsWhatIsOwed
    <2> DEFINE fresh == [cursor |-> c, payload |-> c]
               stale == [cursor |-> c, payload |-> row[log[c]]]
    <2>3. /\ fresh \in Frames /\ fresh.cursor = c /\ fresh.payload = c
          /\ stale \in Frames /\ stale.cursor = c
      BY <2>1 DEF Frames
    <2>4. \/ Reconstructed(c) = <<fresh>>
          \/ c \notin stored /\ Reconstructed(c) = <<stale>>
          \/ c \notin stored /\ Reconstructed(c) = <<>>
      BY DEF Reconstructed
    <2> HIDE DEF fresh, stale
    <2>5. CASE Reconstructed(c) = <<fresh>>
      BY <2>3, <2>5
    <2>6. CASE c \notin stored /\ Reconstructed(c) = <<stale>>
      BY <2>2, <2>3, <2>6
    <2>7. CASE c \notin stored /\ Reconstructed(c) = <<>>
      BY <2>2, <2>7
    <2> QED
      BY <2>4, <2>5, <2>6, <2>7
  <1>5. /\ left'[s] = left[s] \ {c} /\ got'[s] = got[s] \o new
        /\ got'[s] \in Seq(Frames)
    BY <1>0, <1>1, <1>4 DEF OutboxTypeOK
  <1> HIDE DEF new
  <1>6. OutboxTypeOK'
    <2>1. left' \in [Strands -> SUBSET Nat]
      BY <1>0, <1>1 DEF OutboxTypeOK
    <2>2. got' \in [Strands -> Seq(Frames)]
      BY <1>0, <1>1, <1>4, <1>5 DEF OutboxTypeOK
    <2> QED
      BY <1>0, <1>2, <2>1, <2>2 DEF OutboxTypeOK
  <1>7. DrainKnows(s)'
    <2>0. /\ DOMAIN got[s] = 1 .. Len(got[s]) /\ Len(got[s]) \in Nat
          /\ DOMAIN got'[s] = 1 .. Len(got[s]) + Len(new)
          /\ \A i \in 1 .. Len(got[s]) : got'[s][i] = got[s][i]
          /\ \A i \in 1 .. Len(new) : got'[s][Len(got[s]) + i] = new[i]
      BY <1>0, <1>4, <1>5, Appended
    <2>1. \A i \in DOMAIN got'[s] :
            \/ i \in DOMAIN got[s] /\ got'[s][i] = got[s][i]
            \/ i = Len(got[s]) + 1 /\ Len(new) = 1 /\ got'[s][i] = new[1]
      <3>1. ASSUME NEW i \in DOMAIN got'[s], i \notin DOMAIN got[s]
            PROVE  i = Len(got[s]) + 1 /\ Len(new) = 1
        BY <1>4, <2>0, <3>1
      <3> QED
        BY <2>0, <3>1
    <2>2. \A i \in DOMAIN got[s] : i \in DOMAIN got'[s] /\ got'[s][i] = got[s][i]
      BY <1>4, <2>0
    <2>3. Len(new) = 1 => /\ Len(got[s]) + 1 \in DOMAIN got'[s]
                          /\ got'[s][Len(got[s]) + 1] = new[1]
      BY <2>0
    <2>4. \A i \in DOMAIN got[s] : got[s][i].cursor < c /\ got[s][i].cursor \in Nat
      <3>1. \A i \in DOMAIN got[s] : got[s][i] \in Frames
        BY <1>0
      <3> QED
        BY <1>0, <3>1 DEF DrainKnows, Frames
    <2>5. \A i, j \in DOMAIN got'[s] : i < j => got'[s][i].cursor < got'[s][j].cursor
      <3> SUFFICES ASSUME NEW i \in DOMAIN got'[s], NEW j \in DOMAIN got'[s], i < j
                   PROVE  got'[s][i].cursor < got'[s][j].cursor
        OBVIOUS
      <3>1. i \in Nat \ {0} /\ j \in Nat /\ DOMAIN got[s] = 1 .. Len(got[s]) /\ Len(got[s]) \in Nat
        BY <2>0
      <3>2. CASE j \in DOMAIN got[s]
        <4>1. i \in DOMAIN got[s]
          BY <3>1, <3>2
        <4>2. got[s][i].cursor < got[s][j].cursor
          BY <1>0, <3>2, <4>1 DEF DrainKnows
        <4> QED
          BY <2>2, <3>2, <4>1, <4>2
      <3>3. CASE j = Len(got[s]) + 1 /\ Len(new) = 1 /\ got'[s][j] = new[1]
        BY <1>4, <2>1, <2>4, <3>1, <3>3
      <3> QED
        BY <2>1, <3>2, <3>3
    <2>6. \A i \in DOMAIN got'[s] :
            /\ got'[s][i].cursor \in marks[s]
            /\ \A k \in left'[s] : got'[s][i].cursor < k
            /\ got'[s][i].cursor > through => got'[s][i].payload = got'[s][i].cursor
      <3> SUFFICES ASSUME NEW i \in DOMAIN got'[s]
                   PROVE  /\ got'[s][i].cursor \in marks[s]
                          /\ \A k \in left'[s] : got'[s][i].cursor < k
                          /\ got'[s][i].cursor > through
                               => got'[s][i].payload = got'[s][i].cursor
        OBVIOUS
      <3>1. CASE i \in DOMAIN got[s] /\ got'[s][i] = got[s][i]
        BY <1>0, <1>5, <3>1 DEF DrainKnows
      <3>2. CASE Len(new) = 1 /\ got'[s][i] = new[1]
        <4>1. \A k \in left'[s] : c < k
          BY <1>0, <1>1, <1>5
        <4> QED
          BY <1>3, <1>4, <3>2, <4>1
      <3> QED
        BY <2>1, <3>1, <3>2
    <2>7. \A k \in marks[s] \ left'[s] :
            k > through => \E i \in DOMAIN got'[s] : got'[s][i].cursor = k
      <3> SUFFICES ASSUME NEW k \in marks[s] \ left'[s], k > through
                   PROVE  \E i \in DOMAIN got'[s] : got'[s][i].cursor = k
        OBVIOUS
      <3>1. CASE k = c
        BY <1>4, <2>3, <3>1
      <3>2. CASE k # c
        BY <1>0, <1>5, <2>2, <3>2 DEF DrainKnows
      <3> QED
        BY <3>1, <3>2
    <2>8. /\ reach[s] <= last /\ marks[s] \subseteq 1 .. reach[s]
          /\ left'[s] \subseteq marks[s] /\ through + 1 .. reach[s] \subseteq marks[s]
      BY <1>0, <1>5 DEF DrainKnows
    <2> QED
      BY <1>0, <1>2, <2>5, <2>6, <2>7, <2>8 DEF DrainKnows, last
  <1>8. ASSUME NEW z \in Strands, z # s, pc'[z] \in {"reading", "delivered"}
        PROVE  DrainKnows(z)'
    <2>1. /\ pc'[z] = pc[z] /\ marks'[z] = marks[z] /\ reach'[z] = reach[z]
          /\ left'[z] = left[z] /\ got'[z] = got[z]
      BY <1>0, <1>1, <1>2, <1>8 DEF OutboxTypeOK
    <2>2. DrainKnows(z) /\ last' = last
      BY <1>2, <1>8, <2>1 DEF OutboxInv, last
    <2>3. pc[z] = "delivered" => \A o \in open' : sent'[o] >= reach[z]
      BY <1>2, <2>2 DEF DrainKnows
    <2> QED
      BY <1>0, <1>2, <2>1, <2>2, <2>3, OthersLeaveDrainsAlone
  <1> QED
    BY <1>2, <1>6, <1>7, <1>8, QuietStepKeepsInv

\* After a broadcast every open socket has reached the drain's last marker:
\* its last update is that marker's, unless the mark had passed it already.
LEMMA DeliverKeepsInv ==
  ASSUME OutboxInv, NEW s \in Strands, DrainDelivers(s)
  PROVE  OutboxInv'
  <1>0. /\ OutboxTypeOK /\ WindowHoldsWhatIsOwed /\ DrainKnows(s) /\ NoSocketLeftBehind
        /\ through <= last /\ last \in Nat /\ through \in Nat /\ reach[s] \in Nat
        /\ got[s] \in Seq(Frames) /\ sent \in [Observers -> Nat] /\ open \subseteq Observers
        /\ pc[s] = "reading" /\ left[s] = {}
    BY DEF OutboxInv, OutboxTypeOK, last, DrainDelivers
  <1>1. UNCHANGED <<log, row, stored, pending, first, through, alarm, open, marks, reach,
                    left, got, evictions>>
    BY DEF DrainDelivers, head
  <1>2. pc' = [pc EXCEPT ![s] = "delivered"]
    BY DEF DrainDelivers
  <1>3. \A i \in DOMAIN got[s] : got[s][i].cursor \in Nat
    <2>1. \A i \in DOMAIN got[s] : got[s][i] \in Frames
      BY <1>0
    <2> QED
      BY <2>1 DEF Frames
  <1>4. \A o \in Observers :
          LET p == Advanced(got[s], sent[o])
          IN p \in Nat /\ p >= sent[o] /\ (sent[o] >= through => p >= reach[s])
    <2> TAKE o \in Observers
    <2> DEFINE n == Len(got[s])
               p == Advanced(got[s], sent[o])
    <2>1. n \in Nat /\ DOMAIN got[s] = 1 .. n /\ sent[o] \in Nat
      BY <1>0
    <2>2. n > 0 => /\ n \in DOMAIN got[s] /\ got[s][n].cursor \in Nat
                   /\ \A i \in DOMAIN got[s] : got[s][i].cursor <= got[s][n].cursor
      <3> HIDE DEF n
      <3>1. \A i, j \in DOMAIN got[s] : i < j => got[s][i].cursor < got[s][j].cursor
        BY <1>0 DEF DrainKnows
      <3>2. n > 0 => n \in DOMAIN got[s] /\ \A i \in DOMAIN got[s] : i < n \/ i = n
        BY <2>1
      <3> QED
        BY <1>3, <3>1, <3>2
    <2>3. got[s] = <<>> <=> n = 0
      BY <1>0
    <2>4. p = IF n > 0 /\ got[s][n].cursor > sent[o] THEN got[s][n].cursor ELSE sent[o]
      BY <2>1, <2>3 DEF Advanced, Passes
    <2>5. reach[s] > through => n > 0 /\ got[s][n].cursor >= reach[s]
      <3>1. reach[s] > through => \E i \in DOMAIN got[s] : got[s][i].cursor = reach[s]
        BY <1>0 DEF DrainKnows
      <3> QED
        BY <1>0, <1>3, <2>1, <2>2, <3>1
    <2>6. p \in Nat /\ p >= sent[o]
      BY <2>1, <2>2, <2>4
    <2>7. sent[o] >= through => p >= reach[s]
      BY <1>0, <2>1, <2>2, <2>4, <2>5
    <2> QED
      BY <2>6, <2>7
  <1>5. \A o \in Observers : sent'[o] = IF o \in open THEN Advanced(got[s], sent[o]) ELSE sent[o]
    BY DEF DrainDelivers
  <1>6. /\ sent' \in [Observers -> Nat]
        /\ \A o \in open : sent'[o] >= sent[o] /\ sent'[o] >= reach[s]
    <2>1. \A o \in Observers : sent'[o] \in Nat
      BY <1>0, <1>4, <1>5
    <2>2. sent' = [o \in Observers |-> sent'[o]]
      BY DEF DrainDelivers
    <2>3. \A o \in open : sent'[o] >= sent[o] /\ sent'[o] >= reach[s]
      BY <1>0, <1>4, <1>5 DEF NoSocketLeftBehind
    <2> QED
      BY <2>1, <2>2, <2>3
  <1>7. OutboxTypeOK'
    <2>1. pc' \in [Strands -> Places]
      BY <1>0, <1>2 DEF OutboxTypeOK, Places
    <2> QED
      BY <1>0, <1>1, <1>6, <2>1 DEF OutboxTypeOK
  <1>8. WindowHoldsWhatIsOwed' /\ through' <= last'
    BY <1>0, <1>1 DEF WindowHoldsWhatIsOwed, last
  <1>9. NoSocketLeftBehind'
    <2>1. \A o \in open : sent[o] >= through /\ sent[o] \in Nat /\ sent'[o] \in Nat
      BY <1>0, <1>6 DEF NoSocketLeftBehind
    <2> QED
      BY <1>0, <1>1, <1>6, <2>1 DEF NoSocketLeftBehind
  <1>10. DrainKnows(s)'
    <2>1. pc'[s] = "delivered"
      BY <1>0, <1>2 DEF OutboxTypeOK
    <2> QED
      BY <1>0, <1>1, <1>6, <2>1 DEF DrainKnows, last
  <1>11. ASSUME NEW z \in Strands, z # s, pc'[z] \in {"reading", "delivered"}
         PROVE  DrainKnows(z)'
    <2>1. pc'[z] = pc[z]
      BY <1>0, <1>2, <1>11 DEF OutboxTypeOK
    <2>2. DrainKnows(z) /\ last' = last /\ reach[z] \in Nat
      BY <1>0, <1>1, <1>11, <2>1 DEF OutboxInv, last, OutboxTypeOK
    <2>3. pc[z] = "delivered" => \A o \in open' : sent'[o] >= reach[z]
      <3>1. \A o \in open : sent[o] \in Nat /\ sent'[o] \in Nat
        BY <1>0, <1>6
      <3>2. pc[z] = "delivered" => \A o \in open : sent[o] >= reach[z]
        BY <2>2 DEF DrainKnows
      <3> QED
        BY <1>1, <1>6, <2>2, <3>1, <3>2
    <2> QED
      BY <1>0, <1>1, <2>1, <2>2, <2>3, OthersLeaveDrainsAlone
  <1> QED
    BY <1>7, <1>8, <1>9, <1>10, <1>11 DEF OutboxInv

\* The transaction after a broadcast deletes exactly the markers up to the new
\* mark, whatever other drains deleted in the meantime.
LEMMA DrainCommitKeepsInv ==
  ASSUME OutboxInv, NEW s \in Strands, DrainCommits(s)
  PROVE  OutboxInv'
  <1> DEFINE thru == IF reach[s] > through THEN reach[s] ELSE through
  <1>0. /\ OutboxTypeOK /\ WindowHoldsWhatIsOwed /\ DrainKnows(s) /\ NoSocketLeftBehind
        /\ through <= last /\ last \in Nat /\ through \in Nat /\ first \in Nat \ {0}
        /\ reach[s] \in Nat /\ pc[s] = "delivered"
    BY DEF OutboxInv, OutboxTypeOK, last, DrainCommits
  <1>1. UNCHANGED <<log, row, open, sent, left, evictions>> /\ last' = last
    BY DEF DrainCommits, sockets, last
  <1>2. thru \in Nat /\ thru >= through /\ thru >= reach[s] /\ thru <= last
    BY <1>0 DEF DrainKnows
  <1>3. /\ stored' = first' .. last /\ through' = thru
        /\ first' \in Nat \ {0} /\ first' <= thru + 1
    <2>1. TrimReplay(log, first .. Len(log), thru) /\ Len(log) = last
      BY <1>0 DEF DrainCommits, Reached, WindowHoldsWhatIsOwed, last
    <2>2. first <= thru + 1
      BY <1>0, <1>2 DEF WindowHoldsWhatIsOwed
    <2> HIDE DEF thru
    <2> QED
      BY <1>0, <1>2, <2>1, <2>2, TrimKeepsTheWindow
  <1>4. pending' = thru + 1 .. last
    <2>1. pending' = (through + 1 .. last) \ marks[s]
      BY <1>0 DEF DrainCommits, WindowHoldsWhatIsOwed
    <2>2. marks[s] \subseteq 1 .. reach[s] /\ through + 1 .. reach[s] \subseteq marks[s]
      BY <1>0 DEF DrainKnows
    <2> QED
      BY <1>0, <2>1, <2>2
  <1>5. /\ pc' = [pc EXCEPT ![s] = IF s = "alarm" THEN "drained" ELSE "idle"]
        /\ got' = [got EXCEPT ![s] = <<>>] /\ marks' = [marks EXCEPT ![s] = {}]
        /\ reach' = [reach EXCEPT ![s] = 0] /\ alarm' \in BOOLEAN
    BY DEF DrainCommits, RefreshAlarm
  <1> HIDE DEF thru
  <1>6. OutboxTypeOK'
    <2>1. got' \in [Strands -> Seq(Frames)]
      BY <1>0, <1>5 DEF OutboxTypeOK
    <2>2. marks' \in [Strands -> SUBSET Nat] /\ reach' \in [Strands -> Nat]
      BY <1>0, <1>5 DEF OutboxTypeOK
    <2>3. pc' \in [Strands -> Places]
      BY <1>0, <1>5 DEF OutboxTypeOK, Places
    <2>4. stored' \subseteq Nat /\ pending' \subseteq Nat /\ through' \in Nat
      BY <1>0, <1>2, <1>3, <1>4
    <2> QED
      BY <1>0, <1>1, <1>3, <1>5, <2>1, <2>2, <2>3, <2>4 DEF OutboxTypeOK
  <1>7. WindowHoldsWhatIsOwed' /\ through' <= last'
    BY <1>1, <1>2, <1>3, <1>4 DEF WindowHoldsWhatIsOwed
  <1>8. NoSocketLeftBehind'
    <2>1. \A o \in open : sent[o] >= through /\ sent[o] >= reach[s]
      BY <1>0 DEF DrainKnows, NoSocketLeftBehind
    <2> QED
      BY <1>1, <1>3, <2>1 DEF NoSocketLeftBehind, thru
  <1>9. ASSUME NEW z \in Strands, pc'[z] \in {"reading", "delivered"}
        PROVE  DrainKnows(z)'
    <2>1. z # s
      BY <1>0, <1>5, <1>9 DEF OutboxTypeOK
    <2>2. /\ pc'[z] = pc[z] /\ marks'[z] = marks[z] /\ reach'[z] = reach[z]
          /\ left'[z] = left[z] /\ got'[z] = got[z]
      BY <1>0, <1>1, <1>5, <2>1 DEF OutboxTypeOK
    <2>3. DrainKnows(z)
      BY <1>9, <2>2 DEF OutboxInv
    <2>4. pc[z] = "delivered" => \A o \in open' : sent'[o] >= reach[z]
      BY <1>1, <2>3 DEF DrainKnows
    <2> QED
      BY <1>0, <1>1, <1>2, <1>3, <2>2, <2>3, <2>4, OthersLeaveDrainsAlone
  <1> QED
    BY <1>6, <1>7, <1>8, <1>9 DEF OutboxInv

\* The alarm, evictions and sockets: none of them reads or writes a drain's
\* updates, an eviction forgets them all, and a new socket starts at the head.
LEMMA RestKeepsInv ==
  ASSUME OutboxInv,
         AlarmFires \/ AlarmReturns \/ Evict \/ \E o \in Observers : Attach(o) \/ Detach(o)
  PROVE  OutboxInv'
  <1>0. /\ OutboxTypeOK /\ WindowHoldsWhatIsOwed /\ NoSocketLeftBehind
        /\ through <= last /\ last \in Nat /\ through \in Nat
        /\ sent \in [Observers -> Nat] /\ open \subseteq Observers
        /\ pc \in [Strands -> Places] /\ "alarm" \in Strands
    BY DEF OutboxInv, OutboxTypeOK, last, Strands
  <1>1. CASE AlarmFires \/ AlarmReturns
    <2>1. /\ UNCHANGED <<log, row, stored, pending, first, through, open, sent, marks, reach,
                         left, got, evictions>>
          /\ alarm' \in BOOLEAN
      BY <1>1 DEF AlarmFires, AlarmReturns, RefreshAlarm, head, sockets
    <2>2. /\ pc' \in [Strands -> Places]
          /\ \A s \in Strands : pc'[s] \in {"reading", "delivered"} => pc'[s] = pc[s]
      BY <1>0, <1>1 DEF AlarmFires, AlarmReturns, Places
    <2>3. OutboxTypeOK'
      BY <1>0, <2>1, <2>2 DEF OutboxTypeOK
    <2>4. \A s \in Strands : pc'[s] \in {"reading", "delivered"} => DrainKnows(s)'
      BY <2>1, <2>2 DEF OutboxInv, DrainKnows, last
    <2> QED
      BY <2>1, <2>3, <2>4, QuietStepKeepsInv
  <1>2. CASE Evict
    <2>1. UNCHANGED <<log, row, stored, pending, first, through, open, sent>>
      BY <1>2 DEF Evict, head, sockets
    <2>2. evictions' \in Nat /\ alarm' \in BOOLEAN
      BY <1>0, <1>2 DEF Evict, OutboxTypeOK
    <2>3. got' \in [Strands -> Seq(Frames)]
      BY <1>2 DEF Evict
    <2>4. marks' \in [Strands -> SUBSET Nat] /\ left' \in [Strands -> SUBSET Nat]
      BY <1>2 DEF Evict
    <2>5. pc' \in [Strands -> Places] /\ reach' \in [Strands -> Nat]
      BY <1>2 DEF Evict, Places
    <2>6. OutboxTypeOK'
      BY <1>0, <2>1, <2>2, <2>3, <2>4, <2>5 DEF OutboxTypeOK
    <2>7. \A s \in Strands : pc'[s] \notin {"reading", "delivered"}
      BY <1>2 DEF Evict
    <2> QED
      BY <2>1, <2>6, <2>7, QuietStepKeepsInv
  <1>3. CASE \E o \in Observers : Attach(o) \/ Detach(o)
    <2>1. PICK o \in Observers : Attach(o) \/ Detach(o)
      BY <1>3
    <2>2. UNCHANGED <<log, row, stored, pending, first, through, alarm, pc, marks, reach, left,
                      got, evictions>>
      BY <2>1 DEF Attach, Detach, head, drains
    <2>3. /\ open' \subseteq Observers /\ sent' \in [Observers -> Nat]
          /\ \A x \in open' : sent'[x] = last \/ (x \in open /\ sent'[x] = sent[x])
      BY <1>0, <2>1 DEF Attach, Detach, Registered
    <2>4. OutboxTypeOK'
      BY <1>0, <2>2, <2>3 DEF OutboxTypeOK
    <2>5. WindowHoldsWhatIsOwed' /\ NoSocketLeftBehind' /\ through' <= last'
      BY <1>0, <2>2, <2>3 DEF WindowHoldsWhatIsOwed, NoSocketLeftBehind, last
    <2>6. ASSUME NEW s \in Strands, pc'[s] \in {"reading", "delivered"}
          PROVE  DrainKnows(s)'
      <3>1. DrainKnows(s) /\ last' = last
        BY <2>2, <2>6 DEF OutboxInv, last
      <3>2. pc[s] = "delivered" => \A x \in open' : sent'[x] >= reach[s]
        BY <1>0, <2>3, <3>1 DEF DrainKnows
      <3> QED
        BY <1>0, <2>2, <3>1, <3>2, OthersLeaveDrainsAlone
    <2> QED
      BY <2>4, <2>5, <2>6 DEF OutboxInv
  <1> QED
    BY <1>1, <1>2, <1>3

\* The invariant is about the outbox's variables alone.
LEMMA StutterKeepsInv ==
  ASSUME OutboxInv, UNCHANGED outbox
  PROVE  OutboxInv'
  BY DEF OutboxInv, outbox, head, sockets, drains, OutboxTypeOK, WindowHoldsWhatIsOwed,
         NoSocketLeftBehind, DrainKnows, last

\* Every step of the outbox preserves the invariant.
LEMMA StepKeepsInv ==
  ASSUME OutboxInv, [OutboxNext]_outbox
  PROVE  OutboxInv'
  BY CommitKeepsInv, ListKeepsInv, ReadKeepsInv, DeliverKeepsInv, DrainCommitKeepsInv,
     RestKeepsInv, StutterKeepsInv
  DEF OutboxNext

\* Types of the head, the markers, the sockets and the drains, and what every
\* drain in flight knows, hold in every reachable state of the outbox.
THEOREM OutboxInvariant == OutboxSpec => []OutboxInv
  BY InitiallyInv, StepKeepsInv, PTL DEF OutboxSpec

\* The markers are exactly the owed cursors, the replay window is whole and
\* holds all of them: trimReplay never drops an undrained update.
THEOREM WindowWhole == OutboxSpec => []WindowHoldsWhatIsOwed
  <1>1. OutboxInv => WindowHoldsWhatIsOwed
    BY DEF OutboxInv
  <1> QED
    BY <1>1, OutboxInvariant, PTL

\* broadcastThrough never passes the lastSent of an open socket.
THEOREM SocketsKeepUp == OutboxSpec => []NoSocketLeftBehind
  <1>1. OutboxInv => NoSocketLeftBehind
    BY DEF OutboxInv
  <1> QED
    BY <1>1, OutboxInvariant, PTL

\* A broadcast gives every open socket all it lacks up to the drain's last
\* marker, with the payloads committed, although other drains trim meanwhile.
THEOREM BroadcastExact == OutboxSpec => []BroadcastIsExact
  <1>1. OutboxInv => BroadcastIsExact
    <2> SUFFICES ASSUME OutboxInv, NEW s \in Strands, NEW o \in open,
                        pc[s] = "reading", left[s] = {}
                 PROVE  /\ \A c \in sent[o] + 1 .. reach[s] :
                             \E i \in DOMAIN got[s] : got[s][i].cursor = c
                        /\ \A i \in DOMAIN got[s] :
                             Passes(got[s][i], sent[o]) => got[s][i].payload = got[s][i].cursor
      BY DEF BroadcastIsExact
    <2>1. /\ DrainKnows(s) /\ sent[o] \in Nat /\ through \in Nat /\ reach[s] \in Nat
          /\ sent[o] >= through /\ marks[s] \subseteq Nat
      BY DEF OutboxInv, OutboxTypeOK, NoSocketLeftBehind
    <2>2. \A c \in sent[o] + 1 .. reach[s] : c > through /\ c \in marks[s] \ left[s]
      BY <2>1 DEF DrainKnows
    <2>3. \A c \in sent[o] + 1 .. reach[s] : \E i \in DOMAIN got[s] : got[s][i].cursor = c
      BY <2>1, <2>2 DEF DrainKnows
    <2>4. \A i \in DOMAIN got[s] : got[s][i].cursor \in Nat
      BY <2>1 DEF DrainKnows
    <2>5. \A i \in DOMAIN got[s] :
            Passes(got[s][i], sent[o]) => got[s][i].payload = got[s][i].cursor
      BY <2>1, <2>4 DEF DrainKnows, Passes
    <2> QED
      BY <2>3, <2>5
  <1> QED
    BY <1>1, OutboxInvariant, PTL

===============================================================================
