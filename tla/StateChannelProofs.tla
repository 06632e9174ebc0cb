-------------------------- MODULE StateChannelProofs --------------------------
(***************************************************************************)
(* The channel implements the outbox, so the outbox's theorems hold of it;  *)
(* and no client of the current protocol is ever sent a frame it would      *)
(* refuse: the frames on a socket continue the client's cursor, and end     *)
(* where the socket's lastSent says.  The rest is about the page of a       *)
(* client of either protocol: it only goes forward, and shows what was      *)
(* committed up to its cursor.                                              *)
(***************************************************************************)
EXTENDS StateChannel, OutboxProofs, PicksProofs, FiniteSetTheorems

WireFrames == [type : {"update", "snapshot", "ready"}, cursor : Nat, payload : Nat]
Positions == Nat \cup {NoCursor}

\* Turns have their types, and every observer has its part of the channel.
ChannelTypeOK ==
  /\ turn \in [Turns -> [status : {"none", "running", "settled"}, sends : Nat]]
  /\ link \in [Observers -> {"closed", "dialing", "open"}]
  /\ DOMAIN wire = Observers /\ DOMAIN queue = Observers /\ DOMAIN batch = Observers
  /\ DOMAIN presented = Observers /\ DOMAIN cursor = Observers /\ DOMAIN applied = Observers
  /\ open = {o \in Observers : link[o] = "open"}

\* Frame i of a sequence leaves off where the one before it does, the first
\* where the client is.
Chained(frames, position) ==
  \A i \in DOMAIN frames :
    /\ Follows(frames[i], IF i = 1 THEN position ELSE frames[i - 1].cursor)
    /\ frames[i].payload = frames[i].cursor

\* Where a client will be once it has accepted them all.
EndOf(frames, position) ==
  IF frames = <<>> THEN position ELSE frames[Len(frames)].cursor

\* A dialing client presents its cursor, and the frames on an open socket lead
\* from the client's cursor to the socket's lastSent.
Streams(o) ==
  /\ wire[o] \in Seq(WireFrames) /\ queue[o] \in Seq(WireFrames) /\ batch[o] \in Seq(WireFrames)
  /\ presented[o] \in Positions /\ cursor[o] \in Positions /\ applied[o] \in Positions
  /\ link[o] # "open" => wire[o] = <<>>
  /\ link[o] = "dialing" => presented[o] = cursor[o]
  /\ link[o] = "open" => Chained(wire[o], cursor[o]) /\ EndOf(wire[o], cursor[o]) = sent[o]

ChannelInv ==
  /\ OutboxInv /\ ChannelTypeOK
  /\ \A o \in Observers \ OldObservers : Streams(o)

-----------------------------------------------------------------------------
(* Sequences of frames                                                      *)

\* A chain appended where another ends makes one chain.
LEMMA ChainExtends ==
  ASSUME NEW w \in Seq(WireFrames), NEW f \in Seq(WireFrames), NEW p,
         Chained(w, p), Chained(f, EndOf(w, p))
  PROVE  /\ w \o f \in Seq(WireFrames) /\ Chained(w \o f, p)
         /\ EndOf(w \o f, p) = EndOf(f, EndOf(w, p))
  <1> DEFINE n == Len(w)
             m == Len(f)
  <1>1. /\ n \in Nat /\ m \in Nat /\ DOMAIN w = 1 .. n /\ DOMAIN f = 1 .. m
        /\ w \o f \in Seq(WireFrames) /\ Len(w \o f) = n + m /\ DOMAIN (w \o f) = 1 .. n + m
        /\ (w = <<>> <=> n = 0) /\ (f = <<>> <=> m = 0)
    OBVIOUS
  <1>2. \A i \in 1 .. n : (w \o f)[i] = w[i]
    OBVIOUS
  <1>3. \A i \in 1 .. m : (w \o f)[n + i] = f[i]
    OBVIOUS
  <1>4. \A i \in 1 .. n + m : i > n => (w \o f)[i] = f[i - n] /\ i - n \in 1 .. m
    BY <1>1, <1>3
  <1> DEFINE g == w \o f
  <1> HIDE DEF n, m, g
  <1>5. ASSUME NEW i \in DOMAIN g
        PROVE  /\ Follows(g[i], IF i = 1 THEN p ELSE g[i - 1].cursor)
               /\ g[i].payload = g[i].cursor
    <2>0. i \in 1 .. n + m
      BY <1>1, <1>5 DEF g
    <2>1. CASE i <= n
      <3>1. g[i] = w[i] /\ (i # 1 => g[i - 1] = w[i - 1]) /\ i \in DOMAIN w
        BY <1>1, <1>2, <2>0, <2>1 DEF g
      <3> QED
        BY <3>1 DEF Chained
    <2>2. CASE i > n
      <3>1. g[i] = f[i - n] /\ i - n \in DOMAIN f
        BY <1>1, <1>4, <2>0, <2>2 DEF g
      <3>2. i - n # 1 => i # 1 /\ g[i - 1] = f[(i - n) - 1]
        <4>1. i - n # 1 => i - 1 \in 1 .. n + m /\ i - 1 > n /\ i # 1
          BY <1>1, <2>0, <2>2
        <4>2. (i - 1) - n = (i - n) - 1
          BY <1>1, <2>0
        <4> QED
          BY <1>4, <4>1, <4>2 DEF g
      <3>3. i - n = 1 => (IF i = 1 THEN p ELSE g[i - 1].cursor) = EndOf(w, p)
        <4>1. i - n = 1 /\ i = 1 => n = 0
          BY <1>1, <2>0
        <4>2. i - n = 1 /\ i # 1 => i - 1 = n /\ n \in 1 .. n /\ n # 0
          BY <1>1, <2>0
        <4> QED
          BY <1>1, <1>2, <4>1, <4>2 DEF EndOf, g, n
      <3>4. Follows(f[i - n], IF i - n = 1 THEN EndOf(w, p) ELSE f[(i - n) - 1].cursor)
        BY <3>1 DEF Chained
      <3>5. f[i - n].payload = f[i - n].cursor
        BY <3>1 DEF Chained
      <3>6. Follows(g[i], IF i = 1 THEN p ELSE g[i - 1].cursor)
        BY <3>1, <3>2, <3>3, <3>4
      <3> QED
        BY <3>1, <3>5, <3>6
    <2> QED
      BY <1>1, <2>0, <2>1, <2>2
  <1>6. Chained(g, p)
    BY <1>5 DEF Chained
  <1>7. EndOf(g, p) = EndOf(f, EndOf(w, p))
    <2>1. CASE m = 0
      <3>1. g = w
        BY <1>1, <2>1 DEF g
      <3> QED
        BY <1>1, <2>1, <3>1 DEF EndOf
    <2>2. CASE m # 0
      <3>1. g # <<>> /\ Len(g) = n + m /\ n + m \in 1 .. n + m /\ n + m > n /\ (n + m) - n = m
        BY <1>1, <2>2 DEF g
      <3>2. g[n + m] = f[m]
        BY <1>4, <3>1 DEF g
      <3> QED
        BY <1>1, <2>2, <3>1, <3>2 DEF EndOf, m
    <2> QED
      BY <2>1, <2>2
  <1> QED
    BY <1>1, <1>6, <1>7 DEF g

\* A snapshot and its ready, as a sequence.
LEMMA TwoFrames ==
  ASSUME NEW a \in WireFrames, NEW b \in WireFrames
  PROVE  LET h == Append(<<a>>, b)
         IN  /\ h \in Seq(WireFrames) /\ Len(h) = 2 /\ DOMAIN h = 1 .. 2 /\ h # <<>>
             /\ h[1] = a /\ h[2] = b
  <1>1. <<a>> \in Seq(WireFrames) /\ Len(<<a>>) = 1 /\ <<a>>[1] = a
    OBVIOUS
  <1> DEFINE u == <<a>>
             h == Append(u, b)
  <1> HIDE DEF u
  <1>2. /\ h \in Seq(WireFrames) /\ h # <<>> /\ Len(h) = Len(u) + 1
        /\ \A i \in 1 .. Len(u) : h[i] = u[i] /\ h[Len(u) + 1] = b
    BY <1>1, AppendProperties DEF u
  <1> HIDE DEF h
  <1>3. Len(h) = 2 /\ DOMAIN h = 1 .. 2 /\ h[1] = a /\ h[2] = b
    BY <1>1, <1>2 DEF u
  <1> QED
    BY <1>2, <1>3 DEF h, u

\* A client that accepts the first frame has the rest of the chain before it.
LEMMA ChainAdvances ==
  ASSUME NEW w \in Seq(WireFrames), NEW p, w # <<>>, Chained(w, p)
  PROVE  /\ Tail(w) \in Seq(WireFrames) /\ Head(w) \in WireFrames /\ Follows(Head(w), p)
         /\ Chained(Tail(w), Head(w).cursor)
         /\ EndOf(Tail(w), Head(w).cursor) = EndOf(w, p)
  <1>1. /\ Len(w) \in Nat \ {0} /\ DOMAIN w = 1 .. Len(w) /\ Head(w) = w[1]
        /\ Tail(w) \in Seq(WireFrames) /\ Len(Tail(w)) = Len(w) - 1
        /\ DOMAIN Tail(w) = 1 .. Len(w) - 1
        /\ \A i \in 1 .. Len(w) - 1 : Tail(w)[i] = w[i + 1]
    OBVIOUS
  <1>2. Follows(w[1], p) /\ w[1] \in WireFrames
    BY <1>1 DEF Chained
  <1>3. ASSUME NEW i \in DOMAIN Tail(w)
        PROVE  /\ Follows(Tail(w)[i], IF i = 1 THEN Head(w).cursor ELSE Tail(w)[i - 1].cursor)
               /\ Tail(w)[i].payload = Tail(w)[i].cursor
    <2>1. i + 1 \in DOMAIN w /\ i + 1 # 1 /\ (i + 1) - 1 = i /\ Tail(w)[i] = w[i + 1]
      BY <1>1, <1>3
    <2>2. i # 1 => Tail(w)[i - 1] = w[i]
      <3>1. i # 1 => i - 1 \in 1 .. Len(w) - 1 /\ (i - 1) + 1 = i
        BY <1>1, <1>3
      <3> QED
        BY <1>1, <3>1
    <2>3. Follows(w[i + 1], w[i].cursor) /\ w[i + 1].payload = w[i + 1].cursor
      BY <2>1 DEF Chained
    <2> QED
      BY <1>1, <2>1, <2>2, <2>3
  <1>4. EndOf(Tail(w), Head(w).cursor) = EndOf(w, p)
    <2>1. CASE Len(w) = 1
      BY <1>1, <2>1 DEF EndOf
    <2>2. CASE Len(w) # 1
      <3>1. Len(w) - 1 \in 1 .. Len(w) - 1 /\ (Len(w) - 1) + 1 = Len(w)
        BY <1>1, <2>2
      <3>2. Tail(w)[Len(w) - 1] = w[Len(w)]
        BY <1>1, <3>1
      <3>3. Tail(w) # <<>>
        BY <1>1, <2>2
      <3> QED
        BY <1>1, <3>2, <3>3 DEF EndOf
    <2> QED
      BY <2>1, <2>2
  <1> QED
    BY <1>1, <1>2, <1>3, <1>4 DEF Chained

-----------------------------------------------------------------------------
(* What the object puts on a socket                                         *)

\* A handshake leads from the presented cursor to the head, whether it replays
\* or sends a snapshot.
LEMMA HandshakeChains ==
  ASSUME OutboxInv, NEW c \in Positions
  PROVE  /\ Handshake(c) \in Seq(WireFrames) /\ Chained(Handshake(c), c)
         /\ EndOf(Handshake(c), c) = last
  <1>0. last \in Nat /\ first \in Nat \ {0}
    BY DEF OutboxInv, OutboxTypeOK, last
  <1>1. \A n \in Nat : /\ UpdateFrame(n, n) \in WireFrames /\ SnapshotFrame(n) \in WireFrames
                       /\ ReadyFrame(n) \in WireFrames
    BY DEF UpdateFrame, SnapshotFrame, ReadyFrame, WireFrames
  <1> DEFINE h == Handshake(c)
  <1>2. CASE Replays(c)
    <2>1. c \in Nat /\ c <= last
      BY <1>0, <1>2 DEF Replays, Positions, NoCursor
    <2> DEFINE n == last - c
               u == [i \in 1 .. n |-> UpdateFrame(c + i, c + i)]
    <2>2. n \in Nat /\ h = Append(u, ReadyFrame(last))
      BY <1>0, <1>2, <2>1 DEF Handshake
    <2>3. u \in Seq(WireFrames) /\ Len(u) = n
      <3>1. \A i \in 1 .. n : UpdateFrame(c + i, c + i) \in WireFrames
        BY <1>0, <1>1, <2>1
      <3>2. n \in Nat
        BY <2>2
      <3> HIDE DEF n
      <3> QED
        BY <3>1, <3>2
    <2>4. /\ h \in Seq(WireFrames) /\ Len(h) = n + 1 /\ DOMAIN h = 1 .. n + 1
          /\ h[n + 1] = ReadyFrame(last)
          /\ \A i \in 1 .. n : h[i] = UpdateFrame(c + i, c + i)
      <3> HIDE DEF n, h
      <3>1. \A i \in 1 .. n : u[i] = UpdateFrame(c + i, c + i)
        OBVIOUS
      <3> HIDE DEF u
      <3> QED
        BY <1>0, <1>1, <2>2, <2>3, <3>1
    <2>5. /\ h[n + 1].cursor = last /\ h[n + 1].payload = last /\ h[n + 1].type = "ready"
          /\ \A i \in 1 .. n : h[i].cursor = c + i /\ h[i].payload = c + i /\ h[i].type = "update"
      <3> HIDE DEF h, u, n
      <3>1. \A x, y : /\ UpdateFrame(x, y).cursor = x /\ UpdateFrame(x, y).payload = y
                      /\ UpdateFrame(x, y).type = "update"
        BY DEF UpdateFrame
      <3>2. /\ ReadyFrame(last).cursor = last /\ ReadyFrame(last).payload = last
            /\ ReadyFrame(last).type = "ready"
        BY DEF ReadyFrame
      <3> QED
        BY <2>4, <3>1, <3>2
    <2> HIDE DEF h, u
    <2>6. ASSUME NEW i \in DOMAIN h
          PROVE  /\ Follows(h[i], IF i = 1 THEN c ELSE h[i - 1].cursor)
                 /\ h[i].payload = h[i].cursor
      <3>0. i \in 1 .. n + 1
        BY <2>4, <2>6
      <3>1. i # 1 => i - 1 \in 1 .. n /\ h[i - 1].cursor = c + (i - 1)
        BY <2>2, <2>5, <3>0
      <3>2. (IF i = 1 THEN c ELSE h[i - 1].cursor) = c + (i - 1)
        BY <2>1, <3>0, <3>1
      <3>3. CASE i \in 1 .. n
        <4>1. c + i = (c + (i - 1)) + 1 /\ c + (i - 1) # NoCursor
          BY <2>1, <3>0 DEF NoCursor
        <4> QED
          BY <2>5, <3>2, <3>3, <4>1 DEF Follows
      <3>4. CASE i = n + 1
        <4>1. c + (i - 1) = last
          BY <1>0, <2>1, <3>4
        <4> QED
          BY <2>5, <3>2, <3>4, <4>1 DEF Follows
      <3> QED
        BY <2>2, <3>0, <3>3, <3>4
    <2>7. EndOf(h, c) = last
      BY <2>2, <2>4, <2>5 DEF EndOf
    <2> QED
      BY <2>4, <2>6, <2>7 DEF Chained, h
  <1>3. CASE ~Replays(c)
    <2>1. h = Append(<<SnapshotFrame(last)>>, ReadyFrame(last))
      BY <1>3 DEF Handshake
    <2>2. /\ h \in Seq(WireFrames) /\ Len(h) = 2 /\ DOMAIN h = 1 .. 2 /\ h # <<>>
          /\ h[1] = SnapshotFrame(last) /\ h[2] = ReadyFrame(last)
      BY <1>0, <1>1, <2>1, TwoFrames
    <2>3. /\ h[1].type = "snapshot" /\ h[1].cursor = last /\ h[1].payload = last
          /\ h[2].type = "ready" /\ h[2].cursor = last /\ h[2].payload = last
      BY <2>2 DEF SnapshotFrame, ReadyFrame
    <2> HIDE DEF h
    <2>4. Chained(h, c)
      BY <2>2, <2>3 DEF Chained, Follows
    <2>5. EndOf(h, c) = last
      BY <2>2, <2>3 DEF EndOf
    <2> QED
      BY <2>2, <2>4, <2>5 DEF h
  <1> QED
    BY <1>2, <1>3

\* A broadcast continues a socket from its lastSent, without a gap, and ends
\* at its next lastSent.
LEMMA BroadcastChains ==
  ASSUME OutboxInv, NEW s \in Strands, NEW o \in open, pc[s] = "reading", left[s] = {}
  PROVE  /\ NewFrames(s, o) \in Seq(WireFrames) /\ Chained(NewFrames(s, o), sent[o])
         /\ EndOf(NewFrames(s, o), sent[o]) = Advanced(got[s], sent[o])
         /\ \A i \in DOMAIN NewFrames(s, o) :
              NewFrames(s, o)[i].type = "update" /\ NewFrames(s, o)[i].cursor \in 1 .. last
  <1> DEFINE g == got[s]
             n == Len(got[s])
             p == sent[o]
             k == Known(got[s], sent[o])
             f == NewFrames(s, o)
  <1>0. /\ DrainKnows(s) /\ p \in Nat /\ through \in Nat /\ p >= through /\ reach[s] \in Nat
        /\ g \in Seq(Frames) /\ n \in Nat /\ DOMAIN g = 1 .. n /\ marks[s] \subseteq 1 .. reach[s]
    <2>1. /\ p \in Nat /\ through \in Nat /\ p >= through /\ reach[s] \in Nat
          /\ g \in Seq(Frames) /\ DrainKnows(s)
      BY DEF OutboxInv, OutboxTypeOK, NoSocketLeftBehind
    <2>2. n \in Nat /\ DOMAIN g = 1 .. n
      BY <2>1
    <2> QED
      BY <2>1, <2>2 DEF DrainKnows
  <1>1. \A i \in 1 .. n : g[i].cursor \in Nat /\ g[i].cursor <= reach[s] /\ g[i].payload \in Nat
    <2>1. \A i \in 1 .. n : g[i] \in Frames /\ g[i].cursor \in marks[s]
      BY <1>0 DEF DrainKnows
    <2> QED
      BY <1>0, <2>1 DEF Frames
  <1>2. \A i, j \in 1 .. n : i < j => g[i].cursor < g[j].cursor
    BY <1>0 DEF DrainKnows
  <1>3. \A c \in p + 1 .. reach[s] : \E i \in 1 .. n : g[i].cursor = c
    <2>1. \A c \in p + 1 .. reach[s] : c > through /\ c \in marks[s] \ left[s]
      BY <1>0 DEF DrainKnows
    <2> QED
      BY <1>0, <2>1 DEF DrainKnows
  <1>4. \A i \in 1 .. n : g[i].cursor > p => g[i].payload = g[i].cursor
    BY <1>0, <1>1 DEF DrainKnows
  <1> HIDE DEF g, n, p
  <1>5. k \in 0 .. n /\ \A i \in 1 .. n : g[i].cursor > p <=> i > k
    <2> DEFINE S == {i \in 1 .. n : ~(g[i].cursor > p)}
    <2>1. CASE S = {}
      <3>1. 0 \in 0 .. n /\ \A i \in DOMAIN g : Passes(g[i], p) <=> i > 0
        BY <1>0, <2>1 DEF Passes
      <3> QED
        BY <1>0, <3>1 DEF Known, Passes, g, n, p
    <2>2. CASE S # {}
      <3> DEFINE mx == Max(S)
      <3>1. mx \in S /\ \A y \in S : mx >= y
        <4>1. S \in SUBSET (1 .. n)
          OBVIOUS
        <4> HIDE DEF S
        <4> QED
          BY <1>0, <2>2, <4>1, MaxIsOneOfThem
      <3> HIDE DEF mx
      <3>2. mx \in 1 .. n /\ g[mx].cursor <= p
        BY <1>0, <1>1, <3>1
      <3>3. \A i \in 1 .. n : i <= mx => ~(g[i].cursor > p)
        BY <1>0, <1>1, <1>2, <3>2
      <3>4. mx \in 0 .. n /\ \A i \in DOMAIN g : Passes(g[i], p) <=> i > mx
        BY <1>0, <3>1, <3>2, <3>3 DEF Passes
      <3> QED
        BY <1>0, <3>4 DEF Known, Passes, g, n, p
    <2> QED
      BY <2>1, <2>2
  <1>6. f = [i \in 1 .. n - k |-> UpdateFrame(g[k + i].cursor, g[k + i].payload)]
    BY DEF NewFrames, g, n
  <1> HIDE DEF k, f
  <1>7. \A i \in 1 .. n - k : /\ k + i \in 1 .. n /\ k + i > k
                              /\ g[k + i].cursor > p /\ g[k + i].payload = g[k + i].cursor
    BY <1>0, <1>4, <1>5
  <1>8. n - k \in Nat /\ f \in Seq(WireFrames) /\ Len(f) = n - k /\ DOMAIN f = 1 .. n - k
    <2>1. \A i \in 1 .. n - k : UpdateFrame(g[k + i].cursor, g[k + i].payload) \in WireFrames
      BY <1>1, <1>7 DEF UpdateFrame, WireFrames
    <2>2. n - k \in Nat
      BY <1>0, <1>5
    <2> QED
      BY <1>6, <2>1, <2>2
  <1>9. \A i \in 1 .. n - k : /\ f[i].cursor = g[k + i].cursor /\ f[i].type = "update"
                              /\ f[i].payload = f[i].cursor
    BY <1>6, <1>7 DEF UpdateFrame
  <1>10. ASSUME NEW i \in 1 .. n - k
         PROVE  f[i].cursor = (IF i = 1 THEN p ELSE f[i - 1].cursor) + 1
    <2> DEFINE q == IF i = 1 THEN p ELSE g[k + (i - 1)].cursor
               c == g[k + i].cursor
    <2>1. q \in Nat /\ c \in Nat /\ q >= p /\ q < c /\ c <= reach[s] /\ k + i \in 1 .. n
      <3>1. CASE i = 1
        BY <1>0, <1>1, <1>7, <3>1
      <3>2. CASE i # 1
        <4>1. i - 1 \in 1 .. n - k /\ k + (i - 1) < k + i
          BY <1>5, <1>8, <1>10, <3>2
        <4>2. k + (i - 1) \in 1 .. n /\ k + i \in 1 .. n /\ g[k + (i - 1)].cursor > p
          BY <1>7, <4>1
        <4> QED
          BY <1>0, <1>1, <1>2, <3>2, <4>1, <4>2
      <3> QED
        BY <3>1, <3>2
    <2>2. ASSUME q + 1 < c PROVE FALSE
      <3>1. q + 1 \in p + 1 .. reach[s]
        BY <1>0, <2>1, <2>2
      <3>2. PICK j \in 1 .. n : g[j].cursor = q + 1
        BY <1>3, <3>1
      <3>3. j < k + i
        BY <1>0, <1>1, <1>2, <1>5, <2>1, <2>2, <3>2
      <3>4. j > k
        BY <1>0, <1>5, <2>1, <3>2
      <3>5. i # 1
        BY <1>5, <3>3, <3>4
      <3>6. j <= k + (i - 1) /\ k + (i - 1) \in 1 .. n
        BY <1>0, <1>5, <1>10, <3>3, <3>4, <3>5
      <3>7. g[j].cursor <= g[k + (i - 1)].cursor
        BY <1>1, <1>2, <3>6
      <3> QED
        BY <2>1, <3>2, <3>5, <3>7
    <2>3. c = q + 1
      BY <2>1, <2>2
    <2>4. f[i].cursor = c /\ (i # 1 => f[i - 1].cursor = g[k + (i - 1)].cursor)
      <3>1. i # 1 => i - 1 \in 1 .. n - k
        BY <1>5, <1>8, <1>10
      <3> QED
        BY <1>9, <3>1
    <2> QED
      BY <2>3, <2>4
  <1>11. Chained(f, p)
    <2>1. ASSUME NEW i \in 1 .. n - k
          PROVE  (IF i = 1 THEN p ELSE f[i - 1].cursor) # NoCursor
      <3>1. i # 1 => i - 1 \in 1 .. n - k /\ k + (i - 1) \in 1 .. n
        BY <1>0, <1>5
      <3>2. i # 1 => f[i - 1].cursor \in Nat
        BY <1>1, <1>9, <3>1
      <3> QED
        BY <1>0, <3>2 DEF NoCursor
    <2> QED
      BY <1>8, <1>9, <1>10, <2>1 DEF Chained, Follows
  <1>12. EndOf(f, p) = Advanced(g, p)
    <2>1. CASE n = k
      <3>1. f = <<>>
        BY <1>0, <1>5, <1>8, <2>1
      <3>2. g = <<>> \/ (n \in 1 .. n /\ ~(g[n].cursor > p))
        BY <1>0, <1>5, <2>1 DEF n, g
      <3> QED
        BY <3>1, <3>2 DEF EndOf, Advanced, Passes, n, g
    <2>2. CASE n # k
      <3>1. n - k \in 1 .. n - k /\ k + (n - k) = n /\ n \in 1 .. n
        BY <1>0, <1>5, <2>2
      <3>2. f # <<>> /\ f[Len(f)].cursor = g[n].cursor /\ g[n].cursor > p /\ g # <<>>
        BY <1>0, <1>7, <1>8, <1>9, <3>1
      <3> QED
        BY <3>2 DEF EndOf, Advanced, Passes, n, g
    <2> QED
      BY <2>1, <2>2
  <1>13. \A i \in DOMAIN f : f[i].type = "update" /\ f[i].cursor \in 1 .. last
    <2>1. \A i \in 1 .. n : g[i].cursor \in 1 .. reach[s]
      BY <1>0 DEF DrainKnows, g
    <2>2. reach[s] <= last /\ last \in Nat
      BY <1>0 DEF DrainKnows, OutboxInv, OutboxTypeOK, last
    <2>3. \A i \in 1 .. n - k : k + i \in 1 .. n
      BY <1>7
    <2> QED
      BY <1>0, <1>8, <1>9, <2>1, <2>2, <2>3
  <1> QED
    BY <1>8, <1>11, <1>12, <1>13 DEF f, g, p

-----------------------------------------------------------------------------
(* The channel implements the outbox                                        *)

\* What a Turn publishes is a contribution the outbox knows.
LEMMA PublishIsCommit ==
  ASSUME ChannelTypeOK, Commit
  PROVE  /\ \E entities \in Contributions : CommitPublications(entities)
         /\ turn' \in [Turns -> [status : {"none", "running", "settled"}, sends : Nat]]
         /\ UNCHANGED <<link_, client>>
  <1>0. turn \in [Turns -> [status : {"none", "running", "settled"}, sends : Nat]]
    BY DEF ChannelTypeOK
  <1>1. CASE \E t \in Turns : ShowTurn(t) \/ SettleTurn(t)
    <2>1. PICK t \in Turns : ShowTurn(t) \/ SettleTurn(t)
      BY <1>1
    <2>2. CommitPublications(<<RunOf(t)>>) /\ UNCHANGED <<link_, client>>
      BY <2>1 DEF ShowTurn, SettleTurn, Publish
    <2>3. <<RunOf(t)>> \in Contributions
      BY ConversationAssumption DEF Conversation
    <2>4. \E st \in {"running", "settled"} : turn' = [turn EXCEPT ![t].status = st]
      BY <2>1 DEF ShowTurn, SettleTurn
    <2> QED
      BY <1>0, <2>2, <2>3, <2>4
  <1>2. CASE \E t \in Turns : SendToUser(t)
    <2>1. PICK t \in Turns : SendToUser(t)
      BY <1>2
    <2>2. /\ CommitPublications(<<SendOf(t, turn[t].sends + 1)>>) /\ UNCHANGED <<link_, client>>
          /\ turn[t].sends < MaxSends /\ turn' = [turn EXCEPT ![t].sends = @ + 1]
      BY <2>1 DEF SendToUser, Publish
    <2>3. turn[t].sends \in Nat
      BY <1>0
    <2>4. turn[t].sends + 1 \in 1 .. MaxSends
      BY <2>2, <2>3, ConversationAssumption
    <2>5. <<SendOf(t, turn[t].sends + 1)>> \in Contributions
      BY <2>4, ConversationAssumption DEF Conversation
    <2> QED
      BY <1>0, <2>2, <2>3, <2>5
  <1>3. CASE NoticeLook
    <2>1. <<Look>> \in Contributions
      BY ConversationAssumption DEF Conversation
    <2> QED
      BY <1>0, <1>3, <2>1 DEF NoticeLook, Publish
  <1> QED
    BY <1>1, <1>2, <1>3 DEF Commit

\* Every step of the channel is a step of the outbox or leaves it alone.
LEMMA StepIsOutboxStep ==
  ASSUME ChannelTypeOK, [Next]_vars
  PROVE  [OutboxNext]_outbox
  <1>1. CASE Commit
    BY <1>1, PublishIsCommit DEF OutboxNext
  <1>2. CASE Alarm \/ Evicted
    BY <1>2 DEF Alarm, Evicted, OutboxNext
  <1>3. CASE \E s \in Strands : Object(s) \/ Broadcast(s)
    BY <1>3 DEF Object, Broadcast, OutboxNext
  <1>4. CASE \E o \in Observers : Client(o) \/ Disconnect(o)
    <2>1. PICK o \in Observers : Client(o) \/ Disconnect(o)
      BY <1>4
    <2>2. Attach(o) \/ Detach(o) \/ UNCHANGED outbox
      BY <2>1 DEF Client, Disconnect, Dial, Upgrade, Accept, Refuse, Closes, TakeBatch,
                  ApplyNext, ApplyFrame
    <2> QED
      BY <2>2 DEF OutboxNext
  <1>5. CASE UNCHANGED vars
    BY <1>5 DEF vars
  <1> QED
    BY <1>1, <1>2, <1>3, <1>4, <1>5 DEF Next

-----------------------------------------------------------------------------
(* The invariant                                                            *)

\* Before any client dials, every stream is empty.
LEMMA InitiallyChannelInv ==
  ASSUME Init
  PROVE  ChannelInv
  <1>1. OutboxInv
    BY InitiallyInv DEF Init
  <1>2. ChannelTypeOK
    BY DEF Init, ChannelTypeOK, OutboxInit
  <1>3. ASSUME NEW o \in Observers PROVE Streams(o)
    <2>1. /\ wire[o] = <<>> /\ queue[o] = <<>> /\ batch[o] = <<>> /\ link[o] = "closed"
          /\ presented[o] = NoCursor /\ cursor[o] = NoCursor /\ applied[o] = NoCursor
      BY DEF Init
    <2>2. <<>> \in Seq(WireFrames)
      OBVIOUS
    <2> QED
      BY <2>1, <2>2 DEF Streams, Positions
  <1> QED
    BY <1>1, <1>2, <1>3 DEF ChannelInv

\* A socket closes on both sides at once.
LEMMA ClosesKeepsTypes ==
  ASSUME ChannelTypeOK, NEW o \in Observers, Closes(o)
  PROVE  ChannelTypeOK'
  <1>1. open' = open \ {o}
    BY DEF Closes, Detach, outbox, sockets
  <1> QED
    BY <1>1 DEF ChannelTypeOK, Closes, turns, client

\* Types hold, and the open sockets are those of the open links.
LEMMA StepKeepsTypes ==
  ASSUME ChannelTypeOK, [Next]_vars
  PROVE  ChannelTypeOK'
  <1>1. CASE Commit
    <2>1. open' = open
      BY <1>1, PublishIsCommit DEF CommitPublications, sockets
    <2> QED
      BY <1>1, <2>1, PublishIsCommit DEF ChannelTypeOK, link_, client
  <1>2. CASE Alarm \/ Evicted
    <2>1. open' = open
      BY <1>2 DEF Alarm, Evicted, AlarmFires, AlarmReturns, Evict, sockets
    <2> QED
      BY <1>2, <2>1 DEF Alarm, Evicted, ChannelTypeOK, turns, link_, client
  <1>3. CASE \E s \in Strands : Object(s)
    <2>1. open' = open
      BY <1>3 DEF Object, DrainLists, DrainReads, DrainCommits, sockets
    <2> QED
      BY <1>3, <2>1 DEF Object, ChannelTypeOK, turns, link_, client
  <1>4. CASE \E s \in Strands : Broadcast(s)
    BY <1>4 DEF Broadcast, DrainDelivers, ChannelTypeOK, turns, client
  <1>5. ASSUME NEW o \in Observers, Refuse(o) \/ Disconnect(o) PROVE ChannelTypeOK'
    BY <1>5, ClosesKeepsTypes DEF Refuse, Disconnect
  <1>6. ASSUME NEW o \in Observers, Dial(o) PROVE ChannelTypeOK'
    BY <1>6 DEF Dial, ChannelTypeOK, outbox, sockets, turns
  <1>7. ASSUME NEW o \in Observers, Upgrade(o) PROVE ChannelTypeOK'
    BY <1>7 DEF Upgrade, Attach, ChannelTypeOK, turns, client
  <1>8. ASSUME NEW o \in Observers, Accept(o) PROVE ChannelTypeOK'
    BY <1>8 DEF Accept, ChannelTypeOK, outbox, sockets, turns
  <1>9. ASSUME NEW o \in Observers, TakeBatch(o) \/ ApplyNext(o)
        PROVE  ChannelTypeOK'
    <2>1. \/ UNCHANGED applied
          \/ \E c : applied' = [applied EXCEPT ![o] = c]
      BY <1>9 DEF TakeBatch, ApplyNext, ApplyFrame, ApplySnapshot, ApplyUpdate
    <2> QED
      BY <1>9, <2>1 DEF TakeBatch, ApplyNext, ApplyFrame, ChannelTypeOK, outbox, sockets, turns,
                        link_
  <1>10. CASE UNCHANGED vars
    BY <1>10 DEF vars, ChannelTypeOK, outbox, sockets, turns, link_, client
  <1> QED
    BY <1>1, <1>2, <1>3, <1>4, <1>5, <1>6, <1>7, <1>8, <1>9, <1>10 DEF Next, Client

\* A step that touches neither a socket nor its client leaves the stream as it
\* was.
LEMMA UntouchedStream ==
  ASSUME NEW o, Streams(o), wire'[o] = wire[o], link'[o] = link[o], sent'[o] = sent[o],
         presented'[o] = presented[o], cursor'[o] = cursor[o], queue'[o] = queue[o],
         batch'[o] = batch[o], applied'[o] = applied[o]
  PROVE  Streams(o)'
  BY DEF Streams

\* Commits, drains up to their broadcast, alarms and evictions send nothing.
LEMMA ObjectKeepsStreams ==
  ASSUME ChannelInv, NEW o \in Observers \ OldObservers,
         Commit \/ Alarm \/ Evicted \/ (\E s \in Strands : Object(s)) \/ UNCHANGED vars
  PROVE  Streams(o)'
  <1>0. Streams(o) /\ ChannelTypeOK
    BY DEF ChannelInv
  <1>1. sent' = sent
    <2>1. CASE Commit
      BY <1>0, <2>1, PublishIsCommit DEF CommitPublications, sockets
    <2>2. CASE Alarm \/ Evicted
      BY <2>2 DEF Alarm, Evicted, AlarmFires, AlarmReturns, Evict, sockets
    <2>3. CASE \E s \in Strands : Object(s)
      BY <2>3 DEF Object, DrainLists, DrainReads, DrainCommits, sockets
    <2>4. CASE UNCHANGED vars
      BY <2>4 DEF vars, outbox, sockets
    <2> QED
      BY <2>1, <2>2, <2>3, <2>4
  <1>2. UNCHANGED <<link_, client>>
    BY <1>0, PublishIsCommit DEF Alarm, Evicted, Object, vars
  <1> QED
    BY <1>0, <1>1, <1>2, UntouchedStream DEF link_, client

\* A broadcast extends the stream of each open socket.
LEMMA BroadcastKeepsStreams ==
  ASSUME ChannelInv, NEW o \in Observers \ OldObservers, NEW s \in Strands, Broadcast(s)
  PROVE  Streams(o)'
  <1>0. /\ Streams(o) /\ ChannelTypeOK /\ OutboxInv /\ o \in Observers /\ o \notin OldObservers
        /\ pc[s] = "reading" /\ left[s] = {}
        /\ wire' = [x \in Observers |->
                     IF x \in open THEN wire[x] \o ForProtocol(x, NewFrames(s, x)) ELSE wire[x]]
        /\ sent' = [x \in Observers |-> IF x \in open THEN Advanced(got[s], sent[x]) ELSE sent[x]]
        /\ UNCHANGED <<link, presented, cursor, queue, batch, applied>>
    BY DEF ChannelInv, Broadcast, DrainDelivers, client
  <1>1. CASE o \notin open
    BY <1>0, <1>1, UntouchedStream
  <1>2. CASE o \in open
    <2> DEFINE f == NewFrames(s, o)
    <2>1. link[o] = "open" /\ wire[o] \in Seq(WireFrames) /\ Chained(wire[o], cursor[o])
          /\ EndOf(wire[o], cursor[o]) = sent[o]
      BY <1>0, <1>2 DEF ChannelTypeOK, Streams
    <2>2. /\ f \in Seq(WireFrames) /\ Chained(f, sent[o])
          /\ EndOf(f, sent[o]) = Advanced(got[s], sent[o])
      BY <1>0, <1>2, BroadcastChains
    <2>3. wire'[o] = wire[o] \o f /\ sent'[o] = Advanced(got[s], sent[o])
      BY <1>0, <1>2 DEF ForProtocol
    <2> HIDE DEF f
    <2>4. /\ wire'[o] \in Seq(WireFrames) /\ Chained(wire'[o], cursor[o])
          /\ EndOf(wire'[o], cursor[o]) = sent'[o]
      BY <2>1, <2>2, <2>3, ChainExtends
    <2> QED
      BY <1>0, <2>1, <2>4 DEF Streams
  <1> QED
    BY <1>1, <1>2

\* A closed socket has no stream.
LEMMA ClosesKeepsStreams ==
  ASSUME ChannelInv, NEW o \in Observers \ OldObservers, NEW x \in Observers, Closes(x)
  PROVE  Streams(o)'
  <1>0. /\ Streams(o) /\ ChannelTypeOK /\ o \in Observers /\ OutboxTypeOK
        /\ link' = [link EXCEPT ![x] = "closed"] /\ wire' = [wire EXCEPT ![x] = <<>>]
        /\ presented' = [presented EXCEPT ![x] = NoCursor]
        /\ UNCHANGED <<cursor, queue, batch, applied>>
    BY DEF ChannelInv, OutboxInv, Closes, client
  <1>1. sent'[o] = sent[o] \/ x = o
    BY <1>0 DEF Closes, Detach, outbox, sockets, OutboxTypeOK
  <1>2. CASE x # o
    BY <1>0, <1>1, <1>2, UntouchedStream
  <1>3. CASE x = o
    <2>1. link'[o] = "closed" /\ wire'[o] = <<>> /\ presented'[o] = NoCursor
      BY <1>0, <1>3 DEF ChannelTypeOK
    <2>2. <<>> \in Seq(WireFrames)
      OBVIOUS
    <2> QED
      BY <1>0, <2>1, <2>2 DEF Streams, Positions
  <1> QED
    BY <1>2, <1>3

\* A client dials with the cursor its page was kept with, and the handshake
\* leads from there to the lastSent its socket is registered with.
LEMMA ConnectKeepsStreams ==
  ASSUME ChannelInv, NEW o \in Observers \ OldObservers, NEW x \in Observers,
         Dial(x) \/ Upgrade(x)
  PROVE  Streams(o)'
  <1>0. Streams(o) /\ ChannelTypeOK /\ OutboxInv /\ o \in Observers /\ o \notin OldObservers
    BY DEF ChannelInv
  <1>1. CASE x # o
    <2>1. sent'[o] = sent[o]
      BY <1>0, <1>1 DEF Dial, Upgrade, Attach, outbox, sockets, OutboxInv, OutboxTypeOK
    <2> QED
      BY <1>0, <1>1, <2>1, UntouchedStream DEF Dial, Upgrade, client, ChannelTypeOK
  <1>2. CASE x = o /\ Dial(o)
    <2>1. /\ link[o] = "closed" /\ link'[o] = "dialing" /\ presented'[o] = applied[o]
          /\ cursor'[o] = applied[o] /\ queue'[o] = <<>>
          /\ UNCHANGED <<wire, batch, applied>>
      BY <1>0, <1>2 DEF Dial, ResumeFrom, ChannelTypeOK
    <2>2. <<>> \in Seq(WireFrames)
      OBVIOUS
    <2> QED
      BY <1>0, <2>1, <2>2 DEF Streams
  <1>3. CASE x = o /\ Upgrade(o)
    <2> DEFINE h == Handshake(presented[o])
    <2>1. /\ link[o] = "dialing" /\ link'[o] = "open" /\ presented'[o] = NoCursor
          /\ wire'[o] = h /\ sent'[o] = last
          /\ UNCHANGED <<cursor, queue, batch, applied>>
      BY <1>0, <1>3 DEF Upgrade, Attach, Registered, ForProtocol, client, ChannelTypeOK,
                        OutboxInv, OutboxTypeOK
    <2>2. presented[o] \in Positions /\ presented[o] = cursor[o]
      BY <1>0, <2>1 DEF Streams
    <2>3. h \in Seq(WireFrames) /\ Chained(h, cursor[o]) /\ EndOf(h, cursor[o]) = last
      BY <1>0, <2>2, HandshakeChains
    <2> HIDE DEF h
    <2> QED
      BY <1>0, <2>1, <2>3 DEF Streams, Positions
  <1> QED
    BY <1>1, <1>2, <1>3

\* A client moves along its stream, and queues and applies what it accepted.
LEMMA ClientKeepsStreams ==
  ASSUME ChannelInv, NEW o \in Observers \ OldObservers, NEW x \in Observers,
         Accept(x) \/ TakeBatch(x) \/ ApplyNext(x)
  PROVE  Streams(o)'
  <1>0. Streams(o) /\ ChannelTypeOK /\ o \in Observers
    BY DEF ChannelInv
  <1>1. sent' = sent /\ link' = link /\ presented' = presented
    BY DEF Accept, TakeBatch, ApplyNext, ApplyFrame, outbox, sockets, link_
  <1>2. CASE x # o
    <2>1. applied'[o] = applied[o]
      BY <1>0, <1>2
        DEF Accept, TakeBatch, ApplyNext, ApplyFrame, ApplySnapshot, ApplyUpdate, ChannelTypeOK
    <2> QED
      BY <1>0, <1>1, <1>2, <2>1, UntouchedStream
        DEF Accept, TakeBatch, ApplyNext, ApplyFrame, link_, ChannelTypeOK
  <1>3. CASE x = o /\ Accept(o)
    <2> DEFINE w == wire[o]
    <2>1. /\ w # <<>> /\ wire'[o] = Tail(w) /\ cursor'[o] = Head(w).cursor
          /\ queue'[o] = queue[o] \/ queue'[o] = Append(queue[o], Head(w))
          /\ UNCHANGED <<batch, applied>>
      BY <1>0, <1>3 DEF Accept, ChannelTypeOK
    <2>2. /\ link[o] = "open" /\ w \in Seq(WireFrames) /\ Chained(w, cursor[o])
          /\ EndOf(w, cursor[o]) = sent[o]
      BY <1>0, <2>1 DEF Streams
    <2> HIDE DEF w
    <2>3. /\ Tail(w) \in Seq(WireFrames) /\ Head(w) \in WireFrames
          /\ Chained(Tail(w), Head(w).cursor) /\ EndOf(Tail(w), Head(w).cursor) = sent[o]
      BY <2>1, <2>2, ChainAdvances
    <2>4. Head(w).cursor \in Positions
      BY <2>3 DEF WireFrames, Positions
    <2>5. queue'[o] \in Seq(WireFrames)
      BY <1>0, <2>1, <2>3, AppendProperties DEF Streams
    <2> QED
      BY <1>0, <1>1, <2>1, <2>2, <2>3, <2>4, <2>5 DEF Streams
  <1>4. CASE x = o /\ (TakeBatch(o) \/ ApplyNext(o))
    <2>0. PICK b \in {queue[o], batch[o]} :
            /\ b # <<>> /\ batch'[o] = Tail(b) /\ wire' = wire /\ cursor' = cursor
            /\ queue'[o] \in {queue[o], <<>>}
            /\ applied'[o] = applied[o] \/ applied'[o] = Head(b).cursor
      BY <1>0, <1>4 DEF TakeBatch, ApplyNext, ApplyFrame, ApplySnapshot, ApplyUpdate,
                        ChannelTypeOK, link_
    <2>1. b \in Seq(WireFrames) /\ <<>> \in Seq(WireFrames)
      BY <1>0 DEF Streams
    <2>2. Tail(b) \in Seq(WireFrames) /\ Head(b) \in WireFrames
      BY <2>0, <2>1
    <2>3. Head(b).cursor \in Positions
      BY <2>2 DEF WireFrames, Positions
    <2> QED
      BY <1>0, <1>1, <2>0, <2>1, <2>2, <2>3 DEF Streams
  <1> QED
    BY <1>2, <1>3, <1>4

\* The invariant is inductive.
LEMMA StepKeepsChannelInv ==
  ASSUME ChannelInv, [Next]_vars
  PROVE  ChannelInv'
  <1>1. OutboxInv'
    BY StepIsOutboxStep, StepKeepsInv DEF ChannelInv
  <1>2. ChannelTypeOK'
    BY StepKeepsTypes DEF ChannelInv
  <1>3. ASSUME NEW o \in Observers \ OldObservers PROVE Streams(o)'
    <2>1. CASE Commit \/ Alarm \/ Evicted \/ (\E s \in Strands : Object(s)) \/ UNCHANGED vars
      BY <2>1, ObjectKeepsStreams
    <2>2. CASE \E s \in Strands : Broadcast(s)
      BY <2>2, BroadcastKeepsStreams
    <2>3. ASSUME NEW x \in Observers, Client(x) \/ Disconnect(x) PROVE Streams(o)'
      BY <2>3, ClosesKeepsStreams, ConnectKeepsStreams, ClientKeepsStreams
        DEF Client, Disconnect, Refuse
    <2> QED
      BY <2>1, <2>2, <2>3 DEF Next
  <1> QED
    BY <1>1, <1>2, <1>3 DEF ChannelInv

-----------------------------------------------------------------------------
(* Theorems                                                                 *)

\* The channel's inductive invariant: the outbox's own, and for every socket of
\* the current protocol a stream that leads from the client's cursor to lastSent.
THEOREM ChannelInvariant == Spec => []ChannelInv
  <1>1. Init => ChannelInv
    BY InitiallyChannelInv
  <1>2. ChannelInv /\ [Next]_vars => ChannelInv'
    BY StepKeepsChannelInv
  <1> QED
    BY <1>1, <1>2, PTL DEF Spec

\* Turns, handshakes and clients only ever use the outbox as Outbox says: every
\* step of the channel is a step of the outbox or leaves it alone, so what is
\* proved of the outbox holds of the channel.
THEOREM ChannelImplementsOutbox == Spec => OutboxSpec
  <1>1. Init => OutboxInit
    BY DEF Init
  <1>2. ChannelInv /\ [Next]_vars => [OutboxNext]_outbox
    BY StepIsOutboxStep DEF ChannelInv
  <1> QED
    BY <1>1, <1>2, ChannelInvariant, PTL DEF Spec, OutboxSpec

\* StreamHasNoGap for any number of Turns, observers, drains, evictions and
\* lost connections, and any replay window: broadcastCommitted, the handshake
\* and the client's own cursor always agree on the next frame.
THEOREM NoGapEver == Spec => []StreamHasNoGap
  <1>1. ChannelInv => StreamHasNoGap
    <2> SUFFICES ASSUME ChannelInv, NEW o \in Observers \ OldObservers, NEW i \in DOMAIN wire[o]
                 PROVE  /\ Follows(wire[o][i], Before(o, i))
                        /\ wire[o][i].payload = wire[o][i].cursor
      BY DEF StreamHasNoGap
    <2>1. Streams(o)
      BY DEF ChannelInv
    <2>2. link[o] = "open"
      <3>1. DOMAIN <<>> = {}
        OBVIOUS
      <3> QED
        BY <2>1, <3>1 DEF Streams
    <2> QED
      BY <2>1, <2>2 DEF Streams, Chained, Before
  <1> QED
    BY <1>1, ChannelInvariant, PTL

-----------------------------------------------------------------------------
(* The page of a client                                                     *)

Rows == [settled : BOOLEAN, sends : Nat]
Shown == [known : BOOLEAN, settled : BOOLEAN, sends : SUBSET Nat]

\* What was published of a Turn: a settled row is its last, and counts every
\* message the Turn ever sent.
RowsSaid ==
  /\ body \in Seq(Rows) /\ Len(body) = last
  /\ \A t \in Turns, c \in 1 .. last : log[c] = RunOf(t) =>
       /\ body[c].sends <= turn[t].sends
       /\ body[c].settled =>
            /\ turn[t].status = "settled" /\ body[c].sends = turn[t].sends
            /\ \A d \in c + 1 .. last : log[d] # RunOf(t)
  /\ \A t \in Turns, n \in 1 .. MaxSends, c \in 1 .. last :
       log[c] = SendOf(t, n) => n <= turn[t].sends

\* A frame of something committed.
Sound(f) ==
  /\ f \in WireFrames /\ f.cursor <= last /\ f.payload = f.cursor
  /\ f.type = "update" => f.cursor >= 1

\* Frames in cursor order, of which only the first may be a snapshot.
Consecutive(s) ==
  \A i \in DOMAIN s : /\ Sound(s[i]) /\ s[i].type # "ready"
                      /\ s[i].cursor = s[1].cursor + (i - 1)
                      /\ i # 1 => s[i].type = "update"

\* The batch being applied takes the page at least, or at most, to c.
Reaches(o, c) == c <= applied[o] \/ \E i \in DOMAIN batch[o] : c <= batch[o][i].cursor
Within(o, c) == applied[o] <= c /\ \A i \in DOMAIN batch[o] : batch[o][i].cursor <= c

\* From cursor p on, what the page holds was applied update by update, so a
\* replay of it is recognised.
Drawn(o, p) == \A c \in 1 .. applied[o] : c >= p => seen[o][log[c]] >= c

PageTypes(o) ==
  /\ wire[o] \in Seq(WireFrames) /\ queue[o] \in Seq(WireFrames) /\ batch[o] \in Seq(WireFrames)
  /\ cursor[o] \in Positions /\ applied[o] \in Positions /\ presented[o] \in Positions
  /\ cursor[o] <= last /\ applied[o] <= last
  /\ seen[o] \in [Entities -> Nat] /\ view[o] \in [Turns -> Shown]

\* A snapshot comes first on its socket, when the client has nothing queued, and
\* is no older than what the client is still applying.
Arrives(o) ==
  /\ \A i \in DOMAIN wire[o] : Sound(wire[o][i]) /\ (wire[o][i].type = "snapshot" => i = 1)
  /\ link[o] # "open" => wire[o] = <<>>
  /\ link[o] = "dialing" => queue[o] = <<>>
  /\ wire[o] # <<>> /\ wire[o][1].type = "snapshot" =>
       queue[o] = <<>> /\ Within(o, wire[o][1].cursor)

\* What was accepted continues what is being applied, and either starts over
\* with a snapshot or repeats only what would be recognised.
Queued(o) ==
  /\ Consecutive(queue[o]) /\ Consecutive(batch[o])
  /\ queue[o] = <<>> => Reaches(o, cursor[o])
  /\ queue[o] # <<>> =>
       /\ queue[o][Len(queue[o])].cursor = cursor[o]
       /\ IF queue[o][1].type = "snapshot" THEN Within(o, queue[o][1].cursor)
          ELSE Reaches(o, queue[o][1].cursor - 1) /\ Drawn(o, queue[o][1].cursor)
  /\ batch[o] # <<>> =>
       /\ batch[o][1].type = "update" /\ batch[o][1].cursor <= applied[o] + 1
       /\ Drawn(o, batch[o][1].cursor)
  /\ Drawn(o, cursor[o] + 1)

\* A page v at cursor c shows a Turn settled only if its settlement is among
\* what was applied, and then with every message it sent.
TruthfulAt(v, c) ==
  \A t \in Turns :
    /\ v[t].sends \subseteq 1 .. turn[t].sends
    /\ v[t].settled =>
         /\ v[t].known /\ v[t].sends = 1 .. turn[t].sends
         /\ \E d \in 1 .. c : log[d] = RunOf(t) /\ body[d].settled

\* It shows the Turns in the visible index as their last rows say.
CurrentAt(v, c) ==
  \A t \in VisibleAt(c) : v[t].known /\ v[t].settled = body[RowAt(t, c)].settled

Page(o) ==
  /\ \A e \in Entities : seen[o][e] > 0 => seen[o][e] <= applied[o]
  /\ TruthfulAt(view[o], applied[o])
  /\ applied[o] # NoCursor => CurrentAt(view[o], applied[o])

ClientOK(o) == PageTypes(o) /\ Arrives(o) /\ Queued(o) /\ Page(o)

PageInv ==
  /\ RowsSaid /\ DOMAIN seen = Observers /\ DOMAIN view = Observers
  /\ \A o \in Observers : ClientOK(o)

-----------------------------------------------------------------------------
(* Rows and the visible index                                               *)

\* The rows of different Turns, messages and the look are different entities.
LEMMA EntitiesDiffer ==
  /\ \A t, u \in Turns : RunOf(t) = RunOf(u) => t = u
  /\ \A t, u \in Turns, n \in Nat : RunOf(t) # SendOf(u, n)
  /\ \A t, u \in Turns, n, m \in Nat : SendOf(t, n) = SendOf(u, m) => t = u /\ n = m
  /\ \A t \in Turns, n \in Nat : Look # RunOf(t) /\ Look # SendOf(t, n)
  BY DEF RunOf, SendOf, Look

LEMMA EntityKinds ==
  ASSUME NEW e \in Entities
  PROVE  \/ \E t \in Turns : e = RunOf(t) /\ e.kind = "run" /\ e.turn = t
         \/ \E t \in Turns, n \in 1 .. MaxSends :
              e = SendOf(t, n) /\ e.kind = "send" /\ e.turn = t /\ e.n = n
         \/ e = Look /\ e.kind = "look"
  <1>1. e \in Conversation
    BY ConversationAssumption
  <1> QED
    BY <1>1 DEF Conversation, RunOf, SendOf, Look

\* RowAt is the last of a Turn's rows up to a cursor, 0 when there is none.
LEMMA RowAtIsLast ==
  ASSUME NEW t, NEW c \in Nat
  PROVE  /\ RowAt(t, c) \in 0 .. c
         /\ RowAt(t, c) # 0 => log[RowAt(t, c)] = RunOf(t)
         /\ \A i \in 1 .. c : log[i] = RunOf(t) => i <= RowAt(t, c)
  <1> DEFINE S == {i \in 1 .. c : log[i] = RunOf(t)}
             T == {0} \cup S
  <1>1. \E m \in T : \A y \in T : m >= y
    <2>1. CASE S = {}
      BY <2>1
    <2>2. CASE S # {}
      <3>1. S \in SUBSET (1 .. c)
        OBVIOUS
      <3> HIDE DEF S
      <3>2. Max(S) \in S /\ \A y \in S : Max(S) >= y
        BY <2>2, <3>1, MaxIsOneOfThem
      <3>3. \A y \in S : y \in Nat
        BY <3>1
      <3> DEFINE m == Max(S)
      <3> HIDE DEF m
      <3>4. m \in S /\ m \in Nat /\ \A y \in S : m >= y
        BY <3>2, <3>3 DEF m
      <3>5. m >= 0
        BY <3>4
      <3> QED
        BY <3>4, <3>5
    <2> QED
      BY <2>1, <2>2
  <1>2. RowAt(t, c) = Max(T)
    BY DEF RowAt
  <1>3. Max(T) \in T /\ \A y \in T : Max(T) >= y
    <2> HIDE DEF T
    <2> QED
      BY <1>1 DEF Max
  <1> QED
    BY <1>2, <1>3

\* The row as of the next cursor.
LEMMA RowAtNext ==
  ASSUME NEW t, NEW c \in Nat
  PROVE  RowAt(t, c + 1) = IF log[c + 1] = RunOf(t) THEN c + 1 ELSE RowAt(t, c)
  <1> DEFINE a == RowAt(t, c)
             b == RowAt(t, c + 1)
  <1>1. /\ a \in 0 .. c /\ (a # 0 => log[a] = RunOf(t))
        /\ \A i \in 1 .. c : log[i] = RunOf(t) => i <= a
    BY RowAtIsLast
  <1>2. /\ b \in 0 .. c + 1 /\ (b # 0 => log[b] = RunOf(t))
        /\ \A i \in 1 .. c + 1 : log[i] = RunOf(t) => i <= b
    BY RowAtIsLast
  <1> HIDE DEF a, b
  <1>3. CASE log[c + 1] = RunOf(t)
    BY <1>2, <1>3 DEF b
  <1>4. CASE log[c + 1] # RunOf(t)
    <2>1. b \in 0 .. c
      BY <1>2, <1>4
    <2>2. a <= b
      BY <1>1, <1>2
    <2>3. b <= a
      BY <1>1, <1>2, <2>1
    <2> QED
      BY <1>1, <1>4, <2>1, <2>2, <2>3 DEF a, b
  <1> QED
    BY <1>3, <1>4

\* A Turn leaves the visible index as others are published, and comes back
\* only with a row of its own.
LEMMA StaysVisible ==
  ASSUME NEW c \in Nat, NEW t \in VisibleAt(c + 1), log[c + 1] # RunOf(t)
  PROVE  t \in VisibleAt(c)
  <1> DEFINE k == RowAt(t, c)
             A == {u \in Turns : RowAt(u, c) > RowAt(t, c)}
             B == {u \in Turns : RowAt(u, c + 1) > RowAt(t, c + 1)}
  <1>1. t \in Turns /\ RowAt(t, c + 1) = k /\ k \in Nat /\ k > 0
        /\ Cardinality(B) < VisibleLimit
    BY RowAtNext, RowAtIsLast DEF VisibleAt
  <1>2. A \subseteq B
    BY <1>1, RowAtNext, RowAtIsLast
  <1>3. IsFiniteSet(B)
    <2> DEFINE at == [u \in B |-> RowAt(u, c + 1)]
    <2>1. ASSUME NEW u \in B
          PROVE  RowAt(u, c + 1) \in 1 .. c + 1 /\ log[RowAt(u, c + 1)] = RunOf(u) /\ u \in Turns
      BY <1>1, RowAtIsLast
    <2>2. at \in [B -> 1 .. c + 1]
      BY <2>1
    <2>3. \A u, v \in B : at[u] = at[v] => u = v
      BY <2>1, EntitiesDiffer
    <2>4. at \in Injection(B, 1 .. c + 1)
      <3> HIDE DEF at, B
      <3> QED
        BY <2>2, <2>3 DEF Injection, IsInjective
    <2>5. IsFiniteSet(1 .. c + 1)
      BY FS_Interval
    <2> HIDE DEF at, B
    <2> QED
      BY <2>4, <2>5, FS_Injection
  <1> HIDE DEF A, B
  <1>4. Cardinality(A) <= Cardinality(B) /\ Cardinality(A) \in Nat /\ Cardinality(B) \in Nat
    BY <1>2, <1>3, FS_Subset, FS_CardinalityType
  <1>5. Cardinality(A) < VisibleLimit
    BY <1>1, <1>4, ConversationAssumption
  <1> QED
    BY <1>1, <1>5 DEF VisibleAt, A

-----------------------------------------------------------------------------
(* Drawing frames                                                           *)

\* A Turn's row put over what was shown: settled stays settled, and no message
\* is shown that was not sent.
LEMMA PutKeeps ==
  ASSUME NEW shown \in Shown, NEW r \in Rows, NEW N \in Nat,
         shown.sends \subseteq 1 .. N, r.sends <= N, r.settled => r.sends = N,
         shown.settled => shown.known /\ shown.sends = 1 .. N
  PROVE  /\ Put(shown, r) \in Shown /\ Put(shown, r).known
         /\ Put(shown, r).sends \subseteq 1 .. N
         /\ Put(shown, r).settled <=> shown.settled \/ r.settled
         /\ Put(shown, r).settled => Put(shown, r).sends = 1 .. N
  <1>1. CASE shown.settled /\ ~r.settled
    BY <1>1 DEF Put, Shown, Rows
  <1>2. CASE ~(shown.settled /\ ~r.settled)
    <2> DEFINE m == (1 .. r.sends) \cup (IF r.settled THEN {} ELSE {n \in shown.sends : n > r.sends})
    <2>1. Put(shown, r) = [known |-> TRUE, settled |-> r.settled, sends |-> m]
      BY <1>2 DEF Put
    <2>2. m \subseteq 1 .. N /\ (r.settled => m = 1 .. N)
      BY DEF Rows
    <2>3. r.settled \in BOOLEAN /\ m \subseteq Nat
      BY <2>2 DEF Rows
    <2> HIDE DEF m
    <2>4. /\ Put(shown, r).known = TRUE /\ Put(shown, r).settled = r.settled
          /\ Put(shown, r).sends = m /\ Put(shown, r) \in Shown
      BY <2>1, <2>3 DEF Shown
    <2>5. r.settled <=> shown.settled \/ r.settled
      BY <1>2, <2>3
    <2> QED
      BY <2>2, <2>4, <2>5
  <1> QED
    BY <1>1, <1>2

\* A settled Turn has no row after the one that settled it.
LEMMA SettledRowIsLast ==
  ASSUME RowsSaid, NEW t \in Turns, NEW c \in Nat, c <= last, last \in Nat,
         NEW d \in 1 .. c, log[d] = RunOf(t), body[d].settled
  PROVE  RowAt(t, c) = d
  <1>1. /\ RowAt(t, c) \in 0 .. c /\ (RowAt(t, c) # 0 => log[RowAt(t, c)] = RunOf(t))
        /\ d <= RowAt(t, c)
    BY RowAtIsLast
  <1>2. d \in 1 .. last /\ \A e \in d + 1 .. last : log[e] # RunOf(t)
    BY DEF RowsSaid
  <1> QED
    BY <1>1, <1>2

\* What a run's row says of a Turn.
LEMMA RowOfTurn ==
  ASSUME RowsSaid, last \in Nat, NEW t \in Turns, NEW c \in 1 .. last, log[c] = RunOf(t)
  PROVE  /\ body[c] \in Rows /\ body[c].sends <= turn[t].sends
         /\ body[c].settled => body[c].sends = turn[t].sends
  BY DEF RowsSaid

\* The update after the page's cursor, drawn.
LEMMA WithUpdateShows ==
  ASSUME RowsSaid, log \in Seq(Entities), \A t \in Turns : turn[t].sends \in Nat,
         NEW v \in [Turns -> Shown], NEW c \in Nat, c + 1 <= last,
         TruthfulAt(v, c), CurrentAt(v, c),
         NEW f, Sound(f), f.type = "update", f.cursor = c + 1
  PROVE  /\ WithUpdate(v, f) \in [Turns -> Shown]
         /\ TruthfulAt(WithUpdate(v, f), c + 1) /\ CurrentAt(WithUpdate(v, f), c + 1)
  <1> DEFINE e == log[c + 1]
             w == WithUpdate(v, f)
  <1>0. last \in Nat /\ c + 1 \in 1 .. last /\ e \in Entities /\ f.payload = c + 1
    BY DEF last, Sound
  <1>1. \A t \in Turns : t \in VisibleAt(c + 1) /\ e # RunOf(t) =>
          /\ v[t].known /\ v[t].settled = body[RowAt(t, c + 1)].settled
    <2> SUFFICES ASSUME NEW t \in Turns, t \in VisibleAt(c + 1), e # RunOf(t)
                 PROVE  v[t].known /\ v[t].settled = body[RowAt(t, c + 1)].settled
      OBVIOUS
    <2>1. t \in VisibleAt(c) /\ RowAt(t, c + 1) = RowAt(t, c)
      BY StaysVisible, RowAtNext
    <2> QED
      BY <2>1 DEF CurrentAt
  <1>2. ASSUME NEW u \in Turns, e = RunOf(u), e.kind = "run", e.turn = u
        PROVE  w \in [Turns -> Shown] /\ TruthfulAt(w, c + 1) /\ CurrentAt(w, c + 1)
    <2>1. w = [v EXCEPT ![u] = Put(v[u], body[c + 1])]
      BY <1>0, <1>2 DEF WithUpdate
    <2>2. body[c + 1] \in Rows /\ body[c + 1].sends <= turn[u].sends
          /\ (body[c + 1].settled => body[c + 1].sends = turn[u].sends)
      BY <1>0, <1>2, RowOfTurn
    <2>3. /\ v[u] \in Shown /\ v[u].sends \subseteq 1 .. turn[u].sends
          /\ v[u].settled => v[u].known /\ v[u].sends = 1 .. turn[u].sends
      BY DEF TruthfulAt
    <2> DEFINE p == Put(v[u], body[c + 1])
    <2>4. /\ p \in Shown /\ p.known /\ p.sends \subseteq 1 .. turn[u].sends
          /\ p.settled <=> v[u].settled \/ body[c + 1].settled
          /\ p.settled => p.sends = 1 .. turn[u].sends
      BY <2>2, <2>3, PutKeeps
    <2>5. ~v[u].settled
      <3> SUFFICES ASSUME v[u].settled PROVE FALSE
        OBVIOUS
      <3>1. PICK d \in 1 .. c : log[d] = RunOf(u) /\ body[d].settled
        BY DEF TruthfulAt
      <3>2. RowAt(u, c + 1) = d
        BY <1>0, <3>1, SettledRowIsLast
      <3>3. RowAt(u, c + 1) = c + 1
        BY <1>2, RowAtNext
      <3> QED
        BY <3>1, <3>2, <3>3
    <2> HIDE DEF p
    <2>6. \A t \in Turns : w[t] = IF t = u THEN p ELSE v[t]
      BY <2>1 DEF p
    <2>7. w \in [Turns -> Shown]
      BY <2>1, <2>4 DEF p
    <2>8. ASSUME NEW t \in Turns
          PROVE  /\ w[t].sends \subseteq 1 .. turn[t].sends
                 /\ w[t].settled =>
                      /\ w[t].known /\ w[t].sends = 1 .. turn[t].sends
                      /\ \E d \in 1 .. c + 1 : log[d] = RunOf(t) /\ body[d].settled
      <3>1. CASE t = u
        BY <1>0, <1>2, <2>4, <2>5, <2>6, <3>1
      <3>2. CASE t # u
        <4>1. w[t] = v[t]
          BY <2>6, <3>2
        <4> QED
          BY <4>1 DEF TruthfulAt
      <3> QED
        BY <3>1, <3>2
    <2>9. ASSUME NEW t \in VisibleAt(c + 1)
          PROVE  w[t].known /\ w[t].settled = body[RowAt(t, c + 1)].settled
      <3>0. t \in Turns
        BY DEF VisibleAt
      <3>1. CASE t = u
        <4>1. RowAt(u, c + 1) = c + 1
          BY <1>2, RowAtNext
        <4>2. p.settled = body[c + 1].settled
          BY <2>2, <2>4, <2>5 DEF Shown, Rows
        <4> QED
          BY <2>4, <2>6, <3>0, <3>1, <4>1, <4>2
      <3>2. CASE t # u
        BY <1>1, <1>2, <2>6, <3>0, <3>2, EntitiesDiffer
      <3> QED
        BY <3>1, <3>2
    <2> QED
      BY <2>7, <2>8, <2>9 DEF TruthfulAt, CurrentAt
  <1>3. ASSUME NEW u \in Turns, NEW n \in 1 .. MaxSends,
               e = SendOf(u, n), e.kind = "send", e.turn = u, e.n = n
        PROVE  w \in [Turns -> Shown] /\ TruthfulAt(w, c + 1) /\ CurrentAt(w, c + 1)
    <2>1. w = [v EXCEPT ![u] = [known |-> TRUE, settled |-> v[u].settled,
                                sends |-> v[u].sends \cup {n}]]
      BY <1>3 DEF WithUpdate
    <2>2. n \in 1 .. turn[u].sends
      <3>1. n <= turn[u].sends
        BY <1>0, <1>3 DEF RowsSaid
      <3> QED
        BY <3>1
    <2>3. v[u] \in Shown
      OBVIOUS
    <2>4. /\ w \in [Turns -> Shown] /\ \A t \in Turns \ {u} : w[t] = v[t]
          /\ w[u].known /\ w[u].settled = v[u].settled /\ w[u].sends = v[u].sends \cup {n}
      <3> DEFINE z == [known |-> TRUE, settled |-> v[u].settled, sends |-> v[u].sends \cup {n}]
      <3>1. z \in Shown
        BY <2>2, <2>3 DEF Shown
      <3>2. w = [v EXCEPT ![u] = z]
        BY <2>1
      <3>3. z.known = TRUE /\ z.settled = v[u].settled /\ z.sends = v[u].sends \cup {n}
        OBVIOUS
      <3> HIDE DEF z, w
      <3> QED
        BY <3>1, <3>2, <3>3
    <2>5. ASSUME NEW t \in Turns
          PROVE  /\ w[t].sends \subseteq 1 .. turn[t].sends
                 /\ w[t].settled =>
                      /\ w[t].known /\ w[t].sends = 1 .. turn[t].sends
                      /\ \E d \in 1 .. c + 1 : log[d] = RunOf(t) /\ body[d].settled
      <3>1. /\ v[t].sends \subseteq 1 .. turn[t].sends
            /\ v[t].settled =>
                 /\ v[t].known /\ v[t].sends = 1 .. turn[t].sends
                 /\ \E d \in 1 .. c + 1 : log[d] = RunOf(t) /\ body[d].settled
        BY DEF TruthfulAt
      <3>2. CASE t = u
        BY <2>2, <2>4, <3>1, <3>2
      <3>3. CASE t # u
        BY <2>4, <3>1, <3>3
      <3> QED
        BY <3>2, <3>3
    <2>6. ASSUME NEW t \in VisibleAt(c + 1)
          PROVE  w[t].known /\ w[t].settled = body[RowAt(t, c + 1)].settled
      <3>1. t \in Turns /\ e # RunOf(t)
        BY <1>3, EntitiesDiffer DEF VisibleAt
      <3>2. w[t].known /\ w[t].settled = v[t].settled
        BY <1>1, <2>4, <2>6, <3>1
      <3> QED
        BY <1>1, <2>6, <3>1, <3>2
    <2> QED
      BY <2>4, <2>5, <2>6 DEF TruthfulAt, CurrentAt
  <1>4. ASSUME e = Look, e.kind = "look"
        PROVE  w \in [Turns -> Shown] /\ TruthfulAt(w, c + 1) /\ CurrentAt(w, c + 1)
    <2>1. w = v
      BY <1>4 DEF WithUpdate
    <2>2. \A t \in VisibleAt(c + 1) : t \in Turns /\ e # RunOf(t)
      BY <1>4, EntitiesDiffer DEF VisibleAt
    <2>3. CurrentAt(v, c + 1)
      BY <1>1, <2>2 DEF CurrentAt
    <2>4. TruthfulAt(v, c + 1)
      BY DEF TruthfulAt
    <2> QED
      BY <2>1, <2>3, <2>4
  <1> QED
    BY <1>0, <1>2, <1>3, <1>4, EntityKinds

\* A snapshot that is not older than the page, drawn.
LEMMA WithSnapshotShows ==
  ASSUME RowsSaid, log \in Seq(Entities), \A t \in Turns : turn[t].sends \in Nat,
         NEW v \in [Turns -> Shown], NEW a \in Positions, NEW c \in Nat, a <= c, c <= last,
         TruthfulAt(v, a)
  PROVE  /\ WithSnapshot(v, c) \in [Turns -> Shown]
         /\ TruthfulAt(WithSnapshot(v, c), c) /\ CurrentAt(WithSnapshot(v, c), c)
  <1> DEFINE w == WithSnapshot(v, c)
  <1>0. last \in Nat /\ a \in Int
    BY DEF last, Positions, NoCursor
  <1>1. w = [t \in Turns |-> IF t \in VisibleAt(c) THEN Put(v[t], body[RowAt(t, c)]) ELSE v[t]]
    BY DEF WithSnapshot
  <1> HIDE DEF w
  <1>2. ASSUME NEW t \in Turns
        PROVE  /\ w[t] \in Shown /\ w[t].sends \subseteq 1 .. turn[t].sends
               /\ w[t].settled =>
                    /\ w[t].known /\ w[t].sends = 1 .. turn[t].sends
                    /\ \E d \in 1 .. c : log[d] = RunOf(t) /\ body[d].settled
               /\ t \in VisibleAt(c) => w[t].known /\ w[t].settled = body[RowAt(t, c)].settled
    <2>1. /\ v[t] \in Shown /\ v[t].sends \subseteq 1 .. turn[t].sends
          /\ v[t].settled =>
               /\ v[t].known /\ v[t].sends = 1 .. turn[t].sends
               /\ \E d \in 1 .. c : log[d] = RunOf(t) /\ body[d].settled
      BY <1>0 DEF TruthfulAt
    <2>2. CASE t \notin VisibleAt(c)
      BY <1>1, <2>1, <2>2
    <2>3. CASE t \in VisibleAt(c)
      <3> DEFINE k == RowAt(t, c)
                 p == Put(v[t], body[k])
      <3>1. k \in 1 .. c /\ k \in 1 .. last /\ log[k] = RunOf(t)
        BY <1>0, <2>3, RowAtIsLast DEF VisibleAt
      <3>2. /\ body[k] \in Rows /\ body[k].sends <= turn[t].sends
            /\ body[k].settled => body[k].sends = turn[t].sends
        BY <1>0, <3>1, RowOfTurn
      <3>3. v[t].settled => body[k].settled
        BY <1>0, <2>1, SettledRowIsLast
      <3>4. /\ p \in Shown /\ p.known /\ p.sends \subseteq 1 .. turn[t].sends
            /\ p.settled <=> v[t].settled \/ body[k].settled
            /\ p.settled => p.sends = 1 .. turn[t].sends
        <4> HIDE DEF k
        <4> QED
          BY <2>1, <3>2, PutKeeps
      <3>5. w[t] = p
        BY <1>1, <2>3
      <3> HIDE DEF p, k
      <3>6. p.settled = body[k].settled
        BY <3>2, <3>3, <3>4 DEF Shown, Rows
      <3> QED
        BY <3>1, <3>4, <3>5, <3>6 DEF k
    <2> QED
      BY <2>2, <2>3
  <1>3. w \in [Turns -> Shown]
    BY <1>1, <1>2
  <1>4. \A t \in VisibleAt(c) : t \in Turns
    BY DEF VisibleAt
  <1> QED
    BY <1>2, <1>3, <1>4 DEF TruthfulAt, CurrentAt, w

-----------------------------------------------------------------------------
(* Steps that leave a client's page alone                                   *)

\* As long as no update is committed, rows and the index are what they were.
LEMMA SameLogSameRows ==
  ASSUME log' = log
  PROVE  /\ \A t, c : RowAt(t, c)' = RowAt(t, c)
         /\ \A c : VisibleAt(c)' = VisibleAt(c)
  <1>1. \A t, c : RowAt(t, c)' = RowAt(t, c)
    BY DEF RowAt
  <1>2. ASSUME NEW c PROVE VisibleAt(c)' = VisibleAt(c)
    <2>1. \A t \in Turns : {u \in Turns : RowAt(u, c)' > RowAt(t, c)'}
                             = {u \in Turns : RowAt(u, c) > RowAt(t, c)}
      BY <1>1
    <2> QED
      BY <1>1, <2>1 DEF VisibleAt
  <1> QED
    BY <1>1, <1>2

\* A page that is not touched, with no commit, is as it was.
LEMMA PageUntouched ==
  ASSUME NEW o, Page(o), UNCHANGED <<log, turn, body>>,
         applied'[o] = applied[o], seen'[o] = seen[o], view'[o] = view[o]
  PROVE  Page(o)'
  <1> DEFINE a == applied[o]
             v == view[o]
  <1>1. \A c : VisibleAt(c)' = VisibleAt(c)
    BY SameLogSameRows
  <1>2. \A t, c : RowAt(t, c)' = RowAt(t, c)
    BY SameLogSameRows
  <1>3. TruthfulAt(view[o], applied[o])'
    BY DEF Page, TruthfulAt
  <1>4. VisibleAt(applied[o])' = VisibleAt(a)
    <2>1. VisibleAt(applied[o])' = VisibleAt(a)'
      BY DEF VisibleAt, RowAt
    <2> QED
      BY <1>1, <2>1
  <1>5. \A t : RowAt(t, applied[o])' = RowAt(t, a)
    BY DEF RowAt
  <1>6. applied'[o] # NoCursor => CurrentAt(view[o], applied[o])'
    BY <1>4, <1>5 DEF Page, CurrentAt
  <1> QED
    BY <1>3, <1>6 DEF Page

LEMMA ClientUntouched ==
  ASSUME NEW o, ClientOK(o), UNCHANGED <<log, turn, body>>,
         applied'[o] = applied[o], seen'[o] = seen[o], view'[o] = view[o],
         cursor'[o] = cursor[o], queue'[o] = queue[o], batch'[o] = batch[o],
         wire'[o] = wire[o], link'[o] = link[o], presented'[o] = presented[o]
  PROVE  ClientOK(o)'
  <1>1. Page(o)'
    BY PageUntouched DEF ClientOK
  <1>2. PageTypes(o)'
    BY DEF ClientOK, PageTypes, last
  <1>3. \A f : Sound(f)' <=> Sound(f)
    BY DEF Sound, last
  <1>4. Arrives(o)'
    BY <1>3 DEF ClientOK, Arrives, Within, Sound, last
  <1>5. Queued(o)'
    <2>1. Consecutive(queue[o])' /\ Consecutive(batch[o])'
      BY DEF ClientOK, Queued, Consecutive, Sound, last
    <2> QED
      BY <2>1 DEF ClientOK, Queued, Within, Reaches, Drawn
  <1> QED
    BY <1>1, <1>2, <1>4, <1>5 DEF ClientOK

-----------------------------------------------------------------------------
(* Steps of the client                                                      *)

\* What makes a page, when no update is committed.
LEMMA PageBecomes ==
  ASSUME NEW o, UNCHANGED <<log, turn, body>>, NEW v, NEW c, NEW z,
         applied'[o] = c, view'[o] = v, seen'[o] = z,
         \A e \in Entities : z[e] > 0 => z[e] <= c,
         TruthfulAt(v, c), c # NoCursor => CurrentAt(v, c)
  PROVE  Page(o)'
  <1>1. TruthfulAt(view[o], applied[o])'
    BY DEF TruthfulAt
  <1>2. VisibleAt(applied[o])' = VisibleAt(c)
    <2>1. VisibleAt(applied[o])' = VisibleAt(c)'
      BY DEF VisibleAt, RowAt
    <2> QED
      BY <2>1, SameLogSameRows
  <1>3. \A t : RowAt(t, applied[o])' = RowAt(t, c)
    BY DEF RowAt
  <1>4. applied'[o] # NoCursor => CurrentAt(view[o], applied[o])'
    BY <1>2, <1>3 DEF CurrentAt
  <1> QED
    BY <1>1, <1>4 DEF Page

\* Applying a snapshot no older than the page, or an update that the page either
\* shows already, and then recognises, or lacks as the next one.
LEMMA AppliedFrame ==
  ASSUME ChannelInv, PageInv, NEW o \in Observers, NEW f, ApplyFrame(o, f), Sound(f),
         f.type # "ready",
         f.type = "snapshot" => applied[o] <= f.cursor,
         f.type = "update" => f.cursor <= applied[o] + 1 /\ Drawn(o, f.cursor)
  PROVE  /\ applied'[o] \in Positions /\ applied'[o] \in {applied[o], f.cursor}
         /\ applied[o] <= applied'[o] /\ f.cursor <= applied'[o] /\ applied'[o] <= last
         /\ seen'[o] \in [Entities -> Nat] /\ view'[o] \in [Turns -> Shown]
         /\ Page(o)' /\ Drawn(o, f.cursor + 1)'
         /\ f.type = "update" => \A p \in Int : Drawn(o, p) => Drawn(o, p)'
  <1> DEFINE a == applied[o]
             c == f.cursor
  <1>0. /\ f \in WireFrames /\ c \in Nat /\ c <= last /\ last \in Nat /\ log \in Seq(Entities)
        /\ a \in Positions /\ a \in Int /\ a <= last /\ seen[o] \in [Entities -> Nat]
        /\ view[o] \in [Turns -> Shown]
        /\ RowsSaid /\ Page(o) /\ \A t \in Turns : turn[t].sends \in Nat
        /\ DOMAIN seen = Observers /\ DOMAIN view = Observers /\ DOMAIN applied = Observers
        /\ UNCHANGED <<log, turn, body>>
    <2>1. f \in WireFrames /\ c <= last
      BY DEF Sound
    <2>2. last \in Nat /\ log \in Seq(Entities)
      BY DEF ChannelInv, OutboxInv, OutboxTypeOK, last
    <2>3. a \in Positions /\ a <= last /\ seen[o] \in [Entities -> Nat] /\ view[o] \in [Turns -> Shown]
      BY DEF PageInv, ClientOK, PageTypes
    <2>4. UNCHANGED <<log, turn, body>>
      BY DEF ApplyFrame, outbox, turns
    <2> QED
      BY <2>1, <2>2, <2>3, <2>4
        DEF PageInv, ClientOK, ChannelInv, ChannelTypeOK, WireFrames, Positions, NoCursor
  <1>1. CASE f.type = "snapshot"
    <2>1. /\ seen'[o] = Unseen /\ applied'[o] = c /\ view'[o] = WithSnapshot(view[o], c)
      BY <1>0, <1>1 DEF ApplyFrame, ApplySnapshot
    <2>2. /\ WithSnapshot(view[o], c) \in [Turns -> Shown]
          /\ TruthfulAt(WithSnapshot(view[o], c), c) /\ CurrentAt(WithSnapshot(view[o], c), c)
      BY <1>0, <1>1, WithSnapshotShows DEF Page
    <2>3. Unseen \in [Entities -> Nat] /\ \A e \in Entities : ~(Unseen[e] > 0)
      BY DEF Unseen
    <2>4. Page(o)'
      BY <1>0, <2>1, <2>2, <2>3, PageBecomes
    <2>5. Drawn(o, f.cursor + 1)'
      BY <1>0, <2>1 DEF Drawn
    <2> QED
      BY <1>0, <1>1, <2>1, <2>2, <2>3, <2>4, <2>5 DEF Positions
  <1>2. CASE f.type = "update"
    <2>0. c >= 1 /\ c \in 1 .. last /\ log[c] \in Entities /\ c <= a + 1 /\ a \in Nat
      BY <1>0, <1>2 DEF Sound, Positions, NoCursor, last
    <2>1. Drawn(o, c)
      BY <1>2
    <2>2. CASE IsNews(o, f)
      <3>1. /\ seen'[o] = [seen[o] EXCEPT ![log[c]] = c] /\ applied'[o] = c
            /\ view'[o] = WithUpdate(view[o], f) /\ c > seen[o][log[c]]
        BY <1>0, <1>2, <2>2 DEF ApplyFrame, ApplyUpdate, IsNews
      <3>2. c = a + 1
        <4>1. ~(c <= a)
          BY <1>0, <2>0, <2>1, <3>1 DEF Drawn
        <4> QED
          BY <1>0, <2>0, <4>1
      <3>3. /\ WithUpdate(view[o], f) \in [Turns -> Shown]
            /\ TruthfulAt(WithUpdate(view[o], f), c) /\ CurrentAt(WithUpdate(view[o], f), c)
        <4>1. TruthfulAt(view[o], a) /\ CurrentAt(view[o], a) /\ f.cursor = a + 1 /\ a + 1 <= last
          BY <1>0, <2>0, <3>2 DEF Page, NoCursor
        <4> HIDE DEF a
        <4> QED
          BY <1>0, <1>2, <2>0, <3>2, <4>1, WithUpdateShows
      <3>4. seen'[o] \in [Entities -> Nat]
        BY <1>0, <2>0, <3>1
      <3>5. \A e \in Entities : seen'[o][e] > 0 => seen'[o][e] <= c
        BY <1>0, <2>0, <3>1, <3>2 DEF Page
      <3>6. Page(o)'
        BY <1>0, <3>1, <3>3, <3>5, PageBecomes
      <3>7. \A d \in 1 .. c : log[d] \in Entities
        BY <1>0 DEF last
      <3>8. ASSUME NEW p \in Int, Drawn(o, p) PROVE Drawn(o, p)'
        <4> SUFFICES ASSUME NEW d \in 1 .. c, d >= p PROVE seen'[o][log[d]] >= d
          BY <1>0, <3>1 DEF Drawn
        <4>1. CASE log[d] = log[c]
          BY <1>0, <2>0, <3>1, <4>1
        <4>2. CASE log[d] # log[c]
          <5>1. d \in 1 .. a
            BY <1>0, <3>2, <4>2
          <5>2. seen[o][log[d]] >= d
            BY <3>8, <5>1 DEF Drawn
          <5> QED
            BY <1>0, <3>1, <3>7, <4>2, <5>2
        <4> QED
          BY <4>1, <4>2
      <3>9. Drawn(o, f.cursor + 1)'
        BY <1>0, <3>1 DEF Drawn
      <3> QED
        BY <1>0, <2>0, <3>1, <3>2, <3>3, <3>4, <3>6, <3>8, <3>9 DEF Positions
    <2>3. CASE ~IsNews(o, f)
      <3>1. UNCHANGED <<applied, seen, view>>
        BY <1>2, <2>3 DEF ApplyFrame, ApplyUpdate
      <3>2. seen[o][log[c]] \in Nat /\ c <= seen[o][log[c]]
        BY <1>0, <2>0, <2>3 DEF IsNews
      <3>3. c <= a
        BY <1>0, <2>0, <3>2 DEF Page
      <3>4. Page(o)'
        BY <1>0, <3>1, PageUntouched
      <3>5. \A p \in Int : Drawn(o, p) => Drawn(o, p)'
        BY <1>0, <3>1 DEF Drawn
      <3>6. Drawn(o, c + 1)
        BY <1>0, <2>1 DEF Drawn
      <3>7. c + 1 \in Int
        BY <1>0
      <3> QED
        BY <1>0, <3>1, <3>3, <3>4, <3>5, <3>6, <3>7
    <2> QED
      BY <2>2, <2>3
  <1> QED
    BY <1>0, <1>1, <1>2 DEF WireFrames

\* A batch applied from its first frame, with the rest of it still to come.
LEMMA BatchGoesOn ==
  ASSUME ChannelInv, PageInv, NEW o \in Observers, NEW b \in Seq(WireFrames), b # <<>>,
         Consecutive(b), batch'[o] = Tail(b), ApplyFrame(o, Head(b)),
         b[1].type = "snapshot" => applied[o] <= b[1].cursor,
         b[1].type = "update" => b[1].cursor <= applied[o] + 1 /\ Drawn(o, b[1].cursor)
  PROVE  /\ applied'[o] \in Positions /\ applied[o] <= applied'[o] /\ applied'[o] <= last
         /\ seen'[o] \in [Entities -> Nat] /\ view'[o] \in [Turns -> Shown] /\ Page(o)'
         /\ batch'[o] \in Seq(WireFrames) /\ Consecutive(batch[o])'
         /\ batch'[o] # <<>> =>
              /\ batch'[o][1].type = "update" /\ batch'[o][1].cursor <= applied'[o] + 1
              /\ Drawn(o, batch[o][1].cursor)'
         /\ \A c \in Int : (\E i \in DOMAIN b : c <= b[i].cursor) => Reaches(o, c)'
         /\ \A c \in Int : applied[o] <= c /\ (\A i \in DOMAIN b : b[i].cursor <= c) => Within(o, c)'
         /\ Drawn(o, b[1].cursor + 1)'
         /\ b[1].type = "update" => \A p \in Int : Drawn(o, p) => Drawn(o, p)'
  <1> DEFINE f == Head(b)
             r == Tail(b)
             n == Len(b)
  <1>0. /\ f = b[1] /\ n \in Nat \ {0} /\ DOMAIN b = 1 .. n /\ r \in Seq(WireFrames)
        /\ DOMAIN r = 1 .. n - 1 /\ Len(r) = n - 1 /\ (r # <<>> => n > 1)
        /\ \A i \in 1 .. n - 1 : r[i] = b[i + 1] /\ i + 1 \in 1 .. n
        /\ 1 \in DOMAIN b
    OBVIOUS
  <1>1. Sound(f) /\ f.type # "ready" /\ f.cursor \in Nat
    BY <1>0 DEF Consecutive, Sound, WireFrames
  <1> HIDE DEF f, r, n
  <1>2. /\ applied'[o] \in Positions /\ applied'[o] \in {applied[o], f.cursor}
        /\ applied[o] <= applied'[o] /\ f.cursor <= applied'[o] /\ applied'[o] <= last
        /\ seen'[o] \in [Entities -> Nat] /\ view'[o] \in [Turns -> Shown]
        /\ Page(o)' /\ Drawn(o, f.cursor + 1)'
        /\ f.type = "update" => \A p \in Int : Drawn(o, p) => Drawn(o, p)'
    <2>1. ApplyFrame(o, f)
      BY DEF f
    <2>2. /\ f.type = "snapshot" => applied[o] <= f.cursor
          /\ f.type = "update" => f.cursor <= applied[o] + 1 /\ Drawn(o, f.cursor)
      BY <1>0
    <2> QED
      BY <1>1, <2>1, <2>2, AppliedFrame
  <1>3. applied[o] \in Int /\ applied'[o] \in Int /\ batch'[o] = r
    BY <1>2 DEF PageInv, ClientOK, PageTypes, Positions, NoCursor, r
  <1>4. last' = last
    BY DEF ApplyFrame, outbox, last
  <1>5. \A i \in 1 .. n : /\ Sound(b[i]) /\ b[i].type # "ready" /\ b[i].cursor = f.cursor + (i - 1)
                          /\ (i # 1 => b[i].type = "update")
    BY <1>0 DEF Consecutive
  <1>6. \A i \in 1 .. n - 1 : /\ Sound(r[i]) /\ r[i].type = "update"
                              /\ r[i].cursor = f.cursor + i
    <2>1. \A i \in 1 .. n - 1 : i + 1 # 1 /\ (i + 1) - 1 = i
      BY <1>0
    <2> QED
      BY <1>0, <1>5, <2>1
  <1>7. Consecutive(batch[o])'
    <2>1. \A i \in 1 .. n - 1 : /\ Sound(r[i])' /\ r[i].type # "ready" /\ r[i].type = "update"
                                /\ r[i].cursor = r[1].cursor + (i - 1)
      <3>1. \A i \in 1 .. n - 1 : 1 \in 1 .. n - 1 /\ f.cursor + i = (f.cursor + 1) + (i - 1)
        BY <1>0, <1>1
      <3>2. \A i \in 1 .. n - 1 : Sound(r[i])'
        <4> SUFFICES ASSUME NEW i \in 1 .. n - 1 PROVE Sound(r[i])'
          OBVIOUS
        <4>1. r' = r
          <5>1. b' = b
            OBVIOUS
          <5> QED
            BY <5>1 DEF r
        <4> QED
          BY <1>4, <1>6, <4>1 DEF Sound
      <3> QED
        BY <1>6, <3>1, <3>2
    <2> QED
      BY <1>0, <1>3, <1>4, <2>1 DEF Consecutive, Sound
  <1>8. r # <<>> => /\ r[1].type = "update" /\ r[1].cursor = f.cursor + 1
    <2>1. r # <<>> => 1 \in 1 .. n - 1
      BY <1>0
    <2> QED
      BY <1>6, <2>1
  <1>9. ASSUME batch'[o] # <<>>
        PROVE  /\ batch'[o][1].type = "update" /\ batch'[o][1].cursor <= applied'[o] + 1
               /\ Drawn(o, batch[o][1].cursor)'
    <2>1. batch'[o][1].type = "update" /\ batch'[o][1].cursor = f.cursor + 1
      BY <1>3, <1>8, <1>9
    <2>2. Drawn(o, batch[o][1].cursor)'
      BY <1>2, <2>1 DEF Drawn
    <2>3. f.cursor + 1 <= applied'[o] + 1
      BY <1>1, <1>2, <1>3
    <2> QED
      BY <2>1, <2>2, <2>3, Zenon
  <1>10. ASSUME NEW c \in Int, NEW i \in DOMAIN b, c <= b[i].cursor
         PROVE  Reaches(o, c)'
    <2>1. CASE i = 1
      BY <1>0, <1>1, <1>2, <1>3, <1>10, <2>1 DEF Reaches
    <2>2. CASE i # 1
      <3>1. i - 1 \in 1 .. n - 1 /\ (i - 1) + 1 = i
        BY <1>0, <2>2
      <3>2. b[i] = r[i - 1] /\ i - 1 \in DOMAIN r
        BY <1>0, <3>1
      <3> QED
        BY <1>3, <1>10, <3>2 DEF Reaches
    <2> QED
      BY <2>1, <2>2
  <1>11. ASSUME NEW c \in Int, applied[o] <= c, \A i \in DOMAIN b : b[i].cursor <= c
         PROVE  Within(o, c)'
    <2>1. \A i \in DOMAIN r : r[i].cursor <= c
      BY <1>0, <1>11
    <2>2. applied'[o] <= c
      BY <1>0, <1>2, <1>11
    <2> QED
      BY <1>3, <2>1, <2>2 DEF Within
  <1>12. Drawn(o, b[1].cursor + 1)' /\ (b[1].type = "update" => \A p \in Int : Drawn(o, p) => Drawn(o, p)')
    BY <1>0, <1>2
  <1> QED
    BY <1>0, <1>2, <1>3, <1>7, <1>9, <1>10, <1>11, <1>12

\* The next frame of the batch is applied while the socket goes on queueing.
LEMMA ApplyNextKeepsClient ==
  ASSUME ChannelInv, PageInv, NEW o \in Observers, ApplyNext(o)
  PROVE  ClientOK(o)' /\ applied'[o] >= applied[o]
  <1> DEFINE b == batch[o]
             q == queue[o]
  <1>0. /\ b # <<>> /\ batch'[o] = Tail(b) /\ ApplyFrame(o, Head(b))
        /\ queue' = queue /\ cursor' = cursor /\ wire' = wire /\ link' = link
        /\ presented' = presented /\ UNCHANGED <<log, turn, body>> /\ last' = last
    BY DEF ApplyNext, ApplyFrame, ChannelInv, ChannelTypeOK, outbox, turns, link_, last
  <1>1. PageTypes(o) /\ Arrives(o) /\ Queued(o)
    BY DEF PageInv, ClientOK
  <1>2. /\ b \in Seq(WireFrames) /\ Consecutive(b) /\ b[1].type = "update"
        /\ b[1].cursor <= applied[o] + 1 /\ Drawn(o, b[1].cursor)
    BY <1>0, <1>1 DEF PageTypes, Queued
  <1>3. /\ applied'[o] \in Positions /\ applied[o] <= applied'[o] /\ applied'[o] <= last
        /\ seen'[o] \in [Entities -> Nat] /\ view'[o] \in [Turns -> Shown] /\ Page(o)'
        /\ batch'[o] \in Seq(WireFrames) /\ Consecutive(batch[o])'
        /\ batch'[o] # <<>> =>
             /\ batch'[o][1].type = "update" /\ batch'[o][1].cursor <= applied'[o] + 1
             /\ Drawn(o, batch[o][1].cursor)'
        /\ \A c \in Int : (\E i \in DOMAIN b : c <= b[i].cursor) => Reaches(o, c)'
        /\ \A c \in Int : applied[o] <= c /\ (\A i \in DOMAIN b : b[i].cursor <= c) => Within(o, c)'
        /\ \A p \in Int : Drawn(o, p) => Drawn(o, p)'
    <2> HIDE DEF b
    <2>1. b[1].type # "snapshot"
      BY <1>2
    <2> QED
      BY <1>0, <1>2, <2>1, BatchGoesOn
  <1>4. applied[o] \in Int /\ applied'[o] \in Int /\ cursor[o] \in Int
    BY <1>1, <1>3 DEF PageTypes, Positions, NoCursor
  <1>5. ASSUME NEW c \in Int, Reaches(o, c) PROVE Reaches(o, c)'
    <2>1. CASE c <= applied[o]
      <3>1. c <= applied'[o]
        BY <1>3, <1>4, <2>1
      <3> QED
        BY <3>1 DEF Reaches
    <2>2. CASE ~(c <= applied[o])
      BY <1>3, <1>5, <2>2 DEF Reaches
    <2> QED
      BY <2>1, <2>2
  <1>6. ASSUME NEW c \in Int, Within(o, c) PROVE Within(o, c)'
    BY <1>3, <1>6 DEF Within
  <1>7. PageTypes(o)'
    BY <1>0, <1>1, <1>3 DEF PageTypes
  <1>8. \A i \in DOMAIN wire[o] : Sound(wire[o][i])' /\ wire[o][i].cursor \in Int
    BY <1>0, <1>1 DEF Arrives, Sound, WireFrames
  <1>9. Arrives(o)'
    <2>1. wire'[o] # <<>> /\ wire'[o][1].type = "snapshot" => Within(o, wire[o][1].cursor)'
      <3> SUFFICES ASSUME wire[o] # <<>>, wire[o][1].type = "snapshot"
                   PROVE  Within(o, wire[o][1].cursor)'
        BY <1>0
      <3>1. wire[o][1].cursor \in Int
        <4>1. 1 \in DOMAIN wire[o]
          BY <1>1 DEF PageTypes
        <4> QED
          BY <1>8, <4>1
      <3>2. Within(o, wire[o][1].cursor)
        BY <1>1 DEF Arrives
      <3> QED
        BY <1>0, <1>3, <3>1, <3>2 DEF Within
    <2> QED
      BY <1>0, <1>1, <1>8, <2>1 DEF Arrives
  <1>10. Consecutive(queue[o])'
    BY <1>0, <1>1 DEF Queued, Consecutive, Sound
  <1>11. ASSUME q # <<>>
         PROVE  /\ q[Len(q)].cursor = cursor[o]
                /\ q[1].cursor \in Int /\ q[1].cursor - 1 \in Int
                /\ IF q[1].type = "snapshot" THEN Within(o, queue[o][1].cursor)'
                   ELSE Reaches(o, queue[o][1].cursor - 1)' /\ Drawn(o, queue[o][1].cursor)'
    <2>1. q[1].cursor \in Int /\ q[1].cursor - 1 \in Int
      <3>1. 1 \in DOMAIN q
        BY <1>1, <1>11 DEF PageTypes
      <3>2. q[1] \in WireFrames
        BY <1>1, <3>1 DEF Queued, Consecutive, Sound
      <3> QED
        BY <3>2 DEF WireFrames
    <2>2. /\ q[Len(q)].cursor = cursor[o]
          /\ IF q[1].type = "snapshot" THEN Within(o, q[1].cursor)
             ELSE Reaches(o, q[1].cursor - 1) /\ Drawn(o, q[1].cursor)
      BY <1>1, <1>11 DEF Queued
    <2>3. CASE q[1].type = "snapshot"
      <3>1. Within(o, queue[o][1].cursor)'
        BY <1>0, <1>3, <2>1, <2>2, <2>3 DEF Within
      <3> QED
        BY <2>1, <2>2, <2>3, <3>1
    <2>4. CASE q[1].type # "snapshot"
      <3> DEFINE c == q[1].cursor - 1
      <3>1. c \in Int /\ Reaches(o, c)
        BY <2>1, <2>2, <2>4
      <3>2. \/ c <= applied'[o] \/ \E i \in DOMAIN batch'[o] : c <= batch'[o][i].cursor
        <4> HIDE DEF c
        <4> QED
          BY <1>5, <3>1 DEF Reaches
      <3>3. Reaches(o, queue[o][1].cursor - 1)'
        BY <1>0, <3>2 DEF Reaches
      <3>4. Drawn(o, queue[o][1].cursor)'
        BY <1>0, <1>3, <2>1, <2>2, <2>4 DEF Drawn
      <3> QED
        BY <2>1, <2>2, <2>4, <3>3, <3>4
    <2> QED
      BY <2>3, <2>4
  <1>12. q = <<>> => Reaches(o, cursor[o])'
    <2> SUFFICES ASSUME q = <<>> PROVE Reaches(o, cursor[o])'
      OBVIOUS
    <2>1. Reaches(o, cursor[o])
      BY <1>1 DEF Queued
    <2> DEFINE c == cursor[o]
    <2>2. \/ c <= applied'[o] \/ \E i \in DOMAIN batch'[o] : c <= batch'[o][i].cursor
      <3>1. c \in Int /\ Reaches(o, c)
        BY <1>4, <2>1
      <3> HIDE DEF c
      <3> QED
        BY <1>5, <3>1 DEF Reaches
    <2> QED
      BY <1>0, <2>2 DEF Reaches
  <1>13. Drawn(o, cursor[o] + 1)'
    <2>1. Drawn(o, cursor[o] + 1) /\ cursor[o] + 1 \in Int
      BY <1>1, <1>4 DEF Queued
    <2> QED
      BY <1>0, <1>3, <2>1 DEF Drawn
  <1>14. Queued(o)'
    BY <1>0, <1>3, <1>10, <1>11, <1>12, <1>13 DEF Queued
  <1> QED
    BY <1>3, <1>4, <1>7, <1>9, <1>14 DEF ClientOK

\* _flush takes what was accepted, and its first frame is applied at once.
LEMMA TakeBatchKeepsClient ==
  ASSUME ChannelInv, PageInv, NEW o \in Observers, TakeBatch(o)
  PROVE  ClientOK(o)' /\ applied'[o] >= applied[o]
  <1> DEFINE q == queue[o]
             n == Len(queue[o])
  <1>0. /\ q # <<>> /\ batch[o] = <<>> /\ batch'[o] = Tail(q) /\ ApplyFrame(o, Head(q))
        /\ queue'[o] = <<>> /\ cursor' = cursor /\ wire' = wire /\ link' = link
        /\ presented' = presented /\ UNCHANGED <<log, turn, body>> /\ last' = last
    BY DEF TakeBatch, ApplyFrame, ChannelInv, ChannelTypeOK, outbox, turns, link_, last
  <1>1. PageTypes(o) /\ Arrives(o) /\ Queued(o)
    BY DEF PageInv, ClientOK
  <1>2. /\ q \in Seq(WireFrames) /\ Consecutive(q) /\ q[n].cursor = cursor[o]
        /\ q[1].type = "snapshot" => Within(o, q[1].cursor)
        /\ q[1].type # "snapshot" => Reaches(o, q[1].cursor - 1) /\ Drawn(o, q[1].cursor)
    BY <1>0, <1>1 DEF PageTypes, Queued
  <1>3. /\ n \in Nat \ {0} /\ DOMAIN q = 1 .. n /\ n \in DOMAIN q /\ 1 \in DOMAIN q
    BY <1>0, <1>2
  <1>4. /\ q[1] \in WireFrames /\ q[1].cursor \in Nat /\ q[1].type \in {"snapshot", "update"}
        /\ q[n].cursor = q[1].cursor + (n - 1)
    <2>1. Sound(q[1]) /\ q[1].type # "ready" /\ q[n].cursor = q[1].cursor + (n - 1)
      BY <1>2, <1>3 DEF Consecutive
    <2> QED
      BY <2>1 DEF Sound, WireFrames
  <1>5. applied[o] \in Int /\ cursor[o] \in Int
    BY <1>1 DEF PageTypes, Positions, NoCursor
  <1>6. /\ q[1].type = "snapshot" => applied[o] <= q[1].cursor
        /\ q[1].type = "update" => q[1].cursor <= applied[o] + 1 /\ Drawn(o, q[1].cursor)
    <2>1. q[1].type = "snapshot" => applied[o] <= q[1].cursor
      BY <1>2 DEF Within
    <2>2. DOMAIN batch[o] = {}
      BY <1>0
    <2>3. q[1].type = "update" => q[1].cursor - 1 <= applied[o]
      BY <1>2, <2>2 DEF Reaches
    <2> QED
      BY <1>2, <1>4, <1>5, <2>1, <2>3
  <1> HIDE DEF q, n
  <1> PICK b : b = q
    OBVIOUS
  <1>7. /\ applied'[o] \in Positions /\ applied[o] <= applied'[o] /\ applied'[o] <= last
        /\ seen'[o] \in [Entities -> Nat] /\ view'[o] \in [Turns -> Shown] /\ Page(o)'
        /\ batch'[o] \in Seq(WireFrames) /\ Consecutive(batch[o])'
        /\ batch'[o] # <<>> =>
             /\ batch'[o][1].type = "update" /\ batch'[o][1].cursor <= applied'[o] + 1
             /\ Drawn(o, batch[o][1].cursor)'
        /\ \A c \in Int : (\E i \in DOMAIN b : c <= b[i].cursor) => Reaches(o, c)'
        /\ Drawn(o, b[1].cursor + 1)'
    BY <1>0, <1>2, <1>6, BatchGoesOn
  <1>8. applied'[o] \in Int
    BY <1>7 DEF Positions, NoCursor
  <1>9. PageTypes(o)'
    <2>1. <<>> \in Seq(WireFrames)
      OBVIOUS
    <2> QED
      BY <1>0, <1>1, <1>7, <2>1 DEF PageTypes
  <1>10. Arrives(o)'
    <2>1. ~(wire[o] # <<>> /\ wire[o][1].type = "snapshot")
      BY <1>0, <1>1 DEF Arrives, q
    <2>2. \A i \in DOMAIN wire[o] : Sound(wire[o][i])'
      BY <1>0, <1>1 DEF Arrives, Sound
    <2> QED
      BY <1>0, <1>1, <2>1, <2>2 DEF Arrives
  <1>11. Consecutive(queue[o])'
    <2>1. DOMAIN queue'[o] = {}
      BY <1>0
    <2> QED
      BY <2>1 DEF Consecutive
  <1>12. Reaches(o, cursor[o])'
    <2> DEFINE c == cursor[o]
    <2>1. c \in Int /\ n \in DOMAIN q /\ c <= q[n].cursor
      BY <1>2, <1>3, <1>5
    <2> HIDE DEF c
    <2>2. \/ c <= applied'[o] \/ \E i \in DOMAIN batch'[o] : c <= batch'[o][i].cursor
      BY <1>7, <2>1 DEF Reaches
    <2> QED
      BY <1>0, <2>2 DEF Reaches, c
  <1>13. Drawn(o, cursor[o] + 1)'
    <2>1. cursor'[o] + 1 >= q[1].cursor + 1 /\ cursor'[o] \in Int
      BY <1>0, <1>2, <1>3, <1>4, <1>5
    <2>2. \A d \in 1 .. applied'[o] : d >= b[1].cursor + 1 => seen'[o][log'[d]] >= d
      BY <1>7 DEF Drawn
    <2> QED
      BY <1>4, <1>8, <2>1, <2>2 DEF Drawn
  <1>14. Queued(o)'
    BY <1>0, <1>7, <1>11, <1>12, <1>13 DEF Queued
  <1> QED
    BY <1>5, <1>7, <1>8, <1>9, <1>10, <1>14 DEF ClientOK

\* A frame that follows is queued behind what was accepted before it.
LEMMA AcceptKeepsClient ==
  ASSUME ChannelInv, PageInv, NEW o \in Observers, Accept(o)
  PROVE  ClientOK(o)'
  <1> PICK w : w = wire[o]
    OBVIOUS
  <1> PICK q : q = queue[o]
    OBVIOUS
  <1> PICK f : f = Head(w)
    OBVIOUS
  <1>0. /\ w # <<>> /\ Follows(f, cursor[o]) /\ wire'[o] = Tail(w) /\ cursor'[o] = f.cursor
        /\ queue'[o] = IF f.type = "ready" THEN q ELSE Append(q, f)
        /\ UNCHANGED <<batch, link, presented, applied, seen, view>>
        /\ UNCHANGED <<log, turn, body>> /\ last' = last
    BY DEF Accept, ChannelInv, ChannelTypeOK, outbox, turns, last
  <1>1. PageTypes(o) /\ Arrives(o) /\ Queued(o) /\ Page(o)
    BY DEF PageInv, ClientOK
  <1>2. w \in Seq(WireFrames) /\ q \in Seq(WireFrames) /\ last \in Nat
        /\ applied[o] \in Int /\ cursor[o] \in Int
    <2>1. last \in Nat
      BY DEF ChannelInv, OutboxInv, OutboxTypeOK, last
    <2> QED
      BY <1>1, <2>1 DEF PageTypes, Positions, NoCursor
  <1>3. /\ f = w[1] /\ 1 \in DOMAIN w /\ Tail(w) \in Seq(WireFrames)
        /\ \A i \in DOMAIN Tail(w) : i + 1 \in DOMAIN w /\ i + 1 # 1 /\ Tail(w)[i] = w[i + 1]
    BY <1>0, <1>2
  <1>4. /\ Sound(f) /\ f \in WireFrames /\ f.cursor \in Nat /\ f.cursor <= last
        /\ f.type \in {"update", "snapshot", "ready"}
    BY <1>1, <1>3 DEF Arrives, Sound, WireFrames
  <1>5. link[o] = "open" /\ \A i \in DOMAIN Tail(w) : Sound(Tail(w)[i]) /\ Tail(w)[i].type # "snapshot"
    BY <1>0, <1>1, <1>3 DEF Arrives
  <1> DEFINE m == Len(q)
             p == Append(q, f)
  <1>6. /\ m \in Nat /\ DOMAIN q = 1 .. m /\ p \in Seq(WireFrames) /\ Len(p) = m + 1
        /\ DOMAIN p = 1 .. m + 1 /\ p # <<>> /\ p[m + 1] = f
        /\ \A i \in 1 .. m : p[i] = q[i]
        /\ (q = <<>> <=> m = 0) /\ (q # <<>> => 1 \in 1 .. m /\ m \in 1 .. m)
    BY <1>2, <1>4
  <1> HIDE DEF m, p
  <1>7. PageTypes(o)'
    <2>1. f.cursor \in Positions /\ queue'[o] \in Seq(WireFrames)
      BY <1>0, <1>2, <1>4, <1>6 DEF Positions, p
    <2> QED
      BY <1>0, <1>1, <1>3, <1>4, <2>1 DEF PageTypes
  <1>8. Arrives(o)'
    <2>1. \A i \in DOMAIN wire'[o] : Sound(wire[o][i])' /\ wire'[o][i].type # "snapshot"
      BY <1>0, <1>5 DEF Sound
    <2>2. wire'[o] # <<>> => 1 \in DOMAIN wire'[o]
      BY <1>0, <1>3
    <2> QED
      BY <1>0, <1>5, <2>1, <2>2 DEF Arrives
  <1>9. Page(o)'
    BY <1>0, <1>1, PageUntouched
  <1>10. /\ \A c : Reaches(o, c)' <=> Reaches(o, c)
         /\ \A c : Within(o, c)' <=> Within(o, c)
         /\ \A c : Drawn(o, c)' <=> Drawn(o, c)
    BY <1>0 DEF Reaches, Within, Drawn
  <1>11. /\ Consecutive(q) /\ Consecutive(batch[o])'
         /\ batch'[o] # <<>> =>
              /\ batch'[o][1].type = "update" /\ batch'[o][1].cursor <= applied'[o] + 1
              /\ Drawn(o, batch[o][1].cursor)'
    <2>1. Consecutive(q)
      BY <1>1 DEF Queued
    <2>2. Consecutive(batch[o])'
      BY <1>0, <1>1 DEF Queued, Consecutive, Sound
    <2> QED
      BY <1>0, <1>1, <2>1, <2>2 DEF Queued, Drawn
  <1>12. CASE f.type = "ready"
    <2>1. cursor'[o] = cursor[o] /\ queue'[o] = queue[o]
      BY <1>0, <1>12 DEF Follows
    <2>2. Consecutive(queue[o])'
      BY <1>0, <1>1, <2>1 DEF Queued, Consecutive, Sound
    <2>3. Queued(o)'
      BY <1>0, <1>1, <1>11, <2>1, <2>2 DEF Queued, Reaches, Within, Drawn
    <2> QED
      BY <1>7, <1>8, <1>9, <2>3 DEF ClientOK
  <1>13. CASE f.type # "ready"
    <2>0. queue'[o] = p
      BY <1>0, <1>13 DEF p
    <2>1. /\ q # <<>> => f.type = "update" /\ f.cursor = q[1].cursor + m
          /\ q[1].cursor \in Nat \/ q = <<>>
      <3> SUFFICES ASSUME q # <<>>
                   PROVE  f.type = "update" /\ f.cursor = q[1].cursor + m /\ q[1].cursor \in Nat
        OBVIOUS
      <3>1. f.type # "snapshot"
        BY <1>0, <1>1, <1>3 DEF Arrives
      <3>2. f.type = "update" /\ f.cursor = cursor[o] + 1
        BY <1>0, <1>4, <1>13, <3>1 DEF Follows
      <3>3. q[m].cursor = cursor[o] /\ q[m].cursor = q[1].cursor + (m - 1) /\ Sound(q[1])
        BY <1>1, <1>6, <1>11 DEF Queued, Consecutive, m
      <3>4. q[1].cursor \in Nat
        BY <3>3 DEF Sound, WireFrames
      <3> DEFINE a == q[1].cursor
                 c == cursor[o]
      <3>5. a \in Nat /\ c \in Int /\ m \in Nat /\ c = a + (m - 1) /\ f.cursor = c + 1
        BY <1>2, <1>6, <3>2, <3>3, <3>4
      <3> HIDE DEF a, c
      <3>6. f.cursor = a + m
        BY <3>5
      <3> QED
        BY <3>2, <3>4, <3>6 DEF a
    <2>2. \A i \in 1 .. m + 1 : /\ Sound(p[i]) /\ p[i].type # "ready"
                                /\ p[i].cursor = p[1].cursor + (i - 1)
                                /\ i # 1 => p[i].type = "update"
      <3> SUFFICES ASSUME NEW i \in 1 .. m + 1
                   PROVE  /\ Sound(p[i]) /\ p[i].type # "ready"
                          /\ p[i].cursor = p[1].cursor + (i - 1)
                          /\ i # 1 => p[i].type = "update"
        OBVIOUS
      <3>1. CASE i \in 1 .. m
        <4>1. p[i] = q[i] /\ p[1] = q[1] /\ i \in DOMAIN q
          BY <1>6, <3>1
        <4> QED
          BY <1>11, <4>1 DEF Consecutive
      <3>2. CASE i = m + 1 /\ m = 0
        <4>1. p[i] = f /\ p[1] = f /\ i = 1
          BY <1>6, <3>2
        <4> QED
          BY <1>4, <1>13, <4>1
      <3>3. CASE i = m + 1 /\ m # 0
        <4>1. p[i] = f /\ p[1] = q[1] /\ i - 1 = m /\ q # <<>>
          BY <1>6, <3>3
        <4> QED
          BY <1>4, <1>13, <2>1, <4>1
      <3> QED
        BY <1>6, <3>1, <3>2, <3>3
    <2>3. Consecutive(queue[o])'
      <3>1. DOMAIN queue'[o] = 1 .. m + 1
        BY <1>6, <2>0
      <3> QED
        BY <1>0, <2>0, <2>2, <3>1 DEF Consecutive, Sound
    <2>4. queue'[o] # <<>> /\ queue'[o][Len(queue'[o])].cursor = cursor'[o]
      BY <1>0, <1>6, <2>0
    <2>5. CASE q # <<>>
      <3>1. p[1] = q[1]
        BY <1>6, <2>5
      <3>2. IF p[1].type = "snapshot" THEN Within(o, p[1].cursor)
            ELSE Reaches(o, p[1].cursor - 1) /\ Drawn(o, p[1].cursor)
        BY <1>1, <2>5, <3>1 DEF Queued
      <3>3. Drawn(o, f.cursor + 1)
        <4>1. Drawn(o, cursor[o] + 1) /\ f.cursor = cursor[o] + 1
          BY <1>0, <1>1, <1>4, <1>13, <2>1, <2>5 DEF Queued, Follows
        <4> QED
          BY <1>2, <4>1 DEF Drawn
      <3>4. IF queue'[o][1].type = "snapshot" THEN Within(o, queue[o][1].cursor)'
            ELSE Reaches(o, queue[o][1].cursor - 1)' /\ Drawn(o, queue[o][1].cursor)'
        BY <1>0, <2>0, <3>2 DEF Reaches, Within, Drawn
      <3>5. Drawn(o, cursor[o] + 1)'
        BY <1>0, <3>3 DEF Drawn
      <3>6. Queued(o)'
        BY <1>11, <2>3, <2>4, <3>4, <3>5 DEF Queued
      <3> QED
        BY <1>7, <1>8, <1>9, <3>6 DEF ClientOK
    <2>6. CASE q = <<>>
      <3>1. p[1] = f
        BY <1>6, <2>6
      <3>2. IF f.type = "snapshot" THEN Within(o, f.cursor)
            ELSE Reaches(o, f.cursor - 1) /\ Drawn(o, f.cursor)
        <4>1. CASE f.type = "snapshot"
          BY <1>0, <1>1, <1>3, <4>1 DEF Arrives
        <4>2. CASE f.type # "snapshot"
          <5>1. f.cursor = cursor[o] + 1
            BY <1>0, <1>4, <1>13, <4>2 DEF Follows
          <5>2. f.cursor - 1 = cursor[o]
            BY <1>2, <5>1
          <5>3. Reaches(o, cursor[o]) /\ Drawn(o, cursor[o] + 1)
            BY <1>1, <2>6 DEF Queued
          <5> QED
            BY <4>2, <5>1, <5>2, <5>3
        <4> QED
          BY <4>1, <4>2
      <3>3. Drawn(o, f.cursor + 1)
        BY <1>2, <1>4, <3>2 DEF Drawn, Within
      <3>4. IF queue'[o][1].type = "snapshot" THEN Within(o, queue[o][1].cursor)'
            ELSE Reaches(o, queue[o][1].cursor - 1)' /\ Drawn(o, queue[o][1].cursor)'
        BY <1>0, <2>0, <3>1, <3>2 DEF Reaches, Within, Drawn
      <3>5. Drawn(o, cursor[o] + 1)'
        BY <1>0, <3>3 DEF Drawn
      <3>6. Queued(o)'
        BY <1>11, <2>3, <2>4, <3>4, <3>5 DEF Queued
      <3> QED
        BY <1>7, <1>8, <1>9, <3>6 DEF ClientOK
    <2> QED
      BY <2>5, <2>6
  <1> QED
    BY <1>12, <1>13

-----------------------------------------------------------------------------
(* Sockets                                                                  *)

\* A client that lost its connection, with what was on the socket.
LEMMA ClosesKeepsClient ==
  ASSUME ChannelInv, PageInv, NEW o \in Observers, Closes(o)
  PROVE  ClientOK(o)'
  <1>0. /\ link'[o] = "closed" /\ wire'[o] = <<>> /\ presented'[o] = NoCursor
        /\ UNCHANGED <<cursor, queue, batch, applied, seen, view>>
        /\ UNCHANGED <<log, turn, body>> /\ last' = last
    BY DEF Closes, Detach, ChannelInv, ChannelTypeOK, outbox, turns, client, last
  <1>1. PageTypes(o) /\ Queued(o) /\ Page(o)
    BY DEF PageInv, ClientOK
  <1>2. <<>> \in Seq(WireFrames) /\ DOMAIN <<>> = {}
    OBVIOUS
  <1>3. PageTypes(o)'
    BY <1>0, <1>1, <1>2 DEF PageTypes, Positions
  <1>4. Arrives(o)'
    BY <1>0, <1>2 DEF Arrives
  <1>5. Queued(o)'
    <2>1. Consecutive(queue[o])' /\ Consecutive(batch[o])'
      BY <1>0, <1>1 DEF Queued, Consecutive, Sound
    <2> QED
      BY <1>0, <1>1, <2>1 DEF Queued, Within, Reaches, Drawn
  <1> QED
    BY <1>0, <1>1, <1>3, <1>4, <1>5, PageUntouched DEF ClientOK

\* A client that dials drops its queue and asks for what follows its page; the
\* batch it is applying only takes it further.
LEMMA DialKeepsClient ==
  ASSUME ChannelInv, PageInv, NEW o \in Observers, Dial(o)
  PROVE  ClientOK(o)'
  <1>0. /\ link[o] = "closed" /\ link'[o] = "dialing" /\ presented'[o] = applied[o]
        /\ cursor'[o] = applied[o] /\ queue'[o] = <<>>
        /\ UNCHANGED <<wire, batch, applied, seen, view>>
        /\ UNCHANGED <<log, turn, body>> /\ last' = last
    BY DEF Dial, ResumeFrom, ChannelInv, ChannelTypeOK, outbox, turns, last
  <1>1. PageTypes(o) /\ Arrives(o) /\ Queued(o) /\ Page(o)
    BY DEF PageInv, ClientOK
  <1>2. <<>> \in Seq(WireFrames) /\ DOMAIN <<>> = {} /\ applied[o] \in Int
    BY <1>1 DEF PageTypes, Positions, NoCursor
  <1>3. PageTypes(o)'
    BY <1>0, <1>1, <1>2 DEF PageTypes
  <1>4. Arrives(o)'
    BY <1>0, <1>1, <1>2 DEF Arrives
  <1>5. Queued(o)'
    <2>1. Consecutive(queue[o])'
      BY <1>0, <1>2 DEF Consecutive
    <2>2. Consecutive(batch[o])'
      BY <1>0, <1>1 DEF Queued, Consecutive, Sound
    <2>3. Reaches(o, cursor[o])' /\ Drawn(o, cursor[o] + 1)'
      BY <1>0, <1>2 DEF Reaches, Drawn
    <2>4. batch'[o] # <<>> =>
            /\ batch'[o][1].type = "update" /\ batch'[o][1].cursor <= applied'[o] + 1
            /\ Drawn(o, batch[o][1].cursor)'
      BY <1>0, <1>1 DEF Queued, Drawn
    <2> QED
      BY <1>0, <2>1, <2>2, <2>3, <2>4 DEF Queued
  <1> QED
    BY <1>0, <1>1, <1>3, <1>4, <1>5, PageUntouched DEF ClientOK

\* The frames of a handshake say what is committed, and a snapshot comes first.
LEMMA HandshakeSound ==
  ASSUME OutboxInv, NEW c \in Positions
  PROVE  /\ Handshake(c) \in Seq(WireFrames)
         /\ \A i \in DOMAIN Handshake(c) :
              /\ Sound(Handshake(c)[i])
              /\ Handshake(c)[i].type = "snapshot" => i = 1 /\ Handshake(c)[i].cursor = last
  <1>0. last \in Nat /\ first \in Nat \ {0}
    BY DEF OutboxInv, OutboxTypeOK, last
  <1> DEFINE h == Handshake(c)
  <1>1. h \in Seq(WireFrames)
    BY HandshakeChains
  <1>2. CASE Replays(c)
    <2>1. c \in Nat /\ c <= last
      BY <1>0, <1>2 DEF Replays, Positions, NoCursor
    <2> DEFINE n == last - c
               u == [i \in 1 .. n |-> UpdateFrame(c + i, c + i)]
    <2>2. n \in Nat /\ h = Append(u, ReadyFrame(last))
      BY <1>0, <1>2, <2>1 DEF Handshake
    <2>3. \A i \in 1 .. n : UpdateFrame(c + i, c + i) \in WireFrames /\ c + i \in 1 .. last
      BY <1>0, <2>1 DEF UpdateFrame, WireFrames
    <2>4. ReadyFrame(last) \in WireFrames
      BY <1>0 DEF ReadyFrame, WireFrames
    <2> HIDE DEF n, h
    <2>5. u \in Seq(WireFrames) /\ Len(u) = n /\ \A i \in 1 .. n : u[i] = UpdateFrame(c + i, c + i)
      BY <2>2, <2>3
    <2> HIDE DEF u
    <2>6. /\ DOMAIN h = 1 .. n + 1 /\ h[n + 1] = ReadyFrame(last)
          /\ \A i \in 1 .. n : h[i] = UpdateFrame(c + i, c + i)
      BY <2>2, <2>4, <2>5
    <2>7. ASSUME NEW i \in DOMAIN h PROVE Sound(h[i]) /\ h[i].type # "snapshot"
      <3>1. CASE i \in 1 .. n
        <4>1. h[i] = UpdateFrame(c + i, c + i) /\ c + i \in 1 .. last /\ h[i] \in WireFrames
          BY <2>3, <2>6, <3>1
        <4>2. h[i].cursor = c + i /\ h[i].payload = c + i /\ h[i].type = "update"
          BY <4>1 DEF UpdateFrame
        <4> QED
          BY <1>0, <4>1, <4>2 DEF Sound
      <3>2. CASE i = n + 1
        <4>1. h[i] = ReadyFrame(last) /\ h[i] \in WireFrames
          BY <2>4, <2>6, <3>2
        <4>2. h[i].cursor = last /\ h[i].payload = last /\ h[i].type = "ready"
          BY <4>1 DEF ReadyFrame
        <4> QED
          BY <1>0, <4>1, <4>2 DEF Sound
      <3> QED
        BY <2>2, <2>6, <3>1, <3>2
    <2> QED
      BY <1>1, <2>7 DEF h
  <1>3. CASE ~Replays(c)
    <2>1. SnapshotFrame(last) \in WireFrames /\ ReadyFrame(last) \in WireFrames
      BY <1>0 DEF SnapshotFrame, ReadyFrame, WireFrames
    <2>2. h = Append(<<SnapshotFrame(last)>>, ReadyFrame(last))
      BY <1>3 DEF Handshake
    <2>3. DOMAIN h = 1 .. 2 /\ h[1] = SnapshotFrame(last) /\ h[2] = ReadyFrame(last)
      BY <2>1, <2>2, TwoFrames
    <2>4. /\ h[1].type = "snapshot" /\ h[1].cursor = last /\ h[1].payload = last
          /\ h[2].type = "ready" /\ h[2].cursor = last /\ h[2].payload = last
      BY <2>3 DEF SnapshotFrame, ReadyFrame
    <2> HIDE DEF h
    <2>5. \A i \in DOMAIN h : Sound(h[i]) /\ (h[i].type = "snapshot" => i = 1 /\ h[i].cursor = last)
      BY <1>0, <2>1, <2>3, <2>4 DEF Sound
    <2> QED
      BY <1>1, <2>5 DEF h
  <1> QED
    BY <1>2, <1>3

\* An old observer is sent some of the frames, in their order.
LEMMA ProtocolKeepsFrames ==
  ASSUME NEW o, NEW s \in Seq(WireFrames), \A i \in DOMAIN s : Sound(s[i]),
         \A i \in DOMAIN s : s[i].type = "snapshot" => i = 1
  PROVE  /\ ForProtocol(o, s) \in Seq(WireFrames)
         /\ \A i \in DOMAIN ForProtocol(o, s) :
              /\ \E k \in DOMAIN s : ForProtocol(o, s)[i] = s[k]
              /\ Sound(ForProtocol(o, s)[i])
              /\ ForProtocol(o, s)[i].type = "snapshot" => i = 1
  <1>1. CASE o \notin OldObservers
    BY <1>1 DEF ForProtocol
  <1>2. CASE o \in OldObservers
    <2> DEFINE K == {i \in DOMAIN s : s[i].type = "update" => log[s[i].cursor] # Look}
               p == Pick(s, K)
    <2>1. ForProtocol(o, s) = p
      BY <1>2 DEF ForProtocol
    <2> HIDE DEF K
    <2>2. p \in Seq(WireFrames) /\ \A i \in DOMAIN p : \E k \in DOMAIN s : p[i] = s[k]
      BY PickSet
    <2>3. ASSUME NEW i \in DOMAIN p, p[i].type = "snapshot" PROVE i = 1
      <3> SUFFICES ASSUME i # 1 PROVE FALSE
        OBVIOUS
      <3>1. PICK k \in DOMAIN s : k # 1 /\ p[i] = s[k]
        BY PickLater
      <3> QED
        BY <2>3, <3>1
    <2> HIDE DEF p
    <2> QED
      BY <2>1, <2>2, <2>3
  <1> QED
    BY <1>1, <1>2

\* The handshake of a client that has dropped its queue.
LEMMA UpgradeKeepsClient ==
  ASSUME ChannelInv, PageInv, NEW o \in Observers, Upgrade(o)
  PROVE  ClientOK(o)'
  <1> PICK h : h = Handshake(presented[o])
    OBVIOUS
  <1> PICK p : p = ForProtocol(o, h)
    OBVIOUS
  <1>0. /\ link[o] = "dialing" /\ link'[o] = "open" /\ presented'[o] = NoCursor /\ wire'[o] = p
        /\ UNCHANGED <<cursor, queue, batch, applied, seen, view>>
        /\ UNCHANGED <<log, turn, body>> /\ last' = last
    BY DEF Upgrade, Attach, ChannelInv, ChannelTypeOK, turns, client, last
  <1>1. PageTypes(o) /\ Arrives(o) /\ Queued(o) /\ Page(o)
    BY DEF PageInv, ClientOK
  <1>2. queue[o] = <<>> /\ presented[o] \in Positions
    BY <1>0, <1>1 DEF Arrives, PageTypes
  <1>3. /\ h \in Seq(WireFrames)
        /\ \A i \in DOMAIN h : Sound(h[i]) /\ (h[i].type = "snapshot" => i = 1 /\ h[i].cursor = last)
    BY <1>2, HandshakeSound DEF ChannelInv
  <1>4. /\ p \in Seq(WireFrames)
        /\ \A i \in DOMAIN p : /\ \E k \in DOMAIN h : p[i] = h[k]
                               /\ Sound(p[i]) /\ (p[i].type = "snapshot" => i = 1)
    BY <1>3, ProtocolKeepsFrames
  <1>5. Within(o, last)
    <2>1. applied[o] <= last
      BY <1>1 DEF PageTypes
    <2>2. \A i \in DOMAIN batch[o] : batch[o][i].cursor <= last
      BY <1>1 DEF Queued, Consecutive, Sound
    <2> QED
      BY <2>1, <2>2 DEF Within
  <1>6. PageTypes(o)'
    BY <1>0, <1>1, <1>4 DEF PageTypes, Positions
  <1>7. Arrives(o)'
    <2>1. \A i \in DOMAIN wire'[o] : Sound(wire[o][i])' /\ (wire'[o][i].type = "snapshot" => i = 1)
      BY <1>0, <1>4 DEF Sound
    <2>2. p # <<>> /\ p[1].type = "snapshot" => p[1].cursor = last
      <3>1. p # <<>> => 1 \in DOMAIN p
        BY <1>4
      <3> QED
        BY <1>3, <1>4, <3>1
    <2>3. wire'[o] # <<>> /\ wire'[o][1].type = "snapshot" => Within(o, wire[o][1].cursor)'
      BY <1>0, <1>5, <2>2 DEF Within
    <2> QED
      BY <1>0, <1>2, <2>1, <2>3 DEF Arrives
  <1>8. Queued(o)'
    <2>1. Consecutive(queue[o])' /\ Consecutive(batch[o])'
      BY <1>0, <1>1 DEF Queued, Consecutive, Sound
    <2> QED
      BY <1>0, <1>1, <2>1 DEF Queued, Within, Reaches, Drawn
  <1> QED
    BY <1>0, <1>1, <1>6, <1>7, <1>8, PageUntouched DEF ClientOK

\* A broadcast adds updates to the socket, no snapshot.
LEMMA BroadcastKeepsClient ==
  ASSUME ChannelInv, PageInv, NEW o \in Observers, NEW s \in Strands, Broadcast(s)
  PROVE  ClientOK(o)'
  <1>0. /\ OutboxInv /\ ChannelTypeOK /\ pc[s] = "reading" /\ left[s] = {}
        /\ wire'[o] = (IF o \in open THEN wire[o] \o ForProtocol(o, NewFrames(s, o)) ELSE wire[o])
        /\ UNCHANGED <<link, presented, cursor, queue, batch, applied, seen, view>>
        /\ UNCHANGED <<log, turn, body>> /\ last' = last
    BY DEF ChannelInv, Broadcast, DrainDelivers, client, turns, last
  <1>1. PageTypes(o) /\ Arrives(o) /\ Queued(o) /\ Page(o) /\ ClientOK(o)
    BY DEF PageInv, ClientOK
  <1>2. CASE o \notin open
    BY <1>0, <1>1, <1>2, ClientUntouched
  <1>3. CASE o \in open
    <2> PICK f : f = NewFrames(s, o)
      OBVIOUS
    <2> PICK p : p = ForProtocol(o, f)
      OBVIOUS
    <2> PICK w : w = wire[o]
      OBVIOUS
    <2>0. link[o] = "open" /\ wire'[o] = w \o p /\ w \in Seq(WireFrames)
      BY <1>0, <1>1, <1>3 DEF ChannelTypeOK, PageTypes
    <2>1. /\ f \in Seq(WireFrames)
          /\ \A i \in DOMAIN f : /\ f[i].type = "update" /\ f[i].cursor \in 1 .. last
                                 /\ f[i].payload = f[i].cursor
      BY <1>0, <1>3, BroadcastChains DEF Chained
    <2>2. last \in Nat
      BY <1>0 DEF OutboxInv, OutboxTypeOK, last
    <2>3. \A i \in DOMAIN f : Sound(f[i]) /\ f[i].type # "snapshot"
      <3>1. \A i \in DOMAIN f : f[i] \in WireFrames
        BY <2>1
      <3> QED
        BY <2>1, <2>2, <3>1 DEF Sound
    <2>4. p \in Seq(WireFrames) /\ \A i \in DOMAIN p : Sound(p[i]) /\ p[i].type # "snapshot"
      BY <2>1, <2>3, ProtocolKeepsFrames
    <2> DEFINE n == Len(w)
               m == Len(p)
               g == w \o p
    <2>5. /\ n \in Nat /\ m \in Nat /\ g \in Seq(WireFrames) /\ DOMAIN g = 1 .. n + m
          /\ DOMAIN w = 1 .. n /\ DOMAIN p = 1 .. m
          /\ \A i \in 1 .. n : g[i] = w[i]
          /\ \A i \in 1 .. n + m : i > n => g[i] = p[i - n] /\ i - n \in 1 .. m
          /\ (w # <<>> => 1 \in 1 .. n) /\ (g # <<>> => 1 \in 1 .. n + m)
      BY <2>0, <2>4
    <2> HIDE DEF n, m, g
    <2>6. ASSUME NEW i \in DOMAIN g
          PROVE  Sound(g[i]) /\ (g[i].type = "snapshot" => i \in 1 .. n /\ i = 1)
      <3>1. CASE i \in 1 .. n
        <4>1. g[i] = w[i] /\ i \in DOMAIN w
          BY <2>5, <3>1
        <4> QED
          BY <1>1, <3>1, <4>1 DEF Arrives
      <3>2. CASE i \notin 1 .. n
        <4>1. i \in 1 .. n + m /\ i > n
          BY <2>5, <2>6, <3>2
        <4>2. g[i] = p[i - n] /\ i - n \in DOMAIN p
          BY <2>5, <4>1
        <4> QED
          BY <2>4, <4>2
      <3> QED
        BY <3>1, <3>2
    <2>7. g # <<>> /\ g[1].type = "snapshot" => queue[o] = <<>> /\ Within(o, g[1].cursor)
      <3> SUFFICES ASSUME g # <<>>, g[1].type = "snapshot"
                   PROVE  queue[o] = <<>> /\ Within(o, g[1].cursor)
        OBVIOUS
      <3>1. 1 \in 1 .. n
        BY <2>5, <2>6
      <3>2. w # <<>> /\ g[1] = w[1]
        BY <2>5, <3>1
      <3> QED
        BY <1>1, <3>2 DEF Arrives
    <2>8. PageTypes(o)'
      BY <1>0, <1>1, <2>0, <2>5 DEF PageTypes, g
    <2>9. Arrives(o)'
      <3>1. \A i \in DOMAIN wire'[o] : Sound(wire[o][i])' /\ (wire'[o][i].type = "snapshot" => i = 1)
        BY <1>0, <2>0, <2>6 DEF Sound, g
      <3> QED
        BY <1>0, <1>1, <2>0, <2>7, <3>1 DEF Arrives, Within, g
    <2>10. Queued(o)'
      <3>1. Consecutive(queue[o])' /\ Consecutive(batch[o])'
        BY <1>0, <1>1 DEF Queued, Consecutive, Sound
      <3> QED
        BY <1>0, <1>1, <3>1 DEF Queued, Within, Reaches, Drawn
    <2> QED
      BY <1>0, <1>1, <2>8, <2>9, <2>10, PageUntouched DEF ClientOK
  <1> QED
    BY <1>2, <1>3

-----------------------------------------------------------------------------
(* Commits                                                                  *)

\* What a commit adds: one update at the end of the log, a row that counts the
\* messages sent if it is a run's, and nothing of a settled Turn.
Adds(e, b) ==
  /\ e \in Entities /\ b \in Rows
  /\ log' = log \o <<e>> /\ body' = Append(body, b)
  /\ \A t \in Turns :
       /\ turn'[t].sends \in Nat /\ turn'[t].sends >= turn[t].sends
       /\ turn[t].status = "settled" =>
            turn'[t].sends = turn[t].sends /\ turn'[t].status = "settled" /\ e # RunOf(t)
       /\ e = RunOf(t) =>
            b.sends = turn'[t].sends /\ (b.settled => turn'[t].status = "settled")
       /\ \A n \in 1 .. MaxSends : e = SendOf(t, n) => n <= turn'[t].sends

LEMMA CommitAdds ==
  ASSUME ChannelInv, Commit
  PROVE  (\E e, b : Adds(e, b)) /\ UNCHANGED <<link_, client>>
  <1>0. turn \in [Turns -> [status : {"none", "running", "settled"}, sends : Nat]]
    BY DEF ChannelInv, ChannelTypeOK
  <1>1. UNCHANGED <<link_, client>>
    BY PublishIsCommit DEF ChannelInv
  <1>2. ASSUME NEW u \in Turns, ShowTurn(u) \/ SettleTurn(u) PROVE \E e, b : Adds(e, b)
    <2>1. PICK st \in {"running", "settled"} : turn' = [turn EXCEPT ![u].status = st]
      BY <1>2 DEF ShowTurn, SettleTurn
    <2>2. turn[u].status # "settled" /\ log' = log \o <<RunOf(u)>> /\ body' = Append(body, RunRow(u))
      BY <1>2 DEF ShowTurn, SettleTurn, Publish, CommitPublications
    <2>3. /\ turn'[u].status = st /\ turn'[u].sends = turn[u].sends /\ turn[u].sends \in Nat
          /\ \A t \in Turns : t # u => turn'[t] = turn[t]
      BY <1>0, <2>1
    <2> DEFINE b == RunRow(u)
    <2>4. b \in Rows /\ b.sends = turn'[u].sends /\ (b.settled <=> turn'[u].status = "settled")
      <3>1. PICK x \in BOOLEAN : x = (turn'[u].status = "settled")
        OBVIOUS
      <3>2. b = [settled |-> x, sends |-> turn'[u].sends] /\ turn'[u].sends \in Nat
        BY <2>3, <3>1 DEF RunRow
      <3>3. b \in Rows /\ b.sends = turn'[u].sends /\ b.settled = x
        BY <3>2 DEF Rows
      <3> QED
        BY <3>1, <3>3
    <2> HIDE DEF b
    <2>5. RunOf(u) \in Entities
      BY ConversationAssumption DEF Conversation
    <2>6. ASSUME NEW t \in Turns
          PROVE  /\ turn'[t].sends \in Nat /\ turn'[t].sends >= turn[t].sends
                 /\ turn[t].status = "settled" =>
                      /\ turn'[t].sends = turn[t].sends /\ turn'[t].status = "settled"
                      /\ RunOf(u) # RunOf(t)
                 /\ RunOf(u) = RunOf(t) =>
                      b.sends = turn'[t].sends /\ (b.settled => turn'[t].status = "settled")
                 /\ \A n \in 1 .. MaxSends : RunOf(u) = SendOf(t, n) => n <= turn'[t].sends
      <3>1. \A n \in 1 .. MaxSends : RunOf(u) # SendOf(t, n)
        BY EntitiesDiffer
      <3>2. RunOf(u) = RunOf(t) => t = u
        BY EntitiesDiffer
      <3>3. turn[t].sends \in Nat /\ turn'[t].sends = turn[t].sends
        BY <1>0, <2>3
      <3>4. turn[t].status = "settled" => t # u /\ turn'[t] = turn[t]
        BY <2>2, <2>3
      <3> QED
        BY <2>4, <3>1, <3>2, <3>3, <3>4
    <2>7. Adds(RunOf(u), b)
      BY <2>2, <2>4, <2>5, <2>6 DEF Adds, b
    <2> QED
      BY <2>7
  <1>3. ASSUME NEW u \in Turns, SendToUser(u) PROVE \E e, b : Adds(e, b)
    <2> DEFINE k == turn[u].sends + 1
    <2>1. /\ turn[u].status = "running" /\ turn[u].sends < MaxSends
          /\ turn' = [turn EXCEPT ![u].sends = @ + 1]
          /\ log' = log \o <<SendOf(u, k)>> /\ body' = Append(body, NoRow)
      BY <1>3 DEF SendToUser, Publish, CommitPublications
    <2>2. k \in 1 .. MaxSends /\ turn[u].sends \in Nat /\ k \in Nat
      BY <1>0, <2>1, ConversationAssumption
    <2>3. /\ turn'[u].sends = k /\ turn'[u].status = "running"
          /\ \A t \in Turns : t # u => turn'[t] = turn[t]
      BY <1>0, <2>1
    <2>4. k >= turn[u].sends
      BY <2>2
    <2> HIDE DEF k
    <2>5. SendOf(u, k) \in Entities
      BY <2>2, ConversationAssumption DEF Conversation
    <2>6. NoRow \in Rows
      BY DEF NoRow, Rows
    <2>7. ASSUME NEW t \in Turns
          PROVE  /\ turn'[t].sends \in Nat /\ turn'[t].sends >= turn[t].sends
                 /\ turn[t].status = "settled" =>
                      turn'[t].sends = turn[t].sends /\ turn'[t].status = "settled"
                 /\ SendOf(u, k) # RunOf(t)
                 /\ \A n \in 1 .. MaxSends : SendOf(u, k) = SendOf(t, n) => n <= turn'[t].sends
      <3>1. SendOf(u, k) # RunOf(t)
        BY <2>2, EntitiesDiffer
      <3>2. \A n \in 1 .. MaxSends : SendOf(u, k) = SendOf(t, n) => t = u /\ n = k
        BY <2>2, EntitiesDiffer
      <3>3. turn[t].sends \in Nat
        BY <1>0
      <3>4. CASE t = u
        BY <2>1, <2>2, <2>3, <2>4, <3>1, <3>2, <3>4
      <3>5. CASE t # u
        BY <2>3, <3>1, <3>2, <3>3, <3>5
      <3> QED
        BY <3>4, <3>5
    <2>8. Adds(SendOf(u, k), NoRow)
      BY <2>1, <2>5, <2>6, <2>7 DEF Adds
    <2> QED
      BY <2>8
  <1>4. ASSUME NoticeLook PROVE \E e, b : Adds(e, b)
    <2>1. turn' = turn /\ log' = log \o <<Look>> /\ body' = Append(body, NoRow)
      BY <1>4 DEF NoticeLook, Publish, CommitPublications
    <2>2. Look \in Entities /\ NoRow \in Rows
      BY ConversationAssumption DEF Conversation, NoRow, Rows
    <2>3. ASSUME NEW t \in Turns
          PROVE  /\ turn'[t].sends \in Nat /\ turn'[t].sends >= turn[t].sends /\ Look # RunOf(t)
                 /\ \A n \in 1 .. MaxSends : Look # SendOf(t, n)
      BY <1>0, <2>1, EntitiesDiffer
    <2>4. Adds(Look, NoRow)
      BY <2>1, <2>2, <2>3 DEF Adds
    <2> QED
      BY <2>4
  <1> QED
    BY <1>1, <1>2, <1>3, <1>4 DEF Commit

\* Rows and the index as of a committed cursor do not change.
LEMMA OldRowsStay ==
  ASSUME NEW c \in Nat, \A i \in 1 .. c : log'[i] = log[i]
  PROVE  /\ \A t : RowAt(t, c)' = RowAt(t, c)
         /\ VisibleAt(c)' = VisibleAt(c)
  <1>1. ASSUME NEW t PROVE RowAt(t, c)' = RowAt(t, c)
    <2>1. {i \in 1 .. c : log'[i] = RunOf(t)} = {i \in 1 .. c : log[i] = RunOf(t)}
      OBVIOUS
    <2> QED
      BY <2>1 DEF RowAt, RunOf
  <1>2. \A t \in Turns : {u \in Turns : RowAt(u, c)' > RowAt(t, c)'}
                           = {u \in Turns : RowAt(u, c) > RowAt(t, c)}
    BY <1>1
  <1> QED
    BY <1>1, <1>2 DEF VisibleAt

\* A commit keeps what was said of the Turns, and no client's page notices it.
LEMMA CommitKeepsPages ==
  ASSUME ChannelInv, PageInv, Commit
  PROVE  RowsSaid' /\ \A o \in Observers : ClientOK(o)'
  <1>0. PICK e, b : Adds(e, b)
    BY CommitAdds
  <1>1. UNCHANGED <<link_, client>>
    BY CommitAdds
  <1>2. log \in Seq(Entities) /\ last \in Nat /\ body \in Seq(Rows) /\ Len(body) = last
    BY DEF ChannelInv, OutboxInv, OutboxTypeOK, last, PageInv, RowsSaid
  <1> DEFINE n == last
  <1>3. /\ last' = n + 1 /\ log'[n + 1] = e /\ \A i \in 1 .. n : log'[i] = log[i]
    <2>1. e \in Entities /\ log' = log \o <<e>>
      BY <1>0 DEF Adds
    <2> QED
      BY <1>2, <2>1 DEF last
  <1>4. /\ body' \in Seq(Rows) /\ Len(body') = n + 1 /\ body'[n + 1] = b
        /\ \A i \in 1 .. n : body'[i] = body[i]
    BY <1>0, <1>2 DEF Adds
  <1>5. \A t \in Turns : /\ turn[t].sends \in Nat /\ turn'[t].sends \in Nat
                         /\ turn'[t].sends >= turn[t].sends
                         /\ turn[t].status = "settled" =>
                              /\ turn'[t].sends = turn[t].sends /\ turn'[t].status = "settled"
                              /\ e # RunOf(t)
    BY <1>0 DEF Adds, ChannelInv, ChannelTypeOK
  <1>6. \A i \in 1 .. n + 1 : i \in 1 .. n \/ i = n + 1
    BY <1>2
  <1> HIDE DEF n
  <1>7. RowsSaid'
    <2>1. ASSUME NEW t \in Turns, NEW c \in 1 .. n + 1, log'[c] = RunOf(t)
          PROVE  /\ body'[c].sends <= turn'[t].sends
                 /\ body'[c].settled =>
                      /\ turn'[t].status = "settled" /\ body'[c].sends = turn'[t].sends
                      /\ \A d \in c + 1 .. n + 1 : log'[d] # RunOf(t)
      <3>1. CASE c \in 1 .. n
        <4>1. log[c] = RunOf(t) /\ body'[c] = body[c] /\ body[c] \in Rows
          BY <1>2, <1>3, <1>4, <2>1, <3>1 DEF n
        <4>2. /\ body[c].sends <= turn[t].sends
              /\ body[c].settled =>
                   /\ turn[t].status = "settled" /\ body[c].sends = turn[t].sends
                   /\ \A d \in c + 1 .. n : log[d] # RunOf(t)
          BY <3>1, <4>1 DEF PageInv, RowsSaid, n
        <4>3. body[c].sends <= turn'[t].sends
          BY <1>5, <4>1, <4>2 DEF Rows
        <4>4. ASSUME body[c].settled
              PROVE  \A d \in c + 1 .. n + 1 : log'[d] # RunOf(t)
          <5> TAKE d \in c + 1 .. n + 1
          <5>1. CASE d = n + 1
            BY <1>3, <1>5, <4>2, <4>4, <5>1
          <5>2. CASE d # n + 1
            <6>1. d \in c + 1 .. n /\ d \in 1 .. n
              BY <1>2, <3>1, <5>2 DEF n
            <6> QED
              BY <1>3, <4>2, <4>4, <6>1
          <5> QED
            BY <5>1, <5>2
        <4> QED
          BY <1>5, <4>1, <4>2, <4>3, <4>4
      <3>2. CASE c = n + 1
        <4>1. e = RunOf(t) /\ body'[c] = b /\ b \in Rows
          BY <1>0, <1>3, <1>4, <2>1, <3>2 DEF Adds
        <4>2. b.sends = turn'[t].sends /\ (b.settled => turn'[t].status = "settled")
          BY <1>0, <4>1 DEF Adds
        <4>3. c + 1 .. n + 1 = {}
          BY <1>2, <3>2 DEF n
        <4>4. b.sends <= turn'[t].sends
          BY <1>5, <4>2
        <4> QED
          BY <4>1, <4>2, <4>3, <4>4
      <3> QED
        BY <1>6, <3>1, <3>2
    <2>2. ASSUME NEW t \in Turns, NEW k \in 1 .. MaxSends, NEW c \in 1 .. n + 1,
                 log'[c] = SendOf(t, k)
          PROVE  k <= turn'[t].sends
      <3>1. CASE c \in 1 .. n
        <4>1. log[c] = SendOf(t, k)
          BY <1>3, <2>2, <3>1
        <4>2. k <= turn[t].sends
          BY <3>1, <4>1 DEF PageInv, RowsSaid, n
        <4> QED
          BY <1>5, <4>2
      <3>2. CASE c = n + 1
        BY <1>0, <1>3, <2>2, <3>2 DEF Adds
      <3> QED
        BY <1>6, <3>1, <3>2
    <2> QED
      BY <1>3, <1>4, <2>1, <2>2 DEF RowsSaid
  <1>8. ASSUME NEW o \in Observers PROVE ClientOK(o)'
    <2>0. PageTypes(o) /\ Arrives(o) /\ Queued(o) /\ Page(o)
      BY DEF PageInv, ClientOK
    <2>1. UNCHANGED <<wire, link, presented, cursor, queue, batch, applied, seen, view>>
      BY <1>1 DEF link_, client
    <2>2. applied[o] \in Positions /\ applied[o] <= n /\ applied[o] \in Int /\ cursor[o] \in Int
          /\ cursor[o] <= n /\ n \in Nat
      BY <1>2, <2>0 DEF PageTypes, Positions, NoCursor, n
    <2>3. PageTypes(o)'
      <3>1. applied[o] <= last' /\ cursor[o] <= last'
        BY <1>3, <2>2
      <3> QED
        BY <2>0, <2>1, <3>1 DEF PageTypes
    <2>4. ASSUME NEW f, Sound(f) PROVE f \in WireFrames /\ f.cursor <= n + 1
      BY <2>2, <2>4 DEF Sound, WireFrames, n
    <2>5. Arrives(o)'
      <3>1. \A i \in DOMAIN wire[o] : Sound(wire[o][i])'
        <4> TAKE i \in DOMAIN wire[o]
        <4>1. Sound(wire[o][i])
          BY <2>0 DEF Arrives
        <4>2. wire[o][i] \in WireFrames /\ wire[o][i].cursor <= n + 1
          BY <2>4, <4>1
        <4> QED
          BY <1>3, <2>1, <4>1, <4>2 DEF Sound
      <3> QED
        BY <2>0, <2>1, <3>1 DEF Arrives, Within
    <2>6. \A d \in 1 .. applied[o] : log'[d] = log[d]
      BY <1>3, <2>2
    <2>7. \A p : Drawn(o, p) => \A d \in 1 .. applied'[o] : d >= p => seen'[o][log'[d]] >= d
      BY <2>1, <2>6 DEF Drawn
    <2>8. Queued(o)'
      <3>1. ASSUME NEW s, Consecutive(s)
            PROVE  \A i \in DOMAIN s :
                     /\ s[i] \in WireFrames /\ s[i].cursor <= n + 1 /\ s[i].payload = s[i].cursor
                     /\ (s[i].type = "update" => s[i].cursor >= 1)
                     /\ s[i].type # "ready" /\ s[i].cursor = s[1].cursor + (i - 1)
                     /\ i # 1 => s[i].type = "update"
        <4>1. \A i \in DOMAIN s : Sound(s[i])
          BY <3>1 DEF Consecutive
        <4>2. \A i \in DOMAIN s : s[i] \in WireFrames /\ s[i].cursor <= n + 1
          BY <2>4, <4>1
        <4> QED
          BY <3>1, <4>2 DEF Consecutive, Sound
      <3>2. Consecutive(queue[o]) /\ Consecutive(batch[o])
        BY <2>0 DEF Queued
      <3>3. Consecutive(queue[o])'
        BY <1>3, <2>1, <3>1, <3>2 DEF Consecutive, Sound
      <3>4. Consecutive(batch[o])'
        BY <1>3, <2>1, <3>1, <3>2 DEF Consecutive, Sound
      <3>5. /\ Drawn(o, cursor[o] + 1)'
            /\ batch[o] # <<>> => Drawn(o, batch[o][1].cursor)'
            /\ queue[o] # <<>> /\ queue[o][1].type # "snapshot" => Drawn(o, queue[o][1].cursor)'
        BY <2>0, <2>1, <2>7 DEF Queued, Drawn
      <3> QED
        BY <2>0, <2>1, <3>3, <3>4, <3>5 DEF Queued, Within, Reaches
    <2>9. Page(o)'
      <3>1. TruthfulAt(view[o], applied[o])'
        <4> SUFFICES ASSUME NEW t \in Turns
                     PROVE  /\ view[o][t].sends \subseteq 1 .. turn'[t].sends
                            /\ view[o][t].settled =>
                                 /\ view[o][t].known /\ view[o][t].sends = 1 .. turn'[t].sends
                                 /\ \E d \in 1 .. applied[o] : log'[d] = RunOf(t) /\ body'[d].settled
          BY <2>1 DEF TruthfulAt
        <4>1. /\ view[o][t].sends \subseteq 1 .. turn[t].sends
              /\ view[o][t].settled =>
                   /\ view[o][t].known /\ view[o][t].sends = 1 .. turn[t].sends
                   /\ \E d \in 1 .. applied[o] : log[d] = RunOf(t) /\ body[d].settled
          BY <2>0 DEF Page, TruthfulAt
        <4>2. view[o][t].sends \subseteq 1 .. turn'[t].sends
          <5>1. 1 .. turn[t].sends \subseteq 1 .. turn'[t].sends
            BY <1>5
          <5> QED
            BY <4>1, <5>1
        <4>3. ASSUME view[o][t].settled
              PROVE  /\ view[o][t].known /\ view[o][t].sends = 1 .. turn'[t].sends
                     /\ \E d \in 1 .. applied[o] : log'[d] = RunOf(t) /\ body'[d].settled
          <5>1. PICK d \in 1 .. applied[o] : log[d] = RunOf(t) /\ body[d].settled
            BY <4>1, <4>3
          <5>2. d \in 1 .. n
            BY <2>2
          <5>3. turn[t].status = "settled"
            BY <5>1, <5>2 DEF PageInv, RowsSaid, n
          <5>4. turn'[t].sends = turn[t].sends
            BY <1>5, <5>3
          <5>5. log'[d] = RunOf(t) /\ body'[d].settled
            BY <1>3, <1>4, <5>1, <5>2
          <5> QED
            BY <4>1, <4>3, <5>4, <5>5
        <4> QED
          BY <4>2, <4>3
      <3>2. ASSUME applied[o] # NoCursor PROVE CurrentAt(view[o], applied[o])'
        <4> PICK a : a = applied[o]
          OBVIOUS
        <4>1. a \in Nat /\ a <= n /\ \A i \in 1 .. a : log'[i] = log[i]
          BY <2>2, <2>6, <3>2 DEF Positions
        <4>2. VisibleAt(a)' = VisibleAt(a) /\ \A t : RowAt(t, a)' = RowAt(t, a)
          BY <4>1, OldRowsStay
        <4>3. ASSUME NEW t \in VisibleAt(a)
              PROVE  view[o][t].known /\ view[o][t].settled = body'[RowAt(t, a)].settled
          <5>1. RowAt(t, a) \in 1 .. n
            BY <2>2, <4>1, <4>3, RowAtIsLast DEF VisibleAt
          <5>2. body'[RowAt(t, a)] = body[RowAt(t, a)]
            BY <1>4, <5>1
          <5> QED
            BY <2>0, <3>2, <4>3, <5>2 DEF Page, CurrentAt
        <4>4. VisibleAt(applied[o])' = VisibleAt(a)'
          BY <2>1 DEF VisibleAt, RowAt
        <4>5. \A t : RowAt(t, applied[o])' = RowAt(t, a)'
          BY <2>1 DEF RowAt
        <4> QED
          BY <2>1, <4>2, <4>3, <4>4, <4>5 DEF CurrentAt
      <3> QED
        BY <2>0, <2>1, <3>1, <3>2 DEF Page
    <2> QED
      BY <2>3, <2>5, <2>8, <2>9 DEF ClientOK
  <1> QED
    BY <1>7, <1>8

-----------------------------------------------------------------------------
(* The invariant of the pages, and its theorems                             *)

\* No client has a page before it has dialed.
LEMMA InitiallyPageInv ==
  ASSUME Init
  PROVE  PageInv
  <1>0. log = <<>> /\ last = 0 /\ body = <<>> /\ 1 .. 0 = {}
    BY DEF Init, OutboxInit, last
  <1>1. RowsSaid
    <2>1. <<>> \in Seq(Rows) /\ Len(<<>>) = 0
      OBVIOUS
    <2> QED
      BY <1>0, <2>1 DEF RowsSaid
  <1>2. ASSUME NEW o \in Observers PROVE ClientOK(o)
    <2>1. /\ wire[o] = <<>> /\ queue[o] = <<>> /\ batch[o] = <<>> /\ link[o] = "closed"
          /\ presented[o] = NoCursor /\ cursor[o] = NoCursor /\ applied[o] = NoCursor
          /\ seen[o] = Unseen /\ view[o] = [t \in Turns |-> Unknown]
      BY DEF Init
    <2>2. <<>> \in Seq(WireFrames) /\ DOMAIN <<>> = {}
      OBVIOUS
    <2>3. Unseen \in [Entities -> Nat] /\ \A e \in Entities : Unseen[e] = 0
      BY DEF Unseen
    <2>4. /\ Unknown \in Shown /\ Unknown.sends = {} /\ Unknown.settled = FALSE
      BY DEF Unknown, Shown
    <2>5. PageTypes(o)
      <3>1. NoCursor <= 0
        BY DEF NoCursor
      <3>2. [t \in Turns |-> Unknown] \in [Turns -> Shown]
        BY <2>4
      <3> QED
        BY <1>0, <2>1, <2>2, <2>3, <3>1, <3>2 DEF PageTypes, Positions
    <2>6. Arrives(o)
      BY <2>1, <2>2 DEF Arrives
    <2>7. Queued(o)
      <3>1. NoCursor <= NoCursor /\ 1 .. NoCursor = {}
        BY DEF NoCursor
      <3> QED
        BY <2>1, <2>2, <3>1 DEF Queued, Consecutive, Reaches, Drawn
    <2>8. Page(o)
      BY <2>1, <2>3, <2>4 DEF Page, TruthfulAt
    <2> QED
      BY <2>5, <2>6, <2>7, <2>8 DEF ClientOK
  <1> QED
    BY <1>1, <1>2 DEF PageInv, Init

\* A step of one client, and what it leaves alone.
LEMMA ClientStepKeepsPages ==
  ASSUME ChannelInv, PageInv, NEW x \in Observers, Client(x) \/ Disconnect(x)
  PROVE  /\ UNCHANGED <<log, turn, body>>
         /\ DOMAIN seen' = DOMAIN seen /\ DOMAIN view' = DOMAIN view
         /\ \A o \in Observers : ClientOK(o)' /\ applied'[o] >= applied[o]
  <1>0. ChannelTypeOK
    BY DEF ChannelInv
  <1>1. UNCHANGED <<log, turn, body>>
    BY DEF Client, Dial, Upgrade, Attach, Accept, Refuse, Disconnect, Closes, Detach, TakeBatch,
           ApplyNext, ApplyFrame, outbox, turns
  <1>2. \/ UNCHANGED <<applied, seen, view>>
        \/ \E a, z, v : /\ applied' = [applied EXCEPT ![x] = a] /\ seen' = [seen EXCEPT ![x] = z]
                        /\ view' = [view EXCEPT ![x] = v]
    BY DEF Client, Dial, Upgrade, Accept, Refuse, Disconnect, Closes, TakeBatch, ApplyNext,
           ApplyFrame, ApplySnapshot, ApplyUpdate, client
  <1>3. \A o \in Observers : applied[o] \in Int
    BY DEF PageInv, ClientOK, PageTypes, Positions, NoCursor
  <1>4. ASSUME NEW o \in Observers, o # x PROVE ClientOK(o)' /\ applied'[o] = applied[o]
    <2>1. applied'[o] = applied[o] /\ seen'[o] = seen[o] /\ view'[o] = view[o]
      BY <1>0, <1>2, <1>4 DEF ChannelTypeOK, PageInv
    <2>2. /\ cursor'[o] = cursor[o] /\ queue'[o] = queue[o] /\ batch'[o] = batch[o]
          /\ wire'[o] = wire[o] /\ link'[o] = link[o] /\ presented'[o] = presented[o]
      BY <1>0, <1>4 DEF ChannelTypeOK, Client, Dial, Upgrade, Accept, Refuse, Disconnect, Closes,
                        TakeBatch, ApplyNext, ApplyFrame, link_, client
    <2> QED
      BY <1>1, <2>1, <2>2, ClientUntouched DEF PageInv
  <1>5. ClientOK(x)' /\ applied'[x] >= applied[x]
    <2>1. CASE TakeBatch(x) \/ ApplyNext(x)
      BY <2>1, TakeBatchKeepsClient, ApplyNextKeepsClient
    <2>2. CASE Dial(x) \/ Upgrade(x) \/ Accept(x) \/ Refuse(x) \/ Disconnect(x)
      <3>1. applied' = applied
        BY <2>2 DEF Dial, Upgrade, Accept, Refuse, Disconnect, Closes, client
      <3>2. ClientOK(x)'
        BY <2>2, DialKeepsClient, UpgradeKeepsClient, AcceptKeepsClient, ClosesKeepsClient
          DEF Refuse, Disconnect
      <3> QED
        BY <1>3, <3>1, <3>2
    <2> QED
      BY <2>1, <2>2 DEF Client
  <1>6. DOMAIN seen' = DOMAIN seen /\ DOMAIN view' = DOMAIN view
    BY <1>2
  <1> QED
    BY <1>1, <1>3, <1>4, <1>5, <1>6

\* The invariant is inductive, and no step takes a page back.
LEMMA StepKeepsPageInv ==
  ASSUME ChannelInv, PageInv, [Next]_vars
  PROVE  PageInv' /\ \A o \in Observers : applied'[o] >= applied[o]
  <1>0. RowsSaid /\ DOMAIN seen = Observers /\ DOMAIN view = Observers
    BY DEF PageInv
  <1>1. \A o \in Observers : ClientOK(o) /\ applied[o] \in Int
    BY DEF PageInv, ClientOK, PageTypes, Positions, NoCursor
  <1>2. UNCHANGED <<log, turn, body>> => RowsSaid'
    BY <1>0 DEF RowsSaid, last
  <1>3. CASE Commit
    <2>1. UNCHANGED <<link_, client>>
      BY <1>3, CommitAdds
    <2> QED
      BY <1>0, <1>1, <1>3, <2>1, CommitKeepsPages DEF PageInv, client
  <1>4. CASE Alarm \/ Evicted \/ (\E s \in Strands : Object(s)) \/ UNCHANGED vars
    <2>1. UNCHANGED <<turns, link_, client>> /\ UNCHANGED log
      BY <1>4 DEF Alarm, Evicted, Object, AlarmFires, AlarmReturns, Evict, DrainLists, DrainReads,
                  DrainCommits, vars, outbox
    <2>2. \A o \in Observers : ClientOK(o)'
      BY <1>1, <2>1, ClientUntouched DEF turns, link_, client
    <2> QED
      BY <1>0, <1>1, <1>2, <2>1, <2>2 DEF PageInv, turns, client
  <1>5. CASE \E s \in Strands : Broadcast(s)
    <2>1. UNCHANGED <<turns, client>> /\ UNCHANGED log
      BY <1>5 DEF Broadcast, DrainDelivers
    <2>2. \A o \in Observers : ClientOK(o)'
      BY <1>5, BroadcastKeepsClient
    <2> QED
      BY <1>0, <1>1, <1>2, <2>1, <2>2 DEF PageInv, turns, client
  <1>6. CASE \E x \in Observers : Client(x) \/ Disconnect(x)
    <2>1. PICK x \in Observers : Client(x) \/ Disconnect(x)
      BY <1>6
    <2> QED
      BY <1>0, <1>2, <2>1, ClientStepKeepsPages DEF PageInv
  <1> QED
    BY <1>3, <1>4, <1>5, <1>6 DEF Next

\* The invariant of the pages, for observers of the old protocol and the current
\* one: what was accepted continues what is being applied, and whatever a new
\* socket replays of it is recognised by its revision.
THEOREM PageInvariant == Spec => []PageInv
  <1>1. Init => PageInv
    BY InitiallyPageInv
  <1>2. ChannelInv /\ PageInv /\ [Next]_vars => PageInv'
    BY StepKeepsPageInv
  <1> QED
    BY <1>1, <1>2, ChannelInvariant, PTL DEF Spec

\* ShowsSettledTurns for any number of Turns, messages, clients, lost
\* connections and any visible limit: at the cursor it would resume from, a
\* client shows every Turn of the visible index as its last row said, and a
\* settled one with all its messages.
THEOREM SettledTurnsShown == Spec => []ShowsSettledTurns
  <1>1. ChannelInv /\ PageInv => ShowsSettledTurns
    <2> SUFFICES ASSUME ChannelInv, PageInv, NEW o \in Observers, applied[o] # NoCursor,
                        NEW t \in VisibleAt(applied[o])
                 PROVE  LET r == body[RowAt(t, applied[o])]
                        IN /\ view[o][t].known /\ view[o][t].settled = r.settled
                           /\ r.settled => view[o][t].sends = 1 .. r.sends
      BY DEF ShowsSettledTurns
    <2> DEFINE k == RowAt(t, applied[o])
    <2>1. RowsSaid /\ Page(o) /\ applied[o] \in Nat /\ applied[o] <= last /\ last \in Nat
          /\ view[o] \in [Turns -> Shown]
      BY DEF PageInv, ClientOK, PageTypes, Positions, ChannelInv, OutboxInv, OutboxTypeOK, last
    <2>2. t \in Turns /\ k \in 1 .. last /\ log[k] = RunOf(t)
      BY <2>1, RowAtIsLast DEF VisibleAt
    <2> HIDE DEF k
    <2>3. view[o][t].known /\ view[o][t].settled = body[k].settled
      BY <2>1 DEF Page, CurrentAt, k
    <2>4. body[k].settled => body[k].sends = turn[t].sends
      BY <2>1, <2>2, RowOfTurn
    <2>5. view[o][t].settled => view[o][t].sends = 1 .. turn[t].sends
      BY <2>1, <2>2 DEF Page, TruthfulAt
    <2> QED
      BY <2>3, <2>4, <2>5 DEF k
  <1> QED
    BY <1>1, ChannelInvariant, PageInvariant, PTL

\* NeverGoesBack for every instance: publicationCursor only grows, although a
\* batch accepted on one socket is applied while the next one replays it.
THEOREM PagesNeverGoBack == Spec => NeverGoesBack
  <1>1. ChannelInv /\ PageInv /\ [Next]_vars => [\A o \in Observers : applied'[o] >= applied[o]]_vars
    BY StepKeepsPageInv
  <1> QED
    BY <1>1, ChannelInvariant, PageInvariant, PTL DEF Spec, NeverGoesBack
===============================================================================
