----------------------------- MODULE PicksProofs -----------------------------
(***************************************************************************)
(* What a filter returns, for every sequence.  The provers have no induction *)
(* scheme; a property of a recursion that fails somewhere fails first at a   *)
(* least position, where the recursion contradicts it.                      *)
(***************************************************************************)
EXTENDS Picks, SequenceTheorems, WellFoundedInduction, TLAPS

-----------------------------------------------------------------------------
(* Recursion over an interval                                               *)

\* A set of numbers that is not empty has a least element.
LEMMA LeastOne ==
  ASSUME NEW S \in SUBSET Nat, S # {}
  PROVE  \E m \in S : \A y \in S : m <= y
  <1> DEFINE R == OpToRel(<, Nat)
  <1>1. IsWellFoundedOn(R, Nat)
    BY NatLessThanWellFounded
  <1> HIDE DEF R
  <1>2. \E m \in S : \A y \in S : ~(<<y, m>> \in R)
    BY <1>1, WFMin
  <1>3. \A x, y \in Nat : ~(<<y, x>> \in R) => x <= y
    BY DEF R, OpToRel
  <1> QED
    BY <1>2, <1>3

\* What holds at 0 and goes on from each number to the next holds on 0 .. N.
LEMMA Upwards ==
  ASSUME NEW N \in Nat, NEW S, 0 \in S, \A n \in 1 .. N : n - 1 \in S => n \in S
  PROVE  0 .. N \subseteq S
  <1> DEFINE B == {n \in 0 .. N : n \notin S}
  <1> SUFFICES ASSUME B # {} PROVE FALSE
    OBVIOUS
  <1>1. B \in SUBSET Nat
    OBVIOUS
  <1>2. PICK m \in B : \A y \in B : m <= y
    BY <1>1, LeastOne
  <1>3. m \in 1 .. N /\ m - 1 \in 0 .. N
    BY <1>2
  <1>4. m - 1 \in S
    BY <1>2, <1>3
  <1> QED
    BY <1>2, <1>3, <1>4

\* A function on 0 .. N may be given by its first value and its steps.
Steps(g, N, x0, F) == g[0] = x0 /\ \A n \in 1 .. N : g[n] = F[n][g[n - 1]]
LEMMA StepsDefine ==
  ASSUME NEW N \in Nat, NEW X, NEW x0 \in X, NEW F \in [1 .. N -> [X -> X]]
  PROVE  \E g \in [0 .. N -> X] : Steps(g, N, x0, F)
  <1> DEFINE G(m) == {g \in [0 .. m -> X] :
                        g[0] = x0 /\ \A n \in 1 .. m : g[n] = F[n][g[n - 1]]}
             S == {m \in 0 .. N : G(m) # {}}
  <1>1. 0 \in S
    <2>1. [i \in 0 .. 0 |-> x0] \in G(0)
      OBVIOUS
    <2> QED
      BY <2>1
  <1>2. ASSUME NEW m \in 1 .. N, m - 1 \in S PROVE m \in S
    <2>1. PICK g \in [0 .. m - 1 -> X] :
            g[0] = x0 /\ \A n \in 1 .. m - 1 : g[n] = F[n][g[n - 1]]
      BY <1>2
    <2> DEFINE h == [i \in 0 .. m |-> IF i = m THEN F[m][g[m - 1]] ELSE g[i]]
    <2>2. h \in [0 .. m -> X]
      BY <2>1
    <2>3. h[0] = x0
      BY <2>1
    <2>4. ASSUME NEW n \in 1 .. m PROVE h[n] = F[n][h[n - 1]]
      <3>1. n - 1 \in 0 .. m - 1 /\ h[n - 1] = g[n - 1]
        OBVIOUS
      <3>2. n # m => n \in 1 .. m - 1
        OBVIOUS
      <3> QED
        BY <2>1, <3>1, <3>2
    <2> HIDE DEF h
    <2>5. h \in G(m)
      BY <2>2, <2>3, <2>4
    <2> QED
      BY <2>5
  <1> HIDE DEF S
  <1>3. 0 .. N \subseteq S
    BY <1>1, <1>2, Upwards
  <1>4. N \in S
    BY <1>3
  <1> QED
    BY <1>4 DEF S, Steps

-----------------------------------------------------------------------------
(* Pick                                                                     *)

\* The recursion of Pick defines the function it speaks of.
LEMMA PickRecurs ==
  ASSUME NEW X, NEW s \in Seq(X), NEW K
  PROVE  \E kept \in [0 .. Len(s) -> Seq(X)] :
           /\ Pick(s, K) = kept[Len(s)] /\ kept[0] = <<>>
           /\ \A n \in 1 .. Len(s) :
                kept[n] = IF n \in K THEN Append(kept[n - 1], s[n]) ELSE kept[n - 1]
  <1> DEFINE N == Len(s)
             Y == Seq(X)
             e == <<>>
             F == [n \in 1 .. N |-> [v \in Y |-> IF n \in K THEN Append(v, s[n]) ELSE v]]
             H(g) == [n \in 0 .. N |->
                        IF n = 0 THEN e
                        ELSE IF n \in K THEN Append(g[n - 1], s[n]) ELSE g[n - 1]]
             kept == CHOOSE g : g = H(g)
  <1>1. N \in Nat /\ e \in Y /\ F \in [1 .. N -> [Y -> Y]]
    OBVIOUS
  <1>2. \A v \in Y, n \in 1 .. N : Append(v, s[n]) \in Y
    OBVIOUS
  <1>3. Pick(s, K) = kept[N]
    BY DEF Pick
  <1> HIDE DEF N, Y, e
  <1>4. PICK g \in [0 .. N -> Y] : g[0] = e /\ \A n \in 1 .. N : g[n] = F[n][g[n - 1]]
    <2> HIDE DEF F
    <2>1. \E g \in [0 .. N -> Y] : Steps(g, N, e, F)
      BY <1>1, StepsDefine
    <2> QED
      BY <2>1 DEF Steps
  <1>5. ASSUME NEW n \in 0 .. N PROVE g[n] = H(g)[n]
    <2>1. CASE n = 0
      BY <1>4, <2>1
    <2>2. CASE n # 0
      <3>1. n \in 1 .. N /\ n - 1 \in 0 .. N
        BY <1>1, <2>2
      <3> QED
        BY <1>4, <2>2, <3>1
    <2> QED
      BY <2>1, <2>2
  <1>6. g = H(g)
    BY <1>4, <1>5
  <1>7. kept = H(kept)
    BY <1>6
  <1> HIDE DEF kept, F
  <1>8. kept[0] = e /\ DOMAIN kept = 0 .. N
    BY <1>1, <1>7
  <1>9. \A n \in 1 .. N :
          kept[n] = IF n \in K THEN Append(kept[n - 1], s[n]) ELSE kept[n - 1]
    <2> DEFINE h == H(kept)
    <2>1. \A n \in 1 .. N : h[n] = IF n \in K THEN Append(kept[n - 1], s[n]) ELSE kept[n - 1]
      BY <1>1
    <2>2. kept = h
      BY <1>7
    <2> HIDE DEF h, H
    <2> QED
      BY <2>1, <2>2
  <1>10. \A n \in 0 .. N : kept[n] \in Y
    <2> DEFINE S == {n \in 0 .. N : kept[n] \in Y}
    <2>1. 0 \in S
      BY <1>1, <1>8
    <2>2. ASSUME NEW n \in 1 .. N, n - 1 \in S PROVE n \in S
      <3>1. kept[n - 1] \in Y /\ n \in 0 .. N
        BY <1>1, <2>2
      <3>2. kept[n] \in {Append(kept[n - 1], s[n]), kept[n - 1]}
        BY <1>9
      <3> QED
        BY <1>2, <3>1, <3>2
    <2> HIDE DEF S
    <2>3. 0 .. N \subseteq S
      BY <1>1, <2>1, <2>2, Upwards
    <2> QED
      BY <2>3 DEF S
  <1>11. kept \in [0 .. N -> Y]
    BY <1>7, <1>8, <1>10
  <1> QED
    BY <1>3, <1>8, <1>9, <1>11 DEF N, Y, e

\* p holds the elements of s at the positions P, in their order: e says where
\* each comes from.
Takes(p, s, P, e) ==
  /\ e \in [1 .. Len(p) -> P]
  /\ \A i, j \in 1 .. Len(p) : i < j => e[i] < e[j]
  /\ \A k \in P : \E i \in 1 .. Len(p) : e[i] = k
  /\ \A i \in 1 .. Len(p) : p[i] = s[e[i]]

\* Pick takes exactly the positions it is given, each once and in order.
LEMMA PickTakes ==
  ASSUME NEW X, NEW s \in Seq(X), NEW K
  PROVE  /\ Pick(s, K) \in Seq(X)
         /\ \E e : Takes(Pick(s, K), s, {k \in 1 .. Len(s) : k \in K}, e)
  <1> DEFINE N == Len(s)
             P(n) == {k \in 1 .. n : k \in K}
  <1>0. N \in Nat
    OBVIOUS
  <1>1. PICK kept \in [0 .. N -> Seq(X)] :
          /\ Pick(s, K) = kept[N] /\ kept[0] = <<>>
          /\ \A n \in 1 .. N :
               kept[n] = IF n \in K THEN Append(kept[n - 1], s[n]) ELSE kept[n - 1]
    BY PickRecurs
  <1> DEFINE S == {n \in 0 .. N : \E e : Takes(kept[n], s, P(n), e)}
  <1>2. 0 \in S
    <2>1. Len(kept[0]) = 0 /\ P(0) = {}
      BY <1>1
    <2>2. Takes(kept[0], s, P(0), [i \in 1 .. 0 |-> i])
      BY <2>1 DEF Takes
    <2> QED
      BY <1>0, <2>2
  <1>3. ASSUME NEW n \in 1 .. N, n - 1 \in S PROVE n \in S
    <2> DEFINE v == kept[n - 1]
               m == Len(kept[n - 1])
    <2>1. PICK e : Takes(v, s, P(n - 1), e)
      BY <1>3
    <2>2. v \in Seq(X) /\ m \in Nat /\ n - 1 \in 0 .. N /\ n \in 0 .. N /\ s[n] \in X
      BY <1>0, <1>1
    <2>3. CASE n \in K
      <3> DEFINE w == Append(v, s[n])
                 d == [i \in 1 .. m + 1 |-> IF i = m + 1 THEN n ELSE e[i]]
      <3>1. kept[n] = w
        BY <1>1, <2>3
      <3>2. Len(w) = m + 1 /\ w[m + 1] = s[n] /\ \A i \in 1 .. m : w[i] = v[i]
        BY <2>2
      <3>3. \A i \in 1 .. m : e[i] \in P(n - 1) /\ e[i] \in 1 .. n - 1 /\ e[i] \in K
        BY <2>1 DEF Takes
      <3>4. d \in [1 .. m + 1 -> P(n)]
        BY <2>2, <2>3, <3>3
      <3>5. ASSUME NEW i \in 1 .. m + 1, NEW j \in 1 .. m + 1, i < j PROVE d[i] < d[j]
        <4>1. i \in 1 .. m /\ d[i] = e[i]
          BY <2>2, <3>5
        <4>2. CASE j = m + 1
          BY <3>3, <4>1, <4>2
        <4>3. CASE j # m + 1
          <5>1. j \in 1 .. m /\ d[j] = e[j]
            BY <2>2, <4>3
          <5> QED
            BY <2>1, <3>5, <4>1, <5>1 DEF Takes
        <4> QED
          BY <4>2, <4>3
      <3>6. ASSUME NEW k \in P(n) PROVE \E i \in 1 .. m + 1 : d[i] = k
        <4>1. CASE k = n
          <5>1. m + 1 \in 1 .. m + 1 /\ d[m + 1] = n
            BY <2>2
          <5> QED
            BY <4>1, <5>1
        <4>2. CASE k # n
          <5>1. k \in P(n - 1)
            BY <4>2
          <5>2. PICK i \in 1 .. m : e[i] = k
            BY <2>1, <5>1 DEF Takes
          <5>3. i \in 1 .. m + 1 /\ d[i] = k
            BY <2>2, <5>2
          <5> QED
            BY <5>3
        <4> QED
          BY <4>1, <4>2
      <3>7. ASSUME NEW i \in 1 .. m + 1 PROVE w[i] = s[d[i]]
        <4>1. CASE i = m + 1
          BY <3>2, <4>1
        <4>2. CASE i # m + 1
          <5>1. i \in 1 .. m
            <6> HIDE DEF m, d, w
            <6> QED
              BY <2>2, <4>2
          <5> QED
            BY <2>1, <3>2, <4>2, <5>1 DEF Takes
        <4> QED
          BY <4>1, <4>2
      <3> HIDE DEF w, d
      <3>8. Takes(w, s, P(n), d)
        BY <3>2, <3>4, <3>5, <3>6, <3>7 DEF Takes
      <3> QED
        BY <2>2, <3>1, <3>8
    <2>4. CASE n \notin K
      <3>1. kept[n] = v
        BY <1>1, <2>4
      <3>2. P(n) = P(n - 1)
        BY <2>4
      <3> QED
        BY <2>1, <2>2, <3>1, <3>2
    <2> QED
      BY <2>3, <2>4
  <1> HIDE DEF S, N
  <1>4. 0 .. N \subseteq S
    BY <1>0, <1>2, <1>3, Upwards
  <1>5. N \in S
    BY <1>0, <1>4
  <1> QED
    BY <1>0, <1>1, <1>5 DEF S, N

\* What is picked, as a set.
LEMMA PickSet ==
  ASSUME NEW X, NEW s \in Seq(X), NEW K
  PROVE  /\ Pick(s, K) \in Seq(X) /\ DOMAIN Pick(s, K) = 1 .. Len(Pick(s, K))
         /\ \A i \in DOMAIN Pick(s, K) : \E k \in DOMAIN s : k \in K /\ Pick(s, K)[i] = s[k]
         /\ \A k \in DOMAIN s : k \in K => \E i \in DOMAIN Pick(s, K) : Pick(s, K)[i] = s[k]
  <1> DEFINE p == Pick(s, K)
  <1>1. p \in Seq(X) /\ \E e : Takes(p, s, {k \in 1 .. Len(s) : k \in K}, e)
    BY PickTakes
  <1>2. DOMAIN s = 1 .. Len(s)
    OBVIOUS
  <1> HIDE DEF p
  <1>3. DOMAIN p = 1 .. Len(p)
    BY <1>1
  <1>4. PICK e : Takes(p, s, {k \in 1 .. Len(s) : k \in K}, e)
    BY <1>1
  <1>5. ASSUME NEW i \in DOMAIN p PROVE \E k \in DOMAIN s : k \in K /\ p[i] = s[k]
    <2>1. e[i] \in {k \in 1 .. Len(s) : k \in K} /\ p[i] = s[e[i]]
      BY <1>3, <1>4 DEF Takes
    <2> QED
      BY <1>2, <2>1
  <1>6. ASSUME NEW k \in DOMAIN s, k \in K PROVE \E i \in DOMAIN p : p[i] = s[k]
    <2>1. k \in {j \in 1 .. Len(s) : j \in K}
      BY <1>2, <1>6
    <2>2. PICK i \in 1 .. Len(p) : e[i] = k
      BY <1>4, <2>1 DEF Takes
    <2> QED
      BY <1>3, <1>4, <2>2 DEF Takes
  <1> QED
    BY <1>1, <1>3, <1>5, <1>6 DEF p

\* Positions that hold different elements give a sequence without repetition.
LEMMA PickDistinct ==
  ASSUME NEW X, NEW s \in Seq(X), NEW K,
         \A j, k \in DOMAIN s : j \in K /\ k \in K /\ j < k => s[j] # s[k]
  PROVE  \A i, j \in DOMAIN Pick(s, K) : i < j => Pick(s, K)[i] # Pick(s, K)[j]
  <1> DEFINE p == Pick(s, K)
  <1>1. p \in Seq(X)
    BY PickTakes
  <1>2. PICK e : Takes(p, s, {k \in 1 .. Len(s) : k \in K}, e)
    BY PickTakes
  <1>3. DOMAIN s = 1 .. Len(s)
    OBVIOUS
  <1> HIDE DEF p
  <1>4. DOMAIN p = 1 .. Len(p)
    BY <1>1
  <1> SUFFICES ASSUME NEW i \in 1 .. Len(p), NEW j \in 1 .. Len(p), i < j PROVE p[i] # p[j]
    BY <1>4 DEF p
  <1>5. e[i] < e[j] /\ p[i] = s[e[i]] /\ p[j] = s[e[j]]
    BY <1>2 DEF Takes
  <1>6. e[i] \in DOMAIN s /\ e[j] \in DOMAIN s /\ e[i] \in K /\ e[j] \in K
    BY <1>2, <1>3 DEF Takes
  <1> QED
    BY <1>5, <1>6

\* What is not the first of the picked was not the first.
LEMMA PickLater ==
  ASSUME NEW X, NEW s \in Seq(X), NEW K, NEW i \in DOMAIN Pick(s, K), i # 1
  PROVE  \E k \in DOMAIN s : k # 1 /\ Pick(s, K)[i] = s[k]
  <1> DEFINE p == Pick(s, K)
  <1>1. p \in Seq(X)
    BY PickTakes
  <1>2. PICK e : Takes(p, s, {k \in 1 .. Len(s) : k \in K}, e)
    BY PickTakes
  <1>3. DOMAIN s = 1 .. Len(s)
    OBVIOUS
  <1> HIDE DEF p
  <1>4. i \in 1 .. Len(p) /\ 1 \in 1 .. Len(p) /\ 1 < i
    BY <1>1 DEF p
  <1>5. e[1] < e[i] /\ e[1] \in 1 .. Len(s) /\ e[i] \in 1 .. Len(s) /\ p[i] = s[e[i]]
    BY <1>2, <1>4 DEF Takes
  <1> QED
    BY <1>3, <1>5 DEF p
==============================================================================
