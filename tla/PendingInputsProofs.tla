------------------------- MODULE PendingInputsProofs -------------------------
(***************************************************************************)
(* Theorems of PendingInputs: approved work is sent off at most once and    *)
(* only for a yes; what was queued is queued, drained, told, or given up     *)
(* where the code says so; it is told once; no delivery Turn speaks from an  *)
(* empty hand; and somebody comes for every answer and press.                *)
(***************************************************************************)
EXTENDS PendingInputs, PicksProofs, FiniteSetTheorems, TLAPS

\* The shapes of what the argument is about.
ApprovalTypes ==
  /\ decision \in [Approvals -> {"none", "pending", "approved", "denied", "expired"}]
  /\ call \in [Opening -> {"none", "dispatch", "check", "admit"}]
  /\ dispatched \in [Approvals -> Nat]

\* A call that is about to dispatch is the first to.
DispatchInv ==
  /\ ApprovalTypes
  /\ DispatchFollowsTheDecision
  /\ \A a \in Approvals : call[a] = "dispatch" => dispatched[a] = 0

\* A step that decides nothing and dispatches nothing: an approval may be asked
\* for, and a call goes on to something else than a dispatch.
Undecisive ==
  /\ UNCHANGED dispatched /\ ApprovalTypes'
  /\ \A a \in Approvals : /\ decision[a] = "approved" => decision'[a] = "approved"
                          /\ call'[a] = "dispatch" => call[a] = "dispatch"
LEMMA UndecisiveStep == DispatchInv /\ Undecisive => DispatchInv'
  BY DEF DispatchInv, Undecisive, DispatchFollowsTheDecision, ApprovalTypes, Opening

LEMMA KeptApprovals ==
  DispatchInv /\ UNCHANGED <<decision, call, dispatched>> => Undecisive
  BY DEF DispatchInv, Undecisive, ApprovalTypes

\* The Turns decide nothing; a completed one may ask.
LEMMA TurnStepsInv == ASSUME DispatchInv, TurnSteps PROVE Undecisive
  <1>1. CASE TurnInput \/ SendTurn \/ ModelCalled \/ TurnYields \/ TurnFails
             \/ TurnDefers \/ Recover \/ Promote
    BY <1>1, KeptApprovals DEF TurnInput, SendTurn, ModelCalled, TurnYields,
         TurnFails, TurnDefers, Recover, Promote, Fails, memory
  <1>2. CASE TurnCompletes
    <2>1. UNCHANGED <<call, dispatched>>
      BY <1>2 DEF TurnCompletes
    <2>2. /\ decision' \in [Approvals -> {"none", "pending", "approved", "denied", "expired"}]
          /\ \A a \in Approvals : decision[a] = "approved" => decision'[a] = "approved"
      BY <1>2 DEF TurnCompletes, DispatchInv, ApprovalTypes
    <2> QED
      BY <2>1, <2>2 DEF Undecisive, DispatchInv, ApprovalTypes
  <1> QED
    BY <1>1, <1>2 DEF TurnSteps

\* settleApproval by a person: what was undecided was not dispatched.
LEMMA DecideInv ==
  ASSUME DispatchInv, NEW a \in Approvals, NEW d \in {"approved", "denied"}, Decide(a, d)
  PROVE  DispatchInv'
  <1>1. decision[a] = "pending" /\ a \in Opening
    BY DEF Decide, Undecided, Opening
  <1>2. dispatched[a] = 0 /\ UNCHANGED dispatched
    BY <1>1 DEF Decide, DispatchInv, DispatchFollowsTheDecision, ApprovalTypes
  <1>3. /\ decision' = [decision EXCEPT ![a] = d]
        /\ call' = [call EXCEPT ![a] = IF d = "approved" THEN "dispatch" ELSE "check"]
    BY DEF Decide, SettleApproval
  <1>4. ApprovalTypes'
    BY <1>1, <1>2, <1>3 DEF DispatchInv, ApprovalTypes
  <1>5. ASSUME NEW x \in Approvals
        PROVE  /\ dispatched'[x] <= 1
               /\ dispatched'[x] > 0 \/ call'[x] = "dispatch" => decision'[x] = "approved"
               /\ call'[x] = "dispatch" => dispatched'[x] = 0
    <2>1. CASE x = a
      BY <1>1, <1>2, <1>3, <2>1 DEF DispatchInv, ApprovalTypes
    <2>2. CASE x # a
      <3>1. decision'[x] = decision[x] /\ call'[x] = call[x]
        BY <1>1, <1>3, <2>2 DEF DispatchInv, ApprovalTypes, Opening
      <3> QED
        BY <1>2, <3>1 DEF DispatchInv, DispatchFollowsTheDecision
    <2> QED
      BY <2>1, <2>2
  <1> QED
    BY <1>4, <1>5 DEF DispatchInv, DispatchFollowsTheDecision

\* An expiry of what was undecided.
LEMMA ExpireInv ==
  ASSUME DispatchInv, NEW a \in Approvals, Expire(a)
  PROVE  DispatchInv'
  <1>1. /\ decision[a] = "pending" /\ decision' = [decision EXCEPT ![a] = "expired"]
        /\ UNCHANGED <<call, dispatched>>
    BY DEF Expire, Undecided, SettleApproval, memory
  <1>2. Undecisive
    BY <1>1 DEF Undecisive, DispatchInv, ApprovalTypes
  <1> QED
    BY <1>2, UndecisiveStep

\* The dispatch, sent or failed, is the call's last.
LEMMA DispatchStepInv ==
  ASSUME DispatchInv, NEW a \in Approvals, Dispatch(a)
  PROVE  DispatchInv'
  <1>1. /\ call[a] = "dispatch" /\ decision[a] = "approved" /\ dispatched[a] = 0
        /\ a \in Opening /\ UNCHANGED decision
    BY DEF Dispatch, DispatchInv, DispatchFollowsTheDecision, Opening
  <1>2. \E c \in {"check", "none"} : call' = [call EXCEPT ![a] = c]
    BY DEF Dispatch
  <1>3. dispatched' = [dispatched EXCEPT ![a] = dispatched[a] + 1] \/ UNCHANGED dispatched
    BY DEF Dispatch
  <1>4. ApprovalTypes'
    BY <1>1, <1>2, <1>3 DEF DispatchInv, ApprovalTypes
  <1>5. ASSUME NEW x \in Approvals
        PROVE  /\ dispatched'[x] <= 1
               /\ dispatched'[x] > 0 \/ call'[x] = "dispatch" => decision'[x] = "approved"
               /\ call'[x] = "dispatch" => dispatched'[x] = 0
    <2>1. CASE x = a
      BY <1>1, <1>2, <1>3, <2>1 DEF DispatchInv, ApprovalTypes
    <2>2. CASE x # a
      <3>1. decision'[x] = decision[x] /\ call'[x] = call[x] /\ dispatched'[x] = dispatched[x]
        BY <1>1, <1>2, <1>3, <2>2 DEF DispatchInv, ApprovalTypes, Opening
      <3> QED
        BY <3>1 DEF DispatchInv, DispatchFollowsTheDecision
    <2> QED
      BY <2>1, <2>2
  <1> QED
    BY <1>4, <1>5 DEF DispatchInv, DispatchFollowsTheDecision

\* A press, and a call that looks for or opens a delivery Turn.
LEMMA OpeningInv ==
  ASSUME DispatchInv, NEW i \in Opening,
         (i \in Presses /\ Press(i)) \/ CheckWaiting(i) \/ OpenDelivery(i)
  PROVE  Undecisive
  <1>1. \E c \in {"none", "check", "admit"} : call' = [call EXCEPT ![i] = c]
    BY DEF Press, CheckWaiting, OpenDelivery
  <1>2. UNCHANGED <<decision, dispatched>>
    BY DEF Press, CheckWaiting, OpenDelivery
  <1> QED
    BY <1>1, <1>2 DEF Undecisive, DispatchInv, ApprovalTypes, Opening

LEMMA DispatchInvStep == DispatchInv /\ [Next]_vars => DispatchInv'
  <1> SUFFICES ASSUME DispatchInv, [Next]_vars PROVE DispatchInv'
    OBVIOUS
  <1>1. CASE UNCHANGED vars
    BY <1>1, KeptApprovals, UndecisiveStep DEF vars, memory
  <1>2. CASE TurnSteps
    BY <1>2, TurnStepsInv, UndecisiveStep
  <1>3. CASE \E a \in Approvals : \/ \E d \in {"approved", "denied"} : Decide(a, d)
                                  \/ Expire(a) \/ Dispatch(a)
    BY <1>3, DecideInv, ExpireInv, DispatchStepInv
  <1>4. CASE (\E p \in Presses : Press(p)) \/ \E i \in Opening : CheckWaiting(i) \/ OpenDelivery(i)
    BY <1>4, OpeningInv, UndecisiveStep DEF Opening
  <1>5. CASE \/ \E w \in Handoffs \cup Tasks : HandOff(w)
             \/ ReadHandoffs \/ DeliverHandoffs \/ OpenHandoff
             \/ (\E c \in Chats : Chat(c)) \/ \E t \in Turns : Stop(t)
    BY <1>5, KeptApprovals, UndecisiveStep DEF HandOff, ReadHandoffs, DeliverHandoffs, OpenHandoff,
         Chat, Stop, memory
  <1>6. CASE Evict
    <2>1. UNCHANGED <<decision, dispatched>> /\ call' = [i \in Opening |-> "none"]
      BY <1>6 DEF Evict
    <2>2. Undecisive
      BY <2>1 DEF Undecisive, DispatchInv, ApprovalTypes, Opening
    <2> QED
      BY <2>2, UndecisiveStep
  <1> QED
    BY <1>1, <1>2, <1>3, <1>4, <1>5, <1>6 DEF Next, Producers

\* Approved work goes off once and only for a person's yes, whatever is clicked
\* twice, expires meanwhile, fails or is evicted.
THEOREM DispatchedOnceForAYes == Spec => []DispatchFollowsTheDecision
  <1>1. Init => DispatchInv
    BY DEF Init, DispatchInv, DispatchFollowsTheDecision, ApprovalTypes, Opening
  <1>2. DispatchInv => DispatchFollowsTheDecision
    BY DEF DispatchInv
  <1> QED
    BY <1>1, <1>2, DispatchInvStep, PTL DEF Spec

-----------------------------------------------------------------------------
(* The invariants behind the other properties                               *)

\* A run that has drained nothing and asked nothing of anybody.
Fresh(t) == receipt[t] = <<>> /\ journal[t] = "quiet" /\ carried[t] = {}

\* A run that waits in a lane.
Waiting(t) == t \in ToSet(pendingUser) \cup ToSet(pendingAgent)
\* A lane holds a run once, and no run waits in both.
OneLane ==
  /\ IsInjective(pendingUser) /\ IsInjective(pendingAgent)
  /\ ToSet(pendingUser) \cap ToSet(pendingAgent) = {}

\* What waits is admitted, fresh and not active; only what waits or is active
\* runs; and the active Turn is resumed exactly if it has asked something.
RunsInv ==
  /\ OneLane
  /\ \A t \in Turns :
       /\ Waiting(t) => status[t] = "running" /\ Fresh(t) /\ t # active
       /\ status[t] = "running" => t = active \/ Waiting(t)
       /\ status[t] = "none" => Fresh(t) /\ ~stop[t]
  /\ active # None =>
       /\ status[active] = "running"
       /\ carried[active] \subseteq ToSet(receipt[active])
       /\ step \in {"mount", "send"} => (resumed <=> journal[active] # "quiet")
       /\ step = "loop" => journal[active] # "quiet"

\* What the active Turn drained, it has told or will tell, unless it was drained
\* past its message; a stopped delivery has given back what it had.
Holds(i) == active # None /\ i \in ToSet(receipt[active]) /\ ~(stop[active] /\ active \in Deliveries)
Safe(i) ==
  \/ i \in ToSet(queue) \/ Holds(i)
  \/ (\E t \in Turns : i \in Told(t)) \/ i \in forgiven \/ i \in astray
Tells ==
  active # None /\ journal[active] # "quiet" =>
    ToSet(receipt[active]) \subseteq carried[active] \cup astray
KeptInv == (\A i \in owed : Safe(i)) /\ Tells

\* Receipts, messages and the queue hold what is owed, a receipt once; and an
\* approval that is undecided, or a Turn that has not completed, owes nothing.
OwedInv ==
  /\ \A t \in Turns : IsInjective(receipt[t]) /\ ToSet(receipt[t]) \cup carried[t] \subseteq owed
  /\ ToSet(queue) \subseteq owed
  /\ \A a \in Approvals : decision[a] \in {"none", "pending"} => a \notin owed
  /\ \A t \in Turns : Yielded(t) \in owed => status[t] = "completed"

\* A Turn whose telling is final.
Counted(t, i) == i \in Told(t) /\ (t \in Chats \/ status[t] = "completed")
\* An input is queued, or with the active Turn, or told for good, one at a time.
OneTelling(i) ==
  /\ i \in ToSet(queue) => ~Holds(i) /\ \A t \in Turns : ~Counted(t, i)
  /\ active # None /\ i \in ToSet(receipt[active]) => \A t \in Turns : Counted(t, i) => t = active
  /\ \A t, u \in Turns : Counted(t, i) /\ Counted(u, i) => t = u
TellInv == \A i \in Inputs \ Presses : OneTelling(i)

\* A delivery that is about to speak has something to say, and had it when it
\* spoke.
SpeaksInv ==
  /\ At("send") /\ active \in Deliveries => receipt[active] # <<>>
  /\ \A t \in Deliveries : journal[t] # "quiet" => carried[t] # {}

\* Who comes for an answer or a press is a delivery Turn opened for one.
Expected(i) == i \in ToSet(queue) /\ call[i] = "none" /\ i \notin waived
ComesInv == \A i \in Opening : Expected(i) => \E t \in Opening : Undrained(t)

-----------------------------------------------------------------------------
(* The queue's operators                                                    *)

LEMMA ContainsIsIn ==
  ASSUME NEW X, NEW s \in Seq(X), NEW i
  PROVE  /\ Contains(s, i) <=> i \in ToSet(s)
         /\ ToSet(s) \subseteq X /\ (s = <<>> <=> ToSet(s) = {})
  <1>1. DOMAIN s = 1 .. Len(s) /\ Len(s) \in Nat
    OBVIOUS
  <1>2. s # <<>> => 1 \in 1 .. Len(s)
    OBVIOUS
  <1>3. s = <<>> => DOMAIN s = {}
    OBVIOUS
  <1>4. Contains(s, i) <=> i \in ToSet(s)
    BY <1>1 DEF Contains, ToSet
  <1>5. ToSet(s) \subseteq X
    BY <1>1 DEF ToSet
  <1>6. s = <<>> <=> ToSet(s) = {}
    BY <1>1, <1>2, <1>3 DEF ToSet
  <1> QED
    BY <1>4, <1>5, <1>6

LEMMA AppendedSet ==
  ASSUME NEW X, NEW s \in Seq(X), NEW i \in X
  PROVE  Append(s, i) \in Seq(X) /\ ToSet(Append(s, i)) = ToSet(s) \cup {i}
  <1> DEFINE n == Len(s)
             p == Append(s, i)
  <1>1. /\ n \in Nat /\ DOMAIN s = 1 .. n /\ p \in Seq(X) /\ DOMAIN p = 1 .. n + 1
        /\ p[n + 1] = i /\ \A k \in 1 .. n : p[k] = s[k]
    OBVIOUS
  <1> HIDE DEF n, p
  <1>2. \A k \in 1 .. n + 1 : k \in 1 .. n \/ k = n + 1
    BY <1>1
  <1>3. n + 1 \in 1 .. n + 1 /\ 1 .. n \subseteq 1 .. n + 1
    BY <1>1
  <1>4. ToSet(p) = ToSet(s) \cup {i}
    BY <1>1, <1>2, <1>3 DEF ToSet
  <1> QED
    BY <1>1, <1>4 DEF p

LEMMA JoinedSet ==
  ASSUME NEW X, NEW s \in Seq(X), NEW r \in Seq(X)
  PROVE  s \o r \in Seq(X) /\ ToSet(s \o r) = ToSet(s) \cup ToSet(r)
  <1> DEFINE n == Len(s)
             m == Len(r)
             p == s \o r
  <1>1. /\ n \in Nat /\ m \in Nat /\ DOMAIN s = 1 .. n /\ DOMAIN r = 1 .. m
        /\ p \in Seq(X) /\ DOMAIN p = 1 .. n + m
        /\ \A k \in 1 .. n : p[k] = s[k]
        /\ \A k \in 1 .. m : p[n + k] = r[k]
    OBVIOUS
  <1> HIDE DEF n, m, p
  <1>2. \A k \in 1 .. n + m : k \in 1 .. n \/ (k - n \in 1 .. m /\ k = n + (k - n))
    BY <1>1
  <1>3. \A k \in 1 .. m : n + k \in 1 .. n + m
    BY <1>1
  <1>4. 1 .. n \subseteq 1 .. n + m
    BY <1>1
  <1>5. ToSet(p) \subseteq ToSet(s) \cup ToSet(r)
    <2>1. ASSUME NEW k \in 1 .. n + m PROVE p[k] \in ToSet(s) \cup ToSet(r)
      <3>1. CASE k \in 1 .. n
        BY <1>1, <3>1 DEF ToSet
      <3>2. CASE k - n \in 1 .. m /\ k = n + (k - n)
        <4>1. p[k] = r[k - n]
          BY <1>1, <3>2
        <4> QED
          BY <1>1, <3>2, <4>1 DEF ToSet
      <3> QED
        BY <1>2, <3>1, <3>2
    <2> QED
      BY <1>1, <2>1 DEF ToSet
  <1>6. ToSet(s) \subseteq ToSet(p)
    BY <1>1, <1>4 DEF ToSet
  <1>7. ToSet(r) \subseteq ToSet(p)
    BY <1>1, <1>3 DEF ToSet
  <1> QED
    BY <1>1, <1>5, <1>6, <1>7 DEF p

LEMMA PickedSet ==
  ASSUME NEW X, NEW s \in Seq(X), NEW K
  PROVE  /\ Pick(s, K) \in Seq(X) /\ ToSet(Pick(s, K)) \subseteq ToSet(s)
         /\ \A k \in DOMAIN s : k \in K => s[k] \in ToSet(Pick(s, K))
         /\ \A i \in ToSet(Pick(s, K)) : \E k \in DOMAIN s : k \in K /\ i = s[k]
  BY PickSet DEF ToSet

\* A sequence whose elements differ has as many as it is long.
LEMMA DifferentAreCounted ==
  ASSUME NEW X, NEW s \in Seq(X), IsInjective(s)
  PROVE  Cardinality(ToSet(s)) = Len(s)
  <1> DEFINE n == Len(s)
  <1>1. n \in Nat /\ DOMAIN s = 1 .. n
    OBVIOUS
  <1>2. IsFiniteSet(1 .. n) /\ Cardinality(1 .. n) = n
    BY <1>1, FS_Interval
  <1>3. s \in Bijection(1 .. n, ToSet(s))
    <2>1. s \in [1 .. n -> ToSet(s)]
      BY <1>1 DEF ToSet
    <2>2. s \in Injection(1 .. n, ToSet(s))
      BY <1>1, <2>1 DEF Injection, IsInjective
    <2>3. s \in Surjection(1 .. n, ToSet(s))
      BY <1>1, <2>1 DEF Surjection, ToSet
    <2> QED
      BY <2>2, <2>3 DEF Bijection
  <1> HIDE DEF n
  <1>4. Cardinality(ToSet(s)) = Cardinality(1 .. n)
    BY <1>2, <1>3, FS_Bijection DEF ExistsBijection
  <1> QED
    BY <1>2, <1>4 DEF n

\* An input is queued behind what was queued, of which only presses give way.
LEMMA EnqueueSet ==
  ASSUME NEW q \in Seq(Inputs), NEW i \in Inputs
  PROVE  /\ Enqueue(q, i) \in Seq(Inputs) /\ i \in ToSet(Enqueue(q, i))
         /\ ToSet(Enqueue(q, i)) \subseteq ToSet(q) \cup {i}
  <1>1. CASE Contains(q, i)
    BY <1>1, ContainsIsIn DEF Enqueue
  <1>2. CASE ~Contains(q, i)
    <2>1. PICK K : Enqueue(q, i) = Append(Pick(q, K), i) \/ Enqueue(q, i) = Append(q, i)
      BY <1>2 DEF Enqueue
    <2>2. Pick(q, K) \in Seq(Inputs) /\ ToSet(Pick(q, K)) \subseteq ToSet(q)
      BY PickedSet
    <2>3. \A s \in Seq(Inputs) : Append(s, i) \in Seq(Inputs) /\ ToSet(Append(s, i)) = ToSet(s) \cup {i}
      BY AppendedSet
    <2> QED
      BY <2>1, <2>2, <2>3
  <1> QED
    BY <1>1, <1>2

\* Putting a sequence of inputs on a queue, one after the other, is defined.
Enqueued(g, N, e, s) == g[0] = e /\ \A n \in 1 .. N : g[n] = Enqueue(g[n - 1], s[n])
LEMMA EnqueuesDefine ==
  ASSUME NEW N \in Nat, NEW Y, NEW e \in Y, NEW s,
         \A v \in Y, n \in 1 .. N : Enqueue(v, s[n]) \in Y
  PROVE  \E g \in [0 .. N -> Y] : Enqueued(g, N, e, s)
  <1> DEFINE F == [n \in 1 .. N |-> [v \in Y |-> Enqueue(v, s[n])]]
  <1>1. F \in [1 .. N -> [Y -> Y]]
    OBVIOUS
  <1>2. \A v \in Y, n \in 1 .. N : F[n][v] = Enqueue(v, s[n])
    OBVIOUS
  <1> HIDE DEF F
  <1>3. PICK g \in [0 .. N -> Y] : g[0] = e /\ \A n \in 1 .. N : g[n] = F[n][g[n - 1]]
    <2>1. \E g \in [0 .. N -> Y] : Steps(g, N, e, F)
      BY <1>1, StepsDefine
    <2> QED
      BY <2>1 DEF Steps
  <1>4. \A n \in 1 .. N : n - 1 \in 0 .. N
    OBVIOUS
  <1> QED
    BY <1>2, <1>3, <1>4 DEF Enqueued

\* requeueDrainedInputsV1 queues what it is given, and nothing else.
LEMMA RequeueSet ==
  ASSUME NEW q \in Seq(Inputs), NEW s \in Seq(Inputs)
  PROVE  Requeue(q, s) \in Seq(Inputs) /\ ToSet(Requeue(q, s)) \subseteq ToSet(q) \cup ToSet(s)
  <1> DEFINE N == Len(s)
             Y == Seq(Inputs)
             e == q
             H(g) == [n \in 0 .. N |-> IF n = 0 THEN e ELSE Enqueue(g[n - 1], s[n])]
             upTo == CHOOSE g : g = H(g)
  <1>0. N \in Nat /\ DOMAIN s = 1 .. N /\ \A n \in 1 .. N : s[n] \in Inputs /\ s[n] \in ToSet(s)
    BY DEF ToSet
  <1>1. Requeue(q, s) = upTo[N]
    BY DEF Requeue
  <1>2. \A v \in Y, n \in 1 .. N : /\ Enqueue(v, s[n]) \in Y
                                   /\ ToSet(Enqueue(v, s[n])) \subseteq ToSet(v) \cup {s[n]}
    BY <1>0, EnqueueSet
  <1>3. e \in Y
    OBVIOUS
  <1> HIDE DEF N, Y, e
  <1>5. PICK g \in [0 .. N -> Y] : g[0] = e /\ \A n \in 1 .. N : g[n] = Enqueue(g[n - 1], s[n])
    <2>1. N \in Nat /\ \A v \in Y, n \in 1 .. N : Enqueue(v, s[n]) \in Y
      BY <1>0, <1>2
    <2>2. \E g \in [0 .. N -> Y] : Enqueued(g, N, e, s)
      BY <1>3, <2>1, EnqueuesDefine
    <2> QED
      BY <2>2 DEF Enqueued
  <1>6. ASSUME NEW n \in 0 .. N PROVE g[n] = H(g)[n]
    <2>1. CASE n = 0
      BY <1>5, <2>1
    <2>2. CASE n # 0
      <3>1. n \in 1 .. N /\ n - 1 \in 0 .. N
        BY <1>0, <2>2
      <3> QED
        BY <1>5, <2>2, <3>1
    <2> QED
      BY <2>1, <2>2
  <1>7. g = H(g)
    BY <1>5, <1>6
  <1>8. upTo = H(upTo)
    BY <1>7
  <1> HIDE DEF upTo
  <1>9. upTo[0] = e
    BY <1>0, <1>8
  <1>10. \A n \in 1 .. N : upTo[n] = Enqueue(upTo[n - 1], s[n])
    <2> DEFINE h == H(upTo)
    <2>1. \A n \in 1 .. N : h[n] = Enqueue(upTo[n - 1], s[n])
      BY <1>0
    <2>2. upTo = h
      BY <1>8
    <2> HIDE DEF h, H
    <2> QED
      BY <2>1, <2>2
  <1>11. \A n \in 0 .. N : upTo[n] \in Y /\ ToSet(upTo[n]) \subseteq ToSet(q) \cup ToSet(s)
    <2> DEFINE S == {n \in 0 .. N : upTo[n] \in Y /\ ToSet(upTo[n]) \subseteq ToSet(q) \cup ToSet(s)}
    <2>1. 0 \in S
      BY <1>0, <1>3, <1>9 DEF e
    <2>2. ASSUME NEW n \in 1 .. N, n - 1 \in S PROVE n \in S
      <3>1. /\ upTo[n - 1] \in Y /\ n \in 0 .. N
            /\ ToSet(upTo[n - 1]) \subseteq ToSet(q) \cup ToSet(s)
        BY <1>0, <2>2
      <3> QED
        BY <1>0, <1>2, <1>10, <3>1
    <2> HIDE DEF S
    <2>3. 0 .. N \subseteq S
      BY <1>0, <2>1, <2>2, Upwards
    <2> QED
      BY <2>3 DEF S
  <1>12. N \in 0 .. N
    BY <1>0
  <1> QED
    BY <1>1, <1>11, <1>12 DEF Y

\* What a drain hands to a Turn: inputs that were queued, each once, and at
\* least one if any was queued.
LEMMA DrainedInputs ==
  ASSUME NEW q \in Seq(Inputs)
  PROVE  LET d == Retained(Distinct(q))
         IN  /\ d \in Seq(Inputs) /\ ToSet(d) \subseteq ToSet(q)
             /\ IsInjective(d)
             /\ q # <<>> => d # <<>>
  <1> DEFINE K == {i \in DOMAIN q : \A j \in 1 .. (i - 1) : q[j] # q[i]}
             s == Distinct(q)
             n == Len(s)
             d == Retained(s)
  <1>1. s = Pick(q, K)
    BY DEF Distinct
  <1>2. s \in Seq(Inputs) /\ ToSet(s) \subseteq ToSet(q)
    <2> HIDE DEF K
    <2> QED
      BY <1>1, PickedSet
  <1>3. \A j, k \in DOMAIN s : j < k => s[j] # s[k]
    <2>1. \A j, k \in DOMAIN q : j \in K /\ k \in K /\ j < k => q[j] # q[k]
      BY DEF K
    <2> HIDE DEF K
    <2> QED
      BY <1>1, <2>1, PickDistinct
  <1>4. q # <<>> => s # <<>>
    <2> SUFFICES ASSUME q # <<>> PROVE s # <<>>
      OBVIOUS
    <2>1. 1 \in DOMAIN q /\ 1 \in K
      <3>1. 1 \in DOMAIN q /\ 1 .. (1 - 1) = {}
        OBVIOUS
      <3> QED
        BY <3>1
    <2> HIDE DEF K, s
    <2>2. q[1] \in ToSet(s)
      BY <1>1, <2>1, PickedSet
    <2> QED
      BY <1>2, <2>2, ContainsIsIn
  <1> HIDE DEF K, s
  <1>5. n \in Nat /\ DOMAIN s = 1 .. n
    BY <1>2
  <1> HIDE DEF n
  <1>6. PICK R : R = {i \in DOMAIN s : i \in Trimmable(s) =>
                        Cardinality({j \in Trimmable(s) : j > i})
                          < InputLimit - Cardinality(DOMAIN s \ Trimmable(s))}
    OBVIOUS
  <1>7. d = s \/ d = Pick(s, R)
    BY <1>6 DEF Retained
  <1>8. d \in Seq(Inputs) /\ ToSet(d) \subseteq ToSet(s)
    BY <1>2, <1>7, PickedSet
  <1>9. \A j, k \in DOMAIN d : j < k => d[j] # d[k]
    <2>1. \A j, k \in DOMAIN Pick(s, R) : j < k => Pick(s, R)[j] # Pick(s, R)[k]
      BY <1>2, <1>3, PickDistinct
    <2> QED
      BY <1>3, <1>7, <2>1
  <1>10. s # <<>> => d # <<>>
    <2> SUFFICES ASSUME s # <<>>, d = Pick(s, R) PROVE d # <<>>
      BY <1>7
    <2>1. \E i \in DOMAIN s : i \in R
      <3>1. CASE \E i \in DOMAIN s : i \notin Trimmable(s)
        BY <1>6, <3>1
      <3>2. CASE \A i \in DOMAIN s : i \in Trimmable(s)
        <4>1. DOMAIN s \ Trimmable(s) = {}
          BY <3>2
        <4>2. n \in DOMAIN s
          BY <1>2, <1>5 DEF n
        <4>3. {j \in Trimmable(s) : j > n} = {}
          BY <1>5 DEF Trimmable
        <4>4. Cardinality({}) = 0
          BY FS_EmptySet
        <4>5. 0 < InputLimit - 0
          BY LimitsAssumption
        <4> QED
          BY <1>6, <4>1, <4>2, <4>3, <4>4, <4>5
      <3> QED
        BY <3>1, <3>2
    <2>2. ToSet(d) # {}
      BY <1>2, <2>1, PickedSet
    <2> QED
      BY <1>8, <2>2, ContainsIsIn
  <1> HIDE DEF d
  <1>11. IsInjective(d)
    <2>1. DOMAIN d = 1 .. Len(d) /\ Len(d) \in Nat
      BY <1>8
    <2>2. \A j, k \in DOMAIN d : j < k \/ k < j \/ j = k
      BY <2>1
    <2> QED
      BY <1>9, <2>2 DEF IsInjective
  <1> QED
    BY <1>2, <1>4, <1>8, <1>10, <1>11 DEF d, s

-----------------------------------------------------------------------------
(* Types                                                                    *)

LEMMA Members ==
  /\ Approvals \subseteq Opening /\ Presses \subseteq Opening /\ Opening \subseteq Deliveries
  /\ Handoffs \subseteq Deliveries /\ Deliveries \subseteq Turns /\ Chats \subseteq Turns
  /\ Deliveries \subseteq Inputs /\ Tasks \subseteq Inputs
  /\ \A t \in Turns : Yielded(t) \in Inputs
  BY DEF Opening, Deliveries, Turns, Inputs

\* The type invariant by the groups of variables that change together.
QueueTypes ==
  /\ queue \in Seq(Inputs) /\ marked \subseteq Handoffs
  /\ receipt \in [Turns -> Seq(Inputs)]
  /\ owed \subseteq Inputs /\ forgiven \subseteq Inputs /\ astray \subseteq Inputs
RunTypes ==
  /\ status \in [Turns -> {"none", "running", "completed", "failed", "cancelled"}]
  /\ stop \in [Turns -> BOOLEAN] /\ journal \in [Turns -> {"quiet", "intent", "sent"}]
  /\ carried \in [Turns -> SUBSET Inputs]
  /\ active \in Turns \cup {None}
  /\ pendingUser \in Seq(Turns) /\ pendingAgent \in Seq(Turns)
StepTypes == step \in {"none", "mount", "send", "loop"} /\ resumed \in BOOLEAN
CallTypes == call \in [Opening -> {"none", "dispatch", "check", "admit"}]
HandoffTypes ==
  judging \in Seq(Handoffs) /\ current \in BOOLEAN /\ opening \in Handoffs \cup {None}
DecisionTypes ==
  /\ decision \in [Approvals -> {"none", "pending", "approved", "denied", "expired"}]
  /\ dispatched \in [Approvals -> Nat]
CountTypes == waived \subseteq Inputs /\ faults \in Nat

LEMMA TypeParts ==
  /\ TypeOK <=> /\ QueueTypes /\ RunTypes /\ StepTypes /\ CallTypes /\ HandoffTypes
                /\ DecisionTypes /\ CountTypes
  /\ TypeOK' <=> /\ QueueTypes' /\ RunTypes' /\ StepTypes' /\ CallTypes' /\ HandoffTypes'
                 /\ DecisionTypes' /\ CountTypes'
  BY DEF TypeOK, QueueTypes, RunTypes, StepTypes, CallTypes, HandoffTypes, DecisionTypes,
         CountTypes

\* What a step leaves alone keeps its type.
LEMMA TypesKept ==
  /\ QueueTypes /\ UNCHANGED inputs => QueueTypes'
  /\ RunTypes /\ UNCHANGED runs => RunTypes'
  /\ StepTypes /\ UNCHANGED <<step, resumed>> => StepTypes'
  /\ CallTypes /\ UNCHANGED call => CallTypes'
  /\ HandoffTypes /\ UNCHANGED handoffs => HandoffTypes'
  /\ DecisionTypes /\ UNCHANGED <<decision, dispatched>> => DecisionTypes'
  /\ CountTypes /\ UNCHANGED <<waived, faults>> => CountTypes'
  BY DEF QueueTypes, RunTypes, StepTypes, CallTypes, HandoffTypes, DecisionTypes, CountTypes,
         inputs, runs, handoffs

LEMMA FaultCounts ==
  ASSUME faults \in Nat, Fault \/ UNCHANGED faults
  PROVE  faults' \in Nat
  BY DEF Fault

LEMMA QueuesTypes ==
  ASSUME QueueTypes, NEW q \in Seq(Inputs), NEW put \in SUBSET Inputs, Queues(q, put)
  PROVE  QueueTypes'
  <1>1. ToSet(queue) \subseteq Inputs
    BY ContainsIsIn DEF QueueTypes
  <1> QED
    BY <1>1 DEF QueueTypes, Queues

LEMMA AcceptTypes ==
  ASSUME RunTypes, StepTypes, NEW t \in Turns, NEW lane \in {"user", "agent"}, Accept(t, lane)
  PROVE  RunTypes' /\ StepTypes'
  <1>1. /\ status' \in [Turns -> {"none", "running", "completed", "failed", "cancelled"}]
        /\ UNCHANGED <<stop, journal, carried>>
    BY DEF Accept, RunTypes
  <1>2. active' \in Turns \cup {None} /\ StepTypes'
    BY DEF Accept, RunTypes, StepTypes, Starts, Waits
  <1>3. pendingUser' \in Seq(Turns) /\ pendingAgent' \in Seq(Turns)
    <2>1. Append(pendingUser, t) \in Seq(Turns) /\ Append(pendingAgent, t) \in Seq(Turns)
      BY AppendedSet DEF RunTypes
    <2>2. /\ pendingUser' \in {pendingUser, Append(pendingUser, t)}
          /\ pendingAgent' \in {pendingAgent, Append(pendingAgent, t)}
      BY DEF Accept
    <2> QED
      BY <2>1, <2>2 DEF RunTypes
  <1> QED
    BY <1>1, <1>2, <1>3 DEF RunTypes

LEMMA SettleTypes ==
  ASSUME RunTypes, StepTypes, NEW t \in Turns, NEW o \in {"completed", "failed"},
         Settles(t, o), Gone, UNCHANGED <<stop, journal, carried, pendingUser, pendingAgent>>
  PROVE  RunTypes' /\ StepTypes'
  <1>1. status' \in [Turns -> {"none", "running", "completed", "failed", "cancelled"}]
    BY DEF Settles, RunTypes
  <1>2. active' \in Turns \cup {None} /\ StepTypes'
    BY DEF Gone, StepTypes
  <1> QED
    BY <1>1, <1>2 DEF RunTypes

LEMMA DrainTypes ==
  ASSUME QueueTypes, NEW t \in Turns, DrainInto(t)
  PROVE  QueueTypes' /\ current' \in {current, FALSE}
  <1>1. CASE receipt[t] # <<>> \/ queue = <<>>
    BY <1>1, TypesKept DEF DrainInto
  <1>2. CASE ~(receipt[t] # <<>> \/ queue = <<>>)
    <2>1. PICK d : d = Retained(Distinct(queue))
      OBVIOUS
    <2>2. d \in Seq(Inputs) /\ ToSet(d) \subseteq ToSet(queue) /\ ToSet(queue) \subseteq Inputs
      BY <2>1, DrainedInputs, ContainsIsIn DEF QueueTypes
    <2>3. queue' = <<>> /\ current' = FALSE /\ UNCHANGED <<marked, owed>>
      BY <1>2 DEF DrainInto
    <2>4. forgiven' = forgiven \cup (ToSet(queue) \ ToSet(d)) /\ astray' \subseteq astray \cup ToSet(d)
      BY <1>2, <2>1 DEF DrainInto
    <2>5. receipt' \in [Turns -> Seq(Inputs)]
      <3>1. Receipts(t, d)
        BY <1>2, <2>1 DEF DrainInto
      <3>2. PICK gone : receipt' = [o \in Turns |-> IF o = t THEN d
                                      ELSE IF o \in gone THEN <<>> ELSE receipt[o]]
        BY <3>1 DEF Receipts
      <3> QED
        BY <2>2, <3>2 DEF QueueTypes
    <2>6. queue' \in Seq(Inputs)
      BY <2>3
    <2>7. owed' \subseteq Inputs /\ forgiven' \subseteq Inputs /\ astray' \subseteq Inputs
      BY <2>2, <2>3, <2>4 DEF QueueTypes
    <2>8. marked' \subseteq Handoffs
      BY <2>3 DEF QueueTypes
    <2> QED
      BY <2>3, <2>5, <2>6, <2>7, <2>8 DEF QueueTypes
  <1> QED
    BY <1>1, <1>2

LEMMA FailsTypes ==
  ASSUME TypeOK, NEW t \in Turns, Fails(t), faults' \in Nat
  PROVE  TypeOK'
  <1>1. /\ receipt[t] \in Seq(Inputs) /\ GivesBack(t) \in Seq(Inputs)
        /\ ToSet(receipt[t]) \subseteq Inputs /\ ToSet(queue) \subseteq Inputs
        /\ ToSet(GivesBack(t)) \subseteq Inputs
    <2>1. receipt[t] \in Seq(Inputs) /\ GivesBack(t) \in Seq(Inputs) /\ queue \in Seq(Inputs)
      BY DEF TypeOK, GivesBack
    <2> QED
      BY <2>1, ContainsIsIn
  <1>2. QueueTypes'
    <2>1. RequeueUnseen(queue, GivesBack(t)) \in Seq(Inputs)
      BY <1>1, JoinedSet DEF RequeueUnseen, TypeOK
    <2>2. queue' \in Seq(Inputs)
      BY <2>1 DEF Fails, TypeOK
    <2> QED
      BY <1>1, <2>2 DEF Fails, TypeOK, QueueTypes
  <1>3. RunTypes' /\ StepTypes'
    BY TypeParts, SettleTypes DEF Fails
  <1>4. CallTypes' /\ HandoffTypes' /\ DecisionTypes'
    BY TypeParts, TypesKept DEF Fails
  <1>5. CountTypes'
    BY <1>1 DEF Fails, CountTypes, TypeOK
  <1> QED
    BY <1>2, <1>3, <1>4, <1>5, TypeParts

LEMMA TurnInputTypes == ASSUME TypeOK, TurnInput PROVE TypeOK'
  <1>1. active \in Turns
    BY DEF TurnInput, At, TypeOK
  <1>2. QueueTypes' /\ current' \in {current, FALSE}
    BY <1>1, DrainTypes, TypeParts DEF TurnInput
  <1>3. HandoffTypes'
    BY <1>2 DEF TurnInput, HandoffTypes, TypeOK
  <1>4. RunTypes' /\ StepTypes'
    <2>1. CASE NothingToSay(active)
      BY <1>1, <2>1, SettleTypes, TypeParts DEF TurnInput
    <2>2. CASE ~NothingToSay(active)
      BY <2>2, TypeParts DEF TurnInput, RunTypes, StepTypes
    <2> QED
      BY <2>1, <2>2
  <1>5. CallTypes' /\ DecisionTypes' /\ CountTypes'
    BY TypeParts, TypesKept DEF TurnInput
  <1> QED
    BY <1>2, <1>3, <1>4, <1>5, TypeParts

LEMMA SendTypes == ASSUME TypeOK, SendTurn \/ ModelCalled PROVE TypeOK'
  <1>1. active \in Turns /\ ToSet(receipt[active]) \subseteq Inputs
    <2>1. active \in Turns /\ receipt[active] \in Seq(Inputs)
      BY DEF SendTurn, ModelCalled, At, TypeOK
    <2> QED
      BY <2>1, ContainsIsIn
  <1>2. QueueTypes' /\ CallTypes' /\ HandoffTypes' /\ DecisionTypes' /\ CountTypes'
    BY TypeParts, TypesKept DEF SendTurn, ModelCalled, memory, handoffs
  <1>3. StepTypes'
    BY TypeParts DEF SendTurn, ModelCalled, StepTypes, memory
  <1>4. /\ journal' \in [Turns -> {"quiet", "intent", "sent"}]
        /\ carried' \in [Turns -> SUBSET Inputs]
    BY <1>1 DEF SendTurn, ModelCalled, TypeOK
  <1>5. RunTypes'
    BY <1>4, TypeParts DEF SendTurn, ModelCalled, RunTypes
  <1> QED
    BY <1>2, <1>3, <1>5, TypeParts

LEMMA CompletesTypes == ASSUME TypeOK, TurnCompletes \/ TurnYields PROVE TypeOK'
  <1>1. active \in Turns /\ ToSet(receipt[active]) \subseteq Inputs
    <2>1. active \in Turns /\ receipt[active] \in Seq(Inputs)
      BY DEF TurnCompletes, TurnYields, At, TypeOK
    <2> QED
      BY <2>1, ContainsIsIn
  <1>2. CallTypes' /\ HandoffTypes' /\ CountTypes'
    BY TypeParts, TypesKept DEF TurnCompletes, TurnYields
  <1>3. RunTypes' /\ StepTypes'
    BY <1>1, TypeParts, SettleTypes DEF TurnCompletes, TurnYields
  <1>4. DecisionTypes'
    BY DEF TurnCompletes, TurnYields, DecisionTypes, TypeOK
  <1>5. QueueTypes'
    <2>1. CASE TurnCompletes
      BY <1>1, <2>1 DEF TurnCompletes, QueueTypes, TypeOK
    <2>2. CASE TurnYields
      <3>1. Yielded(active) \in Inputs /\ <<Yielded(active)>> \in Seq(Inputs)
        BY <1>1, Members
      <3>2. RequeueUnseen(queue, <<Yielded(active)>>) \in Seq(Inputs)
        BY <3>1, JoinedSet DEF RequeueUnseen, TypeOK
      <3> QED
        BY <2>2, <3>1, <3>2, QueuesTypes, TypeParts DEF TurnYields
    <2> QED
      BY <2>1, <2>2
  <1> QED
    BY <1>2, <1>3, <1>4, <1>5, TypeParts

LEMMA RecoverTypes == ASSUME TypeOK, TurnDefers \/ Recover \/ TurnFails PROVE TypeOK'
  <1>1. active \in Turns /\ faults' \in Nat
    BY FaultCounts DEF TurnDefers, Recover, TurnFails, At, TypeOK, Fault
  <1>2. CASE Fails(active)
    BY <1>1, <1>2, FailsTypes
  <1>3. CASE ~Fails(active)
    <2>1. UNCHANGED <<decision, runs, inputs, call, handoffs, dispatched, waived>>
      BY <1>3 DEF TurnDefers, Recover, TurnFails
    <2>2. QueueTypes' /\ RunTypes' /\ CallTypes' /\ HandoffTypes' /\ DecisionTypes'
      BY <2>1, TypeParts, TypesKept
    <2>3. StepTypes'
      BY <1>3 DEF TurnDefers, Recover, TurnFails, StepTypes, TypeOK
    <2>4. CountTypes'
      BY <1>1, <2>1 DEF CountTypes, TypeOK
    <2> QED
      BY <2>2, <2>3, <2>4, TypeParts
  <1> QED
    BY <1>2, <1>3

LEMMA PromoteTypes == ASSUME TypeOK, Promote PROVE TypeOK'
  <1>1. QueueTypes' /\ CallTypes' /\ HandoffTypes' /\ DecisionTypes' /\ CountTypes'
    BY TypeParts, TypesKept DEF Promote
  <1>2. \A s \in Seq(Turns) : s # <<>> => Head(s) \in Turns /\ Tail(s) \in Seq(Turns)
    OBVIOUS
  <1>3. RunTypes' /\ StepTypes'
    BY <1>2, TypeParts DEF Promote, Starts, RunTypes, StepTypes
  <1> QED
    BY <1>1, <1>3, TypeParts

LEMMA TurnStepTypes == ASSUME TypeOK, TurnSteps PROVE TypeOK'
  BY TurnInputTypes, SendTypes, CompletesTypes, RecoverTypes, PromoteTypes DEF TurnSteps

LEMMA SettleApprovalTypes ==
  ASSUME TypeOK, NEW a \in Approvals, NEW d \in {"approved", "denied", "expired"},
         SettleApproval(a, d), UNCHANGED dispatched
  PROVE  QueueTypes' /\ DecisionTypes'
  <1>1. a \in Inputs
    BY Members
  <1>2. QueueTypes'
    <2>1. Enqueue(queue, a) \in Seq(Inputs) /\ {a} \in SUBSET Inputs
      BY <1>1, EnqueueSet DEF TypeOK
    <2> QED
      BY <2>1, QueuesTypes, TypeParts DEF SettleApproval
  <1> QED
    BY <1>2 DEF SettleApproval, DecisionTypes, TypeOK

LEMMA ApprovalStepTypes ==
  ASSUME TypeOK, NEW a \in Approvals,
         (\E d \in {"approved", "denied"} : Decide(a, d)) \/ Expire(a) \/ Dispatch(a)
  PROVE  TypeOK'
  <1>1. a \in Opening /\ a \in Inputs
    BY Members
  <1>2. RunTypes' /\ StepTypes' /\ HandoffTypes'
    BY TypeParts, TypesKept DEF Decide, Expire, Dispatch, memory
  <1>3. QueueTypes' /\ DecisionTypes'
    <2>1. CASE \E d \in {"approved", "denied"} : Decide(a, d)
      BY <2>1, SettleApprovalTypes DEF Decide
    <2>2. CASE Expire(a)
      BY <2>2, SettleApprovalTypes DEF Expire
    <2>3. CASE Dispatch(a)
      <3>1. UNCHANGED <<decision, inputs>>
        BY <2>3 DEF Dispatch
      <3>2. dispatched' \in [Approvals -> Nat]
        <4>1. /\ dispatched \in [Approvals -> Nat] /\ dispatched[a] + 1 \in Nat
              /\ \/ dispatched' = [dispatched EXCEPT ![a] = dispatched[a] + 1]
                 \/ dispatched' = dispatched
          BY <2>3 DEF Dispatch, TypeOK
        <4> QED
          BY <4>1
      <3> QED
        BY <3>1, <3>2, TypeParts, TypesKept DEF DecisionTypes
    <2> QED
      BY <2>1, <2>2, <2>3
  <1>4. CallTypes'
    BY <1>1 DEF Decide, Expire, Dispatch, memory, CallTypes, TypeOK
  <1>5. CountTypes'
    BY <1>1 DEF Decide, Expire, Dispatch, Fault, CountTypes, TypeOK
  <1> QED
    BY <1>2, <1>3, <1>4, <1>5, TypeParts

LEMMA OpeningStepTypes ==
  ASSUME TypeOK, NEW i \in Opening,
         (i \in Presses /\ Press(i)) \/ CheckWaiting(i) \/ OpenDelivery(i)
  PROVE  TypeOK'
  <1>1. i \in Inputs /\ i \in Turns
    BY Members
  <1>2. HandoffTypes' /\ DecisionTypes'
    BY TypeParts, TypesKept DEF Press, CheckWaiting, OpenDelivery
  <1>3. QueueTypes'
    <2>1. Enqueue(queue, i) \in Seq(Inputs) /\ {i} \in SUBSET Inputs
      BY <1>1, EnqueueSet DEF TypeOK
    <2> QED
      BY <2>1, QueuesTypes, TypeParts, TypesKept DEF Press, CheckWaiting, OpenDelivery
  <1>4. CallTypes'
    BY DEF Press, CheckWaiting, OpenDelivery, CallTypes, TypeOK
  <1>5. RunTypes' /\ StepTypes'
    BY <1>1, AcceptTypes, TypeParts, TypesKept DEF Press, CheckWaiting, OpenDelivery
  <1>6. CountTypes'
    BY <1>1 DEF Press, CheckWaiting, OpenDelivery, Fault, CountTypes, TypeOK
  <1> QED
    BY <1>2, <1>3, <1>4, <1>5, <1>6, TypeParts

LEMMA HandOffTypes ==
  ASSUME TypeOK, NEW w \in Handoffs \cup Tasks, HandOff(w) PROVE TypeOK'
  <1>1. w \in Inputs
    BY Members
  <1>2. Append(queue, w) \in Seq(Inputs) /\ Enqueue(queue, w) \in Seq(Inputs)
    BY <1>1, AppendedSet, EnqueueSet DEF TypeOK
  <1>3. QueueTypes'
    BY <1>1, <1>2, QueuesTypes, TypeParts DEF HandOff
  <1> QED
    BY <1>3, TypeParts, TypesKept DEF HandOff, memory

LEMMA ReadTypes == ASSUME TypeOK, ReadHandoffs PROVE TypeOK'
  <1> DEFINE K == {k \in DOMAIN queue : queue[k] \in OwedHandoffs}
             p == Pick(queue, K)
  <1>1. p \in Seq(Inputs) /\ \A i \in ToSet(p) : i \in Handoffs
    BY PickedSet DEF TypeOK, OwedHandoffs
  <1>2. judging' = p
    BY DEF ReadHandoffs
  <1> HIDE DEF p
  <1>3. p \in Seq(Handoffs)
    <2>1. \A k \in 1 .. Len(p) : p[k] \in Handoffs
      BY <1>1 DEF ToSet
    <2> QED
      BY <1>1, <2>1
  <1>4. HandoffTypes'
    BY <1>2, <1>3 DEF ReadHandoffs, HandoffTypes, TypeOK
  <1> QED
    BY <1>4, TypeParts, TypesKept DEF ReadHandoffs

LEMMA DeliverTypes == ASSUME TypeOK, DeliverHandoffs PROVE TypeOK'
  <1>1. PICK T, told, dismissed :
          /\ told = Pick(judging, T)
          /\ dismissed = IF current THEN ToSet(judging) \ ToSet(told) ELSE {}
          /\ queue' = Pick(queue, {k \in DOMAIN queue : queue[k] \notin dismissed})
          /\ marked' = IF current THEN marked \cup ToSet(told) ELSE marked
          /\ forgiven' = forgiven \cup dismissed
          /\ opening' = IF told = <<>> THEN None ELSE Last(told)
    BY DEF DeliverHandoffs
  <1>2. told \in Seq(Handoffs) /\ ToSet(told) \subseteq Handoffs /\ ToSet(judging) \subseteq Handoffs
    <2>1. told \in Seq(Handoffs)
      BY <1>1, PickedSet DEF TypeOK
    <2> QED
      BY <2>1, ContainsIsIn DEF TypeOK
  <1>3. queue' \in Seq(Inputs)
    BY <1>1, PickedSet DEF TypeOK
  <1>4. dismissed \subseteq Inputs
    BY <1>1, <1>2, Members
  <1>5. QueueTypes'
    BY <1>1, <1>2, <1>3, <1>4 DEF QueueTypes, TypeOK, DeliverHandoffs
  <1>6. opening' \in Handoffs \cup {None}
    BY <1>1, <1>2 DEF Last
  <1>7. HandoffTypes'
    <2>1. <<>> \in Seq(Handoffs)
      OBVIOUS
    <2> QED
      BY <1>6, <2>1 DEF DeliverHandoffs, HandoffTypes
  <1> QED
    BY <1>5, <1>7, TypeParts, TypesKept DEF DeliverHandoffs

LEMMA AdmitTypes ==
  ASSUME TypeOK, OpenHandoff \/ \E c \in Chats : Chat(c) PROVE TypeOK'
  <1>1. QueueTypes' /\ CallTypes' /\ DecisionTypes'
    BY TypeParts, TypesKept DEF OpenHandoff, Chat
  <1>2. HandoffTypes' /\ CountTypes'
    BY DEF OpenHandoff, Chat, Fault, HandoffTypes, CountTypes, TypeOK, handoffs
  <1>3. (opening # None => opening \in Turns) /\ \A c \in Chats : c \in Turns
    BY Members DEF TypeOK
  <1>4. RunTypes' /\ StepTypes'
    BY <1>3, AcceptTypes, TypeParts, TypesKept DEF OpenHandoff, Chat
  <1> QED
    BY <1>1, <1>2, <1>4, TypeParts

LEMMA StopTypes == ASSUME TypeOK, NEW t \in Turns, Stop(t) PROVE TypeOK'
  <1>1. receipt[t] \in Seq(Inputs) /\ GivesBack(t) \in Seq(Inputs) /\ queue \in Seq(Inputs)
    BY DEF TypeOK, GivesBack
  <1>2. ToSet(receipt[t]) \subseteq Inputs /\ ToSet(GivesBack(t)) \subseteq Inputs
    BY <1>1, ContainsIsIn
  <1>3. QueueTypes'
    BY <1>1, <1>2, RequeueSet, QueuesTypes, TypeParts, TypesKept DEF Stop
  <1>4. RunTypes'
    BY DEF Stop, RunTypes, TypeOK
  <1>5. CountTypes'
    BY <1>2 DEF Stop, CountTypes, Fault, TypeOK
  <1> QED
    BY <1>3, <1>4, <1>5, TypeParts, TypesKept DEF Stop, memory

LEMMA EvictTypes == ASSUME TypeOK, Evict PROVE TypeOK'
  <1>1. QueueTypes' /\ RunTypes' /\ DecisionTypes'
    BY TypeParts, TypesKept DEF Evict
  <1>2. StepTypes' /\ CallTypes'
    BY DEF Evict, StepTypes, CallTypes
  <1>3. HandoffTypes'
    <2>1. <<>> \in Seq(Handoffs)
      OBVIOUS
    <2> QED
      BY <2>1 DEF Evict, HandoffTypes
  <1>4. CountTypes'
    BY Members DEF Evict, CountTypes, Fault, TypeOK
  <1> QED
    BY <1>1, <1>2, <1>3, <1>4, TypeParts

LEMMA TypeStep == TypeOK /\ [Next]_vars => TypeOK'
  <1> SUFFICES ASSUME TypeOK, [Next]_vars PROVE TypeOK'
    OBVIOUS
  <1>1. CASE UNCHANGED vars
    BY <1>1, TypeParts, TypesKept DEF vars, memory
  <1>2. CASE TurnSteps
    BY <1>2, TurnStepTypes
  <1>3. CASE Producers
    BY <1>3, ApprovalStepTypes, OpeningStepTypes, HandOffTypes, ReadTypes, DeliverTypes,
       AdmitTypes, Members DEF Producers
  <1>4. CASE Evict \/ (\E c \in Chats : Chat(c)) \/ \E t \in Turns : Stop(t)
    BY <1>4, EvictTypes, AdmitTypes, StopTypes
  <1> QED
    BY <1>1, <1>2, <1>3, <1>4 DEF Next

\* Every variable keeps the shape of the records and locals it stands for.
THEOREM TypesHold == Spec => []TypeOK
  <1>1. Init => TypeOK
    <2>1. <<>> \in Seq(Inputs) /\ <<>> \in Seq(Turns) /\ <<>> \in Seq(Handoffs)
      OBVIOUS
    <2>2. Init => QueueTypes
      BY <2>1 DEF Init, QueueTypes
    <2>3. Init => RunTypes
      BY <2>1 DEF Init, RunTypes
    <2>4. Init => HandoffTypes
      BY <2>1 DEF Init, HandoffTypes
    <2>5. Init => StepTypes
      BY DEF Init, StepTypes
    <2>8. Init => CallTypes
      BY DEF Init, CallTypes
    <2>6. Init => DecisionTypes
      BY DEF Init, DecisionTypes
    <2>7. Init => CountTypes
      BY DEF Init, CountTypes
    <2> QED
      BY <2>2, <2>3, <2>4, <2>5, <2>6, <2>7, <2>8, TypeParts
  <1> QED
    BY <1>1, TypeStep, PTL DEF Spec

-----------------------------------------------------------------------------
(* The runs                                                                 *)

\* A lane without its head, and with one more at its end.
LEMMA LaneWithoutHead ==
  ASSUME NEW X, NEW s \in Seq(X), s # <<>>, IsInjective(s)
  PROVE  /\ IsInjective(Tail(s)) /\ Tail(s) \in Seq(X)
         /\ Head(s) \in ToSet(s) /\ ToSet(Tail(s)) = ToSet(s) \ {Head(s)}
  <1> DEFINE n == Len(s)
             r == Tail(s)
  <1>1. /\ n \in Nat /\ n >= 1 /\ DOMAIN s = 1 .. n /\ r \in Seq(X) /\ DOMAIN r = 1 .. n - 1
        /\ Head(s) = s[1] /\ \A k \in 1 .. n - 1 : r[k] = s[k + 1]
    OBVIOUS
  <1> HIDE DEF n, r
  <1>2. \A k \in 1 .. n - 1 : k + 1 \in 1 .. n /\ k + 1 # 1
    BY <1>1
  <1>3. 1 \in 1 .. n /\ \A k \in 1 .. n : k = 1 \/ (k - 1 \in 1 .. n - 1 /\ k = (k - 1) + 1)
    BY <1>1
  <1>4. IsInjective(r)
    <2>1. ASSUME NEW j \in 1 .. n - 1, NEW k \in 1 .. n - 1, r[j] = r[k] PROVE j = k
      <3>1. s[j + 1] = s[k + 1] /\ j + 1 \in 1 .. n /\ k + 1 \in 1 .. n
        BY <1>1, <1>2, <2>1
      <3>2. j + 1 = k + 1
        BY <1>1, <3>1 DEF IsInjective
      <3> QED
        BY <3>2
    <2> QED
      BY <1>1, <2>1 DEF IsInjective
  <1>5. ToSet(r) \subseteq ToSet(s) \ {s[1]}
    BY <1>1, <1>2, <1>3 DEF ToSet, IsInjective
  <1>6. ToSet(s) \ {s[1]} \subseteq ToSet(r)
    <2>1. ASSUME NEW k \in 1 .. n, s[k] # s[1] PROVE s[k] \in ToSet(r)
      <3>1. k - 1 \in 1 .. n - 1 /\ k = (k - 1) + 1
        BY <1>3, <2>1
      <3>2. r[k - 1] = s[k]
        BY <1>1, <3>1
      <3> QED
        BY <1>1, <3>1, <3>2 DEF ToSet
    <2> QED
      BY <1>1, <2>1 DEF ToSet
  <1> QED
    BY <1>1, <1>3, <1>4, <1>5, <1>6 DEF r, ToSet

LEMMA LaneWithOneMore ==
  ASSUME NEW X, NEW s \in Seq(X), NEW x \in X, IsInjective(s), x \notin ToSet(s)
  PROVE  IsInjective(Append(s, x))
  <1> DEFINE n == Len(s)
             r == Append(s, x)
  <1>1. /\ n \in Nat /\ DOMAIN s = 1 .. n /\ DOMAIN r = 1 .. n + 1
        /\ r[n + 1] = x /\ \A k \in 1 .. n : r[k] = s[k]
    OBVIOUS
  <1> HIDE DEF n, r
  <1>2. \A k \in 1 .. n + 1 : k \in 1 .. n \/ k = n + 1
    BY <1>1
  <1>3. \A k \in 1 .. n : s[k] # x
    BY <1>1 DEF ToSet
  <1>4. IsInjective(r)
    BY <1>1, <1>2, <1>3 DEF IsInjective
  <1> QED
    BY <1>4 DEF r

LEMMA RunsKept ==
  ASSUME RunsInv, UNCHANGED <<runs, receipt, step, resumed>>
  PROVE  RunsInv'
  BY DEF RunsInv, OneLane, Waiting, Fresh, runs

LEMMA AcceptRuns ==
  ASSUME TypeOK, RunsInv, NEW t \in Turns, NEW lane \in {"user", "agent"}, Accept(t, lane),
         UNCHANGED receipt
  PROVE  RunsInv'
  <1>1. CASE status[t] # "none"
    BY <1>1, RunsKept DEF Accept, Waits, runs
  <1>2. CASE status[t] = "none"
    <2>1. Fresh(t) /\ t # active /\ ~Waiting(t)
      BY <1>2, DistinctAssumption DEF RunsInv
    <2>2. /\ status'[t] = "running" /\ \A u \in Turns : u # t => status'[u] = status[u]
          /\ UNCHANGED <<stop, journal, carried, receipt>>
      BY <1>2 DEF Accept, TypeOK
    <2>3. \A u \in Turns : Fresh(u)' <=> Fresh(u)
      BY <2>2 DEF Fresh
    <2>4. /\ pendingUser \in Seq(Turns) /\ pendingAgent \in Seq(Turns)
          /\ t \notin ToSet(pendingUser) /\ t \notin ToSet(pendingAgent)
      BY <2>1 DEF TypeOK, Waiting
    <2>5. CASE active' = t
      <3>1. active = None /\ step' = "mount" /\ resumed' = FALSE /\ UNCHANGED <<pendingUser, pendingAgent>>
        BY <1>2, <2>1, <2>5 DEF Accept, Starts, Waits
      <3>2. OneLane' /\ \A u \in Turns : Waiting(u)' <=> Waiting(u)
        BY <3>1 DEF OneLane, Waiting, RunsInv
      <3>3. None \notin Turns
        BY DistinctAssumption
      <3>4. \A u \in Turns :
              /\ Waiting(u)' => status'[u] = "running" /\ Fresh(u)' /\ u # active'
              /\ status'[u] = "running" => u = active' \/ Waiting(u)'
              /\ status'[u] = "none" => Fresh(u)' /\ ~stop'[u]
        BY <2>1, <2>2, <2>3, <2>5, <3>1, <3>2, <3>3 DEF RunsInv
      <3>5. carried'[t] \subseteq ToSet(receipt'[t]) /\ journal'[t] = "quiet"
        BY <2>1, <2>2 DEF Fresh
      <3> QED
        BY <2>2, <2>5, <3>1, <3>2, <3>4, <3>5 DEF RunsInv
    <2>6. CASE active' # t
      <3>1. /\ UNCHANGED <<active, step, resumed>>
            /\ \/ pendingAgent' = Append(pendingAgent, t) /\ UNCHANGED pendingUser
               \/ pendingUser' = Append(pendingUser, t) /\ UNCHANGED pendingAgent
        BY <1>2, <2>6 DEF Accept, Starts, Waits
      <3>2. /\ ToSet(Append(pendingUser, t)) = ToSet(pendingUser) \cup {t}
            /\ ToSet(Append(pendingAgent, t)) = ToSet(pendingAgent) \cup {t}
            /\ IsInjective(Append(pendingUser, t)) /\ IsInjective(Append(pendingAgent, t))
        BY <2>4, AppendedSet, LaneWithOneMore DEF RunsInv, OneLane
      <3>3. OneLane' /\ \A u \in Turns : Waiting(u)' <=> Waiting(u) \/ u = t
        BY <2>4, <3>1, <3>2 DEF OneLane, Waiting, RunsInv
      <3>4. \A u \in Turns :
              /\ Waiting(u)' => status'[u] = "running" /\ Fresh(u)' /\ u # active'
              /\ status'[u] = "running" => u = active' \/ Waiting(u)'
              /\ status'[u] = "none" => Fresh(u)' /\ ~stop'[u]
        BY <2>1, <2>2, <2>3, <3>1, <3>3 DEF RunsInv
      <3>5. active' # None =>
              /\ status'[active'] = "running"
              /\ carried'[active'] \subseteq ToSet(receipt'[active'])
              /\ step' \in {"mount", "send"} => (resumed' <=> journal'[active'] # "quiet")
              /\ step' = "loop" => journal'[active'] # "quiet"
        BY <2>1, <2>2, <3>1 DEF RunsInv, TypeOK
      <3> QED
        BY <3>3, <3>4, <3>5 DEF RunsInv
    <2> QED
      BY <2>5, <2>6
  <1> QED
    BY <1>1, <1>2

LEMMA PromoteRuns == ASSUME TypeOK, RunsInv, Promote PROVE RunsInv'
  <1>1. PICK t : /\ active' = t /\ step' = "mount" /\ resumed' = FALSE
                 /\ \/ /\ pendingUser # <<>> /\ t = Head(pendingUser)
                       /\ pendingUser' = Tail(pendingUser) /\ UNCHANGED pendingAgent
                    \/ /\ pendingAgent # <<>> /\ t = Head(pendingAgent)
                       /\ pendingAgent' = Tail(pendingAgent) /\ UNCHANGED pendingUser
    BY DEF Promote, Starts
  <1>2. active = None /\ UNCHANGED <<status, stop, journal, carried, receipt>>
    BY DEF Promote, inputs
  <1>3. pendingUser \in Seq(Turns) /\ pendingAgent \in Seq(Turns) /\ OneLane
    BY DEF TypeOK, RunsInv
  <1>4. /\ OneLane' /\ Waiting(t) /\ t \in Turns
        /\ \A u \in Turns : Waiting(u)' <=> Waiting(u) /\ u # t
    <2>1. CASE pendingUser # <<>> /\ t = Head(pendingUser)
               /\ pendingUser' = Tail(pendingUser) /\ UNCHANGED pendingAgent
      <3>1. /\ IsInjective(pendingUser') /\ t \in ToSet(pendingUser)
            /\ ToSet(pendingUser') = ToSet(pendingUser) \ {t} /\ ToSet(pendingUser) \subseteq Turns
        BY <1>3, <2>1, LaneWithoutHead, ContainsIsIn DEF OneLane
      <3> QED
        BY <1>3, <2>1, <3>1 DEF OneLane, Waiting
    <2>2. CASE pendingAgent # <<>> /\ t = Head(pendingAgent)
               /\ pendingAgent' = Tail(pendingAgent) /\ UNCHANGED pendingUser
      <3>1. /\ IsInjective(pendingAgent') /\ t \in ToSet(pendingAgent)
            /\ ToSet(pendingAgent') = ToSet(pendingAgent) \ {t} /\ ToSet(pendingAgent) \subseteq Turns
        BY <1>3, <2>2, LaneWithoutHead, ContainsIsIn DEF OneLane
      <3> QED
        BY <1>3, <2>2, <3>1 DEF OneLane, Waiting
    <2> QED
      BY <1>1, <2>1, <2>2
  <1>5. \A u \in Turns : Fresh(u)' <=> Fresh(u)
    BY <1>2 DEF Fresh
  <1>6. \A u \in Turns :
          /\ Waiting(u)' => status'[u] = "running" /\ Fresh(u)' /\ u # active'
          /\ status'[u] = "running" => u = active' \/ Waiting(u)'
          /\ status'[u] = "none" => Fresh(u)' /\ ~stop'[u]
    BY <1>1, <1>2, <1>4, <1>5, DistinctAssumption DEF RunsInv
  <1>7. status'[t] = "running" /\ carried'[t] \subseteq ToSet(receipt'[t]) /\ journal'[t] = "quiet"
    BY <1>2, <1>4 DEF RunsInv, Fresh
  <1> QED
    BY <1>1, <1>4, <1>6, <1>7 DEF RunsInv

\* What drainInto does when there is something to drain.
Drains(t) ==
  /\ receipt[t] = <<>> /\ queue # <<>> /\ queue' = <<>>
  /\ receipt'[t] # <<>> /\ IsInjective(receipt'[t]) /\ ToSet(receipt'[t]) \subseteq ToSet(queue)
  /\ \A u \in Turns : u # t => receipt'[u] \in {receipt[u], <<>>}
  /\ forgiven' = forgiven \cup (ToSet(queue) \ ToSet(receipt'[t]))
  /\ astray' = IF resumed \/ stop[t] THEN astray \cup ToSet(receipt'[t]) ELSE astray
  /\ UNCHANGED <<marked, owed>>
LEMMA DrainEffect ==
  ASSUME TypeOK, NEW t \in Turns, DrainInto(t)
  PROVE  Drains(t) \/ ((receipt[t] # <<>> \/ queue = <<>>) /\ UNCHANGED inputs)
  <1>1. CASE receipt[t] # <<>> \/ queue = <<>>
    BY <1>1 DEF DrainInto
  <1>2. CASE ~(receipt[t] # <<>> \/ queue = <<>>)
    <2>1. PICK d : d = Retained(Distinct(queue))
      OBVIOUS
    <2>2. d \in Seq(Inputs) /\ ToSet(d) \subseteq ToSet(queue) /\ IsInjective(d) /\ d # <<>>
      BY <1>2, <2>1, DrainedInputs DEF TypeOK
    <2>3. Receipts(t, d)
      BY <1>2, <2>1 DEF DrainInto
    <2>4. PICK gone : receipt' = [o \in Turns |-> IF o = t THEN d
                                    ELSE IF o \in gone THEN <<>> ELSE receipt[o]]
      BY <2>3 DEF Receipts
    <2>5. receipt'[t] = d /\ \A u \in Turns : u # t => receipt'[u] \in {receipt[u], <<>>}
      BY <2>4
    <2>6. /\ queue' = <<>> /\ UNCHANGED <<marked, owed>>
          /\ forgiven' = forgiven \cup (ToSet(queue) \ ToSet(d))
          /\ astray' = IF resumed \/ stop[t] THEN astray \cup ToSet(d) ELSE astray
      BY <1>2, <2>1 DEF DrainInto
    <2> QED
      BY <1>2, <2>2, <2>5, <2>6 DEF Drains
  <1> QED
    BY <1>1, <1>2

\* A receipt other than the active Turn's is kept or given way.
OthersGiveWay == \A u \in Turns : u # active => receipt'[u] \in {receipt[u], <<>>}
LEMMA SettleRuns ==
  ASSUME TypeOK, RunsInv, active # None, NEW o \in {"completed", "failed"},
         Settles(active, o), Gone, OthersGiveWay,
         UNCHANGED <<stop, journal, carried, pendingUser, pendingAgent>>
  PROVE  RunsInv'
  <1>1. active \in Turns /\ active' = None
    BY DEF TypeOK, Gone
  <1>2. /\ status'[active] \in {"cancelled", "completed", "failed"}
        /\ \A u \in Turns : u # active => status'[u] = status[u]
    BY <1>1 DEF Settles, TypeOK
  <1>3. OneLane' /\ \A u \in Turns : Waiting(u)' <=> Waiting(u)
    BY DEF OneLane, Waiting, RunsInv
  <1>4. \A u \in Turns : u # active /\ Fresh(u) => Fresh(u)'
    BY DEF Fresh, OthersGiveWay
  <1>5. \A u \in Turns :
          /\ Waiting(u)' => status'[u] = "running" /\ Fresh(u)' /\ u # active'
          /\ status'[u] = "running" => u = active' \/ Waiting(u)'
          /\ status'[u] = "none" => Fresh(u)' /\ ~stop'[u]
    BY <1>1, <1>2, <1>3, <1>4, DistinctAssumption DEF RunsInv
  <1> QED
    BY <1>1, <1>3, <1>5 DEF RunsInv

\* The active Turn goes on: it keeps its place, and the lanes theirs.
LEMMA GoesOnRuns ==
  ASSUME TypeOK, RunsInv, OthersGiveWay,
         UNCHANGED <<status, active, pendingUser, pendingAgent>>,
         \A u \in Turns : u # active => /\ journal'[u] = journal[u] /\ carried'[u] = carried[u]
                                        /\ stop'[u] = stop[u] \/ status[u] # "none",
         active # None =>
           /\ carried'[active] \subseteq ToSet(receipt'[active])
           /\ step' \in {"mount", "send"} => (resumed' <=> journal'[active] # "quiet")
           /\ step' = "loop" => journal'[active] # "quiet"
  PROVE  RunsInv'
  <1>1. OneLane' /\ \A u \in Turns : Waiting(u)' <=> Waiting(u)
    BY DEF OneLane, Waiting, RunsInv
  <1>2. \A u \in Turns : u # active /\ Fresh(u) => Fresh(u)'
    BY DEF Fresh, OthersGiveWay
  <1>3. \A u \in Turns : u = active => status[u] = "running" /\ active # None
    BY DistinctAssumption DEF RunsInv
  <1>4. \A u \in Turns :
          /\ Waiting(u)' => status'[u] = "running" /\ Fresh(u)' /\ u # active'
          /\ status'[u] = "running" => u = active' \/ Waiting(u)'
          /\ status'[u] = "none" => Fresh(u)' /\ ~stop'[u]
    BY <1>1, <1>2, <1>3 DEF RunsInv
  <1> QED
    BY <1>1, <1>4 DEF RunsInv

LEMMA TurnInputRuns == ASSUME TypeOK, RunsInv, TurnInput PROVE RunsInv'
  <1>1. active \in Turns /\ active # None /\ step = "mount" /\ DrainInto(active)
    BY DEF TurnInput, At, TypeOK
  <1>2. OthersGiveWay /\ carried[active] \subseteq ToSet(receipt'[active])
    <2>1. CASE Drains(active)
      <3>1. ToSet(receipt[active]) = {}
        BY <2>1 DEF Drains, ToSet
      <3> QED
        BY <1>1, <2>1, <3>1 DEF Drains, OthersGiveWay, RunsInv
    <2>2. CASE UNCHANGED inputs
      BY <1>1, <2>2 DEF inputs, OthersGiveWay, RunsInv
    <2> QED
      BY <1>1, <2>1, <2>2, DrainEffect
  <1>3. CASE NothingToSay(active)
    BY <1>1, <1>2, <1>3, SettleRuns DEF TurnInput
  <1>4. CASE ~NothingToSay(active)
    <2>1. /\ step' = "send"
          /\ UNCHANGED <<status, active, resumed, stop, journal, carried, pendingUser, pendingAgent>>
      BY <1>4 DEF TurnInput
    <2>2. resumed' <=> journal'[active] # "quiet"
      BY <1>1, <2>1 DEF RunsInv
    <2> QED
      BY <1>2, <2>1, <2>2, GoesOnRuns
  <1> QED
    BY <1>3, <1>4

LEMMA SendRuns == ASSUME TypeOK, RunsInv, SendTurn \/ ModelCalled PROVE RunsInv'
  <1>1. active \in Turns /\ active # None
    BY DEF SendTurn, ModelCalled, At, TypeOK
  <1>2. /\ UNCHANGED <<status, stop, active, pendingUser, pendingAgent, receipt>>
        /\ step' = "loop"
    BY DEF SendTurn, ModelCalled, inputs, memory, At
  <1>3. /\ \A u \in Turns : u # active => journal'[u] = journal[u] /\ carried'[u] = carried[u]
        /\ carried'[active] \in {carried[active], ToSet(receipt[active])}
    BY <1>1 DEF SendTurn, ModelCalled, TypeOK
  <1>4. journal'[active] # "quiet"
    <2>1. CASE SendTurn /\ resumed
      BY <1>1, <2>1 DEF SendTurn, At, RunsInv
    <2>2. CASE (SendTurn /\ ~resumed) \/ ModelCalled
      BY <1>1, <2>2 DEF SendTurn, ModelCalled, TypeOK
    <2> QED
      BY <2>1, <2>2
  <1>5. OthersGiveWay /\ carried'[active] \subseteq ToSet(receipt'[active])
    BY <1>1, <1>2, <1>3 DEF OthersGiveWay, RunsInv
  <1> QED
    BY <1>2, <1>3, <1>4, <1>5, GoesOnRuns

LEMMA CompletesRuns == ASSUME TypeOK, RunsInv, TurnCompletes \/ TurnYields PROVE RunsInv'
  <1>1. active # None /\ Settles(active, "completed") /\ Gone
    BY DEF TurnCompletes, TurnYields, At
  <1>2. UNCHANGED <<receipt, stop, journal, carried, pendingUser, pendingAgent>>
    BY DEF TurnCompletes, TurnYields, Queues
  <1> QED
    BY <1>1, <1>2, SettleRuns DEF OthersGiveWay

LEMMA RecoverRuns == ASSUME TypeOK, RunsInv, TurnDefers \/ Recover \/ TurnFails PROVE RunsInv'
  <1>1. active \in Turns /\ active # None
    BY DEF TurnDefers, Recover, TurnFails, At, TypeOK
  <1>2. CASE Fails(active)
    BY <1>1, <1>2, SettleRuns DEF Fails, OthersGiveWay
  <1>3. CASE ~Fails(active)
    <2>1. /\ UNCHANGED <<runs, inputs>>
          /\ step' = "none" \/ (step' = "mount" /\ resumed' = (journal[active] # "quiet"))
      BY <1>3 DEF TurnDefers, Recover, TurnFails
    <2>2. /\ UNCHANGED <<status, stop, journal, carried, active, pendingUser, pendingAgent, receipt>>
          /\ OthersGiveWay
      BY <2>1 DEF runs, inputs, OthersGiveWay
    <2>3. /\ carried'[active] \subseteq ToSet(receipt'[active])
          /\ step' \in {"mount", "send"} => (resumed' <=> journal'[active] # "quiet")
          /\ step' # "loop"
      BY <1>1, <2>1, <2>2 DEF RunsInv
    <2> QED
      BY <2>2, <2>3, GoesOnRuns
  <1> QED
    BY <1>2, <1>3

LEMMA StopRuns == ASSUME TypeOK, RunsInv, NEW t \in Turns, Stop(t) PROVE RunsInv'
  <1>1. /\ status[t] = "running" /\ \A u \in Turns : u # t => stop'[u] = stop[u]
        /\ UNCHANGED <<status, journal, carried, active, pendingUser, pendingAgent, step, resumed,
                       receipt>>
    BY DEF Stop, Queues, inputs, memory, TypeOK
  <1>2. OthersGiveWay /\ \A u \in Turns : stop'[u] = stop[u] \/ status[u] # "none"
    BY <1>1 DEF OthersGiveWay
  <1>3. active # None =>
           /\ carried'[active] \subseteq ToSet(receipt'[active])
           /\ step' \in {"mount", "send"} => (resumed' <=> journal'[active] # "quiet")
           /\ step' = "loop" => journal'[active] # "quiet"
    BY <1>1 DEF RunsInv
  <1> QED
    BY <1>1, <1>2, <1>3, GoesOnRuns

LEMMA EvictRuns == ASSUME TypeOK, RunsInv, Evict PROVE RunsInv'
  <1>1. /\ UNCHANGED <<status, stop, journal, carried, active, pendingUser, pendingAgent, receipt>>
        /\ step' = "none"
    BY DEF Evict, runs, inputs
  <1>2. active # None => carried'[active] \subseteq ToSet(receipt'[active])
    BY <1>1 DEF RunsInv
  <1> QED
    BY <1>1, <1>2, GoesOnRuns DEF OthersGiveWay

\* A step that leaves the runs, the receipts and the active Turn alone.
RunsApart == UNCHANGED <<runs, receipt, step, resumed>>
LEMMA ProducersApart ==
  /\ \A a \in Approvals : Expire(a) \/ Dispatch(a) => RunsApart
  /\ \A a \in Approvals : \A d \in {"approved", "denied"} : Decide(a, d) => RunsApart
  /\ \A p \in Presses : Press(p) => RunsApart
  /\ \A i \in Opening : CheckWaiting(i) => RunsApart
  /\ \A w \in Handoffs \cup Tasks : HandOff(w) => RunsApart
  /\ ReadHandoffs \/ DeliverHandoffs => RunsApart
  BY DEF RunsApart, Expire, Dispatch, Decide, Press, CheckWaiting, HandOff, ReadHandoffs,
         DeliverHandoffs, SettleApproval, Queues, inputs, memory

\* A step that may admit a Turn, and does nothing else to runs and inputs.
Admission == (\E i \in Opening : OpenDelivery(i)) \/ OpenHandoff \/ \E c \in Chats : Chat(c)
LEMMA AdmissionAccepts ==
  ASSUME TypeOK, Admission
  PROVE  /\ UNCHANGED <<inputs, decision>>
         /\ \/ RunsApart
            \/ \E t \in Turns, lane \in {"user", "agent"} : Accept(t, lane)
  <1>1. UNCHANGED <<inputs, decision>>
    BY DEF Admission, OpenDelivery, OpenHandoff, Chat
  <1>2. (opening # None => opening \in Turns) /\ Opening \subseteq Turns /\ Chats \subseteq Turns
    BY Members DEF TypeOK
  <1>3. \/ UNCHANGED <<runs, step, resumed>>
        \/ \E t \in Turns, lane \in {"user", "agent"} : Accept(t, lane)
    BY <1>2 DEF Admission, OpenDelivery, OpenHandoff, Chat
  <1> QED
    BY <1>1, <1>3 DEF RunsApart, inputs

LEMMA AdmitRuns == ASSUME TypeOK, RunsInv, Admission PROVE RunsInv'
  BY AdmissionAccepts, AcceptRuns, RunsKept DEF RunsApart, inputs

LEMMA RunsStep == TypeOK /\ RunsInv /\ [Next]_vars => RunsInv'
  <1> SUFFICES ASSUME TypeOK, RunsInv, [Next]_vars PROVE RunsInv'
    OBVIOUS
  <1>1. CASE UNCHANGED vars
    BY <1>1, RunsKept DEF vars, memory, inputs
  <1>2. CASE TurnSteps
    BY <1>2, TurnInputRuns, SendRuns, CompletesRuns, RecoverRuns, PromoteRuns DEF TurnSteps
  <1>3. CASE RunsApart
    BY <1>3, RunsKept DEF RunsApart
  <1>4. CASE Producers
    BY <1>3, <1>4, ProducersApart, AdmitRuns DEF Producers, Admission
  <1>5. CASE Evict \/ (\E c \in Chats : Chat(c)) \/ \E t \in Turns : Stop(t)
    BY <1>5, EvictRuns, AdmitRuns, StopRuns DEF Admission
  <1> QED
    BY <1>1, <1>2, <1>4, <1>5 DEF Next

LEMMA RunsFirst == Init => RunsInv
  <1> SUFFICES ASSUME Init PROVE RunsInv
    OBVIOUS
  <1>1. ToSet(<<>>) = {} /\ IsInjective(<<>>)
    BY DEF ToSet, IsInjective
  <1> QED
    BY <1>1 DEF Init, RunsInv, OneLane, Waiting, Fresh

-----------------------------------------------------------------------------
(* No delivery Turn speaks from an empty hand                               *)

LEMMA SpeaksKept ==
  ASSUME SpeaksInv, UNCHANGED <<journal, carried>>,
         active' = None \/ step' # "send" \/ UNCHANGED <<active, step, receipt>>
  PROVE  SpeaksInv'
  BY DEF SpeaksInv, At

LEMMA TurnInputSpeaks == ASSUME TypeOK, SpeaksInv, TurnInput PROVE SpeaksInv'
  <1>1. active \in Turns /\ DrainInto(active) /\ UNCHANGED <<journal, carried>>
    BY DEF TurnInput, At, TypeOK
  <1>2. CASE NothingToSay(active)
    BY <1>1, <1>2, SpeaksKept DEF TurnInput, Gone
  <1>3. CASE ~NothingToSay(active)
    <2>1. UNCHANGED active
      BY <1>3 DEF TurnInput
    <2>2. active \in Deliveries => receipt'[active] # <<>>
      BY <1>1, <1>3, DrainEffect DEF NothingToSay, Drains, inputs
    <2> QED
      BY <1>1, <2>1, <2>2 DEF SpeaksInv, At
  <1> QED
    BY <1>2, <1>3

LEMMA SendSpeaks == ASSUME TypeOK, SpeaksInv, SendTurn \/ ModelCalled PROVE SpeaksInv'
  <1>1. active \in Turns /\ step' = "loop"
    BY DEF SendTurn, ModelCalled, At, TypeOK, memory
  <1>2. CASE UNCHANGED <<journal, carried>>
    BY <1>1, <1>2, SpeaksKept
  <1>3. CASE ModelCalled
    <2>1. /\ journal[active] = "intent" /\ UNCHANGED carried
          /\ \A u \in Turns : u # active => journal'[u] = journal[u]
      BY <1>1, <1>3 DEF ModelCalled, TypeOK
    <2> QED
      BY <1>1, <2>1, Members DEF SpeaksInv, At
  <1>4. CASE SendTurn /\ ~resumed
    <2>1. /\ At("send") /\ carried'[active] = ToSet(receipt[active])
          /\ \A u \in Turns : u # active => journal'[u] = journal[u] /\ carried'[u] = carried[u]
      BY <1>1, <1>4 DEF SendTurn, TypeOK
    <2>2. receipt[active] \in Seq(Inputs)
      BY <1>1 DEF TypeOK
    <2>3. active \in Deliveries => carried'[active] # {}
      BY <2>1, <2>2, ContainsIsIn DEF SpeaksInv
    <2> QED
      BY <1>1, <2>1, <2>3, Members DEF SpeaksInv, At
  <1> QED
    BY <1>2, <1>3, <1>4 DEF SendTurn

LEMMA AcceptSpeaks ==
  ASSUME SpeaksInv, NEW t \in Turns, NEW lane \in {"user", "agent"}, Accept(t, lane),
         UNCHANGED receipt
  PROVE  SpeaksInv'
  BY SpeaksKept DEF Accept, Starts, Waits

LEMMA SpeaksStep == TypeOK /\ SpeaksInv /\ [Next]_vars => SpeaksInv'
  <1> SUFFICES ASSUME TypeOK, SpeaksInv, [Next]_vars PROVE SpeaksInv'
    OBVIOUS
  <1>1. CASE UNCHANGED vars \/ RunsApart
    BY <1>1, SpeaksKept DEF vars, memory, inputs, runs, RunsApart
  <1>2. CASE TurnSteps
    <2>1. CASE TurnCompletes \/ TurnYields \/ TurnFails \/ Promote
      BY <2>1, SpeaksKept DEF TurnCompletes, TurnYields, TurnFails, Fails, Gone, Promote, Starts
    <2>2. CASE TurnDefers \/ Recover
      BY <2>2, SpeaksKept DEF TurnDefers, Recover, Fails, Gone, runs
    <2> QED
      BY <1>2, <2>1, <2>2, TurnInputSpeaks, SendSpeaks DEF TurnSteps
  <1>3. CASE Producers \/ \E c \in Chats : Chat(c)
    <2>1. CASE Admission
      BY <1>1, <2>1, AdmissionAccepts, AcceptSpeaks DEF inputs
    <2> QED
      BY <1>1, <1>3, <2>1, ProducersApart DEF Producers, Admission
  <1>4. CASE Evict \/ \E t \in Turns : Stop(t)
    BY <1>4, SpeaksKept DEF Evict, Stop, Queues, inputs, runs, memory
  <1> QED
    BY <1>1, <1>2, <1>3, <1>4 DEF Next

\* A delivery Turn never speaks from an empty hand: whatever was drained by
\* another Turn meanwhile, evicted or taken up again, it was given something.
THEOREM SpeaksOfSomething == Spec => []DeliversSomething
  <1>1. Init => SpeaksInv
    BY Members DEF Init, SpeaksInv, At
  <1>2. SpeaksInv => DeliversSomething
    BY DEF SpeaksInv, DeliversSomething
  <1> QED
    BY <1>1, <1>2, TypesHold, SpeaksStep, PTL DEF Spec

-----------------------------------------------------------------------------
(* Somebody comes for an answer or a press                                  *)

\* Nobody new is expected, or somebody comes, and who was to come still is.
LEMMA ComesKept ==
  ASSUME ComesInv, \A u \in Opening : Undrained(u) => Undrained(u)',
         \A i \in Opening : Expected(i)' => Expected(i) \/ \E t \in Opening : Undrained(t)'
  PROVE  ComesInv'
  BY DEF ComesInv

LEMMA ApartUndrained == RunsApart => \A u \in Turns : Undrained(u) => Undrained(u)'
  BY DEF RunsApart, runs, Undrained

LEMMA AcceptUndrained ==
  ASSUME TypeOK, NEW t \in Turns, NEW lane \in {"user", "agent"}, Accept(t, lane),
         UNCHANGED receipt, NEW u \in Turns, Undrained(u)
  PROVE  Undrained(u)'
  <1>1. status'[u] = "running" /\ receipt'[u] = <<>>
    BY DEF Accept, TypeOK, Undrained
  <1>2. u = active' => step' \in {"none", "mount"}
    BY DEF Accept, Starts, Waits, Undrained
  <1> QED
    BY <1>1, <1>2 DEF Undrained

\* What a producer queues, the call it made will see to.
LEMMA QueuesExpected ==
  ASSUME TypeOK, NEW i \in Inputs, NEW q, NEW j \in Opening, Queues(q, {i}), Expected(j)',
         q = Enqueue(queue, i) \/ q = Append(queue, i), UNCHANGED waived \/ waived' = waived \cup {i},
         j # i => call'[j] = call[j]
  PROVE  Expected(j) \/ j = i
  <1>1. queue' = q /\ ToSet(q) \subseteq ToSet(queue) \cup {i}
    <2>1. /\ ToSet(Enqueue(queue, i)) \subseteq ToSet(queue) \cup {i}
          /\ ToSet(Append(queue, i)) = ToSet(queue) \cup {i}
      BY EnqueueSet, AppendedSet DEF TypeOK
    <2> QED
      BY <2>1 DEF Queues
  <1> QED
    BY <1>1 DEF Expected

LEMMA ApprovalComes ==
  ASSUME TypeOK, ComesInv, NEW a \in Approvals,
         (\E d \in {"approved", "denied"} : Decide(a, d)) \/ Expire(a) \/ Dispatch(a)
  PROVE  ComesInv'
  <1>1. a \in Opening /\ a \in Inputs /\ Opening \subseteq Turns
    BY Members
  <1>2. \A u \in Opening : Undrained(u) => Undrained(u)'
    BY <1>1, ProducersApart, ApartUndrained
  <1>3. ASSUME NEW j \in Opening, Expected(j)' PROVE Expected(j)
    <2>1. CASE \E d \in {"approved", "denied"} : Decide(a, d)
      <3>1. /\ Queues(Enqueue(queue, a), {a}) /\ UNCHANGED waived
            /\ call'[a] # "none" /\ (j # a => call'[j] = call[j])
        BY <1>1, <2>1 DEF Decide, SettleApproval, TypeOK
      <3> QED
        BY <1>1, <1>3, <3>1, QueuesExpected DEF Expected
    <2>2. CASE Expire(a)
      <3>1. Queues(Enqueue(queue, a), {a}) /\ waived' = waived \cup {a} /\ UNCHANGED call
        BY <2>2 DEF Expire, SettleApproval, memory
      <3> QED
        BY <1>1, <1>3, <3>1, QueuesExpected DEF Expected
    <2>3. CASE Dispatch(a)
      <3>1. /\ UNCHANGED queue /\ (j # a => call'[j] = call[j])
            /\ \/ call'[a] = "check" /\ UNCHANGED waived
               \/ waived' = waived \cup {a}
        BY <1>1, <2>3 DEF Dispatch, TypeOK, inputs
      <3> QED
        BY <1>3, <3>1 DEF Expected
    <2> QED
      BY <2>1, <2>2, <2>3
  <1> QED
    BY <1>2, <1>3, ComesKept

LEMMA PressComes ==
  ASSUME TypeOK, ComesInv, NEW p \in Presses, Press(p) PROVE ComesInv'
  <1>1. p \in Opening /\ p \in Inputs /\ Opening \subseteq Turns
    BY Members
  <1>2. \A u \in Opening : Undrained(u) => Undrained(u)'
    BY <1>1, ProducersApart, ApartUndrained
  <1>3. ASSUME NEW j \in Opening, Expected(j)' PROVE Expected(j)
    <2>1. /\ Queues(Enqueue(queue, p), {p}) /\ UNCHANGED waived
          /\ call'[p] # "none" /\ (j # p => call'[j] = call[j])
      BY <1>1 DEF Press, TypeOK
    <2> QED
      BY <1>1, <1>3, <2>1, QueuesExpected DEF Expected
  <1> QED
    BY <1>2, <1>3, ComesKept

\* An input rides a delivery Turn only while that Turn waits.
LEMMA RiderComes ==
  ASSUME TypeOK, RunsInv, ComesInv, NEW i \in Opening, CheckWaiting(i) PROVE ComesInv'
  <1>1. \A u \in Opening : Undrained(u) => Undrained(u)'
    BY Members, ProducersApart, ApartUndrained
  <1>2. ASSUME NEW j \in Opening, Expected(j)', ~Expected(j) PROVE \E t \in Opening : Undrained(t)'
    <2>1. InputDeliveryWaiting
      BY <1>2 DEF CheckWaiting, TypeOK, Expected, inputs
    <2>2. PICK k \in DOMAIN pendingAgent : pendingAgent[k] \in Opening
      BY <2>1 DEF InputDeliveryWaiting
    <2>3. pendingAgent[k] \in Turns /\ Waiting(pendingAgent[k])
      BY <2>2, Members DEF Waiting, ToSet
    <2>4. Undrained(pendingAgent[k])
      BY <2>3 DEF RunsInv, Fresh, Undrained
    <2> QED
      BY <1>1, <2>2, <2>4
  <1> QED
    BY <1>1, <1>2, ComesKept

LEMMA HandoffComes ==
  ASSUME TypeOK, ComesInv,
         (\E w \in Handoffs \cup Tasks : HandOff(w)) \/ ReadHandoffs \/ DeliverHandoffs
  PROVE  ComesInv'
  <1>1. \A u \in Opening : Undrained(u) => Undrained(u)'
    BY Members, ProducersApart, ApartUndrained
  <1>2. ASSUME NEW j \in Opening, Expected(j)' PROVE Expected(j)
    <2>1. UNCHANGED <<call, waived>>
      BY DEF HandOff, ReadHandoffs, DeliverHandoffs, memory
    <2>2. CASE \E w \in Handoffs \cup Tasks : HandOff(w)
      <3>1. PICK w \in Handoffs \cup Tasks : HandOff(w)
        BY <2>2
      <3>2. w \in Inputs /\ j # w
        BY Members, DistinctAssumption
      <3> QED
        BY <1>2, <2>1, <3>1, <3>2, QueuesExpected DEF HandOff
    <2>3. CASE ReadHandoffs
      BY <1>2, <2>1, <2>3 DEF ReadHandoffs, inputs, Expected
    <2>4. CASE DeliverHandoffs
      <3>1. ToSet(queue') \subseteq ToSet(queue)
        BY <2>4, PickedSet DEF DeliverHandoffs, TypeOK
      <3> QED
        BY <1>2, <2>1, <3>1 DEF Expected
    <2> QED
      BY <2>2, <2>3, <2>4
  <1> QED
    BY <1>1, <1>2, ComesKept

\* The Turn that a call opens comes itself.
LEMMA OpensComes ==
  ASSUME TypeOK, RunsInv, ComesInv, NEW i \in Opening, OpenDelivery(i) PROVE ComesInv'
  <1>1. i \in Turns /\ Opening \subseteq Turns
    BY Members
  <1>2. UNCHANGED <<queue, receipt>> /\ \A j \in Opening : j # i => call'[j] = call[j]
    BY DEF OpenDelivery, inputs, TypeOK
  <1>3. \A u \in Opening : Undrained(u) => Undrained(u)'
    <2>1. CASE Accept(i, "agent")
      BY <1>1, <1>2, <2>1, AcceptUndrained
    <2>2. CASE UNCHANGED <<runs, step, resumed>>
      BY <1>1, <1>2, <2>2, ApartUndrained DEF RunsApart
    <2> QED
      BY <2>1, <2>2 DEF OpenDelivery
  <1>4. ASSUME NEW j \in Opening, Expected(j)', ~Expected(j) PROVE \E t \in Opening : Undrained(t)'
    <2>1. j = i /\ i \notin waived'
      BY <1>2, <1>4 DEF Expected, OpenDelivery
    <2>2. status[i] = "none" /\ status'[i] = "running" /\ receipt[i] = <<>>
      BY <1>1, <2>1 DEF OpenDelivery, RunsInv, Fresh
    <2>3. i = active' => step' \in {"none", "mount"}
      <3>1. i # active
        BY <1>1, <2>2, DistinctAssumption DEF RunsInv
      <3>2. Accept(i, "agent")
        BY <2>2 DEF OpenDelivery, runs
      <3> QED
        BY <3>1, <3>2 DEF Accept, Starts, Waits
    <2> QED
      BY <1>2, <2>2, <2>3 DEF Undrained
  <1> QED
    BY <1>3, <1>4, ComesKept

LEMMA AdmitComes ==
  ASSUME TypeOK, ComesInv, OpenHandoff \/ \E c \in Chats : Chat(c) PROVE ComesInv'
  <1>1. UNCHANGED <<queue, call, waived, receipt>>
    BY DEF OpenHandoff, Chat, inputs
  <1>2. \A u \in Opening : Undrained(u) => Undrained(u)'
    BY <1>1, Members, AdmissionAccepts, AcceptUndrained, ApartUndrained DEF Admission
  <1>3. \A j \in Opening : Expected(j)' => Expected(j)
    BY <1>1 DEF Expected
  <1> QED
    BY <1>2, <1>3, ComesKept

\* The active Turn drains, and so takes what was expected, or had drained before.
LEMMA TurnInputComes == ASSUME TypeOK, ComesInv, TurnInput PROVE ComesInv'
  <1>1. active \in Turns /\ DrainInto(active) /\ UNCHANGED <<call, waived>>
    BY DEF TurnInput, At, TypeOK
  <1>2. CASE queue' = <<>>
    <2>1. ToSet(queue') = {}
      BY <1>2 DEF ToSet
    <2> QED
      BY <2>1 DEF ComesInv, Expected
  <1>3. CASE queue' # <<>>
    <2>1. receipt[active] # <<>> /\ UNCHANGED inputs
      BY <1>1, <1>3, DrainEffect DEF Drains, inputs
    <2>2. UNCHANGED <<status, active, receipt, queue>>
      BY <2>1 DEF TurnInput, NothingToSay, inputs
    <2>3. \A u \in Opening : Undrained(u) => Undrained(u)'
      BY <2>1, <2>2 DEF Undrained
    <2>4. \A j \in Opening : Expected(j)' => Expected(j)
      BY <1>1, <2>2 DEF Expected
    <2> QED
      BY <2>3, <2>4, ComesKept
  <1> QED
    BY <1>2, <1>3

LEMMA YieldedSet ==
  ASSUME TypeOK, NEW t \in Turns
  PROVE  ToSet(RequeueUnseen(queue, <<Yielded(t)>>)) = ToSet(queue) \cup {Yielded(t)}
  <1>1. PICK y, r : y = Yielded(t) /\ r = <<y>>
    OBVIOUS
  <1>2. r \in Seq(Inputs) /\ ToSet(r) = {y}
    BY <1>1, Members DEF ToSet
  <1>3. queue \in Seq(Inputs)
    BY DEF TypeOK
  <1>4. ToSet(queue \o r) = ToSet(queue) \cup ToSet(r)
    BY <1>2, <1>3, JoinedSet
  <1> QED
    BY <1>1, <1>2, <1>4 DEF RequeueUnseen

\* A Turn that is past its drain is nobody's; it sends, completes or yields.
LEMMA LoopComes ==
  ASSUME TypeOK, ComesInv, SendTurn \/ ModelCalled \/ TurnCompletes \/ TurnYields PROVE ComesInv'
  <1>1. active \in Turns /\ step \in {"send", "loop"} /\ UNCHANGED <<receipt, call, waived>>
    BY DEF SendTurn, ModelCalled, TurnCompletes, TurnYields, At, TypeOK, inputs, memory, Queues
  <1>2. \A u \in Turns : u # active => status'[u] = status[u]
    BY <1>1 DEF SendTurn, ModelCalled, TurnCompletes, TurnYields, Settles, TypeOK
  <1>3. active' = None \/ UNCHANGED active
    BY DEF SendTurn, ModelCalled, TurnCompletes, TurnYields, Gone
  <1>4. \A u \in Opening : Undrained(u) => Undrained(u)'
    BY <1>1, <1>2, <1>3, Members, DistinctAssumption DEF Undrained
  <1>5. ASSUME NEW j \in Opening, Expected(j)' PROVE Expected(j)
    <2>1. CASE TurnYields
      <3>1. ToSet(queue') = ToSet(queue) \cup {Yielded(active)}
        BY <1>1, <2>1, YieldedSet DEF TurnYields, Queues
      <3>2. j # Yielded(active)
        BY <1>1, Members, DistinctAssumption
      <3> QED
        BY <1>1, <1>5, <3>1, <3>2 DEF Expected
    <2>2. CASE ~TurnYields
      <3>1. UNCHANGED queue
        BY <2>2 DEF SendTurn, ModelCalled, TurnCompletes, inputs
      <3> QED
        BY <1>1, <1>5, <3>1 DEF Expected
    <2> QED
      BY <2>1, <2>2
  <1> QED
    BY <1>4, <1>5, ComesKept

\* A Turn that fails gives back what it drained to whoever comes next, and so
\* does one that was to come and did not.
LEMMA FailsComes == ASSUME TypeOK, ComesInv, active # None, Fails(active) PROVE ComesInv'
  <1>1. active \in Turns /\ UNCHANGED <<receipt, call>> /\ active' = None
    BY DEF Fails, TypeOK, Gone
  <1>2. /\ \A u \in Turns : u # active => status'[u] = status[u]
    BY <1>1 DEF Fails, Settles, TypeOK
  <1>3. /\ GivesBack(active) \in Seq(Inputs)
        /\ ToSet(queue') \subseteq ToSet(queue) \cup ToSet(GivesBack(active))
    <2>1. GivesBack(active) \in Seq(Inputs) /\ queue \in Seq(Inputs)
      BY <1>1 DEF TypeOK, GivesBack
    <2> QED
      BY <2>1, JoinedSet DEF Fails, RequeueUnseen
  <1>4. CASE active \in Opening /\ receipt[active] = <<>>
    <2>1. GivesBack(active) = <<>> /\ waived' = waived \cup ToSet(queue)
      BY <1>4 DEF Fails, GivesBack
    <2>2. ToSet(queue') \subseteq waived'
      BY <1>3, <2>1 DEF ToSet
    <2> QED
      BY <2>2 DEF ComesInv, Expected
  <1>5. CASE ~(active \in Opening /\ receipt[active] = <<>>)
    <2>1. waived' = waived \cup ToSet(GivesBack(active))
      BY <1>5 DEF Fails
    <2>2. \A u \in Opening : Undrained(u) => Undrained(u)'
      BY <1>1, <1>2, <1>5, Members, DistinctAssumption DEF Undrained
    <2>3. \A j \in Opening : Expected(j)' => Expected(j)
      BY <1>1, <1>3, <2>1 DEF Expected
    <2> QED
      BY <2>2, <2>3, ComesKept
  <1> QED
    BY <1>4, <1>5

LEMMA RecoverComes ==
  ASSUME TypeOK, ComesInv, TurnDefers \/ Recover \/ TurnFails \/ Promote PROVE ComesInv'
  <1>1. CASE active # None /\ Fails(active)
    BY <1>1, FailsComes
  <1>2. CASE ~(active # None /\ Fails(active))
    <2>1. /\ UNCHANGED <<status, receipt, queue, call, waived>>
          /\ step' \in {"none", "mount"}
      BY <1>2 DEF TurnDefers, Recover, TurnFails, At, Promote, Starts, runs, inputs
    <2>2. \A u \in Opening : Undrained(u) => Undrained(u)'
      BY <2>1 DEF Undrained
    <2>3. \A j \in Opening : Expected(j)' => Expected(j)
      BY <2>1 DEF Expected
    <2> QED
      BY <2>2, <2>3, ComesKept
  <1> QED
    BY <1>1, <1>2

LEMMA StopComes == ASSUME TypeOK, ComesInv, NEW t \in Turns, Stop(t) PROVE ComesInv'
  <1>1. UNCHANGED <<status, receipt, active, step, call>>
    BY DEF Stop, Queues, inputs, memory
  <1>2. \A u \in Opening : Undrained(u) => Undrained(u)'
    BY <1>1 DEF Undrained
  <1>3. waived' = waived \cup ToSet(GivesBack(t)) /\ ToSet(queue') \subseteq ToSet(queue) \cup ToSet(GivesBack(t))
    <2>1. receipt[t] \in Seq(Inputs) /\ queue \in Seq(Inputs)
      BY DEF TypeOK
    <2> QED
      BY <2>1, RequeueSet DEF Stop, Queues, inputs, GivesBack, StopGivesBack
  <1>4. \A j \in Opening : Expected(j)' => Expected(j)
    BY <1>1, <1>3 DEF Expected
  <1> QED
    BY <1>2, <1>4, ComesKept

LEMMA EvictComes == ASSUME TypeOK, ComesInv, Evict PROVE ComesInv'
  <1>1. UNCHANGED <<status, receipt, active, queue>> /\ step' = "none"
    BY DEF Evict, runs, inputs
  <1>2. \A u \in Opening : Undrained(u) => Undrained(u)'
    BY <1>1 DEF Undrained
  <1>3. \A j \in Opening : Expected(j)' => Expected(j)
    BY <1>1 DEF Expected, Evict
  <1> QED
    BY <1>2, <1>3, ComesKept

LEMMA ComesStep == TypeOK /\ RunsInv /\ ComesInv /\ [Next]_vars => ComesInv'
  <1> SUFFICES ASSUME TypeOK, RunsInv, ComesInv, [Next]_vars PROVE ComesInv'
    OBVIOUS
  <1>1. CASE UNCHANGED vars
    BY <1>1 DEF vars, memory, inputs, runs, ComesInv, Expected, Undrained
  <1>2. CASE TurnSteps
    BY <1>2, TurnInputComes, LoopComes, RecoverComes DEF TurnSteps
  <1>3. CASE Producers
    BY <1>3, ApprovalComes, PressComes, RiderComes, OpensComes, HandoffComes, AdmitComes
       DEF Producers
  <1>4. CASE Evict \/ (\E c \in Chats : Chat(c)) \/ \E t \in Turns : Stop(t)
    BY <1>4, EvictComes, AdmitComes, StopComes
  <1> QED
    BY <1>1, <1>2, <1>3, <1>4 DEF Next

\* Somebody comes for an answer or a press, whatever its call raced: a Turn that
\* has not drained is on its way, unless the Turn it was due could not be had.
THEOREM SomebodyIsOnTheWay == Spec => []SomebodyComes
  <1>1. Init => ComesInv
    BY DEF Init, ComesInv, Expected, ToSet
  <1>2. TypeOK /\ ComesInv => SomebodyComes
    BY ContainsIsIn, Members DEF TypeOK, ComesInv, Expected, SomebodyComes
  <1> QED
    BY <1>1, <1>2, TypesHold, RunsFirst, RunsStep, ComesStep, PTL DEF Spec

-----------------------------------------------------------------------------
(* Nothing is lost but what went astray                                     *)

\* What the queue no longer has was given up, and what is owed now is there.
QueueAccounts ==
  /\ forgiven \subseteq forgiven' /\ astray \subseteq astray'
  /\ ToSet(queue) \subseteq ToSet(queue') \cup forgiven'
  /\ owed' \subseteq owed \cup ToSet(queue') \cup forgiven'
LEMMA QueuesAccount ==
  ASSUME NEW q, NEW put, Queues(q, put)
  PROVE  QueueAccounts /\ put \subseteq ToSet(queue') \cup forgiven' /\ UNCHANGED receipt
  BY DEF Queues, QueueAccounts
LEMMA InputsAccount == UNCHANGED inputs => QueueAccounts
  BY DEF inputs, QueueAccounts

\* What was told stays told.
LEMMA ToldGrows ==
  ASSUME NEW t \in Turns, journal[t] = "sent" => journal'[t] = "sent" /\ carried'[t] = carried[t]
  PROVE  Told(t) \subseteq Told(t)'
  BY DEF Told

\* A step that leaves the active Turn, its receipt and its Stop alone.
LEMMA KeptApart ==
  ASSUME KeptInv, QueueAccounts, UNCHANGED <<journal, carried, active, receipt, stop>>
  PROVE  KeptInv'
  <1>1. \A t \in Turns : Told(t)' = Told(t)
    BY DEF Told
  <1>2. \A i : Holds(i)' <=> Holds(i)
    BY DEF Holds
  <1>3. \A i \in owed' : Safe(i)'
    BY <1>1, <1>2 DEF KeptInv, Safe, QueueAccounts
  <1>4. Tells'
    BY DEF KeptInv, Tells, QueueAccounts
  <1> QED
    BY <1>3, <1>4 DEF KeptInv

\* A step in which the active Turn, if any, is over and gave account of what it
\* held.
LEMMA KeptOver ==
  ASSUME KeptInv, QueueAccounts, active' = None, UNCHANGED <<journal, carried>>,
         \A i \in Inputs : Holds(i) => \/ i \in ToSet(queue') \/ i \in forgiven'
                                       \/ (\E t \in Turns : i \in Told(t)) \/ i \in astray,
         owed \subseteq Inputs
  PROVE  KeptInv'
  <1>1. \A t \in Turns : Told(t)' = Told(t)
    BY DEF Told
  <1>2. ASSUME NEW i \in owed' PROVE Safe(i)'
    <2>1. CASE i \notin owed
      BY <1>2, <2>1 DEF QueueAccounts, Safe
    <2>2. CASE i \in owed
      <3>1. Safe(i) /\ i \in Inputs
        BY <2>2 DEF KeptInv
      <3> QED
        BY <1>1, <3>1 DEF QueueAccounts, Safe
    <2> QED
      BY <2>1, <2>2
  <1>3. Tells'
    BY DEF Tells
  <1> QED
    BY <1>2, <1>3 DEF KeptInv

\* A step in which a Turn that holds nothing becomes active.
LEMMA KeptStarts ==
  ASSUME RunsInv', KeptInv, UNCHANGED <<inputs, journal, carried, stop>>, active = None,
         step' = "mount", resumed' = FALSE
  PROVE  KeptInv'
  <1>1. \A t \in Turns : Told(t)' = Told(t)
    BY DEF Told
  <1>2. \A i : ~Holds(i)
    BY DEF Holds
  <1>3. \A i \in owed' : Safe(i)'
    BY <1>1, <1>2 DEF KeptInv, Safe, inputs
  <1>4. Tells'
    BY DEF RunsInv, Tells
  <1> QED
    BY <1>3, <1>4 DEF KeptInv

LEMMA AcceptKept ==
  ASSUME RunsInv', KeptInv, NEW t \in Turns, NEW lane \in {"user", "agent"}, Accept(t, lane),
         UNCHANGED inputs
  PROVE  KeptInv'
  <1>1. UNCHANGED <<stop, journal, carried, receipt>>
    BY DEF Accept, inputs
  <1>2. CASE UNCHANGED active
    BY <1>1, <1>2, KeptApart, InputsAccount
  <1>3. CASE ~UNCHANGED active
    <2>1. active = None /\ step' = "mount" /\ resumed' = FALSE
      BY <1>3 DEF Accept, Starts, Waits
    <2> QED
      BY <1>1, <2>1, KeptStarts
  <1> QED
    BY <1>2, <1>3

LEMMA TurnInputKept == ASSUME TypeOK, RunsInv, KeptInv, TurnInput PROVE KeptInv'
  <1>1. /\ active \in Turns /\ active # None /\ step = "mount" /\ DrainInto(active)
        /\ UNCHANGED <<journal, carried, stop>>
    BY DEF TurnInput, At, TypeOK
  <1>2. CASE Drains(active)
    <2>1. UNCHANGED active
      BY <1>2 DEF TurnInput, NothingToSay, Drains
    <2>2. ToSet(receipt[active]) = {}
      BY <1>2 DEF Drains, ToSet
    <2>3. \A t \in Turns : Told(t)' = Told(t)
      BY <1>1 DEF Told
    <2>4. \A i \in ToSet(queue) : Safe(i)'
      <3>1. ASSUME NEW i \in ToSet(receipt'[active]) PROVE Holds(i)' \/ i \in astray'
        BY <1>1, <1>2, <2>1, <3>1 DEF Holds, Drains
      <3> QED
        BY <1>2, <2>1, <3>1 DEF Safe, Drains
    <2>5. ASSUME NEW i \in owed' PROVE Safe(i)'
      <3>1. Safe(i) /\ ~Holds(i)
        BY <1>2, <2>2, <2>5 DEF KeptInv, Drains, Holds
      <3> QED
        BY <1>2, <2>3, <2>4, <3>1 DEF Safe, Drains
    <2>6. Tells'
      BY <1>1, <1>2, <2>1 DEF Tells, Drains, RunsInv
    <2> QED
      BY <2>5, <2>6 DEF KeptInv
  <1>3. CASE UNCHANGED inputs
    <2>1. CASE NothingToSay(active)
      <3>1. active' = None /\ ToSet(receipt[active]) = {}
        BY <2>1 DEF TurnInput, Gone, NothingToSay, ToSet
      <3>2. \A i : ~Holds(i)
        BY <3>1 DEF Holds
      <3> QED
        BY <1>1, <1>3, <3>1, <3>2, KeptOver, InputsAccount DEF TypeOK
    <2>2. CASE ~NothingToSay(active)
      BY <1>1, <1>3, <2>2, KeptApart, InputsAccount DEF TurnInput, inputs
    <2> QED
      BY <2>1, <2>2
  <1> QED
    BY <1>1, <1>2, <1>3, DrainEffect

LEMMA SendKept == ASSUME TypeOK, RunsInv, KeptInv, SendTurn \/ ModelCalled PROVE KeptInv'
  <1>1. /\ active \in Turns /\ active # None
        /\ UNCHANGED <<inputs, active, receipt, stop, queue, forgiven, astray, owed>>
    BY DEF SendTurn, ModelCalled, At, TypeOK, inputs, memory
  <1>2. CASE UNCHANGED <<journal, carried>>
    BY <1>1, <1>2, KeptApart, InputsAccount
  <1>3. CASE ~UNCHANGED <<journal, carried>>
    <2>1. /\ journal[active] # "sent"
          /\ \A u \in Turns : u # active => journal'[u] = journal[u] /\ carried'[u] = carried[u]
          /\ \/ carried'[active] = ToSet(receipt[active])
             \/ carried'[active] = carried[active] /\ journal[active] = "intent"
      BY <1>1, <1>3 DEF SendTurn, ModelCalled, At, RunsInv, TypeOK
    <2>2. \A t \in Turns : Told(t) \subseteq Told(t)'
      BY <1>1, <2>1, ToldGrows
    <2>3. \A i : Holds(i)' <=> Holds(i)
      BY <1>1 DEF Holds
    <2>4. \A i \in owed' : Safe(i)'
      BY <1>1, <2>2, <2>3 DEF KeptInv, Safe
    <2>5. Tells'
      BY <1>1, <2>1 DEF KeptInv, Tells
    <2> QED
      BY <2>4, <2>5 DEF KeptInv
  <1> QED
    BY <1>2, <1>3

\* A Turn that completes or yields has told what it held.
LEMMA CompletesKept == ASSUME TypeOK, RunsInv, KeptInv, TurnCompletes \/ TurnYields PROVE KeptInv'
  <1>1. /\ active \in Turns /\ active # None /\ journal[active] = "sent" /\ active' = None
        /\ UNCHANGED <<journal, carried>>
    BY DEF TurnCompletes, TurnYields, At, TypeOK, Gone
  <1>2. \A i : Holds(i) => i \in Told(active) \/ i \in astray
    BY <1>1 DEF KeptInv, Tells, Holds, Told
  <1>3. QueueAccounts
    <2>1. CASE TurnCompletes
      BY <2>1 DEF TurnCompletes, QueueAccounts
    <2>2. CASE TurnYields
      BY <2>2, QueuesAccount DEF TurnYields
    <2> QED
      BY <2>1, <2>2
  <1> QED
    BY <1>1, <1>2, <1>3, KeptOver DEF TypeOK

\* A Turn that fails gives back what it held, or the person is told it failed.
LEMMA FailsKept == ASSUME TypeOK, KeptInv, active # None, Fails(active) PROVE KeptInv'
  <1>1. active \in Turns /\ active' = None /\ UNCHANGED <<journal, carried>>
    BY DEF Fails, TypeOK, Gone
  <1>2. GivesBack(active) \in Seq(Inputs) /\ queue \in Seq(Inputs)
    BY <1>1 DEF TypeOK, GivesBack
  <1>3. ToSet(queue \o GivesBack(active)) = ToSet(queue) \cup ToSet(GivesBack(active))
    BY <1>2, JoinedSet
  <1>4. QueueAccounts
    BY <1>3 DEF Fails, QueueAccounts, RequeueUnseen
  <1>5. ASSUME NEW i, Holds(i) PROVE i \in ToSet(queue') \/ i \in forgiven'
    <2>1. CASE active \in Chats
      BY <1>5, <2>1 DEF Holds, Fails
    <2>2. CASE active \in Deliveries
      BY <1>3, <1>5, <2>2 DEF Holds, Fails, GivesBack, RequeueUnseen
    <2> QED
      BY <1>1, <2>1, <2>2 DEF Turns
  <1> QED
    BY <1>1, <1>4, <1>5, KeptOver DEF TypeOK

\* A Stop gives back what a delivery holds, once and for all.
LEMMA StopKept == ASSUME TypeOK, KeptInv, NEW t \in Turns, Stop(t) PROVE KeptInv'
  <1>1. /\ UNCHANGED <<journal, carried, active, receipt>>
        /\ stop'[t] = TRUE /\ \A u \in Turns : u # t => stop'[u] = stop[u]
    BY DEF Stop, Queues, inputs, TypeOK
  <1>2. QueueAccounts
    BY QueuesAccount, InputsAccount DEF Stop
  <1>3. \A u \in Turns : Told(u)' = Told(u)
    BY <1>1 DEF Told
  <1>4. ASSUME NEW i, Holds(i) PROVE Safe(i)'
    <2>1. CASE t = active /\ t \in Deliveries
      <3>1. Queues(Requeue(queue, receipt[t]), ToSet(receipt[t])) /\ i \in ToSet(receipt[t])
        BY <1>4, <2>1 DEF Stop, StopGivesBack, Holds
      <3>2. ToSet(receipt[t]) \subseteq ToSet(queue') \cup forgiven'
        BY <3>1, QueuesAccount
      <3> QED
        BY <3>1, <3>2 DEF Safe
    <2>2. CASE ~(t = active /\ t \in Deliveries)
      <3>1. active # None /\ active \in Turns
        BY <1>4 DEF Holds, TypeOK
      <3>2. Holds(i)'
        BY <1>1, <1>4, <2>2, <3>1 DEF Holds
      <3> QED
        BY <3>2 DEF Safe
    <2> QED
      BY <2>1, <2>2
  <1>5. \A i \in owed' : Safe(i)'
    <2>1. ASSUME NEW i \in owed' PROVE Safe(i)'
      <3>1. CASE i \notin owed
        BY <1>2, <2>1, <3>1 DEF QueueAccounts, Safe
      <3>2. CASE i \in owed /\ ~Holds(i)
        BY <1>2, <1>3, <3>2 DEF QueueAccounts, Safe, KeptInv
      <3> QED
        BY <1>4, <3>1, <3>2
    <2> QED
      BY <2>1
  <1>6. Tells'
    BY <1>1, <1>2 DEF KeptInv, Tells, QueueAccounts
  <1> QED
    BY <1>5, <1>6 DEF KeptInv

LEMMA ProducersAccount ==
  ASSUME TypeOK
  PROVE  /\ \A a \in Approvals : Expire(a) \/ Dispatch(a) => QueueAccounts
         /\ \A a \in Approvals : \A d \in {"approved", "denied"} : Decide(a, d) => QueueAccounts
         /\ \A p \in Presses : Press(p) => QueueAccounts
         /\ \A i \in Opening : CheckWaiting(i) => QueueAccounts
         /\ \A w \in Handoffs \cup Tasks : HandOff(w) => QueueAccounts
         /\ ReadHandoffs \/ DeliverHandoffs => QueueAccounts
  <1>1. ASSUME DeliverHandoffs PROVE QueueAccounts
    <2>1. PICK dismissed :
            /\ queue' = Pick(queue, {k \in DOMAIN queue : queue[k] \notin dismissed})
            /\ forgiven' = forgiven \cup dismissed /\ UNCHANGED <<owed, astray>>
      BY <1>1 DEF DeliverHandoffs
    <2>2. PICK K : K = {k \in DOMAIN queue : queue[k] \notin dismissed}
      OBVIOUS
    <2>3. \A k \in DOMAIN queue : k \in K => queue[k] \in ToSet(queue')
      BY <2>1, <2>2, PickedSet DEF TypeOK
    <2>4. \A k \in DOMAIN queue : queue[k] \in ToSet(queue') \cup forgiven'
      BY <2>1, <2>2, <2>3
    <2>5. ToSet(queue) \subseteq ToSet(queue') \cup forgiven'
      BY <2>4 DEF ToSet, TypeOK
    <2> QED
      BY <2>1, <2>5 DEF QueueAccounts
  <1> QED
    BY <1>1, QueuesAccount, InputsAccount
       DEF Expire, Dispatch, Decide, SettleApproval, Press, CheckWaiting, HandOff, ReadHandoffs

LEMMA KeptStep == TypeOK /\ RunsInv /\ RunsInv' /\ KeptInv /\ [Next]_vars => KeptInv'
  <1> SUFFICES ASSUME TypeOK, RunsInv, RunsInv', KeptInv, [Next]_vars PROVE KeptInv'
    OBVIOUS
  <1>1. CASE QueueAccounts /\ RunsApart
    BY <1>1, KeptApart DEF RunsApart, runs
  <1>2. CASE UNCHANGED vars
    BY <1>1, <1>2, InputsAccount DEF vars, memory, inputs, RunsApart
  <1>3. CASE TurnSteps
    <2>1. CASE Promote
      BY <2>1, KeptStarts DEF Promote, Starts
    <2>2. CASE TurnDefers \/ Recover \/ TurnFails
      BY <2>2, FailsKept, KeptApart, InputsAccount
         DEF TurnDefers, Recover, TurnFails, At, runs, inputs
    <2> QED
      BY <1>3, <2>1, <2>2, TurnInputKept, SendKept, CompletesKept DEF TurnSteps
  <1>4. CASE Admission
    BY <1>1, <1>4, AdmissionAccepts, AcceptKept, InputsAccount
  <1>5. CASE Producers
    BY <1>1, <1>4, <1>5, ProducersApart, ProducersAccount DEF Producers, Admission
  <1>6. CASE Evict \/ (\E c \in Chats : Chat(c)) \/ \E t \in Turns : Stop(t)
    BY <1>4, <1>6, StopKept, KeptApart, InputsAccount DEF Evict, runs, inputs, Admission
  <1> QED
    BY <1>2, <1>3, <1>5, <1>6 DEF Next

\* Nothing that was queued is lost, whatever is evicted, fails or is stopped, but
\* to a Turn that drains after its Stop or when its message was already sent.
THEOREM OnlyAstrayIsLost == Spec => []LostOnlyAstray
  <1>1. Init => KeptInv
    BY DEF Init, KeptInv, Tells
  <1>2. TypeOK /\ RunsInv /\ KeptInv => LostOnlyAstray
    <2> SUFFICES ASSUME TypeOK, RunsInv, KeptInv PROVE LostOnlyAstray
      OBVIOUS
    <2>1. ASSUME NEW i \in owed PROVE KeptOrTold(i) \/ i \in astray
      <3>1. CASE Holds(i)
        <4>1. active # None /\ i \in ToSet(receipt[active])
          BY <3>1 DEF Holds
        <4>2. active \in Turns /\ receipt[active] \in Seq(Inputs)
          BY <4>1 DEF TypeOK
        <4>3. status[active] = "running" /\ Contains(receipt[active], i)
          BY <4>1, <4>2, ContainsIsIn DEF RunsInv
        <4> QED
          BY <4>2, <4>3 DEF KeptOrTold
      <3>2. CASE ~Holds(i)
        <4>1. i \in ToSet(queue) => Contains(queue, i)
          BY ContainsIsIn DEF TypeOK
        <4> QED
          BY <2>1, <3>2, <4>1 DEF KeptInv, Safe, KeptOrTold
      <3> QED
        BY <3>1, <3>2
    <2> QED
      BY <2>1 DEF LostOnlyAstray
  <1> QED
    BY <1>1, <1>2, TypesHold, RunsFirst, RunsStep, KeptStep, PTL DEF Spec

-----------------------------------------------------------------------------
(* The Bot is told once                                                     *)

\* A step that adds to what is owed, and drains and sends nothing.
LEMMA OwedKept ==
  ASSUME OwedInv, NEW put, owed' = owed \cup put, ToSet(queue') \subseteq owed \cup put,
         UNCHANGED <<receipt, carried>>,
         \A a \in Approvals : decision'[a] \in {"none", "pending"} =>
                                decision[a] \in {"none", "pending"} /\ a \notin put,
         \A t \in Turns : Yielded(t) \in put \/ status[t] = "completed" => status'[t] = "completed"
  PROVE  OwedInv'
  BY DEF OwedInv

LEMMA QueuedOwed ==
  ASSUME TypeOK, OwedInv, NEW i \in Inputs, NEW q, Queues(q, {i}),
         q = Enqueue(queue, i) \/ q = Append(queue, i)
  PROVE  /\ owed' = owed \cup {i} /\ ToSet(queue') \subseteq ToSet(queue) \cup {i}
         /\ ToSet(queue') \subseteq owed \cup {i} /\ UNCHANGED receipt
  <1>1. /\ ToSet(Enqueue(queue, i)) \subseteq ToSet(queue) \cup {i}
        /\ ToSet(Append(queue, i)) = ToSet(queue) \cup {i}
    BY EnqueueSet, AppendedSet DEF TypeOK
  <1> QED
    BY <1>1 DEF Queues, OwedInv

\* The producers other than the Turns: what each queues was not owed, a press
\* that is posted again excepted, and the Turns are left alone.
Produced(i) ==
  /\ i \notin owed \/ i \in Presses
  /\ owed' = owed \cup {i} /\ ToSet(queue') \subseteq ToSet(queue) \cup {i}
Produces == \/ \E i \in Inputs : Produced(i)
            \/ ToSet(queue') \subseteq ToSet(queue) /\ UNCHANGED owed
LEMMA QueueShrinks ==
  ASSUME OwedInv, UNCHANGED <<owed, receipt, carried, decision, status>>,
         ToSet(queue') \subseteq ToSet(queue)
  PROVE  Produces /\ OwedInv'
  BY DEF Produces, OwedInv

LEMMA ApprovalOwed ==
  ASSUME TypeOK, OwedInv, NEW a \in Approvals,
         (\E d \in {"approved", "denied"} : Decide(a, d)) \/ Expire(a) \/ Dispatch(a)
  PROVE  Produces /\ OwedInv'
  <1>1. a \in Inputs /\ \A t \in Turns : Yielded(t) # a
    BY Members, DistinctAssumption
  <1>2. UNCHANGED <<status, carried>>
    BY DEF Decide, Expire, Dispatch, runs
  <1>3. CASE Dispatch(a)
    <2>1. UNCHANGED <<decision, owed, queue, receipt>>
      BY <1>3 DEF Dispatch, inputs
    <2> QED
      BY <1>2, <2>1, QueueShrinks
  <1>4. CASE ~Dispatch(a)
    <2>1. PICK d \in {"approved", "denied", "expired"} : Undecided(a) /\ SettleApproval(a, d)
      BY <1>4 DEF Decide, Expire
    <2>2. a \notin owed /\ decision' = [decision EXCEPT ![a] = d]
      BY <2>1 DEF Undecided, SettleApproval, OwedInv
    <2>3. /\ owed' = owed \cup {a} /\ ToSet(queue') \subseteq ToSet(queue) \cup {a}
          /\ ToSet(queue') \subseteq owed \cup {a} /\ UNCHANGED receipt
      BY <1>1, <2>1, QueuedOwed DEF SettleApproval
    <2>4. \A b \in Approvals : decision'[b] \in {"none", "pending"} =>
                                 decision[b] \in {"none", "pending"} /\ b \notin {a}
      BY <2>2 DEF TypeOK
    <2>5. \A t \in Turns : Yielded(t) \in {a} \/ status[t] = "completed" => status'[t] = "completed"
      BY <1>1, <1>2
    <2>6. OwedInv'
      BY <1>2, <2>3, <2>4, <2>5, OwedKept
    <2> QED
      BY <1>1, <2>2, <2>3, <2>6 DEF Produces, Produced
  <1> QED
    BY <1>3, <1>4

LEMMA ProducerOwed ==
  ASSUME TypeOK, OwedInv, NEW i \in Presses \cup Handoffs \cup Tasks,
         (i \in Presses /\ Press(i)) \/ (i \notin Presses /\ HandOff(i))
  PROVE  Produces /\ OwedInv'
  <1>1. i \in Inputs /\ i \notin Approvals /\ \A t \in Turns : Yielded(t) # i
    BY Members, DistinctAssumption DEF Opening, Deliveries
  <1>2. UNCHANGED <<status, carried, decision>> /\ (i \notin owed \/ i \in Presses)
    BY DEF Press, HandOff, runs
  <1>3. PICK q : Queues(q, {i}) /\ (q = Enqueue(queue, i) \/ q = Append(queue, i))
    BY DEF Press, HandOff
  <1>4. /\ owed' = owed \cup {i} /\ ToSet(queue') \subseteq ToSet(queue) \cup {i}
        /\ ToSet(queue') \subseteq owed \cup {i} /\ UNCHANGED receipt
    BY <1>1, <1>3, QueuedOwed
  <1>5. OwedInv'
    <2>1. \A a \in Approvals : decision'[a] \in {"none", "pending"} =>
                                 decision[a] \in {"none", "pending"} /\ a \notin {i}
      BY <1>1, <1>2
    <2>2. \A t \in Turns : Yielded(t) \in {i} \/ status[t] = "completed" => status'[t] = "completed"
      BY <1>1, <1>2
    <2> QED
      BY <1>2, <1>4, <2>1, <2>2, OwedKept
  <1> QED
    BY <1>1, <1>2, <1>4, <1>5 DEF Produces, Produced

LEMMA HandoffsOwed ==
  ASSUME TypeOK, OwedInv, ReadHandoffs \/ DeliverHandoffs \/ \E i \in Opening : CheckWaiting(i)
  PROVE  Produces /\ OwedInv'
  <1>1. UNCHANGED <<owed, receipt, carried, decision, status>>
    BY DEF ReadHandoffs, DeliverHandoffs, CheckWaiting, runs, inputs
  <1>2. ToSet(queue') \subseteq ToSet(queue)
    BY PickedSet DEF ReadHandoffs, DeliverHandoffs, CheckWaiting, inputs, TypeOK
  <1> QED
    BY <1>1, <1>2, QueueShrinks

\* An admission: nothing new is owed, and no Turn that completed changes.
LEMMA AcceptOwed ==
  ASSUME TypeOK, OwedInv, UNCHANGED <<inputs, decision>>,
         RunsApart \/ \E t \in Turns, lane \in {"user", "agent"} : Accept(t, lane)
  PROVE  /\ OwedInv' /\ UNCHANGED <<journal, carried, stop>>
         /\ \A t \in Turns : status'[t] = "completed" <=> status[t] = "completed"
  <1>1. /\ UNCHANGED <<journal, carried, stop>>
        /\ \A t \in Turns : status'[t] = "completed" <=> status[t] = "completed"
    BY DEF RunsApart, runs, Accept, TypeOK
  <1>2. OwedInv'
    BY <1>1 DEF OwedInv, inputs
  <1> QED
    BY <1>1, <1>2

\* A Turn that drains or sends.
LEMMA TurnInputOwed == ASSUME TypeOK, RunsInv, OwedInv, TurnInput PROVE OwedInv'
  <1>1. /\ active \in Turns /\ active # None /\ DrainInto(active)
        /\ UNCHANGED <<carried, decision>>
    BY DEF TurnInput, At, TypeOK
  <1>2. \A t \in Turns : status[t] = "completed" => status'[t] = "completed"
    <2>1. status[active] = "running"
      BY <1>1 DEF RunsInv
    <2> QED
      BY <1>1, <2>1 DEF TurnInput, Settles, TypeOK
  <1>3. CASE Drains(active)
    <2>1. ToSet(queue') = {} /\ UNCHANGED owed /\ ToSet(receipt'[active]) \subseteq owed
      BY <1>3 DEF Drains, ToSet, OwedInv
    <2>2. ToSet(<<>>) = {} /\ IsInjective(<<>>)
      BY DEF ToSet, IsInjective
    <2>3. \A t \in Turns : IsInjective(receipt'[t]) /\ ToSet(receipt'[t]) \subseteq owed
      BY <1>3, <2>1, <2>2 DEF Drains, OwedInv
    <2> QED
      BY <1>1, <1>2, <2>1, <2>3 DEF OwedInv
  <1>4. CASE UNCHANGED inputs
    BY <1>1, <1>2, <1>4 DEF OwedInv, inputs
  <1> QED
    BY <1>1, <1>3, <1>4, DrainEffect

LEMMA SendOwed == ASSUME TypeOK, OwedInv, SendTurn \/ ModelCalled PROVE OwedInv'
  <1>1. active \in Turns /\ UNCHANGED <<owed, queue, receipt, decision, status>>
    BY DEF SendTurn, ModelCalled, At, TypeOK, inputs
  <1>2. \A t \in Turns : carried'[t] \in {carried[t], ToSet(receipt[t])}
    BY <1>1 DEF SendTurn, ModelCalled, TypeOK
  <1> QED
    BY <1>1, <1>2 DEF OwedInv

\* A Turn that ends: what it gives back was owed, and what it leaves is new.
LEMMA EndOwed ==
  ASSUME TypeOK, RunsInv, OwedInv, active # None,
         TurnCompletes \/ TurnYields \/ Fails(active)
  PROVE  OwedInv'
  <1>1. active \in Turns /\ status[active] = "running" /\ UNCHANGED <<receipt, carried>>
    BY DEF TurnCompletes, TurnYields, Fails, Queues, RunsInv, TypeOK
  <1>2. \A t \in Turns : status[t] = "completed" => status'[t] = "completed"
    BY <1>1 DEF TurnCompletes, TurnYields, Fails, Settles, TypeOK
  <1>3. CASE TurnYields
    <2>1. /\ owed' = owed \cup {Yielded(active)} /\ UNCHANGED decision
          /\ ToSet(queue') = ToSet(queue) \cup {Yielded(active)}
      BY <1>1, <1>3, YieldedSet DEF TurnYields, Queues
    <2>2. status'[active] = "completed"
      BY <1>1, <1>3 DEF TurnYields, Settles, TypeOK
    <2>3. \A t \in Turns : Yielded(t) = Yielded(active) => t = active
      BY DEF Yielded
    <2>4. \A a \in Approvals : a # Yielded(active)
      BY <1>1, Members, DistinctAssumption
    <2>5. ToSet(queue') \subseteq owed \cup {Yielded(active)}
      BY <2>1 DEF OwedInv
    <2> QED
      BY <1>1, <1>2, <2>1, <2>2, <2>3, <2>4, <2>5, OwedKept
  <1>4. CASE TurnCompletes \/ Fails(active)
    <2>1. owed' = owed
      BY <1>4 DEF TurnCompletes, Fails
    <2>2. ToSet(queue') \subseteq owed
      <3>1. GivesBack(active) \in Seq(Inputs) /\ queue \in Seq(Inputs)
        BY <1>1 DEF TypeOK, GivesBack
      <3>2. ToSet(queue \o GivesBack(active)) = ToSet(queue) \cup ToSet(GivesBack(active))
        BY <3>1, JoinedSet
      <3>3. ToSet(GivesBack(active)) \subseteq owed /\ ToSet(queue) \subseteq owed
        BY <1>1 DEF GivesBack, OwedInv, ToSet
      <3>4. queue' \in {queue, queue \o GivesBack(active)}
        BY <1>4 DEF TurnCompletes, Fails, RequeueUnseen
      <3> QED
        BY <3>2, <3>3, <3>4
    <2>3. \A a \in Approvals : decision'[a] \in {"none", "pending"} =>
                                 decision[a] \in {"none", "pending"}
      BY <1>4 DEF TurnCompletes, Fails, TypeOK
    <2> QED
      BY <1>1, <1>2, <2>1, <2>2, <2>3 DEF OwedInv
  <1> QED
    BY <1>3, <1>4

LEMMA StopOwed == ASSUME TypeOK, OwedInv, NEW t \in Turns, Stop(t) PROVE OwedInv'
  <1>1. UNCHANGED <<receipt, carried, decision, status>>
    BY DEF Stop, Queues, inputs
  <1>2. owed' = owed /\ ToSet(queue') \subseteq owed
    <2>1. receipt[t] \in Seq(Inputs) /\ queue \in Seq(Inputs)
      BY DEF TypeOK
    <2>2. ToSet(Requeue(queue, receipt[t])) \subseteq ToSet(queue) \cup ToSet(receipt[t])
      BY <2>1, RequeueSet
    <2>3. ToSet(queue) \cup ToSet(receipt[t]) \subseteq owed
      BY DEF OwedInv
    <2> QED
      BY <2>2, <2>3 DEF Stop, Queues, inputs
  <1> QED
    BY <1>1, <1>2 DEF OwedInv

\* What is not owed is in nobody's hands.
LEMMA NotOwed ==
  ASSUME TypeOK, OwedInv, NEW i, i \notin owed
  PROVE  ~Holds(i) /\ \A t \in Turns : ~Counted(t, i)
  <1>1. \A t \in Turns : ~Counted(t, i)
    BY DEF OwedInv, Counted, Told
  <1>2. active # None => active \in Turns
    BY DEF TypeOK
  <1>3. ~Holds(i)
    BY <1>2 DEF OwedInv, Holds
  <1> QED
    BY <1>1, <1>3

LEMMA TellApart ==
  ASSUME TypeOK, OwedInv, TellInv, RunsApart, Produces
  PROVE  TellInv'
  <1>1. UNCHANGED <<journal, carried, status, stop, active, receipt>>
    BY DEF RunsApart, runs
  <1>2. ASSUME NEW i \in Inputs \ Presses PROVE OneTelling(i)'
    <2>1. Holds(i)' <=> Holds(i)
      BY <1>1 DEF Holds
    <2>2. \A t \in Turns : Counted(t, i)' <=> Counted(t, i)
      BY <1>1 DEF Counted, Told
    <2>3. i \in ToSet(queue') => i \in ToSet(queue) \/ i \notin owed
      BY <1>2 DEF Produces, Produced
    <2>4. i \in ToSet(queue)' => ~Holds(i)' /\ \A t \in Turns : ~Counted(t, i)'
      BY <1>2, <2>1, <2>2, <2>3, NotOwed DEF TellInv, OneTelling
    <2> QED
      BY <1>1, <1>2, <2>2, <2>4 DEF TellInv, OneTelling
  <1> QED
    BY <1>2 DEF TellInv

\* A Turn that takes the slot holds nothing.
LEMMA TellStarts ==
  ASSUME TellInv, UNCHANGED <<inputs, journal, carried>>, receipt[active'] = <<>>,
         \A t \in Turns : status'[t] = "completed" <=> status[t] = "completed"
  PROVE  TellInv'
  <1>1. ToSet(receipt'[active']) = {}
    BY DEF inputs, ToSet
  <1>2. ASSUME NEW i \in Inputs \ Presses PROVE OneTelling(i)'
    <2>1. ~Holds(i)'
      BY <1>1 DEF Holds
    <2>2. \A t \in Turns : Counted(t, i)' <=> Counted(t, i)
      BY DEF Counted, Told
    <2> QED
      BY <1>1, <1>2, <2>1, <2>2 DEF TellInv, OneTelling, inputs
  <1> QED
    BY <1>2 DEF TellInv

LEMMA AcceptTell ==
  ASSUME TypeOK, RunsInv, OwedInv, TellInv, NEW t \in Turns, NEW lane \in {"user", "agent"},
         Accept(t, lane), UNCHANGED <<inputs, decision>>
  PROVE  TellInv'
  <1>1. /\ UNCHANGED <<journal, carried, stop>>
        /\ \A u \in Turns : status'[u] = "completed" <=> status[u] = "completed"
    BY AcceptOwed
  <1>2. CASE UNCHANGED active
    <2>1. ASSUME NEW i \in Inputs \ Presses PROVE OneTelling(i)'
      <3>1. Holds(i)' <=> Holds(i)
        BY <1>1, <1>2 DEF Holds, inputs
      <3>2. \A u \in Turns : Counted(u, i)' <=> Counted(u, i)
        BY <1>1 DEF Counted, Told
      <3> QED
        BY <1>2, <2>1, <3>1, <3>2 DEF TellInv, OneTelling, inputs
    <2> QED
      BY <2>1 DEF TellInv
  <1>3. CASE ~UNCHANGED active
    <2>1. active' = t /\ status[t] = "none"
      BY <1>3 DEF Accept, Starts, Waits
    <2>2. receipt[active'] = <<>>
      BY <2>1 DEF RunsInv, Fresh
    <2> QED
      BY <1>1, <2>2, TellStarts
  <1> QED
    BY <1>2, <1>3

LEMMA PromoteTell == ASSUME TypeOK, RunsInv, TellInv, Promote PROVE TellInv'
  <1>1. UNCHANGED <<inputs, journal, carried, status>>
    BY DEF Promote
  <1>2. receipt[active'] = <<>>
    <2>1. pendingUser \in Seq(Turns) /\ pendingAgent \in Seq(Turns) /\ OneLane
      BY DEF TypeOK, RunsInv
    <2>2. \/ pendingUser # <<>> /\ active' = Head(pendingUser)
          \/ pendingAgent # <<>> /\ active' = Head(pendingAgent)
      BY DEF Promote, Starts
    <2>3. active' \in ToSet(pendingUser) \cup ToSet(pendingAgent)
      BY <2>1, <2>2, LaneWithoutHead DEF OneLane
    <2>4. ToSet(pendingUser) \cup ToSet(pendingAgent) \subseteq Turns
      BY <2>1, ContainsIsIn
    <2> QED
      BY <2>3, <2>4 DEF Waiting, RunsInv, Fresh
  <1> QED
    BY <1>1, <1>2, TellStarts

LEMMA TurnInputTell == ASSUME TypeOK, RunsInv, OwedInv, TellInv, TurnInput PROVE TellInv'
  <1>1. /\ active \in Turns /\ active # None /\ DrainInto(active)
        /\ UNCHANGED <<journal, carried, stop>>
    BY DEF TurnInput, At, TypeOK
  <1>2. CASE Drains(active)
    <2>1. UNCHANGED <<active, status>> /\ ToSet(queue') = {}
      BY <1>2 DEF TurnInput, NothingToSay, Drains, ToSet
    <2>2. ASSUME NEW i \in Inputs \ Presses PROVE OneTelling(i)'
      <3>1. \A t \in Turns : Counted(t, i)' <=> Counted(t, i)
        BY <1>1, <2>1 DEF Counted, Told
      <3>2. i \in ToSet(receipt'[active]) => \A t \in Turns : ~Counted(t, i)
        BY <1>2, <2>2 DEF Drains, TellInv, OneTelling
      <3> QED
        BY <2>1, <2>2, <3>1, <3>2 DEF TellInv, OneTelling
    <2> QED
      BY <2>2 DEF TellInv
  <1>3. CASE UNCHANGED inputs /\ NothingToSay(active)
    <2>1. /\ active' = None /\ ToSet(receipt[active]) = {} /\ UNCHANGED queue
          /\ \A t \in Turns : t # active => status'[t] = status[t]
      BY <1>1, <1>3 DEF TurnInput, Gone, NothingToSay, Settles, TypeOK, ToSet, inputs
    <2>2. carried[active] = {}
      BY <1>1, <2>1 DEF RunsInv
    <2>3. ASSUME NEW i \in Inputs \ Presses PROVE OneTelling(i)'
      <3>1. \A t \in Turns : Counted(t, i)' <=> Counted(t, i)
        BY <1>1, <2>1, <2>2 DEF Counted, Told
      <3> QED
        BY <2>1, <2>3, <3>1 DEF TellInv, OneTelling, Holds
    <2> QED
      BY <2>3 DEF TellInv
  <1>4. CASE UNCHANGED inputs /\ ~NothingToSay(active)
    <2>1. UNCHANGED <<active, status, queue, receipt>>
      BY <1>4 DEF TurnInput, inputs
    <2> QED
      BY <1>1, <2>1 DEF TellInv, OneTelling, Holds, Counted, Told
  <1> QED
    BY <1>1, <1>2, <1>3, <1>4, DrainEffect

\* The model is called: what a Turn of the person tells, it holds.
LEMMA SendTell == ASSUME TypeOK, RunsInv, TellInv, SendTurn \/ ModelCalled PROVE TellInv'
  <1>1. /\ active \in Turns /\ active # None
        /\ UNCHANGED <<active, receipt, queue, stop, status>>
    BY DEF SendTurn, ModelCalled, At, TypeOK, inputs
  <1>2. /\ \A u \in Turns : u # active => journal'[u] = journal[u] /\ carried'[u] = carried[u]
        /\ journal'[active] = "sent" => UNCHANGED carried
    BY <1>1 DEF SendTurn, ModelCalled, TypeOK
  <1>3. status[active] = "running" /\ carried[active] \subseteq ToSet(receipt[active])
    BY <1>1 DEF RunsInv
  <1>4. ASSUME NEW i \in Inputs \ Presses PROVE OneTelling(i)'
    <2>1. Holds(i)' <=> Holds(i)
      BY <1>1 DEF Holds
    <2>2. \A t \in Turns : Counted(t, i)' => Counted(t, i) \/ (t = active /\ Holds(i))
      <3> PICK a \in Turns : a = active
        BY <1>1
      <3>1. \A t \in Turns : t # active => (Counted(t, i)' <=> Counted(t, i))
        BY <1>1, <1>2 DEF Counted, Told
      <3>2. Counted(a, i)' => Holds(i)
        <4>1. Counted(a, i)' => i \in ToSet(receipt[active]) /\ active \in Chats
          BY <1>1, <1>2, <1>3 DEF Counted, Told
        <4>2. active \in Chats => active \notin Deliveries
          BY DistinctAssumption
        <4> QED
          BY <1>1, <4>1, <4>2 DEF Holds
      <3> QED
        BY <3>1, <3>2
    <2>3. Holds(i) => i \notin ToSet(queue) /\ \A t \in Turns : Counted(t, i) => t = active
      BY <1>1, <1>4 DEF TellInv, OneTelling, Holds
    <2> QED
      BY <1>1, <1>4, <2>1, <2>2, <2>3 DEF TellInv, OneTelling
  <1> QED
    BY <1>4 DEF TellInv

\* A Turn that ends: one that completed has told what it held, one that fails
\* gives back what nobody else was told.
LEMMA EndTell ==
  ASSUME TypeOK, RunsInv, OwedInv, TellInv, active # None,
         TurnCompletes \/ TurnYields \/ Fails(active)
  PROVE  TellInv'
  <1>1. /\ active \in Turns /\ status[active] = "running" /\ active' = None
        /\ carried[active] \subseteq ToSet(receipt[active])
        /\ UNCHANGED <<receipt, carried, journal>>
    BY DEF TurnCompletes, TurnYields, Fails, Queues, RunsInv, TypeOK, Gone
  <1>2. /\ \A t \in Turns : t # active => status'[t] = status[t]
        /\ status'[active] = "completed" => ~stop[active] /\ ~Fails(active)
    BY <1>1 DEF TurnCompletes, TurnYields, Fails, Settles, TypeOK
  <1>3. active \in Chats => active \notin Deliveries
    BY DistinctAssumption
  <1>4. ASSUME NEW i \in Inputs \ Presses PROVE OneTelling(i)'
    <2> PICK a \in Turns : a = active
      BY <1>1
    <2>1. ~Holds(i)'
      BY <1>1 DEF Holds
    <2>2. \A t \in Turns : t # active => (Counted(t, i)' <=> Counted(t, i))
      BY <1>1, <1>2 DEF Counted, Told
    <2>3. Counted(a, i)' => Holds(i) /\ (active \in Chats \/ ~Fails(active))
      BY <1>1, <1>2, <1>3 DEF Counted, Told, Holds
    <2>4. Holds(i) => i \notin ToSet(queue) /\ \A t \in Turns : Counted(t, i) => t = active
      BY <1>4 DEF TellInv, OneTelling, Holds
    <2>5. \A t, u \in Turns : Counted(t, i)' /\ Counted(u, i)' => t = u
      BY <1>4, <2>2, <2>3, <2>4 DEF TellInv, OneTelling
    <2>6. i \in ToSet(queue') => \A t \in Turns : ~Counted(t, i)'
      <3>1. CASE i \in ToSet(queue)
        BY <1>1, <1>4, <2>2, <2>3, <2>4, <3>1 DEF TellInv, OneTelling
      <3>2. CASE i \notin ToSet(queue) /\ TurnYields
        <4>1. ToSet(queue') = ToSet(queue) \cup {Yielded(active)}
          BY <1>1, <3>2, YieldedSet DEF TurnYields, Queues
        <4>2. Yielded(active) \notin owed
          BY <1>1 DEF OwedInv
        <4> QED
          BY <2>2, <2>3, <3>2, <4>1, <4>2, NotOwed
      <3>3. CASE i \notin ToSet(queue) /\ TurnCompletes
        BY <3>3 DEF TurnCompletes
      <3>4. CASE i \notin ToSet(queue) /\ Fails(active)
        <4>1. GivesBack(active) \in Seq(Inputs) /\ queue \in Seq(Inputs)
          BY <1>1 DEF TypeOK, GivesBack
        <4>2. ToSet(queue \o GivesBack(active)) = ToSet(queue) \cup ToSet(GivesBack(active))
          BY <4>1, JoinedSet
        <4>3. i \in ToSet(queue') => active \in Deliveries /\ i \in ToSet(receipt[active])
          BY <3>4, <4>2 DEF Fails, RequeueUnseen, GivesBack, ToSet
        <4>4. active \in Deliveries /\ i \in ToSet(receipt[active]) => \A t \in Turns : ~Counted(t, i)'
          BY <1>1, <1>3, <1>4, <2>2, <2>3, <3>4 DEF TellInv, OneTelling
        <4> QED
          BY <4>3, <4>4
      <3> QED
        BY <3>1, <3>2, <3>3, <3>4
    <2> QED
      BY <1>1, <2>1, <2>5, <2>6 DEF OneTelling
  <1> QED
    BY <1>4 DEF TellInv

LEMMA StopTell == ASSUME TypeOK, RunsInv, TellInv, NEW t \in Turns, Stop(t) PROVE TellInv'
  <1>1. /\ UNCHANGED <<journal, carried, status, active, receipt>> /\ status[t] = "running"
        /\ stop'[t] = TRUE /\ \A u \in Turns : u # t => stop'[u] = stop[u]
    BY DEF Stop, Queues, inputs, TypeOK
  <1>2. ASSUME NEW i \in Inputs \ Presses PROVE OneTelling(i)'
    <2>1. \A u \in Turns : Counted(u, i)' <=> Counted(u, i)
      BY <1>1 DEF Counted, Told
    <2>2. Holds(i)' => Holds(i) /\ ~(t = active /\ t \in Deliveries)
      <3>1. active # None => active \in Turns
        BY DEF TypeOK
      <3> QED
        BY <1>1, <3>1 DEF Holds
    <2>3. CASE t = active /\ t \in Deliveries
      <3>1. receipt[t] \in Seq(Inputs) /\ queue \in Seq(Inputs)
        BY DEF TypeOK
      <3>2. ToSet(queue') \subseteq ToSet(queue) \cup ToSet(receipt[t])
        BY <3>1, RequeueSet DEF Stop, Queues, inputs
      <3>3. ~Counted(t, i)
        BY <1>1, <2>3, DistinctAssumption DEF Counted
      <3>4. t # None
        BY DistinctAssumption
      <3>5. i \in ToSet(queue') => \A u \in Turns : ~Counted(u, i)
        BY <1>2, <2>3, <3>2, <3>3, <3>4 DEF TellInv, OneTelling
      <3> QED
        BY <1>1, <1>2, <2>1, <2>2, <2>3, <3>5 DEF TellInv, OneTelling
    <2>4. CASE ~(t = active /\ t \in Deliveries)
      <3>1. t \in Deliveries => receipt[t] = <<>>
        BY <1>1, <2>4 DEF RunsInv, Fresh
      <3>2. queue \in Seq(Inputs) /\ <<>> \in Seq(Inputs) /\ ToSet(<<>>) = {}
        BY DEF TypeOK, ToSet
      <3>3. ToSet(queue') \subseteq ToSet(queue)
        BY <3>1, <3>2, RequeueSet DEF Stop, StopGivesBack, Queues, inputs
      <3> QED
        BY <1>1, <1>2, <2>1, <2>2, <3>3 DEF TellInv, OneTelling
    <2> QED
      BY <2>3, <2>4
  <1> QED
    BY <1>2 DEF TellInv

LEMMA OnceStep ==
  TypeOK /\ RunsInv /\ OwedInv /\ TellInv /\ [Next]_vars => OwedInv' /\ TellInv'
  <1> SUFFICES ASSUME TypeOK, RunsInv, OwedInv, TellInv, [Next]_vars PROVE OwedInv' /\ TellInv'
    OBVIOUS
  <1>1. CASE UNCHANGED <<runs, inputs, decision>>
    BY <1>1 DEF runs, inputs, OwedInv, TellInv, OneTelling, Holds, Counted, Told
  <1>2. CASE UNCHANGED vars \/ Evict
    BY <1>1, <1>2 DEF vars, Evict
  <1>3. CASE active # None /\ Fails(active)
    BY <1>3, EndOwed, EndTell
  <1>4. CASE Promote
    BY <1>4, PromoteTell DEF Promote, OwedInv, inputs
  <1>5. CASE TurnSteps
    <2>1. CASE TurnDefers \/ Recover \/ TurnFails
      BY <1>1, <1>3, <2>1 DEF TurnDefers, Recover, TurnFails, At
    <2>2. CASE TurnCompletes \/ TurnYields
      BY <2>2, EndOwed, EndTell DEF TurnCompletes, TurnYields, At
    <2> QED
      BY <1>4, <1>5, <2>1, <2>2, TurnInputOwed, TurnInputTell, SendOwed, SendTell DEF TurnSteps
  <1>6. CASE Admission
    <2>1. OwedInv'
      BY <1>6, AdmissionAccepts, AcceptOwed
    <2>2. TellInv'
      <3>1. CASE RunsApart
        BY <1>6, <3>1, AdmissionAccepts, TellApart DEF Produces, inputs
      <3> QED
        BY <1>6, <3>1, AdmissionAccepts, AcceptTell
    <2> QED
      BY <2>1, <2>2
  <1>7. CASE OwedInv' /\ Produces /\ RunsApart
    BY <1>7, TellApart
  <1>8. CASE Producers
    <2>1. CASE \E a \in Approvals : \/ \E d \in {"approved", "denied"} : Decide(a, d)
                                    \/ Expire(a) \/ Dispatch(a)
      BY <1>7, <2>1, ApprovalOwed, ProducersApart
    <2>2. CASE (\E p \in Presses : Press(p)) \/ \E w \in Handoffs \cup Tasks : HandOff(w)
      <3>1. \A w \in Handoffs \cup Tasks : w \notin Presses
        BY Members, DistinctAssumption
      <3> QED
        BY <1>7, <2>2, <3>1, ProducerOwed, ProducersApart
    <2>3. CASE ReadHandoffs \/ DeliverHandoffs \/ \E i \in Opening : CheckWaiting(i)
      BY <1>7, <2>3, HandoffsOwed, ProducersApart
    <2> QED
      BY <1>6, <1>8, <2>1, <2>2, <2>3 DEF Producers, Admission
  <1>9. CASE (\E c \in Chats : Chat(c)) \/ \E t \in Turns : Stop(t)
    BY <1>6, <1>9, StopOwed, StopTell DEF Admission
  <1> QED
    BY <1>2, <1>5, <1>8, <1>9 DEF Next

\* The Bot is told once: no Turn has an input twice, and what a completed
\* delivery or a Turn of the person was told, no other such Turn is told.
THEOREM BotIsToldOnce == Spec => []ToldOnce
  <1>1. Init => OwedInv /\ TellInv
    <2> SUFFICES ASSUME Init PROVE OwedInv /\ TellInv
      OBVIOUS
    <2>1. ToSet(<<>>) = {} /\ IsInjective(<<>>)
      BY DEF ToSet, IsInjective
    <2>2. \A t \in Turns : \A i : ~Counted(t, i)
      BY DEF Init, Counted, Told
    <2> QED
      BY <2>1, <2>2 DEF Init, OwedInv, TellInv, OneTelling
  <1>2. TypeOK /\ OwedInv /\ TellInv => ToldOnce
    <2> SUFFICES ASSUME TypeOK, OwedInv, TellInv PROVE ToldOnce
      OBVIOUS
    <2>1. ASSUME NEW t \in Turns PROVE Cardinality(ToSet(receipt[t])) = Len(receipt[t])
      <3>1. receipt[t] \in Seq(Inputs) /\ IsInjective(receipt[t])
        BY DEF TypeOK, OwedInv
      <3> QED
        BY <3>1, DifferentAreCounted
    <2>2. ASSUME NEW i \in Inputs \ Presses
          PROVE  Cardinality({t \in Turns : i \in Told(t) /\ (t \in Chats \/ status[t] = "completed")}) <= 1
      <3> DEFINE C == {t \in Turns : i \in Told(t) /\ (t \in Chats \/ status[t] = "completed")}
      <3>1. \A t, u \in C : t = u
        BY <2>2 DEF TellInv, OneTelling, Counted
      <3> HIDE DEF C
      <3>2. C = {} \/ \E t : C = {t}
        BY <3>1
      <3>3. Cardinality({}) = 0 /\ \A t : Cardinality({t}) = 1
        BY FS_EmptySet, FS_Singleton
      <3>4. Cardinality(C) <= 1
        BY <3>2, <3>3
      <3> QED
        BY <3>4 DEF C
    <2> QED
      BY <2>1, <2>2 DEF ToldOnce
  <1> QED
    BY <1>1, <1>2, TypesHold, RunsFirst, RunsStep, OnceStep, PTL DEF Spec
===============================================================================
