------------------------------ MODULE TurnSlot ------------------------------
(***************************************************************************)
(* What the Turn authority promises its callers, with none of its storage: *)
(* an admitted Turn waits or works, one Turn works at a time, a working    *)
(* Turn may be set aside and taken up again, and a settled Turn is settled *)
(* for good.  Nothing that was admitted disappears.                        *)
(***************************************************************************)
CONSTANT Turns
VARIABLE place   \* "absent", "waiting", "working" or "settled"

Idle == \A t \in Turns : place[t] # "working"

Init == place = [t \in Turns |-> "absent"]

Move(t, from, to) == place[t] \in from /\ place' = [place EXCEPT ![t] = to]

AdmitWaiting(t) == Move(t, {"absent"}, "waiting")
AdmitWorking(t) == Idle /\ Move(t, {"absent"}, "working")
Refuse(t) == Move(t, {"absent"}, "settled")
Start(t) == Idle /\ Move(t, {"waiting"}, "working")
SetAside(t) == Move(t, {"working"}, "waiting")
Settle(t) == Move(t, {"waiting", "working"}, "settled")

Next == \E t \in Turns :
  \/ AdmitWaiting(t) \/ AdmitWorking(t) \/ Refuse(t)
  \/ Start(t) \/ SetAside(t) \/ Settle(t)

Spec == Init /\ [][Next]_place

=============================================================================
