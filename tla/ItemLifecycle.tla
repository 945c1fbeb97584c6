---------------------------- MODULE ItemLifecycle ----------------------------
(***************************************************************************)
(* What production-service promises about one production item, with no     *)
(* transactions, locks or messages: an item appears once, moves only along *)
(* the command table, is claimed by the one staff member who picks it up,  *)
(* and every move is announced in the same atomic step, in order.          *)
(***************************************************************************)
EXTENDS Sequences

CONSTANTS Items, Staff, NoStaff

VARIABLES
    status,    \* "none" before the item exists
    claimedBy, \* who picked the item up
    announced  \* the routing keys announced for the item so far

vars == <<status, claimedBy, announced>>

Init ==
    /\ status = [i \in Items |-> "none"]
    /\ claimedBy = [i \in Items |-> NoStaff]
    /\ announced = [i \in Items |-> <<>>]

\* Item i goes from one status to another and key is announced.
Move(i, from, to, key) ==
    /\ status[i] = from
    /\ status' = [status EXCEPT ![i] = to]
    /\ announced' = [announced EXCEPT ![i] = Append(@, key)]

Request(i) ==
    /\ Move(i, "none", "QUEUED", "item.queued")
    /\ UNCHANGED claimedBy

Pickup(i, s) ==
    /\ Move(i, "QUEUED", "IN_PROGRESS", "item.in_progress")
    /\ claimedBy[i] = NoStaff
    /\ claimedBy' = [claimedBy EXCEPT ![i] = s]

Block(i) ==
    /\ \E from \in {"QUEUED", "IN_PROGRESS"} : Move(i, from, "BLOCKED", "item.blocked")
    /\ UNCHANGED claimedBy

Resume(i) ==
    /\ Move(i, "BLOCKED", "IN_PROGRESS", "item.resumed")
    /\ UNCHANGED claimedBy

Finish(i) ==
    /\ Move(i, "IN_PROGRESS", "READY", "item.ready")
    /\ UNCHANGED claimedBy

Next ==
    \E i \in Items :
        \/ Request(i)
        \/ \E s \in Staff : Pickup(i, s)
        \/ Block(i)
        \/ Resume(i)
        \/ Finish(i)

Spec == Init /\ [][Next]_vars
=============================================================================
