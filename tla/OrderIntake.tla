----------------------------- MODULE OrderIntake -----------------------------
(***************************************************************************)
(* What orders-service promises its callers: a register of orders in which *)
(* the first order placed under a (user, requestId) stays the only one,    *)
(* and which asks for all units of an order in the step that places it.    *)
(***************************************************************************)
CONSTANTS Attempts,        \* the calls
          Orders,          \* the orders they may place
          Untold,          \* a call has not been told of an order
          Key(_),          \* the request an order is for
          EventsFor(_, _)  \* what is asked for when an attempt places an order

VARIABLES placed,    \* the orders placed so far
          requested, \* the item requests made for them
          told       \* the order each attempt was told of, if any

vars == <<placed, requested, told>>

Init == placed = {} /\ requested = {} /\ told = [a \in Attempts |-> Untold]

\* Attempt a places its order; its caller may not get to know.
Place(a, o) ==
    /\ o.id = a
    /\ \A p \in placed : Key(p) # Key(o)
    /\ placed' = placed \cup {o}
    /\ requested' = requested \cup EventsFor(o, a)
    /\ \/ told' = told
       \/ told[a] = Untold /\ told' = [told EXCEPT ![a] = o.id]

\* An attempt is told of an order placed before.
Tell(a, o) ==
    /\ o \in placed
    /\ told[a] = Untold
    /\ told' = [told EXCEPT ![a] = o.id]
    /\ UNCHANGED <<placed, requested>>

Next ==
    \E a \in Attempts :
        \/ \E o \in Orders : Place(a, o)
        \/ \E o \in placed : Tell(a, o)

Spec == Init /\ [][Next]_vars
=============================================================================
