----------------------------- MODULE OrderDomain -----------------------------
(***************************************************************************)
(* What an accepted order asks production for: one event per unit of every *)
(* line (application/ProductionItemRequestedEvents.kt).  An order is a     *)
(* record with the id of its row, its (user, requestId) key and its lines; *)
(* the number of a line is its position.                                   *)
(***************************************************************************)
EXTENDS FiniteSetsExt, Sequences

\* Faulty variant: (0 until quantity).
UnitsFromZero(lines) ==
    UNION {{k} \X (0..(lines[k].quantity - 1)) : k \in DOMAIN lines}

\* The units of an order: line number and unitSequence.
Units(lines) == UNION {{k} \X (1..lines[k].quantity) : k \in DOMAIN lines}

\* Faulty variant: the lines are counted, not the units.
TotalItemCountOfLines(lines) == Len(lines)

TotalItemCount(lines) == MapThenSumSet(LAMBDA k : lines[k].quantity, DOMAIN lines)

\* The outbox rows for order o, built by attempt a; every call makes new
\* event ids.
EventsFor(o, a) ==
    {[eventId |-> <<a, u>>, order |-> o.id, line |-> u[1], unit |-> u[2],
      total |-> TotalItemCount(o.lines)] : u \in Units(o.lines)}

Key(o) == <<o.user, o.requestId>>
=============================================================================
