-------------------------- MODULE MCOrderSubmission --------------------------
EXTENDS OrderSubmission

CONSTANTS u1, u2, r1, d1, d2, a1, a2, a3

Line(dish, n) == [item |-> dish, quantity |-> n]

\* Two lines, one of them with two units.
OneBasket == {<<Line(d1, 2), Line(d2, 1)>>}

\* The same, and one that is refused.
GoodAndBad == OneBasket \cup {<<>>}
=============================================================================
