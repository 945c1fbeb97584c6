--------------------------- MODULE MCOrderHandoff ---------------------------
EXTENDS OrderHandoff

\* An order of two units and an order of one.
TwoOrders ==
    {[id |-> 1, user |-> 7, requestId |-> 1, lines |-> <<[item |-> 1, quantity |-> 2]>>],
     [id |-> 2, user |-> 8, requestId |-> 1, lines |-> <<[item |-> 1, quantity |-> 1]>>]}
=============================================================================
