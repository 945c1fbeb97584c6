------------------------- MODULE MCProductionService -------------------------
EXTENDS ProductionService, TLC

CONSTANTS o1, i1, i2, e1, e2, s1, s2

Perms == Permutations(Staff)

\* Two units of one order, each asked for by one event.
OneOrder     == i1 :> o1 @@ i2 :> o1
OneEventEach == e1 :> i1 @@ e2 :> i2

\* An order of a single unit, asked for under two event ids.
OneItem   == i1 :> o1
TwoEvents == e1 :> i1 @@ e2 :> i1
=============================================================================
