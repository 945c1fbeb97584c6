---------------------------- MODULE MCStaffBoard ----------------------------
EXTENDS StaffBoard

CONSTANTS a1, b1, A, B

\* Two orders of one item; the item of one is anywhere in its life.
OneItemEach == [i \in {a1, b1} |-> IF i = a1 THEN A ELSE B]
AnyAndQueued == {[i \in {a1, b1} |-> IF i = a1 THEN status ELSE "QUEUED"] :
                    status \in {"QUEUED", "IN_PROGRESS", "BLOCKED", "READY"}}
=============================================================================
