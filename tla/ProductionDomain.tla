-------------------------- MODULE ProductionDomain --------------------------
(***************************************************************************)
(* The pure rules of production-service: the statuses, the command table   *)
(* of internal/domain/transitions.go and the order status derived from the *)
(* items' statuses in internal/domain/status.go.                           *)
(***************************************************************************)
EXTENDS Naturals, FiniteSets

Statuses == {"QUEUED", "IN_PROGRESS", "BLOCKED", "READY", "CANCELLED"}

Commands == {"pickup", "block", "resume", "ready"}

\* Faulty variant: a finished item may be blocked again.
validTransitionsReopen ==
    { <<"QUEUED",      "pickup", "IN_PROGRESS">>,
      <<"QUEUED",      "block",  "BLOCKED">>,
      <<"IN_PROGRESS", "ready",  "READY">>,
      <<"IN_PROGRESS", "block",  "BLOCKED">>,
      <<"READY",       "block",  "BLOCKED">>,
      <<"BLOCKED",     "resume", "IN_PROGRESS">> }

\* The only moves a command may make: <<from, command, to>>.
validTransitions ==
    { <<"QUEUED",      "pickup", "IN_PROGRESS">>,
      <<"QUEUED",      "block",  "BLOCKED">>,
      <<"IN_PROGRESS", "ready",  "READY">>,
      <<"IN_PROGRESS", "block",  "BLOCKED">>,
      <<"BLOCKED",     "resume", "IN_PROGRESS">> }

\* ItemStatusCounts of the items of S: how many are in each status.  An item
\* that has no row (yet) is in no status and is counted nowhere.
ItemStatusCounts(S, status) ==
    [s \in Statuses |-> Cardinality({i \in S : status[i] = s})]

\* The counts of an order that has no item.
NoCounts == [s \in Statuses |-> 0]

DeriveOrderStatus(c) ==
    LET active == c["QUEUED"] + c["IN_PROGRESS"] + c["BLOCKED"] + c["READY"]
    IN  CASE active = 0 /\ c["CANCELLED"] > 0            -> "CANCELLED"
          [] active > 0 /\ active = c["READY"]           -> "READY"
          [] active # c["READY"] /\ c["BLOCKED"] > 0     -> "BLOCKED"
          [] /\ active # c["READY"]
             /\ c["BLOCKED"] = 0
             /\ c["IN_PROGRESS"] > 0 \/ c["READY"] > 0   -> "IN_PROGRESS"
          [] OTHER                                       -> "QUEUED"
=============================================================================
