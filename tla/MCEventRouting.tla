--------------------------- MODULE MCEventRouting ---------------------------
(* Two small instances of the event router, explored one at a time: two      *)
(* events and one route, where more events wait than a page holds, and one   *)
(* event and two routes, where routes tie or compete.                        *)
EXTENDS EventRouting, TLC
CONSTANTS plain, broken, r2

VARIABLE part

\* Every revision matches every event.  Two routes of the same revision tie; a
\* broken one wins against a plain one, and runFor refuses it.
Ranked == [v \in Revision |-> IF v = plain THEN 0 ELSE 1]
AllMatch == [v \in Revision |-> Event]

\* Nobody defines the second route, or nobody stores the second event.
Small ==
  /\ part = "events" => def[r2] = Nothing /\ ~enabled[r2]
  /\ part = "routes" => status[2] = "absent"

SmallInit == part \in {"events", "routes"} /\ Init /\ Small
SmallNext == Next /\ UNCHANGED part /\ Small'
SmallSpec == SmallInit /\ [][SmallNext]_<<part, vars>> /\ Fairness
=============================================================================
