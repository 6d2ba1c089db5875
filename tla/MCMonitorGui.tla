---------------------------- MODULE MCMonitorGui ----------------------------
(***************************************************************************)
(* MonitorGui with small budgets, for TLC: one vehicle with everything the *)
(* user can do, or two with photographs and a click.                       *)
(***************************************************************************)
EXTENDS MonitorGui

CONSTANTS v1, v2

MCBudgets ==
  {[vehicles |-> {v1}, captures |-> 2, clicks |-> 1, settings |-> 1],
   [vehicles |-> {v1, v2}, captures |-> 2, clicks |-> 1, settings |-> 0],
   [vehicles |-> {v1, v2}, captures |-> 3, clicks |-> 0, settings |-> 0]}
=============================================================================
