---------------------------- MODULE MCReportsPage ----------------------------
(***************************************************************************)
(* An instance of ReportsPage for TLC.  The dialog covers the table, so a  *)
(* behaviour is one in which it is opened, with one run, or one in which   *)
(* it is not, with as many runs as there may be.                           *)
(***************************************************************************)
EXTENDS ReportsPage

VARIABLE focus

MCInit == ReportsInit /\ focus \in {"table", "dialog"}

MCNext ==
    /\ ReportsNext /\ UNCHANGED focus
    /\ IF focus = "table" THEN reportPage'.dialog = None ELSE Len(jobs') <= 1

MCSpec == MCInit /\ [][MCNext]_<<reportVars, focus>> /\ ReportsFair
===============================================================================
