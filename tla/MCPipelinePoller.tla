--------------------------- MODULE MCPipelinePoller ---------------------------
(***************************************************************************)
(* An instance of PipelinePoller for TLC.  Runs and conditions meet only in *)
(* that the tick that polls the ones checks the others, so a behaviour is  *)
(* one in which runs are started, or one in which the sources of the       *)
(* conditions change.                                                      *)
(***************************************************************************)
EXTENDS PipelinePoller

CONSTANTS p1, p2, c1, d1

VARIABLE focus

\* Of one pipeline, a run that succeeds and two that fail.
MCConnOf == [r \in Run |-> c1]
MCKeyOf == [r \in Run |-> [pipeline |-> "a", kind |-> IF r = 1 THEN "success" ELSE "failure"]]

\* Everything, throttled, with quiet hours for successes; and failures only, on or off.
MCSettings ==
    {[enabled |-> TRUE, wants |-> {MCKeyOf[r] : r \in Run}, holds |-> {"success"}, throttle |-> TRUE]}
    \cup {[enabled |-> on, wants |-> {MCKeyOf[2]}, holds |-> {}, throttle |-> FALSE] : on \in BOOLEAN}

MCInit == Init /\ focus \in {"runs", "conditions"}

MCNext ==
    /\ Next /\ UNCHANGED focus
    /\ IF focus = "runs" THEN world'.idle = {} /\ \A c \in Cond : conds'[c].due => conds[c].due
       ELSE UNCHANGED runs /\ world'.quiet = world.quiet /\ \A c \in Conn : configs'[c].set = configs[c].set

MCSpec == MCInit /\ [][MCNext]_<<vars, focus>>
===============================================================================
