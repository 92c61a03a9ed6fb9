-------------------------------- MODULE RunLog --------------------------------
(***************************************************************************)
(* What the run log promises a reader of the README: a run is queued,      *)
(* started oldest first, settled once as completed or failed, and removed  *)
(* after its retention.  Nothing about loops, locks, files or requests.    *)
(***************************************************************************)
EXTENDS Naturals

CONSTANT JobId        \* a subset of Nat, in the order of creation

VARIABLE log          \* the state of each run

Phase == {"absent", "pending", "running", "completed", "failed", "gone"}

Move(S, phase) == log' = [j \in JobId |-> IF j \in S THEN phase ELSE log[j]]
In(phases) == {j \in JobId : log[j] \in phases}

Submit(S) == S \subseteq In({"absent"}) /\ Move(S, "pending")

Start(j) ==
    /\ j \in In({"pending"})
    /\ \A k \in In({"pending"}) : j <= k
    /\ Move({j}, "running")

Complete(j) == j \in In({"running"}) /\ Move({j}, "completed")
Fail(S) == S \subseteq In({"running"}) /\ Move(S, "failed")
Remove(S) == S \subseteq In({"completed", "failed"}) /\ Move(S, "gone")

Init == log = [j \in JobId |-> "absent"]

Next ==
    \/ \E S \in SUBSET JobId : Submit(S) \/ Fail(S) \/ Remove(S)
    \/ \E j \in JobId : Start(j) \/ Complete(j)

Spec == Init /\ [][Next]_log

Fairness ==
    \A j \in JobId :
        /\ WF_log(Start(j))
        /\ WF_log(Complete(j) \/ \E S \in SUBSET JobId : j \in S /\ Fail(S))
        /\ WF_log(\E S \in SUBSET JobId : j \in S /\ Remove(S))

FairSpec == Spec /\ Fairness
===============================================================================
