------------------------------- MODULE MCPortal -------------------------------
\* A portal small enough for TLC: what its pages find on the server.
EXTENDS Portal

\* Two windows of a pipeline's history, in the provider's pages.  Run 1 was
\* started by run 3 on the next page, run 4 by run 2 and run 5 by run 4.
Run(id, parent, status) == [id |-> id, parent |-> parent, status |-> status]
Week == <<<<Run(1, 3, "ok"), Run(2, None, "bad")>>, <<Run(3, None, "ok")>>>>
Month == <<Week[1], <<Run(3, None, "ok"), Run(4, 2, "ok")>>, <<Run(5, 4, "bad")>>>>
History == (7 :> Week) @@ (30 :> Month)

Types == [x \in {"d", "p"} |-> IF x = "p" THEN "page" ELSE "dashboard"]

Embedded == {[conn |-> "b", settings |-> "x"], [conn |-> "c", settings |-> "y"]}
===============================================================================
