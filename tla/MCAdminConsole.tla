---------------------------- MODULE MCAdminConsole ----------------------------
\* A console small enough for TLC: what its pages find on the server.
EXTENDS AdminConsole

\* Two edits of one action and one of another.
Change(id, by, actor, corr) ==
    [id |-> id, by |-> by, actor |-> actor, corr |-> corr, of |-> None, reverted |-> FALSE]
Changes == {Change(1, "user", "a", 1), Change(2, "user", "a", 1), Change(3, "ai", "b", 3)}

\* Three entries, shown one to a page.
Entry3(id, action, user) == [id |-> id, action |-> action, user |-> user]
Audit == <<Entry3(3, "user", "a"), Entry3(2, "role", "b"), Entry3(1, "user", "b")>>

Attempts == {[id |-> 1, source |-> "t", failed |-> TRUE], [id |-> 2, source |-> "u", failed |-> FALSE]}

\* "d" is a dashboard, "x" leads out of the portal, "o" is a path with a space in it.
Places == [t \in {"d", "x", "o"} |-> [section |-> IF t = "x" THEN "external" ELSE "dashboards",
                                      resource |-> IF t = "d" THEN "d" ELSE None]]
Visitors == {[admin |-> TRUE, features |-> {}, resources |-> {}],
             [admin |-> FALSE, features |-> {"dashboards"}, resources |-> {"d"}]}

\* The default, a link, and a menu that is as full as the API allows.
To(t) == [to |-> t, padded |-> FALSE]
Navigations == {<<>>, <<LinkItem("short", To("d"))>>, <<Dropdown("short", <<Entry("short", To("x"))>>)>>}
===============================================================================
