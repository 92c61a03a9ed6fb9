------------------------------- MODULE AuditPage -------------------------------
(***************************************************************************)
(* The audit log page (app/admin/audit/page.tsx) over GET /audit           *)
(* (routers/audit.py).  The number of the page lives in the address, the   *)
(* filters in the state of the component, which reads the address only     *)
(* when it is mounted; the two are kept together by pushFilters, and come  *)
(* apart on the way back.  The two dates are filters like the action; what *)
(* the server makes of a date is not modelled.                             *)
(***************************************************************************)
EXTENDS Calls, Sequences

CONSTANTS
    AuditLog,         \* the entries, newest first
    AuditPageSize,    \* 50 in the code
    MaxAuditClicks    \* bound: clicks and words typed

ASSUME AuditAssumption == AuditPageSize \in Nat \ {0}

VARIABLES
    auditPage,     \* the address and the React state of the page
    auditNet       \* its requests

auditVars == <<auditPage, auditNet>>

NoAuditFilter == [action |-> "", user |-> ""]

Found(f) ==
    SelectSeq(AuditLog, LAMBDA e : (f.action # "" => e.action = f.action) /\ (f.user # "" => e.user = f.user))

\* get_audit_log: the entries of the page and the number of pages.
AuditAnswer(n, f) ==
    LET all == Found(f)
        first == (n - 1) * AuditPageSize + 1
        last == IF n * AuditPageSize < Len(all) THEN n * AuditPageSize ELSE Len(all)
        pages == (Len(all) + AuditPageSize - 1) \div AuditPageSize
    IN [entries |-> SubSeq(all, first, last), page |-> n, pages |-> IF pages = 0 THEN 1 ELSE pages]

\* The page is opened at an address: the filters are read from it.
OpenAt(url) == [url |-> url, filters |-> url.filters, going |-> None, back |-> None, loading |-> TRUE, typing |-> FALSE,
                shown |-> [entries |-> <<>>, page |-> 1, pages |-> 1], clicks |-> 0, calm |-> TRUE]

Address(n, f) == [page |-> n, filters |-> f]

AuditInit ==
    /\ \E n \in {1, 2} : auditPage = OpenAt(Address(n, NoAuditFilter))
    /\ auditNet = Send(NoCalls, "audit", auditPage.url)

PressAudit == auditPage.clicks < MaxAuditClicks /\ Room(auditNet, 1)
StepAudit == Pressed(auditPage, Quiet(auditNet))

\* load depends on the page of the address and on the filters: when one of them
\* changes its effect asks again, whatever is on its way.
Reload(ui, url, f) ==
    LET same == url.page = auditPage.url.page /\ f = auditPage.filters
    IN /\ auditPage' = [ui EXCEPT !.url = url, !.filters = f, !.loading = @ \/ ~same]
       /\ auditNet' = IF same THEN auditNet ELSE Send(auditNet, "audit", Address(url.page, f))

\* pushFilters: router.push, to the first page.
Push(ui, f) == [ui EXCEPT !.going = Address(1, f)]

SetFilters(f) ==
    /\ PressAudit /\ ~auditPage.typing /\ auditPage.going = None /\ f # auditPage.filters
    /\ Reload(Push(StepAudit, f), auditPage.url, f)

\* The select, and "Clear all".
ChooseAction(a) == SetFilters([auditPage.filters EXCEPT !.action = a])
ClearAudit == SetFilters(NoAuditFilter)

\* Each key is a filter at once, on the page the address has.
TypeAuditUser(u) ==
    /\ PressAudit /\ auditPage.going = None /\ u # auditPage.filters.user
    /\ Reload([StepAudit EXCEPT !.typing = TRUE], auditPage.url, [auditPage.filters EXCEPT !.user = u])

\* Enter or the focus leaving the box.
LeaveUser ==
    /\ auditPage.typing
    /\ auditPage' = [Push(auditPage, auditPage.filters) EXCEPT !.typing = FALSE]
    /\ UNCHANGED auditNet

\* The router gets there: a second read of the same filters, when the page was
\* not the first, and nothing orders the two answers.
Arrive ==
    /\ auditPage.going # None /\ Room(auditNet, 1)
    /\ Reload([auditPage EXCEPT !.going = None, !.back = auditPage.url,
                                !.calm = @ /\ (Quiet(auditNet) \/ auditPage.going.page = auditPage.url.page)],
              auditPage.going, auditPage.filters)

\* Previous and Next are plain links: the page is loaded anew, and no answer of
\* the old one arrives.
FollowLink(n) ==
    /\ PressAudit /\ ~auditPage.typing /\ auditPage.going = None
    /\ ~auditPage.loading /\ n \in {auditPage.shown.page - 1, auditPage.shown.page + 1}
    /\ n \in 1..auditPage.shown.pages /\ auditPage.shown.entries # <<>>
    /\ LET url == Address(n, auditPage.filters)
       IN /\ auditPage' = [OpenAt(url) EXCEPT !.clicks = auditPage.clicks + 1, !.calm = auditPage.calm]
          /\ auditNet' = Send(NoCalls, "audit", url)

\* The browser's Back: the address changes, the filters do not.
GoBack ==
    /\ PressAudit /\ ~auditPage.typing /\ auditPage.going = None /\ auditPage.back # None
    /\ Reload([StepAudit EXCEPT !.back = None, !.calm = FALSE], auditPage.back, auditPage.filters)

ServeAudit(i) ==
    /\ Sent(auditNet, i, "audit")
    /\ auditNet' = Reply(auditNet, i, AuditAnswer(auditNet[i].arg.page, auditNet[i].arg.filters))
    /\ UNCHANGED auditPage

AuditRead(i) ==
    /\ Settled(auditNet, i, "audit")
    /\ auditPage' = [auditPage EXCEPT !.loading = FALSE, !.calm = @ /\ Ok(auditNet, i, "audit"),
                                      !.shown = IF Ok(auditNet, i, "audit") THEN auditNet[i].out ELSE @]
    /\ auditNet' = Done(auditNet, i)

AuditCallFails(i) ==
    /\ CanFail(auditNet, i)
    /\ auditNet' = Fail(auditNet, i)
    /\ auditPage' = Missed(auditPage, auditNet, i)

AuditNext ==
    \/ \E a \in {"", "user"} : ChooseAction(a)
    \/ \E u \in {"", "a"} : TypeAuditUser(u)
    \/ LeaveUser \/ ClearAudit \/ Arrive \/ GoBack
    \/ \E n \in 1..Len(AuditLog) : FollowLink(n)
    \/ \E i \in Slot : ServeAudit(i) \/ AuditRead(i) \/ AuditCallFails(i)

-----------------------------------------------------------------------------
(* Correctness *)

\* Once nothing is in flight the page shows what the server answers for the page
\* of the address and the filters on screen; provided one thing was done at a
\* time and no answer was lost.
AuditShown ==
    auditPage.calm /\ Quiet(auditNet) /\ auditPage.going = None =>
        auditPage.shown = AuditAnswer(auditPage.url.page, auditPage.filters)

\* "No audit log entries match these filters." (page.tsx:243) is said only when
\* none does: a filter never leaves the user on a page beyond the last; but for
\* the keys of a word still being typed, and the way back.
EmptyMeansNone ==
    /\ auditPage.calm /\ Quiet(auditNet) /\ ~auditPage.typing /\ auditPage.going = None
    /\ auditPage.shown.entries = <<>>
    => Found(auditPage.filters) = <<>>

\* The page says it is loading only while it waits for an answer.
AuditSpinners == Quiet(auditNet) => ~auditPage.loading
===============================================================================
