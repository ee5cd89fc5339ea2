-------------------------------- MODULE Stats --------------------------------
(***************************************************************************)
(* Reports to StatsD (QStats in stats.ts): one client at a time, made anew *)
(* after an error, a time-out of a report or the reset interval.           *)
(***************************************************************************)
EXTENDS Integers

CONSTANT Reporter   \* who reports; each does so once

NoImpl == 0

VARIABLES
    client,       \* StatsD clients: how many were made, which is impl, whose sockets are open
    resetDue,     \* resetTime has passed
    report,       \* of each reporter: none, sent, returned
    reportTimers, \* the reporters whose timeoutTimer is armed
    overdue       \* how many callbacks may come after the time-out of their report

statsVars == <<client, resetDue, report, reportTimers, overdue>>

StatsInit ==
    /\ client = [made |-> 0, impl |-> NoImpl, open |-> {}]
    /\ resetDue = FALSE
    /\ report = [r \in Reporter |-> "none"]
    /\ reportTimers = {} /\ overdue = 0

\* Mutant of DropImpl: the client is forgotten and its socket left.
DropImplUnclosed(c) == [c EXCEPT !.impl = NoImpl]

\* dropImpl()
DropImpl(c) == [made |-> c.made, impl |-> NoImpl, open |-> c.open \ {c.impl}]

\* ensureImpl()
EnsureImpl(c) ==
    IF c.impl # NoImpl THEN c
    ELSE [made |-> c.made + 1, impl |-> c.made + 1, open |-> c.open \cup {c.made + 1}]

Returns(r) == report' = [report EXCEPT ![r] = "returned"] /\ reportTimers' = reportTimers \ {r}

\* Mutant of Report: the time-out is set for the connection, not for the report.
ReportTimedWhenNew(r) ==
    /\ report[r] = "none"
    /\ LET c == EnsureImpl(IF resetDue THEN DropImpl(client) ELSE client)
       IN \/ /\ client' = c /\ report' = [report EXCEPT ![r] = "sent"]
             /\ reportTimers' = IF c.made > client.made THEN reportTimers \cup {r} ELSE reportTimers
          \/ client' = DropImpl(c) /\ Returns(r)
    /\ resetDue' = FALSE /\ UNCHANGED overdue

\* withImpl(), up to the promise it returns.  Making a client or sending may throw.
Report(r) ==
    /\ report[r] = "none"
    /\ LET c == EnsureImpl(IF resetDue THEN DropImpl(client) ELSE client)
       IN \/ /\ client' = c /\ report' = [report EXCEPT ![r] = "sent"] /\ reportTimers' = reportTimers \cup {r}
          \/ client' = DropImpl(c) /\ Returns(r)
    /\ resetDue' = FALSE /\ UNCHANGED overdue

\* The callback of a report: its error drops the client there is now.
Called(r) ==
    /\ report[r] = "sent" /\ Returns(r)
    /\ client' \in {client, DropImpl(client)}
    /\ UNCHANGED <<resetDue, overdue>>

\* The callback of a report that has timed out.
CalledLate ==
    /\ overdue > 0 /\ overdue' = overdue - 1
    /\ client' \in {client, DropImpl(client)}
    /\ UNCHANGED <<resetDue, report, reportTimers>>

\* "It was confirmed that StatsD lib sometimes hangs and we need this timeout".
TimeOut(r) ==
    /\ r \in reportTimers /\ Returns(r)
    /\ client' = DropImpl(client) /\ overdue' = overdue + 1
    /\ UNCHANGED resetDue

\* An error of an open socket drops the client there is now.
SocketError ==
    /\ client.open # {}
    /\ client' = DropImpl(client)
    /\ UNCHANGED <<resetDue, report, reportTimers, overdue>>

ResetIsDue == resetDue' = TRUE /\ UNCHANGED <<client, report, reportTimers, overdue>>

StatsNext ==
    \/ \E r \in Reporter : Called(r) \/ TimeOut(r)
    \/ CalledLate \/ SocketError \/ ResetIsDue

-----------------------------------------------------------------------------
(* Property *)

\* Whatever hangs, fails or answers late, and whichever client an error is of,
\* the client reports go to has its socket open, and no other socket is left open.
OneSocket == client.open = {client.impl} \ {NoImpl}
=============================================================================
