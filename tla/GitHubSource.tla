---------------------------- MODULE GitHubSource ----------------------------
(***************************************************************************)
(* images/findings-exporter, githubSource.collect(): the open alerts of    *)
(* each repository, page by page, newest first.  A page is found by its    *)
(* number, so an alert closed or opened between two pages shifts the ones  *)
(* after it.  A page that cannot be read makes the whole call fail, and    *)
(* the store keeps what the last call said.                                *)
(*                                                                         *)
(* An alert is the number that says when it was created; ghFinding() and   *)
(* the labels are left out: what matters is which alerts are counted.      *)
(***************************************************************************)
EXTENDS Integers, Sequences, FiniteSets

CONSTANTS
    Repos,          \* the sequence g.repos
    Alerts,         \* Alerts[r]: the alerts repository r can have open
    Reported,       \* the alerts of the tools in g.tools
    PerPage,        \* alerts on a page (100)
    MaxChanges      \* bound: alerts opened or closed during one call

Repo  == {Repos[i] : i \in DOMAIN Repos}
Alert == UNION {Alerts[r] : r \in Repo}

ASSUME SourceAssumption ==
    /\ Repos \in Seq(Repo) /\ Repos # <<>>
    /\ Alert \subseteq Nat /\ IsFiniteSet(Alert)
    /\ \A i, j \in DOMAIN Repos : i # j => Alerts[Repos[i]] \cap Alerts[Repos[j]] = {}
    /\ Reported \subseteq Alert
    /\ PerPage \in Nat \ {0} /\ MaxChanges \in Nat

VARIABLES
    open,           \* the open alerts
    pc,             \* "idle", "read" (a page is next), "done" (collect() returns out)
    at,             \* the index of the repository being read
    pageNo,         \* the page in the URL
    out,            \* out[a]: how often alert a has been appended
    shown,          \* what the store keeps: the out of the last call that succeeded
    kept,           \* history: the alerts that were open all through the call
    opened, closed  \* history: how many alerts were opened, closed during the call

call    == <<pc, at, pageNo, out, shown>>
history == <<kept, opened, closed>>
vars    == <<open, call, history>>

None == [a \in Alert |-> 0]
repo == Repos[at]

-----------------------------------------------------------------------------
Init ==
    /\ open \in SUBSET Alert
    /\ pc = "idle" /\ at = 1 /\ pageNo = 1
    /\ out = None /\ shown = None
    /\ kept = {} /\ opened = 0 /\ closed = 0

Forget == kept' = {} /\ opened' = 0 /\ closed' = 0

(* GitHub.                                                                 *)

MayChange == pc = "read" => opened + closed < MaxChanges

\* external: an alert is found, or found again.
Open(a) ==
    /\ a \notin open /\ MayChange
    /\ open' = open \cup {a}
    /\ opened' = IF pc = "read" THEN opened + 1 ELSE opened
    /\ UNCHANGED <<call, kept, closed>>

\* external: an alert is fixed or dismissed.
Close(a) ==
    /\ a \in open /\ MayChange
    /\ open' = open \ {a}
    /\ closed' = IF pc = "read" THEN closed + 1 ELSE closed
    /\ kept' = IF pc = "read" THEN kept \ {a} ELSE kept
    /\ UNCHANGED <<call, opened>>

\* external: where alert a stands in its repository's listing, newest first.
Position(r, a) == Cardinality({b \in open \cap Alerts[r] : b >= a})

\* external: the answer to the URL with page=k, and whether its Link has a next.
PageOf(r, k) ==
    {a \in open \cap Alerts[r] : Position(r, a) \in (k - 1) * PerPage + 1 .. k * PerPage}

MoreAfter(r, k) == Cardinality(open \cap Alerts[r]) > k * PerPage

(* The exporter.                                                           *)

\* collect() is called: a token, an empty map, the first repository's first page.
Collect ==
    /\ pc = "idle"
    /\ pc' = "read" /\ at' = 1 /\ pageNo' = 1
    /\ out' = None
    /\ kept' = open /\ opened' = 0 /\ closed' = 0
    /\ UNCHANGED <<open, shown>>

\* The page is appended, but for other tools' alerts.
Count ==
    out' = [a \in Alert |->
               IF a \in PageOf(repo, pageNo) \cap Reported THEN out[a] + 1 ELSE out[a]]

\* Mutant of Turn: the Link header is not followed.
TurnUnlinked ==
    /\ pageNo' = 1
    /\ IF at < Len(Repos) THEN at' = at + 1 /\ UNCHANGED pc
                          ELSE pc' = "done" /\ UNCHANGED at

\* Mutant of Turn: the loop over the repositories runs once too often.
TurnPastLast ==
    IF MoreAfter(repo, pageNo)
    THEN pageNo' = pageNo + 1 /\ UNCHANGED <<pc, at>>
    ELSE at' = at + 1 /\ pageNo' = 1 /\ UNCHANGED pc

\* nextLink(): the next page, the next repository, or the end of the call.
Turn ==
    IF MoreAfter(repo, pageNo)
    THEN pageNo' = pageNo + 1 /\ UNCHANGED <<pc, at>>
    ELSE /\ pageNo' = 1
         /\ IF at < Len(Repos) THEN at' = at + 1 /\ UNCHANGED pc
                               ELSE pc' = "done" /\ UNCHANGED at

Read ==
    /\ pc = "read"
    /\ Count /\ Turn
    /\ UNCHANGED <<open, shown, history>>

\* Mutant of Fail: what was read so far is returned without the error.
FailKeeps ==
    /\ pc = "read"
    /\ pc' = "done"
    /\ UNCHANGED <<open, at, pageNo, out, shown, history>>

\* Mutant of Fail: the repository is read again from its first page.
FailRereads ==
    /\ pc = "read"
    /\ pageNo' = 1
    /\ UNCHANGED <<open, pc, at, out, shown, history>>

\* No token, no answer, a status that is not 200 or a body that is cut off: the
\* pages read before go with it.
Fail ==
    /\ pc = "read"
    /\ pc' = "idle" /\ at' = 1 /\ pageNo' = 1 /\ out' = None /\ Forget
    /\ UNCHANGED <<open, shown>>

\* The poll loop hands the findings to the store.
Report ==
    /\ pc = "done"
    /\ shown' = out
    /\ pc' = "idle" /\ at' = 1 /\ pageNo' = 1 /\ out' = None /\ Forget
    /\ UNCHANGED open

-----------------------------------------------------------------------------
Poll == Collect \/ Read \/ Report

Next ==
    \/ \E a \in Alert : Open(a) \/ Close(a)
    \/ Poll \/ Fail

\* The poll loop goes on; GitHub answers or fails.
Spec == Init /\ [][Next]_vars /\ WF_vars(Poll)

-----------------------------------------------------------------------------
\* Every variable keeps its type.
TypeOK ==
    /\ open \subseteq Alert
    /\ pc \in {"idle", "read", "done"}
    /\ at \in DOMAIN Repos /\ pageNo \in Nat \ {0}
    /\ out \in [Alert -> Nat] /\ shown \in [Alert -> Nat]
    /\ kept \subseteq Alert
    /\ opened \in 0 .. MaxChanges /\ closed \in 0 .. MaxChanges

\* Of the alerts that were open all through a call (sources.go:100-117), it misses
\* no more than were closed meanwhile, in whatever repository and by whatever tool.
MissedByClosing ==
    pc = "done" => Cardinality({a \in kept \cap Reported : out[a] = 0}) <= closed

\* The second and every later time an alert was appended.
Repeats == UNION {{a} \X (2 .. out[a]) : a \in Alert}

\* A call counts alerts again (sources.go:100-117) no more often than alerts were
\* opened meanwhile.
DoubledByOpening == pc = "done" => Cardinality(Repeats) <= opened

\* Once GitHub answers and its alerts rest, the store comes to show them exactly,
\* whatever was missed, counted twice or lost before.
ReportSettles ==
    <>[][Poll]_vars =>
        <>(shown = [a \in Alert |-> IF a \in open \cap Reported THEN 1 ELSE 0])
=============================================================================
