-------------------------- MODULE FindingsExporter --------------------------
(***************************************************************************)
(* images/findings-exporter: the goroutines main() starts, one poll() loop *)
(* per upstream, and the store they share with the /metrics handler.       *)
(*                                                                         *)
(* What an upstream has to say of a source is reduced to its age: truth[n] *)
(* is the instant of its last change, and an answer "v" is the findings as *)
(* they stood at instant v.  0 is Go's zero time and the nil slice.  How a *)
(* collect finds its answer is the business of the source modules; here it *)
(* is one request/answer pair that may fail, and what it returns lies      *)
(* between what was true when it began and what is true when it ends.      *)
(*                                                                         *)
(* write() holds the store's mutex from its first line to its last, so     *)
(* what one scrape prints is the value of "store" in one state: every      *)
(* invariant below is an invariant of what Prometheus can be told.         *)
(***************************************************************************)
EXTENDS Integers, FiniteSets

CONSTANTS
    Poller,         \* the poll() goroutines: one per configured upstream
    Name,           \* the values of the "source" label
    Names,          \* Names[p]: what source.names() of p's source returns
    Dated,          \* the pollers whose source has dataTimes() (Prowler)
    MaxTime,        \* bound: the clock stops here
    MaxRestarts     \* bound: how often the process is replaced

ASSUME ConfigAssumption ==
    /\ Names \in [Poller -> SUBSET Name]
    /\ \A p, q \in Poller : p # q => Names[p] \cap Names[q] = {}
    /\ Dated \subseteq Poller
    /\ MaxTime \in Nat \ {0}
    /\ MaxRestarts \in Nat

Time == 0 .. MaxTime

VARIABLES
    now,            \* the clock
    truth,          \* truth[n]: when the upstream's findings for n last changed
    reachable,      \* reachable[p]: p's upstream answers its requests
    store,          \* store[n]: the sourceState under n, or NoEntry
    pc,             \* pc[p]: where p's goroutine is in poll()
    todo,           \* todo[p]: the names its current loop has still to visit
    answer,         \* answer[p]: the map collect() returned
    hurt,           \* hurt[p]: a request of the current collect may have failed
    restarts,       \* how often the process was replaced
    asked,          \* history: truth when p's latest collect began
    outcome         \* history: how p's latest collect ended

world   == <<now, truth, reachable>>
history == <<asked, outcome>>
vars    == <<now, truth, reachable, store, pc, todo, answer, hurt, restarts,
             asked, outcome>>

-----------------------------------------------------------------------------
(* The store: sourceState and the methods that take its mutex.             *)

Entry == [present : BOOLEAN, findings : Time, up : BOOLEAN,
          lastSuccess : Time, dataTime : Time]

NoEntry == [present |-> FALSE, findings |-> 0, up |-> FALSE,
            lastSuccess |-> 0, dataTime |-> 0]

\* Mutant of Set: the date of the data is lost with every refresh.
SetUndated(s, n, v, t) ==
    [s EXCEPT ![n] = [NoEntry EXCEPT !.present = TRUE, !.findings = v,
                                     !.up = TRUE, !.lastSuccess = t]]

\* Mutant of Set: the time of the next refresh is stored, not of this one.
SetNextDue(s, n, v, t) ==
    [s EXCEPT ![n] = [present |-> TRUE, findings |-> v, up |-> TRUE,
                      lastSuccess |-> t + 1, dataTime |-> s[n].dataTime]]

\* store.set: a new state that carries over only the previous dataTime.
Set(s, n, v, t) ==
    [s EXCEPT ![n] = [present |-> TRUE, findings |-> v, up |-> TRUE,
                      lastSuccess |-> t, dataTime |-> s[n].dataTime]]

\* store.setDataTime: only an existing entry is dated.
SetDataTime(s, n, v) ==
    IF s[n].present THEN [s EXCEPT ![n].dataTime = v] ELSE s

\* Mutant of Fail: a name that was never filled is left out.
FailIfKnown(s, n) == IF s[n].present THEN [s EXCEPT ![n].up = FALSE] ELSE s

\* Mutant of Fail: the findings go with the refresh that failed.
FailForgets(s, n) ==
    [s EXCEPT ![n] = [NoEntry EXCEPT !.present = TRUE, !.dataTime = s[n].dataTime]]

\* store.fail: the entry is made if missing, and only "up" changes.
Fail(s, n) == [s EXCEPT ![n].present = TRUE, ![n].up = FALSE]

-----------------------------------------------------------------------------
Init ==
    /\ now = 1
    /\ truth = [n \in Name |-> 1]
    /\ reachable \in [Poller -> BOOLEAN]
    /\ store = [n \in Name |-> NoEntry]
    /\ pc = [p \in Poller |-> "ready"]
    /\ todo = [p \in Poller |-> {}]
    /\ answer = [p \in Poller |-> [n \in Name |-> 0]]
    /\ hurt = [p \in Poller |-> FALSE]
    /\ restarts = 0
    /\ asked = [p \in Poller |-> [n \in Name |-> 0]]
    /\ outcome = [p \in Poller |-> "none"]

(* The upstreams.                                                          *)

\* The findings of n change: an alert fires, a scan uploads, a report lands.
Change(n) ==
    /\ now < MaxTime
    /\ now' = now + 1
    /\ truth' = [truth EXCEPT ![n] = now + 1]
    /\ UNCHANGED <<reachable, store, pc, todo, answer, hurt, restarts, history>>

\* p's upstream stops answering; a collect under way may now fail.
Break(p) ==
    /\ reachable[p]
    /\ reachable' = [reachable EXCEPT ![p] = FALSE]
    /\ hurt' = [hurt EXCEPT ![p] = TRUE]
    /\ UNCHANGED <<now, truth, store, pc, todo, answer, restarts, history>>

Mend(p) ==
    /\ ~reachable[p]
    /\ reachable' = [reachable EXCEPT ![p] = TRUE]
    /\ UNCHANGED <<now, truth, store, pc, todo, answer, hurt, restarts, history>>

(* poll(): one action per thing another goroutine can see happen.          *)

\* The top of the loop: src.collect(cctx) is called.
Ask(p) ==
    /\ pc[p] = "ready"
    /\ pc' = [pc EXCEPT ![p] = "asking"]
    /\ hurt' = [hurt EXCEPT ![p] = ~reachable[p]]
    /\ asked' = [asked EXCEPT ![p] = truth]
    /\ answer' = [answer EXCEPT ![p] = [n \in Name |-> 0]]
    /\ UNCHANGED <<world, store, todo, restarts, outcome>>

\* Mutant of Answers: collect serves an answer it kept from an earlier call.
AnswersKept(p) ==
    {f \in [Name -> Time] :
        \A n \in Name : f[n] <= IF n \in Names[p] THEN truth[n] ELSE 0}

\* What collect can return for the names of p: each as it stood at some
\* instant between the call and the return.
Answers(p) ==
    {f \in [Name -> Time] :
        \A n \in Name : IF n \in Names[p]
                        THEN asked[p][n] <= f[n] /\ f[n] <= truth[n]
                        ELSE f[n] = 0}

\* collect returns results; the loop over src.names() begins.
Answered(p) ==
    /\ pc[p] = "asking"
    /\ reachable[p]
    /\ \E f \in Answers(p) : answer' = [answer EXCEPT ![p] = f]
    /\ pc' = [pc EXCEPT ![p] = "publishing"]
    /\ todo' = [todo EXCEPT ![p] = Names[p]]
    /\ outcome' = [outcome EXCEPT ![p] = "ok"]
    /\ UNCHANGED <<world, store, hurt, restarts, asked>>

\* collect returns an error: a refused request, or the five minutes are up.
Failed(p) ==
    /\ pc[p] = "asking"
    /\ hurt[p]
    /\ pc' = [pc EXCEPT ![p] = "failing"]
    /\ todo' = [todo EXCEPT ![p] = Names[p]]
    /\ outcome' = [outcome EXCEPT ![p] = "err"]
    /\ UNCHANGED <<world, store, answer, hurt, restarts, asked>>

\* store.set(name, results[name], time.Now()) for one name.
Publish(p) ==
    /\ pc[p] = "publishing"
    /\ \E n \in todo[p] :
        /\ store' = Set(store, n, answer[p][n], now)
        /\ todo' = [todo EXCEPT ![p] = @ \ {n}]
    /\ UNCHANGED <<world, pc, answer, hurt, restarts, history>>

\* Every name is set; a source that has dataTimes() is asked for them.
Published(p) ==
    /\ pc[p] = "publishing"
    /\ todo[p] = {}
    /\ pc' = [pc EXCEPT ![p] = IF p \in Dated THEN "dating" ELSE "waiting"]
    /\ todo' = [todo EXCEPT ![p] = IF p \in Dated THEN Names[p] ELSE {}]
    /\ UNCHANGED <<world, store, answer, hurt, restarts, history>>

\* store.setDataTime(name, t) for one name of dataTimes().
Date(p) ==
    /\ pc[p] = "dating"
    /\ \E n \in todo[p] :
        /\ store' = SetDataTime(store, n, answer[p][n])
        /\ todo' = [todo EXCEPT ![p] = @ \ {n}]
    /\ UNCHANGED <<world, pc, answer, hurt, restarts, history>>

\* store.fail(n) for one name.
MarkDown(p) ==
    /\ pc[p] = "failing"
    /\ \E n \in todo[p] :
        /\ store' = Fail(store, n)
        /\ todo' = [todo EXCEPT ![p] = @ \ {n}]
    /\ UNCHANGED <<world, pc, answer, hurt, restarts, history>>

\* Mutant of Rest: the goroutine returns after a refresh that failed.
RestIfOk(p) ==
    /\ pc[p] = "dating" /\ todo[p] = {}
    /\ pc' = [pc EXCEPT ![p] = "waiting"]
    /\ UNCHANGED <<world, store, todo, answer, hurt, restarts, history>>

\* The loop over the names is done: select on time.After(interval).
Rest(p) ==
    /\ pc[p] \in {"dating", "failing"}
    /\ todo[p] = {}
    /\ pc' = [pc EXCEPT ![p] = "waiting"]
    /\ UNCHANGED <<world, store, todo, answer, hurt, restarts, history>>

\* The interval has passed.
Wake(p) ==
    /\ pc[p] = "waiting"
    /\ pc' = [pc EXCEPT ![p] = "ready"]
    /\ UNCHANGED <<world, store, todo, answer, hurt, restarts, history>>

\* The pod is replaced: newStore(), and every goroutine starts over.
Restart ==
    /\ restarts < MaxRestarts
    /\ restarts' = restarts + 1
    /\ store' = [n \in Name |-> NoEntry]
    /\ pc' = [p \in Poller |-> "ready"]
    /\ todo' = [p \in Poller |-> {}]
    /\ answer' = [p \in Poller |-> [n \in Name |-> 0]]
    /\ outcome' = [p \in Poller |-> "none"]
    /\ UNCHANGED <<world, hurt, asked>>

-----------------------------------------------------------------------------
Poll(p) ==
    \/ Ask(p) \/ Answered(p) \/ Failed(p)
    \/ Publish(p) \/ Published(p) \/ Date(p)
    \/ MarkDown(p) \/ Rest(p) \/ Wake(p)

Next ==
    \/ \E p \in Poller : Poll(p) \/ Break(p) \/ Mend(p)
    \/ \E n \in Name : Change(n)
    \/ Restart

\* Every goroutine keeps running: its requests are bounded by the client's and
\* the collect's timeouts, its waits by the interval, its locks by a print.
Spec == Init /\ [][Next]_vars /\ \A p \in Poller : WF_vars(Poll(p))

-----------------------------------------------------------------------------
\* Every variable keeps its type.
TypeOK ==
    /\ now \in Time \ {0}
    /\ truth \in [Name -> Time \ {0}]
    /\ reachable \in [Poller -> BOOLEAN]
    /\ store \in [Name -> Entry]
    /\ pc \in [Poller -> {"ready", "asking", "publishing", "dating",
                          "failing", "waiting"}]
    /\ todo \in [Poller -> SUBSET Name]
    /\ answer \in [Poller -> [Name -> Time]]
    /\ hurt \in [Poller -> BOOLEAN]
    /\ restarts \in 0 .. MaxRestarts
    /\ asked \in [Poller -> [Name -> Time]]
    /\ outcome \in [Poller -> {"none", "ok", "err"}]

\* Between two refreshes findings_source_up tells, for every name of a source
\* at once, how the latest refresh ended, and no name is missing (main.go:16
\* "which ones answered last time", main.go:117-120 "every name it would have
\* filled is marked down").
UpTellsLastOutcome ==
    \A p \in Poller : pc[p] = "waiting" =>
        \A n \in Names[p] : /\ store[n].present
                            /\ store[n].up <=> outcome[p] = "ok"

\* A source shown as up, its poller at rest, shows findings no older than what
\* was true when its latest collect began (README.md:29).
UpMeansFresh ==
    \A p \in Poller : pc[p] = "waiting" =>
        \A n \in Names[p] : store[n].up => store[n].findings >= asked[p][n]

\* findings_source_data_timestamp_seconds never claims newer data than the
\* counts it stands beside, in any scrape: not in the middle of a refresh, not
\* after a failed one (prowler.go:43-45).
DataTimeNotAhead ==
    \A n \in Name : store[n].dataTime <= store[n].findings

\* Once p's upstream stays up, every name of p ends up, and stays, shown as up
\* with the findings the upstream has: one failing source never holds back
\* another (main.go:14-15), and no failure is for ever.
RecoversWhenReachable ==
    \A p \in Poller :
        <>[]reachable[p] =>
        <>[](\A n \in Names[p] : store[n].up /\ store[n].findings = truth[n])

\* Once p's upstream stays away, every name of p ends up, and stays, shown and
\* shown as down: "a source that has silently stopped reporting must not look
\* like a source with nothing to report" (main.go:16-17).
DownShowsWhenUnreachable ==
    \A p \in Poller :
        <>[]~reachable[p] =>
        <>[](\A n \in Names[p] : store[n].present /\ ~store[n].up)

-----------------------------------------------------------------------------
(* The exporter implements the board of FindingsBoard.                     *)

Shown(n) == [present |-> store[n].present, findings |-> store[n].findings,
             up |-> store[n].up, dataTime |-> store[n].dataTime]

shown == [n \in Name |-> Shown(n)]

Board == INSTANCE FindingsBoard WITH board <- shown

\* Every step of every goroutine is a step of the board or leaves it alone: a
\* source's counts never go back in time, a failed refresh keeps them (README.md:29,
\* metrics.go:52-53), and no step touches the card of another source.
ImplementsBoard == Board!Spec
=============================================================================
