-------------------------------- MODULE Dash --------------------------------
(***************************************************************************)
(* images/dash: one viewer's page.  index() reads the namespaces one after *)
(* the other, namespaceView() a namespace's Deployments, StatefulSets and  *)
(* Pods one list after the other, each GET with the token the file holds   *)
(* by then; classify() makes a row of what two of the lists said at two    *)
(* instants.  Meanwhile workloads change, the API server refuses or hangs, *)
(* the kubelet rotates the token, and its file can be unreadable.  Two     *)
(* viewers' pages share nothing but that file.                             *)
(*                                                                         *)
(* A component has one workload, of a fixed kind, as apps/eightbitsaxlounge*)
(* deploys it.  A container that waits for one of crashReasons is "crash". *)
(***************************************************************************)
EXTENDS Integers, Sequences, FiniteSetsExt

CONSTANTS
    Namespaces,     \* the sequence cfg.Namespaces
    Component,      \* cfg.Components
    StatefulSets,   \* the components that are StatefulSets; the others are Deployments
    GetTimeout,     \* the HTTP client's timeout (5 s)
    PageTimeout,    \* the context's timeout for a page (10 s)
    WriteTimeout,   \* the server's WriteTimeout (20 s)
    Latency,        \* how long an answer takes that comes before the client's timeout
    MaxReplicas,    \* bound: replicas a workload can have
    MaxChanges      \* bound: how often workloads change under one page

Namespace == {Namespaces[i] : i \in DOMAIN Namespaces}

ASSUME DashAssumption ==
    /\ Namespaces \in Seq(Namespace) /\ Namespaces # <<>>
    /\ \A i, j \in DOMAIN Namespaces : i # j => Namespaces[i] # Namespaces[j]
    /\ StatefulSets \subseteq Component
    /\ GetTimeout \in Nat /\ PageTimeout \in Nat /\ WriteTimeout \in Nat
    /\ Latency \subseteq 0 .. GetTimeout - 1 /\ Latency # {}
    /\ PageTimeout < WriteTimeout
    /\ MaxReplicas \in Nat /\ MaxChanges \in Nat

States == {"running", "degraded", "crashing", "stopped", "unknown"}

Workload == {w \in [found : BOOLEAN, desired : 0 .. MaxReplicas, ready : 0 .. MaxReplicas,
                    crash : BOOLEAN] : w.found \/ (w.desired = 0 /\ w.ready = 0)}
Absent   == [found |-> FALSE, desired |-> 0, ready |-> 0, crash |-> FALSE]

\* No list read yet, or one that could not be: a NamespaceView's rows.
Unread == [error |-> FALSE, rows |-> [c \in Component |-> "unknown"]]
Failed == [error |-> TRUE,  rows |-> [c \in Component |-> "unknown"]]
View   == [error : BOOLEAN, rows : [Component -> States]]

VARIABLES
    world,          \* world[n][c]: the workload of component c in namespace n
    api,            \* the API server: "answers", "refuses" or "hangs"
    token,          \* the token in hand: rotations since it was read from the file
    readable,       \* the token file can be read
    changes,        \* how often workloads changed since the page was asked for
    pc,             \* "idle", "send" (a GET is next), "wait" (for its answer), "page"
    at,             \* the index of the namespace being read
    next,           \* its list that is next: 1 Deployments, 2 StatefulSets, 3 Pods
    lists,          \* lists[c]: what the lists read so far say of c's workload
    views,          \* the page's views so far
    spent,          \* the time the page has taken
    was,            \* history: the states that fitted at some instant of the page
    trouble         \* history: the API server was in trouble during this namespace

page == <<pc, at, next, lists, views, spent>>
vars == <<world, api, token, readable, changes, pc, at, next, lists, views, spent, was, trouble>>

ns == Namespaces[at]

-----------------------------------------------------------------------------
(* The rows.                                                               *)

\* classify(): the workload as its list said, the crash reasons as the pods said.
Classify(w, crash) ==
    CASE ~w.found                                   -> "unknown"
      [] w.found /\ w.desired = 0                   -> "stopped"
      [] w.found /\ w.desired > 0 /\ crash          -> "crashing"
      [] w.found /\ w.desired > 0 /\ ~crash
         /\ w.ready >= w.desired                    -> "running"
      [] OTHER                                      -> "degraded"

\* What images/dash/README.md:12-18 lets one say of a workload as it is.
Fits(w) ==
    {s \in States :
        CASE s = "unknown"  -> ~w.found
          [] s = "stopped"  -> w.found /\ w.desired = 0
          [] s = "crashing" -> w.desired > 0 /\ w.crash
          [] s = "running"  -> w.desired > 0 /\ w.ready >= w.desired
          [] s = "degraded" -> w.ready < w.desired /\ ~w.crash}

Nothing == [n \in Namespace |-> [c \in Component |-> {}]]
Truth   == [n \in Namespace |-> [c \in Component |-> Fits(world[n][c])]]

-----------------------------------------------------------------------------
Init ==
    /\ world \in [Namespace -> [Component -> Workload]]
    /\ api = "answers" /\ token = 0 /\ readable = TRUE /\ changes = 0
    /\ pc = "idle" /\ at = 1 /\ next = 1 /\ spent = 0
    /\ lists = [c \in Component |-> Absent]
    /\ views = [n \in Namespace |-> Unread]
    /\ was = Nothing /\ trouble = FALSE

(* The cluster.                                                            *)

\* external: a workload's object is written (made, removed, scaled, its status
\* updated), or its pods begin or cease to crash.
Change(n, c) ==
    /\ pc # "idle" /\ changes < MaxChanges
    /\ \E w \in Workload :
          /\ w # world[n][c]
          /\ w.crash = world[n][c].crash \/ w = [world[n][c] EXCEPT !.crash = w.crash]
          /\ world' = [world EXCEPT ![n][c] = w]
          /\ was' = [was EXCEPT ![n][c] = @ \cup Fits(w)]
    /\ changes' = changes + 1
    /\ UNCHANGED <<api, token, readable, page, trouble>>

\* external: the API server comes and goes.
Outage ==
    /\ \E a \in {"answers", "refuses", "hangs"} : a # api /\ api' = a
    /\ trouble' = (pc # "idle")
    /\ UNCHANGED <<world, token, readable, changes, page, was>>

\* external: the kubelet writes a new token, long before the one it replaces
\* ends, so that a GET under way sees one rotation at most.
Rotate ==
    /\ token < 2 /\ (pc = "wait" => token = 0)
    /\ token' = token + 1
    /\ UNCHANGED <<world, api, readable, changes, page, was, trouble>>

\* external: the token file is missing or cannot be read, or can again; when no
\* GET is next this is not to be told from a change that comes later.
Mount ==
    /\ pc = "send"
    /\ readable' = ~readable
    /\ UNCHANGED <<world, api, token, changes, page, was, trouble>>

(* The server.                                                             *)

\* index(): the page is asked for.
Index ==
    /\ pc = "idle"
    /\ pc' = "send"
    /\ was' = Truth /\ trouble' = (api # "answers")
    /\ UNCHANGED <<world, api, token, readable, changes, at, next, lists, views, spent>>

\* Mutant of Get: the token was read when the process started.
GetWithFirstToken ==
    /\ pc = "send" /\ readable
    /\ pc' = "wait"
    /\ UNCHANGED <<world, api, token, readable, changes, at, next, lists, views, spent, was, trouble>>

\* apiClient.get() reads the token and sends the request.
Get ==
    /\ pc = "send" /\ readable
    /\ token' = 0
    /\ pc' = "wait"
    /\ UNCHANGED <<world, api, readable, changes, at, next, lists, views, spent, was, trouble>>

\* On to the next namespace, or to the page.
Show(view) ==
    /\ views' = [views EXCEPT ![ns] = view]
    /\ lists' = [c \in Component |-> Absent]
    /\ IF at = Len(Namespaces)
       THEN pc' = "page" /\ UNCHANGED <<at, next, trouble>>
       ELSE pc' = "send" /\ at' = at + 1 /\ next' = 1 /\ trouble' = (api # "answers")
    /\ UNCHANGED <<world, api, token, readable, changes, was>>

\* os.ReadFile(c.tokenPath) fails: nothing is sent, and the namespace is unknown
\* although the API server may well answer.
NoToken ==
    /\ pc = "send" /\ ~readable
    /\ Show(Failed)
    /\ UNCHANGED spent

\* The API server accepts the token in hand, or the one before it.
Accepted == api = "answers" /\ token <= 1

\* Mutant of InTime: the requests are made without the page's context.
InNoTime == \E l \in Latency : spent' = spent + l

\* An answer that comes before the page's time is up.
InTime == \E l \in Latency : spent + l < PageTimeout /\ spent' = spent + l

Workloads ==
    /\ pc = "wait" /\ next < 3
    /\ Accepted /\ InTime
    /\ lists' = [c \in Component |-> IF (c \in StatefulSets) = (next = 2)
                                     THEN world[ns][c] ELSE lists[c]]
    /\ next' = next + 1 /\ pc' = "send"
    /\ UNCHANGED <<world, api, token, readable, changes, at, views, was, trouble>>

\* The third list: every component gets its row.
Pods ==
    /\ pc = "wait" /\ next = 3
    /\ Accepted /\ InTime
    /\ Show([error |-> FALSE,
             rows  |-> [c \in Component |-> Classify(lists[c], world[ns][c].crash)]])

\* Mutant of Refused: pods that cannot be listed are taken for healthy ones.
RefusedAfterLists ==
    /\ pc = "wait" /\ ~Accepted /\ api # "hangs"
    /\ InTime
    /\ Show(IF next < 3 THEN Failed
            ELSE [error |-> FALSE,
                  rows  |-> [c \in Component |-> Classify(lists[c], FALSE)]])

\* An error or a status that is not 200: the namespace is unknown, row by row.
Refused ==
    /\ pc = "wait" /\ ~Accepted /\ api # "hangs"
    /\ InTime
    /\ Show(Failed)

\* Mutant of TimedOut: the client's timeout alone, no context.
TimedOutAlone ==
    /\ pc = "wait" /\ api = "hangs"
    /\ spent' = spent + GetTimeout
    /\ Show(Failed)

\* Mutant of TimedOut: the GET is sent again.
TimedOutRetried ==
    /\ pc = "wait" /\ api = "hangs"
    /\ pc' = "send"
    /\ UNCHANGED <<world, api, token, readable, changes, at, next, lists, views, spent, was, trouble>>

\* The client's timeout or the page's, whichever comes first.
TimedOut ==
    /\ pc = "wait"
    /\ \/ api = "hangs" /\ spent' = Min({spent + GetTimeout, PageTimeout})
       \/ (\E l \in Latency : spent + l >= PageTimeout) /\ spent' = PageTimeout
    /\ Show(Failed)

\* The template is executed, the response written, and the handler's state gone.
Page ==
    /\ pc = "page"
    /\ pc' = "idle" /\ at' = 1 /\ next' = 1 /\ spent' = 0 /\ changes' = 0
    /\ views' = [n \in Namespace |-> Unread]
    /\ was' = Nothing /\ trouble' = FALSE
    /\ UNCHANGED <<world, api, token, readable, lists>>

-----------------------------------------------------------------------------
Serve == Get \/ NoToken \/ Workloads \/ Pods \/ Refused \/ TimedOut \/ Page

Next ==
    \/ \E n \in Namespace, c \in Component : Change(n, c)
    \/ Outage \/ Rotate \/ Mount
    \/ Index \/ Serve

\* A handler runs on; no viewer has to come.
Spec == Init /\ [][Next]_vars /\ WF_vars(Serve)

-----------------------------------------------------------------------------
\* Every variable keeps its type.
TypeOK ==
    /\ world \in [Namespace -> [Component -> Workload]]
    /\ api \in {"answers", "refuses", "hangs"}
    /\ token \in 0 .. 2 /\ readable \in BOOLEAN /\ changes \in 0 .. MaxChanges
    /\ pc \in {"idle", "send", "wait", "page"}
    /\ at \in DOMAIN Namespaces /\ next \in 1 .. 3
    /\ lists \in [Component -> Workload]
    /\ views \in [Namespace -> View]
    /\ spent \in 0 .. PageTimeout
    /\ was \in [Namespace -> [Component -> SUBSET States]]
    /\ trouble \in BOOLEAN

\* The lists are no snapshot (main.go:238-246). Yet a row says what was so at some
\* instant of the page, when one thing changed under it: what two lists say of a
\* workload before and after the change is put together to no third state.
RowWasSo ==
    pc = "page" /\ changes <= 1 =>
        \A n \in Namespace, c \in Component :
            ~views[n].error => views[n].rows[c] \in was[n][c]

\* A namespace is shown as unreadable only because the API server refused or
\* hung while it was being read, because the page's time was up, or because the
\* token file could not be read when a GET needed it (main.go:105-108): never
\* because the token rotated (main.go:104-105) or another namespace could not be
\* read.
UnreadableHasCause ==
    [][\A n \in Namespace :
          views'[n].error /\ ~views[n].error
              => n = ns /\ \/ trouble
                           \/ spent' = PageTimeout
                           \/ pc = "send" /\ ~readable]_vars

\* However slow the API server, the page is there before the server gives up
\* writing it (main.go:52).
PageInTime == pc = "page" => spent < WriteTimeout

\* Every page asked for is served, also by an API server that never answers.
EveryPageServed == pc = "send" ~> pc = "page"
=============================================================================
