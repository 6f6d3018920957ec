---------------------------- MODULE KubescapeGate ----------------------------
(***************************************************************************)
(* images/kubescape-gate and the CronJob that runs it                      *)
(* (cluster/kubescape/10-cronjob.yaml): every night Kubescape scans the    *)
(* live cluster, the gate subtracts the accepted list, and what is left is *)
(* posted to Alertmanager as alerts that end by themselves after Expire.   *)
(* Nothing ever resolves an alert: that one stops firing is the only sign  *)
(* that a regression is gone, and nothing else tells a night on which the  *)
(* gate did not run from a clean one but the failed Job.                   *)
(*                                                                         *)
(* Time is counted in ticks (half hours in the code) and every date is     *)
(* kept as what is left until it.                                          *)
(***************************************************************************)
EXTENDS Integers

CONSTANTS
    Raw,            \* (control, resourceID) as Kubescape writes them
    Pair,           \* type pair: (control, namespace/Kind/name)
    Normalized,     \* Normalized[r]: the pair normalize() makes of r
    Control,        \* the control IDs
    ControlOf,      \* ControlOf[p]: p's control
    Day,            \* from one scheduled Job to the next
    Deadline,       \* activeDeadlineSeconds
    Expire,         \* config.Expire
    MaxMishaps      \* bound: nights without a Job, losses of Alertmanager's alerts

ASSUME GateAssumption ==
    /\ Normalized \in [Raw -> Pair]
    /\ ControlOf \in [Pair -> Control]
    /\ Day \in Nat /\ Deadline \in Nat /\ Expire \in Nat
    /\ MaxMishaps \in Nat

\* "Long enough to stay firing until the next nightly run" (main.go:53).
ASSUME ExpireAssumption == Deadline < Day /\ Day + Deadline < Expire

VARIABLES
    failing,        \* what a scan of the live cluster would find failing
    accepted,       \* the accepted list
    broken,         \* what does not work: "scan", "list", "alertmanager"
    pc,             \* the Job: "none", "scan", "gate", "post"
    due,            \* until the next Job is scheduled
    deadline,       \* until the Job is killed
    results,        \* results.json: what the scan found failing
    regressions,    \* what the latest comparison found
    left,           \* left[c]: until the alert for c ends, 0 if it does not fire
    lastJob,        \* how the latest Job ended: "none", "ok", "failed"
    mishaps,        \* nights missed and losses so far
    seeing,         \* history: regressed all the time since the Job began
    seen            \* history: the same for the latest finished Job

live  == <<failing, accepted, broken>>
timer == <<due, deadline>>
vars  == <<failing, accepted, broken, pc, due, deadline, results, regressions,
           left, lastJob, mishaps, seeing, seen>>

-----------------------------------------------------------------------------
\* parseScan: one pair for all the results that reduce to it.
Failing(rs) == {Normalized[r] : r \in rs}

\* difference(failing, accepted).
Difference(rs, acc) == Failing(rs) \ acc

\* buildAlerts: one alert per control.
Alerts(ps) == {ControlOf[p] : p \in ps}

Init ==
    /\ failing \in SUBSET Raw
    /\ accepted \in SUBSET Pair
    /\ broken = {}
    /\ pc = "none" /\ due = 0 /\ deadline = 0
    /\ results = {} /\ regressions = {}
    /\ left = [c \in Control |-> 0]
    /\ lastJob = "none" /\ mishaps = 0
    /\ seeing = {} /\ seen = {}

(* The world.                                                              *)

\* What is regressed now stays in the histories, and nothing else.
Observe(rs, acc) ==
    /\ seeing' = seeing \cap Difference(rs, acc)
    /\ seen' = seen \cap Difference(rs, acc)

\* A resource starts to fail a control, is repaired, or goes away.
Change(r) ==
    /\ failing' = IF r \in failing THEN failing \ {r} ELSE failing \cup {r}
    /\ Observe(failing', accepted)
    /\ UNCHANGED <<accepted, broken, pc, timer, results, regressions, left,
                   lastJob, mishaps>>

\* A PR to 00-accepted.yaml is merged and synced.
Review(p) ==
    /\ accepted' = IF p \in accepted THEN accepted \ {p} ELSE accepted \cup {p}
    /\ Observe(failing, accepted')
    /\ UNCHANGED <<failing, broken, pc, timer, results, regressions, left,
                   lastJob, mishaps>>

Outage(x) ==
    /\ broken' = IF x \in broken THEN broken \ {x} ELSE broken \cup {x}
    /\ UNCHANGED <<failing, accepted, pc, timer, results, regressions, left,
                   lastJob, mishaps, seeing, seen>>

\* external: Alertmanager keeps its alerts in memory and is restarted.
Forget ==
    /\ mishaps < MaxMishaps
    /\ mishaps' = mishaps + 1
    /\ left' = [c \in Control |-> 0]
    /\ UNCHANGED <<live, pc, timer, results, regressions, lastJob, seeing, seen>>

Less(t) == IF t > 0 THEN t - 1 ELSE 0

\* A tick passes, unless a Job is due to start or to be killed.
Tick ==
    /\ due > 0
    /\ pc # "none" => deadline > 0
    /\ due' = due - 1
    /\ deadline' = Less(deadline)
    /\ left' = [c \in Control |-> Less(left[c])]
    /\ UNCHANGED <<live, pc, results, regressions, lastJob, mishaps, seeing, seen>>

(* The Job.                                                                *)

\* schedule: a Job starts with its scan container.
Start ==
    /\ due = 0 /\ pc = "none"
    /\ due' = Day
    /\ deadline' = Deadline
    /\ pc' = "scan"
    /\ results' = {}
    /\ seeing' = Difference(failing, accepted)
    /\ UNCHANGED <<live, regressions, left, lastJob, mishaps, seen>>

\* external: the night goes by without a Job (its node or the control plane is down).
Miss ==
    /\ due = 0 /\ pc = "none"
    /\ mishaps < MaxMishaps
    /\ mishaps' = mishaps + 1
    /\ due' = Day
    /\ UNCHANGED <<live, pc, deadline, results, regressions, left, lastJob,
                   seeing, seen>>

\* The Job is over.
End(result) ==
    /\ pc' = "none"
    /\ lastJob' = result
    /\ seen' = seeing
    /\ UNCHANGED <<live, timer, mishaps, seeing>>

\* kubescape scan writes its results.
Scan ==
    /\ pc = "scan" /\ "scan" \notin broken
    /\ results' = failing
    /\ pc' = "gate"
    /\ UNCHANGED <<live, timer, regressions, left, lastJob, mishaps, seeing, seen>>

\* Mutant of NoScan: a scan without results is a clean one.
EmptyIsClean ==
    /\ pc = "scan" /\ "scan" \in broken
    /\ regressions' = {}
    /\ End("ok")
    /\ UNCHANGED <<results, left>>

\* No results.json, or one that does not decode or has no results.
NoScan ==
    /\ pc = "scan" /\ "scan" \in broken
    /\ End("failed")
    /\ UNCHANGED <<results, regressions, left>>

NoList ==
    /\ pc = "gate" /\ "list" \in broken
    /\ End("failed")
    /\ UNCHANGED <<results, regressions, left>>

\* No regressions: there is nothing to post.
Clean ==
    /\ pc = "gate" /\ "list" \notin broken
    /\ regressions' = Difference(results, accepted)
    /\ regressions' = {}
    /\ End("ok")
    /\ UNCHANGED <<results, left>>

Compare ==
    /\ pc = "gate" /\ "list" \notin broken
    /\ regressions' = Difference(results, accepted)
    /\ regressions' # {}
    /\ pc' = "post"
    /\ UNCHANGED <<live, timer, results, left, lastJob, mishaps, seeing, seen>>

\* Mutant of Sent: an alert ends when the next Job is scheduled.
SentForADay ==
    left' = [c \in Control |-> IF c \in Alerts(regressions) THEN Day ELSE left[c]]

\* Mutant of Sent: every alert sent before is sent again.
SentAgain ==
    left' = [c \in Control |-> IF c \in Alerts(regressions) \/ left[c] > 0
                               THEN Expire ELSE left[c]]

\* Mutant of Sent: what is left of an alert is added to.
SentOnTop ==
    left' = [c \in Control |-> IF c \in Alerts(regressions)
                               THEN left[c] + Expire ELSE left[c]]

\* EndsAt: now.Add(expire).  external: an alert that fires already is prolonged,
\* the others go on.
Sent ==
    left' = [c \in Control |-> IF c \in Alerts(regressions) THEN Expire ELSE left[c]]

\* postAlerts: Alertmanager takes them all, in one request.
Post ==
    /\ pc = "post" /\ "alertmanager" \notin broken
    /\ Sent
    /\ End("ok")
    /\ UNCHANGED <<results, regressions>>

\* The request fails, before Alertmanager has taken the alerts or after.
PostFailed ==
    /\ pc = "post" /\ "alertmanager" \in broken
    /\ Sent \/ UNCHANGED left
    /\ End("failed")
    /\ UNCHANGED <<results, regressions>>

\* external: activeDeadlineSeconds; only a Job that something holds up gets there.
Kill ==
    /\ pc # "none" /\ deadline = 0
    /\ broken # {}
    /\ End("failed")
    /\ UNCHANGED <<results, regressions, left>>

-----------------------------------------------------------------------------
Job == Start \/ Miss \/ Scan \/ NoScan \/ NoList \/ Clean \/ Compare
       \/ Post \/ PostFailed \/ Kill

Next ==
    \/ Job \/ Tick \/ Forget
    \/ \E r \in Raw : Change(r)
    \/ \E p \in Pair : Review(p)
    \/ \E x \in {"scan", "list", "alertmanager"} : Outage(x)

\* Time passes, and the Job of a cluster that works goes on.
Spec == Init /\ [][Next]_vars /\ WF_vars(Tick) /\ WF_vars(Job)

-----------------------------------------------------------------------------
\* Every variable keeps its type.
TypeOK ==
    /\ failing \subseteq Raw /\ accepted \subseteq Pair
    /\ broken \subseteq {"scan", "list", "alertmanager"}
    /\ pc \in {"none", "scan", "gate", "post"}
    /\ due \in 0 .. Day /\ deadline \in 0 .. Deadline
    /\ results \subseteq Raw /\ regressions \subseteq Pair
    /\ left \in [Control -> 0 .. Expire]
    /\ lastJob \in {"none", "ok", "failed"}
    /\ mishaps \in 0 .. MaxMishaps
    /\ seeing \subseteq Pair /\ seen \subseteq Pair

\* As long as no night was missed and Alertmanager lost nothing: when the latest
\* Job to finish succeeded, every regression that was there when it began, and
\* still is, fires, all day and until the next Job is done.  A gate that is
\* silent is a cluster that is clean (main.go:12-16, 53-54).
OkMeansFiring ==
    lastJob = "ok" /\ mishaps = 0 => \A p \in seen : left[ControlOf[p]] > 0

\* A regression that stays comes to fire and goes on firing, once what the gate
\* needs works, whatever was missed before.
RegressionSurfaces ==
    \A p \in Pair :
        <>[](p \in Difference(failing, accepted) /\ broken = {})
        => <>[](left[ControlOf[p]] > 0)

\* A control whose resources are all repaired, or all accepted, stops firing,
\* although no one resolves its alert (main.go:53-54).
FixedLapses ==
    \A c \in Control :
        \/ <>[](c \notin Alerts(Failing(failing)))
        \/ <>[](c \notin Alerts(Pair \ accepted))
        => <>[](left[c] = 0)

\* An alert lapses only if the next night's scan is clean (README.md:13).
LapsesOnlyIfClean ==
    [][\A c \in Control : left[c] > 0 /\ left'[c] = 0
            => lastJob = "ok" /\ c \notin Alerts(regressions)]_vars
=============================================================================
