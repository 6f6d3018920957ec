# Formal models of the nineteenseventytwo platform

TLA+ modules, TLC configurations and TLAPS proofs for the parts of the platform
repository that have behaviour of their own: programs and scripts whose
correctness depends on the order of steps, on failures and on time. Paths below
are relative to the repository.

## 1. Inventory

Most of the repository is configuration (YAML for the cluster and its tenants,
Ansible roles, documentation). The logic is in three Go programs, a handful of
shell scripts and two reusable workflows.

| Component | State it keeps | Operations | Hard part | Correct when |
|---|---|---|---|---|
| **findings-exporter**, poll loops and store (`images/findings-exporter/main.go`, `metrics.go`) | per source: findings, up, last success, data time; one mutex | one goroutine per upstream: collect, then `set`/`setDataTime` or `fail` per name; `/metrics` scrapes | goroutines and scrapes interleave, requests fail, the pod restarts | a scrape never shows a broken source as a clean one, nor data as newer than it is |
| **Prowler source** (`prowler.go`) | the report remembered: key, date, findings | list the bucket page by page, download the newest report | the bucket changes between requests | what it answers was the newest report at some moment of the call |
| **GitHub source**, **Alertmanager source** (`sources.go`) | none | page through alerts; one GET | pages are numbered, alerts close between pages | a call misses or doubles no more than was closed or opened under it |
| **credential caches** (`githubapp.go`, `sigv4.go`) | a token or role credentials and their expiry | reuse or exchange, then requests until the collect ends | expiry between check and use, clock drift, revocation | no expired credential is presented by a pod whose clock is not behind, a dead one is replaced |
| **kubescape-gate** and its CronJob (`images/kubescape-gate`, `cluster/kubescape`) | none of its own; alerts live in Alertmanager and end by themselves | scan, subtract the accepted list, post | nights that fail or are missed, list and cluster change under the Job | after a successful night a regression fires until the next night is over |
| **node-maintenance.sh** (`ops/`) | an annotation per workload | `on`, `off`, `check` | interrupts and re-runs, kubectl failing where `set -e` does not look, Argo CD's selfHeal | no replica count is lost; `off` puts everything back |
| **dash** (`images/dash`) | none between pages; the token is a file the kubelet rotates | three lists per namespace, one row per component | lists are not a snapshot; one deadline for all namespaces | a row says what was so; an unreadable namespace says so, and only for a cause |
| **image pipeline** (`.github/workflows/_build-image.yml`, `_promote-image.yml`, `image-*-build.yml`, `image-*-promote.yml`) | registry tags and signatures | check the tag, build, push, sign, smoke test; move `:stable` | check-then-push on two branches, re-runs, cancellations, promotion meanwhile | a version tag stays one commit's; `:stable` is signed and tested |
| **gha-runner entrypoint** (`images/gha-runner`) | registration files in the container | register, run one job, deregister on SIGTERM | signals, restarts of the same container | each start serves a job; a stop deregisters |
| **OIDC discovery** (`bootstrap/oidc`) | two documents in S3, an edge cache | publish, serve | key rotation against the cache | STS can verify every token in use |
| **Makefile waits** (`argocd-sync-wait`) | none | ask for a refresh, poll the status | a status from before the refresh | returns only after the sync asked for |
| **SSH CA, tenant kubeconfig, tests/verify-\*** | files | sign, generate, count violations | partial failure | no half-written file is used; a failed query is not "zero" |
| **Ansible**, manifests, policies, dashboards, docs | - | - | declarative | - |

How they interact: Falco and kubescape-gate push alerts to Alertmanager; the
exporter's Alertmanager source reads them there, as its GitHub source reads code
scanning and its Prowler source the reports in S3; Prometheus scrapes the
exporter, and alerts on `findings_source_up` and on the report's date.
node-maintenance.sh scales all of this down, Argo CD first, and back up.

The hazards of this code, each with its line and the properties that would
catch it going wrong, are listed under `hazards` in `PROJECT.json`.

## 2. Modules

| Module | What it is |
|---|---|
| `FindingsExporter` | main's goroutines and the store they share |
| `FindingsBoard` | abstract: what the dashboard is promised; `FindingsExporter` implements it |
| `ProwlerSource` | `prowlerSource.collect` against a bucket that changes |
| `Collect` | abstract: what `poll` may assume of a source's `collect`; `ProwlerSource` implements it |
| `CredentialCache` | `githubApp.token` and `webIdentity.get` |
| `KubescapeGate` | the nightly Job, its comparison and the alerts it leaves |
| `GitHubSource` | `githubSource.collect` against alerts that open and close between pages |
| `Dash` | one viewer's page: the lists, the rows and the timeouts |
| `ImagePublishing` | the build and promote workflows, on branches that race |
| `NodeMaintenance` | `ops/node-maintenance.sh`, the operator, the workload controllers, Argo CD |
| `MC*` | the small instances TLC checks |
| `*_proofs` | theorems about the module they are named for |

Definitions keep the names of the code where they can; `map` in `PROJECT.json`
gives the lines each one stands for. Operators whose comment begins with
"Mutant of" are broken versions of the definition that follows them. No
specification uses one; `mutants` in `PROJECT.json` says which property must
fail when it takes its original's place, which shows that the property depends
on that piece of the code.

### FindingsExporter

`truth[n]` is when the upstream's findings for a name last changed; an answer is
the findings as they stood at an instant, so "older" and "newer" are numbers and
0 is Go's zero value. `store` is the map of `sourceState` that `metrics.go`
guards with its mutex: each of its methods is one atomic update. `write` holds
the mutex throughout, so a scrape sees `store` in one state, and every invariant
over `store` is one of what Prometheus can be told. `pc`, `todo` and `answer`
are a goroutine's place in `poll`, the names its loop has still to visit, and
the results it has in hand; a step is what another goroutine or a scrape can see
happen. `Names` assigns disjoint sets of names to pollers, as main's
configuration does. `asked`, `outcome` and `hurt` are history or environment:
when the collect began, how it ended, and whether it may fail.

The loop visits the names in any order (the code's order is one of them).
`Failed` needs an upstream that was unreachable at some moment of the collect.

`ImplementsBoard` hides loops, failures and restarts behind a board of cards:
each step shows, marks down or dates one card, or clears the board. It says in
one formula that a refresh never goes back in time, that a failure keeps the
counts, and that no step of one source touches another's card.

### ProwlerSource and Collect

Objects are numbered in key order and written in any order of dates; what a
report says is its key. A listing returns pages of at most `PageSize` live keys
after the cursor, evaluated when each is asked for. `Broken` reports download
and do not parse. `Upload` and `Expire` can happen between any two requests.

`Expire` is restricted as the deployment restricts it: reports are kept 180
days, written daily, and a collect lasts five minutes, so expiry removes the
oldest object, never the newest, and none that was the newest when a collect
under way began. Without that last conjunct TLC shows a collect whose listing
loses the newest report half way and answers with an older one it remembers.
It also means that a report a listing has chosen cannot be gone when it is
downloaded: in the deployment it is 180 days from it.

`ImplementsCollect` maps `answer` (the date that `dataTimes` gives) to the
contract's answer: no older than the newest report when `collect` was called and
no newer than the newest when it returned. This is the assumption `Answers` in
`FindingsExporter` builds on.

### CredentialCache

One module for both caches: `kind` selects which. Dates are kept as what is left
until them. `drift` is the issuer's clock minus the pod's. A credential's expiry
is a date of the issuer's (`githubapp.go:103`, `sigv4.go:97`) that the pod compares
with its own clock (`githubapp.go:65`, `sigv4.go:46`), so `Bought` sets `left` to
`Life + drift` and the issuer accepts the credential while `left > drift`: a pod
whose clock is behind sees more left than there is.

`ExpiredOnlyByDrift` says what the margin is worth for a drift of either sign: an
expired credential is presented only in the last `Budget + drift - Margin` ticks
of a collect. With the code's numbers (five minutes kept in hand, five minutes of
a collect, `main.go:128`) that is `drift`: nothing for a pod whose clock is right
or ahead, and the last two minutes of the longest collect for one that is two
minutes behind. The only assumption is that a new credential outlives a collect
(`LifeAssumption`). The backdated JWT (`githubapp.go:114`) is what lets a pod a
minute ahead buy one.

### KubescapeGate

A raw result is a (control, resource) as Kubescape writes it; `Normalized` is
what `normalize` makes of it. The Job is `pc`: scan container, comparison, post.
`left[c]` is what is left until the alert for a control ends. `failing`,
`accepted` and `broken` (Kubescape, the list, Alertmanager) change at any time.
`Miss` is a night on which no Job starts, `Forget` a restart of Alertmanager.
An alert's 25 hours are counted from the post; the code counts them from the
start of the gate container, minutes earlier (`main.go:34-56`), which the hour
beyond a day leaves room for.
`seeing` and `seen` are history: the regressions that have been there without a
break since the running Job, or the latest finished one, began.

### NodeMaintenance

One action per kubectl call and per branch. `pc`, `list`, `current` and
`heldBack` are the script's state; `replicas`, `note` (the annotation) and
`pods` are the cluster's. Between two calls the run can be interrupted, pods
start and stop, volumes and webhook credentials can go bad, and Argo CD scales
what it manages back to git. A kubectl failure that `set -e` notices ends the
run and is an `Interrupt`. One that it does not notice is modelled where it
happens, as a step that counts a `Slip`: a listing in a process substitution is cut
(`Targets`), a check inside a condition passes (`Check`), an annotation that
could not be read counts as none (`ReadCount`), and a failing word list of a
`for` hides the credentials check (`Unnoticed`). Argo CD acting while its
controller's pod terminates (`ArgoRuns`) is a slip too. `slips` counts them, up
to `MaxSlips`, and a property that a slip can break says so: what is left is
that nothing else breaks it (`ShedsUnreadyBySlipOnly`, `RevivedBySlipOnly`, and
the guard on `slips` in the others). `CountIsKept` holds whatever slips.

### GitHubSource

An alert is a number in order of creation. GitHub lists a repository's open
alerts newest first, and a page is what stands at its positions when it is asked
for; between two pages alerts open and close. `out` says how often the call has
appended each alert, `shown` what the store has of the last call that
succeeded; a page that fails empties `out` and leaves `shown`. `kept`, `opened`
and `closed` are history: the alerts open all through the call, and how many
changed under it.

A call is no snapshot: an alert that is closed moves its successors up, so the
one that crosses from the next page to one already read is missed, and an alert
opened brings one back that was counted. `MissedByClosing` and
`DoubledByOpening` bound both by what changed, over all repositories and tools
together, which is the most that page numbers allow. So this source does not
keep the contract of `Collect`; it settles (`ReportSettles`).

### Dash

`world` is the cluster, `lists` what the lists of the namespace under way said
of each component, `views` the page so far, `spent` its time. A GET is two
steps, because the token is read first and checked when the request arrives;
each list is the world at the instant of its answer. `api` answers, refuses or
hangs, and changes at any time. The token file can be unreadable when a GET needs
it (`readable`); then nothing is sent and the namespace is unknown although the
API server may answer (`NoToken`). `Classify` is `classify`; `Fits` is what
`images/dash/README.md:12-18` lets one say of a workload as it is, and `was`
collects what fitted at any instant of the page.

`RowWasSo` is stated for one change under a page. With two, a row can say what
never was: a component is scaled to zero after its list was read, then a pod
that is still there begins to crash, and a component that was stopped by then is
shown as crashing. The page refreshes by itself, so this lasts one refresh.

### ImagePublishing

Each build is a new digest, also of the same commit; `built[d]` is the commit
its label names. A commit can be pushed to several branches. A branch has one run, as `cancel-in-progress` leaves it, and
runs of two branches interleave. `Check` is the inspection and the comparison of
labels; `2>/dev/null || true` makes any failure of the inspection mean "no tag",
so both answers are possible. The smoke test pulls by tag, not by digest.
`Resume` is "re-run failed jobs", which runs the smoke test without the build.
`green` and `excused` are history: the digests whose own run has passed, and the
branches whose check could not see the tag they push over.

A run can pass on another run's image, when a re-run or another branch has moved
the tag between its push and its smoke test, and that image may be unsigned.
`StableIsTested` is about what is left of the claim then: a digest whose own run
passed is signed and tested if it is what promotion takes. It holds because a tag
never comes back to a digest, so what was not tested under its tag can no longer
be promoted.

## 3. Runs

| Run | Bounds | Shows |
|---|---|---|
| `exporter` | 2 pollers (one with two names, one dated), 2 instants, 1 restart | the four store invariants, `ImplementsBoard`, and recovery both ways |
| `credentials` | the code's minutes (5, 5, 60; 15 and 60; 1, 9, 10), drift -1, 0 or 2 | an expired credential is presented only by a pod that is behind, in the last minutes of a collect; a revoked one is replaced |
| `prowler` | 5 keys: 4 reports, 1 of them unparsable; 2 keys a page | the remembered report is one report, is only replaced by a newer one, the contract, and the newest in the end |
| `gate` | 2 resources and controls, a day of 2 ticks, deadline 1, expiry 4, 1 mishap | lasting regressions fire, fixed ones stop |
| `maintenance` | 3 objects, 2 interrupts, 2 changes of command, 1 slip | no count is lost; what `on` and `off` promise, and that only a slip breaks it |
| `dash` | 2 namespaces, 1 StatefulSet, 0 or 1 replicas, the code's timeouts (5, 10, 20 s), answers after 0 or 4 s, 1 change, a token file that comes and goes | rows, causes and the page's time |
| `github` | 2 repositories with 4 and 1 alerts, one of them of another tool, 2 alerts a page, 2 changes | what a call can miss or double, and that it settles |
| `images` | 2 branches, 3 commits, 2 versions (one shared), one commit on both branches, 3 builds | tags under races, re-runs and promotions |

Two instants are enough for an answer to be stale, three pages of a listing for
a newest report before, on or after the cursor; 3 objects are the controller, one
object Argo CD manages and one it does not; two changes of command allow on, off
and on again; two interrupts allow one in each; one slip anywhere among them is
what the excuses are about. One StatefulSet has a list before its own and one
after, two namespaces share a deadline that one slow one uses up. Two pages
and two changes let alerts cross the page boundary both ways. Three builds are a
race of two branches and a re-run, or a promotion between two re-runs.

Deadlock is checked in every run. Symmetry is not used: the instances are small
and several runs check liveness.

### Runs that find a disagreement

| Run | Says | The code |
|---|---|---|
| `gate_lapse` | an alert "lapses only if the next night's scan is clean" (`images/kubescape-gate/README.md:13`) | it also lapses 25 hours after a night whose successor failed; the dashboard then counts 0 with the source up. `KubeJobFailed` is the only other sign |
| `maintenance_rerun` | "If a run stops partway, run the same command again" (`docs/07-runbooks.md:92`) | stopped between the annotation and the scale, an object counts as already shed; every re-run skips it and times out waiting for its pods. `off` then `on` gets out of it |
| `maintenance_unready` | "Refuses unless every attached Longhorn volume is healthy" (`docs/07-runbooks.md:43`) | inside `check \|\| die` a failed listing of the volumes is an empty one, and `on` sheds with a volume that is not healthy |
| `maintenance_healed` | the controller stops first "so selfHeal does not scale everything straight back" (`docs/07-runbooks.md:31`) | it is scaled to zero and not waited for; while its pod terminates it can scale back what is shed next |

More behaviours follow from the same causes and are described here only:

* a listing cut in `on` leaves namespaces neither shed nor waited for while `on`
  exits 0; one cut in `off` brings Argo CD's controller back
  (`ops/node-maintenance.sh:22-24`: "It comes back last") before the objects that
  were cut, and `off` exits 0. `ControllerBackLast` and `OffRestoresAll` excuse
  slips for this reason;
* an `off` interrupted between restoring a count and removing its annotation,
  followed by `on`, leaves that object running, because it counts as shed and
  passes the wait if its pods have not started yet. This is why `OnShedsAll` and
  `RevivedBySlipOnly` speak of uninterrupted runs.

Two claims about images hold only for runs that end well and alone. `:stable`
moves "only by re-tagging a digest this workflow already built and smoke-tested"
(`_build-image.yml:12-13`; `_promote-image.yml:6-8` says the same): promotion asks
for the version tag alone, and the tag is pushed before the signature and the
smoke test. `Start`, `Check`, `Push`, `Merge`, `Promote`, in this order, move
`:stable` onto a digest that is neither signed nor tested, and the same happens
when the run was cancelled after its push, its test failed, or a re-run has pushed
again. `StableIsTested` therefore speaks of digests whose own run passed. "A
version tag meaning exactly one image" (`_promote-image.yml:10`): a re-run of the
same commit passes the check by design and pushes a new digest under the tag, and
two branches that race, or an inspection that fails, even change the commit;
`VersionCrossesUnseen` says that nothing else does. TLC finds the first of these
in five steps and the others in a few more; they have no runs of their own, since
each follows from the actions by reading them in order.

### Fairness

* `FindingsExporter`: weak fairness of each goroutine. Its requests end within
  the client's 60 seconds and the collect's 5 minutes, its sleeps within the
  interval, its mutex is held for a print. None of the environment.
* `ProwlerSource`: weak fairness of collect's steps, for the same reason.
* `CredentialCache`: weak fairness of time and of the goroutine, and strong
  fairness of the exchange: an issuer that is in order does not let every
  exchange run into the deadline.
* `KubescapeGate`: weak fairness of time and of the Job. A Job is killed at its
  deadline only while something is broken.
* `NodeMaintenance`: weak fairness of the script, of an operator who repeats the
  command until it exits 0, and of pods that stop. Nothing makes pods start,
  selfHeal act or an interrupt happen.
* `Dash`: weak fairness of the handler, whose GETs end within the client's
  timeout. Nothing makes a viewer come or the API server answer.
* `GitHubSource`: weak fairness of the poll loop. That failures and changes cease
  is the premise of `ReportSettles`, not an assumption.
* `ImagePublishing`: none; its properties are about steps.

## 4. Proofs

TLAPS proves these for every value of the constants that meets the named
assumptions.

| Theorem | Says | Argument |
|---|---|---|
| `FindingsExporter_proofs`: `TypeCorrect`, `UpTellsLastOutcomeHolds`, `UpMeansFreshHolds`, `DataTimeNotAheadHolds` | the invariants of run `exporter`, any pollers, names, clock bound and restarts | `Inv` says, for each place a poller can be in its loop, what holds of the names it has visited and of those it has not; disjoint `Names` keep the other pollers out |
| `ImplementsBoardHolds` | the refinement of `FindingsBoard` | under `Inv`, each action maps to one step of the board or to a stutter |
| `CredentialCache_proofs`: `CacheTypes`, `ExpiredByDriftOnly` | `ExpiredOnlyByDrift` for any margin, budget and drift of either sign | a credential just bought outlives its collect; one reused outlives it but for what budget exceeds the margin by (`Outlives`) |
| `NeverExpired` | with a margin no shorter than the budget, none at all on a pod that is not behind | from `ExpiredByDriftOnly` |
| `KubescapeGate_proofs`: `GateTypes`, `SilenceMeansClean` | `OkMeansFiring` for every schedule with Day + Deadline < Expire | firing now is not inductive; firing for longer than the end of the next Job is (`Outlasts`), with what the Job under way cannot lose (`Covers`) |
| `NodeMaintenance_proofs`: `MaintenanceTypes`, `CountsAreKept` | `CountIsKept` for any objects, order, interrupts and unnoticed failures | the count the script carries between two calls is the one it is about to write or to erase (`Faithful`) |
| `OffRestores`, `OnSheds`, `ControllerComesLast`, `ShedsWhenReady`, `RevivedByOffOnly` | what `on` and `off` promise, for any objects and order, with the excuses the properties name | `Promises` joins what an `off` has left to do (`Restoring`: a count still noted is on the list or the controller's) with what an undisturbed `on` has done (`Shedding`: what is noted is at zero, the controller was first, the rest is on the list, and what may still have pods is waited for); `ControllerUp` comes when the list is empty |
| `ProwlerSource_proofs`: `TypeCorrect`, `OneReport`, `NewerOnly` | the safety properties of run `prowler`, any keys, dates, page size, uploads and expiries | follow the report that was newest at the call: it cannot expire before the collect ends (`Asked`), and the scan has met one as new or has it ahead of the cursor (`Scanned`), because what a page leaves out comes after it (`PageIsFirst`); what is remembered is no newer, and dates tell reports apart (`Dated`) |
| `CollectImplemented` | the refinement of `Collect` | under the same invariant each step is a change, a question, an answer between the two dates, a failure, or a stutter |
| `ListingAdvances` | each page moves the cursor on, also under uploads | from `PageIsFirst`: with keys left, a page has one |
| `GitHubSource_proofs`: `SourceTypes`, `MissesAreBounded` | `MissedByClosing` for any repositories, page size, alerts and number of changes | misses are counted as they are made: of the kept alerts that stand before the next page (`Passed`), those not appended are no more than were closed (`Counted`); a closing moves at most one alert over the boundary, because no two open alerts of a repository have one position |
| `RepeatsAreBounded` | `DoubledByOpening`, as general | the repeats made and those to come, the counted alerts that stand after the pages read (`Again`), are together no more than were opened; an opening pushes one alert back over the boundary at most (`PositionOpened`) |
| `PagesAreFinite` | no page begins past all the alerts there can be | there is a next page only while alerts are left for it |
| `Dash_proofs`: `DashTypes`, `RowsWereSo`, `PagesInTime`, `UnreadablesHaveCause` | for any namespaces, components, replicas and timeouts with the page's below the server's | what the lists read so far and the pods as they are now would be put together to (`Mixed`) has fitted at some instant, and while nothing has changed the lists are the world; a namespace becomes unreadable only by a step whose guard is one of the causes |
| `ImagePublishing_proofs`: `PublishingTypes`, `CrossedUnseen`, `PromotedIsTested` | for any branches, commits, versions and number of builds | a run that is building and is not excused finds the tag free or its own commit's (`Checked`); a green digest is signed, and tested if a tag still points at it (`Tested`), because only its own version's tag can (`Labelled`) and none comes back to it |

The assumptions are the named ASSUMEs of each module, which TLC evaluates on
every run: sets are of the right kind, a new credential outlives a collect, an
expiry outlasts a day and a deadline, the page's timeout is below the server's.

`ProwlerSource`'s proofs rest on what `Expire` says of the bucket (section 2):
the lifecycle rule never takes what was the newest report when a collect began.
`Max` is a `CHOOSE` and pages are counted by cardinality, so that a listing has a
greatest date and a first key is proved from the well-foundedness of strict
inclusion on finite sets (`GreatestExists`), without an induction.
`DoubledByOpening` counts a set of pairs (`Repeats`) rather than adding up `out`,
since the laws of a sum over a set need induction.

Only model-checked: the liveness properties (`RecoversWhenReachable`,
`DownShowsWhenUnreachable`, `RevokedIsReplaced`, `EventuallyNewest`,
`RegressionSurfaces`, `FixedLapses`, `OffRerunFinishes`, `OnRetryFinishes`,
`EveryPageServed`, `ReportSettles`), as liveness under fairness is out of the
prover's reach. `ListingAdvances` and `PagesAreFinite` prove the variants two of
them rest on. Every invariant and action property of the passing runs is a
theorem. The runs that expect a violation have no theorem, being about what does
not hold.

## 5. Not modelled

See `components` in `PROJECT.json`. Within the modelled components: log lines,
metric formatting, severities and ages of findings, request signing, OCSF field
mapping, alert texts, HTTP headers and styles, `:latest` and `:sha-<short>`, the
Trivy report. In `NodeMaintenance`, a workload added or removed during
maintenance, and an operator who edits annotations or counts by hand (the chat
switch, which `docs/07-runbooks.md:36` forbids meanwhile). In `Dash`, a component
with several workloads (their counts are added up), and a viewer who goes away
(the request's context ends, and nobody sees the page).

Whole components that have behaviour and no module yet: the gha-runner
entrypoint, OIDC publishing, the Makefile's waits on Argo CD. The Alertmanager
source keeps no state and makes one request, which `FindingsExporter` has as the
instant of an answer.

## 6. Plan

Done: the modules above. Next, in this order:

1. `FindingsPipeline`: `KubescapeGate` and the Alertmanager source composed
   with `FindingsExporter`: how long a regression can be invisible on the
   dashboard with the source shown up.
2. `RunnerLifecycle`: the entrypoint under SIGTERM and restarts.
3. `OidcPublish`, `ArgoSyncWait`: small modules.
4. Proofs: the pipeline's invariant, from those of its parts.

Runs are kept few: a module gets one that asks all its questions on one
instance, and a second only where an assumption of the environment changes.
