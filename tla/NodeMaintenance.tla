--------------------------- MODULE NodeMaintenance ---------------------------
(***************************************************************************)
(* ops/node-maintenance.sh: "on" sheds the workloads a planned node reboot *)
(* can do without, recording each one's replica count in an annotation;    *)
(* "off" puts the counts back.  The script is a process of many kubectl    *)
(* calls; between any two of them it can be interrupted, the workloads'    *)
(* pods start and stop, and Argo CD scales what it manages back to git.    *)
(* An operator runs it, and runs the same command again when it did not    *)
(* finish (docs/07-runbooks.md:92).                                        *)
(*                                                                         *)
(* A kubectl call that fails where the script notices (set -e) ends the    *)
(* run, as an interrupt does; where it does not notice, the run goes on    *)
(* with what an empty answer means, and that is a step of its own here.    *)
(***************************************************************************)
EXTENDS Integers, Sequences, SequencesExt

CONSTANTS
    Obj,            \* the Deployments and StatefulSets of the SHED list
    controller,     \* argocd/statefulset/argocd-application-controller
    Order,          \* what targets() prints when every listing succeeds
    Cuts,           \* the lengths targets() can be cut to: one before each namespace entry
    Count,          \* Count[o]: the replicas o had before the maintenance
    Managed,        \* the objects whose replicas Argo CD takes from git
    MaxInterrupts,  \* bound: how many runs are interrupted
    MaxRounds,      \* bound: how often the operator changes between on and off
    MaxSlips        \* bound: how often something goes wrong that the script cannot see

None == -1

ASSUME ShedAssumption ==
    /\ controller \in Obj
    /\ Count \in [Obj -> Nat]
    /\ Managed \subseteq Obj \ {controller}
    /\ Order \in Seq(Obj) /\ Range(Order) = Obj
    /\ Order # <<>> /\ Head(Order) = controller
    /\ Cuts \subseteq 1 .. Len(Order)
    /\ MaxInterrupts \in Nat /\ MaxRounds \in Nat /\ MaxSlips \in Nat

VARIABLES
    replicas,       \* spec.replicas
    note,           \* the maintenance-replicas annotation, None if there is none
    pods,           \* the object has pods
    ailing,         \* what check should report: "volumes", "credentials"
    goal,           \* the command the operator runs: "on" or "off"
    pc,             \* where the script is, "idle" when it is not running
    list,           \* the targets its loop has not visited
    current,        \* the replica count on() read, the one off() read
    heldBack,       \* off(): the count recorded for the controller, None if none
    finished,       \* the goal's command has exited 0
    interrupts,     \* how many runs were interrupted
    rounds,         \* how often the goal changed
    slips,          \* how often kubectl failed unnoticed, or Argo CD acted while it stopped
    passed          \* history: what was ailing when on()'s first check passed

cluster == <<replicas, note, pods, ailing>>
runs    == <<goal, finished, interrupts, rounds>>
operator == <<goal, finished, interrupts, rounds, slips>>
script  == <<pc, list, current, heldBack>>
vars    == <<replicas, note, pods, ailing, goal, pc, list, current, heldBack,
             finished, interrupts, rounds, slips, passed>>

-----------------------------------------------------------------------------
Init ==
    /\ replicas = Count
    /\ note = [o \in Obj |-> None]
    /\ pods = [o \in Obj |-> Count[o] > 0]
    /\ ailing \in SUBSET {"volumes", "credentials"}
    /\ goal = "on" /\ finished = FALSE /\ interrupts = 0 /\ rounds = 0 /\ slips = 0
    /\ pc = "idle" /\ list = <<>> /\ current = 0 /\ heldBack = None
    /\ passed = {}

\* Something goes wrong that the script cannot see.
Slip == slips < MaxSlips /\ slips' = slips + 1

(* The cluster.                                                            *)

\* external: the workload controllers bring the pods in line with the count.
PodsStart(o) ==
    /\ replicas[o] > 0 /\ ~pods[o]
    /\ pods' = [pods EXCEPT ![o] = TRUE]
    /\ UNCHANGED <<replicas, note, ailing, operator, script, passed>>

PodsStop(o) ==
    /\ replicas[o] = 0 /\ pods[o]
    /\ pods' = [pods EXCEPT ![o] = FALSE]
    /\ UNCHANGED <<replicas, note, ailing, operator, script, passed>>

\* external: Argo CD's application controller is at work, or still is while its
\* pod terminates.
ArgoRuns ==
    /\ pods[controller]
    /\ IF replicas[controller] > 0 THEN UNCHANGED slips ELSE Slip

\* external: selfHeal scales an object back to its count in git.
Heal(o) ==
    /\ ArgoRuns
    /\ o \in Managed /\ replicas[o] # Count[o]
    /\ replicas' = [replicas EXCEPT ![o] = Count[o]]
    /\ UNCHANGED <<note, pods, ailing, runs, script, passed>>

\* A volume loses a replica or is rebuilt, a pod starts with or without the
\* webhook.
Ail ==
    /\ \E s \in SUBSET {"volumes", "credentials"} : s # ailing /\ ailing' = s
    /\ UNCHANGED <<replicas, note, pods, operator, script, passed>>

(* The operator.                                                           *)

\* The command is run, for the first time or again.
Run ==
    /\ pc = "idle" /\ ~finished
    /\ pc' = IF goal = "on" THEN "check" ELSE "offList"
    /\ heldBack' = None
    /\ UNCHANGED <<cluster, operator, list, current, passed>>

\* The nodes are done, or a new round begins, or the operator has thought again.
ChangeGoal ==
    /\ pc = "idle" /\ rounds < MaxRounds
    /\ goal' = IF goal = "on" THEN "off" ELSE "on"
    /\ finished' = FALSE
    /\ rounds' = rounds + 1
    /\ UNCHANGED <<cluster, interrupts, slips, script, passed>>

\* The run ends between two calls: ^C, a lost connection, or set -e.
Interrupt ==
    /\ pc # "idle" /\ interrupts < MaxInterrupts
    /\ interrupts' = interrupts + 1
    /\ pc' = "idle"
    /\ UNCHANGED <<cluster, goal, finished, rounds, slips, list, current, heldBack, passed>>

Die ==
    /\ pc' = "idle"
    /\ UNCHANGED <<cluster, operator, list, current, heldBack, passed>>

Goto(where) == pc' = where /\ UNCHANGED <<current, heldBack>>

\* Mutant of Targets: Argo CD's controller comes last.
TargetsReversed == list' = Reverse(Order) /\ UNCHANGED slips

\* targets(): the loop reads it from a process substitution, so a listing that
\* fails ends the list and nothing else.
Targets ==
    \/ list' = Order /\ UNCHANGED slips
    \/ Slip /\ \E n \in Cuts : list' = SubSeq(Order, 1, n)

(* on().                                                                   *)

\* Mutant of Check: "check || true".
CheckIgnored ==
    /\ pc = "check"
    /\ passed' = ailing
    /\ Goto("onList")
    /\ UNCHANGED <<cluster, operator, list>>

\* check >/dev/null || die: inside a condition set -e is off, and a listing of
\* volumes or namespaces that fails is an empty one, with nothing wrong in it.
Check ==
    /\ pc = "check"
    /\ IF ailing = {} THEN UNCHANGED slips ELSE Slip
    /\ passed' = ailing
    /\ Goto("onList")
    /\ UNCHANGED <<cluster, runs, list>>

CheckRefuses ==
    /\ pc = "check" /\ ailing # {}
    /\ Die

OnList ==
    /\ pc = "onList"
    /\ Targets
    /\ Goto("look")
    /\ UNCHANGED <<cluster, runs, passed>>

\* Mutant of AlreadyShed: an object that is shed ends the run.
AlreadyShedDies ==
    /\ pc = "look" /\ list # <<>>
    /\ note[Head(list)] # None
    /\ Die

\* The annotation is there: "already shed", and on to the next object.
AlreadyShed ==
    /\ pc = "look" /\ list # <<>>
    /\ note[Head(list)] # None
    /\ list' = Tail(list)
    /\ Goto("look")
    /\ UNCHANGED <<cluster, operator, passed>>

\* No annotation, or a get that failed inside [[ -n "$(...)" ]]: its count is read.
ReadCount ==
    /\ pc = "look" /\ list # <<>>
    /\ IF note[Head(list)] = None THEN UNCHANGED slips ELSE Slip
    /\ current' = replicas[Head(list)]
    /\ pc' = "annotate"
    /\ UNCHANGED <<cluster, runs, list, heldBack, passed>>

\* Mutant of Annotate: kubectl annotate --overwrite.
AnnotateOver ==
    /\ pc = "annotate"
    /\ note' = [note EXCEPT ![Head(list)] = current]
    /\ Goto("scale")
    /\ UNCHANGED <<replicas, pods, ailing, operator, list, passed>>

\* kubectl annotate, without --overwrite.
Annotate ==
    /\ pc = "annotate"
    /\ note[Head(list)] \in {None, current}
    /\ note' = [note EXCEPT ![Head(list)] = current]
    /\ Goto("scale")
    /\ UNCHANGED <<replicas, pods, ailing, operator, list, passed>>

\* external: kubectl refuses to change an annotation that is there.
AnnotateRefused ==
    /\ pc = "annotate"
    /\ note[Head(list)] \notin {None, current}
    /\ Die

\* kubectl scale --replicas=0.
ScaleDown ==
    /\ pc = "scale"
    /\ replicas' = [replicas EXCEPT ![Head(list)] = 0]
    /\ list' = Tail(list)
    /\ Goto("look")
    /\ UNCHANGED <<note, pods, ailing, operator, passed>>

\* The second loop lists the targets anew and waits for each one's pods.
WaitList ==
    /\ pc = "look" /\ list = <<>>
    /\ Targets
    /\ Goto("wait")
    /\ UNCHANGED <<cluster, runs, passed>>

\* Mutant of PodsGone: it waits for the count of replicas.
CountGone ==
    /\ pc = "wait" /\ list # <<>>
    /\ replicas[Head(list)] = 0
    /\ list' = Tail(list)
    /\ Goto("wait")
    /\ UNCHANGED <<cluster, operator, passed>>

\* kubectl wait --for=delete: no pod matches, now or any more.
PodsGone ==
    /\ pc = "wait" /\ list # <<>>
    /\ ~pods[Head(list)]
    /\ list' = Tail(list)
    /\ Goto("wait")
    /\ UNCHANGED <<cluster, operator, passed>>

\* "still has pods after 5m".
WaitTimeout ==
    /\ pc = "wait" /\ list # <<>>
    /\ pods[Head(list)]
    /\ Die

\* The check at the end is not in a condition: a failing listing of the volumes
\* ends it, but the words of a for loop still hide a failing one.
Unnoticed == ailing = {"credentials"} /\ Slip

OnFinish ==
    /\ pc = "wait" /\ list = <<>>
    /\ (ailing = {} /\ UNCHANGED slips) \/ Unnoticed
    /\ finished' = TRUE
    /\ Goto("idle")
    /\ UNCHANGED <<cluster, goal, interrupts, rounds, list, passed>>

OnNotReady ==
    /\ pc = "wait" /\ list = <<>>
    /\ ailing # {}
    /\ Die

(* off().                                                                  *)

OffList ==
    /\ pc = "offList"
    /\ Targets
    /\ Goto("offLook")
    /\ UNCHANGED <<cluster, runs, passed>>

\* Mutant of OffSkip: nothing recorded ends the run.
OffSkipDies ==
    /\ pc = "offLook" /\ list # <<>>
    /\ note[Head(list)] = None
    /\ Die

\* [[ -n "$recorded" ]] || continue.
OffSkip ==
    /\ pc = "offLook" /\ list # <<>>
    /\ note[Head(list)] = None
    /\ list' = Tail(list)
    /\ Goto("offLook")
    /\ UNCHANGED <<cluster, operator, passed>>

\* The controller is held back until the end.
HoldBack ==
    /\ pc = "offLook" /\ list # <<>>
    /\ Head(list) = controller /\ note[controller] # None
    /\ heldBack' = note[controller]
    /\ list' = Tail(list)
    /\ UNCHANGED <<cluster, operator, pc, current, passed>>

\* Mutant of ScaleUp: the controller is restored in its place in the list.
ScaleUpInOrder ==
    /\ pc = "offLook" /\ list # <<>>
    /\ note[Head(list)] # None
    /\ replicas' = [replicas EXCEPT ![Head(list)] = note[Head(list)]]
    /\ Goto("unnote")
    /\ UNCHANGED <<note, pods, ailing, operator, list, passed>>

\* Mutant of ScaleUp: an object is scaled whether or not a count is recorded.
ScaleUpBlindly ==
    /\ pc = "offLook" /\ list # <<>>
    /\ Head(list) # controller
    /\ replicas' = [replicas EXCEPT ![Head(list)] = note[Head(list)]]
    /\ Goto("unnote")
    /\ UNCHANGED <<note, pods, ailing, operator, list, passed>>

\* kubectl scale --replicas=$recorded.
ScaleUp ==
    /\ pc = "offLook" /\ list # <<>>
    /\ Head(list) # controller /\ note[Head(list)] # None
    /\ replicas' = [replicas EXCEPT ![Head(list)] = note[Head(list)]]
    /\ Goto("unnote")
    /\ UNCHANGED <<note, pods, ailing, operator, list, passed>>

\* kubectl annotate "$ANNOTATION-".
Unnote ==
    /\ pc = "unnote"
    /\ note' = [note EXCEPT ![Head(list)] = None]
    /\ list' = Tail(list)
    /\ Goto("offLook")
    /\ UNCHANGED <<replicas, pods, ailing, operator, passed>>

ControllerUp ==
    /\ pc = "offLook" /\ list = <<>> /\ heldBack # None
    /\ replicas' = [replicas EXCEPT ![controller] = heldBack]
    /\ Goto("unnoteController")
    /\ UNCHANGED <<note, pods, ailing, operator, list, passed>>

ControllerUnnote ==
    /\ pc = "unnoteController"
    /\ note' = [note EXCEPT ![controller] = None]
    /\ finished' = TRUE
    /\ Goto("idle")
    /\ UNCHANGED <<replicas, pods, ailing, goal, interrupts, rounds, slips, list, passed>>

\* Mutant of NoController: off ends with the loop.
OffEndsEarly ==
    /\ pc = "offLook" /\ list = <<>>
    /\ finished' = TRUE
    /\ Goto("idle")
    /\ UNCHANGED <<cluster, goal, interrupts, rounds, slips, list, passed>>

\* if [[ -n "$controller" ]]: there was none to restore.
NoController ==
    /\ pc = "offLook" /\ list = <<>> /\ heldBack = None
    /\ finished' = TRUE
    /\ Goto("idle")
    /\ UNCHANGED <<cluster, goal, interrupts, rounds, slips, list, passed>>

-----------------------------------------------------------------------------
On ==
    \/ Check \/ CheckRefuses \/ OnList \/ AlreadyShed \/ ReadCount
    \/ Annotate \/ AnnotateRefused \/ ScaleDown
    \/ WaitList \/ PodsGone \/ WaitTimeout \/ OnFinish \/ OnNotReady

Off ==
    \/ OffList \/ OffSkip \/ HoldBack \/ ScaleUp \/ Unnote
    \/ ControllerUp \/ ControllerUnnote \/ NoController

Next ==
    \/ \E o \in Obj : PodsStart(o) \/ PodsStop(o) \/ Heal(o)
    \/ Ail
    \/ Run \/ ChangeGoal \/ Interrupt
    \/ On \/ Off

\* The script runs on, the operator runs it again, and pods come and go in time.
Spec == /\ Init /\ [][Next]_vars
        /\ WF_vars(Run) /\ WF_vars(On \/ Off)
        /\ \A o \in Obj : WF_vars(PodsStop(o))

-----------------------------------------------------------------------------
\* Every variable keeps its type.
TypeOK ==
    /\ replicas \in [Obj -> Nat] /\ note \in [Obj -> Nat \cup {None}]
    /\ pods \in [Obj -> BOOLEAN]
    /\ ailing \subseteq {"volumes", "credentials"}
    /\ goal \in {"on", "off"} /\ finished \in BOOLEAN
    /\ interrupts \in 0 .. MaxInterrupts /\ rounds \in 0 .. MaxRounds
    /\ slips \in 0 .. MaxSlips
    /\ pc \in {"idle", "check", "onList", "look", "annotate", "scale", "wait",
               "offList", "offLook", "unnote", "unnoteController"}
    /\ list \in Seq(Obj)
    /\ pc \in {"annotate", "scale", "unnote"} => list # <<>>
    /\ current \in Nat /\ heldBack \in Nat \cup {None}
    /\ passed \subseteq {"volumes", "credentials"}

\* Wherever a run is interrupted and whatever kubectl failed to tell it, the
\* count an object had is still on the object: in the annotation, or in spec
\* when there is none (node-maintenance.sh:26-29).  For chat it is nowhere else.
CountIsKept ==
    \A o \in Obj : IF note[o] = None THEN replicas[o] = Count[o]
                                     ELSE note[o] = Count[o]

\* Unless a listing was cut, Argo CD's controller comes back only after every
\* other recorded count is restored, "so it finds nothing to change"
\* (node-maintenance.sh:21-24).
ControllerBackLast ==
    [][replicas'[controller] > replicas[controller]
        => slips > 0 \/ \A o \in Obj \ {controller} : note[o] = None]_vars

\* Whatever was interrupted and in whichever order on and off followed each
\* other: when "off" has finished, every object has its count back and no
\* annotation, unless something slipped.
OffRestoresAll ==
    finished /\ goal = "off" /\ slips = 0
        => note = [o \in Obj |-> None] /\ replicas = Count

\* No run was interrupted and nothing slipped: then, when "on" has finished, and
\* until "off", every object on the list is at zero and its pods are gone
\* (07-runbooks.md:43-44).
OnShedsAll ==
    finished /\ goal = "on" /\ interrupts = 0 /\ slips = 0
        => \A o \in Obj : replicas[o] = 0 /\ ~pods[o]

Sheds == \E o \in Obj : replicas'[o] < replicas[o]

\* "Refuses unless every attached Longhorn volume is healthy"
\* (07-runbooks.md:43-44): nothing is scaled down unless every volume was healthy
\* when the first check passed.
ShedsOnlyWhenReady == [][Sheds => "volumes" \notin passed]_vars

\* Nothing is scaled down unless the first check passed with every volume healthy
\* and every federated pod with its credentials, or kubectl failed inside it: no
\* interrupt, re-run or change of command gets past it.
ShedsUnreadyBySlipOnly == [][Sheds => passed = {} \/ slips > 0]_vars

Revives == \E o \in Obj : replicas[o] = 0 /\ replicas'[o] > 0

\* "so selfHeal does not scale everything straight back" (07-runbooks.md:31-32):
\* in runs that were not interrupted nothing shed is scaled up but by "off".
StaysShed == [][Revives => goal = "off" \/ interrupts > 0]_vars

\* The same, unless the controller acted while its pod was terminating.
RevivedBySlipOnly == [][Revives => goal = "off" \/ interrupts > 0 \/ slips' > 0]_vars

\* "If a run stops partway, run the same command again" (07-runbooks.md:92): an
\* operator who keeps to one command from some time on, in a cluster that is
\* well, gets that command done, whatever was run, finished or interrupted before.
RerunFinishes(command) ==
    <>[](goal = command /\ ailing = {}) => <>[](goal = command /\ finished)

OffRerunFinishes == RerunFinishes("off")
OnRerunFinishes  == RerunFinishes("on")

\* The same for runs of "on" that stopped only because pods took too long to go
\* or the cluster was not well.
OnRetryFinishes == [](interrupts = 0 /\ slips = 0) => RerunFinishes("on")
=============================================================================
