------------------------ MODULE NodeMaintenance_proofs ------------------------
(***************************************************************************)
(* For every set of objects, every order of the list and every number of   *)
(* interrupts, rounds and slips (kubectl failing unnoticed, Argo CD acting *)
(* while it stops): no object's replica count is ever lost; a run that is  *)
(* through has shed or restored everything, if nothing slipped; the        *)
(* controller is restored last; and what was shed is only shed while       *)
(* unready, and only comes back without an off, by a slip.                 *)
(*                                                                         *)
(* CountIsKept says nothing of the script; what makes it inductive         *)
(* (Faithful) is that each count the script carries between two calls is   *)
(* the one it is about to write or erase the other copy of.  For the       *)
(* promises of a whole run (Promises) it is that what is noted is shed     *)
(* already, and what is not yet done is on the list or is the controller.  *)
(***************************************************************************)
EXTENDS NodeMaintenance, SequenceTheorems, TLAPS

Target == Head(list)

Faithful ==
    /\ pc = "annotate" /\ note[Target] = None => current = Count[Target]
    /\ pc = "scale" => note[Target] # None
    /\ pc = "unnote" => replicas[Target] = Count[Target]
    /\ heldBack \in {None, Count[controller]}
    /\ pc = "unnoteController" => replicas[controller] = Count[controller]

Inv == TypeOK /\ CountIsKept /\ Faithful

-----------------------------------------------------------------------------
\* Slips are counted up to their bound.
LEMMA SlipType ==
    ASSUME slips \in 0 .. MaxSlips, Slip \/ UNCHANGED slips
    PROVE  slips' \in 0 .. MaxSlips
BY ShedAssumption DEF Slip

\* targets() prints objects, cut or not, and a cut is a slip.
LEMMA TargetsType ==
    ASSUME Targets, slips \in 0 .. MaxSlips
    PROVE  list' \in Seq(Obj) /\ slips' \in 0 .. MaxSlips
<1>1. ASSUME NEW n \in Cuts PROVE SubSeq(Order, 1, n) \in Seq(Obj)
  <2>1. Order \in Seq(Obj) /\ n \in 1 .. Len(Order)
    BY ShedAssumption
  <2> QED
    BY <2>1, SubSeqProperties
<1>2. list' \in Seq(Obj)
  <2>1. CASE list' = Order
    BY <2>1, ShedAssumption
  <2>2. CASE \E n \in Cuts : list' = SubSeq(Order, 1, n)
    BY <1>1, <2>2
  <2> QED
    BY <2>1, <2>2 DEF Targets
<1>3. slips' \in 0 .. MaxSlips
  BY ShedAssumption DEF Targets, Slip
<1> QED
  BY <1>2, <1>3

\* The head and the tail of a list of objects.
LEMMA ListType ==
    ASSUME NEW s \in Seq(Obj), s # <<>>
    PROVE  Head(s) \in Obj /\ Tail(s) \in Seq(Obj)
BY HeadTailProperties

\* None is no count.
LEMMA NoneIsNoCount == None \notin Nat
BY DEF None

LEMMA InitTypeOK == Init => TypeOK
<1> SUFFICES ASSUME Init PROVE TypeOK
  OBVIOUS
<1>1. <<>> \in Seq(Obj)
  OBVIOUS
<1>2. pods \in [Obj -> BOOLEAN]
  BY DEF Init
<1>3. /\ replicas \in [Obj -> Nat] /\ note \in [Obj -> Nat \cup {None}]
      /\ interrupts \in 0 .. MaxInterrupts /\ rounds \in 0 .. MaxRounds
      /\ slips \in 0 .. MaxSlips
      /\ current \in Nat /\ heldBack \in Nat \cup {None}
  BY ShedAssumption DEF Init
<1> QED
  BY <1>1, <1>2, <1>3 DEF Init, TypeOK

-----------------------------------------------------------------------------
\* Every step keeps the types.
LEMMA NextTypeOK == TypeOK /\ [Next]_vars => TypeOK'
<1> SUFFICES ASSUME TypeOK, [Next]_vars PROVE TypeOK'
  OBVIOUS
<1> USE ShedAssumption DEF TypeOK
<1>1. ASSUME NEW o \in Obj, PodsStart(o) \/ PodsStop(o) \/ Heal(o) PROVE TypeOK'
  <2>1. CASE PodsStart(o) \/ PodsStop(o)
    BY <2>1 DEF PodsStart, PodsStop, operator, script
  <2>2. CASE Heal(o)
    <3>1. slips' \in 0 .. MaxSlips
      BY <2>2, SlipType DEF Heal, ArgoRuns
    <3> QED
      BY <2>2, <3>1 DEF Heal, runs, script
  <2> QED
    BY <1>1, <2>1, <2>2
<1>2. CASE Ail
  BY <1>2 DEF Ail, operator, script
<1>3. CASE Run \/ ChangeGoal \/ Interrupt
  <2>1. CASE Run
    BY <2>1 DEF Run, cluster, operator
  <2>2. CASE ChangeGoal
    <3>1. rounds' \in 0 .. MaxRounds
      BY <2>2 DEF ChangeGoal
    <3>2. goal' \in {"on", "off"} /\ finished' \in BOOLEAN
      BY <2>2, Zenon DEF ChangeGoal
    <3> QED
      BY <2>2, <3>1, <3>2 DEF ChangeGoal, cluster, script
  <2>3. CASE Interrupt
    BY <2>3 DEF Interrupt, cluster
  <2> QED
    BY <1>3, <2>1, <2>2, <2>3
<1>4. CASE CheckRefuses \/ AnnotateRefused \/ WaitTimeout \/ OnNotReady
  BY <1>4 DEF CheckRefuses, AnnotateRefused, WaitTimeout, OnNotReady, Die,
     cluster, operator
<1>5. CASE Check \/ OnFinish \/ NoController
  <2>1. slips' \in 0 .. MaxSlips
    BY <1>5, SlipType DEF Check, OnFinish, NoController, Unnoticed
  <2> QED
    BY <1>5, <2>1 DEF Check, OnFinish, NoController, Goto, cluster, runs
<1>6. CASE OnList \/ WaitList \/ OffList
  BY <1>6, TargetsType DEF OnList, WaitList, OffList, Goto, cluster, runs
<1>7. CASE AlreadyShed \/ PodsGone \/ OffSkip
  BY <1>7, ListType DEF AlreadyShed, PodsGone, OffSkip, Goto, cluster, operator
<1>8. CASE ReadCount
  <2>1. slips' \in 0 .. MaxSlips
    BY <1>8, SlipType DEF ReadCount
  <2> QED
    BY <1>8, <2>1, ListType DEF ReadCount, cluster, runs
<1>9. CASE Annotate
  BY <1>9, ListType DEF Annotate, Goto, operator
<1>10. CASE ScaleDown
  BY <1>10, ListType DEF ScaleDown, Goto, operator
<1>11. CASE HoldBack
  BY <1>11, ListType DEF HoldBack, cluster, operator
<1>12. CASE ScaleUp
  BY <1>12, ListType DEF ScaleUp, Goto, operator
<1>13. CASE Unnote
  BY <1>13, ListType DEF Unnote, Goto, operator
<1>14. CASE ControllerUp
  BY <1>14 DEF ControllerUp, Goto, operator
<1>15. CASE ControllerUnnote
  BY <1>15 DEF ControllerUnnote, Goto
<1>16. CASE UNCHANGED vars
  BY <1>16 DEF vars
<1> QED
  BY <1>1, <1>2, <1>3, <1>4, <1>5, <1>6, <1>7, <1>8, <1>9, <1>10, <1>11,
     <1>12, <1>13, <1>14, <1>15, <1>16 DEF Next, On, Off

-----------------------------------------------------------------------------
LEMMA InitInv == Init => Inv
BY InitTypeOK, ShedAssumption DEF Init, Inv, CountIsKept, Faithful

\* Every step keeps the counts, and what the script carries true to them.
LEMMA NextKeeps == Inv /\ [Next]_vars => CountIsKept' /\ Faithful'
<1> SUFFICES ASSUME Inv, [Next]_vars PROVE CountIsKept' /\ Faithful'
  OBVIOUS
<1> USE ShedAssumption, NoneIsNoCount DEF Inv, TypeOK, CountIsKept, Faithful, Target
<1>1. ASSUME NEW o \in Obj, PodsStart(o) \/ PodsStop(o)
      PROVE  CountIsKept' /\ Faithful'
  BY <1>1 DEF PodsStart, PodsStop, operator, script
<1>2. ASSUME NEW o \in Obj, Heal(o)
      PROVE  CountIsKept' /\ Faithful'
  BY <1>2, ListType DEF Heal, runs, script
<1>3. CASE Ail \/ Run \/ ChangeGoal \/ Interrupt
  BY <1>3 DEF Ail, Run, ChangeGoal, Interrupt, cluster, operator, script
<1>4. CASE CheckRefuses \/ AnnotateRefused \/ WaitTimeout \/ OnNotReady
  BY <1>4 DEF CheckRefuses, AnnotateRefused, WaitTimeout, OnNotReady, Die,
     cluster, operator
<1>5. CASE Check \/ OnFinish \/ NoController
  BY <1>5 DEF Check, OnFinish, NoController, Unnoticed, Slip, Goto, cluster, runs, operator
<1>6. CASE OnList \/ WaitList \/ OffList
  BY <1>6 DEF OnList, WaitList, OffList, Goto, cluster, runs
<1>7. CASE AlreadyShed \/ PodsGone \/ OffSkip
  BY <1>7 DEF AlreadyShed, PodsGone, OffSkip, Goto, cluster, operator
<1>8. CASE ReadCount
  BY <1>8, ListType DEF ReadCount, Slip, cluster, runs
<1>9. CASE Annotate
  BY <1>9, ListType DEF Annotate, Goto, operator
<1>10. CASE ScaleDown
  BY <1>10, ListType DEF ScaleDown, Goto, operator
<1>11. CASE HoldBack
  BY <1>11 DEF HoldBack, cluster, operator
<1>12. CASE ScaleUp
  BY <1>12, ListType DEF ScaleUp, Goto, operator
<1>13. CASE Unnote
  BY <1>13, ListType DEF Unnote, Goto, operator
<1>14. CASE ControllerUp
  BY <1>14 DEF ControllerUp, Goto, operator
<1>15. CASE ControllerUnnote
  BY <1>15 DEF ControllerUnnote, Goto
<1>16. CASE UNCHANGED vars
  BY <1>16 DEF vars
<1> QED
  BY <1>1, <1>2, <1>3, <1>4, <1>5, <1>6, <1>7, <1>8, <1>9, <1>10, <1>11,
     <1>12, <1>13, <1>14, <1>15, <1>16 DEF Next, On, Off

-----------------------------------------------------------------------------
\* The variables of the script and its cluster keep their types.
THEOREM MaintenanceTypes == Spec => []TypeOK
<1>1. Init => TypeOK
  BY InitTypeOK
<1>2. TypeOK /\ [Next]_vars => TypeOK'
  BY NextTypeOK
<1> QED
  BY <1>1, <1>2, PTL DEF Spec

\* No interrupt, no failure of kubectl and no race with Argo CD loses a count.
THEOREM CountsAreKept == Spec => []CountIsKept
<1>1. Init => Inv
  BY InitInv
<1>2. Inv /\ [Next]_vars => Inv'
  BY NextTypeOK, NextKeeps DEF Inv
<1>3. Inv => CountIsKept
  BY DEF Inv
<1> QED
  BY <1>1, <1>2, <1>3, PTL DEF Spec
-----------------------------------------------------------------------------
(* What on and off promise.                                                *)

OnSteps  == {"check", "onList", "look", "annotate", "scale", "wait"}
OffSteps == {"offList", "offLook", "unnote", "unnoteController"}
Listing  == {"look", "annotate", "scale"}

Noted(o) == note[o] # None

\* The script runs the operator's command, and only a run that is over has finished.
Goals ==
    /\ finished => pc = "idle"
    /\ pc \in OnSteps => goal = "on"
    /\ pc \in OffSteps => goal = "off"
    /\ pc = "unnote" => Target # controller

\* An object is at its count or shed, never in between.
TwoCounts == \A o \in Obj : replicas[o] \in {0, Count[o]}

\* on() is past its check.
Cleared == pc \in OnSteps \ {"check"} => passed = {} \/ slips > 0

\* off(): what is still noted is still on the list, or held back.
Restoring ==
    slips = 0 =>
        /\ pc \in {"offLook", "unnote"} =>
              \A o \in Obj : Noted(o) => o \in Range(list) \/ (o = controller /\ heldBack # None)
        /\ pc = "unnoteController" => \A o \in Obj \ {controller} : ~Noted(o)
        /\ finished /\ goal = "off" => \A o \in Obj : ~Noted(o)

\* A noted object is at zero, but for the one in hand.
NotedIsShed ==
    \A o \in Obj : Noted(o) =>
        \/ replicas[o] = 0
        \/ pc \in {"scale", "unnote"} /\ o = Target
        \/ pc = "unnoteController" /\ o = controller

\* As long as anything else is noted, Argo CD's controller is shed.
ControllerShed ==
    \A o \in Obj \ {controller} :
        Noted(o) => Noted(controller) /\ replicas[controller] = 0

\* on(): what is not noted is still on the list, and the controller comes first.
Listed ==
    pc \in Listing =>
        /\ \A o \in Obj : ~Noted(o) => o \in Range(list)
        /\ list # <<>> /\ Target # controller => Noted(controller)
        /\ pc = "annotate" => ~Noted(Target)

\* on() waits for the pods of what is on its list, and has shed everything.
Waiting ==
    /\ pc = "wait" => \A o \in Obj : Noted(o) /\ (pods[o] => o \in Range(list))
    /\ finished /\ goal = "on" => \A o \in Obj : Noted(o) /\ ~pods[o]

\* Neither interrupted nor deceived.
Smooth == interrupts = 0 /\ slips = 0

Shedding == Smooth => NotedIsShed /\ ControllerShed /\ Listed /\ Waiting

Promises == Goals /\ TwoCounts /\ Cleared /\ Restoring /\ Shedding

-----------------------------------------------------------------------------
\* What is on a list is its head or in its tail.
LEMMA Remaining ==
    ASSUME NEW s \in Seq(Obj), NEW o \in Range(s)
    PROVE  s # <<>> /\ (o = Head(s) \/ o \in Range(Tail(s)))
<1>1. PICK i \in 1 .. Len(s) : o = s[i]
  BY DEF Range
<1>2. CASE i = 1
  BY <1>1, <1>2
<1>3. CASE i > 1
  <2>1. s # <<>>
    BY <1>1, <1>3
  <2>2. /\ Tail(s) \in Seq(Obj) /\ Len(Tail(s)) = Len(s) - 1
        /\ \A j \in 1 .. Len(Tail(s)) : Tail(s)[j] = s[j + 1]
    BY <2>1, HeadTailProperties
  <2>3. PICK j \in 1 .. Len(Tail(s)) : i = j + 1
    BY <1>1, <1>3, <2>2
  <2>4. Tail(s)[j] = s[i] /\ j \in DOMAIN Tail(s)
    BY <2>2, <2>3
  <2> QED
    BY <1>1, <2>1, <2>4 DEF Range
<1> QED
  BY <1>1, <1>2, <1>3

\* Without a slip targets() prints every object, the controller first.
LEMMA TargetsComplete ==
    ASSUME Targets, slips' = 0, slips \in 0 .. MaxSlips
    PROVE  list' = Order /\ slips = 0
BY ShedAssumption DEF Targets, Slip

LEMMA NoSlip ==
    ASSUME Slip, slips \in 0 .. MaxSlips
    PROVE  slips' > 0
BY ShedAssumption DEF Slip

\* The steps that scale are few.
LEMMA OthersKeepReplicas ==
    [Next]_vars => \/ UNCHANGED replicas \/ ScaleDown \/ ScaleUp \/ ControllerUp
                   \/ \E o \in Obj : Heal(o)
<1> SUFFICES ASSUME [Next]_vars,
                    ~ScaleDown, ~ScaleUp, ~ControllerUp, ~\E o \in Obj : Heal(o)
             PROVE  UNCHANGED replicas
  OBVIOUS
<1>1. ASSUME NEW o \in Obj, PodsStart(o) \/ PodsStop(o) PROVE UNCHANGED replicas
  BY <1>1 DEF PodsStart, PodsStop
<1>2. CASE Ail \/ Run \/ ChangeGoal \/ Interrupt \/ UNCHANGED vars
  BY <1>2 DEF Ail, Run, ChangeGoal, Interrupt, cluster, vars
<1>3. CASE On
  BY <1>3 DEF On, Check, CheckRefuses, OnList, AlreadyShed, ReadCount, Annotate,
     AnnotateRefused, WaitList, PodsGone, WaitTimeout, OnFinish, OnNotReady, Die, cluster
<1>4. CASE Off
  BY <1>4 DEF Off, OffList, OffSkip, HoldBack, Unnote, ControllerUnnote, NoController, cluster
<1> QED
  BY <1>1, <1>2, <1>3, <1>4 DEF Next

\* Only an interrupt counts as one, and slips only grow.
LEMMA InterruptsOnly == [Next]_vars /\ ~Interrupt => UNCHANGED interrupts
<1> SUFFICES ASSUME [Next]_vars, ~Interrupt PROVE UNCHANGED interrupts
  OBVIOUS
<1>1. ASSUME NEW o \in Obj, PodsStart(o) \/ PodsStop(o) \/ Heal(o) PROVE UNCHANGED interrupts
  BY <1>1 DEF PodsStart, PodsStop, Heal, operator, runs
<1>2. CASE Ail \/ Run \/ ChangeGoal \/ UNCHANGED vars
  BY <1>2 DEF Ail, Run, ChangeGoal, operator, vars
<1>3. CASE On
  BY <1>3 DEF On, Check, CheckRefuses, OnList, AlreadyShed, ReadCount, Annotate, ScaleDown,
     AnnotateRefused, WaitList, PodsGone, WaitTimeout, OnFinish, OnNotReady, Die, runs, operator
<1>4. CASE Off
  BY <1>4 DEF Off, OffList, OffSkip, HoldBack, ScaleUp, Unnote, ControllerUp,
     ControllerUnnote, NoController, runs, operator
<1> QED
  BY <1>1, <1>2, <1>3, <1>4 DEF Next

LEMMA SlipsGrow ==
    ASSUME [Next]_vars, slips \in 0 .. MaxSlips, slips' = 0
    PROVE  slips = 0
<1>1. ASSUME NEW o \in Obj, PodsStart(o) \/ PodsStop(o) \/ Heal(o) PROVE slips = 0
  BY <1>1, NoSlip DEF PodsStart, PodsStop, Heal, ArgoRuns, operator
<1>2. CASE Ail \/ Run \/ ChangeGoal \/ Interrupt \/ UNCHANGED vars
  BY <1>2 DEF Ail, Run, ChangeGoal, Interrupt, operator, vars
<1>3. CASE On
  BY <1>3, NoSlip DEF On, Check, CheckRefuses, OnList, AlreadyShed, ReadCount, Annotate,
     ScaleDown, AnnotateRefused, WaitList, PodsGone, WaitTimeout, OnFinish, OnNotReady,
     Unnoticed, Targets, Die, operator
<1>4. CASE Off
  BY <1>4, NoSlip DEF Off, OffList, OffSkip, HoldBack, ScaleUp, Unnote, ControllerUp,
     ControllerUnnote, NoController, Targets, operator
<1> QED
  BY <1>1, <1>2, <1>3, <1>4 DEF Next

LEMMA InitPromises == Init => Promises
<1> SUFFICES ASSUME Init PROVE Promises
  OBVIOUS
<1> USE ShedAssumption DEF Init
<1>1. Goals /\ TwoCounts /\ Cleared
  BY DEF Goals, TwoCounts, Cleared, OnSteps, OffSteps
<1>2. Restoring /\ Shedding
  BY DEF Restoring, Shedding, NotedIsShed, ControllerShed, Listed, Listing, Waiting, Noted
<1> QED
  BY <1>1, <1>2 DEF Promises

LEMMA NextGoals == Inv /\ Promises /\ [Next]_vars => Goals' /\ Cleared'
<1> SUFFICES ASSUME Inv, Promises, [Next]_vars PROVE Goals' /\ Cleared'
  OBVIOUS
<1> USE DEF Inv, TypeOK, Promises, Goals, Cleared, OnSteps, OffSteps, Target
<1>1. CASE Check
  BY <1>1, ShedAssumption DEF Check, Slip, Goto, cluster, runs
<1>2. CASE OnFinish \/ OnList \/ WaitList \/ ReadCount
  <2>1. slips = 0 \/ slips' > 0
    BY <1>2, ShedAssumption DEF OnFinish, OnList, WaitList, ReadCount, Targets, Unnoticed, Slip
  <2>2. pc' \in {"idle", "look", "wait", "annotate"} /\ UNCHANGED passed
    BY <1>2 DEF OnFinish, OnList, WaitList, ReadCount, Goto
  <2> QED
    BY <1>2, <2>1, <2>2 DEF OnFinish, OnList, WaitList, ReadCount, Goto, runs
<1>3. CASE OffList
  BY <1>3 DEF OffList, Goto, runs
<1>4. CASE CheckRefuses \/ AnnotateRefused \/ WaitTimeout \/ OnNotReady
  BY <1>4 DEF CheckRefuses, AnnotateRefused, WaitTimeout, OnNotReady, Die, operator
<1>5. CASE AlreadyShed \/ Annotate \/ ScaleDown \/ PodsGone
  <2>1. CASE AlreadyShed
    BY <2>1 DEF AlreadyShed, Goto, operator
  <2>2. CASE Annotate
    BY <2>2 DEF Annotate, Goto, operator
  <2>3. CASE ScaleDown
    BY <2>3 DEF ScaleDown, Goto, operator
  <2>4. CASE PodsGone
    BY <2>4 DEF PodsGone, Goto, operator
  <2> QED
    BY <1>5, <2>1, <2>2, <2>3, <2>4
<1>6. CASE OffSkip \/ HoldBack \/ ScaleUp \/ Unnote \/ ControllerUp
  BY <1>6 DEF OffSkip, HoldBack, ScaleUp, Unnote, ControllerUp, Goto, cluster, operator
<1>7. CASE ControllerUnnote \/ NoController
  BY <1>7 DEF ControllerUnnote, NoController, Goto, cluster
<1>8. CASE Run
  BY <1>8 DEF Run, operator
<1>9. CASE ChangeGoal \/ Interrupt
  BY <1>9 DEF ChangeGoal, Interrupt, script
<1>10. ASSUME NEW o \in Obj, PodsStart(o) \/ PodsStop(o)
       PROVE  Goals' /\ Cleared'
  BY <1>10 DEF PodsStart, PodsStop, operator, script
<1>11. ASSUME NEW o \in Obj, Heal(o)
       PROVE  Goals' /\ Cleared'
  BY <1>11, ShedAssumption DEF Heal, ArgoRuns, Slip, runs, script
<1>12. CASE UNCHANGED vars
  BY <1>12 DEF vars
<1>13. CASE Ail
  BY <1>13 DEF Ail, operator, script
<1> QED
  BY <1>1, <1>2, <1>3, <1>4, <1>5, <1>6, <1>7, <1>8, <1>9, <1>10, <1>11, <1>12, <1>13
     DEF Next, On, Off
\* Counts are only ever set to zero or to what they were.
LEMMA NextTwoCounts == Inv /\ Promises /\ [Next]_vars => TwoCounts'
<1> SUFFICES ASSUME Inv, Promises, [Next]_vars PROVE TwoCounts'
  OBVIOUS
<1> USE ShedAssumption, NoneIsNoCount
    DEF Inv, TypeOK, CountIsKept, Faithful, Promises, TwoCounts
<1>1. CASE UNCHANGED replicas
  BY <1>1
<1>2. ASSUME NEW o \in Obj, Heal(o) PROVE TwoCounts'
  BY <1>2 DEF Heal
<1>3. CASE ScaleDown
  BY <1>3, ListType DEF ScaleDown
<1>4. CASE ScaleUp
  BY <1>4, ListType DEF ScaleUp
<1>5. CASE ControllerUp
  BY <1>5 DEF ControllerUp
<1>6. QED
  BY <1>1, <1>2, <1>3, <1>4, <1>5, OthersKeepReplicas

\* off() drops an object from its list when its count is back.
LEMMA NextRestoring == Inv /\ Promises /\ [Next]_vars => Restoring'
<1> SUFFICES ASSUME Inv, Promises, [Next]_vars, slips' = 0 PROVE Restoring'
  BY DEF Restoring
<1> USE ShedAssumption, NoneIsNoCount
    DEF Inv, TypeOK, CountIsKept, Faithful, Promises, Goals, OnSteps, OffSteps,
        Restoring, Noted, Target
<1>1. CASE Check \/ CheckRefuses \/ OnList \/ AlreadyShed
  BY <1>1 DEF Check, CheckRefuses, OnList, AlreadyShed, Die, Goto, Slip, cluster, runs, operator
<1>2. CASE OffList
  <2>1. list' = Order
    BY <1>2, TargetsComplete DEF OffList
  <2> QED
    BY <1>2, <2>1 DEF OffList, Goto, cluster, runs
<1>3. CASE OffSkip
  BY <1>3, Remaining DEF OffSkip, Goto, cluster, operator
<1>4. CASE HoldBack
  BY <1>4, Remaining DEF HoldBack, cluster, operator
<1>5. CASE ScaleUp
  BY <1>5 DEF ScaleUp, Goto, operator
<1>6. CASE Unnote
  BY <1>6, ListType, Remaining DEF Unnote, Goto, operator
<1>7. CASE ControllerUp
  BY <1>7, Remaining DEF ControllerUp, Goto, operator
<1>8. CASE ControllerUnnote
  BY <1>8 DEF ControllerUnnote, Goto
<1>9. CASE NoController
  BY <1>9, Remaining DEF NoController, Goto, cluster
<1>10. CASE ReadCount \/ Annotate \/ AnnotateRefused \/ ScaleDown
  BY <1>10 DEF ReadCount, Annotate, AnnotateRefused, ScaleDown, Die, Goto, Slip,
     cluster, runs, operator
<1>11. CASE WaitList \/ PodsGone \/ WaitTimeout \/ OnFinish \/ OnNotReady
  <2>1. pc' \in {"wait", "idle"} /\ goal' = "on"
    BY <1>11 DEF WaitList, PodsGone, WaitTimeout, OnFinish, OnNotReady, Die, Goto,
       runs, operator
  <2> QED
    BY <2>1
<1>12. CASE Ail \/ UNCHANGED vars
  BY <1>12 DEF Ail, operator, script, vars
<1>13. ASSUME NEW o \in Obj, PodsStart(o) \/ PodsStop(o) \/ Heal(o) PROVE Restoring'
  <2>1. UNCHANGED <<goal, finished, note, script>> /\ slips = 0
    BY <1>13 DEF PodsStart, PodsStop, Heal, ArgoRuns, Slip, operator, runs
  <2> QED
    BY <2>1 DEF script
<1>14. CASE Run \/ ChangeGoal \/ Interrupt
  BY <1>14 DEF Run, ChangeGoal, Interrupt, cluster, operator, script
<1> QED
  BY <1>1, <1>2, <1>3, <1>4, <1>5, <1>6, <1>7, <1>8, <1>9, <1>10, <1>11, <1>12, <1>13, <1>14
     DEF Next, On, Off
\* As long as nothing interrupts or deceives it, on() sheds everything on its list,
\* the controller first and for as long as anything else is shed.
LEMMA NextShedding == Inv /\ Promises /\ [Next]_vars => Shedding'
<1> SUFFICES ASSUME Inv, Promises, [Next]_vars, Smooth'
             PROVE  NotedIsShed' /\ ControllerShed' /\ Listed' /\ Waiting'
  BY DEF Shedding
<1>0. Smooth /\ ~Interrupt /\ slips' = slips /\ interrupts' = interrupts
  <2>1. interrupts = 0 /\ ~Interrupt
    <3>1. CASE Interrupt
      BY <3>1 DEF Interrupt, Smooth, Inv, TypeOK
    <3>2. CASE ~Interrupt
      BY <3>2, InterruptsOnly DEF Smooth
    <3> QED
      BY <3>1, <3>2
  <2>2. slips = 0
    BY SlipsGrow DEF Smooth, Inv, TypeOK
  <2> QED
    BY <2>1, <2>2 DEF Smooth
<1> USE ShedAssumption, NoneIsNoCount
    DEF Inv, TypeOK, CountIsKept, Faithful, Promises, Goals, OnSteps, OffSteps,
        Shedding, NotedIsShed, ControllerShed, Listed, Listing, Waiting, Noted, Target
<1>1. CASE Check \/ CheckRefuses \/ AnnotateRefused \/ WaitTimeout \/ OnNotReady
  <2>1. CASE Check
    BY <1>0, <2>1 DEF Check, Goto, cluster, runs
  <2>2. CASE CheckRefuses \/ AnnotateRefused \/ WaitTimeout \/ OnNotReady
    <3>1. pc \notin {"scale", "unnote", "unnoteController", "idle"} /\ Die
      BY <2>2 DEF CheckRefuses, AnnotateRefused, WaitTimeout, OnNotReady
    <3> QED
      BY <1>0, <3>1 DEF Die, cluster, operator
  <2> QED
    BY <1>1, <2>1, <2>2
<1>2. CASE OnList
  <2>1. list' = Order
    BY <1>0, <1>2, TargetsComplete DEF OnList, Smooth
  <2> QED
    BY <1>0, <1>2, <2>1 DEF OnList, Goto, cluster, runs
<1>3. CASE AlreadyShed
  BY <1>0, <1>3, ListType, Remaining DEF AlreadyShed, Goto, cluster, operator
<1>4. CASE ReadCount
  BY <1>0, <1>4 DEF ReadCount, cluster, runs, Slip
<1>5. CASE Annotate
  BY <1>0, <1>5, ListType DEF Annotate, Goto, operator
<1>6. CASE ScaleDown
  BY <1>0, <1>6, ListType, Remaining DEF ScaleDown, Goto, operator
<1>7. CASE WaitList
  <2>1. list' = Order
    BY <1>0, <1>7, TargetsComplete DEF WaitList, Smooth
  <2> QED
    BY <1>0, <1>7, <2>1, Remaining DEF WaitList, Goto, cluster, runs
<1>8. CASE PodsGone
  BY <1>0, <1>8, ListType, Remaining DEF PodsGone, Goto, cluster, operator
<1>9. CASE OnFinish
  BY <1>0, <1>9, Remaining DEF OnFinish, Goto, cluster
<1>10. CASE OffList \/ OffSkip \/ HoldBack
  BY <1>0, <1>10 DEF OffList, OffSkip, HoldBack, Goto, cluster, runs, operator
<1>11. CASE ScaleUp
  BY <1>0, <1>11, ListType DEF ScaleUp, Goto, operator
<1>12. CASE Unnote
  BY <1>0, <1>12, ListType DEF Unnote, Goto, operator
<1>13. CASE ControllerUp
  BY <1>0, <1>13, Remaining DEF ControllerUp, Goto, operator, Restoring, Smooth
<1>14. CASE ControllerUnnote
  BY <1>0, <1>14 DEF ControllerUnnote, Goto, Restoring, Smooth
<1>15. CASE NoController
  BY <1>0, <1>15 DEF NoController, Goto, cluster
<1>16. CASE Ail \/ UNCHANGED vars
  <2>1. UNCHANGED <<replicas, note, pods, goal, finished, pc, list>>
    BY <1>16 DEF Ail, operator, script, vars
  <2> QED
    BY <1>0, <2>1
<1>17. ASSUME NEW o \in Obj, PodsStart(o) \/ PodsStop(o)
       PROVE  NotedIsShed' /\ ControllerShed' /\ Listed' /\ Waiting'
  <2>1. UNCHANGED <<replicas, note, goal, finished, pc, list>>
    BY <1>17 DEF PodsStart, PodsStop, operator, script
  <2>2. NotedIsShed' /\ ControllerShed' /\ Listed'
    BY <1>0, <2>1
  <2>3. CASE PodsStart(o)
    <3>1. /\ replicas[o] > 0 /\ (Noted(o) => pc \in {"scale", "unnote", "unnoteController"})
          /\ \A p \in Obj \ {o} : pods'[p] = pods[p]
      BY <1>0, <2>3 DEF PodsStart
    <3> QED
      BY <1>0, <2>1, <2>2, <3>1
  <2>4. CASE PodsStop(o)
    <3>1. \A p \in Obj : pods'[p] => pods[p]
      BY <2>4, Zenon DEF PodsStop
    <3> QED
      BY <1>0, <2>1, <2>2, <3>1
  <2> QED
    BY <1>17, <2>3, <2>4, <2>2
<1>18. ASSUME NEW o \in Obj, Heal(o)
       PROVE  NotedIsShed' /\ ControllerShed' /\ Listed' /\ Waiting'
  <2>1. Noted(o) /\ o # controller /\ replicas[controller] > 0
    BY <1>0, <1>18 DEF Heal, ArgoRuns, Slip
  <2> QED
    BY <1>0, <2>1
<1>19. CASE Run \/ ChangeGoal
  BY <1>0, <1>19 DEF Run, ChangeGoal, cluster, operator, script
<1> QED
  BY <1>0, <1>1, <1>2, <1>3, <1>4, <1>5, <1>6, <1>7, <1>8, <1>9, <1>10, <1>11, <1>12,
     <1>13, <1>14, <1>15, <1>16, <1>17, <1>18, <1>19
     DEF Next, On, Off
-----------------------------------------------------------------------------
LEMMA Promised == Spec => [](Inv /\ Promises)
<1>1. Init => Inv /\ Promises
  BY InitInv, InitPromises
<1>2. Inv /\ Promises /\ [Next]_vars => Inv' /\ Promises'
  BY NextTypeOK, NextKeeps, NextGoals, NextTwoCounts, NextRestoring, NextShedding
     DEF Inv, Promises
<1> QED
  BY <1>1, <1>2, PTL DEF Spec

\* Whatever was interrupted, off() puts everything back, if nothing slipped.
THEOREM OffRestores == Spec => []OffRestoresAll
<1>1. Inv /\ Promises => OffRestoresAll
  BY NoneIsNoCount, ShedAssumption
     DEF Inv, TypeOK, CountIsKept, Promises, Restoring, Noted, OffRestoresAll
<1> QED
  BY <1>1, Promised, PTL

\* Neither interrupted nor deceived, on() leaves every object at zero without pods.
THEOREM OnSheds == Spec => []OnShedsAll
<1>1. Inv /\ Promises => OnShedsAll
  BY DEF Inv, TypeOK, Promises, Goals, Shedding, Smooth, NotedIsShed, Waiting, OnShedsAll
<1> QED
  BY <1>1, Promised, PTL

\* Argo CD's controller comes back when every other recorded count is restored.
THEOREM ControllerComesLast == Spec => ControllerBackLast
<1>1. Inv /\ Promises /\ [Next]_vars =>
         [replicas'[controller] > replicas[controller]
             => slips > 0 \/ \A o \in Obj \ {controller} : note[o] = None]_vars
  <2> SUFFICES ASSUME Inv, Promises, [Next]_vars,
                      replicas'[controller] > replicas[controller], slips = 0
               PROVE  \A o \in Obj \ {controller} : note[o] = None
    BY ShedAssumption DEF Inv, TypeOK
  <2> USE ShedAssumption DEF Inv, TypeOK, Promises, Restoring, Noted
  <2>1. ControllerUp
    <3>1. ASSUME NEW o \in Obj, Heal(o) PROVE FALSE
      BY <3>1 DEF Heal
    <3>2. CASE ScaleDown
      BY <3>2, ListType DEF ScaleDown
    <3>3. CASE ScaleUp
      BY <3>3, ListType DEF ScaleUp
    <3> QED
      BY <3>1, <3>2, <3>3, OthersKeepReplicas
  <2> QED
    BY <2>1, Remaining DEF ControllerUp
<1> QED
  BY <1>1, Promised, PTL DEF ControllerBackLast, Spec

\* on() scales nothing down after a check that saw something ailing, unless deceived.
THEOREM ShedsWhenReady == Spec => ShedsUnreadyBySlipOnly
<1>1. Inv /\ Promises /\ [Next]_vars => [Sheds => passed = {} \/ slips > 0]_vars
  <2> SUFFICES ASSUME Inv, Promises, [Next]_vars,
                      NEW o \in Obj, replicas'[o] < replicas[o]
               PROVE  passed = {} \/ slips > 0
    BY DEF Sheds
  <2> USE ShedAssumption, NoneIsNoCount
      DEF Inv, TypeOK, CountIsKept, Faithful, Promises, TwoCounts
  <2>1. ScaleDown
    <3>1. replicas[o] \in Nat /\ replicas[o] <= Count[o]
      <4>1. replicas[o] \in Nat /\ Count[o] \in Nat /\ replicas[o] \in {0, Count[o]}
        BY SMTT(20)
      <4> QED
        BY <4>1
    <3>2. ASSUME NEW p \in Obj, Heal(p) PROVE FALSE
      BY <3>1, <3>2 DEF Heal
    <3>3. CASE ScaleUp
      BY <3>1, <3>3, ListType DEF ScaleUp
    <3>4. CASE ControllerUp
      BY <3>1, <3>4 DEF ControllerUp
    <3> QED
      BY <3>1, <3>2, <3>3, <3>4, OthersKeepReplicas
  <2> QED
    BY <2>1 DEF ScaleDown, Cleared, OnSteps
<1> QED
  BY <1>1, Promised, PTL DEF ShedsUnreadyBySlipOnly, Spec

\* Neither interrupted nor deceived, only off() scales a shed object up.
THEOREM RevivedByOffOnly == Spec => RevivedBySlipOnly
<1>1. Inv /\ Promises /\ [Next]_vars => [Revives => goal = "off" \/ interrupts > 0 \/ slips' > 0]_vars
  <2> SUFFICES ASSUME Inv, Promises, [Next]_vars, interrupts = 0, ~(slips' > 0),
                      NEW o \in Obj, replicas[o] = 0, replicas'[o] > 0
               PROVE  goal = "off"
    BY DEF Revives, Inv, TypeOK
  <2>1. CASE ScaleDown
    BY <2>1, ListType, ShedAssumption DEF ScaleDown, Inv, TypeOK
  <2>2. CASE ScaleUp \/ ControllerUp
    BY <2>2 DEF ScaleUp, ControllerUp, Promises, Goals, OffSteps
  <2>3. ASSUME NEW p \in Obj, Heal(p) PROVE FALSE
    <3>1. slips = 0 /\ replicas[controller] > 0 /\ p # controller /\ replicas[p] # Count[p]
      BY <2>3, NoSlip, ShedAssumption DEF Heal, ArgoRuns, Inv, TypeOK
    <3>2. Noted(p)
      BY <3>1 DEF Inv, CountIsKept, Noted
    <3> QED
      BY <3>1, <3>2, ShedAssumption DEF Promises, Shedding, Smooth, ControllerShed
  <2> QED
    BY <2>1, <2>2, <2>3, OthersKeepReplicas DEF Inv, TypeOK
<1> QED
  BY <1>1, Promised, PTL DEF RevivedBySlipOnly, Spec
=============================================================================
