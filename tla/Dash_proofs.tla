---------------------------- MODULE Dash_proofs -----------------------------
(***************************************************************************)
(* For every list of namespaces, every set of components, every timeout    *)
(* and any number of replicas: what a page can say, why a namespace can be *)
(* unreadable, and how long a page can take.                               *)
(*                                                                         *)
(* RowWasSo speaks of the finished page.  The invariant behind it (Mixed)  *)
(* is that the object a list has given and the crashes the pods would give *)
(* now make a workload that was there at some instant, as long as no more  *)
(* than one thing has changed.                                             *)
(***************************************************************************)
EXTENDS Dash, SequenceTheorems, TLAPS

\* What would be classified if the pods were listed now.
Mix(n, c) == [lists[c] EXCEPT !.crash = world[n][c].crash]

\* The list that component c's object is in has been read.
Listed(c) == next > (IF c \in StatefulSets THEN 2 ELSE 1)

Kept ==
    pc # "idle" => \A n \in Namespace, c \in Component : Fits(world[n][c]) \subseteq was[n][c]

Mixed ==
    pc \in {"send", "wait"} /\ changes <= 1 =>
        \A c \in Component : Listed(c) =>
            /\ Fits(Mix(ns, c)) \subseteq was[ns][c]
            /\ changes = 0 => lists[c] = world[ns][c]

\* The namespaces whose view is on the page.
Shown(n) == pc = "page" \/ \E i \in 1 .. at - 1 : n = Namespaces[i]

Rows ==
    changes <= 1 =>
        \A n \in Namespace, c \in Component :
            pc # "idle" /\ Shown(n) /\ ~views[n].error => views[n].rows[c] \in was[n][c]

Cause ==
    /\ pc \in {"send", "wait"} /\ api # "answers" => trouble
    /\ pc = "wait" => token <= 1

Rest == pc = "idle" => at = 1 /\ next = 1

Inv == TypeOK /\ Kept /\ Mixed /\ Rows /\ Cause /\ Rest

-----------------------------------------------------------------------------
\* The least of two numbers.
LEMMA MinOfTwo ==
    ASSUME NEW i \in Nat, NEW j \in Nat
    PROVE  Min({i, j}) \in Nat /\ Min({i, j}) <= j /\ Min({i, j}) \in {i, j}
<1>1. \E x \in {i, j} : \A y \in {i, j} : x <= y
  OBVIOUS
<1>2. Min({i, j}) \in {i, j} /\ \A y \in {i, j} : Min({i, j}) <= y
  BY <1>1 DEF Min
<1> QED
  BY <1>2

\* What comes before a place in a list is in the list.
LEMMA Below ==
    \A l \in Nat : \A m \in 1 .. l : \A i \in 1 .. m - 1 : i \in 1 .. l /\ i < m
OBVIOUS

LEMMA StatesFit == \A w : Fits(w) \subseteq States
BY DEF Fits

\* classify() says of a workload what fits it.
LEMMA ClassifyFits ==
    ASSUME NEW w \in Workload
    PROVE  Classify(w, w.crash) \in Fits(w)
<1>1. /\ w.found \in BOOLEAN /\ w.crash \in BOOLEAN
      /\ w.desired \in Nat /\ w.ready \in Nat
      /\ w.found \/ (w.desired = 0 /\ w.ready = 0)
  BY DashAssumption DEF Workload
<1> QED
  BY <1>1 DEF Classify, Fits, States

LEMMA AbsentType == Absent \in Workload
BY DashAssumption DEF Absent, Workload

LEMMA ViewType == Unread \in View /\ Failed \in View
BY DEF Unread, Failed, View, States

LEMMA InvInit == Init => Inv
<1> SUFFICES ASSUME Init PROVE Inv
  OBVIOUS
<1>1. 1 \in DOMAIN Namespaces /\ 0 \in 0 .. MaxChanges /\ 0 \in 0 .. PageTimeout
  BY DashAssumption
<1>2. /\ [c \in Component |-> Absent] \in [Component -> Workload]
      /\ [n \in Namespace |-> Unread] \in [Namespace -> View]
      /\ Nothing \in [Namespace -> [Component -> SUBSET States]]
  BY AbsentType, ViewType DEF Nothing
<1>3. TypeOK
  <2>1. trouble \in BOOLEAN
    BY Zenon DEF Init
  <2>2. token \in 0 .. 2 /\ next \in 1 .. 3 /\ changes \in 0 .. MaxChanges
        /\ spent \in 0 .. PageTimeout /\ at \in DOMAIN Namespaces
    BY <1>1 DEF Init
  <2> QED
    BY <1>2, <2>1, <2>2, Zenon DEF Init, TypeOK
<1> QED
  BY <1>3 DEF Init, Inv, Kept, Mixed, Rows, Cause, Rest

\* The namespace being read.
LEMMA NsType == TypeOK => ns \in Namespace
BY DEF TypeOK, ns, Namespace

\* One thing changes: the workload that was mixed is the one before, or the one after.
LEMMA InvChange ==
    ASSUME Inv, NEW n \in Namespace, NEW c \in Component, Change(n, c)
    PROVE  Inv'
<1>1. PICK w \in Workload :
         /\ w.crash = world[n][c].crash \/ w = [world[n][c] EXCEPT !.crash = w.crash]
         /\ world' = [world EXCEPT ![n][c] = w]
         /\ was' = [was EXCEPT ![n][c] = @ \cup Fits(w)]
  BY DEF Change
<1>2. /\ changes' = changes + 1 /\ changes < MaxChanges /\ pc # "idle"
      /\ UNCHANGED <<api, token, readable, pc, at, next, lists, views, spent, trouble>>
  BY DEF Change, page
<1>3. /\ \A m \in Namespace, d \in Component :
            /\ world'[m][d] = IF m = n /\ d = c THEN w ELSE world[m][d]
            /\ was'[m][d] = IF m = n /\ d = c THEN was[n][c] \cup Fits(w) ELSE was[m][d]
  BY <1>1 DEF Inv, TypeOK
<1>4. TypeOK'
  <2>1. was' \in [Namespace -> [Component -> SUBSET States]]
    BY <1>1, StatesFit DEF Inv, TypeOK
  <2>2. world' \in [Namespace -> [Component -> Workload]]
    BY <1>1 DEF Inv, TypeOK
  <2>3. changes' \in 0 .. MaxChanges
    BY <1>2, DashAssumption DEF Inv, TypeOK
  <2> QED
    BY <1>2, <2>1, <2>2, <2>3 DEF Inv, TypeOK
<1>5. Kept'
  BY <1>2, <1>3 DEF Inv, Kept
<1>6. ASSUME pc \in {"send", "wait"}, changes' <= 1, NEW d \in Component, Listed(d)
      PROVE  /\ Fits([lists[d] EXCEPT !.crash = world'[ns][d].crash]) \subseteq was'[ns][d]
             /\ changes' # 0
  <2>1. changes = 0
    BY <1>2, <1>6 DEF Inv, TypeOK
  <2>2. ns \in Namespace
    BY NsType DEF Inv
  <2>3. lists[d] = world[ns][d] /\ lists[d] \in Workload
    BY <1>6, <2>1, <2>2 DEF Inv, TypeOK, Mixed
  <2>4. Fits(world[ns][d]) \subseteq was[ns][d]
    BY <1>2, <2>2 DEF Inv, Kept
  <2>5. CASE ns = n /\ d = c
    <3>1. CASE w.crash = world[n][c].crash
      <4>1. [lists[d] EXCEPT !.crash = world'[ns][d].crash] = lists[d]
        BY <1>3, <2>2, <2>3, <2>5, <3>1 DEF Workload
      <4> QED
        BY <1>2, <1>3, <2>1, <2>2, <2>3, <2>4, <2>5, <4>1
    <3>2. CASE w = [world[n][c] EXCEPT !.crash = w.crash]
      <4>1. [lists[d] EXCEPT !.crash = world'[ns][d].crash] = w
        BY <1>3, <2>2, <2>3, <2>5, <3>2
      <4> QED
        BY <1>2, <1>3, <2>1, <2>2, <2>5, <4>1
    <3> QED
      BY <1>1, <3>1, <3>2
  <2>6. CASE ~(ns = n /\ d = c)
    <3>1. world'[ns][d] = world[ns][d] /\ was'[ns][d] = was[ns][d]
      BY <1>3, <2>2, <2>6
    <3>2. [lists[d] EXCEPT !.crash = world[ns][d].crash] = lists[d]
      BY <2>3 DEF Workload
    <3> QED
      BY <1>2, <2>1, <2>3, <2>4, <3>1, <3>2
  <2> QED
    BY <2>5, <2>6
<1>7. Mixed'
  BY <1>2, <1>6 DEF Mixed, Mix, Listed, ns
<1>8. Rows'
  <2>1. changes' <= 1 => changes <= 1
    BY <1>2 DEF Inv, TypeOK
  <2>2. \A m \in Namespace, d \in Component : was[m][d] \subseteq was'[m][d]
    BY <1>3
  <2> QED
    BY <1>2, <2>1, <2>2 DEF Inv, Rows, Shown
<1>9. Cause' /\ Rest'
  BY <1>2 DEF Inv, Cause, Rest
<1> QED
  BY <1>4, <1>5, <1>7, <1>8, <1>9 DEF Inv

\* The API server, the token, a new page, a request, the page written.
LEMMA InvQuiet ==
    ASSUME Inv, Outage \/ Rotate \/ Mount \/ Index \/ Get \/ Page \/ UNCHANGED vars
    PROVE  Inv'
<1>1. CASE Outage \/ Rotate \/ Mount \/ UNCHANGED vars
  <2>1. UNCHANGED <<world, changes, pc, at, next, lists, views, spent, was>>
    BY <1>1 DEF Outage, Rotate, Mount, page, vars
  <2>2. TypeOK' /\ Cause' /\ Rest'
    <3>1. CASE Outage
      BY <2>1, <3>1 DEF Inv, TypeOK, Cause, Rest, Outage
    <3>2. CASE Rotate
      BY <2>1, <3>2 DEF Inv, TypeOK, Cause, Rest, Rotate
    <3>3. CASE UNCHANGED vars
      BY <2>1, <3>3 DEF Inv, TypeOK, Cause, Rest, vars
    <3>4. CASE Mount
      <4>1. readable' \in BOOLEAN
        BY <3>4, Zenon DEF Mount
      <4> QED
        BY <2>1, <3>4, <4>1 DEF Inv, TypeOK, Cause, Rest, Mount
    <3> QED
      BY <1>1, <3>1, <3>2, <3>3, <3>4
  <2> QED
    BY <2>1, <2>2 DEF Inv, Kept, Mixed, Rows, Mix, Listed, Shown, ns
<1>2. CASE Index
  <2>1. UNCHANGED <<world, api, token, readable, changes, at, next, lists, views, spent>>
        /\ pc = "idle" /\ pc' = "send" /\ was' = Truth /\ trouble' = (api # "answers")
    BY <1>2 DEF Index
  <2>2. at = 1 /\ next = 1
    BY <2>1 DEF Inv, Rest
  <2>3. \A n \in Namespace, c \in Component : was'[n][c] = Fits(world[n][c])
    BY <2>1 DEF Truth
  <2>4. was' \in [Namespace -> [Component -> SUBSET States]]
    BY <2>1, StatesFit DEF Truth
  <2>5. TypeOK'
    BY <2>1, <2>4 DEF Inv, TypeOK
  <2>6. Kept' /\ Cause' /\ Rest'
    BY <2>1, <2>2, <2>3 DEF Kept, Cause, Rest
  <2>7. Mixed'
    BY <2>1, <2>2 DEF Mixed, Listed
  <2>8. Rows'
    BY <2>1, <2>2 DEF Rows, Shown
  <2> QED
    BY <2>5, <2>6, <2>7, <2>8 DEF Inv
<1>3. CASE Get
  <2>1. UNCHANGED <<world, api, readable, changes, at, next, lists, views, spent, was, trouble>>
        /\ pc = "send" /\ pc' = "wait" /\ token' = 0
    BY <1>3 DEF Get
  <2>2. TypeOK' /\ Cause' /\ Rest'
    BY <2>1 DEF Inv, TypeOK, Cause, Rest
  <2> QED
    BY <2>1, <2>2 DEF Inv, Kept, Mixed, Rows, Mix, Listed, Shown, ns
<1>4. CASE Page
  <2>1. /\ pc' = "idle" /\ at' = 1 /\ next' = 1 /\ spent' = 0 /\ changes' = 0
        /\ views' = [n \in Namespace |-> Unread]
        /\ was' = Nothing /\ trouble' = FALSE
        /\ UNCHANGED <<world, api, token, readable, lists>>
    BY <1>4 DEF Page
  <2>2. 1 \in DOMAIN Namespaces /\ 0 \in 0 .. MaxChanges /\ 0 \in 0 .. PageTimeout
    BY DashAssumption
  <2>3. /\ Nothing \in [Namespace -> [Component -> SUBSET States]]
        /\ [n \in Namespace |-> Unread] \in [Namespace -> View]
    BY ViewType DEF Nothing
  <2>4. TypeOK'
    <3>1. trouble' \in BOOLEAN
      BY <2>1, Zenon
    <3>2. next' \in 1 .. 3 /\ changes' \in 0 .. MaxChanges /\ spent' \in 0 .. PageTimeout
          /\ at' \in DOMAIN Namespaces
      BY <2>1, <2>2
    <3> QED
      BY <2>1, <2>3, <3>1, <3>2, Zenon DEF Inv, TypeOK
  <2> QED
    BY <2>1, <2>4 DEF Inv, Kept, Mixed, Rows, Cause, Rest
<1> QED
  BY <1>1, <1>2, <1>3, <1>4

\* A list more: its objects are there now.
LEMMA InvWorkloads == Inv /\ Workloads => Inv'
<1> SUFFICES ASSUME Inv, Workloads PROVE Inv'
  OBVIOUS
<1>1. /\ pc = "wait" /\ pc' = "send" /\ next \in {1, 2} /\ next' = next + 1
      /\ UNCHANGED <<world, api, token, readable, changes, at, views, was, trouble>>
      /\ lists' = [c \in Component |-> IF (c \in StatefulSets) = (next = 2)
                                        THEN world[ns][c] ELSE lists[c]]
  BY DEF Workloads, Inv, TypeOK
<1>2. ns \in Namespace /\ ns' = ns
  BY <1>1, NsType DEF Inv, ns
<1>3. spent' \in 0 .. PageTimeout
  BY DashAssumption DEF Workloads, InTime, Inv, TypeOK
<1>4. TypeOK'
  <2>1. lists' \in [Component -> Workload]
    BY <1>1, <1>2 DEF Inv, TypeOK
  <2> QED
    BY <1>1, <1>3, <2>1 DEF Inv, TypeOK
<1>5. ASSUME changes <= 1, NEW c \in Component, next + 1 > (IF c \in StatefulSets THEN 2 ELSE 1)
      PROVE  /\ Fits([lists'[c] EXCEPT !.crash = world[ns][c].crash]) \subseteq was[ns][c]
             /\ changes = 0 => lists'[c] = world[ns][c]
  <2>1. CASE (c \in StatefulSets) = (next = 2)
    <3>1. lists'[c] = world[ns][c] /\ world[ns][c] \in Workload
      BY <1>1, <1>2, <2>1 DEF Inv, TypeOK
    <3>2. [lists'[c] EXCEPT !.crash = world[ns][c].crash] = world[ns][c]
      BY <3>1 DEF Workload
    <3> QED
      BY <1>1, <1>2, <3>1, <3>2 DEF Inv, Kept
  <2>2. CASE (c \in StatefulSets) # (next = 2)
    <3>1. lists'[c] = lists[c] /\ Listed(c)
      BY <1>1, <1>5, <2>2 DEF Listed
    <3> QED
      BY <1>1, <1>5, <3>1 DEF Inv, Mixed, Mix
  <2> QED
    BY <2>1, <2>2
<1>6. Mixed'
  BY <1>1, <1>2, <1>5 DEF Mixed, Mix, Listed
<1>7. Kept' /\ Rows' /\ Cause' /\ Rest'
  BY <1>1 DEF Inv, Kept, Rows, Shown, Cause, Rest
<1> QED
  BY <1>4, <1>6, <1>7 DEF Inv

\* A view more: what is on the page stays, and the next namespace begins.
LEMMA InvShow ==
    ASSUME Inv, pc \in {"send", "wait"}, spent' \in 0 .. PageTimeout,
           NEW view \in View, Show(view),
           changes <= 1 /\ ~view.error
               => \A c \in Component : view.rows[c] \in was[ns][c]
    PROVE  Inv'
<1>1. /\ views' = [views EXCEPT ![ns] = view]
      /\ lists' = [c \in Component |-> Absent]
      /\ UNCHANGED <<world, api, token, readable, changes, was>>
  BY DEF Show
<1>2. \/ at = Len(Namespaces) /\ pc' = "page" /\ at' = at /\ next' = next
      \/ at # Len(Namespaces) /\ pc' = "send" /\ at' = at + 1 /\ next' = 1
  BY DEF Show
<1>3. at \in 1 .. Len(Namespaces) /\ Len(Namespaces) \in Nat /\ ns \in Namespace
  BY NsType, DashAssumption, LenProperties DEF Inv, TypeOK
<1> DEFINE last == Len(Namespaces)
<1>9. DOMAIN Namespaces = 1 .. last
  BY DashAssumption, LenProperties
<1>10. at' \in 1 .. last /\ (pc' = "page" => at' = at /\ at = last)
       /\ (pc' # "page" => at' = at + 1)
  <2> HIDE DEF last
  <2>1. at \in 1 .. last /\ last \in Nat
    BY <1>3 DEF last
  <2>2. \/ at = last /\ pc' = "page" /\ at' = at
        \/ at # last /\ pc' = "send" /\ at' = at + 1
    BY <1>2 DEF last
  <2> QED
    BY <2>1, <2>2
<1>4. TypeOK'
  <2>1. lists' \in [Component -> Workload] /\ views' \in [Namespace -> View]
    BY <1>1, AbsentType DEF Inv, TypeOK
  <2>2. at' \in DOMAIN Namespaces /\ next' \in 1 .. 3 /\ pc' \in {"send", "page"}
        /\ trouble' \in BOOLEAN
    <3>1. at' \in DOMAIN Namespaces
      BY <1>9, <1>10, Zenon
    <3>2. next \in 1 .. 3
      BY DEF Inv, TypeOK
    <3>3. trouble' \in BOOLEAN
      <4>1. trouble \in BOOLEAN
        BY Zenon DEF Inv, TypeOK
      <4> QED
        BY <4>1, Zenon DEF Show
    <3>4. 1 \in 1 .. 3
      OBVIOUS
    <3> QED
      BY <1>2, <3>1, <3>2, <3>3, <3>4, Zenon
  <2> QED
    BY <1>1, <2>1, <2>2 DEF Inv, TypeOK
<1>5. Kept' /\ Cause' /\ Rest'
  <2>1. Kept' /\ Rest'
    BY <1>1, <1>2 DEF Inv, Kept, Rest
  <2>2. Cause'
    BY <1>1 DEF Cause, Show
  <2> QED
    BY <2>1, <2>2
<1>6. Mixed'
  BY <1>2 DEF Mixed, Listed
<1>7. ASSUME changes <= 1, NEW n \in Namespace, NEW c \in Component,
             Shown(n)', ~views'[n].error
      PROVE  views'[n].rows[c] \in was[n][c]
  <2>1. CASE n = ns
    BY <1>1, <1>3, <1>7, <2>1 DEF Inv, TypeOK
  <2>2. CASE n # ns
    <3>1. views'[n] = views[n]
      BY <1>1, <2>2 DEF Inv, TypeOK
    <3>2. PICK i \in 1 .. Len(Namespaces) : n = Namespaces[i] /\ (pc' = "page" \/ i < at')
      <4>1. CASE pc' = "page"
        BY <4>1, DashAssumption DEF Namespace
      <4>2. CASE pc' # "page"
        <5>1. PICK i \in 1 .. at' - 1 : n = Namespaces[i]
          BY <1>7, <4>2 DEF Shown
        <5>2. at' \in 1 .. last /\ last \in Nat
          BY <1>3, <1>10
        <5>3. i \in 1 .. last /\ i < at'
          BY <5>1, <5>2, Below, Zenon
        <5> QED
          BY <5>1, <5>3
      <4> QED
        BY <4>1, <4>2
    <3>3. i # at
      BY <2>2, <3>2 DEF ns
    <3>4. i \in 1 .. at - 1
      <4>1. at \in 1 .. last /\ last \in Nat /\ i \in 1 .. last
        BY <1>3
      <4>2. CASE pc' = "page"
        BY <1>10, <3>3, <4>1, <4>2
      <4>3. CASE pc' # "page"
        BY <1>10, <3>2, <3>3, <4>1, <4>3
      <4> QED
        BY <4>2, <4>3
    <3> QED
      BY <3>1, <3>2, <3>4, <1>7 DEF Inv, Rows, Shown
  <2> QED
    BY <2>1, <2>2
<1>8. Rows'
  BY <1>1, <1>7 DEF Rows
<1> QED
  BY <1>4, <1>5, <1>6, <1>8 DEF Inv

\* The third list, a token that cannot be read, an error, a timeout.
LEMMA InvView == Inv /\ (Pods \/ NoToken \/ Refused \/ TimedOut) => Inv'
<1> SUFFICES ASSUME Inv, Pods \/ NoToken \/ Refused \/ TimedOut PROVE Inv'
  OBVIOUS
<1>1. pc \in {"send", "wait"} /\ (Pods => pc = "wait")
  BY DEF Pods, NoToken, Refused, TimedOut
<1>2. spent' \in 0 .. PageTimeout
  <2>1. CASE Pods \/ Refused
    BY <2>1, DashAssumption DEF Pods, Refused, InTime, Inv, TypeOK
  <2>2. CASE TimedOut
    <3>1. spent + GetTimeout \in Nat /\ PageTimeout \in Nat
      BY DashAssumption DEF Inv, TypeOK
    <3>2. Min({spent + GetTimeout, PageTimeout}) \in 0 .. PageTimeout
      BY <3>1, MinOfTwo
    <3> QED
      BY <2>2, <3>1, <3>2 DEF TimedOut
  <2>3. CASE NoToken
    BY <2>3 DEF NoToken, Inv, TypeOK
  <2> QED
    BY <2>1, <2>2, <2>3
<1>3. CASE NoToken \/ Refused \/ TimedOut
  <2>1. Show(Failed) /\ Failed.error
    BY <1>3 DEF NoToken, Refused, TimedOut, Failed
  <2> QED
    BY <1>1, <1>2, <2>1, ViewType, InvShow
<1>4. CASE Pods
  <2> DEFINE row(c) == Classify(lists[c], world[ns][c].crash)
             view == [error |-> FALSE, rows |-> [c \in Component |-> row(c)]]
  <2>1. Show(view) /\ next = 3 /\ ns \in Namespace
    BY <1>4, NsType DEF Pods, Inv
  <2>2. ASSUME NEW c \in Component
        PROVE  row(c) \in Fits(Mix(ns, c))
    <3>1. lists[c] \in Workload /\ world[ns][c] \in Workload
      BY <2>1 DEF Inv, TypeOK
    <3>2. Mix(ns, c) \in Workload /\ Mix(ns, c).crash = world[ns][c].crash
      BY <3>1 DEF Mix, Workload
    <3>3. Classify(Mix(ns, c), Mix(ns, c).crash) = row(c)
      BY <3>1, <3>2 DEF Classify, Mix, Workload
    <3> QED
      BY <3>2, <3>3, ClassifyFits
  <2>3. view \in View
    <3>1. \A c \in Component : row(c) \in States
      BY <2>2, StatesFit
    <3> QED
      BY <3>1 DEF View
  <2>4. changes <= 1 => \A c \in Component : view.rows[c] \in was[ns][c]
    BY <1>1, <1>4, <2>1, <2>2 DEF Inv, Mixed, Listed
  <2> HIDE DEF view
  <2> QED
    BY <1>1, <1>2, <2>1, <2>3, <2>4, InvShow
<1> QED
  BY <1>3, <1>4

LEMMA InvNext == Inv /\ [Next]_vars => Inv'
<1> SUFFICES ASSUME Inv, [Next]_vars PROVE Inv'
  OBVIOUS
<1>1. CASE \E n \in Namespace, c \in Component : Change(n, c)
  BY <1>1, InvChange
<1>2. CASE Outage \/ Rotate \/ Mount \/ Index \/ Get \/ Page \/ UNCHANGED vars
  BY <1>2, InvQuiet
<1>3. CASE Workloads
  BY <1>3, InvWorkloads
<1>4. CASE Pods \/ NoToken \/ Refused \/ TimedOut
  BY <1>4, InvView
<1> QED
  BY <1>1, <1>2, <1>3, <1>4 DEF Next, Serve

LEMMA Invariance == Spec => []Inv
<1> QED
  BY InvInit, InvNext, PTL DEF Spec

-----------------------------------------------------------------------------
\* Every variable keeps its type.
THEOREM DashTypes == Spec => []TypeOK
<1>1. Inv => TypeOK
  BY DEF Inv
<1> QED
  BY <1>1, Invariance, PTL

\* A row says what was so at some instant of the page, when one thing changed.
THEOREM RowsWereSo == Spec => []RowWasSo
<1>1. Inv => RowWasSo
  BY DEF Inv, Rows, Shown, RowWasSo
<1> QED
  BY <1>1, Invariance, PTL

\* The page is there before the server gives up writing it.
THEOREM PagesInTime == Spec => []PageInTime
<1>1. Inv => PageInTime
  BY DashAssumption DEF Inv, TypeOK, PageInTime
<1> QED
  BY <1>1, Invariance, PTL

\* A namespace is unreadable because of the API server, the page's time or a token
\* file that cannot be read.
THEOREM UnreadablesHaveCause == Spec => UnreadableHasCause
<1> DEFINE cause == \/ trouble
                    \/ spent' = PageTimeout
                    \/ pc = "send" /\ ~readable
<1>1. Inv /\ [Next]_vars =>
         [\A n \in Namespace : views'[n].error /\ ~views[n].error => n = ns /\ cause]_vars
  <2> SUFFICES ASSUME Inv, [Next]_vars, NEW n \in Namespace,
                      views'[n].error, ~views[n].error
               PROVE  n = ns /\ cause
    OBVIOUS
  <2>1. CASE NoToken \/ Refused \/ TimedOut
    <3>1. n = ns
      BY <2>1 DEF NoToken, Refused, TimedOut, Show, Inv, TypeOK
    <3>2. cause
      BY <2>1 DEF NoToken, Refused, TimedOut, Accepted, Inv, Cause
    <3> QED
      BY <3>1, <3>2
  <2>2. CASE Pods
    <3>1. PICK rows : Show([error |-> FALSE, rows |-> rows])
      BY <2>2 DEF Pods
    <3> QED
      BY <3>1 DEF Show, Inv, TypeOK
  <2>3. CASE Page
    BY <2>3 DEF Page, Unread
  <2>4. CASE ~(NoToken \/ Refused \/ TimedOut \/ Pods \/ Page)
    BY <2>4 DEF Next, Serve, vars, page, Change, Outage, Rotate, Mount, Index, Get, Workloads
  <2> QED
    BY <2>1, <2>2, <2>3, <2>4
<1> QED
  BY <1>1, Invariance, PTL DEF Spec, UnreadableHasCause
=============================================================================
