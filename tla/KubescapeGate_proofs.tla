------------------------- MODULE KubescapeGate_proofs -------------------------
(***************************************************************************)
(* For every cluster, every accepted list and every schedule that meets    *)
(* ExpireAssumption: a gate whose latest Job succeeded has an alert firing *)
(* for every regression that was there when the Job began and still is.    *)
(*                                                                         *)
(* OkMeansFiring is not inductive: that an alert fires now says nothing of *)
(* a tick later.  What a step keeps is how long it goes on firing: past    *)
(* the end of the next Job, however late in its Deadline that comes        *)
(* (Outlasts), and that the regressions the Job posts are at least those   *)
(* that stayed since it began (Covers).                                    *)
(***************************************************************************)
EXTENDS KubescapeGate, TLAPS

\* What the alert of every regression still there has left.
Outlasts ==
    lastJob = "ok" /\ mishaps = 0 =>
        \A p \in seen : IF pc = "none" THEN left[ControlOf[p]] > due + Deadline
                                       ELSE left[ControlOf[p]] > deadline

\* The running Job cannot lose a regression that stays.
Covers ==
    /\ seeing \subseteq Difference(failing, accepted)
    /\ pc = "gate" => seeing \subseteq Failing(results)
    /\ pc = "post" => seeing \subseteq regressions

Inv == TypeOK /\ Outlasts /\ Covers

-----------------------------------------------------------------------------
\* What normalize() and difference() make of raw results are pairs.
LEMMA FailingType ==
    ASSUME NEW rs \in SUBSET Raw
    PROVE  Failing(rs) \in SUBSET Pair
BY GateAssumption DEF Failing

LEMMA DifferenceType ==
    ASSUME NEW rs \in SUBSET Raw, NEW acc
    PROVE  Difference(rs, acc) \in SUBSET Pair
BY FailingType DEF Difference

\* An alert sent now outlasts the next Job, whenever that is due.
LEMMA NewAlert ==
    ASSUME NEW d \in 0 .. Day
    PROVE  Expire > d + Deadline
BY GateAssumption, ExpireAssumption

LEMMA InitTypeOK == Init => TypeOK
BY GateAssumption DEF Init, TypeOK

\* Every step keeps the types.
LEMMA NextTypeOK == TypeOK /\ [Next]_vars => TypeOK'
<1> SUFFICES ASSUME TypeOK, [Next]_vars PROVE TypeOK'
  OBVIOUS
<1> USE GateAssumption
<1>1. CASE Start
  BY <1>1, DifferenceType DEF TypeOK, Start, live
<1>2. CASE Miss
  BY <1>2 DEF TypeOK, Miss, live
<1>3. CASE Scan
  BY <1>3 DEF TypeOK, Scan, live, timer
<1>4. CASE NoScan \/ NoList \/ Kill
  BY <1>4 DEF TypeOK, NoScan, NoList, Kill, End, live, timer
<1>5. CASE Clean
  BY <1>5, DifferenceType DEF TypeOK, Clean, End, live, timer
<1>6. CASE Compare
  BY <1>6, DifferenceType DEF TypeOK, Compare, live, timer
<1>7. CASE Post
  BY <1>7 DEF TypeOK, Post, Sent, End, live, timer
<1>8. CASE PostFailed
  BY <1>8 DEF TypeOK, PostFailed, Sent, End, live, timer
<1>9. CASE Tick
  BY <1>9 DEF TypeOK, Tick, Less, live
<1>10. CASE Forget
  BY <1>10 DEF TypeOK, Forget, live, timer
<1>11. ASSUME NEW r \in Raw, Change(r) PROVE TypeOK'
  BY <1>11 DEF TypeOK, Change, Observe, timer
<1>12. ASSUME NEW p \in Pair, Review(p) PROVE TypeOK'
  BY <1>12 DEF TypeOK, Review, Observe, timer
<1>13. ASSUME NEW x \in {"scan", "list", "alertmanager"}, Outage(x) PROVE TypeOK'
  BY <1>13 DEF TypeOK, Outage, timer
<1>14. CASE UNCHANGED vars
  BY <1>14 DEF TypeOK, vars
<1> QED
  BY <1>1, <1>2, <1>3, <1>4, <1>5, <1>6, <1>7, <1>8, <1>9, <1>10, <1>11,
     <1>12, <1>13, <1>14 DEF Next, Job

-----------------------------------------------------------------------------
LEMMA InitInv == Init => Inv
BY InitTypeOK DEF Init, Inv, Outlasts, Covers

\* Every step keeps Covers.
LEMMA NextCovers == Inv /\ [Next]_vars => Covers'
<1> SUFFICES ASSUME Inv, [Next]_vars PROVE Covers'
  OBVIOUS
<1> USE DEF Inv, Covers
<1>1. CASE Start \/ Miss
  BY <1>1 DEF Start, Miss, live
<1>2. CASE Scan
  BY <1>2 DEF Scan, live, Difference
<1>3. CASE NoScan \/ NoList \/ Kill \/ Clean \/ Post \/ PostFailed
  BY <1>3 DEF NoScan, NoList, Kill, Clean, Post, PostFailed, End, live
<1>4. CASE Compare
  BY <1>4 DEF Compare, live, Difference
<1>5. CASE Tick \/ Forget
  BY <1>5 DEF Tick, Forget, live
<1>6. ASSUME NEW r \in Raw, Change(r) PROVE Covers'
  BY <1>6 DEF Change, Observe
<1>7. ASSUME NEW p \in Pair, Review(p) PROVE Covers'
  BY <1>7 DEF Review, Observe
<1>8. ASSUME NEW x \in {"scan", "list", "alertmanager"}, Outage(x) PROVE Covers'
  BY <1>8 DEF Outage
<1>9. CASE UNCHANGED vars
  BY <1>9 DEF vars
<1> QED
  BY <1>1, <1>2, <1>3, <1>4, <1>5, <1>6, <1>7, <1>8, <1>9 DEF Next, Job

\* Every step keeps Outlasts; a mishap makes it void.
LEMMA NextOutlasts == Inv /\ [Next]_vars => Outlasts'
<1> SUFFICES ASSUME Inv, [Next]_vars PROVE Outlasts'
  OBVIOUS
<1> USE GateAssumption, ExpireAssumption DEF Inv
<1>1. CASE Start
  BY <1>1 DEF Start, live, Outlasts, TypeOK
<1>2. CASE Scan
  BY <1>2 DEF Scan, timer, Outlasts
<1>3. CASE NoScan \/ NoList \/ Kill \/ PostFailed
  BY <1>3 DEF NoScan, NoList, Kill, PostFailed, End, Outlasts
<1>4. CASE Clean
  <2>1. seen' = {}
    BY <1>4 DEF Clean, End, Covers, Difference
  <2> QED
    BY <2>1 DEF Outlasts
<1>5. CASE Compare
  BY <1>5 DEF Compare, timer, Outlasts
<1>6. CASE Post
  <2> SUFFICES ASSUME NEW p \in seen'
               PROVE  left'[ControlOf[p]] > due' + Deadline
    BY <1>6 DEF Post, End, Outlasts
  <2>1. p \in regressions
    BY <1>6 DEF Post, End, Covers
  <2>2. ControlOf[p] \in Control /\ ControlOf[p] \in Alerts(regressions)
    BY <2>1 DEF TypeOK, Alerts
  <2>3. left'[ControlOf[p]] = Expire
    BY <1>6, <2>2 DEF Post, Sent
  <2>4. due' \in 0 .. Day
    BY <1>6 DEF Post, End, timer, TypeOK
  <2>5. Expire > due' + Deadline
    BY <2>4, NewAlert
  <2> QED
    BY <2>3, <2>5, Zenon
<1>7. CASE Tick
  <2> SUFFICES ASSUME lastJob = "ok", mishaps = 0, NEW p \in seen
               PROVE  IF pc = "none" THEN left'[ControlOf[p]] > due' + Deadline
                                     ELSE left'[ControlOf[p]] > deadline'
    BY <1>7 DEF Tick, Outlasts
  <2>1. /\ ControlOf[p] \in Control
        /\ left[ControlOf[p]] \in Nat
        /\ left'[ControlOf[p]] = Less(left[ControlOf[p]])
    BY <1>7 DEF Tick, TypeOK
  <2>2. CASE pc = "none"
    BY <1>7, <2>1, <2>2 DEF Tick, Outlasts, Less, TypeOK
  <2>3. CASE pc # "none"
    BY <1>7, <2>1, <2>3 DEF Tick, Outlasts, Less, TypeOK
  <2> QED
    BY <2>2, <2>3
<1>8. CASE Miss \/ Forget
  <2>1. mishaps \in Nat /\ mishaps' = mishaps + 1
    BY <1>8 DEF Miss, Forget, TypeOK
  <2>2. mishaps' # 0
    BY <2>1
  <2> QED
    BY <2>2 DEF Outlasts
<1>9. ASSUME NEW r \in Raw, Change(r) PROVE Outlasts'
  BY <1>9 DEF Change, Observe, timer, Outlasts
<1>10. ASSUME NEW p \in Pair, Review(p) PROVE Outlasts'
  BY <1>10 DEF Review, Observe, timer, Outlasts
<1>11. ASSUME NEW x \in {"scan", "list", "alertmanager"}, Outage(x) PROVE Outlasts'
  BY <1>11 DEF Outage, timer, Outlasts
<1>12. CASE UNCHANGED vars
  BY <1>12 DEF vars, Outlasts
<1> QED
  BY <1>1, <1>2, <1>3, <1>4, <1>5, <1>6, <1>7, <1>8, <1>9, <1>10, <1>11,
     <1>12 DEF Next, Job

-----------------------------------------------------------------------------
\* The gate's variables keep their types.
THEOREM GateTypes == Spec => []TypeOK
<1>1. Init => TypeOK
  BY InitTypeOK
<1>2. TypeOK /\ [Next]_vars => TypeOK'
  BY NextTypeOK
<1> QED
  BY <1>1, <1>2, PTL DEF Spec

\* While no night is missed and Alertmanager keeps its alerts, a gate that says
\* ok has an alert firing for every regression that has stayed since that Job.
THEOREM SilenceMeansClean == Spec => []OkMeansFiring
<1>1. Init => Inv
  BY InitInv
<1>2. Inv /\ [Next]_vars => Inv'
  BY NextTypeOK, NextCovers, NextOutlasts DEF Inv
<1>3. Inv => OkMeansFiring
  BY GateAssumption DEF Inv, TypeOK, Outlasts, OkMeansFiring
<1> QED
  BY <1>1, <1>2, <1>3, PTL DEF Spec
=============================================================================
