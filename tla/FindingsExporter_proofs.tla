----------------------- MODULE FindingsExporter_proofs -----------------------
(***************************************************************************)
(* Proofs about FindingsExporter, for every set of pollers and names, any  *)
(* clock bound and any number of restarts.                                 *)
(*                                                                         *)
(* None of the properties is inductive: each depends on where a poller is  *)
(* in its loop and on which names that loop has already visited.  Inv says *)
(* what holds of a name at each place its poller can be.                   *)
(***************************************************************************)
EXTENDS FindingsExporter, TLAPS

\* Per name, wherever its poller is: no card claims data newer than its
\* findings, nor findings newer than the truth.
Ages(n) == /\ store[n].dataTime <= store[n].findings
           /\ store[n].findings <= truth[n]
           /\ truth[n] <= now

\* p has asked: what it will be told is at least as new as what is shown.
Asking(p) ==
    pc[p] = "asking" => \A n \in Names[p] : /\ store[n].findings <= asked[p][n]
                                            /\ 0 < asked[p][n] /\ asked[p][n] <= truth[n]

\* p is visiting its names with an answer: some are already set to it.
Publishing(p) ==
    pc[p] = "publishing" =>
        /\ outcome[p] = "ok"
        /\ \A n \in Names[p] :
            /\ 0 < answer[p][n] /\ asked[p][n] <= answer[p][n] /\ answer[p][n] <= truth[n]
            /\ IF n \in todo[p]
               THEN store[n].findings <= answer[p][n]
               ELSE store[n].present /\ store[n].up /\ store[n].findings = answer[p][n]

\* Every name is set, and the dates follow.
Dating(p) ==
    pc[p] = "dating" =>
        /\ outcome[p] = "ok"
        /\ \A n \in Names[p] :
            /\ asked[p][n] <= answer[p][n]
            /\ store[n].present /\ store[n].up /\ store[n].findings = answer[p][n]

\* p is visiting its names with an error: those visited are down.
Failing(p) ==
    pc[p] = "failing" =>
        /\ outcome[p] = "err"
        /\ \A n \in Names[p] \ todo[p] : store[n].present /\ ~store[n].up

\* p is between two refreshes.
Waiting(p) ==
    pc[p] = "waiting" =>
        \A n \in Names[p] :
            /\ store[n].present
            /\ store[n].up <=> outcome[p] = "ok"
            /\ store[n].up => store[n].findings >= asked[p][n]

\* What holds of p wherever it is.
Refresh(p) == /\ todo[p] \subseteq Names[p]
              /\ Asking(p) /\ Publishing(p) /\ Dating(p) /\ Failing(p) /\ Waiting(p)

Inv == /\ TypeOK
       /\ \A n \in Name : Ages(n)
       /\ \A p \in Poller : Refresh(p)

-----------------------------------------------------------------------------
(* The type invariant.                                                     *)

\* The methods of the store return a store.
LEMMA StoreTypes ==
    ASSUME NEW s \in [Name -> Entry], NEW n \in Name, NEW v \in Time, NEW t \in Time
    PROVE  /\ Set(s, n, v, t) \in [Name -> Entry]
           /\ SetDataTime(s, n, v) \in [Name -> Entry]
           /\ Fail(s, n) \in [Name -> Entry]
BY DEF Set, SetDataTime, Fail, Entry

LEMMA ZeroIsTime == 0 \in Time /\ 1 \in Time /\ MaxTime \in Nat
BY ConfigAssumption DEF Time

LEMMA TypeInit == Init => TypeOK
<1>1. NoEntry \in Entry
  BY ZeroIsTime DEF NoEntry, Entry
<1>. QED
  BY <1>1, ZeroIsTime, ConfigAssumption DEF Init, TypeOK

LEMMA TypeNext == TypeOK /\ [Next]_vars => TypeOK'
<1>. SUFFICES ASSUME TypeOK, [Next]_vars PROVE TypeOK'
  OBVIOUS
<1>. USE ConfigAssumption
<1>1. ASSUME NEW p \in Poller, Ask(p) PROVE TypeOK'
  BY <1>1, ZeroIsTime DEF Ask, TypeOK, world, Time
<1>2. ASSUME NEW p \in Poller, Answered(p) PROVE TypeOK'
  BY <1>2 DEF Answered, Answers, TypeOK, world
<1>3. ASSUME NEW p \in Poller, Failed(p) PROVE TypeOK'
  BY <1>3 DEF Failed, TypeOK, world
<1>4. ASSUME NEW p \in Poller, Publish(p) PROVE TypeOK'
  <2>1. PICK n \in todo[p] : /\ store' = Set(store, n, answer[p][n], now)
                             /\ todo' = [todo EXCEPT ![p] = @ \ {n}]
    BY <1>4 DEF Publish
  <2>3. n \in Name /\ answer[p][n] \in Time /\ now \in Time /\ store \in [Name -> Entry]
    BY DEF TypeOK
  <2>2. store' \in [Name -> Entry]
    BY <2>1, <2>3, StoreTypes
  <2>. QED
    BY <1>4, <2>1, <2>2 DEF Publish, TypeOK, world, history
<1>5. ASSUME NEW p \in Poller, Published(p) PROVE TypeOK'
  BY <1>5 DEF Published, TypeOK, world, history
<1>6. ASSUME NEW p \in Poller, Date(p) PROVE TypeOK'
  <2>1. PICK n \in todo[p] : /\ store' = SetDataTime(store, n, answer[p][n])
                             /\ todo' = [todo EXCEPT ![p] = @ \ {n}]
    BY <1>6 DEF Date
  <2>3. n \in Name /\ answer[p][n] \in Time /\ 0 \in Time /\ store \in [Name -> Entry]
    BY ZeroIsTime DEF TypeOK
  <2>2. store' \in [Name -> Entry]
    BY <2>1, <2>3, StoreTypes
  <2>. QED
    BY <1>6, <2>1, <2>2 DEF Date, TypeOK, world, history
<1>7. ASSUME NEW p \in Poller, MarkDown(p) PROVE TypeOK'
  <2>1. PICK n \in todo[p] : /\ store' = Fail(store, n)
                             /\ todo' = [todo EXCEPT ![p] = @ \ {n}]
    BY <1>7 DEF MarkDown
  <2>3. n \in Name /\ answer[p][n] \in Time /\ 0 \in Time /\ store \in [Name -> Entry]
    BY ZeroIsTime DEF TypeOK
  <2>2. store' \in [Name -> Entry]
    BY <2>1, <2>3, StoreTypes
  <2>. QED
    BY <1>7, <2>1, <2>2 DEF MarkDown, TypeOK, world, history
<1>8. ASSUME NEW p \in Poller, Rest(p) \/ Wake(p) PROVE TypeOK'
  BY <1>8 DEF Rest, Wake, TypeOK, world, history
<1>9. ASSUME NEW p \in Poller, Break(p) \/ Mend(p) PROVE TypeOK'
  BY <1>9 DEF Break, Mend, TypeOK, history
<1>10. ASSUME NEW n \in Name, Change(n) PROVE TypeOK'
  BY <1>10 DEF Change, TypeOK, history, Time
<1>11. CASE Restart
  <2>1. NoEntry \in Entry
    BY ZeroIsTime DEF NoEntry, Entry
  <2>. QED
    BY <1>11, <2>1, ZeroIsTime DEF Restart, TypeOK, world
<1>12. CASE UNCHANGED vars
  BY <1>12 DEF vars, TypeOK
<1>. QED
  BY <1>1, <1>2, <1>3, <1>4, <1>5, <1>6, <1>7, <1>8, <1>9, <1>10, <1>11, <1>12
     DEF Next, Poll

\* Every variable keeps its type in every state of the exporter.
THEOREM TypeCorrect == Spec => []TypeOK
BY TypeInit, TypeNext, PTL DEF Spec

-----------------------------------------------------------------------------
(* The inductive invariant.                                                *)

\* A step that leaves alone everything p's part of the invariant reads.
Untouched(p) ==
    /\ truth' = truth
    /\ pc'[p] = pc[p] /\ todo'[p] = todo[p] /\ answer'[p] = answer[p]
    /\ asked'[p] = asked[p] /\ outcome'[p] = outcome[p]
    /\ \A n \in Names[p] : store'[n] = store[n]

LEMMA Frame ==
    ASSUME NEW p \in Poller, Refresh(p), Untouched(p)
    PROVE  Refresh(p)'
BY DEF Refresh, Untouched, Asking, Publishing, Dating, Failing, Waiting

\* What each method of the store does to the entry it names, and to no other.
LEMMA SetEffect ==
    ASSUME NEW s \in [Name -> Entry], NEW n \in Name, NEW v, NEW t
    PROVE  /\ Set(s, n, v, t)[n] = [present |-> TRUE, findings |-> v, up |-> TRUE,
                                    lastSuccess |-> t, dataTime |-> s[n].dataTime]
           /\ \A m \in Name \ {n} : Set(s, n, v, t)[m] = s[m]
BY DEF Set

LEMMA DateEffect ==
    ASSUME NEW s \in [Name -> Entry], NEW n \in Name, NEW v, s[n].present
    PROVE  /\ SetDataTime(s, n, v)[n].present /\ SetDataTime(s, n, v)[n].dataTime = v
           /\ SetDataTime(s, n, v)[n].up = s[n].up
           /\ SetDataTime(s, n, v)[n].findings = s[n].findings
           /\ \A m \in Name \ {n} : SetDataTime(s, n, v)[m] = s[m]
BY DEF SetDataTime, Entry

LEMMA FailEffect ==
    ASSUME NEW s \in [Name -> Entry], NEW n \in Name
    PROVE  /\ Fail(s, n)[n].present /\ ~Fail(s, n)[n].up
           /\ Fail(s, n)[n].findings = s[n].findings
           /\ Fail(s, n)[n].dataTime = s[n].dataTime
           /\ \A m \in Name \ {n} : Fail(s, n)[m] = s[m]
BY DEF Fail, Entry

LEMMA InvInit == Init => Inv
<1>. SUFFICES ASSUME Init PROVE Inv
  OBVIOUS
<1>1. TypeOK
  BY TypeInit
<1>2. ASSUME NEW n \in Name PROVE Ages(n)
  BY ZeroIsTime DEF Init, Ages, NoEntry
<1>3. ASSUME NEW p \in Poller PROVE Refresh(p)
  BY DEF Init, Refresh, Asking, Publishing, Dating, Failing, Waiting
<1>. QED
  BY <1>1, <1>2, <1>3 DEF Inv

LEMMA InvPublish ==
    ASSUME Inv, TypeOK', NEW p \in Poller, Publish(p) PROVE Inv'
<1>. USE ConfigAssumption
<1>1. PICK n \in todo[p] : /\ store' = Set(store, n, answer[p][n], now)
                           /\ todo' = [todo EXCEPT ![p] = @ \ {n}]
  BY DEF Publish
<1>2. /\ n \in Name /\ n \in Names[p] /\ answer[p][n] \in Time /\ now \in Time
      /\ store \in [Name -> Entry]
  BY <1>1 DEF Inv, TypeOK, Refresh
<1>3. /\ store'[n] = [present |-> TRUE, findings |-> answer[p][n], up |-> TRUE,
                      lastSuccess |-> now, dataTime |-> store[n].dataTime]
      /\ \A m \in Name \ {n} : store'[m] = store[m]
  BY <1>1, <1>2, SetEffect
<1>4. ASSUME NEW q \in Poller, q # p PROVE Refresh(q)'
  <2>1. \A m \in Names[q] : m \in Name \ {n}
    BY <1>2, <1>4
  <2>2. todo'[q] = todo[q]
    BY <1>1, <1>4 DEF Inv, TypeOK
  <2>3. Untouched(q)
    BY <1>3, <2>1, <2>2 DEF Publish, Untouched, world, history
  <2>. QED
    BY <2>3, Frame DEF Inv
<1>5. Publishing(p)
  BY DEF Inv, Refresh
<1>6. Refresh(p)'
  <2>1. todo'[p] \subseteq Names[p]
    BY <1>1 DEF Inv, Refresh, TypeOK
  <2>2. todo'[p] = todo[p] \ {n}
    BY <1>1 DEF Inv, TypeOK
  <2>3. ASSUME NEW m \in Names[p], m # n PROVE store'[m] = store[m]
    BY <1>3, <2>3
  <2>4. Publishing(p)'
    BY <1>3, <1>5, <2>2, <2>3 DEF Publish, Publishing, world, history
  <2>. QED
    BY <2>1, <2>4 DEF Publish, Refresh, Asking, Dating, Failing, Waiting
<1>7. ASSUME NEW m \in Name PROVE Ages(m)'
  <2>1. /\ store[m].dataTime <= store[m].findings /\ store[m].findings <= truth[m]
        /\ truth[m] <= now /\ truth' = truth /\ now' = now
    BY DEF Inv, Ages, Publish, world
  <2>2. CASE m = n
    <3>1. store[n].findings <= answer[p][n] /\ answer[p][n] <= truth[n]
      BY <1>1, <1>2, <1>5 DEF Publishing, Publish
    <3>2. /\ store[n].dataTime \in Int /\ store[n].findings \in Int
          /\ answer[p][n] \in Int
      BY <1>2 DEF Entry, Time
    <3>. QED
      BY <2>1, <2>2, <3>1, <3>2, <1>3 DEF Ages
  <2>3. CASE m # n
    BY <2>1, <2>3, <1>3 DEF Ages
  <2>. QED
    BY <2>2, <2>3
<1>. QED
  BY <1>4, <1>6, <1>7 DEF Inv

LEMMA InvAsk ==
    ASSUME Inv, TypeOK', NEW p \in Poller, Ask(p) PROVE Inv'
<1>. USE ConfigAssumption
<1>1. store' = store /\ truth' = truth /\ now' = now
  BY DEF Ask, world
<1>2. ASSUME NEW q \in Poller, q # p PROVE Refresh(q)'
  <2>1. Untouched(q)
    BY <1>1, <1>2 DEF Ask, Untouched, world, history, Inv, TypeOK
  <2>. QED
    BY <2>1, Frame DEF Inv
<1>3. Refresh(p) /\ TypeOK
  BY DEF Inv
<1>4. Refresh(p)'
  <2>1. /\ pc'[p] = "asking" /\ asked'[p] = truth /\ todo'[p] = todo[p]
    BY <1>3 DEF Ask, TypeOK
  <2>2. ASSUME NEW n \in Names[p]
        PROVE  /\ n \in Name /\ truth[n] \in Time \ {0} /\ store[n].findings <= truth[n]
    BY <1>3, <2>2 DEF Inv, Ages, TypeOK
  <2>3. ASSUME NEW n \in Names[p]
        PROVE  /\ store'[n].findings <= asked'[p][n]
               /\ 0 < asked'[p][n] /\ asked'[p][n] <= truth'[n]
    BY <1>1, <2>1, <2>2 DEF Time
  <2>. QED
    BY <1>3, <2>1, <2>3 DEF Refresh, Asking, Publishing, Dating, Failing, Waiting
<1>5. \A n \in Name : Ages(n)'
  BY <1>1 DEF Inv, Ages
<1>. QED
  BY <1>2, <1>4, <1>5 DEF Inv

LEMMA InvAnswered ==
    ASSUME Inv, TypeOK', NEW p \in Poller, Answered(p) PROVE Inv'
<1>. USE ConfigAssumption
<1>1. store' = store /\ truth' = truth /\ now' = now
  BY DEF Answered, world
<1>2. ASSUME NEW q \in Poller, q # p PROVE Refresh(q)'
  <2>1. Untouched(q)
    BY <1>1, <1>2 DEF Answered, Untouched, world, history, Inv, TypeOK
  <2>. QED
    BY <2>1, Frame DEF Inv
<1>3. Refresh(p) /\ TypeOK
  BY DEF Inv
<1>4. Refresh(p)'
  <2>1. PICK f \in Answers(p) : answer' = [answer EXCEPT ![p] = f]
    BY DEF Answered
  <2>2. /\ pc'[p] = "publishing" /\ answer'[p] = f /\ todo'[p] = Names[p]
        /\ outcome'[p] = "ok" /\ asked' = asked
    BY <1>3, <2>1 DEF Answered, TypeOK
  <2>3. ASSUME NEW n \in Names[p]
        PROVE  /\ 0 < f[n] /\ asked[p][n] <= f[n] /\ f[n] <= truth[n]
               /\ store[n].findings <= f[n]
    <3>1. /\ n \in Name /\ f[n] \in Time /\ asked[p][n] \in Time
          /\ store[n].findings \in Time
      BY <1>3 DEF TypeOK, Answers, Entry
    <3>2. asked[p][n] <= f[n] /\ f[n] <= truth[n]
      BY <3>1 DEF Answers
    <3>3. 0 < asked[p][n] /\ store[n].findings <= asked[p][n]
      BY <1>3 DEF Answered, Refresh, Asking
    <3>. QED
      BY <3>1, <3>2, <3>3 DEF Time
  <2>4. Publishing(p)'
    BY <1>1, <2>2, <2>3 DEF Publishing
  <2>. QED
    BY <2>2, <2>4 DEF Refresh, Asking, Dating, Failing, Waiting
<1>5. \A n \in Name : Ages(n)'
  BY <1>1 DEF Inv, Ages
<1>. QED
  BY <1>2, <1>4, <1>5 DEF Inv

LEMMA InvFailed ==
    ASSUME Inv, TypeOK', NEW p \in Poller, Failed(p) PROVE Inv'
<1>. USE ConfigAssumption
<1>1. store' = store /\ truth' = truth /\ now' = now
  BY DEF Failed, world
<1>2. ASSUME NEW q \in Poller, q # p PROVE Refresh(q)'
  <2>1. Untouched(q)
    BY <1>1, <1>2 DEF Failed, Untouched, world, history, Inv, TypeOK
  <2>. QED
    BY <2>1, Frame DEF Inv
<1>3. Refresh(p) /\ TypeOK
  BY DEF Inv
<1>4. Refresh(p)'
  BY <1>1, <1>3 DEF Failed, world, history, TypeOK, Refresh, Asking, Publishing, Dating, Failing, Waiting
<1>5. \A n \in Name : Ages(n)'
  BY <1>1 DEF Inv, Ages
<1>. QED
  BY <1>2, <1>4, <1>5 DEF Inv

LEMMA InvPublished ==
    ASSUME Inv, TypeOK', NEW p \in Poller, Published(p) PROVE Inv'
<1>. USE ConfigAssumption
<1>1. store' = store /\ truth' = truth /\ now' = now
  BY DEF Published, world
<1>2. ASSUME NEW q \in Poller, q # p PROVE Refresh(q)'
  <2>1. Untouched(q)
    BY <1>1, <1>2 DEF Published, Untouched, world, history, Inv, TypeOK
  <2>. QED
    BY <2>1, Frame DEF Inv
<1>3. Refresh(p) /\ TypeOK
  BY DEF Inv
<1>4. Refresh(p)'
  BY <1>1, <1>3 DEF Published, world, history, TypeOK, Refresh, Asking, Publishing, Dating, Failing, Waiting
<1>5. \A n \in Name : Ages(n)'
  BY <1>1 DEF Inv, Ages
<1>. QED
  BY <1>2, <1>4, <1>5 DEF Inv

LEMMA InvRest ==
    ASSUME Inv, TypeOK', NEW p \in Poller, Rest(p) PROVE Inv'
<1>. USE ConfigAssumption
<1>1. store' = store /\ truth' = truth /\ now' = now
  BY DEF Rest, world
<1>2. ASSUME NEW q \in Poller, q # p PROVE Refresh(q)'
  <2>1. Untouched(q)
    BY <1>1, <1>2 DEF Rest, Untouched, world, history, Inv, TypeOK
  <2>. QED
    BY <2>1, Frame DEF Inv
<1>3. Refresh(p) /\ TypeOK
  BY DEF Inv
<1>4. Refresh(p)'
  BY <1>1, <1>3 DEF Rest, world, history, TypeOK, Refresh, Asking, Publishing, Dating, Failing, Waiting
<1>5. \A n \in Name : Ages(n)'
  BY <1>1 DEF Inv, Ages
<1>. QED
  BY <1>2, <1>4, <1>5 DEF Inv

LEMMA InvWake ==
    ASSUME Inv, TypeOK', NEW p \in Poller, Wake(p) PROVE Inv'
<1>. USE ConfigAssumption
<1>1. store' = store /\ truth' = truth /\ now' = now
  BY DEF Wake, world
<1>2. ASSUME NEW q \in Poller, q # p PROVE Refresh(q)'
  <2>1. Untouched(q)
    BY <1>1, <1>2 DEF Wake, Untouched, world, history, Inv, TypeOK
  <2>. QED
    BY <2>1, Frame DEF Inv
<1>3. Refresh(p) /\ TypeOK
  BY DEF Inv
<1>4. Refresh(p)'
  BY <1>1, <1>3 DEF Wake, world, history, TypeOK, Refresh, Asking, Publishing, Dating, Failing, Waiting
<1>5. \A n \in Name : Ages(n)'
  BY <1>1 DEF Inv, Ages
<1>. QED
  BY <1>2, <1>4, <1>5 DEF Inv

LEMMA InvDate ==
    ASSUME Inv, TypeOK', NEW p \in Poller, Date(p) PROVE Inv'
<1>. USE ConfigAssumption
<1>1. PICK n \in todo[p] : /\ store' = SetDataTime(store, n, answer[p][n])
                           /\ todo' = [todo EXCEPT ![p] = @ \ {n}]
  BY DEF Date
<1>2. /\ n \in Name /\ n \in Names[p] /\ store \in [Name -> Entry] /\ store[n] \in Entry
      /\ truth' = truth /\ now' = now
  BY <1>1 DEF Inv, TypeOK, Refresh, Date, world
<1>3. Dating(p)
  BY DEF Inv, Refresh
<1>8. store[n].present
  BY <1>2, <1>3 DEF Dating, Date
<1>4. /\ store'[n].present /\ store'[n].dataTime = answer[p][n]
      /\ store'[n].up = store[n].up /\ store'[n].findings = store[n].findings
      /\ \A m \in Name \ {n} : store'[m] = store[m]
  BY <1>1, <1>2, <1>8, DateEffect
<1>5. ASSUME NEW q \in Poller, q # p PROVE Refresh(q)'
  <2>1. \A m \in Names[q] : m \in Name \ {n}
    BY <1>2, <1>5
  <2>2. todo'[q] = todo[q]
    BY <1>1, <1>5 DEF Inv, TypeOK
  <2>3. Untouched(q)
    BY <1>4, <2>1, <2>2 DEF Date, Untouched, world, history
  <2>. QED
    BY <2>3, Frame DEF Inv
<1>6. Refresh(p)'
  <2>1. todo'[p] = todo[p] \ {n} /\ todo'[p] \subseteq Names[p]
    BY <1>1 DEF Inv, TypeOK, Refresh
  <2>2. ASSUME NEW m \in Names[p], m # n PROVE store'[m] = store[m]
    BY <1>4, <2>2
  <2>3. Dating(p)'
    BY <1>2, <1>3, <1>4, <2>1, <2>2 DEF Date, Dating, Entry, world, history
  <2>. QED
    BY <2>1, <2>3 DEF Date, Refresh, Asking, Publishing, Failing, Waiting
<1>7. ASSUME NEW m \in Name PROVE Ages(m)'
  <2>1. CASE m = n
    <3>1. /\ store[n].findings = answer[p][n] /\ store[n].findings <= truth[n]
          /\ truth[n] <= now
      BY <1>2, <1>3 DEF Dating, Date, Inv, Ages
    <3>2. store[n].findings \in Int
      BY <1>2 DEF Entry, Time
    <3>. QED
      BY <1>2, <1>4, <2>1, <3>1, <3>2 DEF Ages, Entry
  <2>2. CASE m # n
    BY <1>2, <1>4, <2>2 DEF Inv, Ages
  <2>. QED
    BY <2>1, <2>2
<1>. QED
  BY <1>5, <1>6, <1>7 DEF Inv

LEMMA InvMarkDown ==
    ASSUME Inv, TypeOK', NEW p \in Poller, MarkDown(p) PROVE Inv'
<1>. USE ConfigAssumption
<1>1. PICK n \in todo[p] : /\ store' = Fail(store, n)
                           /\ todo' = [todo EXCEPT ![p] = @ \ {n}]
  BY DEF MarkDown
<1>2. /\ n \in Name /\ n \in Names[p] /\ store \in [Name -> Entry] /\ store[n] \in Entry
      /\ truth' = truth /\ now' = now
  BY <1>1 DEF Inv, TypeOK, Refresh, MarkDown, world
<1>3. Failing(p)
  BY DEF Inv, Refresh
<1>4. /\ store'[n].present /\ ~store'[n].up
      /\ store'[n].findings = store[n].findings /\ store'[n].dataTime = store[n].dataTime
      /\ \A m \in Name \ {n} : store'[m] = store[m]
  BY <1>1, <1>2, FailEffect
<1>5. ASSUME NEW q \in Poller, q # p PROVE Refresh(q)'
  <2>1. \A m \in Names[q] : m \in Name \ {n}
    BY <1>2, <1>5
  <2>2. todo'[q] = todo[q]
    BY <1>1, <1>5 DEF Inv, TypeOK
  <2>3. Untouched(q)
    BY <1>4, <2>1, <2>2 DEF MarkDown, Untouched, world, history
  <2>. QED
    BY <2>3, Frame DEF Inv
<1>6. Refresh(p)'
  <2>1. todo'[p] = todo[p] \ {n} /\ todo'[p] \subseteq Names[p]
    BY <1>1 DEF Inv, TypeOK, Refresh
  <2>2. ASSUME NEW m \in Names[p], m # n PROVE store'[m] = store[m]
    BY <1>4, <2>2
  <2>3. Failing(p)'
    BY <1>2, <1>3, <1>4, <2>1, <2>2 DEF MarkDown, Failing, Entry, world, history
  <2>. QED
    BY <2>1, <2>3 DEF MarkDown, Refresh, Asking, Publishing, Dating, Waiting
<1>7. ASSUME NEW m \in Name PROVE Ages(m)'
  <2>1. CASE m = n
    BY <1>2, <1>4, <2>1 DEF Inv, Ages, Entry
  <2>2. CASE m # n
    BY <1>2, <1>4, <2>2 DEF Inv, Ages
  <2>. QED
    BY <2>1, <2>2
<1>. QED
  BY <1>5, <1>6, <1>7 DEF Inv

LEMMA InvEnvironment ==
    ASSUME Inv, TypeOK', NEW p \in Poller, Break(p) \/ Mend(p) PROVE Inv'
<1>1. ASSUME NEW q \in Poller PROVE Refresh(q)'
  <2>1. Untouched(q)
    BY DEF Break, Mend, Untouched, history
  <2>. QED
    BY <2>1, Frame DEF Inv
<1>2. \A n \in Name : Ages(n)'
  BY DEF Inv, Ages, Break, Mend
<1>. QED
  BY <1>1, <1>2 DEF Inv

LEMMA InvChange ==
    ASSUME Inv, TypeOK', NEW c \in Name, Change(c) PROVE Inv'
<1>. USE ConfigAssumption
<1>1. ASSUME NEW n \in Name
      PROVE  /\ truth[n] <= truth'[n] /\ truth'[n] <= now'
             /\ truth[n] \in Int /\ truth'[n] \in Int
  BY <1>1 DEF Inv, TypeOK, Ages, Change, Time
<1>2. ASSUME NEW n \in Name PROVE Ages(n)'
  <2>1. /\ store' = store /\ Ages(n)
        /\ store[n].findings \in Int /\ store[n].dataTime \in Int
    BY DEF Inv, TypeOK, Change, Entry, Time
  <2>. QED
    BY <1>1, <2>1 DEF Ages
<1>3. ASSUME NEW p \in Poller PROVE Refresh(p)'
  <2>1. /\ UNCHANGED <<store, pc, todo, answer, asked, outcome>>
        /\ Refresh(p)
    BY DEF Inv, Change, history
  <2>2. \A n \in Names[p] : n \in Name /\ asked[p][n] \in Int /\ answer[p][n] \in Int
    BY DEF Inv, TypeOK, Time
  <2>3. Asking(p)'
    BY <1>1, <2>1, <2>2 DEF Refresh, Asking
  <2>4. Publishing(p)'
    BY <1>1, <2>1, <2>2 DEF Refresh, Publishing
  <2>. QED
    BY <2>1, <2>3, <2>4 DEF Refresh, Dating, Failing, Waiting
<1>. QED
  BY <1>2, <1>3 DEF Inv

LEMMA InvRestart ==
    ASSUME Inv, TypeOK', Restart PROVE Inv'
<1>1. ASSUME NEW n \in Name PROVE Ages(n)'
  <2>1. /\ store'[n] = NoEntry /\ truth' = truth /\ now' = now
        /\ truth[n] \in Time /\ truth[n] <= now
    BY DEF Restart, world, Inv, TypeOK, Ages
  <2>. QED
    BY <2>1 DEF Ages, NoEntry, Time
<1>2. ASSUME NEW p \in Poller PROVE Refresh(p)'
  BY DEF Restart, Refresh, Asking, Publishing, Dating, Failing, Waiting
<1>. QED
  BY <1>1, <1>2 DEF Inv

LEMMA InvNext == Inv /\ [Next]_vars => Inv'
<1>. SUFFICES ASSUME Inv, [Next]_vars PROVE Inv'
  OBVIOUS
<1>1. TypeOK'
  BY TypeNext DEF Inv
<1>2. ASSUME NEW p \in Poller, Poll(p) PROVE Inv'
  BY <1>1, <1>2, InvAsk, InvAnswered, InvFailed, InvPublish, InvPublished, InvDate,
     InvMarkDown, InvRest, InvWake DEF Poll
<1>3. ASSUME NEW p \in Poller, Break(p) \/ Mend(p) PROVE Inv'
  BY <1>1, <1>3, InvEnvironment
<1>4. ASSUME NEW n \in Name, Change(n) PROVE Inv'
  BY <1>1, <1>4, InvChange
<1>5. CASE Restart
  BY <1>1, <1>5, InvRestart
<1>6. CASE UNCHANGED vars
  <2>1. \A n \in Name : Ages(n)'
    BY <1>6 DEF vars, Inv, Ages
  <2>2. ASSUME NEW p \in Poller PROVE Refresh(p)'
    <3>1. Untouched(p)
      BY <1>6 DEF vars, Untouched
    <3>. QED
      BY <3>1, Frame DEF Inv
  <2>. QED
    BY <1>1, <2>1, <2>2 DEF Inv
<1>. QED
  BY <1>2, <1>3, <1>4, <1>5, <1>6 DEF Next

\* The inductive invariant holds in every state of the exporter.
THEOREM Invariance == Spec => []Inv
BY InvInit, InvNext, PTL DEF Spec

-----------------------------------------------------------------------------
(* The properties.                                                         *)

\* At rest, the up gauge of every name is the outcome of the latest refresh.
THEOREM UpTellsLastOutcomeHolds == Spec => []UpTellsLastOutcome
<1>1. Inv => UpTellsLastOutcome
  BY DEF Inv, Refresh, Waiting, UpTellsLastOutcome
<1>. QED
  BY <1>1, Invariance, PTL

\* At rest, a source shown as up is as fresh as its latest request.
THEOREM UpMeansFreshHolds == Spec => []UpMeansFresh
<1>1. Inv => UpMeansFresh
  BY DEF Inv, Refresh, Waiting, UpMeansFresh
<1>. QED
  BY <1>1, Invariance, PTL

\* No scrape shows a data timestamp later than the findings beside it.
THEOREM DataTimeNotAheadHolds == Spec => []DataTimeNotAhead
<1>1. Inv => DataTimeNotAhead
  BY DEF Inv, Ages, DataTimeNotAhead
<1>. QED
  BY <1>1, Invariance, PTL

-----------------------------------------------------------------------------
(* The exporter implements the board.                                      *)

LEMMA BoardInit == Init => Board!Init
BY DEF Init, Board!Init, Board!Blank, shown, Shown, NoEntry

\* A step that changes the entry of one name, and that as the board allows.
LEMMA BoardShow ==
    ASSUME Inv, TypeOK', NEW p \in Poller, Publish(p) PROVE \E n \in Name : Board!Show(n)
<1>1. PICK n \in todo[p] : store' = Set(store, n, answer[p][n], now)
  BY DEF Publish
<1>2. /\ n \in Name /\ n \in Names[p] /\ store \in [Name -> Entry] /\ answer[p][n] \in Time
  BY <1>1 DEF Inv, TypeOK, Refresh
<1>3. /\ 0 < answer[p][n] /\ store[n].findings <= answer[p][n]
      /\ answer[p][n] <= truth[n] /\ truth' = truth
  BY <1>2 DEF Publish, world, Inv, Refresh, Publishing
<1>4. /\ store'[n] = [present |-> TRUE, findings |-> answer[p][n], up |-> TRUE,
                      lastSuccess |-> now, dataTime |-> store[n].dataTime]
      /\ \A m \in Name \ {n} : store'[m] = store[m]
  BY <1>1, <1>2, SetEffect
<1>5. shown' = [shown EXCEPT ![n] =
                   [present |-> TRUE, findings |-> answer[p][n], up |-> TRUE,
                    dataTime |-> shown[n].dataTime]]
  <2>1. shown[n].dataTime = store[n].dataTime
    BY <1>2 DEF shown, Shown
  <2>2. Shown(n)' = [present |-> TRUE, findings |-> answer[p][n], up |-> TRUE,
                     dataTime |-> store[n].dataTime]
    BY <1>4 DEF Shown
  <2>3. \A m \in Name \ {n} : Shown(m)' = Shown(m)
    BY <1>4 DEF Shown
  <2>. QED
    BY <1>2, <2>1, <2>2, <2>3 DEF shown
<1>6. shown[n].findings = store[n].findings
  BY <1>2 DEF shown, Shown
<1>. QED
  BY <1>2, <1>3, <1>5, <1>6 DEF Board!Show, Board!Time, Time

LEMMA BoardStamp ==
    ASSUME Inv, TypeOK', NEW p \in Poller, Date(p) PROVE \E n \in Name : Board!Stamp(n)
<1>1. PICK n \in todo[p] : store' = SetDataTime(store, n, answer[p][n])
  BY DEF Date
<1>2. /\ n \in Name /\ n \in Names[p] /\ store \in [Name -> Entry] /\ answer[p][n] \in Time
  BY <1>1 DEF Inv, TypeOK, Refresh
<1>3. /\ store[n].present /\ store[n].findings = answer[p][n] /\ truth' = truth
  BY <1>2 DEF Date, world, Inv, Refresh, Dating
<1>4. shown' = [shown EXCEPT ![n].dataTime = answer[p][n]]
  BY <1>1, <1>2, <1>3 DEF shown, Shown, SetDataTime, Entry
<1>5. /\ shown[n].present /\ shown[n].findings = answer[p][n]
  BY <1>2, <1>3 DEF shown, Shown
<1>6. answer[p][n] <= answer[p][n]
  BY <1>2 DEF Time
<1>. QED
  BY <1>2, <1>3, <1>4, <1>5, <1>6 DEF Board!Stamp, Board!Time, Time

LEMMA BoardLose ==
    ASSUME Inv, TypeOK', NEW p \in Poller, MarkDown(p) PROVE \E n \in Name : Board!Lose(n)
<1>1. PICK n \in todo[p] : store' = Fail(store, n)
  BY DEF MarkDown
<1>2. n \in Name /\ store \in [Name -> Entry] /\ truth' = truth
  BY <1>1 DEF Inv, TypeOK, Refresh, MarkDown, world
<1>3. shown' = [shown EXCEPT ![n].present = TRUE, ![n].up = FALSE]
  BY <1>1, <1>2 DEF shown, Shown, Fail, Entry
<1>. QED
  BY <1>2, <1>3 DEF Board!Lose

LEMMA BoardMove ==
    ASSUME Inv, TypeOK', NEW n \in Name, Change(n) PROVE Board!Move(n)
<1>1. /\ truth[n] < now + 1 /\ now + 1 \in Time /\ truth' = [truth EXCEPT ![n] = now + 1]
  <2>1. /\ now \in Time /\ truth[n] \in Time /\ truth[n] <= now /\ now < MaxTime
        /\ truth' = [truth EXCEPT ![n] = now + 1] /\ MaxTime \in Nat
    BY ConfigAssumption DEF Inv, TypeOK, Ages, Change
  <2>. QED
    BY <2>1 DEF Time
<1>2. shown' = shown
  BY DEF Change, shown, Shown
<1>. QED
  BY <1>1, <1>2 DEF Board!Move, Board!Time, Time

LEMMA BoardNext == Inv /\ TypeOK' /\ [Next]_vars => [Board!Next]_(Board!boardVars)
<1>. SUFFICES ASSUME Inv, TypeOK', [Next]_vars PROVE [Board!Next]_(Board!boardVars)
  OBVIOUS
<1>1. ASSUME store' = store, truth' = truth PROVE UNCHANGED Board!boardVars
  BY <1>1 DEF Board!boardVars, shown, Shown
<1>2. ASSUME NEW p \in Poller, Ask(p) \/ Answered(p) \/ Failed(p) PROVE UNCHANGED Board!boardVars
  BY <1>1, <1>2 DEF Ask, Answered, Failed, world
<1>3. ASSUME NEW p \in Poller, Published(p) \/ Rest(p) \/ Wake(p) \/ Break(p) \/ Mend(p)
      PROVE UNCHANGED Board!boardVars
  BY <1>1, <1>3 DEF Published, Rest, Wake, Break, Mend, world
<1>4. ASSUME NEW p \in Poller, Publish(p) \/ Date(p) \/ MarkDown(p) PROVE Board!Next
  BY <1>4, BoardShow, BoardStamp, BoardLose DEF Board!Next
<1>5. ASSUME NEW n \in Name, Change(n) PROVE Board!Next
  BY <1>5, BoardMove DEF Board!Next
<1>6. CASE Restart
  <2>1. shown' = [n \in Name |-> Board!Blank] /\ truth' = truth
    BY <1>6 DEF Restart, world, shown, Shown, NoEntry, Board!Blank
  <2>. QED
    BY <2>1 DEF Board!Next, Board!Clear
<1>7. CASE UNCHANGED vars
  BY <1>1, <1>7 DEF vars
<1>. QED
  BY <1>2, <1>3, <1>4, <1>5, <1>6, <1>7 DEF Next, Poll

\* The exporter is an implementation of the board: whatever the interleaving of
\* its goroutines, counts never go back in time, failures keep them, and dates
\* never run ahead of them.
THEOREM ImplementsBoardHolds == Spec => ImplementsBoard
<1>1. Inv => TypeOK
  BY DEF Inv
<1>. QED
  BY <1>1, Invariance, BoardInit, BoardNext, PTL DEF Spec, ImplementsBoard, Board!Spec

=============================================================================
