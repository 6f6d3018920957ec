------------------------ MODULE GitHubSource_proofs -------------------------
(***************************************************************************)
(* For every number of repositories, every page size, every set of alerts  *)
(* and any number of changes: a call misses no more of the alerts that     *)
(* stayed open than were closed while it ran, and counts alerts again no   *)
(* more often than alerts were opened.                                     *)
(*                                                                         *)
(* The invariant counts the misses as they are made.  Passed are the       *)
(* alerts that stayed open and stand before the next page; those of them   *)
(* that were not appended are Missed, and a closing lets one more alert    *)
(* slip from the next page to the one before, never two: no two open       *)
(* alerts of a repository stand in the same position.                      *)
(*                                                                         *)
(* For what is counted again it adds to the repeats made so far those yet  *)
(* to come, the counted alerts that stand after the pages read (Again): an *)
(* opening puts one more of them there, never two, and a page that is read *)
(* turns those on it into repeats.                                         *)
(***************************************************************************)
EXTENDS GitHubSource, FiniteSetTheorems, SequenceTheorems, TLAPS

Before == (pageNo - 1) * PerPage        \* the alerts that stand on earlier pages

Earlier(a) == \E i \in 1 .. at - 1 : a \in Alerts[Repos[i]]

Passed ==
    {a \in kept : \/ pc = "done"
                  \/ Earlier(a)
                  \/ a \in Alerts[repo] /\ Position(repo, a) <= Before}

Missed == {a \in Passed \cap Reported : out[a] = 0}

Counted ==
    /\ pc = "read" => kept \subseteq open
    /\ pc \in {"read", "done"} => Cardinality(Missed) <= closed

\* The counted alerts that are to be read again: they stand after the pages read.
Again == {a \in open \cap Alerts[repo] : out[a] > 0 /\ Position(repo, a) > Before}

\* Nothing of a repository is counted before its turn.
Untouched == \A j \in at + 1 .. Len(Repos) : \A a \in Alerts[Repos[j]] : out[a] = 0

Repeated ==
    /\ IsFiniteSet(Repeats)
    /\ pc = "read" => Untouched /\ Cardinality(Repeats) + Cardinality(Again) <= opened
    /\ pc = "done" => Cardinality(Repeats) <= opened

Inv == TypeOK /\ Counted

-----------------------------------------------------------------------------
(* Positions.                                                              *)

\* The alerts that stand at or before a's position.
Above(s, r, a) == {b \in s \cap Alerts[r] : b >= a}

LEMMA Finite ==
    ASSUME NEW s \in SUBSET Alert
    PROVE  IsFiniteSet(s) /\ Cardinality(s) \in Nat
BY SourceAssumption, FS_Subset, FS_CardinalityType

LEMMA AboveIsFinite ==
    ASSUME NEW s \in SUBSET Alert, NEW r, NEW a
    PROVE  IsFiniteSet(Above(s, r, a)) /\ Cardinality(Above(s, r, a)) \in Nat
<1>1. Above(s, r, a) \in SUBSET Alert
  BY DEF Above
<1> QED
  BY <1>1, Finite

\* Positions count from one and to the number of open alerts.
LEMMA PositionRange ==
    ASSUME open \subseteq Alert, NEW r, NEW a \in open \cap Alerts[r]
    PROVE  Position(r, a) \in 1 .. Cardinality(open \cap Alerts[r])
<1>1. a \in Nat
  BY SourceAssumption
<1>2. a \in Above(open, r, a) /\ Above(open, r, a) \subseteq open \cap Alerts[r]
  BY <1>1 DEF Above
<1>3. IsFiniteSet(open \cap Alerts[r]) /\ Cardinality(open \cap Alerts[r]) \in Nat
  BY Finite
<1>4. IsFiniteSet(Above(open, r, a)) /\ Cardinality(Above(open, r, a)) \in Nat
  BY AboveIsFinite
<1>5. Cardinality(Above(open, r, a)) <= Cardinality(open \cap Alerts[r])
  BY <1>2, <1>3, FS_Subset
<1>6. Cardinality(Above(open, r, a)) # 0
  BY <1>2, <1>4, FS_EmptySet
<1> QED
  BY <1>3, <1>4, <1>5, <1>6 DEF Position, Above

\* Of two open alerts of a repository, the newer stands before the older.
LEMMA PositionOrder ==
    ASSUME open \subseteq Alert, NEW r,
           NEW a \in open \cap Alerts[r], NEW b \in open \cap Alerts[r], a > b
    PROVE  Position(r, a) < Position(r, b)
<1>1. a \in Nat /\ b \in Nat
  BY SourceAssumption
<1>2. Above(open, r, a) \subseteq Above(open, r, b) \ {b}
  <2>1. ASSUME NEW c \in Above(open, r, a) PROVE c \in Above(open, r, b) \ {b}
    <3>1. c \in open \cap Alerts[r] /\ c >= a /\ c \in Nat
      BY SourceAssumption DEF Above
    <3>2. c >= b /\ c # b
      BY <1>1, <3>1
    <3> QED
      BY <3>1, <3>2 DEF Above
  <2> QED
    BY <2>1
<1>3. b \in Above(open, r, b)
  BY <1>1 DEF Above
<1>4. /\ IsFiniteSet(Above(open, r, b)) /\ Cardinality(Above(open, r, b)) \in Nat
      /\ Cardinality(Above(open, r, a)) \in Nat
  BY AboveIsFinite
<1>5. /\ IsFiniteSet(Above(open, r, b) \ {b})
      /\ Cardinality(Above(open, r, b) \ {b}) = Cardinality(Above(open, r, b)) - 1
  BY <1>3, <1>4, FS_RemoveElement
<1>6. Cardinality(Above(open, r, a)) <= Cardinality(Above(open, r, b) \ {b})
  BY <1>2, <1>5, FS_Subset
<1> QED
  BY <1>4, <1>5, <1>6 DEF Position, Above

\* No two open alerts of a repository stand in the same position.
LEMMA PositionUnique ==
    ASSUME open \subseteq Alert, NEW r,
           NEW a \in open \cap Alerts[r], NEW b \in open \cap Alerts[r],
           Position(r, a) = Position(r, b)
    PROVE  a = b
<1>1. a \in Nat /\ b \in Nat
  BY SourceAssumption
<1>2. Position(r, a) \in Nat
  BY AboveIsFinite DEF Position, Above
<1>3. ~(a > b)
  <2>1. a > b => Position(r, a) < Position(r, b)
    BY PositionOrder
  <2> QED
    BY <1>2, <2>1
<1>4. ~(b > a)
  <2>1. b > a => Position(r, b) < Position(r, a)
    BY PositionOrder
  <2> QED
    BY <1>2, <2>1
<1> QED
  BY <1>1, <1>3, <1>4

\* An alert that is opened moves no alert forward.
LEMMA PositionOpen ==
    ASSUME open \subseteq Alert, NEW x \in Alert, open' = open \cup {x}, NEW r, NEW a
    PROVE  /\ Position(r, a) \in Nat /\ Position(r, a)' \in Nat
           /\ Position(r, a) <= Position(r, a)'
<1>1. Above(open, r, a) \subseteq Above(open', r, a)
  BY DEF Above
<1>2. open' \in SUBSET Alert
  OBVIOUS
<1>3. /\ IsFiniteSet(Above(open', r, a)) /\ Cardinality(Above(open', r, a)) \in Nat
      /\ Cardinality(Above(open, r, a)) \in Nat
  BY <1>2, AboveIsFinite
<1>4. Cardinality(Above(open, r, a)) <= Cardinality(Above(open', r, a))
  BY <1>1, <1>3, FS_Subset
<1> QED
  BY <1>3, <1>4 DEF Position, Above

\* An alert that is closed moves the others forward, by one at most.
LEMMA PositionClose ==
    ASSUME open \subseteq Alert, NEW x, open' = open \ {x}, NEW r, NEW a
    PROVE  /\ Position(r, a) \in Nat /\ Position(r, a)' \in Nat
           /\ Position(r, a)' <= Position(r, a)
           /\ Position(r, a) <= Position(r, a)' + 1
<1>1. Above(open', r, a) = Above(open, r, a) \ {x}
  BY DEF Above
<1>2. IsFiniteSet(Above(open, r, a)) /\ Cardinality(Above(open, r, a)) \in Nat
  BY AboveIsFinite
<1>3. Cardinality(Above(open, r, a) \ {x}) >= Cardinality(Above(open, r, a)) - 1
  BY <1>2, FS_RemoveElement
<1>4. /\ Cardinality(Above(open, r, a) \ {x}) \in Nat
      /\ Cardinality(Above(open, r, a) \ {x}) <= Cardinality(Above(open, r, a))
  <2>1. Above(open, r, a) \ {x} \in SUBSET Above(open, r, a)
    OBVIOUS
  <2> QED
    BY <1>2, <2>1, FS_Subset, FS_CardinalityType
<1> QED
  BY <1>1, <1>2, <1>3, <1>4 DEF Position, Above

\* An alert that is opened moves no other back by more than one, and none behind
\* which it stands.
LEMMA PositionOpened ==
    ASSUME open \subseteq Alert, NEW x \in Alert, x \notin open, open' = open \cup {x},
           NEW r, NEW b
    PROVE  /\ Position(r, b)' <= Position(r, b) + 1
           /\ b \in open \cap Alerts[r] /\ x \in Alerts[r] /\ Position(r, b)' # Position(r, b)
              => Position(r, x)' <= Position(r, b)
<1>1. Above(open', r, b) \subseteq Above(open, r, b) \cup {x}
  BY DEF Above
<1>2. IsFiniteSet(Above(open, r, b)) /\ Cardinality(Above(open, r, b)) \in Nat
  BY AboveIsFinite
<1>3. /\ IsFiniteSet(Above(open, r, b) \cup {x})
      /\ Cardinality(Above(open, r, b) \cup {x}) <= Cardinality(Above(open, r, b)) + 1
  <2>1. /\ IsFiniteSet(Above(open, r, b) \cup {x})
        /\ Cardinality(Above(open, r, b) \cup {x})
              = IF x \in Above(open, r, b) THEN Cardinality(Above(open, r, b))
                                          ELSE Cardinality(Above(open, r, b)) + 1
    BY <1>2, FS_AddElement
  <2> QED
    BY <1>2, <2>1
<1>4. open' \in SUBSET Alert
  OBVIOUS
<1>5. /\ IsFiniteSet(Above(open', r, b)) /\ Cardinality(Above(open', r, b)) \in Nat
      /\ IsFiniteSet(Above(open', r, x)) /\ Cardinality(Above(open', r, x)) \in Nat
  BY <1>4, AboveIsFinite
<1>6. Position(r, b)' <= Position(r, b) + 1
  <2>1. Cardinality(Above(open', r, b)) <= Cardinality(Above(open, r, b) \cup {x})
    BY <1>1, <1>3, FS_Subset
  <2>2. Cardinality(Above(open, r, b) \cup {x}) \in Nat
    BY <1>3, FS_CardinalityType
  <2> QED
    BY <1>2, <1>3, <1>5, <2>1, <2>2 DEF Position, Above
<1>7. ASSUME b \in open \cap Alerts[r], x \in Alerts[r], Position(r, b)' # Position(r, b)
      PROVE  Position(r, x)' <= Position(r, b)
  <2>1. b \in Nat /\ x \in Nat /\ b # x
    BY <1>7, SourceAssumption
  <2>2. x >= b
    <3>1. ~(x >= b) => Above(open', r, b) = Above(open, r, b)
      BY DEF Above
    <3> QED
      BY <1>7, <3>1 DEF Position, Above
  <2>3. Above(open', r, x) \ {x} \subseteq Above(open, r, b) \ {b}
    <3>1. ASSUME NEW c \in Above(open', r, x), c # x
          PROVE  c \in Above(open, r, b) \ {b}
      <4>1. c \in open \cap Alerts[r] /\ c >= x /\ c \in Nat
        BY <3>1, SourceAssumption DEF Above
      <4>2. c >= b /\ c # b
        BY <2>1, <2>2, <3>1, <4>1
      <4> QED
        BY <4>1, <4>2 DEF Above
    <3> QED
      BY <3>1
  <2>4. b \in Above(open, r, b) /\ x \in Above(open', r, x)
    BY <1>7, <2>1 DEF Above
  <2>5. /\ IsFiniteSet(Above(open, r, b) \ {b})
        /\ Cardinality(Above(open, r, b) \ {b}) = Cardinality(Above(open, r, b)) - 1
        /\ Cardinality(Above(open', r, x) \ {x}) = Cardinality(Above(open', r, x)) - 1
    BY <1>2, <1>5, <2>4, FS_RemoveElement
  <2>6. Cardinality(Above(open', r, x) \ {x}) <= Cardinality(Above(open, r, b) \ {b})
    BY <2>3, <2>5, FS_Subset
  <2> QED
    BY <1>2, <1>5, <2>5, <2>6 DEF Position, Above
<1> QED
  BY <1>6, <1>7

\* A set that gains at most one alert grows by at most one.
LEMMA Growth ==
    ASSUME NEW S \in SUBSET Alert,
           NEW T, T \subseteq S \/ (\E y : T \subseteq S \cup {y})
    PROVE  /\ Cardinality(T) <= Cardinality(S) + 1
           /\ T \subseteq S => Cardinality(T) <= Cardinality(S)
           /\ Cardinality(T) \in Nat /\ Cardinality(S) \in Nat
<1>1. IsFiniteSet(S) /\ Cardinality(S) \in Nat
  BY Finite
<1>2. T \subseteq S => Cardinality(T) <= Cardinality(S) /\ Cardinality(T) \in Nat
  BY <1>1, FS_Subset, FS_CardinalityType
<1>3. ASSUME NEW y, T \subseteq S \cup {y}
      PROVE  Cardinality(T) <= Cardinality(S) + 1 /\ Cardinality(T) \in Nat
  <2>1. /\ IsFiniteSet(S \cup {y})
        /\ Cardinality(S \cup {y}) <= Cardinality(S) + 1
    BY <1>1, FS_AddElement
  <2> QED
    BY <1>1, <1>3, <2>1, FS_Subset, FS_CardinalityType
<1> QED
  BY <1>1, <1>2, <1>3

-----------------------------------------------------------------------------
(* The steps.                                                              *)

\* The product in Before, a page on.
LEMMA NextPage ==
    ASSUME pageNo \in Nat \ {0}
    PROVE  /\ Before \in Nat
           /\ pageNo * PerPage = Before + PerPage
           /\ (pageNo + 1 - 1) * PerPage = Before + PerPage
           /\ (1 - 1) * PerPage = 0
<1>1. PerPage \in Nat
  BY SourceAssumption
<1>2. PICK k \in Nat : pageNo = k + 1
  <2>1. pageNo - 1 \in Nat /\ pageNo = pageNo - 1 + 1
    OBVIOUS
  <2> QED
    BY <2>1
<1>3. Before = k * PerPage /\ (k + 1) * PerPage = k * PerPage + PerPage /\ k * PerPage \in Nat
  BY <1>1, <1>2 DEF Before
<1> QED
  BY <1>1, <1>2, <1>3

LEMMA MissedType == TypeOK => Missed \in SUBSET Alert /\ Cardinality(Missed) \in Nat
BY Finite DEF TypeOK, Missed, Passed

LEMMA InvInit == Init => Inv
<1> SUFFICES ASSUME Init PROVE Inv
  OBVIOUS
<1>1. 1 \in DOMAIN Repos
  BY SourceAssumption
<1>2. None \in [Alert -> Nat]
  BY DEF None
<1> QED
  BY <1>1, <1>2, SourceAssumption DEF Init, Inv, TypeOK, Counted

\* A call starts with no alert passed.
LEMMA InvCollect == Inv /\ Collect => Inv'
<1> SUFFICES ASSUME Inv, Collect PROVE Inv'
  OBVIOUS
<1>1. TypeOK'
  <2>1. 1 \in DOMAIN Repos
    BY SourceAssumption
  <2>2. None \in [Alert -> Nat]
    BY DEF None
  <2> QED
    BY <2>1, <2>2, SourceAssumption DEF Inv, TypeOK, Collect
<1>2. Passed' = {}
  <2>1. SUFFICES ASSUME NEW a \in Passed' PROVE FALSE
    OBVIOUS
  <2>2. pc' # "done" /\ at' = 1 /\ pageNo' = 1 /\ kept' = open /\ open' = open
    BY DEF Collect
  <2>3. ~Earlier(a)'
    BY <2>2 DEF Earlier
  <2>4. a \in open \cap Alerts[Repos[1]] /\ Position(Repos[1], a)' <= (1 - 1) * PerPage
    BY <2>1, <2>2, <2>3 DEF Passed, repo, Position, Before
  <2>5. Position(Repos[1], a) \in 1 .. Cardinality(open \cap Alerts[Repos[1]])
    BY <2>4, PositionRange DEF Inv, TypeOK
  <2>6. (1 - 1) * PerPage = 0 /\ Position(Repos[1], a)' = Position(Repos[1], a)
    BY <2>2, SourceAssumption DEF Position
  <2> QED
    BY <2>4, <2>5, <2>6
<1>3. Missed' = {} /\ Cardinality({}) = 0
  BY <1>2, FS_EmptySet DEF Missed
<1>4. Counted'
  BY <1>3 DEF Counted, Collect
<1> QED
  BY <1>1, <1>4 DEF Inv

\* An alert that is opened moves no alert before the next page.
LEMMA InvOpen ==
    ASSUME Inv, NEW x \in Alert, Open(x)
    PROVE  Inv'
<1>1. TypeOK'
  BY SourceAssumption DEF Inv, TypeOK, Open, MayChange, call
<1>2. /\ UNCHANGED <<pc, at, pageNo, out, shown, kept, closed>>
      /\ open' = open \cup {x}
  BY DEF Open, call
<1>3. Passed' \subseteq Passed
  <2>1. ASSUME NEW a \in Passed' PROVE a \in Passed
    <3>1. /\ Position(repo, a) \in Nat /\ Position(repo, a)' \in Nat
          /\ Position(repo, a) <= Position(repo, a)'
      <4>1. \A r : /\ Position(r, a) \in Nat /\ Position(r, a)' \in Nat
                   /\ Position(r, a) <= Position(r, a)'
        BY <1>2, PositionOpen DEF Inv, TypeOK
      <4> QED
        BY <4>1, <1>2 DEF Position, repo
    <3>2. Before \in Nat /\ Before' = Before
      BY <1>2, NextPage DEF Inv, TypeOK, Before
    <3> QED
      BY <1>2, <2>1, <3>1, <3>2 DEF Passed, Earlier, repo
  <2> QED
    BY <2>1
<1>4. Missed' \subseteq Missed
  BY <1>2, <1>3 DEF Missed
<1>5. Cardinality(Missed') <= Cardinality(Missed)
      /\ Cardinality(Missed') \in Nat /\ Cardinality(Missed) \in Nat
  BY <1>4, MissedType, Growth DEF Inv
<1>6. Counted'
  BY <1>2, <1>5 DEF Inv, TypeOK, Counted
<1> QED
  BY <1>1, <1>6 DEF Inv

\* An alert that is closed lets one other slip before the next page: the one that
\* stood first on it.
LEMMA InvClose ==
    ASSUME Inv, NEW x \in Alert, Close(x)
    PROVE  Inv'
<1>1. TypeOK'
  BY SourceAssumption DEF Inv, TypeOK, Close, MayChange, call
<1>2. UNCHANGED <<pc, at, pageNo, out, shown>> /\ open' = open \ {x} /\ open \subseteq Alert
  BY DEF Close, call, Inv, TypeOK
<1>3. CASE pc # "read"
  <2>1. Cardinality(Missed') = Cardinality(Missed) \/ pc = "idle"
    <3>1. pc = "done" => Missed' = Missed
      BY <1>2, <1>3 DEF Close, Missed, Passed
    <3> QED
      BY <1>3, <3>1 DEF Inv, TypeOK
  <2> QED
    BY <1>1, <1>2, <1>3, <2>1 DEF Inv, Counted, Close
<1>4. CASE pc = "read"
  <2>1. kept' = kept \ {x} /\ closed' = closed + 1 /\ kept \subseteq open
    BY <1>4 DEF Close, Inv, Counted
  <2>2. Before \in Nat /\ Before' = Before
    BY <1>2, NextPage DEF Inv, TypeOK, Before
  <2>3. ASSUME NEW a \in Passed', a \notin Passed
        PROVE  a \in open \cap Alerts[repo] /\ Position(repo, a) = Before + 1
    <3>1. a \in Alerts[repo] /\ Position(repo, a)' <= Before
          /\ ~(Position(repo, a) <= Before) /\ a \in open
      BY <1>2, <1>4, <2>1, <2>2, <2>3 DEF Passed, Earlier, repo, Position
    <3>2. /\ Position(repo, a) \in Nat /\ Position(repo, a)' \in Nat
          /\ Position(repo, a) <= Position(repo, a)' + 1
      <4>1. \A r : /\ Position(r, a) \in Nat /\ Position(r, a)' \in Nat
                   /\ Position(r, a) <= Position(r, a)' + 1
        BY <1>2, PositionClose
      <4> QED
        BY <4>1, <1>2 DEF Position, repo
    <3> QED
      BY <2>2, <3>1, <3>2
  <2>4. \A a, b \in Passed' : a \notin Passed /\ b \notin Passed => a = b
    <3>1. ASSUME NEW a \in Passed', NEW b \in Passed', a \notin Passed, b \notin Passed
          PROVE  a = b
      <4>1. /\ a \in open \cap Alerts[repo] /\ b \in open \cap Alerts[repo]
            /\ Position(repo, a) = Position(repo, b)
        BY <2>3, <3>1
      <4> QED
        BY <4>1, <1>2, PositionUnique
    <3> QED
      BY <3>1
  <2>5. Missed' \subseteq Missed \/ \E y : Missed' \subseteq Missed \cup {y}
    <3>1. \A a \in Missed' : a \in Missed \/ (a \in Passed' /\ a \notin Passed)
      BY <1>2 DEF Missed
    <3> QED
      BY <2>4, <3>1
  <2>6. /\ Cardinality(Missed') <= Cardinality(Missed) + 1
        /\ Cardinality(Missed') \in Nat /\ Cardinality(Missed) \in Nat
    BY <2>5, MissedType, Growth DEF Inv
  <2>7. Cardinality(Missed') <= closed'
    BY <2>1, <2>6, <1>4 DEF Inv, TypeOK, Counted
  <2>8. Counted'
    BY <1>2, <2>1, <2>7 DEF Counted
  <2> QED
    BY <1>1, <2>8 DEF Inv
<1> QED
  BY <1>3, <1>4

\* A page that is read passes the alerts on it, all of them appended.
LEMMA InvRead == Inv /\ Read => Inv'
<1> SUFFICES ASSUME Inv, Read PROVE Inv'
  OBVIOUS
<1>1. /\ pc = "read" /\ UNCHANGED <<open, shown, kept, opened, closed>>
      /\ kept \subseteq open /\ open \subseteq Alert
      /\ at \in 1 .. Len(Repos) /\ Len(Repos) \in Nat
  BY SourceAssumption, LenProperties DEF Read, history, Inv, TypeOK, Counted
<1>2. Turn /\ Count
  BY DEF Read
<1>3. TypeOK'
  <2>1. out' \in [Alert -> Nat]
    BY <1>2 DEF Inv, TypeOK, Count
  <2>2. at' \in DOMAIN Repos /\ pageNo' \in Nat \ {0} /\ pc' \in {"read", "done"}
    BY <1>1, <1>2, SourceAssumption DEF Inv, TypeOK, Turn
  <2> QED
    BY <1>1, <2>1, <2>2 DEF Inv, TypeOK
<1>4. Before \in Nat /\ pageNo * PerPage = Before + PerPage
      /\ (pageNo + 1 - 1) * PerPage = Before + PerPage /\ (1 - 1) * PerPage = 0
  BY NextPage DEF Inv, TypeOK
<1>5. ASSUME NEW a \in open \cap Alerts[repo] \cap Reported, a \in Alert,
             Position(repo, a) <= Before + PerPage, ~(Position(repo, a) <= Before)
      PROVE  out'[a] # 0
  <2>1. Position(repo, a) \in Nat
    BY <1>1, AboveIsFinite DEF Position, Above
  <2>2. Position(repo, a) \in (pageNo - 1) * PerPage + 1 .. pageNo * PerPage
    BY <1>4, <1>5, <2>1, SourceAssumption DEF Before
  <2>3. a \in PageOf(repo, pageNo)
    BY <1>5, <2>2 DEF PageOf
  <2> QED
    BY <1>2, <2>3 DEF Count, Inv, TypeOK
<1>6. ASSUME NEW a \in kept \cap Reported, out'[a] = 0
      PROVE  out[a] = 0
  BY <1>2, <1>6 DEF Count, Inv, TypeOK
<1>7. ASSUME NEW a \in Missed' PROVE a \in Missed
  <2>1. a \in kept \cap Reported /\ out'[a] = 0 /\ out[a] = 0 /\ a \in open /\ a \in Alert
    BY <1>1, <1>6, <1>7 DEF Missed, Passed
  <2>2. SUFFICES a \in Passed
    BY <2>1 DEF Missed
  <2>3. CASE MoreAfter(repo, pageNo)
    <3>1. pc' = pc /\ at' = at /\ Before' = Before + PerPage
      <4>1. pc' = pc /\ at' = at /\ pageNo' - 1 = pageNo
        BY <1>2, <2>3 DEF Turn, Inv, TypeOK
      <4>2. Before' = pageNo * PerPage
        BY <4>1, Zenon DEF Before
      <4> QED
        BY <4>1, <4>2, <1>4
    <3>2. CASE Earlier(a)
      BY <2>1, <3>2 DEF Passed
    <3>3. CASE ~Earlier(a)
      <4>1. a \in Alerts[repo] /\ Position(repo, a) <= Before + PerPage
        BY <1>1, <1>7, <3>1, <3>3 DEF Missed, Passed, Earlier, repo, Position
      <4>2. Position(repo, a) <= Before
        BY <1>5, <2>1, <4>1
      <4> QED
        BY <2>1, <4>1, <4>2 DEF Passed
    <3> QED
      BY <3>2, <3>3
  <2>4. CASE ~MoreAfter(repo, pageNo)
    <3>1. a \in Alerts[repo] => a \in Passed
      <4>1. SUFFICES ASSUME a \in Alerts[repo] PROVE a \in Passed
        OBVIOUS
      <4>2. Position(repo, a) \in 1 .. Cardinality(open \cap Alerts[repo])
        BY <1>1, <2>1, <4>1, PositionRange
      <4>3. Cardinality(open \cap Alerts[repo]) <= Before + PerPage
        <5>1. Cardinality(open \cap Alerts[repo]) \in Nat
          BY <1>1, Finite
        <5> QED
          BY <5>1, <2>4, <1>4, SourceAssumption DEF MoreAfter
      <4>4. Position(repo, a) <= Before + PerPage
        <5>1. Cardinality(open \cap Alerts[repo]) \in Nat
          BY <1>1, Finite
        <5> QED
          BY <5>1, <4>2, <4>3, <1>4, SourceAssumption
      <4>5. Position(repo, a) <= Before
        BY <1>5, <2>1, <4>1, <4>4
      <4> QED
        BY <2>1, <4>1, <4>5 DEF Passed
    <3>2. Earlier(a) => a \in Passed
      BY <2>1 DEF Passed
    <3>3. CASE at < Len(Repos)
      <4>1. at' = at + 1 /\ pc' = pc /\ Before' = 0
        BY <1>2, <1>4, <2>4, <3>3 DEF Turn, Before
      <4>2. CASE Earlier(a)'
        <5>1. PICK i \in 1 .. at : a \in Alerts[Repos[i]]
          BY <1>1, <4>1, <4>2 DEF Earlier
        <5>2. i = at \/ i \in 1 .. at - 1
          BY <1>1
        <5> QED
          BY <3>1, <3>2, <5>1, <5>2 DEF Earlier, repo
      <4>3. CASE ~Earlier(a)'
        <5>1. a \in Alerts[Repos[at + 1]] /\ Position(Repos[at + 1], a) <= 0
          BY <1>1, <1>7, <4>1, <4>3 DEF Missed, Passed, repo, Position
        <5>2. Position(Repos[at + 1], a) \in 1 .. Cardinality(open \cap Alerts[Repos[at + 1]])
          BY <1>1, <2>1, <5>1, PositionRange
        <5> QED
          BY <5>1, <5>2
      <4> QED
        BY <4>2, <4>3
    <3>4. CASE ~(at < Len(Repos))
      <4>1. PICK i \in DOMAIN Repos : a \in Alerts[Repos[i]]
        BY <2>1 DEF Alert, Repo
      <4>2. i \in 1 .. Len(Repos) /\ at = Len(Repos)
        BY <1>1, <3>4, SourceAssumption
      <4>3. i = at \/ i \in 1 .. at - 1
        BY <1>1, <4>2
      <4> QED
        BY <3>1, <3>2, <4>1, <4>3 DEF Earlier, repo
    <3> QED
      BY <3>3, <3>4
  <2> QED
    BY <2>3, <2>4
<1>8. /\ Cardinality(Missed') <= Cardinality(Missed)
      /\ Cardinality(Missed') \in Nat /\ Cardinality(Missed) \in Nat
  <2>1. Missed' \subseteq Missed
    BY <1>7
  <2> QED
    BY <2>1, MissedType, Growth DEF Inv
<1>9. Counted'
  BY <1>1, <1>8 DEF Inv, TypeOK, Counted
<1> QED
  BY <1>3, <1>9 DEF Inv

LEMMA InvNext == Inv /\ [Next]_vars => Inv'
<1> SUFFICES ASSUME Inv, [Next]_vars PROVE Inv'
  OBVIOUS
<1>1. CASE \E x \in Alert : Open(x)
  BY <1>1, InvOpen
<1>2. CASE \E x \in Alert : Close(x)
  BY <1>2, InvClose
<1>3. CASE Collect
  BY <1>3, InvCollect
<1>4. CASE Read
  BY <1>4, InvRead
<1>5. CASE Report \/ Fail
  <2>1. 1 \in DOMAIN Repos /\ None \in [Alert -> Nat]
    BY SourceAssumption DEF None
  <2>2. TypeOK'
    <3>1. /\ pc' = "idle" /\ at' = 1 /\ pageNo' = 1 /\ out' = None
          /\ kept' = {} /\ opened' = 0 /\ closed' = 0
      BY <1>5 DEF Report, Fail, Forget
    <3>2. open' = open /\ shown' \in {out, shown}
      BY <1>5 DEF Report, Fail
    <3> QED
      BY <2>1, <3>1, <3>2, SourceAssumption DEF Inv, TypeOK
  <2>3. pc' = "idle"
    BY <1>5 DEF Report, Fail
  <2> QED
    BY <2>2, <2>3 DEF Inv, Counted
<1>6. CASE UNCHANGED vars
  <2>1. TypeOK'
    BY <1>6 DEF Inv, TypeOK, vars, call, history
  <2>2. Missed' = Missed
    BY <1>6 DEF vars, call, history, Missed, Passed, Earlier, repo, Position, Before
  <2>3. Counted'
    BY <1>6, <2>2 DEF Inv, Counted, vars, call, history
  <2> QED
    BY <2>1, <2>3 DEF Inv
<1> QED
  BY <1>1, <1>2, <1>3, <1>4, <1>5, <1>6 DEF Next, Poll

-----------------------------------------------------------------------------
(* What is counted again.                                                  *)

LEMMA AgainType == TypeOK => Again \in SUBSET Alert /\ Cardinality(Again) \in Nat
BY Finite DEF TypeOK, Again

\* Nothing is counted twice while nothing is counted.
LEMMA NoneTwice ==
    ASSUME out' = None
    PROVE  Repeats' = {} /\ IsFiniteSet(Repeats') /\ Cardinality(Repeats') = 0
<1>1. Repeats' = {}
  BY DEF None, Repeats
<1> QED
  BY <1>1, FS_EmptySet

LEMMA RepeatedInit == Init => Repeated
<1> SUFFICES ASSUME Init PROVE Repeated
  OBVIOUS
<1>1. Repeats = {}
  BY DEF Init, None, Repeats
<1> QED
  BY <1>1, FS_EmptySet DEF Init, Repeated

LEMMA RepeatedCollect ==
    ASSUME Inv, Collect
    PROVE  Repeated'
<1>1. out' = None /\ pc' = "read" /\ at' = 1
  BY DEF Collect
<1>2. \A a \in Alert : out'[a] = 0
  BY <1>1 DEF None
<1>3. Again' = {}
  BY <1>2 DEF Again, Collect, Inv, TypeOK
<1>4. Untouched'
  <2>1. \A j \in at' + 1 .. Len(Repos) : j \in DOMAIN Repos
    BY <1>1, SourceAssumption
  <2> QED
    BY <1>2, <2>1 DEF Untouched, Alert, Repo
<1>5. Cardinality(Again') = 0 /\ opened' = 0
  BY <1>3, FS_EmptySet DEF Collect
<1> QED
  BY <1>1, <1>4, <1>5, NoneTwice DEF Repeated

\* An alert that is opened puts one counted alert ahead again at most: itself, or
\* the one that stood last before the next page.
LEMMA RepeatedOpen ==
    ASSUME Inv, Repeated, NEW x \in Alert, Open(x)
    PROVE  Repeated'
<1>1. /\ UNCHANGED <<pc, at, pageNo, out>> /\ x \notin open
      /\ open' = open \cup {x} /\ open \subseteq Alert
      /\ opened' = IF pc = "read" THEN opened + 1 ELSE opened
  BY DEF Open, call, Inv, TypeOK
<1>2. Repeats' = Repeats /\ Untouched' = Untouched
  BY <1>1 DEF Repeats, Untouched
<1>3. CASE pc # "read"
  BY <1>1, <1>2, <1>3 DEF Repeated
<1>4. CASE pc = "read"
  <2>1. Before \in Nat /\ Before' = Before /\ repo' = repo
    BY <1>1, NextPage DEF Inv, TypeOK, Before, repo
  <2>2. \A a : /\ Position(repo, a) \in Nat /\ Position(repo, a)' \in Nat
               /\ Position(repo, a)' <= Position(repo, a) + 1
    <3>1. \A r, a : /\ Position(r, a) \in Nat /\ Position(r, a)' \in Nat
                    /\ Position(r, a)' <= Position(r, a) + 1
      BY <1>1, PositionOpen, PositionOpened
    <3> QED
      BY <2>1, <3>1 DEF Position
  <2>3. ASSUME NEW a \in Again', a \notin Again
        PROVE  /\ a \in open' \cap Alerts[repo] /\ Position(repo, a)' > Before
               /\ a # x => a \in open /\ Position(repo, a) = Before
    <3>1. a \in open' \cap Alerts[repo] /\ Position(repo, a)' > Before /\ out[a] > 0
      BY <1>1, <2>1, <2>3 DEF Again, Position
    <3>2. ASSUME a # x
          PROVE  a \in open /\ Position(repo, a) = Before
      <4>1. a \in open /\ ~(Position(repo, a) > Before)
        BY <1>1, <2>3, <3>1, <3>2 DEF Again
      <4> QED
        BY <2>1, <2>2, <3>1, <4>1
    <3> QED
      BY <3>1, <3>2
  <2>4. ASSUME NEW b \in Again', b \notin Again, b # x
        PROVE  x \notin Again'
    <3>1. SUFFICES ASSUME x \in Again' PROVE FALSE
      OBVIOUS
    <3>2. /\ b \in open \cap Alerts[repo] /\ Position(repo, b) = Before
          /\ Position(repo, b)' > Before
      BY <2>3, <2>4
    <3>3. x \in Alerts[repo] /\ Position(repo, x)' > Before
      BY <1>1, <2>1, <3>1 DEF Again, Position
    <3>4. Position(repo, b)' # Position(repo, b)
      BY <2>1, <2>2, <3>2
    <3>5. Position(repo, x)' <= Position(repo, b)
      <4>1. \A r, d : d \in open \cap Alerts[r] /\ x \in Alerts[r] /\ Position(r, d)' # Position(r, d)
                      => Position(r, x)' <= Position(r, d)
        BY <1>1, PositionOpened
      <4>2. \A r : r = repo => /\ Position(r, b)' = Position(repo, b)'
                               /\ Position(r, x)' = Position(repo, x)'
        BY <2>1 DEF Position
      <4> QED
        BY <3>2, <3>3, <3>4, <4>1, <4>2
    <3> QED
      BY <2>1, <2>2, <3>2, <3>3, <3>5
  <2>5. \A a, b \in Again' : a \notin Again /\ b \notin Again => a = b
    <3>1. ASSUME NEW a \in Again', NEW b \in Again', a \notin Again, b \notin Again, a # b
          PROVE  FALSE
      <4>1. a # x /\ b # x
        BY <2>4, <3>1
      <4>2. /\ a \in open \cap Alerts[repo] /\ b \in open \cap Alerts[repo]
            /\ Position(repo, a) = Position(repo, b)
        BY <1>1, <2>3, <3>1, <4>1
      <4> QED
        BY <1>1, <3>1, <4>2, PositionUnique
    <3> QED
      BY <3>1
  <2>6. Again' \subseteq Again \/ \E y : Again' \subseteq Again \cup {y}
    BY <2>5
  <2>7. /\ Cardinality(Again') <= Cardinality(Again) + 1
        /\ Cardinality(Again') \in Nat /\ Cardinality(Again) \in Nat
    BY <2>6, AgainType, Growth DEF Inv
  <2>8. Cardinality(Repeats) \in Nat /\ opened \in Nat
    BY FS_CardinalityType DEF Inv, TypeOK, Repeated
  <2> QED
    BY <1>1, <1>2, <1>4, <2>7, <2>8 DEF Repeated
<1> QED
  BY <1>3, <1>4

\* An alert that is closed puts none ahead again.
LEMMA RepeatedClose ==
    ASSUME Inv, Repeated, NEW x \in Alert, Close(x)
    PROVE  Repeated'
<1>1. /\ UNCHANGED <<pc, at, pageNo, out, opened>>
      /\ open' = open \ {x} /\ open \subseteq Alert
  BY DEF Close, call, Inv, TypeOK
<1>2. Repeats' = Repeats /\ Untouched' = Untouched
  BY <1>1 DEF Repeats, Untouched
<1>3. Before \in Nat /\ Before' = Before /\ repo' = repo
  BY <1>1, NextPage DEF Inv, TypeOK, Before, repo
<1>4. \A a : /\ Position(repo, a) \in Nat /\ Position(repo, a)' \in Nat
             /\ Position(repo, a)' <= Position(repo, a)
  <2>1. \A r, a : /\ Position(r, a) \in Nat /\ Position(r, a)' \in Nat
                  /\ Position(r, a)' <= Position(r, a)
    BY <1>1, PositionClose
  <2> QED
    BY <1>3, <2>1 DEF Position
<1>5. ASSUME NEW a \in Again'
      PROVE  a \in Again
  <2>1. a \in open \cap Alerts[repo] /\ out[a] > 0 /\ Position(repo, a)' > Before
    BY <1>1, <1>3 DEF Again, Position
  <2> QED
    BY <1>3, <1>4, <2>1 DEF Again
<1>6. /\ Cardinality(Again') <= Cardinality(Again)
      /\ Cardinality(Again') \in Nat /\ Cardinality(Again) \in Nat
  BY <1>5, AgainType, Growth DEF Inv
<1>7. Cardinality(Repeats) \in Nat /\ opened \in Nat
  BY FS_CardinalityType DEF Inv, TypeOK, Repeated
<1> QED
  BY <1>1, <1>2, <1>6, <1>7 DEF Repeated

\* A page repeats the alerts on it that were counted before, each of them once.
Anew == {a \in PageOf(repo, pageNo) \cap Reported : out[a] > 0}

LEMMA PageRepeats ==
    ASSUME TypeOK, Count, IsFiniteSet(Repeats)
    PROVE  /\ IsFiniteSet(Repeats') /\ Cardinality(Repeats') \in Nat
           /\ Cardinality(Repeats') <= Cardinality(Repeats) + Cardinality(Anew)
<1> DEFINE f == [a \in Anew |-> <<a, out[a] + 1>>]
           Fresh == {f[a] : a \in Anew}
<1>1. Anew \in SUBSET Alert /\ \A a \in Alert : out[a] \in Nat
  BY DEF TypeOK, Anew, PageOf
<1>2. IsFiniteSet(Anew) /\ Cardinality(Anew) \in Nat
  BY <1>1, Finite
<1>3. f \in Surjection(Anew, Fresh)
  <2>1. f \in [Anew -> Fresh] /\ \A t \in Fresh : \E a \in Anew : f[a] = t
    OBVIOUS
  <2> HIDE DEF f, Fresh
  <2> QED
    BY <2>1 DEF Surjection
<1>4. /\ IsFiniteSet(Fresh) /\ Cardinality(Fresh) <= Cardinality(Anew)
      /\ Cardinality(Fresh) \in Nat
  <2> HIDE DEF f, Fresh
  <2> QED
    BY <1>2, <1>3, FS_Surjection, FS_CardinalityType
<1>5. Repeats' \subseteq Repeats \cup Fresh
  <2>1. ASSUME NEW a \in Alert, NEW i \in 2 .. out'[a]
        PROVE  <<a, i>> \in Repeats \cup Fresh
    <3>1. CASE i <= out[a]
      <4>1. i \in 2 .. out[a]
        BY <1>1, <3>1
      <4> QED
        BY <4>1 DEF Repeats
    <3>2. CASE ~(i <= out[a])
      <4>1. a \in PageOf(repo, pageNo) \cap Reported /\ out'[a] = out[a] + 1
        BY <1>1, <3>2 DEF Count
      <4>2. i = out[a] + 1 /\ out[a] > 0
        BY <1>1, <3>2, <4>1
      <4>3. a \in Anew
        BY <4>1, <4>2 DEF Anew
      <4>4. f[a] = <<a, i>>
        BY <4>2, <4>3
      <4> QED
        BY <4>3, <4>4
    <3> QED
      BY <3>1, <3>2
  <2>2. Repeats' = UNION {{a} \X (2 .. out'[a]) : a \in Alert}
    BY DEF Repeats
  <2>3. ASSUME NEW p \in Repeats'
        PROVE  p \in Repeats \cup Fresh
    <3>1. PICK a \in Alert : p \in {a} \X (2 .. out'[a])
      BY <2>2
    <3>2. PICK i \in 2 .. out'[a] : p = <<a, i>>
      BY <3>1
    <3> QED
      BY <2>1, <3>2
  <2> QED
    BY <2>3
<1> HIDE DEF f, Fresh
<1>6. /\ IsFiniteSet(Repeats \cup Fresh)
      /\ Cardinality(Repeats \cup Fresh)
            = Cardinality(Repeats) + Cardinality(Fresh) - Cardinality(Repeats \cap Fresh)
  BY <1>4, FS_Union
<1>7. Cardinality(Repeats \cap Fresh) \in Nat /\ Cardinality(Repeats) \in Nat
  BY <1>4, FS_Intersection, FS_CardinalityType
<1>8. IsFiniteSet(Repeats') /\ Cardinality(Repeats') <= Cardinality(Repeats \cup Fresh)
  BY <1>5, <1>6, FS_Subset
<1>9. Cardinality(Repeats') \in Nat
  BY <1>8, FS_CardinalityType
<1> QED
  BY <1>2, <1>4, <1>6, <1>7, <1>8, <1>9

\* What a page repeats is no longer ahead, and the next repository starts anew.
LEMMA RepeatedRead ==
    ASSUME Inv, Repeated, Read
    PROVE  Repeated'
<1>1. /\ pc = "read" /\ UNCHANGED <<open, opened>> /\ open \subseteq Alert
      /\ at \in 1 .. Len(Repos) /\ Len(Repos) \in Nat /\ DOMAIN Repos = 1 .. Len(Repos)
      /\ TypeOK /\ Turn /\ Count
  BY SourceAssumption, LenProperties DEF Read, history, Inv, TypeOK
<1>2. Before \in Nat /\ pageNo * PerPage = Before + PerPage /\ PerPage \in Nat
  BY <1>1, NextPage, SourceAssumption DEF TypeOK
<1>3. \A a \in open : Position(repo, a) \in Nat
  <2>1. \A r, a : Position(r, a) \in Nat
    BY <1>1, AboveIsFinite DEF Position, Above
  <2> QED
    BY <2>1
<1>4. \A a : a \in PageOf(repo, pageNo)
             <=> /\ a \in open \cap Alerts[repo]
                 /\ Position(repo, a) \in Before + 1 .. Before + PerPage
  BY <1>2 DEF PageOf, Before
<1>5. Anew \subseteq Again
  <2>1. ASSUME NEW a \in Anew
        PROVE  a \in Again
    <3>1. a \in open \cap Alerts[repo] /\ out[a] > 0 /\ Position(repo, a) \in Before + 1 .. Before + PerPage
      BY <1>4 DEF Anew
    <3>2. Position(repo, a) > Before
      BY <1>2, <3>1
    <3> QED
      BY <3>1, <3>2 DEF Again
  <2> QED
    BY <2>1
<1>6. ASSUME pc' = "read", NEW a \in Again'
      PROVE  a \in Again \ Anew
  <2>2. CASE MoreAfter(repo, pageNo)
    <3>1. at' = at /\ pageNo' = pageNo + 1
      BY <1>1, <2>2 DEF Turn
    <3>2. Before' = Before + PerPage
      <4>1. pageNo' - 1 = pageNo
        BY <1>1, <3>1 DEF TypeOK
      <4>2. Before' = pageNo * PerPage
        BY <4>1, Zenon DEF Before
      <4> QED
        BY <4>2, <1>2
    <3>3. a \in open \cap Alerts[repo] /\ out'[a] > 0 /\ Position(repo, a) > Before + PerPage
      BY <1>1, <1>6, <3>1, <3>2 DEF Again, repo, Position
    <3>4. a \notin PageOf(repo, pageNo) /\ Position(repo, a) > Before
      BY <1>2, <1>3, <1>4, <3>3
    <3>5. out'[a] = out[a]
      BY <1>1, <3>3, <3>4 DEF Count
    <3> QED
      BY <3>3, <3>4, <3>5 DEF Again, Anew
  <2>3. CASE ~MoreAfter(repo, pageNo) /\ at < Len(Repos)
    <3>1. at' = at + 1 /\ at + 1 \in DOMAIN Repos /\ at + 1 # at /\ at \in DOMAIN Repos
      BY <1>1, <2>3 DEF Turn
    <3>2. a \in Alerts[Repos[at + 1]] /\ a \in open /\ out'[a] > 0
      BY <1>1, <1>6, <3>1 DEF Again, repo
    <3>3. out[a] = 0
      BY <1>1, <3>1, <3>2 DEF Repeated, Untouched
    <3>4. a \notin Alerts[repo]
      BY <3>1, <3>2, SourceAssumption DEF repo
    <3>5. out'[a] = out[a]
      BY <1>1, <1>4, <3>2, <3>4 DEF Count
    <3> QED
      BY <3>2, <3>3, <3>5
  <2> QED
    BY <1>1, <1>6, <2>2, <2>3 DEF Turn
<1>7. /\ IsFiniteSet(Repeats') /\ Cardinality(Repeats') \in Nat
      /\ Cardinality(Repeats') <= Cardinality(Repeats) + Cardinality(Anew)
  BY <1>1, PageRepeats DEF Repeated
<1>8. /\ IsFiniteSet(Again) /\ Cardinality(Again) \in Nat
      /\ Cardinality(Anew) \in Nat /\ Cardinality(Anew) <= Cardinality(Again)
      /\ IsFiniteSet(Again \ Anew)
      /\ Cardinality(Again \ Anew) = Cardinality(Again) - Cardinality(Anew)
  <2>1. IsFiniteSet(Again) /\ Cardinality(Again) \in Nat
    BY <1>1, AgainType, Finite
  <2>2. Again \cap Anew = Anew /\ Anew \in SUBSET Again
    BY <1>5
  <2>3. IsFiniteSet(Anew) /\ Cardinality(Anew) <= Cardinality(Again)
    BY <2>1, <2>2, FS_Subset
  <2>4. /\ IsFiniteSet(Again \ Anew)
        /\ Cardinality(Again \ Anew) = Cardinality(Again) - Cardinality(Again \cap Anew)
    BY <2>1, FS_Difference
  <2> QED
    BY <2>1, <2>2, <2>3, <2>4, FS_CardinalityType
<1>9. Cardinality(Repeats) \in Nat /\ opened \in Nat
      /\ Cardinality(Repeats) + Cardinality(Again) <= opened
  BY <1>1, FS_CardinalityType DEF TypeOK, Repeated
<1>10. Cardinality(Repeats') + Cardinality(Again \ Anew) <= opened'
  BY <1>1, <1>7, <1>8, <1>9
<1>11. CASE pc' = "read"
  <2>1. Cardinality(Again') <= Cardinality(Again \ Anew) /\ Cardinality(Again') \in Nat
    <3>1. Again' \in SUBSET (Again \ Anew)
      BY <1>6, <1>11
    <3> QED
      BY <1>8, <3>1, FS_Subset, FS_CardinalityType
  <2>2. Cardinality(Repeats') + Cardinality(Again') <= opened'
    <3>1. Cardinality(Again \ Anew) \in Nat /\ opened' \in Nat
      BY <1>1, <1>8, <1>9
    <3> QED
      BY <1>7, <1>10, <2>1, <3>1
  <2>3. Untouched'
    <3>1. ASSUME NEW j \in at' + 1 .. Len(Repos), NEW a \in Alerts[Repos[j]]
          PROVE  out'[a] = 0
      <4>1. at' \in {at, at + 1}
        BY <1>1, <1>11 DEF Turn
      <4>2. j \in at + 1 .. Len(Repos) /\ j \in DOMAIN Repos /\ j # at /\ at \in DOMAIN Repos
        BY <1>1, <4>1
      <4>3. out[a] = 0 /\ a \in Alert
        BY <1>1, <4>2 DEF Repeated, Untouched, Alert, Repo
      <4>4. a \notin Alerts[repo]
        BY <4>2, SourceAssumption DEF repo
      <4> QED
        BY <1>1, <1>4, <4>3, <4>4 DEF Count
    <3> QED
      BY <3>1 DEF Untouched
  <2> QED
    BY <1>7, <1>11, <2>2, <2>3 DEF Repeated
<1>12. CASE pc' # "read"
  <2>1. Cardinality(Again \ Anew) \in Nat
    BY <1>8, FS_CardinalityType
  <2>2. Cardinality(Repeats') <= opened'
    BY <1>1, <1>7, <1>9, <1>10, <2>1
  <2> QED
    BY <1>7, <1>12, <2>2 DEF Repeated
<1> QED
  BY <1>11, <1>12

LEMMA RepeatedNext == Inv /\ Repeated /\ [Next]_vars => Repeated'
<1> SUFFICES ASSUME Inv, Repeated, [Next]_vars PROVE Repeated'
  OBVIOUS
<1>1. CASE \E x \in Alert : Open(x)
  BY <1>1, RepeatedOpen
<1>2. CASE \E x \in Alert : Close(x)
  BY <1>2, RepeatedClose
<1>3. CASE Collect
  BY <1>3, RepeatedCollect
<1>4. CASE Read
  BY <1>4, RepeatedRead
<1>5. CASE Report \/ Fail
  <2>1. out' = None /\ pc' = "idle"
    BY <1>5 DEF Report, Fail
  <2> QED
    BY <2>1, NoneTwice DEF Repeated
<1>6. CASE UNCHANGED vars
  <2>1. UNCHANGED <<open, pc, at, pageNo, out, opened>>
    BY <1>6 DEF vars, call, history
  <2>2. Repeats' = Repeats /\ Again' = Again /\ Untouched' = Untouched
    BY <2>1 DEF Repeats, Again, Untouched, repo, Position, Before
  <2> QED
    BY <2>1, <2>2 DEF Repeated
<1> QED
  BY <1>1, <1>2, <1>3, <1>4, <1>5, <1>6 DEF Next, Poll

LEMMA Invariance == Spec => [](Inv /\ Repeated)
<1>1. Init => Inv /\ Repeated
  BY InvInit, RepeatedInit
<1>2. (Inv /\ Repeated) /\ [Next]_vars => (Inv /\ Repeated)'
  BY InvNext, RepeatedNext
<1> QED
  BY <1>1, <1>2, PTL DEF Spec

-----------------------------------------------------------------------------
\* Every variable keeps its type, for every page size and number of changes.
THEOREM SourceTypes == Spec => []TypeOK
<1>1. Inv => TypeOK
  BY DEF Inv
<1> QED
  BY <1>1, Invariance, PTL

\* A call misses no more of the alerts that stayed open than were closed meanwhile.
THEOREM MissesAreBounded == Spec => []MissedByClosing
<1>1. Inv => MissedByClosing
  <2> SUFFICES ASSUME Inv, pc = "done"
               PROVE  Cardinality({a \in kept \cap Reported : out[a] = 0}) <= closed
    BY DEF MissedByClosing
  <2>1. Missed = {a \in kept \cap Reported : out[a] = 0}
    BY DEF Missed, Passed
  <2> QED
    BY <2>1 DEF Inv, Counted
<1> QED
  BY <1>1, Invariance, PTL

\* A call counts alerts again no more often than alerts were opened meanwhile.
THEOREM RepeatsAreBounded == Spec => []DoubledByOpening
<1>1. Repeated => DoubledByOpening
  BY DEF Repeated, DoubledByOpening
<1> QED
  BY <1>1, Invariance, PTL

\* No page is asked for that begins past all the alerts there can be.
PagesEnd == Before <= Cardinality(Alert)

\* The loop over the pages of a repository ends, also while alerts are opened and
\* closed (sources.go:102-116): the page asked for is never past all there can be.
THEOREM PagesAreFinite == Spec => []PagesEnd
<1>1. Init => PagesEnd
  <2> SUFFICES ASSUME Init PROVE PagesEnd
    OBVIOUS
  <2>1. Before = 0 /\ Cardinality(Alert) \in Nat
    BY NextPage, Finite DEF Init, Before
  <2> QED
    BY <2>1 DEF PagesEnd
<1>2. Inv /\ PagesEnd /\ [Next]_vars => PagesEnd'
  <2> SUFFICES ASSUME Inv, PagesEnd, [Next]_vars
               PROVE  Before' <= Cardinality(Alert)
    BY DEF PagesEnd
  <2>1. /\ (1 - 1) * PerPage = 0 /\ pageNo * PerPage \in Nat /\ pageNo \in Nat
        /\ Cardinality(Alert) \in Nat /\ IsFiniteSet(Alert)
    <3>1. pageNo \in Nat \ {0} /\ PerPage \in Nat
      BY SourceAssumption DEF Inv, TypeOK
    <3>2. pageNo * PerPage = Before + PerPage /\ Before \in Nat /\ (1 - 1) * PerPage = 0
      BY <3>1, NextPage
    <3> QED
      BY <3>1, <3>2, Finite
  <2>2. CASE pageNo' = pageNo
    BY <2>2 DEF PagesEnd, Before
  <2>3. CASE pageNo' = 1
    <3>1. Before' = (1 - 1) * PerPage
      BY <2>3 DEF Before
    <3> QED
      BY <2>1, <3>1
  <2>4. CASE Read /\ MoreAfter(repo, pageNo)
    <3>1. pageNo' - 1 = pageNo
      BY <2>1, <2>4 DEF Read, Turn
    <3>2. Before' = pageNo * PerPage
      BY <3>1, Zenon DEF Before
    <3>3. open \cap Alerts[repo] \in SUBSET Alert
      BY DEF Inv, TypeOK
    <3>4. /\ Cardinality(open \cap Alerts[repo]) <= Cardinality(Alert)
          /\ Cardinality(open \cap Alerts[repo]) \in Nat
      BY <2>1, <3>3, Finite, FS_Subset
    <3>5. Cardinality(open \cap Alerts[repo]) > pageNo * PerPage
      BY <2>4 DEF MoreAfter
    <3> QED
      BY <2>1, <3>2, <3>4, <3>5
  <2>5. Read => pageNo' = 1 \/ MoreAfter(repo, pageNo)
    BY DEF Read, Turn
  <2>6. (\E a \in Alert : Open(a) \/ Close(a)) \/ UNCHANGED vars => pageNo' = pageNo
    BY DEF Open, Close, vars, call
  <2>7. Collect \/ Report \/ Fail => pageNo' = 1
    BY DEF Collect, Report, Fail
  <2> QED
    BY <2>2, <2>3, <2>4, <2>5, <2>6, <2>7 DEF Next, Poll
<1> QED
  BY <1>1, <1>2, Invariance, PTL DEF Spec
=============================================================================
