------------------------- MODULE ProwlerSource_proofs -------------------------
(***************************************************************************)
(* For every bucket, every page size and every order in which keys are     *)
(* written, listed and expired: what the source remembers is one report,   *)
(* it is replaced only by a newer one though collect compares keys and not *)
(* dates, and what a collect answers is no older than the newest report    *)
(* there was when it was called.                                           *)
(*                                                                         *)
(* The argument follows the report that was newest at the call: it cannot  *)
(* expire before the collect ends (Asked), and the listing has either met  *)
(* one at least as new or still has it ahead of its cursor (Scanned).  As  *)
(* what is remembered was read earlier, it is no newer than that report,   *)
(* and dates tell reports apart (Dated): another key is a newer report.    *)
(***************************************************************************)
EXTENDS ProwlerSource, FiniteSetTheorems, TLAPS

\* A date is written once, and the newest report is still there.
Dated ==
    /\ \A k \in Key : written[k] <= Clock
    /\ \A j, k \in Key : written[j] = written[k] /\ written[k] # 0 => j = k
    /\ \A k \in live : written[k] # 0
    /\ \A k \in Report : written[k] = Truth /\ Truth # 0 => k \in live

\* The best of the scan and the report remembered have their own dates.
Found ==
    /\ newest = 0 => newestAt = 0
    /\ newest # 0 => newestAt = written[newest] /\ newestAt # 0
    /\ lastKey = 0 => lastAt = 0
    /\ lastKey # 0 => lastFind = lastKey /\ lastAt = written[lastKey] /\ lastAt # 0

\* What was newest at the call is still there, and none older is remembered.
Asked ==
    pc # "idle" => /\ asked <= Truth /\ lastAt <= asked
                   /\ asked # 0 => \E m \in Report \cap live : written[m] = asked

\* The scan has met a report as new as that, or still has it ahead.
Scanned ==
    /\ pc = "listing" => \/ newestAt >= asked
                         \/ \E m \in Report \cap live : written[m] = asked /\ m > cursor
    /\ pc = "getting" => newestAt >= asked /\ newest # 0 /\ newest # lastKey

Inv == TypeOK /\ Dated /\ Found /\ Asked /\ Scanned

-----------------------------------------------------------------------------
(* The newest, the first and the last of a set of keys or dates.           *)

\* A set of numbers up to n has a greatest: the one with the fewest above it.
LEMMA GreatestExists ==
    ASSUME NEW n \in Nat, NEW S \in SUBSET (0 .. n), S # {}
    PROVE  \E x \in S : \A y \in S : x >= y
<1> DEFINE Above(x) == {y \in S : y > x}
           T == {Above(x) : x \in S}
<1>1. IsFiniteSet(S)
  <2>1. IsFiniteSet(0 .. n)
    BY FS_Interval
  <2> QED BY <2>1, FS_Subset
<1>2. IsWellFoundedOn(StrictSubsetOrdering(S), SUBSET S)
  BY <1>1, FS_StrictSubsetOrderingWellFounded, FS_FiniteSubsetsOfFinite
<1>3. PICK A \in T : \A B \in T : <<B, A>> \notin StrictSubsetOrdering(S)
  <2>1. T \subseteq SUBSET S /\ T # {}
    OBVIOUS
  <2> HIDE DEF T
  <2> QED BY <1>2, <2>1, WFMin
<1>4. PICK x \in S : A = Above(x)
  OBVIOUS
<1>5. ASSUME NEW y \in S, ~(x >= y)
      PROVE  FALSE
  <2>1. Above(y) \subseteq Above(x) /\ y \in Above(x) /\ y \notin Above(y)
    <3>1. y > x
      BY <1>5
    <3>2. \A z \in S : z > y => z > x
      BY <3>1
    <3>3. ~(y > y)
      OBVIOUS
    <3> QED BY <3>1, <3>2, <3>3
  <2>2. <<Above(y), Above(x)>> \in StrictSubsetOrdering(S)
    BY <2>1 DEF StrictSubsetOrdering
  <2> QED BY <1>3, <1>4, <2>2
<1> QED BY <1>5

\* So Max is one of the set and none is above it.
LEMMA MaxIsGreatest ==
    ASSUME NEW n \in Nat, NEW S \in SUBSET (0 .. n), S # {}
    PROVE  Max(S) \in S /\ \A y \in S : Max(S) >= y
BY GreatestExists DEF Max

\* It has a smallest: n less the greatest of the mirrored set.
LEMMA SmallestExists ==
    ASSUME NEW n \in Nat, NEW S \in SUBSET (0 .. n), S # {}
    PROVE  \E x \in S : \A y \in S : x <= y
<1> DEFINE M == {n - x : x \in S}
<1>1. M \in SUBSET (0 .. n) /\ M # {}
  <2>1. \A x \in S : n - x \in 0 .. n
    OBVIOUS
  <2> QED BY <2>1
<1>2. PICK z \in M : \A y \in M : z >= y
  BY <1>1, GreatestExists
<1>3. PICK x \in S : z = n - x
  OBVIOUS
<1>4. \A y \in S : n - x >= n - y
  BY <1>2, <1>3
<1> QED BY <1>4

-----------------------------------------------------------------------------
(* The clock and the newest report there ever was, as functions of the     *)
(* dates: w is written, or written'.                                       *)

Dates == [Key -> 0 .. MaxKey]
WrittenIn(w) == {k \in Key : w[k] # 0}
NewestIn(w) == Max({w[k] : k \in Report} \cup {0})

\* There are as many dates as keys: one is left for a key not yet written.
LEMMA ClockType ==
    ASSUME NEW w \in Dates
    PROVE  /\ IsFiniteSet(WrittenIn(w))
           /\ Cardinality(WrittenIn(w)) \in 0 .. MaxKey
           /\ \A k \in Key : w[k] = 0 => Cardinality(WrittenIn(w)) < MaxKey
<1> DEFINE W == WrittenIn(w)
<1>1. IsFiniteSet(Key) /\ Cardinality(Key) = MaxKey
  BY BucketAssumption, FS_Interval DEF Key
<1>2. /\ IsFiniteSet(W) /\ Cardinality(W) <= MaxKey
      /\ Cardinality(W) = MaxKey => W = Key
  BY <1>1, FS_Subset DEF WrittenIn
<1>3. Cardinality(W) \in Nat
  BY <1>2, FS_CardinalityType
<1>4. \A k \in Key : w[k] = 0 => W # Key
  BY DEF WrittenIn
<1> QED BY <1>2, <1>3, <1>4, BucketAssumption

\* A key written with the next date is one more tick.
LEMMA ClockTicks ==
    ASSUME NEW w \in Dates, NEW k \in Key, w[k] = 0,
           NEW t \in 1 .. MaxKey
    PROVE  Cardinality(WrittenIn([w EXCEPT ![k] = t])) = Cardinality(WrittenIn(w)) + 1
<1>1. WrittenIn([w EXCEPT ![k] = t]) = WrittenIn(w) \cup {k} /\ k \notin WrittenIn(w)
  BY DEF WrittenIn, Dates
<1>2. IsFiniteSet(WrittenIn(w))
  BY ClockType
<1> QED BY <1>1, <1>2, FS_AddElement

\* Truth is the greatest of the reports' dates.
LEMMA TruthIsNewest ==
    ASSUME NEW w \in Dates
    PROVE  /\ NewestIn(w) \in 0 .. MaxKey
           /\ \A k \in Report : w[k] <= NewestIn(w)
           /\ NewestIn(w) # 0 => \E k \in Report : w[k] = NewestIn(w)
<1> DEFINE D == {w[k] : k \in Report} \cup {0}
<1>1. D \in SUBSET (0 .. MaxKey) /\ D # {} /\ MaxKey \in Nat
  BY BucketAssumption DEF Dates
<1>2. NewestIn(w) = Max(D)
  BY DEF NewestIn
<1> HIDE DEF D
<1>3. NewestIn(w) \in D /\ \A y \in D : NewestIn(w) >= y
  BY <1>1, <1>2, MaxIsGreatest
<1> USE DEF D
<1>4. NewestIn(w) \in 0 .. MaxKey
  BY <1>1, <1>3
<1>5. \A k \in Report : NewestIn(w) >= w[k] /\ w[k] \in 0 .. MaxKey
  BY <1>3, BucketAssumption DEF Dates
<1>6. \A k \in Report : w[k] <= NewestIn(w)
  BY <1>4, <1>5
<1> QED BY <1>3, <1>4, <1>6

\* There is only one number with those two properties.
LEMMA TruthIs ==
    ASSUME NEW w \in Dates, NEW t \in Nat,
           \A k \in Report : w[k] <= t,
           t # 0 => \E k \in Report : w[k] = t
    PROVE  NewestIn(w) = t
<1>1. /\ NewestIn(w) \in 0 .. MaxKey
      /\ \A k \in Report : w[k] <= NewestIn(w)
      /\ NewestIn(w) # 0 => \E k \in Report : w[k] = NewestIn(w)
  BY TruthIsNewest
<1>2. \A k \in Report : w[k] \in 0 .. MaxKey
  BY BucketAssumption DEF Dates
<1>3. NewestIn(w) <= t /\ t <= NewestIn(w)
  BY <1>1, <1>2, BucketAssumption
<1> QED BY <1>1, <1>3

\* The two in the words of the module.
LEMMA NowAndNewest ==
    /\ Clock = Cardinality(WrittenIn(written)) /\ Truth = NewestIn(written)
    /\ Clock' = Cardinality(WrittenIn(written')) /\ Truth' = NewestIn(written')
BY DEF Clock, Truth, WrittenIn, NewestIn

-----------------------------------------------------------------------------
(* A page of the listing.                                                  *)

\* What a page leaves out comes after it, and a page is never empty while keys
\* are left.
LEMMA PageIsFirst ==
    ASSUME TypeOK
    PROVE  /\ Page \subseteq Listed /\ Listed \subseteq live /\ Listed \subseteq Key
           /\ Listed # {} => Page # {}
           /\ \A k \in Page : \A j \in Listed : j < k => j \in Page
<1> DEFINE Before(k) == {j \in Listed : j < k}
<1>1. Page \subseteq Listed /\ Listed \subseteq live /\ Listed \subseteq Key
  BY DEF TypeOK, Page, Listed
<1>2. MaxKey \in Nat /\ PageSize \in Nat \ {0} /\ Key \subseteq Nat /\ Listed \in SUBSET (0 .. MaxKey)
  BY <1>1, BucketAssumption DEF Key
<1>3. IsFiniteSet(Listed)
  <2>1. IsFiniteSet(0 .. MaxKey)
    BY <1>2, FS_Interval
  <2> QED BY <1>2, <2>1, FS_Subset
<1>4. \A k \in Listed : IsFiniteSet(Before(k)) /\ Cardinality(Before(k)) \in Nat
  <2>1. \A k \in Listed : Before(k) \in SUBSET Listed
    OBVIOUS
  <2> HIDE DEF Before
  <2> QED BY <1>3, <2>1, FS_Subset, FS_CardinalityType
<1>5. \A k \in Listed : k \in Page <=> Cardinality(Before(k)) < PageSize
  BY DEF Page
<1>6. ASSUME NEW k \in Page, NEW j \in Listed, j < k
      PROVE  j \in Page
  <2>1. Before(j) \in SUBSET Before(k)
    <3>1. \A i \in Listed : i \in Nat
      BY <1>2
    <3>2. j \in Nat /\ k \in Nat
      BY <1>1, <1>2, <3>1
    <3>3. \A i \in Listed : i < j => i < k
      BY <1>6, <3>1, <3>2
    <3> QED BY <3>3
  <2>2. k \in Listed
    BY <1>1
  <2> HIDE DEF Before
  <2>3. Cardinality(Before(j)) <= Cardinality(Before(k))
    BY <1>4, <2>1, <2>2, FS_Subset
  <2> QED BY <1>2, <1>4, <1>5, <2>2, <2>3
<1>7. ASSUME Listed # {}
      PROVE  Page # {}
  <2>1. PICK k \in Listed : \A j \in Listed : k <= j
    BY <1>2, <1>7, SmallestExists
  <2>2. Before(k) = {}
    <3>1. \A j \in Listed : j \in Nat
      BY <1>2
    <3>2. \A j \in Listed : ~(j < k)
      BY <2>1, <3>1
    <3> QED BY <3>2
  <2>3. Cardinality(Before(k)) = 0
    BY <2>2, FS_EmptySet
  <2> QED BY <1>2, <1>5, <2>3
<1> QED BY <1>1, <1>6, <1>7

\* So the next cursor is a key, and what was left out is still ahead of it.
LEMMA CursorAdvances ==
    ASSUME TypeOK, IsTruncated
    PROVE  /\ Max(Page) \in Page /\ Max(Page) \in 0 .. MaxKey
           /\ \A m \in Listed \ Page : m > Max(Page)
<1>1. /\ Page \subseteq Listed /\ Listed \subseteq Key
      /\ Listed # {} => Page # {}
      /\ \A k \in Page : \A j \in Listed : j < k => j \in Page
  BY PageIsFirst
<1>2. MaxKey \in Nat /\ Key \in SUBSET (0 .. MaxKey)
  BY BucketAssumption DEF Key
<1>3. Page # {} /\ Page \in SUBSET (0 .. MaxKey)
  BY <1>1, <1>2 DEF IsTruncated
<1>4. Max(Page) \in Page
  BY <1>2, <1>3, MaxIsGreatest
<1>5. ASSUME NEW m \in Listed \ Page
      PROVE  m > Max(Page)
  <2>1. m # Max(Page) /\ ~(m < Max(Page))
    BY <1>1, <1>4, <1>5
  <2>2. m \in 0 .. MaxKey /\ Max(Page) \in 0 .. MaxKey
    BY <1>1, <1>2, <1>3, <1>4
  <2> QED BY <2>1, <2>2
<1> QED BY <1>3, <1>4, <1>5

\* The best so far is no older than any report of the page read.
LEMMA BestOfPage ==
    ASSUME TypeOK, ReadPage
    PROVE  /\ \/ newest' = newest /\ newestAt' = newestAt
              \/ newest' \in Page \cap Report /\ newestAt' = written[newest'] /\ newestAt' > newestAt
           /\ newest' \in Report \cup {0} /\ newestAt' \in 0 .. MaxKey
           /\ newestAt' >= newestAt
           /\ \A m \in Page \cap Report : written[m] <= newestAt'
<1>1. \A k \in Report : k \in Key /\ written[k] \in 0 .. MaxKey
  BY BucketAssumption DEF TypeOK
<1>2. newestAt \in 0 .. MaxKey /\ newest \in Report \cup {0}
  BY DEF TypeOK
<1>3. \A m \in Page \cap Report : m \notin Later => written[m] <= newestAt
  BY <1>1, <1>2 DEF Later
<1>4. CASE Later = {}
  BY <1>2, <1>3, <1>4 DEF ReadPage
<1>5. CASE Later # {}
  <2>1. PICK k \in Later : /\ \A j \in Later : written[j] <= written[k]
                           /\ newest' = k /\ newestAt' = written[k]
    BY <1>5 DEF ReadPage
  <2>2. k \in Page \cap Report /\ written[k] > newestAt /\ written[k] \in 0 .. MaxKey
    BY <1>1 DEF Later
  <2>3. ASSUME NEW m \in Page \cap Report
        PROVE  written[m] <= newestAt'
    <3>1. CASE m \in Later
      BY <2>1, <3>1
    <3>2. CASE m \notin Later
      BY <1>1, <1>2, <1>3, <2>1, <2>2, <3>2
    <3> QED BY <3>1, <3>2
  <2> QED BY <1>2, <2>1, <2>2, <2>3
<1> QED BY <1>4, <1>5

-----------------------------------------------------------------------------
(* The invariant.                                                          *)

LEMMA InitInv == Init => Inv
<1> SUFFICES ASSUME Init PROVE Inv
  OBVIOUS
<1>1. MaxKey \in Nat /\ Report \subseteq Key /\ 0 \notin Key
  BY BucketAssumption DEF Key
<1>2. written \in Dates /\ \A k \in Key : written[k] = 0
  BY <1>1 DEF Init, Dates
<1>3. Truth = 0
  <2>1. NewestIn(written) = 0
    BY <1>1, <1>2, TruthIs
  <2> QED BY <2>1, NowAndNewest
<1>4. Clock \in 0 .. MaxKey
  BY <1>2, ClockType, NowAndNewest
<1>5. TypeOK
  BY <1>1, <1>2 DEF Init, TypeOK, Dates
<1>6. Dated
  BY <1>1, <1>2, <1>3, <1>4 DEF Init, Dated
<1> QED BY <1>5, <1>6 DEF Init, Inv, Found, Asked, Scanned

\* Without an upload the clock and the newest report stay what they are.
LEMMA NothingWritten ==
    ASSUME UNCHANGED written
    PROVE  Clock' = Clock /\ Truth' = Truth
BY DEF Clock, Truth

\* An upload is the next tick, and is the newest report if it is one.
LEMMA UploadDates ==
    ASSUME TypeOK, Dated, NEW k \in Key, Upload(k)
    PROVE  /\ written' \in Dates /\ Clock \in 0 .. MaxKey /\ Clock < MaxKey
           /\ Clock' = Clock + 1
           /\ Truth \in 0 .. MaxKey /\ Truth <= Clock
           /\ Truth' = IF k \in Report THEN Clock + 1 ELSE Truth
           /\ written[k] = 0 /\ k \notin live
           /\ \A j \in Key : written'[j] = IF j = k THEN Clock + 1 ELSE written[j]
<1>1. written \in Dates /\ written[k] = 0
  BY DEF TypeOK, Dates, Upload
<1>2. Clock \in 0 .. MaxKey /\ Clock < MaxKey /\ MaxKey \in Nat /\ Report \subseteq Key
  BY <1>1, ClockType, NowAndNewest, BucketAssumption
<1>3. written' = [written EXCEPT ![k] = Clock + 1] /\ Clock + 1 \in 1 .. MaxKey
  BY <1>2 DEF Upload
<1>4. written' \in Dates
  BY <1>1, <1>2, <1>3 DEF Dates
<1>5. Clock' = Clock + 1
  BY <1>1, <1>3, ClockTicks, NowAndNewest
<1>6. \A j \in Key : written'[j] = IF j = k THEN Clock + 1 ELSE written[j]
  BY <1>1, <1>3 DEF Dates
<1>7. /\ Truth \in 0 .. MaxKey
      /\ \A j \in Report : written[j] <= Truth
      /\ Truth # 0 => \E j \in Report : written[j] = Truth
  BY <1>1, TruthIsNewest, NowAndNewest
<1>8. \A j \in Key : written[j] \in 0 .. MaxKey /\ written[j] <= Clock
  BY <1>1 DEF Dates, Dated
<1>9. Truth <= Clock
  BY <1>2, <1>7, <1>8
<1>10. CASE k \in Report
  <2>1. \A j \in Report : written'[j] <= Clock + 1
    BY <1>2, <1>6, <1>8
  <2>2. \E j \in Report : written'[j] = Clock + 1
    BY <1>6, <1>10
  <2>3. NewestIn(written') = Clock + 1
    BY <1>2, <1>4, <2>1, <2>2, TruthIs
  <2> QED BY <1>1, <1>2, <1>4, <1>5, <1>6, <1>7, <1>9, <1>10, <2>3, NowAndNewest DEF Dated
<1>11. CASE k \notin Report
  <2>1. \A j \in Report : written'[j] = written[j]
    BY <1>2, <1>6, <1>11
  <2>2. NewestIn(written') = Truth
    BY <1>4, <1>7, <2>1, TruthIs
  <2> QED BY <1>1, <1>2, <1>4, <1>5, <1>6, <1>7, <1>9, <1>11, <2>2, NowAndNewest DEF Dated
<1> QED BY <1>10, <1>11

\* Every step keeps the types.
LEMMA NextTypeOK == TypeOK /\ Dated /\ [Next]_vars => TypeOK'
<1> SUFFICES ASSUME TypeOK, Dated, [Next]_vars PROVE TypeOK'
  OBVIOUS
<1>1. MaxKey \in Nat /\ 0 \in 0 .. MaxKey /\ Report \subseteq Key
  BY BucketAssumption
<1>2. ASSUME NEW k \in Key, Upload(k)
      PROVE  TypeOK'
  <2>1. written' \in [Key -> 0 .. MaxKey]
    BY <1>2, UploadDates DEF Dates
  <2> QED BY <1>2, <2>1 DEF TypeOK, Upload, scan, cached
<1>3. ASSUME NEW k \in Key, Expire(k)
      PROVE  TypeOK'
  BY <1>3 DEF TypeOK, Expire, scan, cached
<1>4. CASE Health
  BY <1>4 DEF TypeOK, Health, bucket, scan, cached
<1>5. CASE Call
  <2>1. Truth \in 0 .. MaxKey
    BY TruthIsNewest, NowAndNewest DEF TypeOK, Dates
  <2> QED BY <1>1, <1>5, <2>1 DEF TypeOK, Call, bucket, cached
<1>6. CASE ListPage
  <2>1. newest' \in Report \cup {0} /\ newestAt' \in 0 .. MaxKey
    BY <1>6, BestOfPage DEF ListPage
  <2>2. cursor' \in 0 .. MaxKey
    BY <1>6, CursorAdvances DEF ListPage
  <2> QED BY <1>6, <2>1, <2>2 DEF TypeOK, ListPage, bucket, cached
<1>7. CASE ListLast
  <2>1. newest' \in Report \cup {0} /\ newestAt' \in 0 .. MaxKey
    BY <1>7, BestOfPage DEF ListLast
  <2> QED BY <1>7, <2>1 DEF TypeOK, ListLast, bucket, cached
<1>8. CASE ListSame
  <2>1. newest' \in Report \cup {0} /\ newestAt' \in 0 .. MaxKey
    BY <1>8, BestOfPage DEF ListSame
  <2> QED BY <1>8, <2>1 DEF TypeOK, ListSame, bucket, cached
<1>9. CASE ListNone
  <2>1. newest' \in Report \cup {0} /\ newestAt' \in 0 .. MaxKey
    BY <1>9, BestOfPage DEF ListNone
  <2> QED BY <1>9, <2>1 DEF TypeOK, ListNone, bucket, cached
<1>10. CASE Get
  BY <1>10 DEF TypeOK, Get, Remember, bucket, scan
<1>11. CASE RequestFailed
  BY <1>11 DEF TypeOK, RequestFailed, bucket, scan, cached
<1>12. CASE ParseFailed
  BY <1>12 DEF TypeOK, ParseFailed, bucket, scan, cached
<1>13. CASE UNCHANGED vars
  BY <1>13 DEF TypeOK, vars
<1> QED BY <1>2, <1>3, <1>4, <1>5, <1>6, <1>7, <1>8, <1>9, <1>10, <1>11, <1>12, <1>13
        DEF Next, Step

\* Reading the listing or a report keeps the bucket's dates.
LEMMA DatesStay ==
    ASSUME Dated, UNCHANGED bucket
    PROVE  Dated' /\ Clock' = Clock /\ Truth' = Truth
BY NothingWritten DEF Dated, bucket

\* The best of the scan is one report, after a page as before.
LEMMA FoundOfPage ==
    ASSUME TypeOK, Found, ReadPage, UNCHANGED <<bucket, cached>>
    PROVE  Found'
<1>1. 0 \notin Report
  BY BucketAssumption DEF Key
<1>2. /\ \/ newest' = newest /\ newestAt' = newestAt
         \/ newest' \in Report /\ newestAt' = written[newest'] /\ newestAt' > newestAt
      /\ newestAt' \in 0 .. MaxKey /\ newestAt \in 0 .. MaxKey
  BY BestOfPage DEF TypeOK
<1> QED BY <1>1, <1>2 DEF Found, bucket, cached

\* After the last page, no report that was newest at the call is ahead.
LEMMA ScanEnds ==
    ASSUME TypeOK, Asked, Scanned, pc = "listing", ReadPage, ~IsTruncated
    PROVE  newestAt' >= asked
<1>1. /\ newestAt' >= newestAt /\ newestAt' \in 0 .. MaxKey
      /\ \A m \in Page \cap Report : written[m] <= newestAt'
  BY BestOfPage
<1>2. asked \in 0 .. MaxKey /\ newestAt \in 0 .. MaxKey
  BY DEF TypeOK
<1>3. CASE newestAt >= asked
  BY <1>1, <1>2, <1>3
<1>4. CASE \E m \in Report \cap live : written[m] = asked /\ m > cursor
  <2>1. PICK m \in Report \cap live : written[m] = asked /\ m > cursor
    BY <1>4
  <2>2. m \in Page
    BY <2>1 DEF Listed, IsTruncated
  <2> QED BY <1>1, <1>2, <2>1, <2>2
<1> QED BY <1>3, <1>4 DEF Scanned

\* An upload leaves what was found and what is ahead as they are.
LEMMA UploadInv ==
    ASSUME Inv, NEW k \in Key, Upload(k)
    PROVE  Dated' /\ Found' /\ Asked' /\ Scanned'
<1>1. TypeOK /\ Dated /\ Found /\ Asked /\ Scanned
  BY DEF Inv
<1>2. /\ Clock \in 0 .. MaxKey /\ Clock' = Clock + 1
      /\ Truth \in 0 .. MaxKey /\ Truth <= Clock
      /\ Truth' = IF k \in Report THEN Clock + 1 ELSE Truth
      /\ written[k] = 0 /\ k \notin live
      /\ \A j \in Key : written'[j] = IF j = k THEN Clock + 1 ELSE written[j]
  BY <1>1, UploadDates
<1>3. Report \subseteq Key /\ live \subseteq Key /\ 0 \notin Key
  BY <1>1, BucketAssumption DEF TypeOK, Key
<1>4. \A j \in Key : written[j] \in 0 .. MaxKey /\ written[j] <= Clock
  BY <1>1 DEF TypeOK, Dated
<1>5. live' = live \cup {k} /\ UNCHANGED <<pc, cursor, newest, newestAt, lastKey, lastAt, lastFind, asked>>
  BY DEF Upload, scan, cached
<1>6. Dated'
  <2>1. \A j \in Key : written'[j] <= Clock'
    BY <1>2, <1>4
  <2>2. \A i, j \in Key : written'[i] = written'[j] /\ written'[j] # 0 => i = j
    BY <1>1, <1>2, <1>4 DEF Dated
  <2>3. \A j \in live' : written'[j] # 0
    BY <1>1, <1>2, <1>3, <1>5 DEF Dated
  <2>4. \A j \in Report : written'[j] = Truth' /\ Truth' # 0 => j \in live'
    <3>1. CASE k \in Report
      BY <1>2, <1>3, <1>4, <1>5, <3>1
    <3>2. CASE k \notin Report
      BY <1>1, <1>2, <1>3, <1>5, <3>2 DEF Dated
    <3> QED BY <3>1, <3>2
  <2> QED BY <2>1, <2>2, <2>3, <2>4 DEF Dated
<1>7. \A j \in Key : written[j] # 0 => written'[j] = written[j]
  BY <1>2
<1>8. Found'
  <2>1. newest \in Report \cup {0} /\ lastKey \in Report \cup {0}
    BY <1>1 DEF TypeOK
  <2> QED BY <1>1, <1>3, <1>5, <1>7, <2>1 DEF Found
<1>9. Asked'
  <2>1. Truth <= Truth' /\ Truth' \in Nat
    BY <1>2
  <2>2. asked \in 0 .. MaxKey
    BY <1>1 DEF TypeOK
  <2>3. pc # "idle" => asked <= Truth'
    BY <1>1, <1>2, <2>1, <2>2 DEF Asked
  <2> QED BY <1>1, <1>3, <1>5, <1>7, <2>3 DEF Asked
<1>10. Scanned'
  <2>1. \A m \in Report \cap live : written'[m] = written[m] /\ m \in live'
    BY <1>1, <1>3, <1>5, <1>7 DEF Dated
  <2> QED BY <1>1, <1>5, <2>1 DEF Scanned
<1> QED BY <1>6, <1>8, <1>9, <1>10

\* The bucket expires neither the newest report nor what was newest at the call.
LEMMA ExpireInv ==
    ASSUME Inv, NEW k \in Key, Expire(k)
    PROVE  Dated' /\ Found' /\ Asked' /\ Scanned'
<1>1. TypeOK /\ Dated /\ Found /\ Asked /\ Scanned
  BY DEF Inv
<1>2. Clock' = Clock /\ Truth' = Truth
  BY NothingWritten DEF Expire
<1>3. live' = live \ {k} /\ UNCHANGED <<written, pc, cursor, newest, newestAt, lastKey, lastAt, lastFind, asked>>
  BY DEF Expire, scan, cached
<1>4. Report \subseteq Key /\ \A j \in Key : written[j] \in 0 .. MaxKey
  BY <1>1, BucketAssumption DEF TypeOK
<1>5. written[k] # Truth /\ (pc # "idle" => written[k] # asked)
  <2>1. Truth \in 0 .. MaxKey
    BY <1>1, TruthIsNewest, NowAndNewest DEF TypeOK, Dates
  <2>2. asked \in 0 .. MaxKey
    BY <1>1 DEF TypeOK
  <2> QED BY <1>4, <2>1, <2>2 DEF Expire
<1>6. Dated'
  BY <1>1, <1>2, <1>3, <1>5 DEF Dated
<1>7. Found'
  BY <1>1, <1>3 DEF Found
<1>8. Asked'
  BY <1>1, <1>2, <1>3, <1>5 DEF Asked
<1>9. Scanned'
  BY <1>1, <1>3, <1>5 DEF Scanned
<1> QED BY <1>6, <1>7, <1>8, <1>9

\* A call starts with the newest report ahead of the listing.
LEMMA CallInv ==
    ASSUME Inv, Call
    PROVE  Dated' /\ Found' /\ Asked' /\ Scanned'
<1>1. TypeOK /\ Dated /\ Found
  BY DEF Inv
<1>2. UNCHANGED bucket /\ UNCHANGED <<lastKey, lastAt, lastFind>>
  BY DEF Call, cached
<1>3. Dated' /\ Truth' = Truth
  BY <1>1, <1>2, DatesStay
<1>4. Found'
  BY <1>1, <1>2 DEF Found, Call, bucket
<1>5. Report \subseteq Key /\ \A k \in Report : k > 0
  BY BucketAssumption DEF Key
<1>6. /\ Truth \in 0 .. MaxKey
      /\ \A k \in Report : written[k] <= Truth
      /\ Truth # 0 => \E k \in Report : written[k] = Truth
  BY <1>1, TruthIsNewest, NowAndNewest DEF TypeOK, Dates
<1>7. lastAt <= Truth
  <2>1. lastKey \in Report \cup {0}
    BY <1>1 DEF TypeOK
  <2> QED BY <1>1, <1>6, <2>1 DEF Found
<1>8. Truth # 0 => \E m \in Report \cap live : written[m] = Truth
  BY <1>1, <1>6 DEF Dated
<1>9. UNCHANGED <<written, live>>
  BY <1>2 DEF bucket
<1>10. Asked'
  <2>1. asked' = Truth
    BY DEF Call
  <2>2. asked' <= Truth'
    BY <1>3, <1>6, <2>1
  <2> QED BY <1>2, <1>7, <1>8, <1>9, <2>1, <2>2 DEF Asked
<1>11. Scanned'
  <2>1. pc' = "listing" /\ cursor' = 0 /\ newestAt' = 0 /\ asked' = Truth
    BY DEF Call
  <2> QED BY <1>5, <1>6, <1>8, <1>9, <2>1 DEF Scanned
<1> QED BY <1>3, <1>4, <1>10, <1>11

\* A page read leaves the newest at the call read, or ahead of the new cursor.
LEMMA ListPageInv ==
    ASSUME Inv, ListPage
    PROVE  Dated' /\ Found' /\ Asked' /\ Scanned'
<1>1. TypeOK /\ Dated /\ Found /\ Asked /\ Scanned
  BY DEF Inv
<1>2. /\ pc = "listing" /\ IsTruncated /\ ReadPage /\ cursor' = Max(Page)
      /\ UNCHANGED <<bucket, cached>> /\ UNCHANGED <<pc, asked>>
  BY DEF ListPage
<1>3. UNCHANGED <<written, live, lastAt>>
  BY <1>2 DEF bucket, cached
<1>4. Dated' /\ Truth' = Truth
  BY <1>1, <1>2, DatesStay
<1>5. Found'
  BY <1>1, <1>2, FoundOfPage
<1>6. Asked'
  BY <1>1, <1>2, <1>3, <1>4 DEF Asked
<1>7. Scanned'
  <2>1. /\ newestAt' >= newestAt /\ newestAt' \in 0 .. MaxKey
        /\ \A m \in Page \cap Report : written[m] <= newestAt'
    BY <1>1, <1>2, BestOfPage
  <2>2. asked \in 0 .. MaxKey /\ newestAt \in 0 .. MaxKey
    BY <1>1 DEF TypeOK
  <2>3. \A m \in Listed \ Page : m > cursor'
    BY <1>1, <1>2, CursorAdvances
  <2>4. CASE newestAt >= asked
    <3>1. newestAt' >= asked
      BY <2>1, <2>2, <2>4
    <3> QED BY <1>2, <3>1 DEF Scanned
  <2>5. CASE \E m \in Report \cap live : written[m] = asked /\ m > cursor
    <3>1. PICK m \in Report \cap live : written[m] = asked /\ m > cursor
      BY <2>5
    <3>2. m \in Listed
      BY <3>1 DEF Listed
    <3>3. CASE m \in Page
      <4>1. newestAt' >= asked
        BY <2>1, <2>2, <3>1, <3>3
      <4> QED BY <1>2, <4>1 DEF Scanned
    <3>4. CASE m \notin Page
      <4>1. m > cursor' /\ m \in Report \cap live' /\ written'[m] = asked'
        BY <1>2, <1>3, <2>3, <3>1, <3>2, <3>4
      <4> QED BY <1>2, <4>1 DEF Scanned
    <3> QED BY <3>3, <3>4
  <2> QED BY <1>1, <1>2, <2>4, <2>5 DEF Scanned
<1> QED BY <1>4, <1>5, <1>6, <1>7

\* The last page with another report than the one remembered.
LEMMA ListLastInv ==
    ASSUME Inv, ListLast
    PROVE  Dated' /\ Found' /\ Asked' /\ Scanned'
<1>1. TypeOK /\ Dated /\ Found /\ Asked /\ Scanned
  BY DEF Inv
<1>2. /\ pc = "listing" /\ ~IsTruncated /\ ReadPage
      /\ newest' # 0 /\ newest' # lastKey /\ pc' = "getting"
      /\ UNCHANGED <<bucket, cached>> /\ UNCHANGED asked
  BY DEF ListLast, SameReport
<1>3. UNCHANGED <<written, live, lastAt, lastKey>>
  BY <1>2 DEF bucket, cached
<1>4. Dated' /\ Truth' = Truth
  BY <1>1, <1>2, DatesStay
<1>5. Found'
  BY <1>1, <1>2, FoundOfPage
<1>6. Asked'
  BY <1>1, <1>2, <1>3, <1>4 DEF Asked
<1>7. Scanned'
  <2>1. newestAt' >= asked
    BY <1>1, <1>2, ScanEnds
  <2> QED BY <1>2, <1>3, <2>1 DEF Scanned
<1> QED BY <1>4, <1>5, <1>6, <1>7

\* A step that ends the collect owes nothing more to the call.
LEMMA Ended ==
    ASSUME pc' = "idle"
    PROVE  Asked' /\ Scanned'
BY DEF Asked, Scanned

\* The report remembered is the one got.
LEMMA GetInv ==
    ASSUME Inv, Get
    PROVE  Dated' /\ Found' /\ Asked' /\ Scanned'
<1>1. TypeOK /\ Dated /\ Found /\ Scanned
  BY DEF Inv
<1>2. /\ pc = "getting" /\ pc' = "idle" /\ UNCHANGED bucket /\ UNCHANGED <<newest, newestAt>>
      /\ lastKey' = newest /\ lastAt' = newestAt /\ lastFind' = newest
  BY DEF Get, Remember, scan
<1>3. Found'
  BY <1>1, <1>2 DEF Found, Scanned, bucket
<1> QED BY <1>1, <1>2, <1>3, DatesStay, Ended

LEMMA NextInv == Inv /\ [Next]_vars => Inv'
<1> SUFFICES ASSUME Inv, [Next]_vars PROVE Inv'
  OBVIOUS
<1>1. TypeOK /\ Dated /\ Found /\ Asked /\ Scanned
  BY DEF Inv
<1>2. TypeOK'
  BY <1>1, NextTypeOK
<1> SUFFICES Dated' /\ Found' /\ Asked' /\ Scanned'
  BY <1>2 DEF Inv
<1>3. ASSUME NEW k \in Key, Upload(k)
      PROVE  Dated' /\ Found' /\ Asked' /\ Scanned'
  BY <1>3, UploadInv
<1>4. ASSUME NEW k \in Key, Expire(k)
      PROVE  Dated' /\ Found' /\ Asked' /\ Scanned'
  BY <1>4, ExpireInv
<1>5. CASE Health
  <2>1. UNCHANGED bucket /\ UNCHANGED <<written, live, pc, cursor, newest, newestAt, lastKey, lastAt, lastFind, asked>>
    BY <1>5 DEF Health, bucket, scan, cached
  <2>2. Dated' /\ Truth' = Truth
    BY <1>1, <2>1, DatesStay
  <2> QED BY <1>1, <2>1, <2>2 DEF Found, Asked, Scanned
<1>6. CASE Call
  BY <1>6, CallInv
<1>7. CASE ListPage
  BY <1>7, ListPageInv
<1>8. CASE ListLast
  BY <1>8, ListLastInv
<1>9. CASE ListSame
  <2>1. ReadPage /\ UNCHANGED <<bucket, cached>> /\ UNCHANGED bucket /\ pc' = "idle"
    BY <1>9 DEF ListSame
  <2> QED BY <1>1, <2>1, FoundOfPage, DatesStay, Ended
<1>10. CASE ListNone
  <2>1. ReadPage /\ UNCHANGED <<bucket, cached>> /\ UNCHANGED bucket /\ pc' = "idle"
    BY <1>10 DEF ListNone
  <2> QED BY <1>1, <2>1, FoundOfPage, DatesStay, Ended
<1>11. CASE Get
  BY <1>11, GetInv
<1>12. CASE RequestFailed
  <2>1. UNCHANGED bucket /\ UNCHANGED <<written, newest, newestAt, lastKey, lastAt, lastFind>> /\ pc' = "idle"
    BY <1>12 DEF RequestFailed, bucket, scan, cached
  <2> QED BY <1>1, <2>1, DatesStay, Ended DEF Found
<1>13. CASE ParseFailed
  <2>1. UNCHANGED bucket /\ UNCHANGED <<written, newest, newestAt, lastKey, lastAt, lastFind>> /\ pc' = "idle"
    BY <1>13 DEF ParseFailed, bucket, scan, cached
  <2> QED BY <1>1, <2>1, DatesStay, Ended DEF Found
<1>14. CASE UNCHANGED vars
  <2>1. UNCHANGED bucket /\ UNCHANGED <<written, live, pc, cursor, newest, newestAt, lastKey, lastAt, lastFind, asked>>
    BY <1>14 DEF vars, bucket
  <2>2. Dated' /\ Truth' = Truth
    BY <1>1, <2>1, DatesStay
  <2> QED BY <1>1, <2>1, <2>2 DEF Found, Asked, Scanned
<1> QED BY <1>3, <1>4, <1>5, <1>6, <1>7, <1>8, <1>9, <1>10, <1>11, <1>12, <1>13, <1>14
        DEF Next, Step

LEMMA Reached == Spec => []Inv
<1> QED BY InitInv, NextInv, PTL DEF Spec

-----------------------------------------------------------------------------
(* The theorems.                                                           *)

\* Every variable of the source and of the bucket keeps its type.
THEOREM TypeCorrect == Spec => []TypeOK
<1>1. Inv => TypeOK
  BY DEF Inv
<1> QED BY <1>1, Reached, PTL

\* What is remembered is one report with its own date, also after it expired
\* (prowler.go:43-45).
THEOREM OneReport == Spec => []RememberedIsOneReport
<1>1. Inv => RememberedIsOneReport
  BY DEF Inv, Found, RememberedIsOneReport
<1> QED BY <1>1, Reached, PTL

\* A report that is remembered in place of another is newer than it, although
\* collect asks only whether their keys differ (prowler.go:18-19).
THEOREM NewerOnly == Spec => ReplacedOnlyByNewer
<1>1. Inv /\ [Next]_vars => [lastKey' # lastKey => lastAt' > lastAt]_vars
  <2> SUFFICES ASSUME Inv, Next, lastKey' # lastKey
               PROVE  lastAt' > lastAt
    OBVIOUS
  <2>1. Get
    <3>1. \A k \in Key : ~Upload(k) /\ ~Expire(k)
      BY DEF Upload, Expire, cached
    <3>2. ~Health /\ ~Call /\ ~ListPage /\ ~ListLast
      BY DEF Health, Call, ListPage, ListLast, cached
    <3>3. ~ListSame /\ ~ListNone /\ ~RequestFailed /\ ~ParseFailed
      BY DEF ListSame, ListNone, RequestFailed, ParseFailed, cached
    <3> QED BY <3>1, <3>2, <3>3 DEF Next, Step
  <2>2. TypeOK /\ Dated /\ Found /\ Asked /\ Scanned /\ Report \subseteq Key /\ 0 \notin Key
    BY BucketAssumption DEF Inv, Key
  <2>3. /\ pc = "getting" /\ lastAt' = newestAt
        /\ newestAt >= asked /\ lastAt <= asked /\ newest # 0 /\ newest # lastKey
    BY <2>1, <2>2 DEF Get, Remember, Asked, Scanned
  <2>4. newestAt \in Nat /\ asked \in Nat /\ lastAt \in Nat /\ newest \in Report /\ lastKey \in Report \cup {0}
    BY <2>2, <2>3 DEF TypeOK
  <2>5. newestAt # lastAt
    BY <2>2, <2>3, <2>4 DEF Found, Dated
  <2> QED BY <2>3, <2>4, <2>5
<1> QED BY <1>1, Reached, PTL DEF Spec, ReplacedOnlyByNewer

\* Every step of the source is a step of the promise, or none: an upload of a
\* report is a change, a call asks, the newest report remembered or got is an
\* answer no older than what there was when it was asked for, and the rest of
\* what ends a collect fails (main.go:117-124).
LEMMA StepIsCollects ==
    Inv /\ [Next]_vars => [Contract!Next]_Contract!collectVars
<1> SUFFICES ASSUME Inv, [Next]_vars
             PROVE  Contract!Next \/ UNCHANGED Contract!collectVars
  OBVIOUS
<1>1. TypeOK /\ Dated /\ Found /\ Asked /\ Scanned
  BY DEF Inv
<1>2. Truth \in 0 .. MaxKey /\ \A k \in Report : written[k] <= Truth
  BY <1>1, TruthIsNewest, NowAndNewest DEF TypeOK, Dates
<1>3. UNCHANGED written => Truth' = Truth
  BY NothingWritten
<1>4. ASSUME NEW k \in Key, Upload(k)
      PROVE  Contract!Next \/ UNCHANGED Contract!collectVars
  <2>1. UNCHANGED <<pc, asked, answer, outcome>>
    BY <1>4 DEF Upload
  <2>2. /\ Clock \in 0 .. MaxKey /\ Clock < MaxKey /\ Truth <= Clock
        /\ Truth' = IF k \in Report THEN Clock + 1 ELSE Truth
    BY <1>1, <1>4, UploadDates
  <2>3. CASE k \in Report
    <3>1. Truth' \in 1 .. MaxKey /\ Truth' > Truth
      BY <1>2, <2>2, <2>3, BucketAssumption
    <3>2. Contract!Change
      BY <2>1, <3>1 DEF Contract!Change
    <3> QED BY <3>2 DEF Contract!Next
  <2>4. CASE k \notin Report
    BY <2>1, <2>2, <2>4 DEF Contract!collectVars
  <2> QED BY <2>3, <2>4
<1>5. ASSUME NEW k \in Key, Expire(k)
      PROVE  UNCHANGED Contract!collectVars
  BY <1>3, <1>5 DEF Expire, Contract!collectVars
<1>6. CASE Health
  BY <1>3, <1>6 DEF Health, bucket, Contract!collectVars
<1>7. CASE Call
  <2>1. Contract!Ask
    BY <1>3, <1>7 DEF Call, bucket, Contract!Ask
  <2> QED BY <2>1 DEF Contract!Next
<1>8. CASE ListPage
  BY <1>3, <1>8 DEF ListPage, bucket, Contract!collectVars
<1>9. CASE ListLast
  BY <1>3, <1>9 DEF ListLast, bucket, Contract!collectVars
<1>10. CASE ListSame
  <2>1. /\ pc = "listing" /\ ReadPage /\ ~IsTruncated /\ newest' # 0 /\ newest' = lastKey
        /\ UNCHANGED <<bucket, cached>> /\ UNCHANGED <<written, asked, lastKey, lastAt>>
        /\ pc' = "idle" /\ answer' = lastAt /\ outcome' = "ok"
    BY <1>10 DEF ListSame, SameReport, bucket, cached
  <2>2. newestAt' >= asked
    BY <1>1, <2>1, ScanEnds
  <2>3. Found'
    BY <1>1, <2>1, FoundOfPage
  <2>4. newestAt' = lastAt
    BY <1>1, <2>1, <2>3 DEF Found
  <2>5. lastKey \in Report /\ lastAt \in 0 .. MaxKey /\ lastAt # 0 /\ lastAt = written[lastKey]
    BY <1>1, <2>1 DEF TypeOK, Found
  <2>6. lastAt \in 1 .. MaxKey /\ asked <= lastAt /\ lastAt <= Truth
    BY <1>2, <2>2, <2>4, <2>5
  <2>7. Contract!Answer
    BY <1>3, <2>1, <2>6 DEF Contract!Answer
  <2> QED BY <2>7 DEF Contract!Next
<1>11. CASE ListNone
  <2>1. Contract!Fail
    BY <1>3, <1>11 DEF ListNone, bucket, Contract!Fail
  <2> QED BY <2>1 DEF Contract!Next
<1>12. CASE Get
  <2>1. /\ pc = "getting" /\ UNCHANGED <<written, asked>>
        /\ pc' = "idle" /\ answer' = newestAt /\ outcome' = "ok"
    BY <1>12 DEF Get, bucket
  <2>2. newest \in Report /\ newestAt \in 0 .. MaxKey /\ newestAt # 0 /\ newestAt = written[newest] /\ asked <= newestAt
    BY <1>1, <2>1 DEF TypeOK, Found, Scanned
  <2>3. newestAt \in 1 .. MaxKey /\ newestAt <= Truth
    BY <1>2, <2>2
  <2>4. Contract!Answer
    BY <1>3, <2>1, <2>2, <2>3 DEF Contract!Answer
  <2> QED BY <2>4 DEF Contract!Next
<1>13. CASE RequestFailed
  <2>1. Contract!Fail
    BY <1>3, <1>13 DEF RequestFailed, bucket, Contract!Fail
  <2> QED BY <2>1 DEF Contract!Next
<1>14. CASE ParseFailed
  <2>1. Contract!Fail
    BY <1>3, <1>14 DEF ParseFailed, bucket, Contract!Fail
  <2> QED BY <2>1 DEF Contract!Next
<1>15. CASE UNCHANGED vars
  BY <1>3, <1>15 DEF vars, Contract!collectVars
<1> QED BY <1>4, <1>5, <1>6, <1>7, <1>8, <1>9, <1>10, <1>11, <1>12, <1>13, <1>14, <1>15
        DEF Next, Step

\* The paging, caching source keeps the promise poll() takes from a collect:
\* an answer describes the upstream at an instant since the call.
THEOREM CollectImplemented == Spec => ImplementsCollect
<1>1. Init => Contract!Init
  <2> SUFFICES ASSUME Init PROVE Contract!Init
    OBVIOUS
  <2>1. written \in Dates /\ \A k \in Report : written[k] = 0
    BY BucketAssumption DEF Init, Dates
  <2>2. Truth = 0
    BY <2>1, TruthIs, NowAndNewest
  <2> QED BY <2>2 DEF Init, Contract!Init
<1> QED BY <1>1, Reached, StepIsCollects, PTL DEF Spec, ImplementsCollect, Contract!Spec

\* Each page of a listing moves the cursor on, also when keys are uploaded and
\* expired behind it: a listing ends (prowler.go:106-130), which is the part of
\* EventuallyNewest that fairness does not give.
THEOREM ListingAdvances ==
    Spec => [][ListPage => cursor' \in Key /\ cursor' > cursor]_vars
<1>1. Inv /\ [Next]_vars => [ListPage => cursor' \in Key /\ cursor' > cursor]_vars
  <2> SUFFICES ASSUME Inv, ListPage
               PROVE  cursor' \in Key /\ cursor' > cursor
    OBVIOUS
  <2>1. TypeOK /\ IsTruncated /\ cursor' = Max(Page)
    BY DEF Inv, ListPage
  <2>2. Max(Page) \in Listed /\ Listed \subseteq Key
    BY <2>1, CursorAdvances, PageIsFirst
  <2> QED BY <2>1, <2>2 DEF Listed
<1> QED BY <1>1, Reached, PTL DEF Spec
=============================================================================
