---------------------------- MODULE ProwlerSource ----------------------------
(***************************************************************************)
(* images/findings-exporter/prowler.go: prowlerSource.collect, which pages *)
(* through a bucket listing for the newest report, downloads it unless it  *)
(* is the one it already has, and remembers it.  Uploads and the bucket's  *)
(* expiry go on between any two of its requests: a listing is not a        *)
(* snapshot, and the report it chose may be gone when it is asked for.     *)
(*                                                                         *)
(* Objects are numbered in the order of their keys, which need not be the  *)
(* order they are written in.  What a report says is its key.              *)
(***************************************************************************)
EXTENDS Integers, FiniteSets, FiniteSetsExt

CONSTANTS
    MaxKey,     \* bound: the keys are 1 .. MaxKey, each written at most once
    Report,     \* the keys that end in .ocsf.json
    Broken,     \* the reports whose body parseOCSF rejects
    PageSize    \* external: how many keys S3 returns in one page of a listing

Key == 1 .. MaxKey

ASSUME BucketAssumption ==
    /\ MaxKey \in Nat
    /\ Report \subseteq Key /\ Broken \subseteq Report
    /\ PageSize \in Nat \ {0}

VARIABLES
    written,        \* written[k]: the object's LastModified, 0 before it exists
    live,           \* the keys of the objects now in the bucket
    healthy,        \* STS and S3 answer
    pc,             \* "idle", "listing" or "getting"
    cursor,         \* the continuation token: the last key listed, 0 at the start
    newest,         \* newestReport: the best key so far, 0 for ""
    newestAt,       \* and its LastModified
    lastKey, lastAt, lastFind,  \* the report remembered
    asked,          \* history: the newest report's date when collect was called
    answer,         \* history: the date dataTimes() gives after the latest answer
    outcome         \* history: how the latest collect ended

bucket == <<written, live>>
scan   == <<cursor, newest, newestAt>>
cached == <<lastKey, lastAt, lastFind>>
vars   == <<written, live, healthy, pc, cursor, newest, newestAt,
            lastKey, lastAt, lastFind, asked, answer, outcome>>

Clock == Cardinality({k \in Key : written[k] # 0})

\* The date of the newest report ever written.
Truth == Max({written[k] : k \in Report} \cup {0})

-----------------------------------------------------------------------------
Init ==
    /\ written = [k \in Key |-> 0] /\ live = {}
    /\ healthy \in BOOLEAN
    /\ pc = "idle" /\ cursor = 0 /\ newest = 0 /\ newestAt = 0
    /\ lastKey = 0 /\ lastAt = 0 /\ lastFind = 0
    /\ asked = 0 /\ answer = 0 /\ outcome = "none"

(* The bucket.                                                             *)

\* external: prowler.yml writes an object; a key is written once.
Upload(k) ==
    /\ written[k] = 0
    /\ written' = [written EXCEPT ![k] = Clock + 1]
    /\ live' = live \cup {k}
    /\ UNCHANGED <<healthy, pc, scan, cached, asked, answer, outcome>>

\* external: the lifecycle rule expires the oldest object.  It keeps objects for
\* 180 days, a report is written every day and a collect takes five minutes: it
\* never gets to the newest, nor to what was the newest when a collect began.
Expire(k) ==
    /\ k \in live
    /\ written[k] < Truth
    /\ pc # "idle" => written[k] < asked
    /\ \A j \in live : written[k] <= written[j]
    /\ live' = live \ {k}
    /\ UNCHANGED <<written, healthy, pc, scan, cached, asked, answer, outcome>>

Health ==
    /\ healthy' = ~healthy
    /\ UNCHANGED <<bucket, pc, scan, cached, asked, answer, outcome>>

(* collect.                                                                *)

\* creds.get succeeds and newestReport sets out.
Call ==
    /\ pc = "idle"
    /\ pc' = "listing"
    /\ cursor' = 0 /\ newest' = 0 /\ newestAt' = 0
    /\ asked' = Truth
    /\ outcome' = "none"
    /\ UNCHANGED <<bucket, healthy, cached, answer>>

\* external: the live keys after the cursor, and the page S3 makes of them.
Listed == {k \in live : k > cursor}
Page == {k \in Listed : Cardinality({j \in Listed : j < k}) < PageSize}

\* Mutant of IsTruncated: the continuation token is never followed.
FirstPageOnly == FALSE

IsTruncated == Page # Listed

\* Mutant of Later: any object counts as a report.
LaterObject == {k \in Page : written[k] > newestAt}

\* Mutant of Later: each page starts over.
LaterInPage == Page \cap Report

\* The reports of a page that are After the best so far.
Later == {k \in Page \cap Report : written[k] > newestAt}

\* One page is read: the latest report in it becomes the best so far.
ReadPage ==
    IF Later = {}
    THEN UNCHANGED <<newest, newestAt>>
    ELSE \E k \in Later : /\ \A j \in Later : written[j] <= written[k]
                          /\ newest' = k /\ newestAt' = written[k]

\* A page with more to come.
ListPage ==
    /\ pc = "listing" /\ healthy
    /\ IsTruncated
    /\ ReadPage
    /\ cursor' = Max(Page)
    /\ UNCHANGED <<bucket, healthy, pc, cached, asked, answer, outcome>>

\* Mutant of SameReport: the first report ever remembered stays.
AnyReport == lastKey # 0

\* The newest report is the one remembered: key == s.lastKey.
SameReport == newest' = lastKey

\* The last page of a listing with a report that is not the one remembered.
ListLast ==
    /\ pc = "listing" /\ healthy
    /\ ~IsTruncated
    /\ ReadPage
    /\ newest' # 0 /\ ~SameReport
    /\ pc' = "getting"
    /\ UNCHANGED <<bucket, healthy, cursor, cached, asked, answer, outcome>>

\* The last page, and the newest report is the one remembered.
ListSame ==
    /\ pc = "listing" /\ healthy
    /\ ~IsTruncated
    /\ ReadPage
    /\ newest' # 0 /\ SameReport
    /\ pc' = "idle"
    /\ answer' = lastAt
    /\ outcome' = "ok"
    /\ UNCHANGED <<bucket, healthy, cursor, cached, asked>>

\* The last page, and no report in the whole listing: an error.
ListNone ==
    /\ pc = "listing" /\ healthy
    /\ ~IsTruncated
    /\ ReadPage
    /\ newest' = 0
    /\ pc' = "idle"
    /\ outcome' = "err"
    /\ UNCHANGED <<bucket, healthy, cursor, cached, asked, answer>>

\* Mutant of Remember: the date is not kept with the findings.
RememberUndated ==
    /\ lastKey' = newest /\ lastFind' = newest
    /\ UNCHANGED lastAt

\* s.lastKey, s.lastAt, s.lastFind.
Remember == lastKey' = newest /\ lastAt' = newestAt /\ lastFind' = newest

\* The report is downloaded, parsed and remembered.
Get ==
    /\ pc = "getting" /\ healthy
    /\ newest \in live \ Broken
    /\ Remember
    /\ pc' = "idle"
    /\ answer' = newestAt
    /\ outcome' = "ok"
    /\ UNCHANGED <<bucket, healthy, scan, asked>>

\* A request fails.
RequestFailed ==
    /\ pc # "idle"
    /\ ~healthy
    /\ pc' = "idle"
    /\ outcome' = "err"
    /\ UNCHANGED <<bucket, healthy, scan, cached, asked, answer>>

\* The report downloads and does not parse: nothing of it is remembered.
ParseFailed ==
    /\ pc = "getting" /\ healthy
    /\ newest \in live \cap Broken
    /\ pc' = "idle"
    /\ outcome' = "err"
    /\ UNCHANGED <<bucket, healthy, scan, cached, asked, answer>>

-----------------------------------------------------------------------------
Step == Call \/ ListPage \/ ListLast \/ ListSame \/ ListNone \/ Get
        \/ RequestFailed \/ ParseFailed

Next ==
    \/ \E k \in Key : Upload(k) \/ Expire(k)
    \/ Health
    \/ Step

\* poll() calls again and again, and every request ends.
Spec == Init /\ [][Next]_vars /\ WF_vars(Step)

-----------------------------------------------------------------------------
\* Every variable keeps its type.
TypeOK ==
    /\ written \in [Key -> 0 .. MaxKey] /\ live \subseteq Key
    /\ healthy \in BOOLEAN
    /\ pc \in {"idle", "listing", "getting"}
    /\ cursor \in 0 .. MaxKey
    /\ newest \in Report \cup {0} /\ newestAt \in 0 .. MaxKey
    /\ lastKey \in Report \cup {0} /\ lastFind \in Report \cup {0}
    /\ lastAt \in 0 .. MaxKey
    /\ asked \in 0 .. MaxKey /\ answer \in 0 .. MaxKey
    /\ outcome \in {"none", "ok", "err"}

\* The findings remembered, their date and their key are always those of one
\* and the same report, so dataTimes() dates what collect returned, also when
\* the report has expired since (prowler.go:43-45).
RememberedIsOneReport ==
    lastKey # 0 => lastFind = lastKey /\ lastAt = written[lastKey]

\* "It downloads a report only when a newer one has appeared" (prowler.go:18-19),
\* although what is compared is the key and not the date: what is remembered is
\* only ever replaced by something newer.
ReplacedOnlyByNewer == [][lastKey' # lastKey => lastAt' > lastAt]_vars

\* What collect answers is no older than the newest report there was when it
\* was called, whatever was written or expired behind the listing's back.
Contract == INSTANCE Collect WITH MaxTruth <- MaxKey, truth <- Truth, asking <- pc # "idle"
ImplementsCollect == Contract!Spec

\* The newest report, if there is one, can be read.
NewestReadable == \A k \in Broken : written[k] = Truth => written[k] = 0

\* Once the bucket's service stays up and the newest report is a readable one,
\* it ends up, and stays, the one remembered.
EventuallyNewest == <>[](healthy /\ NewestReadable) => <>[](lastAt = Truth)
=============================================================================
