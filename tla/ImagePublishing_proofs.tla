----------------------- MODULE ImagePublishing_proofs ------------------------
(***************************************************************************)
(* For every set of branches, commits and versions and any number of       *)
(* builds: when a version tag can change hands, and what :stable can be.   *)
(*                                                                         *)
(* Neither property is an invariant.  What carries them from step to step  *)
(* is Checked (a run about to push that has no excuse pushes onto no other *)
(* commit's image) and Tested (a green digest is signed, and smoke-tested  *)
(* if a tag still points at it).  A run tests what its tag points at: that *)
(* no tag but its own version's can point at its digest is Labelled, and   *)
(* that no tag ever comes back to a digest is what pushes do.              *)
(***************************************************************************)
EXTENDS ImagePublishing, SequenceTheorems, TLAPS

Checked ==
    \A b \in Branch :
        At(b, "build") /\ b \notin excused
            => tag[version(b)] = 0 \/ built[tag[version(b)]] = run[b].commit

\* A version's tag points at an image of a commit of that version.
Labelled == \A v \in Version : tag[v] # 0 => VersionOf[built[tag[v]]] = v

Tested ==
    /\ \A d \in green : d \in signed /\ \A v \in Version : tag[v] = d => d \in smoked
    /\ \A b \in Branch : run[b].step \in {"smoke", "untested", "passed"}
                            => run[b].digest \in signed

Inv == TypeOK /\ Checked /\ Labelled /\ Tested

-----------------------------------------------------------------------------
\* A digest more, and the digests there were keep their commits.
LEMMA OneMoreBuilt ==
    ASSUME NEW c \in Commit, built \in Seq(Commit), built' = Append(built, c)
    PROVE  /\ built' \in Seq(Commit)
           /\ Len(built) \in Nat
           /\ Len(built') = Len(built) + 1
           /\ built'[Len(built')] = c
           /\ \A d \in 1 .. Len(built) : built'[d] = built[d]
           /\ Digest \subseteq Digest'
           /\ Len(built') \in Digest' \ {0}
BY AppendProperties, LenProperties DEF Digest

\* The version of a branch's run.
LEMMA VersionType ==
    ASSUME TypeOK, NEW b \in Branch
    PROVE  version(b) \in Version
BY PublishingAssumption DEF TypeOK, version

LEMMA InvInit == Init => Inv
<1> SUFFICES ASSUME Init PROVE Inv
  OBVIOUS
<1>1. Idle \in [commit : Commit, step : Steps, digest : {0}] /\ Idle.step = "none"
  BY PublishingAssumption DEF Idle, Steps
<1>2. 0 \in Digest /\ built \in Seq(Commit)
  BY EmptySeq, LenProperties DEF Init, Digest
<1>3. TypeOK
  BY <1>1, <1>2 DEF Init, TypeOK
<1> QED
  BY <1>1, <1>3 DEF Init, Inv, Checked, Labelled, Tested, At

\* A run that starts is checked before it builds, and has pushed nothing.
LEMMA InvStart ==
    ASSUME Inv, NEW b \in Branch, NEW c \in Commit, Start(b, c)
    PROVE  Inv'
<1>1. 0 \in Digest
  BY LenProperties DEF Inv, TypeOK, Digest
<1>2. TypeOK'
  BY <1>1 DEF Inv, TypeOK, Start, Steps, Digest, version
<1>3. Checked'
  BY DEF Inv, TypeOK, Checked, Start, At, version
<1>4. Labelled' /\ Tested'
  BY DEF Inv, TypeOK, Labelled, Tested, Start
<1> QED
  BY <1>2, <1>3, <1>4 DEF Inv

\* What the check lets pass either fits the tag or is excused.
LEMMA InvCheck ==
    ASSUME Inv, NEW b \in Branch, Check(b)
    PROVE  Inv'
<1> DEFINE v == version(b)
<1>1. PICK found \in {tag[v], 0} :
         /\ Goto(b, IF Refuses(b, found) THEN "failed" ELSE "build")
         /\ excused' = IF found = tag[v] THEN excused ELSE excused \cup {b}
  BY DEF Check
<1>2. v \in Version
  BY VersionType DEF Inv
<1>3. TypeOK'
  <2>1. PICK step \in {"failed", "build"} : run' = [run EXCEPT ![b].step = step]
    BY <1>1 DEF Goto
  <2>2. excused' \subseteq Branch
    BY <1>1 DEF Inv, TypeOK
  <2>3. UNCHANGED <<built, tag, stable, signed, smoked, promoting, green>>
    BY DEF Check
  <2>4. run' \in [Branch -> [commit : Commit, step : Steps, digest : Digest]]
    BY <2>1 DEF Inv, TypeOK, Steps
  <2>5. \A o \in Branch : run'[o].step \in {"sign", "smoke", "untested", "passed"}
                            => run'[o] = run[o]
    BY <2>1 DEF Inv, TypeOK
  <2> QED
    BY <2>2, <2>3, <2>4, <2>5 DEF Inv, TypeOK, Digest, version
<1>4. ASSUME NEW o \in Branch, At(o, "build")', o \notin excused'
      PROVE  tag'[version(o)'] = 0 \/ built'[tag'[version(o)']] = run'[o].commit
  <2>1. run'[o].commit = run[o].commit /\ version(o)' = version(o)
    BY <1>1 DEF Inv, TypeOK, Goto, version
  <2>2. tag' = tag /\ built' = built
    BY DEF Check
  <2>3. CASE o = b
    <3>1. found = tag[v] /\ ~Refuses(b, found)
      BY <1>1, <1>4, <2>3 DEF Inv, TypeOK, Goto, At
    <3> QED
      BY <2>1, <2>2, <2>3, <3>1 DEF Refuses
  <2>4. CASE o # b
    <3>1. At(o, "build") /\ o \notin excused
      BY <1>1, <1>4, <2>4 DEF Inv, TypeOK, Goto, At
    <3> QED
      BY <2>1, <2>2, <3>1 DEF Inv, Checked
  <2> QED
    BY <2>3, <2>4
<1>5. Labelled' /\ Tested'
  BY <1>1 DEF Inv, TypeOK, Labelled, Tested, Check, Goto
<1> QED
  BY <1>3, <1>4, <1>5 DEF Inv, Checked

\* A push gives the tag a digest of the run's commit and excuses the other runs that
\* are about to push the same tag.
LEMMA InvPush ==
    ASSUME Inv, NEW b \in Branch, Push(b)
    PROVE  Inv'
<1> DEFINE v == version(b)
           c == run[b].commit
<1>1. v \in Version /\ c \in Commit
  BY VersionType DEF Inv, TypeOK
<1>2. /\ built' \in Seq(Commit)
      /\ Len(built) \in Nat
      /\ Len(built') = Len(built) + 1
      /\ built'[Len(built')] = c
      /\ \A d \in 1 .. Len(built) : built'[d] = built[d]
      /\ Digest \subseteq Digest'
      /\ Len(built') \in Digest' \ {0}
  BY <1>1, OneMoreBuilt DEF Inv, TypeOK, Push
<1>3. \A d \in Digest \ {0} : built'[d] = built[d]
  BY <1>2 DEF Digest
<1>4. TypeOK'
  <2>1. tag' \in [Version -> Digest'] /\ stable' \in Digest'
    BY <1>1, <1>2 DEF Inv, TypeOK, Push
  <2>2. signed' \subseteq Digest' \ {0} /\ smoked' \subseteq Digest' \ {0}
    BY <1>2 DEF Inv, TypeOK, Push
  <2>3. run' \in [Branch -> [commit : Commit, step : Steps, digest : Digest']]
    <3>1. [run[b] EXCEPT !.step = "sign", !.digest = Len(built')]
            \in [commit : Commit, step : Steps, digest : Digest']
      <4>1. run[b] \in [commit : Commit, step : Steps, digest : Digest]
        BY DEF Inv, TypeOK
      <4>2. "sign" \in Steps /\ Len(built') \in Digest'
        BY <1>2 DEF Steps
      <4> QED
        BY <4>1, <4>2
    <3>2. \A o \in Branch : run[o] \in [commit : Commit, step : Steps, digest : Digest']
      BY <1>2 DEF Inv, TypeOK
    <3> QED
      BY <3>1, <3>2 DEF Inv, TypeOK, Push
  <2>4. promoting' \in Version \cup {NoVersion} /\ green' \subseteq Digest' \ {0}
        /\ excused' \subseteq Branch
    BY <1>2 DEF Inv, TypeOK, Push
  <2>5. ASSUME NEW o \in Branch, run'[o].step \in {"sign", "smoke", "untested", "passed"}
        PROVE  /\ run'[o].digest # 0 /\ built'[run'[o].digest] = run'[o].commit
               /\ tag'[version(o)'] # 0
    <3>1. CASE o = b
      <4>1. run'[o].digest = Len(built') /\ run'[o].commit = c
        BY <3>1 DEF Inv, TypeOK, Push
      <4>2. version(o)' = v /\ tag'[v] = Len(built')
        BY <3>1, <4>1, <1>1 DEF Inv, TypeOK, Push, version
      <4> QED
        BY <4>1, <4>2, <1>2
    <3>2. CASE o # b
      <4>1. run'[o] = run[o]
        BY <3>2 DEF Inv, TypeOK, Push
      <4>2. version(o)' = version(o) /\ version(o) \in Version
        BY <4>1, VersionType DEF Inv, version
      <4>3. \A u \in Version : tag[u] # 0 => tag'[u] # 0
        BY <1>2 DEF Inv, TypeOK, Push
      <4> QED
        BY <4>1, <4>2, <4>3, <2>5, <1>3 DEF Inv, TypeOK
    <3> QED
      BY <3>1, <3>2
  <2> QED
    BY <1>2, <2>1, <2>2, <2>3, <2>4, <2>5 DEF TypeOK
<1>5. ASSUME NEW o \in Branch, At(o, "build")', o \notin excused'
      PROVE  tag'[version(o)'] = 0 \/ built'[tag'[version(o)']] = run'[o].commit
  <2>1. o # b
    BY <1>5 DEF Inv, TypeOK, Push, At
  <2>2. run'[o] = run[o]
    BY <2>1 DEF Inv, TypeOK, Push
  <2>3. version(o)' = version(o) /\ At(o, "build") /\ o \notin excused
    BY <2>2, <1>5 DEF version, At, Push
  <2>4. version(o) # v /\ version(o) \in Version
    BY <2>1, <2>3, <1>5, VersionType DEF Inv, Push
  <2>5. tag'[version(o)] = tag[version(o)] /\ tag[version(o)] \in Digest
    BY <2>4 DEF Inv, TypeOK, Push
  <2> QED
    BY <2>2, <2>3, <2>5, <1>3 DEF Inv, Checked
<1>7. ASSUME NEW u \in Version
      PROVE  \/ u = v /\ tag'[u] = Len(built')
             \/ u # v /\ tag'[u] = tag[u] /\ tag[u] \in Digest
  BY <1>1 DEF Inv, TypeOK, Push
<1>8. Labelled'
  <2> SUFFICES ASSUME NEW u \in Version, tag'[u] # 0
               PROVE  VersionOf[built'[tag'[u]]] = u
    BY DEF Labelled
  <2>1. CASE u = v /\ tag'[u] = Len(built')
    BY <1>2, <2>1 DEF version
  <2>2. CASE tag'[u] = tag[u] /\ tag[u] \in Digest
    BY <1>3, <2>2 DEF Inv, Labelled
  <2> QED
    BY <1>7, <2>1, <2>2
<1>6. Tested'
  <2>1. \A d \in green' : d \in signed' /\ \A u \in Version : tag'[u] = d => d \in smoked'
    <3> SUFFICES ASSUME NEW d \in green'
                 PROVE  d \in signed' /\ \A u \in Version : tag'[u] = d => d \in smoked'
      OBVIOUS
    <3>1. d \in green /\ signed' = signed /\ smoked' = smoked
      BY DEF Push
    <3>2. d # Len(built')
      BY <1>2, <3>1 DEF Inv, TypeOK, Digest
    <3>3. \A u \in Version : tag'[u] = d => tag[u] = d
      BY <1>7, <3>2
    <3> QED
      BY <3>1, <3>3 DEF Inv, Tested
  <2>2. \A o \in Branch : run'[o].step \in {"smoke", "untested", "passed"} => run'[o] = run[o]
    <3>1. run'[b].step = "sign" /\ \A o \in Branch \ {b} : run'[o] = run[o]
      BY DEF Inv, TypeOK, Push
    <3> QED
      BY <3>1
  <2>3. signed' = signed
    BY DEF Push
  <2> QED
    BY <2>1, <2>2, <2>3 DEF Inv, Tested
<1> QED
  BY <1>4, <1>5, <1>6, <1>8 DEF Inv, Checked

\* Signing and testing.
LEMMA InvFinish ==
    ASSUME Inv, NEW b \in Branch, Sign(b) \/ SmokeTest(b) \/ Fail(b) \/ Resume(b)
    PROVE  Inv'
<1>1. version(b) \in Version /\ run[b].digest \in Digest
  BY VersionType DEF Inv, TypeOK
<1>2. ASSUME NEW step \in Steps \ {"check", "build", "sign"}, Goto(b, step),
             UNCHANGED <<built, tag, stable, promoting, excused>>,
             signed \subseteq signed', signed' \subseteq Digest \ {0},
             smoked \subseteq smoked', smoked' \subseteq Digest \ {0},
             green \subseteq green', green' \subseteq Digest \ {0},
             \A d \in green' \ green :
                 d \in signed' /\ \A v \in Version : tag[v] = d => d \in smoked',
             step # "failed" => /\ run[b].digest \in signed'
                                /\ run[b].step \in {"sign", "smoke", "untested", "passed"}
      PROVE  Inv'
  <2>1. TypeOK'
    BY <1>2 DEF Inv, TypeOK, Goto, Digest, Steps, version
  <2>2. Checked'
    BY <1>2 DEF Inv, TypeOK, Checked, Goto, At, version
  <2>3. Tested'
    <3>1. \A d \in green' : d \in signed' /\ \A v \in Version : tag'[v] = d => d \in smoked'
      BY <1>2 DEF Inv, Tested
    <3>2. \A o \in Branch : run'[o].step \in {"smoke", "untested", "passed"}
                               => run'[o].digest \in signed'
      BY <1>2 DEF Inv, TypeOK, Tested, Goto
    <3> QED
      BY <3>1, <3>2 DEF Tested
  <2>4. Labelled'
    BY <1>2 DEF Inv, Labelled
  <2> QED
    BY <2>1, <2>2, <2>3, <2>4 DEF Inv
<1>3. CASE Sign(b)
  <2>1. run[b].digest # 0
    BY <1>3 DEF Inv, TypeOK, Sign, At
  <2>2. signed' = signed \cup {run[b].digest} /\ Goto(b, "smoke")
        /\ UNCHANGED <<built, tag, stable, smoked, promoting, green, excused>>
    BY <1>3 DEF Sign
  <2>3. signed \subseteq Digest \ {0} /\ smoked \subseteq Digest \ {0} /\ green \subseteq Digest \ {0}
    BY DEF Inv, TypeOK
  <2> QED
    BY <1>1, <1>2, <1>3, <2>1, <2>2, <2>3 DEF Sign, At, Steps
<1>4. CASE SmokeTest(b)
  <2>1. /\ tag[version(b)] \in Digest \ {0}
        /\ run[b].digest \in signed /\ run[b].digest # 0 /\ run[b].step = "smoke"
        /\ built[run[b].digest] = run[b].commit
    BY <1>1, <1>4 DEF Inv, TypeOK, Tested, SmokeTest, At
  <2>2. signed \subseteq Digest \ {0} /\ smoked \subseteq Digest \ {0} /\ green \subseteq Digest \ {0}
    BY DEF Inv, TypeOK
  <2>3. smoked' = smoked \cup {tag[version(b)]} /\ green' = green \cup {run[b].digest}
        /\ signed' = signed
    BY <1>4 DEF SmokeTest
  <2>4. \A v \in Version : tag[v] = run[b].digest => v = version(b)
    BY <2>1 DEF Inv, Labelled, version
  <2>5. \A d \in green' \ green :
           d \in signed' /\ \A v \in Version : tag[v] = d => d \in smoked'
    BY <2>1, <2>3, <2>4
  <2> QED
    BY <1>1, <1>2, <1>4, <2>1, <2>2, <2>3, <2>5 DEF SmokeTest, Steps
<1>5. CASE Fail(b)
  BY <1>2, <1>5 DEF Inv, TypeOK, Tested, Fail, At, Steps
<1>6. CASE Resume(b)
  BY <1>2, <1>6 DEF Inv, TypeOK, Tested, Resume, At, Steps
<1> QED
  BY <1>3, <1>4, <1>5, <1>6

LEMMA InvNext == Inv /\ [Next]_vars => Inv'
<1> SUFFICES ASSUME Inv, [Next]_vars PROVE Inv'
  OBVIOUS
<1>1. CASE \E b \in Branch, c \in Commit : Start(b, c)
  BY <1>1, InvStart
<1>2. CASE \E b \in Branch : Check(b)
  BY <1>2, InvCheck
<1>3. CASE \E b \in Branch : Push(b)
  BY <1>3, InvPush
<1>4. CASE \E b \in Branch : Sign(b) \/ SmokeTest(b) \/ Fail(b) \/ Resume(b)
  BY <1>4, InvFinish
<1>5. CASE (\E v \in Version : Merge(v)) \/ Promote \/ UNCHANGED vars
  <2>1. /\ UNCHANGED <<built, tag, signed, smoked, run, green, excused>>
        /\ stable' \in Digest /\ promoting' \in Version \cup {NoVersion}
    BY <1>5 DEF Inv, TypeOK, Merge, Promote, vars
  <2>2. TypeOK'
    BY <2>1 DEF Inv, TypeOK, Digest, version
  <2> QED
    BY <2>1, <2>2 DEF Inv, Checked, Labelled, Tested, At, version
<1> QED
  BY <1>1, <1>2, <1>3, <1>4, <1>5 DEF Next

LEMMA Invariance == Spec => []Inv
<1> QED
  BY InvInit, InvNext, PTL DEF Spec

-----------------------------------------------------------------------------
\* Every variable keeps its type, whatever the branches do.
THEOREM PublishingTypes == Spec => []TypeOK
<1>1. Inv => TypeOK
  BY DEF Inv
<1> QED
  BY <1>1, Invariance, PTL

\* A step that moves a version's tag is the push of a branch that builds it.
LEMMA TagMovedByPush ==
    ASSUME Inv, [Next]_vars, NEW v \in Version, tag'[v] # tag[v]
    PROVE  \E b \in Branch : Push(b) /\ version(b) = v
<1>1. PICK b \in Branch : Push(b)
  BY DEF Next, vars, Start, Check, Sign, SmokeTest, Fail, Resume, Merge, Promote
<1>2. version(b) = v
  BY <1>1 DEF Inv, TypeOK, Push
<1> QED
  BY <1>1, <1>2

\* The digests there were keep their commits.
LEMMA BuiltGrows ==
    ASSUME Inv, [Next]_vars, NEW d \in Digest \ {0}
    PROVE  built'[d] = built[d]
<1>1. CASE \E b \in Branch : Push(b)
  <2>1. PICK b \in Branch : Push(b)
    BY <1>1
  <2>2. run[b].commit \in Commit /\ built \in Seq(Commit)
    BY DEF Inv, TypeOK
  <2> QED
    BY <2>1, <2>2, OneMoreBuilt DEF Push, Digest
<1>2. CASE ~ \E b \in Branch : Push(b)
  BY <1>2 DEF Next, vars, Start, Check, Sign, SmokeTest, Fail, Resume, Merge, Promote
<1> QED
  BY <1>1, <1>2

\* A version tag that goes from one commit's image to another's is pushed by a run
\* whose check could not have seen the other's.
THEOREM CrossedUnseen == Spec => VersionCrossesUnseen
<1>1. ASSUME Inv, [Next]_vars, NEW v \in Version,
             tag[v] # 0, built[tag[v]] # built'[tag'[v]]
      PROVE  \E b \in excused : At(b, "build") /\ run'[b].digest = tag'[v]
  <2>1. tag[v] \in Digest \ {0}
    BY <1>1 DEF Inv, TypeOK
  <2>2. tag'[v] # tag[v]
    BY <1>1, <2>1, BuiltGrows
  <2>3. PICK b \in Branch : Push(b) /\ version(b) = v
    BY <1>1, <2>2, TagMovedByPush
  <2>4. run[b].commit \in Commit /\ built \in Seq(Commit)
    BY <1>1 DEF Inv, TypeOK
  <2>5. built'[Len(built')] = run[b].commit
    BY <2>3, <2>4, OneMoreBuilt DEF Push
  <2>6. tag'[v] = Len(built') /\ run'[b].digest = Len(built') /\ At(b, "build")
    BY <1>1, <2>3 DEF Inv, TypeOK, Push
  <2>7. b \in excused
    BY <1>1, <2>3, <2>5, <2>6 DEF Inv, Checked
  <2> QED
    BY <2>6, <2>7
<1>2. Inv /\ [Next]_vars =>
         [\A v \in Version :
             tag[v] # 0 /\ built[tag[v]] # built'[tag'[v]]
                 => \E b \in excused : At(b, "build") /\ run'[b].digest = tag'[v]]_vars
  BY <1>1
<1> QED
  BY <1>2, Invariance, PTL DEF Spec, VersionCrossesUnseen

\* A digest whose own run has passed is signed and smoke-tested if it is promoted.
THEOREM PromotedIsTested == Spec => StableIsTested
<1>1. Inv /\ [Next]_vars =>
         [stable' # stable /\ stable' \in green => stable' \in signed \cap smoked]_vars
  <2> SUFFICES ASSUME Inv, [Next]_vars, stable' # stable, stable' \in green
               PROVE  stable' \in signed \cap smoked
    OBVIOUS
  <2>1. Promote
    BY DEF Next, vars, Start, Check, Push, Sign, SmokeTest, Fail, Resume, Merge
  <2>2. stable' = tag[promoting] /\ promoting \in Version
    BY <2>1 DEF Inv, TypeOK, Promote
  <2> QED
    BY <2>2 DEF Inv, Tested
<1> QED
  BY <1>1, Invariance, PTL DEF Spec, StableIsTested
=============================================================================
