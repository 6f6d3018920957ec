-------------------------- MODULE ImagePublishing ---------------------------
(***************************************************************************)
(* .github/workflows: how the tags of one image move.  A push that changes *)
(* version.txt on a branch, or a re-run of its workflow, runs              *)
(* _build-image.yml and then the image's smoke test; a push to main runs   *)
(* _promote-image.yml.  Runs of one ref cancel each other, runs of two     *)
(* branches overlap.                                                       *)
(*                                                                         *)
(* Every build makes a new digest; digest d is the d-th that was pushed.   *)
(* :latest and :sha-<short> are left out: nothing here reads them.         *)
(***************************************************************************)
EXTENDS Integers, Sequences

CONSTANTS
    Branch, Commit, Version,
    BranchesOf, VersionOf,  \* a commit's branches, and what its version.txt says
    NoVersion,              \* no promotion is running
    MaxBuilds               \* bound: images built

ASSUME PublishingAssumption ==
    /\ Commit # {}
    /\ BranchesOf \in [Commit -> SUBSET Branch] /\ VersionOf \in [Commit -> Version]
    /\ NoVersion \notin Version
    /\ MaxBuilds \in Nat

Steps == {"none", "check", "build", "sign", "smoke", "untested", "passed", "failed"}

VARIABLES
    built,          \* built[d]: the commit that digest d's revision label names
    tag,            \* tag[v]: the digest :<v> points at, 0 for none
    stable,         \* the digest :stable points at, 0 for none
    signed,         \* the digests cosign has signed
    smoked,         \* the digests that have passed the smoke test
    run,            \* run[b]: branch b's last run, its step and the digest it pushed
    promoting,      \* the version the promotion that is running has read
    green,          \* history: the digests pushed by a run that then passed
    excused         \* history: branches whose check said nothing of the tag they push

vars == <<built, tag, stable, signed, smoked, run, promoting, green, excused>>

Digest   == 0 .. Len(built)
Idle     == [commit |-> CHOOSE c \in Commit : TRUE, step |-> "none", digest |-> 0]
version(b) == VersionOf[run[b].commit]

Init ==
    /\ built = <<>> /\ tag = [v \in Version |-> 0] /\ stable = 0
    /\ signed = {} /\ smoked = {}
    /\ run = [b \in Branch |-> Idle]
    /\ promoting = NoVersion
    /\ green = {} /\ excused = {}

-----------------------------------------------------------------------------
(* image-<name>-build.yml.                                                 *)

At(b, step) == run[b].step = step
Goto(b, step) == run' = [run EXCEPT ![b].step = step]

\* A push or a re-run; cancel-in-progress ends what the branch was running.
Start(b, c) ==
    /\ b \in BranchesOf[c]
    /\ Len(built) < MaxBuilds
    /\ run' = [run EXCEPT ![b] = [commit |-> c, step |-> "check", digest |-> 0]]
    /\ excused' = excused \ {b}
    /\ UNCHANGED <<built, tag, stable, signed, smoked, promoting, green>>

\* Mutant of Refuses: a tag that exists is taken for a re-run.
RefusesNothing(b, found) == FALSE

\* The tag exists and its label names another commit.
Refuses(b, found) == found # 0 /\ built[found] # run[b].commit

\* "Refuse to publish over a different commit's tag".  An inspection that fails,
\* for whatever reason, says that there is no tag.
Check(b) ==
    /\ At(b, "check")
    /\ \E found \in {tag[version(b)], 0} :
          /\ Goto(b, IF Refuses(b, found) THEN "failed" ELSE "build")
          /\ excused' = IF found = tag[version(b)] THEN excused ELSE excused \cup {b}
    /\ UNCHANGED <<built, tag, stable, signed, smoked, promoting, green>>

\* Mutant of Push: the digest to sign is looked up by the tag, before the push.
PushLookedUp(b) ==
    /\ At(b, "build")
    /\ built' = Append(built, run[b].commit)
    /\ tag' = [tag EXCEPT ![version(b)] = Len(built')]
    /\ run' = [run EXCEPT ![b].step = "sign", ![b].digest = tag[version(b)]]
    /\ excused' = excused \cup {o \in Branch \ {b} : At(o, "build") /\ version(o) = version(b)}
    /\ UNCHANGED <<stable, signed, smoked, promoting, green>>

\* "Build and push": a new digest, whatever the tag points at by now.
Push(b) ==
    /\ At(b, "build")
    /\ built' = Append(built, run[b].commit)
    /\ tag' = [tag EXCEPT ![version(b)] = Len(built')]
    /\ run' = [run EXCEPT ![b].step = "sign", ![b].digest = Len(built')]
    /\ excused' = excused \cup {o \in Branch \ {b} : At(o, "build") /\ version(o) = version(b)}
    /\ UNCHANGED <<stable, signed, smoked, promoting, green>>

\* "Sign the image": by digest.
Sign(b) ==
    /\ At(b, "sign")
    /\ signed' = signed \cup {run[b].digest}
    /\ Goto(b, "smoke")
    /\ UNCHANGED <<built, tag, stable, smoked, promoting, green, excused>>

\* Mutant of SmokeTest: the image is pulled by :latest.
SmokeTestLatest(b) ==
    /\ At(b, "smoke")
    /\ smoked' = smoked \cup {Len(built)}
    /\ green' = green \cup {run[b].digest}
    /\ Goto(b, "passed")
    /\ UNCHANGED <<built, tag, stable, signed, promoting, excused>>

\* smoke-test: the image is pulled by its version's tag, which another run may have
\* moved since this run pushed it.
SmokeTest(b) ==
    /\ At(b, "smoke")
    /\ smoked' = smoked \cup {tag[version(b)]}
    /\ green' = green \cup {run[b].digest}
    /\ Goto(b, "passed")
    /\ UNCHANGED <<built, tag, stable, signed, promoting, excused>>

\* A step fails, or someone cancels the run; an image that is built stays built.
Fail(b) ==
    /\ run[b].step \in {"check", "build", "sign", "smoke"}
    /\ Goto(b, IF At(b, "smoke") THEN "untested" ELSE "failed")
    /\ UNCHANGED <<built, tag, stable, signed, smoked, promoting, green, excused>>

\* "Re-run failed jobs" after the smoke test has failed: the build job is not run.
Resume(b) ==
    /\ At(b, "untested")
    /\ Goto(b, "smoke")
    /\ UNCHANGED <<built, tag, stable, signed, smoked, promoting, green, excused>>

(* image-<name>-promote.yml.                                               *)

\* A push to main that changes version.txt; it cancels a promotion under way.
Merge(v) ==
    /\ promoting' = v
    /\ UNCHANGED <<built, tag, stable, signed, smoked, run, green, excused>>

\* "Move :stable onto the published version tag", which fails where there is none.
Promote ==
    /\ promoting # NoVersion
    /\ stable' = IF tag[promoting] # 0 THEN tag[promoting] ELSE stable
    /\ promoting' = NoVersion
    /\ UNCHANGED <<built, tag, signed, smoked, run, green, excused>>

-----------------------------------------------------------------------------
Next ==
    \/ \E b \in Branch, c \in Commit : Start(b, c)
    \/ \E b \in Branch : Check(b) \/ Push(b) \/ Sign(b) \/ SmokeTest(b)
                      \/ Fail(b) \/ Resume(b)
    \/ \E v \in Version : Merge(v)
    \/ Promote

Spec == Init /\ [][Next]_vars

-----------------------------------------------------------------------------
\* Every variable keeps its type; a run past its push has the digest it pushed, and
\* its version a tag.
TypeOK ==
    /\ built \in Seq(Commit)
    /\ tag \in [Version -> Digest] /\ stable \in Digest
    /\ signed \subseteq Digest \ {0} /\ smoked \subseteq Digest \ {0}
    /\ run \in [Branch -> [commit : Commit, step : Steps, digest : Digest]]
    /\ promoting \in Version \cup {NoVersion}
    /\ green \subseteq Digest \ {0} /\ excused \subseteq Branch
    /\ \A b \in Branch :
          run[b].step \in {"sign", "smoke", "untested", "passed"} =>
             /\ run[b].digest # 0 /\ built[run[b].digest] = run[b].commit
             /\ tag[version(b)] # 0

\* A version tag goes from one commit's image to another's (_build-image.yml:58-82)
\* only by a run that could not have seen it: the registry did not answer its check,
\* or another branch pushed the same version between its check and its push.
VersionCrossesUnseen ==
    [][\A v \in Version :
          tag[v] # 0 /\ built[tag[v]] # built'[tag'[v]]
              => \E b \in excused : At(b, "build") /\ run'[b].digest = tag'[v]]_vars

\* A digest whose own run has passed is, if promotion moves :stable onto it, signed
\* and smoke-tested, whatever else was built, re-run, cancelled or promoted
\* meanwhile.  The run's passing alone does not say so: it tested what the tag
\* pointed at by then.
StableIsTested ==
    [][stable' # stable /\ stable' \in green => stable' \in signed \cap smoked]_vars
=============================================================================
