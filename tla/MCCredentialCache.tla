-------------------------- MODULE MCCredentialCache --------------------------
(***************************************************************************)
(* The caches with the code's own numbers, in minutes.                     *)
(***************************************************************************)
EXTENDS CredentialCache

\* FINDINGS_GITHUB_EVERY and FINDINGS_PROWLER_EVERY (main.go:76, 93).
MCInterval == [k \in Kind |-> IF k = "githubApp" THEN 15 ELSE 60]

\* A pod whose clock is right, one a minute ahead, and one two minutes behind.
MCDrift == {-1, 0, 2}
=============================================================================
