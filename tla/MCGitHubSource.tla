--------------------------- MODULE MCGitHubSource ---------------------------
(***************************************************************************)
(* Two repositories: one whose alerts fill two pages, and one with a       *)
(* single alert.  Alert 3 is of a tool that is not reported.               *)
(***************************************************************************)
EXTENDS GitHubSource, TLC

CONSTANTS platform, app

MCRepos  == <<platform, app>>
MCAlerts == platform :> 1 .. 4 @@ app :> {5}
=============================================================================
