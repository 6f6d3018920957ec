------------------------- MODULE MCFindingsExporter -------------------------
(***************************************************************************)
(* A small exporter for TLC: the GitHub poller with its two names, and     *)
(* Prowler's, the one whose answers carry a date of their own.             *)
(***************************************************************************)
EXTENDS FindingsExporter

CONSTANTS github, aws, trivy, checkov, prowler

MCPoller == {github, aws}
MCName   == {trivy, checkov, prowler}
MCNames  == [p \in MCPoller |-> IF p = github THEN {trivy, checkov} ELSE {prowler}]
MCDated  == {aws}
=============================================================================
