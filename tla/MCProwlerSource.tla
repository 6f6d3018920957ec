--------------------------- MODULE MCProwlerSource ---------------------------
(***************************************************************************)
(* A bucket of five keys, listed two a page: key 2 is not a report, key 4  *)
(* is a report that does not parse.                                        *)
(***************************************************************************)
EXTENDS ProwlerSource
=============================================================================
