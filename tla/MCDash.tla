------------------------------- MODULE MCDash -------------------------------
(***************************************************************************)
(* Two namespaces and one component, a StatefulSet, so that other lists    *)
(* are read before and after its own; the code's own timeouts, answers at  *)
(* once or after 4 s.                                                      *)
(***************************************************************************)
EXTENDS Dash

CONSTANTS prod, dev, state

MCNamespaces == <<prod, dev>>
=============================================================================
