-------------------------- MODULE MCNodeMaintenance --------------------------
(***************************************************************************)
(* Argo CD's controller; a web Deployment Argo CD manages; the chat        *)
(* Deployment whose count is not in git.  The web and chat namespaces are  *)
(* listed separately, so a failing listing cuts the list before either.    *)
(***************************************************************************)
EXTENDS NodeMaintenance

CONSTANTS argo, web, chat

MCObj     == {argo, web, chat}
MCOrder   == <<argo, web, chat>>
MCCuts    == {1, 2}
MCCount   == [o \in MCObj |-> IF o = web THEN 2 ELSE 1]
MCManaged == {web}
=============================================================================
