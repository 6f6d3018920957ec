------------------------- MODULE MCImagePublishing --------------------------
(***************************************************************************)
(* Two branches that bump version.txt to the same version, one of them to  *)
(* another one later; that last commit is on both branches.                *)
(***************************************************************************)
EXTENDS ImagePublishing

CONSTANTS left, right, a, b1, b2, v1, v2

MCBranchesOf ==
    [c \in {a, b1, b2} |-> CASE c = a  -> {left}
                              [] c = b1 -> {right}
                              [] c = b2 -> {left, right}]
MCVersionOf  == [c \in {a, b1, b2} |-> IF c = b2 THEN v2 ELSE v1]
=============================================================================
