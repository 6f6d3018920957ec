--------------------------- MODULE MCKubescapeGate ---------------------------
(***************************************************************************)
(* Two of Longhorn's instance managers, whose names normalize() reduces to *)
(* one, and a web Deployment, failing two controls or one.                 *)
(***************************************************************************)
EXTENDS KubescapeGate

CONSTANTS im1, im2, web1, im, web, rootless, limits

MCRaw        == {im1, im2, web1}
MCRawTwo     == {im1, web1}
MCPair       == {im, web}
MCNormalized == [r \in MCRaw |-> IF r = web1 THEN web ELSE im]
TwoNormalized == [r \in MCRawTwo |-> IF r = web1 THEN web ELSE im]
MCControl    == {rootless, limits}
TwoControls  == [p \in MCPair |-> IF p = im THEN rootless ELSE limits]
OneControl   == [p \in MCPair |-> rootless]
=============================================================================
