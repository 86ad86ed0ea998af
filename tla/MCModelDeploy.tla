--------------------------- MODULE MCModelDeploy ---------------------------
(* The default model and another one.                                      *)
EXTENDS ModelDeploy

CONSTANTS m1, m2

TwoNames == {m1, m2}
=============================================================================
