----------------------------- MODULE MCL2Adapter -----------------------------
(***************************************************************************)
(* Instances of L2Adapter for TLC.                                         *)
(***************************************************************************)
EXTENDS L2Adapter

CONSTANTS k1, k2

(* One key, and two keys in either order.                                  *)
OneOrTwo == {<<k1>>, <<k1, k2>>, <<k2, k1>>}
OneKey == {<<k1>>}
NoneOrOne == {<<>>, <<k1>>}
=============================================================================
