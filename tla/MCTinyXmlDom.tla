---------------------------- MODULE MCTinyXmlDom ----------------------------
(***************************************************************************)
(* TinyXmlDom for TLC.                                                     *)
(***************************************************************************)
EXTENDS TinyXmlDom, TLC

Places == Permutations(Node)
=============================================================================
