------------------------------- MODULE MCSouth -------------------------------
(***************************************************************************)
(* South for TLC.                                                          *)
(***************************************************************************)
EXTENDS South, TLC

Addresses == Permutations(M) \cup Permutations(T)
===============================================================================
