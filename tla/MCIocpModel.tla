----------------------------- MODULE MCIocpModel -----------------------------
(***************************************************************************)
(* CIocpModel for TLC: the sets of failures and of moments for Ctrl-C that *)
(* the runs choose from.                                                   *)
(***************************************************************************)
EXTENDS CIocpModel, TLC

\* Everything the code handles, or survives without touching freed state.
HandledFailures ==
  {"event", "socket", "associate", "bind", "recv", "reset", "network"}

\* Ctrl-C once Start() has returned, whatever it returned.
AfterStart == {"running", "failed"}

Interchangeable == Permutations(Workers) \cup Permutations(Slots)
===============================================================================
