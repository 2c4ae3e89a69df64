------------------------------ MODULE MCIniFile ------------------------------
(***************************************************************************)
(* IniFile for TLC: a plain value and one with the separator in it.        *)
(***************************************************************************)
EXTENDS IniFile

ReadBack == [v \in Values |-> IF v = "x=y" THEN "x" ELSE v]
===============================================================================
