------------------------------ MODULE MCFrame ------------------------------
(* Two functions for TLC: "inner" calls itself and "leaf", and keeps a      *)
(* value in a slot across its calls; "leaf" uses more s registers, has no   *)
(* slots and does not save its return address.                              *)
EXTENDS Frame, TLC

CONSTANTS inner, leaf

TwoFns == {inner, leaf}
TwoCalleeSave == [f \in TwoFns |-> IF f = inner THEN 1 ELSE 2]
TwoCallSave   == [f \in TwoFns |-> IF f = inner THEN 1 ELSE 0]
TwoHasCalls   == [f \in TwoFns |-> f = inner]

\* data values are only copied
DataSymmetry == Permutations(Data)
=============================================================================
