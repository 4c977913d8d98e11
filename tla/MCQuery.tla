------------------------------- MODULE MCQuery -------------------------------
(***************************************************************************)
(* LlQuery with two objects and two allocators.                            *)
(***************************************************************************)
EXTENDS LlQueryList, TLC

CONSTANTS x1, x2

A == 97   B == 66
\* B=a&a   =a&a= +&&   ?b&a=B&a=a
MCTexts == { <<B, Equal, A, Amp, A>>, <<Equal, A, Amp, A, Equal, Space, Plus, Amp, Amp>>,
             <<Question, B, Amp, A, Equal, B, Amp, A, Equal, A>> }
MCFlagSets == { {"STRICT", "TRIM_VALUES"}, {"AUTO_DECODE", "KEEP_EMPTY", "LOWERCASE_KEYS"} }
MCMemory == [a \in {"malloc", "arena"} |-> IF a = "malloc" THEN 1..12 ELSE 21..32]
MCCalls == ({"init_ex", "parse", "reset", "free", "filter", "sort"} \X {x1})
             \cup ({"clone", "free"} \X {x2})
=============================================================================
