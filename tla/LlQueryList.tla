----------------------------- MODULE LlQueryList -----------------------------
(***************************************************************************)
(* What the objects of LlQuery stand for: lists of pairs, all the way.      *)
(***************************************************************************)
EXTENDS LlQuery

(* The list an object stands for while a call works on it: filter has moved what it keeps *)
(* to the front and a clone is not there before it is complete.                            *)
Building(x) == me = x /\ pc \in {"init_pairs", "clone_key", "clone_value"}
ListOf(x) ==
  IF me = x /\ pc = "filter"
  THEN SubSeq(Contents(q[x]), 1, write) \o SubSeq(Contents(q[x]), index + 1, q[x].count)
  ELSE Contents(q[x])

Objects == [x \in Queries |->
  IF q[x].up /\ ~Building(x)
  THEN [live |-> TRUE, list |-> ListOf(x), max |-> q[x].max, flags |-> q[x].flags,
        loading |-> me = x /\ pc \in {"decode", "pool", "pair", "value"}]
  ELSE [live |-> FALSE, list |-> <<>>, max |-> 0, flags |-> {}, loading |-> FALSE]]

List == INSTANCE QueryList WITH
          Objects <- Queries, Maxes <- Limits \cup {DEFAULT_MAX_PAIRS}, objects <- Objects,
          asked <- text, answer <- rc, custom <- (pc = "sort_by")

(* Whatever llquery does with slots, pools and partial clones, an object is a list of     *)
(* pairs: parsing puts there what the text means, and says so when it does not; filter    *)
(* and sort only drop and swap pairs, sort by keys only those that are out of order; a    *)
(* clone is whole or absent.                                                               *)
ImplementsList == List!Spec
=============================================================================
