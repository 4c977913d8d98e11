------------------------------- MODULE MCText -------------------------------
(***************************************************************************)
(* One query object that parses every short text, and what lhttp_url.c     *)
(* makes of its pairs.                                                     *)
(***************************************************************************)
EXTENDS MCQuery, LuaQuery

CONSTANTS MaxBytes

(* llquery_count_pairs and llquery_parse_fast, without decoding, walk a query like the  *)
(* full parser does: the same pairs, and those with an empty key that it skips          *)
(* (llquery.c:1136-1236, 1275-1322).                                                     *)
QuickParsersAgree ==
  Raw => LET fast == llquery_parse_fast(text, Len(text) + 1, FALSE) IN
         /\ llquery_count_pairs(text) = Len(fast)
         /\ SelectSeq(fast, LAMBDA p : p.k # <<>>) = List!Meaning(text, {"KEEP_EMPTY"})

(* What stringify writes means the pairs again, if nothing was decoded: no pair is split *)
(* at another '=', or joined with its neighbour (llquery.c:780-843).                      *)
StringifyKeepsPairs ==
  pc = "idle" /\ "AUTO_DECODE" \notin q[x1].flags =>
    List!Meaning(llquery_stringify(Contents(q[x1])), {"KEEP_EMPTY"}) = Contents(q[x1])

-----------------------------------------------------------------------------
Two == 50   Six == 54
Bytes == {NUL, Space, B, Two, Percent, Amp, Plus, Equal}
MCShortTexts ==
  UNION {[1..n -> Bytes] : n \in 0..MaxBytes}
    \cup UNION {[1..n -> {A, Amp, Equal}] : n \in 0..(MaxBytes + 2)}
    \cup {<<A, Equal, Percent, Two, Six>> \o t : t \in UNION {[1..n -> {Percent, Amp, Six, Two}] : n \in 0..2}}

\* Six spaces: 6 bytes encoded, 18 reckoned.
MCLongTexts == {[k \in 1..6 |-> Space]}

\* The options of parse_query, but those that change nothing in the parser.
MCOptions == { <<>>, [decode |-> FALSE], [decode |-> FALSE, keep_empty |-> FALSE, strict |-> TRUE],
               [lowercase_keys |-> TRUE, trim_values |-> TRUE, keep_empty |-> FALSE] }
MCTextFlags == {parse_query_flags(o) : o \in MCOptions}
MCTextCalls == {"init", "parse", "sort", "set_allocator"} \X {x1}
MCSwitchCalls == MCTextCalls \cup {<<"reset", x1>>, <<"free", x1>>}

\* The object is parsed into once, and sorted; its allocator may change before and after.
Unparsed == q[x1].pool = Null
OnceNext == \/ \E a \in Allocators, n \in Limits, f \in FlagSets : llquery_init_ex(x1, a, n, f)
            \/ \E a \in Allocators : llquery_set_allocator(x1, a)
            \/ Unparsed /\ \E t \in Texts, n \in BufferSizes : llquery_parse_ex(x1, t, n)
            \/ llquery_sort(x1, FALSE)
            \/ Step
OnceSpec == Init /\ [][OnceNext]_vars
=============================================================================
