------------------------------- MODULE LhttpUrl -------------------------------
(***************************************************************************)
(* lhttp_url.c: what its functions hand to Lua, given what llquery.c and   *)
(* llurl.c answer.                                                         *)
(***************************************************************************)
EXTENDS QueryText, SequencesExt

CONSTANTS BufSize,    \* of the buffer encode_url and decode_url have (2048)
          Junk        \* what malloc leaves in a block

ASSUME UrlBufferAssumption == BufSize \in Nat \ {0} /\ Junk \in 0..255

(***************************************************************************)
(* encode_url.  A longer text goes to a block of the size the first call   *)
(* reckons, and the string is as long as the block: behind the encoded     *)
(* text come its NUL and whatever the block held.                          *)
(***************************************************************************)
Filled(out, n) ==
  [k \in 1..n |-> IF k <= Len(out) THEN out[k] ELSE IF k = Len(out) + 1 THEN NUL ELSE Junk]

encode_url(t) ==
  LET first  == llquery_url_encode(t, BufSize)
      second == llquery_url_encode(t, first.answer + 1)
  IN IF first.answer < BufSize - 1 THEN first.out ELSE Filled(second.out, first.answer)

\* decode_url: here the first call reckons what the second writes.
decode_url(t) == llquery_url_decode(t)

(***************************************************************************)
(* query_to_lua_table.  A key is given its value, and an array of values   *)
(* when it comes again; a pair without a key is passed over.               *)
(***************************************************************************)
Single(v) == [array |-> FALSE, values |-> <<v>>]

\* A mistake: the array begins with the second value.
AddPairForgetsFirst(table, p) ==
  IF p.k = <<>> THEN table
  ELSE [k \in DOMAIN table \cup {p.k} |->
          IF k # p.k THEN table[k]
          ELSE IF k \notin DOMAIN table THEN Single(p.v)
          ELSE IF table[k].array THEN [array |-> TRUE, values |-> Append(table[k].values, p.v)]
          ELSE [array |-> TRUE, values |-> <<p.v>>]]

AddPair(table, p) ==
  IF p.k = <<>> THEN table
  ELSE [k \in DOMAIN table \cup {p.k} |->
          IF k # p.k THEN table[k]
          ELSE IF k \notin DOMAIN table THEN Single(p.v)
          ELSE [array |-> TRUE, values |-> Append(table[k].values, p.v)]]

query_to_lua_table(list) == FoldLeft(AddPair, [k \in {} |-> Single(<<>>)], list)

(***************************************************************************)
(* parse_query.  A table of options says of some flags whether they are    *)
(* set; the others have their defaults.  For a query that is not empty Lua *)
(* is given a table, or nil if the parser refused it.                      *)
(***************************************************************************)
OptionOf == [AUTO_DECODE |-> "decode", MERGE_DUPLICATES |-> "merge_duplicates",
             KEEP_EMPTY |-> "keep_empty", LOWERCASE_KEYS |-> "lowercase_keys",
             TRIM_VALUES |-> "trim_values", STRICT |-> "strict"]
Defaults == {"AUTO_DECODE", "KEEP_EMPTY", "MERGE_DUPLICATES"}

parse_query_flags(options) ==
  {f \in DOMAIN OptionOf : IF OptionOf[f] \in DOMAIN options THEN options[OptionOf[f]]
                                                            ELSE f \in Defaults}

parse_query(err, list) == IF err = "OK" THEN <<query_to_lua_table(list)>> ELSE <<"nil">>

(***************************************************************************)
(* lhttp_parser_parse_url: the names Lua sees of the fields llurl.c found. *)
(***************************************************************************)
LuaName == [SCHEMA |-> "protocol", USERINFO |-> "auth", HOST |-> "hostname", PORT |-> "port",
            PATH |-> "pathname", QUERY |-> "query", FRAGMENT |-> "hash"]

lhttp_parser_parse_url(url, u) ==
  [name \in {LuaName[f] : f \in u.set} |->
     LET f == CHOOSE f \in u.set : LuaName[f] = name
     IN SubSeq(url, u.off[f] + 1, u.off[f] + u.len[f])]
=============================================================================
