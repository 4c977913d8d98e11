------------------------------ MODULE LuaQuery ------------------------------
(***************************************************************************)
(* Query objects and what lhttp_url.c makes of their texts and pairs.      *)
(***************************************************************************)
EXTENDS LlQueryList, LhttpUrl

Raw == pc = "pool" /\ "AUTO_DECODE" \notin q[me].flags

(* decode_url takes back what encode_url did to any text, '+', '%', NUL and spaces among *)
(* it; and what encode_url writes is a valid query, but for NUL, which it leaves alone   *)
(* (lhttp_url.c:54-87, 154-179, llquery.c:1009-1134, 1238-1273).  lhttp_url.c:49 says of *)
(* encode "@treturn string URL-encoded string".                                          *)
DecodeInvertsEncode ==
  Raw => /\ decode_url(encode_url(text)) = text
         /\ NUL \notin Range(text) =>
              llquery_is_valid(encode_url(text))

(* A table of pairs loses no value and keeps the values of a key in order, the first two *)
(* of them too, which were stored in other ways (lhttp_url.c:102-137).                   *)
MergeLosesNothing ==
  pc = "idle" /\ rc = "OK" => \A x \in Queries :
    LET list  == Contents(q[x])
        table == parse_query(rc, list)[1]
    IN /\ DOMAIN table = {list[n].k : n \in DOMAIN list}
       /\ \A k \in DOMAIN table :
            /\ table[k].values = llquery_get_all_values(list, k, Len(list))
            /\ table[k].array = (Cardinality(Positions(list, k)) > 1)
=============================================================================
