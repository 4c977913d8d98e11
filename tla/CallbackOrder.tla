---------------------------- MODULE CallbackOrder ----------------------------
(***************************************************************************)
(* The order in which a parser promises its callbacks, as the application  *)
(* sees it: last is the latest value or event it was given ("none" for a   *)
(* new or reset parser), lastChunk tells that the chunk of size 0 has come.*)
(***************************************************************************)
VARIABLES last, lastChunk

orderVars == <<last, lastChunk>>

Init == last = "none" /\ lastChunk = FALSE

Follows(c, before) == last \in before /\ last' = c /\ UNCHANGED lastChunk

Begin == Follows("on_message_begin", {"none", "on_reset"}) /\ ~lastChunk
StartLine == \/ Follows("on_url", {"on_message_begin"})
             \/ Follows("on_status", {"on_message_begin"})

\* A name, then its value, in the header section or in the trailers.
Field == \/ ~lastChunk /\ Follows("on_header_field",
                                  {"on_message_begin", "on_url", "on_status", "on_header_value"})
         \/ lastChunk  /\ Follows("on_header_field", {"on_chunk_header", "on_header_value"})
Value == Follows("on_header_value", {"on_header_field"})

HeadersComplete ==
  ~lastChunk /\ Follows("on_headers_complete",
                        {"on_message_begin", "on_url", "on_status", "on_header_value"})

Body == ~lastChunk /\ Follows("on_body", {"on_headers_complete", "on_chunk_header"})

ChunkHeader == ~lastChunk /\ Follows("on_chunk_header",
                                     {"on_headers_complete", "on_chunk_complete"})
SeeLastChunk == last = "on_chunk_header" /\ lastChunk' = TRUE /\ UNCHANGED last
ChunkComplete ==
  Follows("on_chunk_complete",
          IF lastChunk THEN {"on_chunk_header", "on_header_value"} ELSE {"on_body"})

MessageComplete ==
  Follows("on_message_complete",
          IF lastChunk THEN {"on_chunk_complete"} ELSE {"on_headers_complete", "on_body"})

NextMessage == \/ last = "on_message_complete" /\ lastChunk' = FALSE /\ UNCHANGED last
               \/ ~lastChunk /\ Follows("on_reset", {"on_message_complete"})

Reset == last' = "none" /\ lastChunk' = FALSE

Next == \/ Begin \/ StartLine \/ Field \/ Value \/ HeadersComplete \/ Body
        \/ ChunkHeader \/ SeeLastChunk \/ ChunkComplete \/ MessageComplete
        \/ NextMessage \/ Reset

Spec == Init /\ [][Next]_orderVars
=============================================================================
