----------------------------- MODULE CallbackLog -----------------------------
(***************************************************************************)
(* What the Lua handlers of a parser have seen: LhttpParser with a history *)
(* of the calls made to them.  A call is <<callback, from, to>>, the bytes *)
(* of the stream it was given; fragments of one value are joined.          *)
(***************************************************************************)
EXTENDS LhttpParser

VARIABLE log

logVars == <<vars, log>>

\* The call that step call_handler makes; a flush gives all of the chunk.
Delivery == LET to == IF at = "flush" THEN end ELSE p
            IN <<cb, IF cb \in Spans THEN spanPos ELSE to, to>>

\* A span callback that goes on where the one before it stopped.
Continues(e) == /\ log # <<>> /\ e[1] \in Spans
                /\ log[Len(log)][1] = e[1] /\ log[Len(log)][3] = e[2]

Record(e) == IF Continues(e) THEN [log EXCEPT ![Len(log)][3] = e[3]] ELSE Append(log, e)

LogInit == Init /\ log = <<>>

LogNext == \/ call_handler /\ log' = Record(Delivery)
           \/ reset /\ log' = <<>>
           \/ Unseen /\ UNCHANGED log

LogSpec == LogInit /\ [][LogNext]_logVars

-----------------------------------------------------------------------------
\* The handlers are called in the order of CallbackOrder: llhttp.c and the
\* binding implement it whatever bytes the stream holds and wherever it is cut.
Order == INSTANCE CallbackOrder
         WITH last      <- IF log = <<>> THEN "none" ELSE log[Len(log)][1],
              lastChunk <- "TRAILING" \in flags
OrderKept == Order!Spec

\* A truncated message is never taken for a whole one: when finish would answer
\* success, no message is open, or its body is one the end of the connection
\* ends (api.c 143-153, the values llhttp.c gives to parser->finish).
TruncationIsSeen ==
  op = "none" /\ error = "OK" /\ log # <<>> =>
    LET lastSeen == log[Len(log)][1]
    IN /\ finish = "SAFE" => lastSeen = "on_message_complete"
       /\ finish = "SAFE_WITH_CB" =>
            lastSeen \in {"on_headers_complete", "on_body", "on_message_complete"}

\* A reset parser is a new one: as long as no handler has been called since, the
\* next execute begins a message (lhttp_parser.c 449-451; api.c 110-122).
ResetStartsAfresh == op = "none" /\ error = "OK" /\ log = <<>> => current = "start"
=============================================================================
