------------------------------- MODULE Llhttp -------------------------------
(***************************************************************************)
(* The llhttp parser (llhttp/src/api.c, http.c, llhttp.c): the fields of   *)
(* llhttp_t, the API functions that change them, and the run loop of       *)
(* llhttp__internal_execute between two callbacks.                         *)
(*                                                                         *)
(* llhttp.c is a goto machine over bytes.  Here its input is a stream of   *)
(* tokens (a method, a header name, a digit, CR, LF, one byte of text): a  *)
(* label of the machine that waits for input, decides, calls back or       *)
(* pauses keeps its name, and the labels that only match the next letter   *)
(* of a word are one step on its token.  A chunk boundary may fall between *)
(* any two tokens.                                                         *)
(*                                                                         *)
(* A call of llhttp_execute is the registers <<op, base, end, p, at, cb,   *)
(* rc>>: at is the label about to run, p the read position, cb the         *)
(* callback whose code is running.  While cb # "none" the program outside  *)
(* the parser has control and may call the API again; saved holds the      *)
(* registers of the calls such nested calls interrupt.                     *)
(***************************************************************************)
EXTENDS HttpFraming, Sequences

CONSTANTS
  Streams,    \* the inputs: sequences of tokens
  MaxLength   \* the largest content_length (2^64 - 1 in the code)

StatusOf  == [s100 |-> 100, s101 |-> 101, s200 |-> 200, s204 |-> 204]
VersionOf == [http10 |-> <<1, 0>>, http11 |-> <<1, 1>>]
DigitOf   == [d0 |-> 0, d1 |-> 1, d2 |-> 2]

HeaderNames == {"Connection", "Content-Length", "Transfer-Encoding", "Upgrade", "Host"}

Tokens ==
  {"cr", "lf", "sp", "colon", "comma", "semicolon", "text", "get", "connect",
   "ctl", "close", "keep-alive", "upgrade", "chunked"}
  \cup HeaderNames \cup DOMAIN StatusOf \cup DOMAIN VersionOf \cup DOMAIN DigitOf

\* The tokens whose bytes may all stand in a header's name; a URL may also have these.
Word    == {"text", "get", "connect", "close", "keep-alive", "upgrade", "chunked"}
             \cup HeaderNames \cup DOMAIN StatusOf \cup DOMAIN DigitOf
UrlByte == Word \cup {"colon", "comma", "semicolon"} \cup DOMAIN VersionOf

ASSUME StreamsAssumption   == Streams \subseteq Seq(Tokens)
ASSUME MaxLengthAssumption == MaxLength \in Nat

VARIABLES
  current, error, errorPos,          \* where to go on, and why execution stopped
  span, spanPos,                     \* the open span's callback and its start
  type, method, status, version,     \* the start line
  headerState, flags, contentLength, \* the header section and the body left
  upgrade, finish, initialDone,      \* the message's place on the connection
  op, base, end, p, at, cb, rc,      \* the registers of the active call
  saved,                             \* the registers of the calls it interrupts
  stream                             \* the bytes the connection will deliver

stopVars   == <<current, error, errorPos>>
spanVars   == <<span, spanPos>>
lineVars   == <<type, method, status, version>>
headerVars == <<headerState, flags, contentLength>>
lifeVars   == <<upgrade, finish, initialDone>>
parserVars == <<stopVars, spanVars, lineVars, headerVars, lifeVars>>
registers  == <<op, base, end, p, at, cb, rc>>

-----------------------------------------------------------------------------
\* Labels of llhttp.c that wait for a byte: `if (p == endp) return <label>;`.
ReadLabels ==
  {"start", "start_req_or_res", "after_start_req", "req_first_space_before_url",
   "req_spaces_before_url", "url_start", "url", "url_skip_to_http", "url_skip_to_http09",
   "url_skip_lf_to_http09", "url_skip_lf_to_http09_1", "url_to_http_09",
   "req_http_start", "req_http_complete", "req_http_complete_crlf",
   "res_after_start", "res_after_version", "res_status_code",
   "res_status_code_otherwise", "span_start_on_status", "res_status",
   "res_line_almost_done", "headers_start", "header_field_start", "header_field",
   "header_field_colon", "header_field_general", "header_value_discard_ws",
   "header_value_discard_ws_almost_done", "header_value_discard_lws",
   "header_value", "header_value_otherwise", "header_value_connection",
   "header_value_connection_ws", "header_value_connection_token",
   "header_value_content_length", "header_value_content_length_ws",
   "header_value_te_chunked", "header_value_te_chunked_last",
   "header_value_te_token", "header_value_te_token_ows",
   "header_value_almost_done", "header_value_lws", "headers_almost_done",
   "chunk_size_digit", "chunk_size", "chunk_extensions", "chunk_extension_name",
   "chunk_size_almost_done",
   "span_start_on_body", "chunk_data_almost_done", "chunk_data_almost_done_1",
   "span_start_on_body_1", "span_start_on_body_2", "eof", "closed"}

\* Calls of a function callback: the label after it, and the error its failure is.
Notify ==
  [on_reset              |-> [cb |-> "on_reset", next |-> "update_finish", err |-> "CB_RESET"],
   on_message_begin      |-> [cb |-> "on_message_begin", next |-> "load_type",
                              err |-> "CB_MESSAGE_BEGIN"],
   on_chunk_header       |-> [cb |-> "on_chunk_header", next |-> "is_equal_content_length",
                              err |-> "CB_CHUNK_HEADER"],
   on_chunk_complete     |-> [cb |-> "on_chunk_complete", next |-> "update_content_length_1",
                              err |-> "CB_CHUNK_COMPLETE"],
   on_chunk_complete_2   |-> [cb |-> "on_chunk_complete", next |-> "on_message_complete_2",
                              err |-> "CB_CHUNK_COMPLETE"],
   on_message_complete   |-> [cb |-> "on_message_complete", next |-> "after_message_complete",
                              err |-> "CB_MESSAGE_COMPLETE"],
   on_message_complete_1 |-> [cb |-> "on_message_complete", next |-> "pause_1",
                              err |-> "CB_MESSAGE_COMPLETE"],
   on_message_complete_2 |-> [cb |-> "on_message_complete", next |-> "is_equal_upgrade",
                              err |-> "CB_MESSAGE_COMPLETE"]]

\* Calls of a span callback at the span's end: the label after it, and how many
\* bytes (the delimiter) are consumed once it has returned.
SpanEnd ==
  [span_end_on_url              |-> [cb |-> "on_url", next |-> "url_skip_to_http", skip |-> 0],
   span_end_on_url_1            |-> [cb |-> "on_url", next |-> "url_skip_to_http09", skip |-> 0],
   span_end_on_url_2            |-> [cb |-> "on_url", next |-> "url_skip_lf_to_http09", skip |-> 0],
   span_end_on_status           |-> [cb |-> "on_status", next |-> "error_99", skip |-> 1],
   span_end_on_status_1         |-> [cb |-> "on_status", next |-> "res_line_almost_done", skip |-> 1],
   span_end_on_header_field     |-> [cb |-> "on_header_field", next |-> "error_5", skip |-> 1],
   span_end_on_header_field_1   |-> [cb |-> "on_header_field", next |-> "load_header_state", skip |-> 1],
   span_end_on_header_value     |-> [cb |-> "on_header_value", next |-> "header_field_start", skip |-> 0],
   span_end_on_header_value_1   |-> [cb |-> "on_header_value", next |-> "error_52", skip |-> 0],
   span_end_on_header_value_2   |-> [cb |-> "on_header_value", next |-> "header_value_almost_done", skip |-> 1],
   span_end_on_header_value_3   |-> [cb |-> "on_header_value", next |-> "error_55", skip |-> 0],
   span_end_on_header_value_6   |-> [cb |-> "on_header_value", next |-> "error_57", skip |-> 0],
   span_end_on_header_value_7   |-> [cb |-> "on_header_value", next |-> "error_58", skip |-> 0],
   span_end_on_header_value_8   |-> [cb |-> "on_header_value", next |-> "error_59", skip |-> 1],
   span_end_on_header_value_9   |-> [cb |-> "on_header_value", next |-> "error_60", skip |-> 1],
   span_end_on_body             |-> [cb |-> "on_body", next |-> "chunk_data_almost_done", skip |-> 0],
   span_end_on_body_1           |-> [cb |-> "on_body", next |-> "on_message_complete_2", skip |-> 0]]

\* Errors reported after a span callback, by the label that reports them.
DeferredError ==
  [error_99 |-> "CR_EXPECTED",             error_5  |-> "INVALID_HEADER_TOKEN",
   error_52 |-> "CR_EXPECTED",             error_55 |-> "INVALID_HEADER_TOKEN",
   error_57 |-> "INVALID_CONTENT_LENGTH",  error_58 |-> "INVALID_CONTENT_LENGTH",
   error_59 |-> "INVALID_TRANSFER_ENCODING", error_60 |-> "INVALID_TRANSFER_ENCODING"]

Labels ==
  ReadLabels \cup DOMAIN Notify \cup DOMAIN SpanEnd \cup DOMAIN DeferredError
  \cup {"s_error", "load_type", "update_finish", "load_header_state",
        "on_headers_complete", "after_headers_complete", "update_content_length_1",
        "is_equal_content_length", "consume_content_length", "consume_content_length_1",
        "is_equal_upgrade", "pause_1", "after_message_complete",
        "flush", "finish", "return"}

Spans     == {"on_url", "on_status", "on_header_field", "on_header_value", "on_body"}
Callbacks == Spans \cup {"on_reset", "on_message_begin", "on_headers_complete",
                         "on_chunk_header", "on_chunk_complete", "on_message_complete"}

Pauses == {"PAUSED", "PAUSED_UPGRADE"}
Fatal  == {"INTERNAL", "STRICT", "USER", "CR_EXPECTED", "LF_EXPECTED",
           "CLOSED_CONNECTION", "INVALID_METHOD", "INVALID_URL", "INVALID_CONSTANT",
           "INVALID_VERSION", "INVALID_STATUS", "INVALID_HEADER_TOKEN",
           "INVALID_CONTENT_LENGTH", "INVALID_CHUNK_SIZE", "INVALID_TRANSFER_ENCODING",
           "UNEXPECTED_SPACE", "UNEXPECTED_CONTENT_LENGTH", "CB_RESET",
           "CB_MESSAGE_BEGIN", "CB_HEADERS_COMPLETE", "CB_CHUNK_HEADER",
           "CB_CHUNK_COMPLETE", "CB_MESSAGE_COMPLETE"}
Errors == {"OK"} \cup Pauses \cup Fatal

\* The integers a callback can answer with, and the errno of that number.
Results == {0, 1, 2, 21, 24}
ErrnoOf(r) == CASE r = 0 -> "OK" [] r = 1 -> "INTERNAL" [] r = 2 -> "STRICT"
                [] r = 21 -> "PAUSED" [] OTHER -> "USER"

-----------------------------------------------------------------------------
Depth   == IF op = "none" THEN 0 ELSE Len(saved) + 1
Here(q) == [buf |-> Depth, off |-> q]        \* a pointer into the active call's chunk
Nowhere == [buf |-> 0, off |-> 0]            \* NULL, or a chunk no call is parsing

Running  == op = "execute" /\ cb = "none"
At(l)    == Running /\ at = l
Reads(l) == At(l) /\ p < end
Tok      == stream[p + 1]

restVars == <<spanVars, lineVars, headerVars, lifeVars>>

\* goto l, having read up to q.
Go(l, q) == /\ at' = l /\ p' = q
            /\ UNCHANGED <<stopVars, op, base, end, cb, rc, saved, stream>>
Take(tokens, l) == Tok \in tokens /\ Go(l, p + 1)
Pass(tokens, l) == Tok \in tokens /\ Go(l, p)

\* A mistake: error_pos is left where an earlier error set it.
StopInPlace(e, q, l) ==
  /\ error' = e /\ current' = l
  /\ at' = "return" /\ p' = q /\ rc' = e /\ cb' = "none"
  /\ UNCHANGED <<errorPos, op, base, end, saved, stream>>

\* { error = e; error_pos = q; _current = l; return s_error; }
Stop(e, q, l) ==
  /\ error' = e /\ errorPos' = Here(q) /\ current' = l
  /\ at' = "return" /\ p' = q /\ rc' = e /\ cb' = "none"
  /\ UNCHANGED <<op, base, end, saved, stream>>
Reject(e)            == Stop(e, p, "s_error")
RejectAfter(e)       == Stop(e, p + 1, "s_error")        \* the byte is consumed
Refuse(accepted, e)  == Tok \notin accepted /\ Reject(e)

\* Label l, reached at q, hands control to callback c.
Call(c, l, q) == /\ cb' = c /\ at' = l /\ p' = q
                 /\ UNCHANGED <<stopVars, op, base, end, rc, saved, stream>>

\* _span_pos0 = NULL; err = <callback>(state, start, q);
EndSpan(l, q) == Call(SpanEnd[l].cb, l, q) /\ span' = "none" /\ UNCHANGED spanPos

OpenSpan(c) == span' = c /\ spanPos' = p

\* A mistake for the runs to notice: the open span is not flushed.
SuspendUnflushed(l) ==
  /\ current' = l /\ at' = "return" /\ rc' = "OK"
  /\ UNCHANGED <<error, errorPos, spanVars, lineVars, lifeVars, op, base, end, p, cb, saved, stream>>

\* The run loop is out of input: _current = l, then the open span is flushed.
Suspend(l) ==
  /\ current' = l
  /\ IF span = "none"
     THEN at' = "return" /\ rc' = "OK" /\ UNCHANGED cb
     ELSE at' = "flush" /\ cb' = span /\ UNCHANGED rc
  /\ UNCHANGED <<error, errorPos, spanVars, lineVars, lifeVars, op, base, end, p, saved, stream>>

EndOfInput == /\ Running /\ at \in ReadLabels /\ p = end
              /\ Suspend(at)
              /\ UNCHANGED headerVars

-----------------------------------------------------------------------------
(* Between messages *)

Start ==
  /\ Reads("start")
  /\ \/ Take({"cr", "lf"}, "start")
     \/ Pass(Tokens \ {"cr", "lf"}, IF initialDone THEN "on_reset" ELSE "update_finish")
  /\ UNCHANGED restVars

\* A mistake: a message is open, and the end of input still counts as safe.
UpdateFinishForgotten ==
  /\ At("update_finish")
  /\ Go("on_message_begin", p)
  /\ UNCHANGED restVars

UpdateFinish ==
  /\ At("update_finish")
  /\ finish' = "UNSAFE"
  /\ Go("on_message_begin", p)
  /\ UNCHANGED <<spanVars, lineVars, headerVars, upgrade, initialDone>>

LoadType ==
  /\ At("load_type")
  /\ Go(CASE type = "REQUEST"  -> "after_start_req"
          [] type = "RESPONSE" -> "res_after_start"
          [] OTHER             -> "start_req_or_res", p)
  /\ UNCHANGED restVars

\* A parser of type BOTH takes the type of the first message for good.
StartReqOrRes ==
  /\ Reads("start_req_or_res")
  /\ LET response == Tok \in DOMAIN VersionOf
     IN /\ type' = IF response THEN "RESPONSE" ELSE "REQUEST"
        /\ Go(IF response THEN "res_after_start" ELSE "after_start_req", p)
  /\ UNCHANGED <<spanVars, method, status, version, headerVars, lifeVars>>

-----------------------------------------------------------------------------
(* The request line *)

ReadMethod ==
  /\ Reads("after_start_req")
  /\ \/ /\ Take({"get", "connect"}, "req_first_space_before_url")
        /\ method' = IF Tok = "connect" THEN "CONNECT" ELSE "OTHER"
     \/ Refuse({"get", "connect"}, "INVALID_METHOD") /\ UNCHANGED method
  /\ UNCHANGED <<spanVars, type, status, version, headerVars, lifeVars>>

ReadSpaceBeforeUrl ==
  \/ /\ Reads("req_first_space_before_url")
     /\ Take({"sp"}, "req_spaces_before_url") \/ Refuse({"sp"}, "INVALID_METHOD")
     /\ UNCHANGED restVars
  \/ /\ Reads("req_spaces_before_url")
     /\ \/ Take({"sp"}, "req_spaces_before_url") /\ UNCHANGED spanVars
        \/ /\ Pass(Tokens \ {"sp"}, IF method = "CONNECT" THEN "url" ELSE "url_start")
           /\ OpenSpan("on_url")
     /\ UNCHANGED <<lineVars, headerVars, lifeVars>>

\* Only the URL of a CONNECT may be empty.  The states of its schema and host are
\* not told apart: text stands for a byte that may come first, a slash.
ReadUrl ==
  /\ \/ /\ Reads("url_start")
        /\ \/ Take({"text"}, "url")
           \/ Tok \in {"sp", "lf", "cr"} /\ RejectAfter("INVALID_URL")
           \/ Refuse({"text", "sp", "lf", "cr"}, "INVALID_URL")
        /\ UNCHANGED spanVars
     \/ /\ Reads("url")
        /\ \/ Take(UrlByte, "url") /\ UNCHANGED spanVars
           \/ Tok = "sp" /\ EndSpan("span_end_on_url", p)
           \/ Tok = "lf" /\ EndSpan("span_end_on_url_1", p)
           \/ Tok = "cr" /\ EndSpan("span_end_on_url_2", p)
           \/ Refuse(UrlByte \cup {"sp", "lf", "cr"}, "INVALID_URL") /\ UNCHANGED spanVars
  /\ UNCHANGED <<lineVars, headerVars, lifeVars>>

\* After the URL: a version, or the end of an HTTP/0.9 request line.
SkipToHttp ==
  /\ \/ Reads("url_skip_to_http") /\ Take(Tokens, "req_http_start")
     \/ Reads("url_skip_to_http09") /\ Take(Tokens, "url_to_http_09")
     \/ Reads("url_skip_lf_to_http09")
        /\ (Take({"cr"}, "url_skip_lf_to_http09_1") \/ Refuse({"cr"}, "INVALID_URL"))
     \/ Reads("url_skip_lf_to_http09_1")
        /\ (Take({"lf"}, "url_to_http_09") \/ Refuse({"lf"}, "INVALID_URL"))
  /\ UNCHANGED restVars

UrlToHttp09 ==
  /\ Reads("url_to_http_09")
  /\ \/ Tok = "ctl" /\ RejectAfter("INVALID_URL") /\ UNCHANGED version
     \/ Pass(Tokens \ {"ctl"}, "headers_start") /\ version' = <<0, 9>>
  /\ UNCHANGED <<spanVars, type, method, status, headerVars, lifeVars>>

ReadRequestVersion ==
  /\ Reads("req_http_start")
  /\ \/ Take({"sp"}, "req_http_start") /\ UNCHANGED version
     \/ Take(DOMAIN VersionOf, "req_http_complete") /\ version' = VersionOf[Tok]
     \/ Refuse({"sp"} \cup DOMAIN VersionOf, "INVALID_CONSTANT") /\ UNCHANGED version
  /\ UNCHANGED <<spanVars, type, method, status, headerVars, lifeVars>>

EndRequestLine ==
  /\ \/ Reads("req_http_complete")
        /\ \/ Take({"cr"}, "req_http_complete_crlf")
           \/ Tok = "lf" /\ RejectAfter("INVALID_VERSION")
           \/ Refuse({"cr", "lf"}, "INVALID_VERSION")
     \/ Reads("req_http_complete_crlf")
        /\ (Take({"lf"}, "headers_start") \/ Refuse({"lf"}, "STRICT"))
  /\ UNCHANGED restVars

-----------------------------------------------------------------------------
(* The status line *)

ReadResponseVersion ==
  /\ Reads("res_after_start")
  /\ \/ Take(DOMAIN VersionOf, "res_after_version") /\ version' = VersionOf[Tok]
     \/ Refuse(DOMAIN VersionOf, "INVALID_CONSTANT") /\ UNCHANGED version
  /\ UNCHANGED <<spanVars, type, method, status, headerVars, lifeVars>>

ReadStatusCode ==
  /\ \/ /\ Reads("res_after_version")
        /\ \/ Take({"sp"}, "res_status_code") /\ status' = 0
           \/ Refuse({"sp"}, "INVALID_VERSION") /\ UNCHANGED status
     \/ /\ Reads("res_status_code")
        /\ \/ Take(DOMAIN StatusOf, "res_status_code_otherwise") /\ status' = StatusOf[Tok]
           \/ Refuse(DOMAIN StatusOf, "INVALID_STATUS") /\ UNCHANGED status
     \/ /\ Reads("res_status_code_otherwise")
        /\ \/ Take({"cr"}, "res_line_almost_done")
           \/ Take({"sp"}, "span_start_on_status")
           \/ Tok = "lf" /\ RejectAfter("INVALID_STATUS")
           \/ Refuse({"cr", "sp", "lf"}, "INVALID_STATUS")
        /\ UNCHANGED status
  /\ UNCHANGED <<spanVars, type, method, version, headerVars, lifeVars>>

ReadStatus ==
  /\ \/ Reads("span_start_on_status") /\ Go("res_status", p) /\ OpenSpan("on_status")
     \/ /\ Reads("res_status")
        /\ \/ Take(Tokens \ {"cr", "lf"}, "res_status") /\ UNCHANGED spanVars
           \/ Tok = "lf" /\ EndSpan("span_end_on_status", p)
           \/ Tok = "cr" /\ EndSpan("span_end_on_status_1", p)
  /\ UNCHANGED <<lineVars, headerVars, lifeVars>>

EndStatusLine ==
  /\ Reads("res_line_almost_done")
  /\ Take({"lf"}, "headers_start") \/ Refuse({"lf"}, "STRICT")
  /\ UNCHANGED restVars

-----------------------------------------------------------------------------
(* Header fields.  headerState says what the field's name, then its value,   *)
(* means for the framing of the message.                                     *)

HeaderStates == {"GENERAL", "CONNECTION", "CONTENT_LENGTH", "TRANSFER_ENCODING",
                 "UPGRADE", "CONNECTION_KEEP_ALIVE", "CONNECTION_CLOSE",
                 "CONNECTION_UPGRADE", "CHUNKED"}

NameState(t) == CASE t = "Connection"        -> "CONNECTION"
                  [] t = "Content-Length"    -> "CONTENT_LENGTH"
                  [] t = "Transfer-Encoding" -> "TRANSFER_ENCODING"
                  [] t = "Upgrade"           -> "UPGRADE"
                  [] OTHER                   -> "GENERAL"

ConnectionState ==
  [t \in {"close", "upgrade", "keep-alive"} |->
     CASE t = "close"   -> "CONNECTION_CLOSE"
       [] t = "upgrade" -> "CONNECTION_UPGRADE"
       [] OTHER         -> "CONNECTION_KEEP_ALIVE"]

\* The flags a header state stands for (c_or_flags_5 to c_or_flags_8).
StateFlags(h) ==
  h \in {"CONNECTION_KEEP_ALIVE", "CONNECTION_CLOSE", "CONNECTION_UPGRADE", "CHUNKED"}

LineEnds  == {"cr", "lf"}
ValueByte == Tokens \ {"cr", "lf", "ctl"}      \* bytes a header value may hold

HeadersStart ==
  /\ Reads("headers_start")
  /\ \/ Tok = "sp" /\ RejectAfter("UNEXPECTED_SPACE")
     \/ Pass(Tokens \ {"sp"}, "header_field_start")
  /\ UNCHANGED restVars

HeaderFieldStart ==
  /\ Reads("header_field_start")
  /\ \/ Take({"cr"}, "headers_almost_done") /\ UNCHANGED spanVars
     \/ Tok = "lf" /\ RejectAfter("INVALID_HEADER_TOKEN") /\ UNCHANGED spanVars
     \/ Tok = "colon" /\ Reject("INVALID_HEADER_TOKEN") /\ UNCHANGED spanVars
     \/ Pass(Tokens \ {"cr", "lf", "colon"}, "header_field") /\ OpenSpan("on_header_field")
  /\ UNCHANGED <<lineVars, headerVars, lifeVars>>

HeaderField ==
  /\ \/ /\ Reads("header_field")
        /\ \/ /\ Take(HeaderNames \ {"Host"}, "header_field_colon")
              /\ headerState' = NameState(Tok)
           \/ /\ Pass(Tokens \ (HeaderNames \ {"Host"}), "header_field_general")
              /\ headerState' = "GENERAL"
        /\ UNCHANGED spanVars
     \/ /\ Reads("header_field_colon")
        /\ \/ /\ Tok = "sp" /\ EndSpan("span_end_on_header_field", p)
              /\ UNCHANGED headerState
           \/ /\ Tok = "colon" /\ EndSpan("span_end_on_header_field_1", p)
              /\ UNCHANGED headerState
           \/ /\ Pass(Tokens \ {"sp", "colon"}, "header_field_general")
              /\ headerState' = "GENERAL" /\ UNCHANGED spanVars
     \/ /\ Reads("header_field_general")
        /\ \/ Take(Word, "header_field_general") /\ UNCHANGED spanVars
           \/ Tok = "colon" /\ EndSpan("span_end_on_header_field_1", p)
           \/ /\ Refuse(Word \cup {"colon"}, "INVALID_HEADER_TOKEN")
              /\ UNCHANGED spanVars
        /\ UNCHANGED headerState
  /\ UNCHANGED <<lineVars, flags, contentLength, lifeVars>>

\* A mistake: a Content-Length after a Transfer-Encoding is accepted.
LoadHeaderStateUnchecked ==
  /\ At("load_header_state")
  /\ \/ /\ headerState = "TRANSFER_ENCODING" /\ "CONTENT_LENGTH" \in flags
        /\ Reject("INVALID_TRANSFER_ENCODING")
     \/ /\ ~ (headerState = "TRANSFER_ENCODING" /\ "CONTENT_LENGTH" \in flags)
        /\ Go("header_value_discard_ws", p)
  /\ UNCHANGED restVars

\* A mistake: every second header that frames the body is refused.
LoadHeaderStateOnce ==
  /\ At("load_header_state")
  /\ LET framed == {"CONTENT_LENGTH", "TRANSFER_ENCODING"} \cap flags # {}
     IN \/ framed /\ headerState = "CONTENT_LENGTH" /\ Reject("INVALID_CONTENT_LENGTH")
        \/ framed /\ headerState = "TRANSFER_ENCODING" /\ Reject("INVALID_TRANSFER_ENCODING")
        \/ /\ ~framed \/ headerState \notin {"CONTENT_LENGTH", "TRANSFER_ENCODING"}
           /\ Go("header_value_discard_ws", p)
  /\ UNCHANGED restVars

\* A message has one of Content-Length and Transfer-Encoding, never both.
LoadHeaderState ==
  /\ At("load_header_state")
  /\ \/ /\ headerState = "CONTENT_LENGTH" /\ "TRANSFER_ENCODING" \in flags
        /\ Reject("INVALID_CONTENT_LENGTH")
     \/ /\ headerState = "TRANSFER_ENCODING" /\ "CONTENT_LENGTH" \in flags
        /\ Reject("INVALID_TRANSFER_ENCODING")
     \/ /\ ~ (headerState = "CONTENT_LENGTH" /\ "TRANSFER_ENCODING" \in flags)
        /\ ~ (headerState = "TRANSFER_ENCODING" /\ "CONTENT_LENGTH" \in flags)
        /\ Go("header_value_discard_ws", p)
  /\ UNCHANGED restVars

\* The first byte of the value: the span opens and the field's meaning selects
\* how the value is read.  Transfer-Encoding drops an earlier "chunked".
HeaderValueStart ==
  /\ Reads("header_value_discard_ws")
  /\ \/ Take({"sp"}, "header_value_discard_ws") /\ UNCHANGED <<spanVars, headerVars>>
     \/ Tok = "lf" /\ RejectAfter("INVALID_HEADER_TOKEN") /\ UNCHANGED <<spanVars, headerVars>>
     \/ /\ Take({"cr"}, "header_value_discard_ws_almost_done")
        /\ UNCHANGED <<spanVars, headerVars>>
     \/ /\ Tok \notin {"sp", "lf", "cr"}
        /\ \/ /\ headerState = "CONNECTION" /\ Go("header_value_connection", p)
              /\ OpenSpan("on_header_value") /\ UNCHANGED headerVars
           \/ /\ headerState = "CONTENT_LENGTH"
              /\ IF "CONTENT_LENGTH" \in flags
                 THEN Reject("UNEXPECTED_CONTENT_LENGTH")
                 ELSE Go("header_value_content_length", p)
              /\ OpenSpan("on_header_value") /\ UNCHANGED headerVars
           \/ /\ headerState = "TRANSFER_ENCODING"
              /\ IF "CHUNKED" \in flags /\ type = "REQUEST"
                 THEN /\ Call("on_header_value", "span_end_on_header_value_9", p)
                      /\ span' = "none" /\ spanPos' = p
                      /\ UNCHANGED flags
                 ELSE /\ Go("header_value_te_chunked", p)
                      /\ OpenSpan("on_header_value")
                      /\ flags' = (flags \cup {"TRANSFER_ENCODING"}) \ {"CHUNKED"}
              /\ UNCHANGED <<headerState, contentLength>>
           \/ /\ headerState = "UPGRADE"
              /\ Go("header_value", p) /\ OpenSpan("on_header_value")
              /\ flags' = flags \cup {"UPGRADE"} /\ headerState' = "GENERAL"
              /\ UNCHANGED contentLength
           \/ /\ headerState \notin {"CONNECTION", "CONTENT_LENGTH", "TRANSFER_ENCODING", "UPGRADE"}
              /\ Go("header_value", p)
              /\ OpenSpan("on_header_value") /\ UNCHANGED headerVars
  /\ UNCHANGED <<lineVars, lifeVars>>

\* CRLF right after the colon: an empty value.
EmptyHeaderValue ==
  /\ \/ /\ Reads("header_value_discard_ws_almost_done")
        /\ Take({"lf"}, "header_value_discard_lws") \/ Refuse({"lf"}, "STRICT")
        /\ UNCHANGED spanVars
     \/ /\ Reads("header_value_discard_lws")
        /\ \/ Tok = "sp" /\ RejectAfter("INVALID_HEADER_TOKEN") /\ UNCHANGED spanVars
           \/ /\ Tok # "sp" /\ headerState = "CONTENT_LENGTH"
              /\ Reject("INVALID_CONTENT_LENGTH") /\ UNCHANGED spanVars
           \/ /\ Tok # "sp" /\ headerState = "TRANSFER_ENCODING"
              /\ Reject("INVALID_TRANSFER_ENCODING") /\ UNCHANGED spanVars
           \/ /\ Tok # "sp" /\ headerState \notin {"CONTENT_LENGTH", "TRANSFER_ENCODING"}
              /\ Call("on_header_value", "span_end_on_header_value", p)
              /\ span' = "none" /\ spanPos' = p
  /\ UNCHANGED <<lineVars, headerVars, lifeVars>>

\* Connection: a comma-separated list of options.
ConnectionValue ==
  /\ \/ /\ Reads("header_value_connection")
        /\ \/ Take({"sp"}, "header_value_connection") /\ UNCHANGED headerState
           \/ /\ Take(DOMAIN ConnectionState, "header_value_connection_ws")
              /\ headerState' = ConnectionState[Tok]
           \/ /\ Pass(Tokens \ ({"sp"} \cup DOMAIN ConnectionState), "header_value_connection_token")
              /\ UNCHANGED headerState
        /\ UNCHANGED flags
     \/ /\ Reads("header_value_connection_ws")
        /\ \/ Take({"sp"}, "header_value_connection_ws") /\ UNCHANGED <<headerState, flags>>
           \/ Pass(LineEnds, "header_value_otherwise") /\ UNCHANGED <<headerState, flags>>
           \/ /\ Take({"comma"}, "header_value_connection")
              /\ flags' = IF StateFlags(headerState) THEN flags \cup {headerState} ELSE flags
              /\ headerState' = "CONNECTION"
           \/ /\ Pass(Tokens \ ({"sp", "comma"} \cup LineEnds), "header_value_connection_token")
              /\ headerState' = "GENERAL" /\ UNCHANGED flags
     \/ /\ Reads("header_value_connection_token")
        /\ \/ Take({"comma"}, "header_value_connection")
           \/ Take(ValueByte \ {"comma"}, "header_value_connection_token")
           \/ Pass(Tokens \ ValueByte, "header_value_otherwise")
        /\ UNCHANGED <<headerState, flags>>
  /\ UNCHANGED <<spanVars, lineVars, contentLength, lifeVars>>

\* mul_add_content_length: one more digit of a length in the given base.  The
\* product is stored before the sum is tested.
Overflows(base_, digit) == contentLength * base_ > MaxLength - digit
MulAdd(base_, digit) ==
  LET product == contentLength * base_
  IN contentLength' = IF product > MaxLength THEN contentLength
                      ELSE IF Overflows(base_, digit) THEN product ELSE product + digit

ContentLengthValue ==
  /\ \/ /\ Reads("header_value_content_length") /\ Tok \in DOMAIN DigitOf
        /\ \/ /\ ~Overflows(10, DigitOf[Tok])
              /\ Go("header_value_content_length", p + 1) /\ UNCHANGED spanVars
           \/ /\ Overflows(10, DigitOf[Tok])
              /\ EndSpan("span_end_on_header_value_6", p + 1)
        /\ MulAdd(10, DigitOf[Tok]) /\ UNCHANGED flags
     \/ /\ Reads("header_value_content_length")
        /\ Pass(Tokens \ DOMAIN DigitOf, "header_value_content_length_ws")
        /\ UNCHANGED <<spanVars, flags, contentLength>>
     \/ /\ Reads("header_value_content_length_ws")
        /\ \/ /\ Take({"sp"}, "header_value_content_length_ws")
              /\ UNCHANGED <<spanVars, flags>>
           \/ /\ Pass(LineEnds, "header_value_otherwise")
              /\ flags' = flags \cup {"CONTENT_LENGTH"} /\ UNCHANGED spanVars
           \/ /\ Tok \notin {"sp"} \cup LineEnds
              /\ EndSpan("span_end_on_header_value_7", p) /\ UNCHANGED flags
        /\ UNCHANGED contentLength
  /\ UNCHANGED <<lineVars, headerState, lifeVars>>

\* Transfer-Encoding: only a "chunked" that ends the list frames the body.
TransferEncodingValue ==
  /\ \/ /\ Reads("header_value_te_chunked")
        /\ \/ Take({"chunked"}, "header_value_te_chunked_last")
           \/ Pass(Tokens \ {"chunked"}, "header_value_te_token")
        /\ UNCHANGED <<spanVars, headerState>>
     \/ /\ Reads("header_value_te_chunked_last")
        /\ \/ /\ Take({"sp"}, "header_value_te_chunked_last")
              /\ UNCHANGED <<spanVars, headerState>>
           \/ /\ Pass(LineEnds, "header_value_otherwise")
              /\ headerState' = "CHUNKED" /\ UNCHANGED spanVars
           \/ /\ Tok = "comma" /\ type = "REQUEST"
              /\ EndSpan("span_end_on_header_value_8", p) /\ UNCHANGED headerState
           \/ /\ type # "REQUEST" /\ Pass({"comma"}, "header_value_te_chunked")
              /\ UNCHANGED <<spanVars, headerState>>
           \/ /\ Pass(Tokens \ ({"sp", "comma"} \cup LineEnds), "header_value_te_token")
              /\ UNCHANGED <<spanVars, headerState>>
     \/ /\ Reads("header_value_te_token")
        /\ \/ /\ Take({"comma"}, "header_value_te_token_ows")
              /\ UNCHANGED headerState
           \/ /\ Take(ValueByte \ {"comma"}, "header_value_te_token")
              /\ UNCHANGED headerState
           \/ /\ Pass(Tokens \ ValueByte, "header_value")
              /\ headerState' = "GENERAL"
        /\ UNCHANGED spanVars
     \/ /\ Reads("header_value_te_token_ows")
        /\ \/ Take({"sp"}, "header_value_te_token_ows")
           \/ Pass(Tokens \ {"sp"}, "header_value_te_chunked")
        /\ UNCHANGED <<spanVars, headerState>>
  /\ UNCHANGED <<lineVars, flags, contentLength, lifeVars>>

HeaderValue ==
  /\ \/ /\ Reads("header_value")
        /\ \/ Take(ValueByte, "header_value")
           \/ Pass(Tokens \ ValueByte, "header_value_otherwise")
        /\ UNCHANGED spanVars
     \/ /\ Reads("header_value_otherwise")
        /\ \/ Tok = "lf" /\ EndSpan("span_end_on_header_value_1", p)
           \/ Tok = "cr" /\ EndSpan("span_end_on_header_value_2", p)
           \/ Tok \notin LineEnds /\ EndSpan("span_end_on_header_value_3", p)
  /\ UNCHANGED <<lineVars, headerVars, lifeVars>>

\* The end of the line: what the field means becomes a flag of the message.
EndHeaderValue ==
  /\ \/ /\ Reads("header_value_almost_done")
        /\ Take({"lf"}, "header_value_lws") \/ Refuse({"lf"}, "LF_EXPECTED")
        /\ UNCHANGED <<headerState, flags>>
     \/ /\ Reads("header_value_lws")
        /\ \/ Tok = "sp" /\ Reject("INVALID_HEADER_TOKEN") /\ UNCHANGED <<headerState, flags>>
           \/ /\ Pass(Tokens \ {"sp"}, "header_field_start")
              /\ IF StateFlags(headerState)
                 THEN /\ flags' = flags \cup {headerState}
                      /\ headerState' = IF headerState = "CHUNKED" THEN headerState ELSE "CONNECTION"
                 ELSE UNCHANGED <<headerState, flags>>
  /\ UNCHANGED <<spanVars, lineVars, contentLength, lifeVars>>

HeadersAlmostDone ==
  /\ Reads("headers_almost_done")
  /\ \/ /\ "TRAILING" \in flags /\ Take({"lf"}, "on_chunk_complete_2")
        /\ UNCHANGED upgrade
     \/ /\ "TRAILING" \notin flags /\ Take({"lf"}, "on_headers_complete")
        /\ upgrade' = UpgradeWanted(type, method, status, flags)
     \/ Refuse({"lf"}, "STRICT") /\ UNCHANGED upgrade
  /\ UNCHANGED <<spanVars, lineVars, headerVars, finish, initialDone>>

-----------------------------------------------------------------------------
(* The body *)

AfterHeadersComplete ==
  /\ At("after_headers_complete")
  /\ LET kind == BodyKind(type, method, status, flags, contentLength, upgrade)
     IN /\ \/ kind = "none"     /\ Go("on_message_complete", p)
           \/ kind = "upgrade"  /\ Go("on_message_complete_1", p)
           \/ kind = "chunked"  /\ Go("update_content_length_1", p)
           \/ kind = "identity" /\ Go("span_start_on_body_1", p)
           \/ kind = "eof"      /\ Go("span_start_on_body_2", p)
           \/ kind = "invalid"  /\ Reject("INVALID_TRANSFER_ENCODING")
        /\ finish' = IF kind = "eof" THEN "SAFE_WITH_CB" ELSE finish
  /\ UNCHANGED <<spanVars, lineVars, headerVars, upgrade, initialDone>>

StartBody ==
  /\ \/ Reads("span_start_on_body")   /\ Go("consume_content_length", p)
     \/ Reads("span_start_on_body_1") /\ Go("consume_content_length_1", p)
     \/ Reads("span_start_on_body_2") /\ Go("eof", p)
  /\ OpenSpan("on_body")
  /\ UNCHANGED <<lineVars, headerVars, lifeVars>>

\* A mistake: the bytes are not consumed.
ReadToEofInPlace == Reads("eof") /\ Go("eof", p) /\ UNCHANGED restVars

ReadToEof == Reads("eof") /\ Go("eof", end) /\ UNCHANGED restVars

\* A mistake: the body is taken to end one byte late.
ConsumeOneTooMany(here, spanEnd) ==
  /\ At(here)
  /\ EndSpan(spanEnd, p + contentLength + 1)
  /\ contentLength' = 0
  /\ UNCHANGED <<lineVars, lifeVars, headerState, flags>>

\* The chunk's end may come before the body's: the length left is remembered.
ConsumeContentLength(here, spanEnd) ==
  /\ At(here)
  /\ \/ /\ contentLength <= end - p
        /\ EndSpan(spanEnd, p + contentLength)
        /\ contentLength' = 0
        /\ UNCHANGED <<lineVars, lifeVars>>
     \/ /\ contentLength > end - p
        /\ Suspend(here)
        /\ contentLength' = contentLength - (end - p)
  /\ UNCHANGED <<headerState, flags>>

ConsumeBody == \/ ConsumeContentLength("consume_content_length", "span_end_on_body")
               \/ ConsumeContentLength("consume_content_length_1", "span_end_on_body_1")

-----------------------------------------------------------------------------
(* Chunked bodies *)

UpdateContentLength1 ==
  /\ At("update_content_length_1")
  /\ contentLength' = 0
  /\ Go("chunk_size_digit", p)
  /\ UNCHANGED <<spanVars, lineVars, headerState, flags, lifeVars>>

ReadChunkSize ==
  /\ \/ /\ Reads("chunk_size_digit") \/ Reads("chunk_size")
        /\ Tok \in DOMAIN DigitOf
        /\ \/ ~Overflows(16, DigitOf[Tok]) /\ Go("chunk_size", p + 1)
           \/ Overflows(16, DigitOf[Tok]) /\ RejectAfter("INVALID_CHUNK_SIZE")
        /\ MulAdd(16, DigitOf[Tok])
     \/ /\ Reads("chunk_size_digit")
        /\ Refuse(DOMAIN DigitOf, "INVALID_CHUNK_SIZE")
        /\ UNCHANGED contentLength
     \/ /\ Reads("chunk_size") /\ Tok \notin DOMAIN DigitOf
        /\ \/ Take({"cr"}, "chunk_size_almost_done")
           \/ Take({"semicolon"}, "chunk_extensions")
           \/ Tok = "lf" /\ RejectAfter("CR_EXPECTED")
           \/ Tok = "sp" /\ RejectAfter("INVALID_CHUNK_SIZE")
           \/ Refuse({"cr", "semicolon", "lf", "sp"}, "INVALID_CHUNK_SIZE")
        /\ UNCHANGED contentLength
  /\ UNCHANGED <<spanVars, lineVars, headerState, flags, lifeVars>>

\* Chunk extensions are skipped: the program registers no callback for them.
ChunkExtensions ==
  /\ \/ /\ Reads("chunk_extensions")
        /\ \/ Tok \in {"cr", "sp"} /\ RejectAfter("STRICT")
           \/ Pass(Tokens \ {"cr", "sp"}, "chunk_extension_name")
     \/ /\ Reads("chunk_extension_name")
        /\ \/ Take(Word, "chunk_extension_name")
           \/ Take({"cr"}, "chunk_size_almost_done")
           \/ Take({"semicolon"}, "chunk_extensions")
           \/ Tok = "lf" /\ Reject("CR_EXPECTED")
           \/ Tok \notin Word \cup {"cr", "semicolon", "lf"} /\ RejectAfter("STRICT")
  /\ UNCHANGED restVars

EndChunkLine ==
  /\ \/ /\ Reads("chunk_size_almost_done")
        /\ Take({"lf"}, "on_chunk_header") \/ Refuse({"lf"}, "STRICT")
     \/ /\ Reads("chunk_data_almost_done")
        /\ \/ Take({"cr"}, "chunk_data_almost_done_1")
           \/ Tok = "lf" /\ RejectAfter("CR_EXPECTED")
           \/ Refuse({"cr", "lf"}, "STRICT")
     \/ /\ Reads("chunk_data_almost_done_1")
        /\ Take({"lf"}, "on_chunk_complete") \/ Refuse({"lf"}, "STRICT")
  /\ UNCHANGED restVars

\* A mistake: trailers are not told from the header section.
LastChunkUnmarked ==
  /\ At("is_equal_content_length")
  /\ Go(IF contentLength = 0 THEN "header_field_start" ELSE "span_start_on_body", p)
  /\ UNCHANGED restVars

\* A chunk of size 0 is the last one: trailers follow, read as header fields.
LastChunk ==
  /\ At("is_equal_content_length")
  /\ \/ /\ contentLength = 0
        /\ flags' = flags \cup {"TRAILING"} /\ Go("header_field_start", p)
     \/ contentLength # 0 /\ Go("span_start_on_body", p) /\ UNCHANGED flags
  /\ UNCHANGED <<spanVars, lineVars, headerState, contentLength, lifeVars>>

-----------------------------------------------------------------------------
(* After the message *)

IsEqualUpgrade ==
  /\ At("is_equal_upgrade")
  /\ Go(IF upgrade THEN "pause_1" ELSE "after_message_complete", p)
  /\ UNCHANGED restVars

PauseForUpgrade == /\ At("pause_1")
                   /\ Stop("PAUSED_UPGRADE", p, "after_message_complete")
                   /\ UNCHANGED restVars

\* A mistake: the flags are cleared before keep-alive is judged by them.
AfterMessageForgets ==
  /\ At("after_message_complete")
  /\ flags' = {} /\ finish' = "SAFE"
  /\ IF ShouldKeepAlive(type, status, version, {})
     THEN Go("start", p) /\ contentLength' = 0 /\ initialDone' = TRUE
     ELSE Go("closed", p) /\ UNCHANGED <<contentLength, initialDone>>
  /\ UNCHANGED <<spanVars, lineVars, headerState, upgrade>>

\* llhttp__after_message_complete clears the flags: keep-alive is judged before.
AfterMessageComplete ==
  /\ At("after_message_complete")
  /\ flags' = {} /\ finish' = "SAFE"
  /\ IF ShouldKeepAlive(type, status, version, flags)
     THEN Go("start", p) /\ contentLength' = 0 /\ initialDone' = TRUE
     ELSE Go("closed", p) /\ UNCHANGED <<contentLength, initialDone>>
  /\ UNCHANGED <<spanVars, lineVars, headerState, upgrade>>

Closed ==
  /\ Reads("closed")
  /\ \/ Take(LineEnds, "closed")
     \/ Tok \notin LineEnds /\ RejectAfter("CLOSED_CONNECTION")
  /\ UNCHANGED restVars

-----------------------------------------------------------------------------
(* Callbacks: where the run loop calls out, and what it does with the answer *)

Invoke ==
  /\ Running
  /\ \/ at \in DOMAIN Notify /\ Call(Notify[at].cb, at, p)
     \/ at = "on_headers_complete" /\ Call("on_headers_complete", at, p)
  /\ UNCHANGED restVars

FailDeferred == /\ Running /\ at \in DOMAIN DeferredError
                /\ Reject(DeferredError[at])
                /\ UNCHANGED restVars

\* The callback has returned 0: the run loop goes on at l.
Resume(l, q) == /\ at' = l /\ p' = q /\ cb' = "none"
                /\ UNCHANGED <<stopVars, op, base, end, rc, saved, stream>>

Calling(ls) == op = "execute" /\ cb # "none" /\ at \in ls

NotifyReturns(r) ==
  /\ Calling(DOMAIN Notify)
  /\ \/ r = 0  /\ Resume(Notify[at].next, p)
     \/ r = 21 /\ Stop("PAUSED", p, Notify[at].next)
     \/ r \notin {0, 21} /\ Stop(Notify[at].err, p, "s_error")
  /\ UNCHANGED restVars

\* A mistake: the delimiter is not consumed.
SpanReturnsAtDelimiter(r) ==
  /\ Calling(DOMAIN SpanEnd)
  /\ \/ r = 0 /\ Resume(SpanEnd[at].next, p)
     \/ r # 0 /\ Stop(ErrnoOf(r), p, SpanEnd[at].next)
  /\ UNCHANGED restVars

\* A span's callback has no error of its own: its answer is the errno.
SpanReturns(r) ==
  /\ Calling(DOMAIN SpanEnd)
  /\ \/ r = 0 /\ Resume(SpanEnd[at].next, p + SpanEnd[at].skip)
     \/ r # 0 /\ Stop(ErrnoOf(r), p + SpanEnd[at].skip, SpanEnd[at].next)
  /\ UNCHANGED restVars

\* on_headers_complete answers 1 to skip the body, 2 to leave HTTP.
HeadersCompleteReturns(r) ==
  /\ Calling({"on_headers_complete"})
  /\ \/ r \in {0, 1, 2} /\ Resume("after_headers_complete", p)
     \/ r = 21 /\ Stop("PAUSED", p, "after_headers_complete")
     \/ r \notin {0, 1, 2, 21} /\ Stop("CB_HEADERS_COMPLETE", p, "s_error")
  /\ flags' = IF r \in {1, 2} THEN flags \cup {"SKIPBODY"} ELSE flags
  /\ upgrade' = (upgrade \/ r = 2)
  /\ UNCHANGED <<spanVars, lineVars, headerState, contentLength, finish, initialDone>>

\* A mistake: an error of the flush does not set error_pos.
FlushReturnsInPlace(r) ==
  /\ Calling({"flush"})
  /\ at' = "return" /\ cb' = "none" /\ rc' = ErrnoOf(r)
  /\ error' = IF r = 0 THEN error ELSE ErrnoOf(r)
  /\ UNCHANGED <<errorPos, current, op, base, end, p, saved, stream, restVars>>

FlushReturns(r) ==
  /\ Calling({"flush"})
  /\ at' = "return" /\ cb' = "none" /\ rc' = ErrnoOf(r)
  /\ IF r = 0 THEN UNCHANGED <<error, errorPos>>
     ELSE error' = ErrnoOf(r) /\ errorPos' = Here(end)
  /\ UNCHANGED <<current, op, base, end, p, saved, stream, restVars>>

\* llhttp_finish hands the answer back and leaves the parser as it is.
FinishReturns(r) ==
  /\ op = "finish" /\ cb # "none"
  /\ at' = "return" /\ cb' = "none" /\ rc' = ErrnoOf(r)
  /\ UNCHANGED <<stopVars, op, base, end, p, saved, stream, restVars>>

CallbackReturns(r) ==
  \/ NotifyReturns(r) \/ SpanReturns(r) \/ HeadersCompleteReturns(r)
  \/ FlushReturns(r) \/ FinishReturns(r)

\* One step of the run loop of llhttp__internal_execute.
RunStep ==
  \/ EndOfInput \/ Start \/ UpdateFinish \/ LoadType \/ StartReqOrRes
  \/ ReadMethod \/ ReadSpaceBeforeUrl \/ ReadUrl \/ SkipToHttp \/ UrlToHttp09
  \/ ReadRequestVersion \/ EndRequestLine
  \/ ReadResponseVersion \/ ReadStatusCode \/ ReadStatus \/ EndStatusLine
  \/ HeadersStart \/ HeaderFieldStart \/ HeaderField \/ LoadHeaderState
  \/ HeaderValueStart \/ EmptyHeaderValue \/ ConnectionValue \/ ContentLengthValue
  \/ TransferEncodingValue \/ HeaderValue \/ EndHeaderValue \/ HeadersAlmostDone
  \/ AfterHeadersComplete \/ StartBody \/ ReadToEof \/ ConsumeBody
  \/ UpdateContentLength1 \/ ReadChunkSize \/ ChunkExtensions \/ EndChunkLine
  \/ LastChunk \/ IsEqualUpgrade \/ PauseForUpgrade \/ AfterMessageComplete \/ Closed
  \/ Invoke \/ FailDeferred

-----------------------------------------------------------------------------
(* The API, called between executions or from a callback *)

ProgramRuns == op = "none" \/ cb # "none"

Frame == [op |-> op, base |-> base, end |-> end, p |-> p, at |-> at, cb |-> cb, rc |-> rc]
Idle  == [op |-> "none", base |-> 0, end |-> 0, p |-> 0, at |-> "return",
          cb |-> "none", rc |-> "OK"]

Load(f) == /\ op' = f.op /\ base' = f.base /\ end' = f.end /\ p' = f.p
           /\ at' = f.at /\ cb' = f.cb /\ rc' = f.rc

\* Calls start with these registers; a call made from a callback interrupts one.
Enter(f) == /\ ProgramRuns
            /\ Load(f)
            /\ saved' = IF op = "none" THEN saved ELSE Append(saved, Frame)
            /\ UNCHANGED <<stream, stopVars, span, lineVars, headerVars, lifeVars>>

\* The call's frame goes, and with it the chunk errorPos may point into.
Leave == LET outer == Len(saved)
         IN /\ Load(IF outer = 0 THEN Idle ELSE saved[outer])
            /\ saved' = IF outer = 0 THEN saved ELSE SubSeq(saved, 1, outer - 1)
            /\ errorPos' = IF errorPos.buf = Depth THEN Nowhere ELSE errorPos
            /\ UNCHANGED <<stream, current, error, spanVars, lineVars, headerVars, lifeVars>>

\* Two mistakes: a lingering error is not looked at; an open span still starts in
\* the chunk before.
ExecuteAnyway(b, n) ==
  /\ Enter([op |-> "execute", base |-> b, end |-> b + n, p |-> b, cb |-> "none",
            at |-> current, rc |-> error])
  /\ spanPos' = IF span # "none" THEN b ELSE spanPos
ExecuteInOldSpan(b, n) ==
  /\ Enter([op |-> "execute", base |-> b, end |-> b + n, p |-> b, cb |-> "none",
            at |-> IF error = "OK" THEN current ELSE "return", rc |-> error])
  /\ UNCHANGED spanPos

\* llhttp_execute on the n bytes after b.  A lingering error is answered as it is.
llhttp_execute(b, n) ==
  /\ Enter([op |-> "execute", base |-> b, end |-> b + n, p |-> b, cb |-> "none",
            at |-> IF error = "OK" THEN current ELSE "return", rc |-> error])
  /\ spanPos' = IF error = "OK" /\ span # "none" THEN b ELSE spanPos

llhttp_finish(b) ==
  LET calls == error = "OK" /\ finish = "SAFE_WITH_CB"
  IN /\ Enter([op |-> "finish", base |-> b, end |-> b, p |-> b,
               at |-> IF calls THEN "finish" ELSE "return",
               cb |-> IF calls THEN "on_message_complete" ELSE "none",
               rc |-> IF error = "OK" /\ finish = "UNSAFE" THEN "INVALID_EOF_STATE" ELSE "OK"])
     /\ UNCHANGED spanPos

\* A mistake: the run loop goes on where it was.
ResetInPlace ==
  /\ ProgramRuns
  /\ error' = "OK" /\ errorPos' = Nowhere /\ span' = "none" /\ spanPos' = 0
  /\ method' = "OTHER" /\ status' = 0 /\ version' = <<0, 0>>
  /\ headerState' = "GENERAL" /\ flags' = {} /\ contentLength' = 0
  /\ upgrade' = FALSE /\ finish' = "SAFE" /\ initialDone' = FALSE
  /\ UNCHANGED <<current, type, registers, saved, stream>>

\* llhttp_reset keeps the type alone.
llhttp_reset ==
  /\ ProgramRuns
  /\ current' = "start" /\ error' = "OK" /\ errorPos' = Nowhere
  /\ span' = "none" /\ spanPos' = 0
  /\ method' = "OTHER" /\ status' = 0 /\ version' = <<0, 0>>
  /\ headerState' = "GENERAL" /\ flags' = {} /\ contentLength' = 0
  /\ upgrade' = FALSE /\ finish' = "SAFE" /\ initialDone' = FALSE
  /\ UNCHANGED <<type, registers, saved, stream>>

SetError(from, to) ==
  /\ ProgramRuns
  /\ error' = IF error = from THEN to ELSE error
  /\ UNCHANGED <<current, errorPos, restVars, registers, saved, stream>>

llhttp_pause                == SetError("OK", "PAUSED")
llhttp_resume               == SetError("PAUSED", "OK")
llhttp_resume_after_upgrade == SetError("PAUSED_UPGRADE", "OK")

\* llhttp_init
InitParser ==
  /\ current = "start" /\ error = "OK" /\ errorPos = Nowhere
  /\ span = "none" /\ spanPos = 0
  /\ type \in Types /\ method = "OTHER" /\ status = 0 /\ version = <<0, 0>>
  /\ headerState = "GENERAL" /\ flags = {} /\ contentLength = 0
  /\ upgrade = FALSE /\ finish = "SAFE" /\ initialDone = FALSE
  /\ op = "none" /\ base = 0 /\ end = 0 /\ p = 0 /\ at = "return" /\ cb = "none" /\ rc = "OK"
  /\ saved = <<>>
  /\ stream \in Streams

Codes  == Errors \cup {"INVALID_EOF_STATE"}      \* what a call can answer
Calls  == {"execute", "finish"}
Frames == [op : Calls, base : Nat, end : Nat, p : Nat, at : Labels,
           cb : Callbacks, rc : Codes]

\* The fields of llhttp_t and the registers hold values of their types, and the
\* read position stays inside the chunk, the chunk inside the stream.
TypeOK ==
  /\ current \in Labels /\ error \in Errors /\ errorPos \in [buf : Nat, off : Nat]
  /\ span \in Spans \cup {"none"} /\ spanPos \in Nat
  /\ type \in Types /\ method \in Methods /\ status \in Nat /\ version \in Versions
  /\ headerState \in HeaderStates /\ flags \subseteq Flags
  /\ contentLength \in 0..MaxLength
  /\ upgrade \in BOOLEAN /\ finish \in {"SAFE", "SAFE_WITH_CB", "UNSAFE"}
  /\ initialDone \in BOOLEAN
  /\ op \in Calls \cup {"none"} /\ at \in Labels /\ cb \in Callbacks \cup {"none"}
  /\ rc \in Codes
  /\ base \in Nat /\ end \in Nat /\ p \in Nat
  /\ base <= p /\ p <= end /\ end <= Len(stream)
  /\ saved \in Seq(Frames)
  /\ \A i \in DOMAIN saved : /\ saved[i].base <= saved[i].p /\ saved[i].p <= saved[i].end
                            /\ saved[i].end <= Len(stream)
  /\ stream \in Streams
=============================================================================
