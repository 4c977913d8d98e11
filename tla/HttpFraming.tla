----------------------------- MODULE HttpFraming -----------------------------
(***************************************************************************)
(* The decisions llhttp takes about a message once its header section is   *)
(* over (llhttp/src/http.c): does the connection leave HTTP, how is the    *)
(* body delimited, may another message follow.  They are functions of the  *)
(* parser's fields, so they are operators here, used by Llhttp and compared *)
(* with the rules of RFC 7230 by MCFraming.                                *)
(*                                                                         *)
(* The lenient_flags are all zero: the Lua binding exposes no setter.      *)
(***************************************************************************)
EXTENDS Integers

Flags == {"CONNECTION_KEEP_ALIVE", "CONNECTION_CLOSE", "CONNECTION_UPGRADE",
          "CHUNKED", "UPGRADE", "CONTENT_LENGTH", "SKIPBODY", "TRAILING",
          "TRANSFER_ENCODING"}

Types    == {"BOTH", "REQUEST", "RESPONSE"}
Methods  == {"CONNECT", "OTHER"}
Versions == Nat \X Nat                              \* <<http_major, http_minor>>

\* What llhttp__after_headers_complete answers, in the order of its codes 0..5.
Bodies == {"none", "upgrade", "chunked", "identity", "eof", "invalid"}

-----------------------------------------------------------------------------
\* llhttp__before_headers_complete: the value given to parser->upgrade.
UpgradeWanted(type, method, status, flags) ==
  IF {"UPGRADE", "CONNECTION_UPGRADE"} \subseteq flags
  THEN type = "REQUEST" \/ status = 101
  ELSE method = "CONNECT"

\* llhttp_message_needs_eof
MessageNeedsEof(type, status, flags) ==
  /\ type # "REQUEST"
  /\ ~ (status \div 100 = 1 \/ status \in {204, 304} \/ "SKIPBODY" \in flags)
  /\ \/ "TRANSFER_ENCODING" \in flags /\ "CHUNKED" \notin flags
     \/ {"CHUNKED", "CONTENT_LENGTH"} \cap flags = {}

\* A mistake for the runs to notice: HTTP/1.0 connections persist too.
KeepAliveByDefault(type, status, version, flags) ==
  "CONNECTION_CLOSE" \notin flags /\ ~ MessageNeedsEof(type, status, flags)

\* llhttp_should_keep_alive
ShouldKeepAlive(type, status, version, flags) ==
  /\ IF version[1] > 0 /\ version[2] > 0
     THEN "CONNECTION_CLOSE" \notin flags
     ELSE "CONNECTION_KEEP_ALIVE" \in flags
  /\ ~ MessageNeedsEof(type, status, flags)

\* A mistake: a coding other than chunked does not delimit the body.
BodyKindByLength(type, method, status, flags, contentLength, upgrade) ==
  IF upgrade THEN "upgrade"
  ELSE IF "CHUNKED" \in flags THEN "chunked"
  ELSE IF contentLength > 0 THEN "identity" ELSE "none"

\* llhttp__after_headers_complete
BodyKind(type, method, status, flags, contentLength, upgrade) ==
  LET response == type = "RESPONSE"
      hasBody  == "CHUNKED" \in flags \/ contentLength > 0
      leaves   == \/ upgrade /\ (method = "CONNECT" \/ "SKIPBODY" \in flags \/ ~hasBody)
                  \/ response /\ status = 101
      bodiless == \/ "SKIPBODY" \in flags
                  \/ response /\ status \in {100, 102, 103, 204, 304}
      toEnd    == MessageNeedsEof(type, status, flags)
  IN IF leaves                              THEN "upgrade"
     ELSE IF bodiless                       THEN "none"
     ELSE IF "CHUNKED" \in flags            THEN "chunked"
     ELSE IF "TRANSFER_ENCODING" \in flags  THEN IF type = "REQUEST" THEN "invalid" ELSE "eof"
     ELSE IF "CONTENT_LENGTH" \in flags     THEN IF contentLength = 0 THEN "none" ELSE "identity"
     ELSE IF toEnd                          THEN "eof" ELSE "none"
=============================================================================
