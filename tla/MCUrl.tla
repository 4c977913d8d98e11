-------------------------------- MODULE MCUrl --------------------------------
(***************************************************************************)
(* LlUrl on every URL of a few bytes that tell the parser's cases apart.   *)
(***************************************************************************)
EXTENDS LlUrl

CONSTANTS MaxBytes        \* how many bytes a URL has behind its prefix

G == INSTANCE UrlGrammar
L == INSTANCE LhttpUrl WITH BufSize <- 2048, Junk <- 0
LOCAL INSTANCE SequencesExt

a == 97   z == 122   Zero == 48   Six == 54

\* One byte of each kind, a letter that is hexadecimal and one that is not.
Bytes == {a, z, Six, Colon, Slash, Question, Hash, At, Open, Close, Percent, 126}

Texts(S, n)  == UNION {[1..k -> S] : k \in 0..n}
Behind(p, T) == {p \o t : t \in T}

ws == <<119, 115, 58>>
MCUrls ==
  Texts(Bytes, MaxBytes)
  \cup Behind(<<Slash, Slash>>, Texts(Bytes, MaxBytes))
  \cup Behind(ws \o <<Slash, Slash>>, Texts(Bytes \ {z, 126}, MaxBytes))
  \cup Behind(ws, Texts({Slash, Colon, a}, 3))
  \cup Behind(<<a, Colon>>, Texts({Slash, Colon, a}, 3))
  \cup {s[1] \o t : s \in Quick, t \in {<<Colon>>, <<Colon, Slash, Slash, a>>, <<a>>, <<>>}}
  \cup Behind(<<Slash>>, Texts({a, Question, Hash, 34}, 4))
  \cup Behind(<<Slash, Slash, a, Percent>>, Texts({a, z, Colon, Slash}, 4))
  \cup Behind(<<Slash, Slash, a, Colon>>, Texts({Zero, Six, 53}, 6))
  \cup Behind(<<Slash, Slash, a, Colon>>, Behind(<<Six, 53, 53, 51>>, Texts({53, Six, Slash}, 3)))
  \cup Behind(<<Slash, Slash, Open, a>>, Texts({Colon, Close, Percent, Six, Slash, At}, 4))

-----------------------------------------------------------------------------
Done      == pc = "done"
Literal   == \E k \in 1..buflen : buf[k] = Open

\* The parser accepts the URLs of the grammar, and no other that has no bracket; no
\* field or flag left by an early turn makes it accept or refuse one (llurl.c 711-1208).
AcceptsGrammar ==
  Done => /\ G!Accepts(buf, is_connect) => rc = "ok"
          /\ rc = "ok" => G!Accepts(buf, is_connect) \/ Literal

\* The table Lua is given has the parts of the URL, and the port is their number: each
\* field's offset and length come from turns apart, and a later turn may take the
\* bytes of an earlier one (userinfo and host, host and port) for itself.
FieldsAreParts ==
  Done /\ rc = "ok" /\ G!Accepts(buf, is_connect) =>
    LET table == L!lhttp_parser_parse_url(buf, u) IN
    /\ table = [name \in {L!LuaName[p[1]] : p \in G!Parts(buf, is_connect)} |->
                  (CHOOSE p \in G!Parts(buf, is_connect) : L!LuaName[p[1]] = name)[2]]
    /\ u.port = IF "PORT" \in u.set THEN G!Value(table["port"]) ELSE 0

\* The loop of turns ends on every URL: some turns scan ahead and then step back
\* for the next one (i = j - 1, i--), and must still get on.
Terminates == <>Done
=============================================================================
