------------------------------- MODULE Redaction -------------------------------
(***************************************************************************)
(* What may reach the disk of a log record or a panic message              *)
(* (src-tauri/src/reliability): three passes over the text (redaction.rs), *)
(* applied by the writer in front of the log file (logging.rs) and, with   *)
(* the user's name taken out of paths, to the text of a crash dump         *)
(* (crash_reporter.rs).                                                    *)
(*                                                                         *)
(* A text is a sequence of tokens [kind, at].  A kind stands for the       *)
(* strings the passes treat alike; `at' is where the token stood in the    *)
(* record, so that a value can be told from another one.                   *)
(***************************************************************************)
EXTENDS Integers, Sequences, SequencesExt, FiniteSets

CONSTANTS
  TokenKinds,  \* the kinds of token a record is made of
  MaxTokens    \* bound: tokens of a record

AllKinds == {"key", "auth", "bearer", "word", "colon", "space", "quote", "comma", "semi",
             "eol", "pem", "cert", "end", "home", "marker"}

ASSUME RedactionAssumption ==
  /\ TokenKinds \subseteq AllKinds \ {"marker"}
  /\ MaxTokens \in Nat

VARIABLES
  record,  \* the text that is being put together
  written  \* what was written last, and into which file

redactionVars == <<record, written>>

\* key: one of SENSITIVE_KEYS; colon: ':' or '='; quote: '"' or "'"; comma: ',' or
\* '}', which end every value; semi: ';', '&' or ']', which end a value but not a
\* header; pem, cert: "-----BEGIN", with PRIVATE KEY behind it or not; end:
\* "-----END ... PRIVATE KEY-----"; home: the part of a path before the user's name.
Names == {"key", "auth", "bearer", "word"}

\* at_word_start: a dash and an underscore are part of a word.
AtWordStart(s, i) == i = 1 \/ s[i - 1].kind \notin Names \cup {"pem", "cert", "end"}

\* match_keyword
MatchKeyword(s, i, kind) ==
  /\ s[i].kind = kind
  /\ i = Len(s) \/ s[i + 1].kind \notin Names

\* The first place from i on where one of the kinds stands, or the end.
FirstOf(s, i, kinds) ==
  CHOOSE j \in i .. Len(s) + 1 :
    /\ j = Len(s) + 1 \/ s[j].kind \in kinds
    /\ \A m \in i .. j - 1 : s[m].kind \notin kinds
FirstOther(s, i, kinds) == FirstOf(s, i, AllKinds \ kinds)

SkipSeparators(s, i) == FirstOther(s, i, {"space", "colon", "quote"})
HadSeparator(s, i, j) == \E m \in i .. j - 1 : s[m].kind = "colon"
SkipSpaces(s, i) == FirstOther(s, i, {"space"})
ConsumeValue(s, i) == FirstOf(s, i, {"space", "eol", "semi", "quote", "comma"})
ConsumeToLineEnd(s, i) == FirstOf(s, i, {"eol", "quote", "comma"})

Token(kind) == [kind |-> kind, at |-> 0]
Marker == Token("marker")

\* A pass: from left to right, a token is copied or Found tells what stands for
\* it and for all that comes before `next'.
Copied(s, i) == [text |-> <<s[i]>>, next |-> i + 1]
Pass(s, Found(_, _)) ==
  LET step(acc, i) ==
        IF i < acc.next THEN acc
        ELSE [text |-> acc.text \o Found(s, i).text, next |-> Found(s, i).next]
  IN FoldLeft(step, [text |-> <<>>, next |-> 1], [i \in 1 .. Len(s) |-> i]).text

-----------------------------------------------------------------------------
(* The three passes.                                                       *)

\* redact_pem_blocks: to the end of the line with the first END after the line
\* of the BEGIN, or to the end of the text.
BlockEnd(s, i) ==
  LET close == FirstOf(s, FirstOf(s, i, {"eol"}), {"end"})
  IN IF close > Len(s) THEN close ELSE FirstOf(s, close, {"eol"})

PemBlock(s, i) ==
  IF /\ s[i].kind \in {"pem", "cert"}
     /\ \E m \in i .. FirstOf(s, i, {"eol"}) - 1 : s[m].kind \in {"pem", "end"}
  THEN [text |-> <<Marker>>, next |-> BlockEnd(s, i)]
  ELSE Copied(s, i)

\* redact_authorization: a header to the end of its line, a bearer's token.
Authorization(s, i) ==
  IF AtWordStart(s, i) /\ MatchKeyword(s, i, "auth")
  THEN [text |-> <<Token("auth"), Token("colon"), Token("space"), Marker>>,
        next |-> ConsumeToLineEnd(s, SkipSeparators(s, i + 1))]
  ELSE IF /\ AtWordStart(s, i)
          /\ MatchKeyword(s, i, "bearer")
          /\ SkipSpaces(s, i + 1) > i + 1
  THEN [text |-> <<Token("bearer"), Token("space"), Marker>>,
        next |-> ConsumeValue(s, SkipSpaces(s, i + 1))]
  ELSE Copied(s, i)

\* Mutant of KeyValue: a value begins right behind the separator.
KeyValueUnquoted(s, i) ==
  LET after == SkipSpaces(s, FirstOther(s, SkipSpaces(s, i + 1), {"colon"})) IN
  IF /\ AtWordStart(s, i)
     /\ MatchKeyword(s, i, "key")
     /\ HadSeparator(s, i + 1, after)
  THEN [text |-> <<s[i], Token("colon"), Token("space"), Marker>>,
        next |-> ConsumeValue(s, after)]
  ELSE Copied(s, i)

\* redact_key_values
KeyValue(s, i) ==
  LET after == SkipSeparators(s, i + 1) IN
  IF /\ AtWordStart(s, i)
     /\ MatchKeyword(s, i, "key")
     /\ HadSeparator(s, i + 1, after)
  THEN [text |-> <<s[i], Token("colon"), Token("space"), Marker>>,
        next |-> ConsumeValue(s, after)]
  ELSE Copied(s, i)

Redact(s) == Pass(Pass(Pass(s, PemBlock), Authorization), KeyValue)

\* replace_segment_after: the segment of a path that names the user.
UserSegment(s, i) ==
  IF s[i].kind = "home"
  THEN LET j == FirstOf(s, i + 1, {"home", "space", "eol", "quote"})
       IN [text |-> IF j > i + 1 THEN <<s[i], Marker>> ELSE <<s[i]>>, next |-> j]
  ELSE Copied(s, i)

Scrub(s) == Pass(Redact(s), UserSegment)

-----------------------------------------------------------------------------
RedactionInit ==
  /\ record = <<>>
  /\ written = [file |-> "none", text |-> <<>>]

Format(kind) ==
  /\ Len(record) < MaxTokens
  /\ record' = Append(record, [kind |-> kind, at |-> Len(record) + 1])
  /\ written' = [file |-> "none", text |-> <<>>]

\* RedactingSink::write: one call, one record.
WriteRecord ==
  /\ written' = [file |-> "log", text |-> Redact(record)]
  /\ UNCHANGED record

\* The panic hook; a thread's name is scrubbed like a message.
WriteDump ==
  /\ written' = [file |-> "dump", text |-> Scrub(record)]
  /\ UNCHANGED record

RedactionNext ==
  \/ \E kind \in TokenKinds : Format(kind)
  \/ WriteRecord
  \/ WriteDump

-----------------------------------------------------------------------------
(* What has to stay in memory.                                             *)

Kind(i) == record[i].kind
AllIn(i, j, kinds) == \A m \in i .. j : Kind(m) \in kinds
NoneIn(i, j, kinds) == \A m \in i .. j : Kind(m) \notin kinds
WholeWord(k) ==
  /\ k = 1 \/ Kind(k - 1) \notin Names \cup {"pem", "cert", "end"}
  /\ k = Len(record) \/ Kind(k + 1) \notin Names

\* The token at w stands in the first part of the value that is announced at k: what
\* comes before the first blank, end of line, quote, comma, semicolon or bracket, or
\* of a header before the first end of line, quote, comma or brace.  That is as far
\* as the passes look; of a value in quotes or a header of several parts there is more,
\* and that is written.
FirstPartOf(k, w) ==
  /\ k < w
  /\ WholeWord(k)
  /\ \E j \in k + 1 .. w :
       \/ /\ Kind(k) = "key"
          /\ AllIn(k + 1, j - 1, {"space", "colon", "quote"})
          /\ ~ NoneIn(k + 1, j - 1, {"colon"})
          /\ NoneIn(j, w, {"space", "eol", "semi", "quote", "comma"})
       \/ /\ Kind(k) = "bearer"
          /\ j > k + 1
          /\ AllIn(k + 1, j - 1, {"space"})
          /\ NoneIn(j, w, {"space", "eol", "semi", "quote", "comma"})
       \/ /\ Kind(k) = "auth"
          /\ AllIn(k + 1, j - 1, {"space", "colon", "quote"})
          /\ NoneIn(j, w, {"eol", "quote", "comma"})

\* A name that is itself in the first part of a value announces nothing: it is gone.
Announced(w) ==
  \E k \in 1 .. w - 1 : FirstPartOf(k, w) /\ \A e \in 1 .. k - 1 : ~ FirstPartOf(e, k)

\* Behind the first key of the record and not behind the line of its END.
InKeyBlock(w) ==
  \E b \in 1 .. w - 1 :
    /\ Kind(b) = "pem"
    /\ NoneIn(1, b - 1, {"pem", "cert"})
    /\ ~ \E l, e, r \in b .. w :
           l < e /\ e < r /\ Kind(l) = "eol" /\ Kind(e) = "end" /\ Kind(r) = "eol"

Survives(w) == \E i \in DOMAIN written.text : written.text[i].at = w

\* The first part of what a name announces, of a credential and of a header, and the
\* body of a private key, reach neither the log nor a dump, wherever in the record
\* they stand and whatever stands around them, and a dump does not show the first
\* word of a user's name (redaction.rs, redact; crash_reporter.rs, scrub).
FirstPartsStayInMemory ==
  \A w \in DOMAIN record :
    Kind(w) = "word" /\ (\/ Announced(w) \/ InKeyBlock(w)
                        \/ (written.file = "dump" /\ w > 1 /\ Kind(w - 1) = "home"))
      => ~ Survives(w)
=============================================================================
