-------------------------------- MODULE SqlText --------------------------------
(***************************************************************************)
(* What the plugin reads out of the text of a statement                    *)
(* (mysqlnd_qc_tokenize.c and query_is_select of the default handler):     *)
(* its part of the hash key, which every handler but the user's makes by   *)
(* stripping comments and fixing whitespace; its hints, which decide       *)
(* whether it is for the cache; and the normal form under which the        *)
(* normalized query trace log counts it.  One step is one round of the     *)
(* loop over the text.                                                     *)
(*                                                                         *)
(* A character stands for its class: "x" a letter, "5" a digit, "e2" one   *)
(* of more bytes, "half" the first byte of one whose second is missing at  *)
(* the end of the text, "comma" one of , = < > in a hash key, "~" one the  *)
(* scanner does not know; a keyword and the front of a hint are one        *)
(* character, too.  Left out: \0 in a statement, the connection's part of  *)
(* a hash key, and the name of the first table, which is only written to a *)
(* debug log.                                                              *)
(***************************************************************************)
EXTENDS Integers, Sequences, FiniteSets

CONSTANTS
    Jobs,          \* what is done with a statement: "hash_key", "is_select", "normalize"
    Alphabets,     \* Alphabets[j]: sets of texts from which the statements of j are made,
                   \* and bounds on the number of texts in a statement
    MaxText        \* bound on the text of a normal form

VARIABLES
    job,
    byDefault, \* ini setting mysqlnd_qc.cache_by_default
    query,     \* the statement
    p,         \* how far it was read
    out,       \* stripped_query, or normalized_query
    hint,      \* what query_is_select returns
    ended

vars == <<job, byDefault, query, p, out, hint, ended>>

Whitespace == {"space", "newline"}
Digits == {"5"}
Letters == {"x", "e2", "half", "SELECT"}
Alpha == {"x", "SELECT"}
WordChars == Letters \cup Digits
Keywords == {<<"SELECT">>}
Quotes == {"'"}
OtherChars == {"!", "<", ">", "|", "&", "@", "\\", "tick", "~", "OR", "AND",
               "qc=on", "qc=off", "qc_ttl=", "qc_sid="}

Concat(pieces) ==
    LET upTo[n \in 0..Len(pieces)] == IF n = 0 THEN <<>> ELSE upTo[n - 1] \o pieces[n]
    IN  upTo[Len(pieces)]

Queries(j) ==
    LET joined == UNION {{Concat(pieces) : pieces \in UNION {[1..n -> a.texts] : n \in 1..a.max}} :
                         a \in Alphabets[j]}
    IN  {q \in joined : \A i \in 1..(Len(q) - 1) : q[i] # "half"}

NoHint == [cache |-> FALSE, ttl |-> <<>>, server_id |-> <<>>]

Init ==
    /\ job \in Jobs
    /\ byDefault \in IF job = "is_select" THEN BOOLEAN ELSE {FALSE}
    /\ query \in Queries(job)
    /\ p = 1
    /\ out = <<>>
    /\ hint = [NoHint EXCEPT !.cache = byDefault]
    /\ ended = FALSE

-----------------------------------------------------------------------------

\* The suffix of s that begins at the first of these positions, or after its end.
From(s, Stops(_)) ==
    SubSeq(s, CHOOSE i \in 1..(Len(s) + 1) : /\ i > Len(s) \/ Stops(i)
                                            /\ \A j \in 1..(i - 1) : ~Stops(j), Len(s))

Before(s, suffix) == SubSeq(s, 1, Len(s) - Len(suffix))

\* The first position from i on that stops, or the one after the statement.
Find(i, Stops(_)) ==
    CHOOSE j \in i..(Len(query) + 1) :
        /\ j > Len(query) \/ Stops(j)
        /\ \A h \in i..(j - 1) : ~Stops(h)

Skip(i, chars) == Find(i, LAMBDA j : query[j] \notin chars)

Char(i) == IF i <= Len(query) THEN query[i] ELSE "none"

Pair(i, a, b) == i \in 1..(Len(query) - 1) /\ query[i] = a /\ query[i + 1] = b

Slice(i, j) == SubSeq(query, i, j - 1)

\* Where the loops over a comment end: at any *, before any /, or with one
\* character left.
BodyEnd(i) == Find(i, LAMBDA j : j = Len(query) \/ query[j] = "*" \/ query[j + 1] = "/")

AfterBody(i) == IF BodyEnd(i) < Len(query) THEN BodyEnd(i) + 2 ELSE BodyEnd(i)

LineEnd(i) == Find(i, LAMBDA j : query[j] = "newline")

AfterLine(i) == IF LineEnd(i) <= Len(query) THEN LineEnd(i) + 1 ELSE LineEnd(i)

-----------------------------------------------------------------------------
\* mysqlnd_qc_query_strip_comments_and_fix_ws

\* p after whitespace was skipped
Ahead == Skip(p, Whitespace)

\* Mutant: the next character must be a letter after any other.
SeparatesLetters(prev, next) == prev # "comma" /\ next \in Alpha

\* Whitespace between these two characters is kept, as one space.
Separates(prev, next) ==
    /\ prev # "comma"
    /\ prev = "(" => next \in Alpha
    /\ prev = ")" => next \in Alpha
    /\ next \notin {"none", "comma", "!"}

Spaced ==
    IF Ahead # p /\ out # <<>> /\ Separates(out[Len(out)], Char(Ahead))
    THEN Append(out, "space")
    ELSE out

Executable(i) == i < Len(query) /\ query[i] = "!"

Stripping ==
    /\ job = "hash_key" /\ p <= Len(query)
    /\ UNCHANGED <<job, byDefault, query, hint, ended>>

StripComment ==
    /\ Stripping
    /\ Pair(Ahead, "/", "*")
    /\ ~Executable(Ahead + 2)
    /\ out' = Spaced
    /\ p' = AfterBody(Ahead + 2)

\* The text of a comment that begins with ! is for the server, and is kept.
KeepExecutable ==
    LET text == Skip(Ahead + 3, Whitespace)
    IN  /\ Stripping
        /\ Pair(Ahead, "/", "*")
        /\ Executable(Ahead + 2)
        /\ out' = Spaced \o <<"space">> \o Slice(text, BodyEnd(text))
        /\ p' = AfterBody(text)

StripLineComment ==
    /\ Stripping
    /\ Pair(Ahead, "-", "-")
    /\ out' = Spaced
    /\ p' = AfterLine(Ahead + 2)

CopyCharacter ==
    /\ Stripping
    /\ ~Pair(Ahead, "/", "*")
    /\ ~Pair(Ahead, "-", "-")
    /\ IF Ahead > Len(query)
       THEN out' = out /\ p' = Ahead
       ELSE out' = Append(Spaced, query[Ahead]) /\ p' = Ahead + 1

KeyDone ==
    /\ job = "hash_key" /\ p > Len(query) /\ ~ended
    /\ ended' = TRUE
    /\ UNCHANGED <<job, byDefault, query, p, out, hint>>

-----------------------------------------------------------------------------
\* mysqlnd_qc_get_token: the kind of the token at i, its value, and where the
\* text goes on.

Token(kind, value, left) == [kind |-> kind, value |-> value, left |-> left]

Punctuation == {"semicolon", ".", "comma", "*", "=", "+", "-", "%", "/", "(", ")", "^", "?"}

Pairs == {<<"!", "=">>, <<"<", "=">>, <<">", "=">>, <<"|", "|">>, <<"&", "&">>, <<"@", "@">>}

\* The second character of << and of >< is not taken.
OperatorToken(i) ==
    LET c == query[i]
    IN  CASE <<c, Char(i + 1)>> \in Pairs -> Token("operator", <<c, Char(i + 1)>>, i + 2)
          [] c \in {"<", ">"} /\ Char(i + 1) = "<" -> Token("word", <<c, c>>, i + 1)
          [] OTHER -> Token(IF c \in {"!", "|", "&"} THEN "word" ELSE "operator", <<c>>, i + 1)

\* A string ends at a quote that does not follow a backslash.
StringToken(i) ==
    LET end == Find(i + 1, LAMBDA j : query[j] = query[i] /\ query[j - 1] # "\\")
    IN  CASE i = Len(query) -> Token("no_more", <<>>, i + 1)
          [] i < Len(query) /\ end > Len(query) -> Token("string", <<>>, end)
          [] OTHER -> Token("string", <<>>, end + 1)

NumberToken(i) == Token("number", <<>>, Skip(i, Digits \cup {"."}))

\* Mutant: characters of more than one byte are no part of a word.
WordTokenOfBytes(i) ==
    LET end == Skip(i, Alpha \cup Digits) IN Token("word", Slice(i, end), end)

\* A keyword between backticks is recognized before the second one is skipped.  Half a
\* character is taken for a whole one: query_len, which has no sign, wraps, and p is
\* beyond the end of the text.
WordToken(i) ==
    LET ticked == Char(i) = "tick"
        from == IF ticked THEN i + 1 ELSE i
        end == Skip(from, WordChars)
        skipped == ticked /\ Slice(from, end) \notin Keywords /\ Char(end) = "tick"
        wrapped == end > from /\ query[end - 1] = "half"
    IN  Token("word", Slice(from, end), IF skipped \/ wrapped THEN end + 1 ELSE end)

TokenAt(i) ==
    CASE Pair(i, "/", "*") -> Token("comment", Slice(i + 2, BodyEnd(i + 2)), AfterBody(i + 2))
      [] Pair(i, "-", "-") -> Token("comment", Slice(i + 2, LineEnd(i + 2)), AfterLine(i + 2))
      [] OTHER ->
            CASE Char(i) = "\\" -> Token("unknown", <<>>, IF i < Len(query) THEN i + 2 ELSE i + 1)
              [] Char(i) \in Punctuation -> Token("operator", <<Char(i)>>, i + 1)
              [] Char(i) \in {"!", "<", ">", "|", "&", "@"} -> OperatorToken(i)
              [] Char(i) \in Quotes -> StringToken(i)
              [] Char(i) \in Digits -> NumberToken(i)
              [] OTHER -> WordToken(i)

\* Whitespace at the end of a statement is an empty word.
GetToken ==
    IF p > Len(query) THEN Token("no_more", <<>>, p) ELSE TokenAt(Skip(p, Whitespace))

-----------------------------------------------------------------------------
\* mysqlnd_qc_handler_default_query_is_select

Says(body, switch) == body # <<>> /\ body[1] = switch

\* atoi stops at the first character that is no digit.
Number(body) == Before(Tail(body), From(Tail(body), LAMBDA i : Tail(body)[i] \notin Digits))

\* Mutant: a later hint does not switch caching off.
AfterFirstSwitch(h, body) ==
    [cache |-> h.cache \/ (~byDefault /\ Says(body, "qc=on")),
     ttl |-> IF ~byDefault /\ Says(body, "qc_ttl=")
             THEN Number(body) ELSE h.ttl,
     server_id |-> IF ~byDefault /\ Says(body, "qc_sid=") THEN Tail(body) ELSE h.server_id]

AfterHint(h, body) ==
    [cache |-> (h.cache \/ (~byDefault /\ Says(body, "qc=on"))) /\ ~Says(body, "qc=off"),
     ttl |-> IF ~byDefault /\ Says(body, "qc_ttl=")
             THEN Number(body) ELSE h.ttl,
     server_id |-> IF ~byDefault /\ Says(body, "qc_sid=") THEN Tail(body) ELSE h.server_id]

Asking == job = "is_select" /\ ~ended /\ UNCHANGED <<job, byDefault, query, out>>

ReadHint ==
    /\ Asking
    /\ GetToken.kind = "comment"
    /\ hint' = AfterHint(hint, GetToken.value)
    /\ p' = GetToken.left
    /\ UNCHANGED ended

Classify ==
    /\ Asking
    /\ GetToken.kind # "comment"
    /\ hint' = [hint EXCEPT !.cache = @ /\ GetToken.value = <<"SELECT">>]
    /\ ended' = TRUE
    /\ p' = GetToken.left

-----------------------------------------------------------------------------
\* mysqlnd_qc_query_tokenize

\* Without a space at the end.
WithoutSpace == IF out # <<>> /\ out[Len(out)] = "space" THEN SubSeq(out, 1, Len(out) - 1) ELSE out

\* Mutant: whatever is before them is taken for a space.
JoinedToLast(c) == Append(SubSeq(out, 1, Len(out) - 1), c)

\* . and , take the place of a space before them.
Joined(c) == Append(WithoutSpace, c)

\* A word of an operator is written out, and a comparison of two characters
\* stands alone; ? becomes a semicolon.
WrittenOperator(value) ==
    CASE value = <<"comma">> -> Append(Joined("comma"), "space")
      [] value = <<".">> -> Joined(".")
      [] value = <<")">> -> out \o <<")", "space">>
      [] value = <<"?">> -> Append(out, "semicolon")
      [] value = <<"|", "|">> -> out \o <<"OR", "space">>
      [] value = <<"&", "&">> -> out \o <<"AND", "space">>
      [] Len(value) = 2 /\ value[2] = "=" -> out \o <<"space">> \o value \o <<"space">>
      [] OTHER -> out \o value

Written(token) ==
    CASE token.kind = "word" -> Append(out \o token.value, "space")
      [] token.kind \in {"string", "number"} -> out \o <<"?", "space">>
      [] token.kind = "operator" -> WrittenOperator(token.value)
      [] OTHER -> out

\* What the loops make of the memory behind a text, once p is beyond its end, is not
\* known.
Normalizing ==
    /\ job = "normalize" /\ ~ended
    /\ p <= Len(query) + 1
    /\ UNCHANGED <<job, byDefault, query, hint>>

WriteToken ==
    /\ Normalizing
    /\ GetToken.kind # "no_more"
    /\ Len(out) < MaxText
    /\ out' = Written(GetToken)
    /\ p' = GetToken.left
    /\ UNCHANGED ended

FormDone ==
    /\ Normalizing
    /\ GetToken.kind = "no_more"
    /\ out' = WithoutSpace
    /\ ended' = TRUE
    /\ UNCHANGED p

Next ==
    \/ StripComment \/ KeepExecutable \/ StripLineComment \/ CopyCharacter \/ KeyDone
    \/ ReadHint \/ Classify
    \/ WriteToken \/ FormDone

\* The loops run on their own, without waiting for anybody.
Spec == Init /\ [][Next]_vars /\ WF_vars(Next)

-----------------------------------------------------------------------------
(***************************************************************************)
(* How the server reads a text: the sequence of its words, literals ("?")  *)
(* and single characters, without whitespace and comments.                 *)
(***************************************************************************)

Begins(s, a, b) == Len(s) > 1 /\ s[1] = a /\ s[2] = b

Drop(s, n) == SubSeq(s, n + 1, Len(s))

PlainEnd(s) == From(s, LAMBDA i : i < Len(s) /\ s[i] = "*" /\ s[i + 1] = "/")

\* "-- " begins a comment, "--" alone does not.
LineComment(s) == Begins(s, "-", "-") /\ (Len(s) = 2 \/ s[3] \in Whitespace)

AtLineEnd(s) == From(s, LAMBDA i : s[i] = "newline")

\* && and ||, which are AND and OR.
Doubled(s) == Begins(s, "|", "|") \/ Begins(s, "&", "&")
Spelled(s) == IF s[1] = "|" THEN "OR" ELSE "AND"

StringEnd(s) == From(s, LAMBDA i : i > 1 /\ s[i] = s[1] /\ s[i - 1] # "\\")

Text == Seq(Whitespace \cup WordChars \cup Punctuation \cup Quotes \cup OtherChars)

\* The statements are made of the characters the model knows.
TextAssumption == \A j \in Jobs : Queries(j) \subseteq Text

ASSUME TextAssumption

Read[s \in Text] ==
    LET body == Drop(s, 2)
        after == From(s, LAMBDA i : s[i] \notin WordChars)
        word == Before(s, after)
        kept == IF body # <<>> /\ body[1] = "!" THEN Tail(Before(body, PlainEnd(body))) ELSE <<>>
    IN  CASE s = <<>> -> <<>>
          [] LineComment(s) -> Read[AtLineEnd(s)]
          [] Begins(s, "/", "*") -> Read[kept] \o Read[Drop(PlainEnd(body), 2)]
          [] Doubled(s) -> <<<<Spelled(s)>>>> \o Read[body]
          [] OTHER ->
                CASE s[1] \in Whitespace \cup {"tick"} -> Read[Tail(s)]
                  [] s[1] \in Quotes -> <<<<"?">>>> \o Read[Drop(StringEnd(s), 1)]
                  [] s[1] \in WordChars ->
                        <<IF word \in Seq(Digits) THEN <<"?">> ELSE word>> \o Read[after]
                  [] OTHER -> <<<<s[1]>>>> \o Read[Tail(s)]

\* The comments before a statement.
LeadingComments[s \in Text] ==
    LET body == Drop(s, 2)
    IN  CASE s # <<>> /\ s[1] \in Whitespace -> LeadingComments[Tail(s)]
          [] LineComment(s) -> LeadingComments[AtLineEnd(s)]
          [] Begins(s, "/", "*") ->
                <<Before(body, PlainEnd(body))>> \o LeadingComments[Drop(PlainEnd(body), 2)]
          [] OTHER -> <<>>

\* Where comments begin and end.
Opens(i) == Pair(i, "/", "*")
Closes(i) == Pair(i, "*", "/")

\* Comments are closed and have neither * nor / in them, and what looks like a
\* line comment is one.
CommentsPlain ==
    \A i \in 1..Len(query) :
        /\ Opens(i) => \E c \in (i + 2)..Len(query) :
                         Closes(c) /\ \A j \in (i + 2)..(c - 1) : query[j] \notin {"*", "/"}
        /\ Pair(i, "-", "-") => LineComment(Drop(query, i - 1))

SpaceAt(i) == i \notin 1..Len(query) \/ query[i] \in Whitespace

\* Comments stand apart from words.
CommentsApart ==
    \A i \in 1..Len(query) :
        /\ Opens(i) \/ Pair(i, "-", "-") => SpaceAt(i - 1)
        /\ Closes(i) => SpaceAt(i + 2)

Quote(i) == query[i] \in Quotes /\ (i > 1 => query[i - 1] # "\\")

Quoted(i) == Cardinality({j \in 1..(i - 1) : Quote(j)}) % 2 = 1

\* Strings are closed, with neither a doubled quote nor an escaped backslash in
\* them, and backslashes are in strings only.
StringsPlain ==
    /\ ~Quoted(Len(query) + 1)
    /\ \A i \in 1..Len(query) :
         /\ query[i] = "\\" => Quoted(i) /\ ~Pair(i, "\\", "\\")
         /\ Quote(i) /\ Quoted(i) => i = Len(query) \/ query[i + 1] \notin Quotes

\* Words do not begin with a digit, and numbers are whole.
NumbersApart ==
    \A i \in 1..(Len(query) - 1) :
        query[i] \in Digits /\ query[i + 1] \in Letters \cup {"."} =>
            i > 1 /\ query[i - 1] \in Letters

\* ` is on both sides of a word that stands apart.
TicksPaired ==
    \A i \in 1..Len(query) : query[i] = "tick" =>
        \/ /\ i > 2 /\ query[i - 1] \in WordChars
           /\ (i < Len(query) => query[i + 1] \notin WordChars \cup {"tick"})
        \/ /\ i < Len(query) /\ query[i + 1] \in WordChars
           /\ (i > 1 => query[i - 1] \notin WordChars \cup {"tick"})

\* No << , whose second character is written twice; and what follows a minus or a
\* slash is neither a comment nor begins one with it, since all that is between them
\* is not written. No ? , which is written as a semicolon.
OperatorsApart ==
    \A i, j \in 1..Len(query) :
        /\ query[i] # "?"
        /\ i < j /\ (\A h \in (i + 1)..(j - 1) : query[h] \in Whitespace) =>
             /\ query[i] \in {"<", ">"} /\ query[j] = "<" => j > i + 1
             /\ query[i] = "-" /\ ~Pair(i, "-", "-") /\ ~Pair(i - 1, "-", "-") =>
                  query[j] # "-" /\ ~Opens(j)
             /\ query[i] = "/" /\ ~Opens(i) /\ ~Closes(i - 1) =>
                  query[j] # "*" /\ ~Opens(j) /\ ~Pair(j, "-", "-")

\* Comments are not in strings, nor in line comments, nor strings in comments; no
\* comment is for the server, and only comments end like one.
CommentsAside ==
    /\ \A i \in 1..Len(query) :
         /\ Opens(i) => query[i + 2] # "!"
         /\ Closes(i) => /\ ~Opens(i + 1)
                        /\ \E o \in 1..(i - 2) : Opens(o) /\ \A c \in (o + 2)..(i - 1) : ~Closes(c)
    /\ \A i, j \in 1..Len(query) : i < j =>
         /\ Opens(i) /\ query[j] \in Quotes => \E c \in (i + 2)..(j - 1) : Closes(c)
         /\ Pair(i, "-", "-") /\ (query[j] \in Quotes \/ Opens(j)) =>
              \E c \in i..(j - 1) : query[c] = "newline"

\* There are no strings, and no line comment in a comment for the server, which is
\* kept without what ends it.
KeyPlain ==
    \A i \in 1..Len(query) :
        /\ query[i] \notin Quotes
        /\ Pair(i, "-", "-") =>
             \A o \in 1..(i - 1) : Opens(o) /\ Executable(o + 2) =>
               \E c \in (o + 2)..(i - 1) : Closes(c)

\* The scanner, which alone looks at characters of several bytes, gets no half of one.
Whole == job = "hash_key" \/ \A i \in 1..Len(query) : query[i] # "half"

\* No comment is for the server (query_is_select takes it for any other comment),
\* and a ` is in front of a word (the scanner skips no more than one).
PlainHints ==
    \A i \in 1..Len(query) :
        /\ Opens(i) => query[i + 2] # "!"
        /\ query[i] = "tick" => i < Len(query) /\ query[i + 1] \in WordChars

\* The last of the comments before the statement that is such a hint.
LastHint(Test(_)) ==
    LET bodies == LeadingComments[query]
        found == {i \in 1..Len(bodies) : Test(bodies[i])}
    IN  IF found = {} THEN <<>> ELSE bodies[CHOOSE i \in found : \A j \in found : j <= i]

\* The last of the switches decides, or the setting when there is none.
SwitchedOn ==
    LET switch == LastHint(LAMBDA b : Says(b, "qc=on") \/ Says(b, "qc=off"))
    IN  IF switch = <<>> THEN byDefault ELSE Says(switch, "qc=on")

ForCache == Read[query] # <<>> /\ Read[query][1] = <<"SELECT">> /\ SwitchedOn

\* The hints were read, those of a plain statement.
HintsRead == ended /\ job = "is_select" /\ Whole /\ CommentsPlain /\ PlainHints

\* When caching is the default, query_is_select looks for nothing but a switch that
\* turns it off.  The statement then names no time to live and no server id, which
\* are ignored, and does not turn caching on again, over which qc=off would win.
HintsLookedFor ==
    byDefault =>
        LET bodies == LeadingComments[query]
        IN  \A i \in 1..Len(bodies) :
               /\ ~Says(bodies[i], "qc_ttl=") /\ ~Says(bodies[i], "qc_sid=")
               /\ Says(bodies[i], "qc=off") =>
                     \A j \in (i + 1)..Len(bodies) : ~Says(bodies[j], "qc=on")

(***************************************************************************)
(* Properties                                                              *)
(***************************************************************************)

\* The server reads the hash key as it reads the statement, as far as comments
\* stand apart and are plain and there are no strings: whitespace is removed only
\* where no word ends, so statements that share an entry have the same result.
KeyKeepsTokens ==
    ended /\ job = "hash_key" /\ CommentsPlain /\ CommentsApart /\ KeyPlain =>
        Read[out] = Read[query]

\* A statement is for the cache if it is a SELECT and the last of its switches
\* says so, or the setting if it has none, with the last time to live and server id
\* it names, as long as it has no hint that query_is_select does not look for
\* because caching is the default.
HintsObeyed ==
    HintsRead /\ HintsLookedFor =>
        LET ttl == LastHint(LAMBDA b : Says(b, "qc_ttl="))
            sid == LastHint(LAMBDA b : Says(b, "qc_sid="))
        IN  /\ hint.cache <=> ForCache
            /\ hint.ttl = IF ttl = <<>> THEN <<>> ELSE Number(ttl)
            /\ hint.server_id = IF sid = <<>> THEN <<>> ELSE Tail(sid)

\* The server reads a normal form as it reads the statement, literals aside: the
\* statements that are counted together differ in nothing else.
FormKeepsTokens ==
    /\ ended /\ job = "normalize" /\ Whole
    /\ CommentsPlain /\ CommentsAside /\ StringsPlain /\ NumbersApart /\ TicksPaired /\ OperatorsApart
    => Read[out] = Read[query]

Known == \A i \in 1..Len(query) : query[i] # "~"

\* The text of every statement is read to its end, if that is no half of a character
\* and the scanner knows all of them.
ScanEnds == Whole /\ (job = "normalize" => Known) => <>ended
=============================================================================
