----------------------------- MODULE SqlTextProofs -----------------------------
(***************************************************************************)
(* For statements of any length: the loops over a text of whole characters *)
(* never read beyond its end and every round of theirs reads on, the hints *)
(* before a statement decide whether and how it is cached, and the server  *)
(* reads its hash key and its normal form as it reads the statement.       *)
(***************************************************************************)
EXTENDS SqlText, SequenceTheorems, FiniteSetTheorems, WellFoundedInduction, TLAPS

-----------------------------------------------------------------------------
(***************************************************************************)
(* The first of some positions                                             *)
(***************************************************************************)

LEMMA LeastIs ==
    ASSUME NEW S \in SUBSET Nat, S # {}
    PROVE  \E m \in S : \A k \in S : m <= k
<1>1. IsWellFoundedOn(OpToRel(<, Nat), Nat)
  BY NatLessThanWellFounded
<1> DEFINE R == OpToRel(<, Nat)
<1>2. \A k, m \in Nat : k < m => <<k, m>> \in R
  BY DEF OpToRel
<1> HIDE DEF R
<1>3. \E m \in S : \A k \in S : ~(<<k, m>> \in R)
  <2>1. IsWellFoundedOn(R, Nat)
    BY <1>1 DEF R
  <2> QED BY <2>1, WFMin
<1>4. PICK m \in S : \A k \in S : ~(<<k, m>> \in R)
  BY <1>3
<1>5. \A k \in S : m <= k
  <2>1. ASSUME NEW k \in S PROVE m <= k
    <3>1. k \in Nat /\ m \in Nat
      OBVIOUS
    <3>2. ~(k < m)
      BY <1>2, <1>4, <3>1
    <3> QED BY <3>1, <3>2
  <2> QED BY <2>1
<1> QED BY <1>5

LEMMA FirstIs ==
    ASSUME NEW i \in Nat, NEW n \in Nat, i <= n + 1, NEW S
    PROVE  \E j \in i..(n + 1) : (j > n \/ j \in S) /\ \A h \in i..(j - 1) : h \notin S
<1> DEFINE B == {j \in i..(n + 1) : j > n \/ j \in S}
<1>1. PICK j \in B : \A h \in B : j <= h
  <2>1. B \in SUBSET Nat /\ n + 1 \in B
    OBVIOUS
  <2> HIDE DEF B
  <2> QED BY <2>1, LeastIs
<1> QED BY <1>1

LEMMA SkipIs ==
    ASSUME NEW i \in Nat, Len(query) \in Nat, i <= Len(query) + 1, NEW chars
    PROVE  /\ Skip(i, chars) \in i..(Len(query) + 1)
           /\ Skip(i, chars) <= Len(query) => query[Skip(i, chars)] \notin chars
           /\ \A h \in i..(Skip(i, chars) - 1) : query[h] \in chars
<1> DEFINE S == {j \in Nat : query[j] \notin chars}
           First(j) == /\ j > Len(query) \/ query[j] \notin chars
                       /\ \A h \in i..(j - 1) : ~(query[h] \notin chars)
<1>1. \E j \in i..(Len(query) + 1) : First(j)
  <2> HIDE DEF S
  <2>1. PICK j \in i..(Len(query) + 1) :
               (j > Len(query) \/ j \in S) /\ \A h \in i..(j - 1) : h \notin S
    BY FirstIs
  <2> QED BY <2>1 DEF S
<1>2. Skip(i, chars) = CHOOSE j \in i..(Len(query) + 1) : First(j)
  BY DEF Skip, Find
<1>3. Skip(i, chars) \in i..(Len(query) + 1) /\ First(Skip(i, chars))
  BY <1>1, <1>2
<1> QED BY <1>3

LEMMA BodyEndIs ==
    ASSUME NEW i \in Nat, Len(query) \in Nat, i <= Len(query) + 1
    PROVE  /\ BodyEnd(i) \in i..(Len(query) + 1)
           /\ BodyEnd(i) <= Len(query) =>
                 \/ BodyEnd(i) = Len(query)
                 \/ query[BodyEnd(i)] = "*"
                 \/ query[BodyEnd(i) + 1] = "/"
           /\ \A h \in i..(BodyEnd(i) - 1) :
                 h # Len(query) /\ query[h] # "*" /\ query[h + 1] # "/"
<1> DEFINE Stops(j) == j = Len(query) \/ query[j] = "*" \/ query[j + 1] = "/"
           First(j) == (j > Len(query) \/ Stops(j)) /\ \A h \in i..(j - 1) : ~Stops(h)
<1>1. \E j \in i..(Len(query) + 1) : First(j)
  <2> DEFINE S == {j \in Nat : Stops(j)}
  <2> HIDE DEF S
  <2>1. PICK j \in i..(Len(query) + 1) :
               (j > Len(query) \/ j \in S) /\ \A h \in i..(j - 1) : h \notin S
    BY FirstIs
  <2> QED BY <2>1 DEF S
<1>2. BodyEnd(i) = CHOOSE j \in i..(Len(query) + 1) : First(j)
  BY DEF BodyEnd, Find
<1>3. BodyEnd(i) \in i..(Len(query) + 1) /\ First(BodyEnd(i))
  BY <1>1, <1>2
<1> QED BY <1>3

LEMMA LineEndIs ==
    ASSUME NEW i \in Nat, Len(query) \in Nat, i <= Len(query) + 1
    PROVE  /\ LineEnd(i) \in i..(Len(query) + 1)
           /\ LineEnd(i) <= Len(query) => query[LineEnd(i)] = "newline"
           /\ \A h \in i..(LineEnd(i) - 1) : query[h] # "newline"
<1> DEFINE S == {j \in Nat : query[j] = "newline"}
           First(j) == /\ j > Len(query) \/ query[j] = "newline"
                       /\ \A h \in i..(j - 1) : ~(query[h] = "newline")
<1>1. \E j \in i..(Len(query) + 1) : First(j)
  <2> HIDE DEF S
  <2>1. PICK j \in i..(Len(query) + 1) :
               (j > Len(query) \/ j \in S) /\ \A h \in i..(j - 1) : h \notin S
    BY FirstIs
  <2> QED BY <2>1 DEF S
<1>2. LineEnd(i) = CHOOSE j \in i..(Len(query) + 1) : First(j)
  BY DEF LineEnd, Find
<1>3. LineEnd(i) \in i..(Len(query) + 1) /\ First(LineEnd(i))
  BY <1>1, <1>2
<1> QED BY <1>3

-----------------------------------------------------------------------------
(***************************************************************************)
(* The loops read on, and not beyond the text                              *)
(***************************************************************************)

\* What the scanner takes a character of, each time it is asked for a token.
Scannable == \A i \in 1..Len(query) :
    query[i] \in Whitespace \cup WordChars \cup Punctuation \cup Quotes
                  \cup {"!", "<", ">", "|", "&", "@", "\\", "tick"}

\* There is no half of a character in the text.
AllWhole == \A i \in 1..Len(query) : query[i] # "half"

\* The end of a word of whole characters is where the first character is that is no
\* part of one, or after the second backtick.
LEMMA WordTokenIs ==
    ASSUME Len(query) \in Nat, AllWhole, NEW i \in 1..(Len(query) + 1)
    PROVE  LET ticked == Char(i) = "tick"
               from == IF ticked THEN i + 1 ELSE i
               end == Skip(from, WordChars)
               skipped == ticked /\ Slice(from, end) \notin Keywords /\ Char(end) = "tick"
           IN  WordToken(i) = Token("word", Slice(from, end), IF skipped THEN end + 1 ELSE end)
<1> DEFINE from == IF Char(i) = "tick" THEN i + 1 ELSE i
           end == Skip(from, WordChars)
<1>1. from \in Nat /\ from >= 1 /\ from <= Len(query) + 1
  BY DEF Char
<1>2. end \in from..(Len(query) + 1)
  <2> HIDE DEF from
  <2> QED BY <1>1, SkipIs
<1>3. ~(end > from /\ query[end - 1] = "half")
  <2> HIDE DEF end, from
  <2>1. end > from => end - 1 \in 1..Len(query)
    BY <1>1, <1>2
  <2> QED BY <2>1 DEF AllWhole
<1> QED BY <1>3 DEF WordToken

LEMMA WordReadsOn ==
    ASSUME Len(query) \in Nat, AllWhole, NEW i \in 1..(Len(query) + 1)
    PROVE  /\ WordToken(i).left \in i..(Len(query) + 1)
           /\ i <= Len(query) /\ query[i] \in Letters \cup {"tick"} => WordToken(i).left > i
<1> DEFINE ticked == Char(i) = "tick"
           from == IF ticked THEN i + 1 ELSE i
           end == Skip(from, WordChars)
<1>1. ticked => i <= Len(query)
  BY DEF Char
<1>2. from \in Nat /\ from <= Len(query) + 1
  BY <1>1
<1>3. /\ end \in from..(Len(query) + 1)
      /\ end <= Len(query) => query[end] \notin WordChars
  <2> HIDE DEF from
  <2> QED BY <1>2, SkipIs
<1>4. /\ WordToken(i).left \in {end, end + 1}
      /\ WordToken(i).left = end + 1 => Char(end) = "tick"
  BY <1>3, WordTokenIs DEF Token
<1>5. Char(end) = "tick" => end <= Len(query)
  BY DEF Char
<1>6. i <= Len(query) /\ query[i] \in Letters => end # i
  BY <1>3 DEF Char, WordChars, Letters
<1>7. i <= Len(query) /\ query[i] = "tick" => from = i + 1
  BY DEF Char
<1>8. from \in {i, i + 1}
  OBVIOUS
<1> HIDE DEF end, from
<1> QED BY <1>1, <1>3, <1>4, <1>5, <1>6, <1>7, <1>8

LEMMA TokenReadsOn ==
    ASSUME Len(query) \in Nat, AllWhole, NEW i \in 1..(Len(query) + 1)
    PROVE  /\ TokenAt(i).left \in i..(Len(query) + 1)
           /\ i <= Len(query) /\ Scannable /\ query[i] \notin Whitespace => TokenAt(i).left > i
<1> DEFINE t == TokenAt(i)
           c == Char(i)
<1>1. CASE Pair(i, "/", "*")
  <2>1. i + 2 \in Nat /\ i + 2 <= Len(query) + 1
    BY <1>1 DEF Pair
  <2>2. AfterBody(i + 2) \in (i + 2)..(Len(query) + 1)
    BY <2>1, BodyEndIs DEF AfterBody
  <2>3. TokenAt(i).left = AfterBody(i + 2)
    BY <1>1 DEF TokenAt, Token, Pair
  <2> QED BY <2>2, <2>3
<1>2. CASE Pair(i, "-", "-")
  <2>1. i + 2 \in Nat /\ i + 2 <= Len(query) + 1
    BY <1>2 DEF Pair
  <2>2. AfterLine(i + 2) \in (i + 2)..(Len(query) + 1)
    BY <2>1, LineEndIs DEF AfterLine
  <2>3. ~Pair(i, "/", "*")
    BY <1>2 DEF Pair
  <2>4. TokenAt(i).left = AfterLine(i + 2)
    BY <1>2, <2>3 DEF TokenAt, Token
  <2> QED BY <2>2, <2>4
<1>3. CASE ~Pair(i, "/", "*") /\ ~Pair(i, "-", "-") /\ i <= Len(query)
  <2>0. c = query[i]
    BY <1>3 DEF Char
  <2>1. CASE c = "\\"
    <3>1. t.left = IF i < Len(query) THEN i + 2 ELSE i + 1
      BY <1>3, <2>1 DEF TokenAt, Token, Punctuation, Quotes, Digits
    <3> QED BY <1>3, <3>1
  <2>2. CASE c \in Punctuation
    <3>1. c # "\\" /\ c \notin {"!", "<", ">", "|", "&", "@"} \cup Quotes \cup Digits
      BY <2>2 DEF Punctuation, Quotes, Digits
    <3>2. t.left = i + 1
      BY <1>3, <2>2, <3>1 DEF TokenAt, Token
    <3> QED BY <1>3, <3>2
  <2>3. CASE c \in {"!", "<", ">", "|", "&", "@"}
    <3>1. c # "\\" /\ c \notin Punctuation \cup Quotes \cup Digits
      BY <2>3 DEF Punctuation, Quotes, Digits
    <3>2. t = OperatorToken(i)
      BY <1>3, <2>3, <3>1 DEF TokenAt
    <3>3. CASE <<c, Char(i + 1)>> \in Pairs
      <4>1. Char(i + 1) # "none"
        BY <3>3 DEF Pairs
      <4>2. i + 1 <= Len(query)
        BY <4>1 DEF Char
      <4>3. t.left = i + 2
        BY <2>0, <3>2, <3>3 DEF OperatorToken, Token, Pairs
      <4> QED BY <4>2, <4>3
    <3>4. CASE <<c, Char(i + 1)>> \notin Pairs
      <4>1. t.left = i + 1
        BY <2>0, <3>2, <3>4 DEF OperatorToken, Token
      <4> QED BY <1>3, <4>1
    <3> QED BY <3>3, <3>4
  <2>4. CASE c \in Quotes
    <3>1. t = StringToken(i)
      BY <1>3, <2>4 DEF TokenAt, Quotes, Punctuation, Digits
    <3>2. CASE i = Len(query)
      BY <3>1, <3>2 DEF StringToken, Token
    <3>3. CASE i < Len(query)
      <4> DEFINE First(j) == /\ j > Len(query) \/ (query[j] = query[i] /\ query[j - 1] # "\\")
                             /\ \A h \in (i + 1)..(j - 1) :
                                   ~(query[h] = query[i] /\ query[h - 1] # "\\")
                 end == CHOOSE j \in (i + 1)..(Len(query) + 1) : First(j)
                 S == {j \in Nat : query[j] = query[i] /\ query[j - 1] # "\\"}
      <4>1. \E j \in (i + 1)..(Len(query) + 1) : First(j)
        <5> HIDE DEF S
        <5>0. i + 1 \in Nat /\ i + 1 <= Len(query) + 1
          BY <3>3
        <5>1. PICK j \in (i + 1)..(Len(query) + 1) :
                     (j > Len(query) \/ j \in S) /\ \A h \in (i + 1)..(j - 1) : h \notin S
          BY <5>0, FirstIs
        <5> QED BY <5>1 DEF S
      <4>2. t.left = IF end > Len(query) THEN end ELSE end + 1
        BY <3>1, <3>3 DEF StringToken, Find, Token
      <4>3. end \in (i + 1)..(Len(query) + 1)
        BY <4>1
      <4> HIDE DEF end
      <4> QED BY <4>2, <4>3
    <3> QED BY <1>3, <3>2, <3>3
  <2>5. CASE c \in Digits
    <3>1. t.left = Skip(i, Digits \cup {"."})
      BY <1>3, <2>5 DEF TokenAt, Digits, Quotes, Punctuation, NumberToken, Token
    <3> QED BY <2>0, <2>5, <3>1, SkipIs
  <2>6. CASE c \notin {"\\", "!", "<", ">", "|", "&", "@"} \cup Punctuation \cup Quotes \cup Digits
    <3>1. t = WordToken(i)
      BY <1>3, <2>6 DEF TokenAt
    <3> QED BY <1>3, <2>0, <2>6, <3>1, WordReadsOn DEF Scannable, WordChars
  <2> QED BY <2>1, <2>2, <2>3, <2>4, <2>5, <2>6
<1>4. CASE i = Len(query) + 1
  <2>1. c = "none"
    BY <1>4 DEF Char
  <2>2. ~Pair(i, "/", "*") /\ ~Pair(i, "-", "-")
    BY <1>4 DEF Pair
  <2>3. t = WordToken(i)
    BY <2>1, <2>2 DEF TokenAt, Punctuation, Quotes, Digits
  <2> QED BY <1>4, <2>3, WordReadsOn
<1> QED BY <1>1, <1>2, <1>3, <1>4

\* The scanner takes for a comment what begins like one.
LEMMA CommentOpens ==
    ASSUME NEW i, TokenAt(i).kind = "comment"
    PROVE  Pair(i, "/", "*") \/ Pair(i, "-", "-")
<1> SUFFICES ASSUME ~Pair(i, "/", "*"), ~Pair(i, "-", "-") PROVE FALSE
  OBVIOUS
<1>1. \/ TokenAt(i).kind = "unknown" \/ TokenAt(i).kind = "operator"
      \/ TokenAt(i) = OperatorToken(i) \/ TokenAt(i) = StringToken(i)
      \/ TokenAt(i) = NumberToken(i) \/ TokenAt(i) = WordToken(i)
  BY DEF TokenAt, Token, Punctuation, Quotes, Digits
<1>2. OperatorToken(i).kind \in {"operator", "word"}
  BY DEF OperatorToken, Token, Pairs
<1>3. StringToken(i).kind \in {"string", "no_more"}
  BY DEF StringToken, Token
<1>4. NumberToken(i).kind = "number" /\ WordToken(i).kind = "word"
  BY DEF NumberToken, WordToken, Token
<1> QED BY <1>1, <1>2, <1>3, <1>4

LEMMA CommentReadsOn ==
    ASSUME Len(query) \in Nat, NEW i \in 1..(Len(query) + 1), TokenAt(i).kind = "comment"
    PROVE  TokenAt(i).left > i
<1>1. Pair(i, "/", "*") \/ Pair(i, "-", "-")
  BY CommentOpens
<1>2. i + 2 \in Nat /\ i + 2 <= Len(query) + 1
  BY <1>1 DEF Pair
<1>3. AfterBody(i + 2) \in (i + 2)..(Len(query) + 1)
  BY <1>2, BodyEndIs DEF AfterBody
<1>4. AfterLine(i + 2) \in (i + 2)..(Len(query) + 1)
  BY <1>2, LineEndIs DEF AfterLine
<1>5. TokenAt(i).left \in {AfterBody(i + 2), AfterLine(i + 2)}
  BY <1>1 DEF TokenAt, Token, Pair
<1> QED BY <1>3, <1>4, <1>5

\* p is in the text or at its end, and query_len, which counts down what is left of
\* it, has not wrapped.
NeverBeyond == p \in 1..(Len(query) + 1)

\* The statement is given and has no half of a character, and p is in it or behind it.
ReadInv == /\ query \in Text
           /\ Whole
           /\ NeverBeyond

LEMMA ReadInit == Init /\ Whole => ReadInv
<1> SUFFICES ASSUME Init, Whole PROVE ReadInv
  OBVIOUS
<1>1. query \in Text
  BY TextAssumption DEF Init, TextAssumption
<1>2. Len(query) \in Nat
  BY <1>1 DEF Text
<1> QED BY <1>1, <1>2 DEF Init, ReadInv, NeverBeyond

LEMMA AheadIs ==
    ASSUME ReadInv
    PROVE  /\ Len(query) \in Nat
           /\ Ahead \in p..(Len(query) + 1)
           /\ Ahead <= Len(query) => query[Ahead] \notin Whitespace
           /\ \A h \in p..(Ahead - 1) : query[h] \in Whitespace
<1>1. Len(query) \in Nat
  BY DEF ReadInv, Text
<1> QED BY <1>1, SkipIs DEF ReadInv, NeverBeyond, Ahead

LEMMA TokenIsAhead ==
    ASSUME ReadInv, p <= Len(query)
    PROVE  GetToken = TokenAt(Ahead)
<1>1. ~(p > Len(query))
  BY DEF ReadInv, NeverBeyond, Text
<1> QED BY <1>1 DEF GetToken, Ahead

\* A round of a loop reads on, and at most to the end.
RoundReads ==
    /\ query' = query /\ job' = job
    /\ p' \in p..(Len(query) + 1)
    /\ ended' \/ p' > p \/ (job = "normalize" /\ ~Scannable)

LEMMA StripReads ==
    ASSUME ReadInv, StripComment \/ KeepExecutable \/ StripLineComment \/ CopyCharacter
    PROVE  RoundReads
<1>1. /\ Len(query) \in Nat /\ p \in Nat /\ p <= Len(query) /\ query' = query /\ job' = job
      /\ Ahead \in p..(Len(query) + 1)
  BY AheadIs DEF ReadInv, NeverBeyond, StripComment, KeepExecutable, StripLineComment,
                 CopyCharacter, Stripping
<1>2. CASE StripComment
  <2>1. Ahead + 2 \in Nat /\ Ahead + 2 <= Len(query) + 1
    BY <1>1, <1>2 DEF StripComment, Pair
  <2>2. AfterBody(Ahead + 2) \in (Ahead + 2)..(Len(query) + 1)
    BY <2>1, <1>1, BodyEndIs DEF AfterBody
  <2> QED BY <1>1, <1>2, <2>2 DEF StripComment, RoundReads
<1>3. CASE KeepExecutable
  <2> DEFINE text == Skip(Ahead + 3, Whitespace)
  <2>1. Ahead + 3 \in Nat /\ Ahead + 3 <= Len(query) + 1
    BY <1>1, <1>3 DEF KeepExecutable, Executable
  <2>2. text \in (Ahead + 3)..(Len(query) + 1)
    BY <2>1, <1>1, SkipIs
  <2> HIDE DEF text
  <2>3. text \in Nat /\ text <= Len(query) + 1
    BY <1>1, <2>2
  <2>4. AfterBody(text) \in text..(Len(query) + 1)
    BY <2>3, <1>1, BodyEndIs DEF AfterBody
  <2>5. p' = AfterBody(text)
    BY <1>3 DEF KeepExecutable, text
  <2> QED BY <1>1, <2>2, <2>4, <2>5 DEF RoundReads
<1>4. CASE StripLineComment
  <2>1. Ahead + 2 \in Nat /\ Ahead + 2 <= Len(query) + 1
    BY <1>1, <1>4 DEF StripLineComment, Pair
  <2>2. AfterLine(Ahead + 2) \in (Ahead + 2)..(Len(query) + 1)
    BY <2>1, <1>1, LineEndIs DEF AfterLine
  <2> QED BY <1>1, <1>4, <2>2 DEF StripLineComment, RoundReads
<1>5. CASE CopyCharacter
  <2>1. p' = IF Ahead > Len(query) THEN Ahead ELSE Ahead + 1
    BY <1>5 DEF CopyCharacter
  <2> QED BY <1>1, <2>1 DEF RoundReads
<1> QED BY <1>2, <1>3, <1>4, <1>5

LEMMA TokenReads ==
    ASSUME ReadInv, job # "hash_key"
    PROVE  /\ GetToken.left \in p..(Len(query) + 1)
           /\ GetToken.kind # "no_more" /\ GetToken.left = p => ~Scannable
           /\ GetToken.kind = "comment" => GetToken.left > p
<1>1. Len(query) \in Nat /\ p \in 1..(Len(query) + 1) /\ AllWhole
  BY AheadIs DEF ReadInv, NeverBeyond, Whole, AllWhole
<1>2. CASE p > Len(query)
  <2>1. GetToken = [kind |-> "no_more", value |-> <<>>, left |-> p]
    BY <1>2 DEF GetToken, Token
  <2> QED BY <1>1, <2>1
<1>3. CASE p <= Len(query)
  <2>1. GetToken = TokenAt(Ahead) /\ Ahead \in 1..(Len(query) + 1)
    BY <1>1, <1>3, TokenIsAhead, AheadIs
  <2>2. /\ TokenAt(Ahead).left \in Ahead..(Len(query) + 1)
        /\ Ahead <= Len(query) /\ Scannable /\ query[Ahead] \notin Whitespace
              => TokenAt(Ahead).left > Ahead
    BY <1>1, <2>1, TokenReadsOn
  <2>3. TokenAt(Ahead).kind = "comment" => TokenAt(Ahead).left > Ahead
    BY <1>1, <2>1, CommentReadsOn
  <2> QED BY <1>1, <1>3, <2>1, <2>2, <2>3, AheadIs
<1> QED BY <1>1, <1>2, <1>3

LEMMA StepReads ==
    ASSUME ReadInv, Next
    PROVE  RoundReads
<1>1. Len(query) \in Nat /\ p \in 1..(Len(query) + 1)
  BY AheadIs DEF ReadInv, NeverBeyond
<1>2. CASE KeyDone
  BY <1>1, <1>2 DEF KeyDone, RoundReads
<1>3. CASE ReadHint
  BY <1>1, <1>3, TokenReads DEF ReadHint, Asking, RoundReads
<1>4. CASE Classify
  BY <1>1, <1>4, TokenReads DEF Classify, Asking, RoundReads
<1>5. CASE WriteToken
  BY <1>1, <1>5, TokenReads DEF WriteToken, Normalizing, RoundReads
<1>6. CASE FormDone
  BY <1>1, <1>6 DEF FormDone, Normalizing, RoundReads
<1> QED BY <1>2, <1>3, <1>4, <1>5, <1>6, StripReads DEF Next

LEMMA ReadInvKept == ReadInv /\ [Next]_vars => ReadInv'
<1> SUFFICES ASSUME ReadInv, [Next]_vars PROVE ReadInv'
  OBVIOUS
<1>1. CASE Next
  <2>1. RoundReads
    BY <1>1, StepReads
  <2> QED BY <2>1, AheadIs DEF RoundReads, ReadInv, NeverBeyond, Whole
<1>2. CASE UNCHANGED vars
  BY <1>2 DEF vars, ReadInv, NeverBeyond, Whole
<1> QED BY <1>1, <1>2

LEMMA StatementStays == [Next]_vars => UNCHANGED <<query, job>>
BY DEF Next, vars, StripComment, KeepExecutable, StripLineComment, CopyCharacter,
       Stripping, KeyDone, ReadHint, Classify, Asking, WriteToken, FormDone, Normalizing

\* What is invariant for every statement.
WholeRead == Whole => ReadInv

LEMMA ReadAlways == Spec => []WholeRead
<1>1. Init => WholeRead
  BY ReadInit DEF WholeRead
<1>2. WholeRead /\ [Next]_vars => WholeRead'
  <2> SUFFICES ASSUME WholeRead, [Next]_vars, Whole' PROVE ReadInv'
    BY DEF WholeRead
  <2>1. Whole
    BY StatementStays DEF Whole
  <2> QED BY <2>1, ReadInvKept DEF WholeRead
<1> QED BY <1>1, <1>2, PTL DEF Spec

\* No loop reads beyond the text of a statement of whole characters: what is left of
\* it, which the code counts down in query_len without a sign, is never less than
\* nothing.  It is only by half a character at the end, whose length the scanner takes
\* off unseen, that query_len can wrap, and never in a hash key.
THEOREM TextIsTheLimit == Spec => [](Whole => NeverBeyond)
<1>1. WholeRead => (Whole => NeverBeyond)
  BY DEF WholeRead, ReadInv
<1> QED BY <1>1, ReadAlways, PTL

\* Every round reads on or is the last, so no text of whole characters makes a loop
\* run for ever; for a normal form, if the text has no character that the scanner
\* leaves where it is.
ReadsOn == Whole => ended' \/ p' > p \/ (job = "normalize" /\ ~Scannable)

THEOREM EveryRoundReadsOn == Spec => [][ReadsOn]_vars
<1>1. WholeRead /\ [Next]_vars => [ReadsOn]_vars
  BY StepReads DEF RoundReads, ReadsOn, WholeRead
<1> QED BY <1>1, ReadAlways, PTL DEF Spec

-----------------------------------------------------------------------------
(***************************************************************************)
(* Recursive functions: one whose value for s uses only its values for     *)
(* what is smaller than s exists.  H maps a function to the one that its   *)
(* equation defines.                                                       *)
(***************************************************************************)

\* f obeys the equation given by H for everything smaller than n.
Obeys(f, n, T, size, H) == \A s \in T : size[s] < n => f[s] = H[f][s]

\* H uses its function only for what is smaller.
Descends(H, T, V, size) ==
    \A f, g \in [T -> V] : \A s \in T :
        (\A t \in T : size[t] < size[s] => f[t] = g[t]) => H[f][s] = H[g][s]

LEMMA ObeyAlike ==
    ASSUME NEW T, NEW V, NEW size \in [T -> Nat], NEW H, Descends(H, T, V, size),
           NEW n \in Nat, NEW f \in [T -> V], NEW g \in [T -> V],
           Obeys(f, n, T, size, H), Obeys(g, n, T, size, H)
    PROVE  \A s \in T : size[s] < n => f[s] = g[s]
<1> DEFINE Differ == {s \in T : size[s] < n /\ f[s] # g[s]}
           Sizes == {size[s] : s \in Differ}
<1> SUFFICES ASSUME Differ # {} PROVE FALSE
  OBVIOUS
<1>1. PICK m \in Sizes : \A k \in Sizes : m <= k
  <2>1. Sizes \in SUBSET Nat /\ Sizes # {}
    OBVIOUS
  <2> HIDE DEF Sizes
  <2> QED BY <2>1, LeastIs
<1>2. PICK s \in Differ : size[s] = m
  BY <1>1
<1>3. \A t \in T : size[t] < size[s] => f[t] = g[t]
  <2>1. ASSUME NEW t \in T, size[t] < size[s], f[t] # g[t] PROVE FALSE
    <3>1. t \in Differ
      BY <2>1, <1>2
    <3>2. m <= size[t]
      BY <1>1, <3>1
    <3>3. size[t] \in Nat /\ size[s] \in Nat
      BY <1>2
    <3> QED BY <2>1, <1>2, <3>2, <3>3
  <2> QED BY <2>1
<1>4. H[f][s] = H[g][s]
  BY <1>2, <1>3 DEF Descends
<1>5. f[s] = H[f][s] /\ g[s] = H[g][s]
  BY <1>2 DEF Obeys
<1> QED BY <1>2, <1>4, <1>5

LEMMA SomeObey ==
    ASSUME NEW T, NEW V, V # {}, NEW size \in [T -> Nat], NEW H \in [[T -> V] -> [T -> V]],
           Descends(H, T, V, size)
    PROVE  \A n \in Nat : \E f \in [T -> V] : Obeys(f, n, T, size, H)
<1> DEFINE Bad == {n \in Nat : ~\E f \in [T -> V] : Obeys(f, n, T, size, H)}
<1> SUFFICES ASSUME Bad # {} PROVE FALSE
  OBVIOUS
<1>1. PICK n \in Bad : \A k \in Bad : n <= k
  <2>1. Bad \in SUBSET Nat
    OBVIOUS
  <2> HIDE DEF Bad
  <2> QED BY <2>1, LeastIs
<1>2. CASE n = 0
  <2>1. PICK v \in V : TRUE
    OBVIOUS
  <2>2. [s \in T |-> v] \in [T -> V]
    OBVIOUS
  <2>3. Obeys([s \in T |-> v], 0, T, size, H)
    BY DEF Obeys
  <2> QED BY <1>1, <1>2, <2>2, <2>3
<1>3. CASE n # 0
  <2>1. n - 1 \in Nat /\ n \in Nat /\ n - 1 \notin Bad
    BY <1>1, <1>3
  <2>2. PICK f \in [T -> V] : Obeys(f, n - 1, T, size, H)
    BY <2>1
  <2> DEFINE g == [s \in T |-> H[f][s]]
  <2>3. g \in [T -> V]
    OBVIOUS
  <2>4. \A s \in T : size[s] < n - 1 => g[s] = f[s]
    BY <2>2 DEF Obeys
  <2>5. ASSUME NEW s \in T, size[s] < n PROVE g[s] = H[g][s]
    <3>1. \A t \in T : size[t] < size[s] => f[t] = g[t]
      <4>1. ASSUME NEW t \in T, size[t] < size[s] PROVE f[t] = g[t]
        <5>1. size[t] \in Nat /\ size[s] \in Nat
          OBVIOUS
        <5> HIDE DEF g
        <5> QED BY <2>1, <2>4, <2>5, <4>1, <5>1
      <4> QED BY <4>1
    <3>2. g[s] = H[f][s]
      OBVIOUS
    <3> HIDE DEF g
    <3>3. H[f][s] = H[g][s]
      BY <2>3, <3>1 DEF Descends
    <3> QED BY <3>2, <3>3
  <2>6. Obeys(g, n, T, size, H)
    BY <2>5 DEF Obeys
  <2> HIDE DEF g
  <2> QED BY <1>1, <2>3, <2>6
<1> QED BY <1>2, <1>3

\* H is given for all functions from T to V, and has a fixed point.
Equation(H, T, V, size) ==
    /\ size \in [T -> Nat] /\ V # {}
    /\ H \in [[T -> V] -> [T -> V]]
    /\ Descends(H, T, V, size)

Solvable(H, T, V) == \E f \in [T -> V] : \A s \in T : f[s] = H[f][s]

LEMMA Recursion ==
    ASSUME NEW T, NEW V, NEW size, NEW H, Equation(H, T, V, size)
    PROVE  Solvable(H, T, V)
<1> USE DEF Equation
<1> DEFINE Upto(s) == CHOOSE f \in [T -> V] : Obeys(f, size[s] + 1, T, size, H)
           F == [s \in T |-> Upto(s)[s]]
<1>1. ASSUME NEW s \in T PROVE  Upto(s) \in [T -> V] /\ Obeys(Upto(s), size[s] + 1, T, size, H)
  <2>1. size[s] + 1 \in Nat
    OBVIOUS
  <2>2. \E f \in [T -> V] : Obeys(f, size[s] + 1, T, size, H)
    BY <2>1, SomeObey
  <2> QED BY <2>2
<1> HIDE DEF Upto
<1>2. F \in [T -> V]
  BY <1>1
<1>3. ASSUME NEW s \in T PROVE F[s] = H[F][s]
  <2>1. \A t \in T : size[t] < size[s] => F[t] = Upto(s)[t]
    <3>1. ASSUME NEW t \in T, size[t] < size[s] PROVE F[t] = Upto(s)[t]
      <4>1. size[t] \in Nat /\ size[s] \in Nat /\ size[t] + 1 \in Nat
        OBVIOUS
      <4>2. Obeys(Upto(s), size[t] + 1, T, size, H)
        <5>1. \A r \in T : size[r] \in Nat
          OBVIOUS
        <5> QED BY <1>1, <3>1, <4>1, <5>1 DEF Obeys
      <4>3. Upto(t)[t] = Upto(s)[t]
        <5>1. /\ Upto(t) \in [T -> V] /\ Obeys(Upto(t), size[t] + 1, T, size, H)
              /\ Upto(s) \in [T -> V]
          BY <1>1
        <5>2. \A r \in T : size[r] < size[t] + 1 => Upto(t)[r] = Upto(s)[r]
          BY <4>1, <4>2, <5>1, ObeyAlike
        <5> QED BY <4>1, <5>2
      <4> QED BY <4>3
    <3> QED BY <3>1
  <2>2. Upto(s)[s] = H[Upto(s)][s]
    BY <1>1 DEF Obeys
  <2>3. F[s] = Upto(s)[s]
    OBVIOUS
  <2> HIDE DEF F
  <2>4. H[F][s] = H[Upto(s)][s]
    BY <1>1, <1>2, <2>1 DEF Descends
  <2> QED BY <2>2, <2>3, <2>4
<1> HIDE DEF F
<1> QED BY <1>2, <1>3 DEF Solvable

-----------------------------------------------------------------------------
(***************************************************************************)
(* Parts of a text                                                         *)
(***************************************************************************)

TextChars == Whitespace \cup WordChars \cup Punctuation \cup Quotes \cup OtherChars

LEMMA TextIs == Text = Seq(TextChars)
BY DEF Text, TextChars

Suffix(s, i) == SubSeq(s, i, Len(s))

LEMMA SuffixIs ==
    ASSUME NEW s \in Text, NEW i \in 1..(Len(s) + 1)
    PROVE  /\ Suffix(s, i) \in Text
           /\ Len(Suffix(s, i)) = Len(s) - i + 1
           /\ \A k \in 1..(Len(s) - i + 1) : Suffix(s, i)[k] = s[i + k - 1]
<1>1. Len(s) \in Nat /\ \A k \in i..Len(s) : s[k] \in TextChars
  BY TextIs, ElementOfSeq
<1>2. /\ Suffix(s, i) \in Seq(TextChars)
      /\ Len(Suffix(s, i)) = IF i <= Len(s) THEN Len(s) - i + 1 ELSE 0
      /\ \A k \in 1..(Len(s) - i + 1) : Suffix(s, i)[k] = s[i + k - 1]
  BY <1>1, SubSeqProperties DEF Suffix
<1> QED BY <1>1, <1>2, TextIs

LEMMA PrefixIs ==
    ASSUME NEW s \in Text, NEW i \in 0..Len(s)
    PROVE  /\ SubSeq(s, 1, i) \in Text
           /\ Len(SubSeq(s, 1, i)) = i
           /\ \A k \in 1..i : SubSeq(s, 1, i)[k] = s[k]
<1>1. Len(s) \in Nat /\ \A k \in 1..i : s[k] \in TextChars
  BY TextIs, ElementOfSeq
<1>2. /\ SubSeq(s, 1, i) \in Seq(TextChars)
      /\ Len(SubSeq(s, 1, i)) = IF 1 <= i THEN i - 1 + 1 ELSE 0
      /\ \A k \in 1..(i - 1 + 1) : SubSeq(s, 1, i)[k] = s[1 + k - 1]
  BY <1>1, SubSeqProperties
<1> QED BY <1>1, <1>2, TextIs

LEMMA DropIs ==
    ASSUME NEW s \in Text, NEW n \in 0..Len(s)
    PROVE  /\ Drop(s, n) = Suffix(s, n + 1)
           /\ Drop(s, n) \in Text
           /\ Len(Drop(s, n)) = Len(s) - n
           /\ \A k \in 1..(Len(s) - n) : Drop(s, n)[k] = s[n + k]
<1>1. Len(s) \in Nat
  BY DEF Text
<1>2. Drop(s, n) = Suffix(s, n + 1)
  BY DEF Drop, Suffix
<1>3. n + 1 \in 1..(Len(s) + 1)
  BY <1>1
<1>4. /\ Suffix(s, n + 1) \in Text
      /\ Len(Suffix(s, n + 1)) = Len(s) - (n + 1) + 1
      /\ \A k \in 1..(Len(s) - (n + 1) + 1) : Suffix(s, n + 1)[k] = s[(n + 1) + k - 1]
  BY <1>3, SuffixIs
<1>5. ASSUME NEW k \in 1..(Len(s) - n) PROVE Drop(s, n)[k] = s[n + k]
  <2>1. k \in 1..(Len(s) - (n + 1) + 1) /\ (n + 1) + k - 1 = n + k
    BY <1>1
  <2> QED BY <1>2, <1>4, <2>1
<1> QED BY <1>1, <1>2, <1>4, <1>5

LEMMA DropAll ==
    ASSUME NEW s \in Text, NEW n \in Nat, n >= Len(s)
    PROVE  Drop(s, n) = <<>> /\ Drop(s, n) \in Text
<1>1. Len(s) \in Nat
  BY DEF Text
<1> QED BY <1>1, SubSeqEmpty, EmptySeq DEF Drop, Text

LEMMA TailIs ==
    ASSUME NEW s \in Text, s # <<>>
    PROVE  /\ Len(s) \in Nat \ {0}
           /\ s[1] \in TextChars
           /\ Tail(s) = Suffix(s, 2)
           /\ Tail(s) \in Text
           /\ Len(Tail(s)) = Len(s) - 1
<1>1. Len(s) \in Nat \ {0}
  BY TextIs, EmptySeq
<1>2. 1 \in 1..Len(s)
  BY <1>1
<1> QED BY <1>1, <1>2, TextIs, TailIsSubSeq, HeadTailProperties, ElementOfSeq DEF Suffix

LEMMA AtLineEndIs ==
    ASSUME NEW s \in Text
    PROVE  \E i \in 1..(Len(s) + 1) :
              /\ AtLineEnd(s) = Suffix(s, i)
              /\ i <= Len(s) => (s[i] = "newline")
              /\ \A j \in 1..(i - 1) : ~(s[j] = "newline")
<1> DEFINE S == {j \in Nat : s[j] = "newline"}
           First(i) == /\ i > Len(s) \/ (s[i] = "newline")
                       /\ \A j \in 1..(i - 1) : ~(s[j] = "newline")
<1>1. Len(s) \in Nat /\ 1 \in Nat /\ 1 <= Len(s) + 1
  BY DEF Text
<1>2. \E i \in 1..(Len(s) + 1) : First(i)
  <2> HIDE DEF S
  <2>1. PICK i \in 1..(Len(s) + 1) :
               (i > Len(s) \/ i \in S) /\ \A h \in 1..(i - 1) : h \notin S
    BY <1>1, FirstIs
  <2> QED BY <2>1 DEF S
<1>3. AtLineEnd(s) = Suffix(s, CHOOSE i \in 1..(Len(s) + 1) : First(i))
  BY DEF AtLineEnd, From, Suffix
<1> DEFINE e == CHOOSE i \in 1..(Len(s) + 1) : First(i)
<1>4. e \in 1..(Len(s) + 1) /\ First(e) /\ AtLineEnd(s) = Suffix(s, e)
  BY <1>2, <1>3
<1> HIDE DEF e
<1> QED BY <1>1, <1>4

LEMMA PlainEndIs ==
    ASSUME NEW s \in Text
    PROVE  \E i \in 1..(Len(s) + 1) :
              /\ PlainEnd(s) = Suffix(s, i)
              /\ i <= Len(s) => (i < Len(s) /\ s[i] = "*" /\ s[i + 1] = "/")
              /\ \A j \in 1..(i - 1) : ~(j < Len(s) /\ s[j] = "*" /\ s[j + 1] = "/")
<1> DEFINE S == {j \in Nat : j < Len(s) /\ s[j] = "*" /\ s[j + 1] = "/"}
           First(i) == /\ i > Len(s) \/ (i < Len(s) /\ s[i] = "*" /\ s[i + 1] = "/")
                       /\ \A j \in 1..(i - 1) : ~(j < Len(s) /\ s[j] = "*" /\ s[j + 1] = "/")
<1>1. Len(s) \in Nat /\ 1 \in Nat /\ 1 <= Len(s) + 1
  BY DEF Text
<1>2. \E i \in 1..(Len(s) + 1) : First(i)
  <2> HIDE DEF S
  <2>1. PICK i \in 1..(Len(s) + 1) :
               (i > Len(s) \/ i \in S) /\ \A h \in 1..(i - 1) : h \notin S
    BY <1>1, FirstIs
  <2> QED BY <2>1 DEF S
<1>3. PlainEnd(s) = Suffix(s, CHOOSE i \in 1..(Len(s) + 1) : First(i))
  BY DEF PlainEnd, From, Suffix
<1> DEFINE e == CHOOSE i \in 1..(Len(s) + 1) : First(i)
<1>4. e \in 1..(Len(s) + 1) /\ First(e) /\ PlainEnd(s) = Suffix(s, e)
  BY <1>2, <1>3
<1> HIDE DEF e
<1> QED BY <1>1, <1>4

LEMMA StringEndIs ==
    ASSUME NEW s \in Text
    PROVE  \E i \in 1..(Len(s) + 1) :
              /\ StringEnd(s) = Suffix(s, i)
              /\ i <= Len(s) => (i > 1 /\ s[i] = s[1] /\ s[i - 1] # "\\")
              /\ \A j \in 1..(i - 1) : ~(j > 1 /\ s[j] = s[1] /\ s[j - 1] # "\\")
<1> DEFINE S == {j \in Nat : j > 1 /\ s[j] = s[1] /\ s[j - 1] # "\\"}
           First(i) == /\ i > Len(s) \/ (i > 1 /\ s[i] = s[1] /\ s[i - 1] # "\\")
                       /\ \A j \in 1..(i - 1) : ~(j > 1 /\ s[j] = s[1] /\ s[j - 1] # "\\")
<1>1. Len(s) \in Nat /\ 1 \in Nat /\ 1 <= Len(s) + 1
  BY DEF Text
<1>2. \E i \in 1..(Len(s) + 1) : First(i)
  <2> HIDE DEF S
  <2>1. PICK i \in 1..(Len(s) + 1) :
               (i > Len(s) \/ i \in S) /\ \A h \in 1..(i - 1) : h \notin S
    BY <1>1, FirstIs
  <2> QED BY <2>1 DEF S
<1>3. StringEnd(s) = Suffix(s, CHOOSE i \in 1..(Len(s) + 1) : First(i))
  BY DEF StringEnd, From, Suffix
<1> DEFINE e == CHOOSE i \in 1..(Len(s) + 1) : First(i)
<1>4. e \in 1..(Len(s) + 1) /\ First(e) /\ StringEnd(s) = Suffix(s, e)
  BY <1>2, <1>3
<1> HIDE DEF e
<1> QED BY <1>1, <1>4

AfterWord(s) == From(s, LAMBDA i : s[i] \notin WordChars)

LEMMA AfterWordIs ==
    ASSUME NEW s \in Text
    PROVE  \E i \in 1..(Len(s) + 1) :
              /\ AfterWord(s) = Suffix(s, i)
              /\ i <= Len(s) => (s[i] \notin WordChars)
              /\ \A j \in 1..(i - 1) : ~(s[j] \notin WordChars)
<1> DEFINE S == {j \in Nat : s[j] \notin WordChars}
           First(i) == /\ i > Len(s) \/ (s[i] \notin WordChars)
                       /\ \A j \in 1..(i - 1) : ~(s[j] \notin WordChars)
<1>1. Len(s) \in Nat /\ 1 \in Nat /\ 1 <= Len(s) + 1
  BY DEF Text
<1>2. \E i \in 1..(Len(s) + 1) : First(i)
  <2> HIDE DEF S
  <2>1. PICK i \in 1..(Len(s) + 1) :
               (i > Len(s) \/ i \in S) /\ \A h \in 1..(i - 1) : h \notin S
    BY <1>1, FirstIs
  <2> QED BY <2>1 DEF S
<1>3. AfterWord(s) = Suffix(s, CHOOSE i \in 1..(Len(s) + 1) : First(i))
  BY DEF AfterWord, From, Suffix
<1> DEFINE e == CHOOSE i \in 1..(Len(s) + 1) : First(i)
<1>4. e \in 1..(Len(s) + 1) /\ First(e) /\ AfterWord(s) = Suffix(s, e)
  BY <1>2, <1>3
<1> HIDE DEF e
<1> QED BY <1>1, <1>4

-----------------------------------------------------------------------------
(***************************************************************************)
(* Read and LeadingComments are functions                                  *)
(***************************************************************************)

Body(s) == Drop(s, 2)

AfterComment(s) == Drop(PlainEnd(Body(s)), 2)

\* The text of an executable comment.
Kept(s) ==
    IF Body(s) # <<>> /\ Body(s)[1] = "!"
    THEN Tail(Before(Body(s), PlainEnd(Body(s))))
    ELSE <<>>

Word(s) == Before(s, AfterWord(s))

\* The equation of Read, with f for Read where it is used.
Reading(f, s) ==
    CASE s = <<>> -> <<>>
      [] LineComment(s) -> f[AtLineEnd(s)]
      [] Begins(s, "/", "*") -> f[Kept(s)] \o f[AfterComment(s)]
      [] Doubled(s) -> <<<<Spelled(s)>>>> \o f[Body(s)]
      [] OTHER ->
            CASE s[1] \in Whitespace \cup {"tick"} -> f[Tail(s)]
              [] s[1] \in Quotes -> <<<<"?">>>> \o f[Drop(StringEnd(s), 1)]
              [] s[1] \in WordChars ->
                    <<IF Word(s) \in Seq(Digits) THEN <<"?">> ELSE Word(s)>> \o f[AfterWord(s)]
              [] OTHER -> <<<<s[1]>>>> \o f[Tail(s)]

\* That of LeadingComments.
Leading(f, s) ==
    CASE s # <<>> /\ s[1] \in Whitespace -> f[Tail(s)]
      [] LineComment(s) -> f[AtLineEnd(s)]
      [] Begins(s, "/", "*") -> <<Before(Body(s), PlainEnd(Body(s)))>> \o f[AfterComment(s)]
      [] OTHER -> <<>>

Shorter(t, s) == t \in Text /\ Len(t) < Len(s)

LEMMA LineIsShorter ==
    ASSUME NEW s \in Text, LineComment(s)
    PROVE  Shorter(AtLineEnd(s), s)
<1>1. Len(s) \in Nat /\ Len(s) > 1 /\ s[1] = "-"
  BY DEF LineComment, Begins, Text
<1>2. PICK i \in 1..(Len(s) + 1) :
         /\ AtLineEnd(s) = Suffix(s, i)
         /\ i <= Len(s) => s[i] = "newline"
  BY AtLineEndIs
<1>3. i # 1
  BY <1>1, <1>2
<1> QED BY <1>1, <1>2, <1>3, SuffixIs DEF Shorter

LEMMA CommentIs ==
    ASSUME NEW s \in Text, Len(s) > 1
    PROVE  /\ Shorter(Body(s), s)
           /\ Shorter(AfterComment(s), s)
           /\ Before(Body(s), PlainEnd(Body(s))) \in Text
           /\ Shorter(Kept(s), s)
<1>0. Len(s) \in Nat /\ 2 \in 0..Len(s)
  BY DEF Text
<1>1. Body(s) \in Text /\ Len(Body(s)) = Len(s) - 2
  BY <1>0, DropIs DEF Body
<1>2. PICK i \in 1..(Len(Body(s)) + 1) :
         /\ PlainEnd(Body(s)) = Suffix(Body(s), i)
         /\ i <= Len(Body(s)) => Body(s)[i] = "*"
  BY <1>1, PlainEndIs
<1>3. PlainEnd(Body(s)) \in Text /\ Len(PlainEnd(Body(s))) = Len(Body(s)) - i + 1
  BY <1>1, <1>2, SuffixIs
<1>4. AfterComment(s) \in Text /\ Len(AfterComment(s)) <= Len(Body(s))
  <2>1. CASE Len(PlainEnd(Body(s))) >= 2
    <3>1. 2 \in 0..Len(PlainEnd(Body(s)))
      BY <1>0, <1>1, <1>3, <2>1
    <3>2. /\ AfterComment(s) \in Text
          /\ Len(AfterComment(s)) = Len(PlainEnd(Body(s))) - 2
      BY <1>3, <3>1, DropIs DEF AfterComment
    <3> QED BY <1>0, <1>1, <1>3, <3>2
  <2>2. CASE ~(Len(PlainEnd(Body(s))) >= 2)
    <3>1. AfterComment(s) = <<>> /\ AfterComment(s) \in Text
      BY <1>0, <1>1, <1>3, <2>2, DropAll DEF AfterComment
    <3>2. Len(<<>>) = 0
      BY EmptySeq
    <3> QED BY <1>0, <1>1, <3>1, <3>2
  <2> QED BY <2>1, <2>2
<1>5. /\ Before(Body(s), PlainEnd(Body(s))) \in Text
      /\ Len(Before(Body(s), PlainEnd(Body(s)))) = i - 1
  <2>1. i - 1 \in 0..Len(Body(s)) /\ Len(Body(s)) - Len(PlainEnd(Body(s))) = i - 1
    BY <1>0, <1>1, <1>3
  <2> QED BY <1>1, <2>1, PrefixIs DEF Before
<1>6. Shorter(Kept(s), s)
  <2>1. CASE Body(s) # <<>> /\ Body(s)[1] = "!"
    <3>1. i # 1
      <4>1. Len(Body(s)) > 0
        <5>1. Len(Body(s)) \in Nat \ {0}
          BY <1>1, <2>1, TailIs
        <5> QED BY <5>1
      <4> QED BY <1>1, <1>2, <2>1, <4>1
    <3>2. Before(Body(s), PlainEnd(Body(s))) # <<>>
      <4>1. Len(<<>>) = 0
        BY EmptySeq
      <4> QED BY <1>5, <3>1, <4>1
    <3>3. Kept(s) = Tail(Before(Body(s), PlainEnd(Body(s))))
      BY <2>1 DEF Kept
    <3>4. Kept(s) \in Text /\ Len(Kept(s)) = i - 1 - 1
      BY <1>5, <3>2, <3>3, TailIs
    <3> QED BY <1>0, <1>1, <3>4 DEF Shorter
  <2>2. CASE ~(Body(s) # <<>> /\ Body(s)[1] = "!")
    <3>1. Kept(s) = <<>> /\ <<>> \in Text /\ Len(<<>>) = 0
      BY <2>2, EmptySeq, TextIs DEF Kept
    <3> QED BY <1>0, <3>1 DEF Shorter
  <2> QED BY <2>1, <2>2
<1> QED BY <1>0, <1>1, <1>4, <1>5, <1>6 DEF Shorter

LEMMA StringIsShorter ==
    ASSUME NEW s \in Text, s # <<>>
    PROVE  Shorter(Drop(StringEnd(s), 1), s)
<1>0. Len(s) \in Nat \ {0}
  BY TailIs
<1>1. PICK i \in 1..(Len(s) + 1) :
         /\ StringEnd(s) = Suffix(s, i)
         /\ i <= Len(s) => i > 1
  BY StringEndIs
<1>2. StringEnd(s) \in Text /\ Len(StringEnd(s)) = Len(s) - i + 1
  BY <1>1, SuffixIs
<1>3. CASE i <= Len(s)
  <2>1. 1 \in 0..Len(StringEnd(s))
    BY <1>0, <1>2, <1>3
  <2> QED BY <1>0, <1>1, <1>2, <2>1, DropIs DEF Shorter
<1>4. CASE i > Len(s)
  <2>1. Drop(StringEnd(s), 1) = <<>> /\ <<>> \in Text /\ Len(<<>>) = 0
    BY <1>0, <1>2, <1>4, DropAll, EmptySeq, TextIs
  <2> QED BY <1>0, <2>1 DEF Shorter
<1> QED BY <1>0, <1>3, <1>4

LEMMA WordIs ==
    ASSUME NEW s \in Text, s # <<>>, s[1] \in WordChars
    PROVE  /\ Shorter(AfterWord(s), s)
           /\ Word(s) \in Text
<1>0. Len(s) \in Nat \ {0}
  BY TailIs
<1>1. PICK i \in 1..(Len(s) + 1) :
         /\ AfterWord(s) = Suffix(s, i)
         /\ i <= Len(s) => s[i] \notin WordChars
  BY AfterWordIs
<1>2. i # 1
  BY <1>0, <1>1
<1>3. AfterWord(s) \in Text /\ Len(AfterWord(s)) = Len(s) - i + 1
  BY <1>1, SuffixIs
<1>4. i - 1 \in 0..Len(s) /\ Len(s) - Len(AfterWord(s)) = i - 1
  BY <1>0, <1>3
<1> QED BY <1>0, <1>2, <1>3, <1>4, PrefixIs DEF Shorter, Word, Before

LEMMA TailIsShorter ==
    ASSUME NEW s \in Text, s # <<>>
    PROVE  Shorter(Tail(s), s)
BY TailIs DEF Shorter

Agree(f, g, s) == \A t \in Text : Len(t) < Len(s) => f[t] = g[t]

LEMMA ReadingDescends ==
    ASSUME NEW f, NEW g, NEW s \in Text, Agree(f, g, s)
    PROVE  Reading(f, s) = Reading(g, s)
<1>0. \A t : Shorter(t, s) => f[t] = g[t]
  BY DEF Shorter, Agree
<1>1. CASE s = <<>>
  <2>1. ~LineComment(s) /\ ~Doubled(s) /\ \A a, b : ~Begins(s, a, b)
    BY <1>1, EmptySeq DEF LineComment, Doubled, Begins
  <2> QED BY <1>1, <2>1 DEF Reading
<1>2. CASE LineComment(s)
  <2>1. f[AtLineEnd(s)] = g[AtLineEnd(s)]
    BY <1>0, <1>2, LineIsShorter
  <2>2. s # <<>> /\ ~Begins(s, "/", "*") /\ ~Doubled(s)
    BY <1>2, EmptySeq DEF LineComment, Doubled, Begins
  <2> QED BY <1>2, <2>1, <2>2 DEF Reading
<1>3. CASE Begins(s, "/", "*")
  <2>1. f[Kept(s)] = g[Kept(s)] /\ f[AfterComment(s)] = g[AfterComment(s)]
    BY <1>0, <1>3, CommentIs DEF Doubled, Begins
  <2>2. s # <<>> /\ ~LineComment(s) /\ ~Doubled(s)
    BY <1>3, EmptySeq DEF LineComment, Doubled, Begins
  <2> QED BY <1>3, <2>1, <2>2 DEF Reading
<1>4. CASE Doubled(s)
  <2>1. f[Body(s)] = g[Body(s)]
    BY <1>0, <1>4, CommentIs DEF Doubled, Begins
  <2>2. s # <<>> /\ ~LineComment(s) /\ ~Begins(s, "/", "*")
    BY <1>4, EmptySeq DEF LineComment, Doubled, Begins
  <2> QED BY <1>4, <2>1, <2>2 DEF Reading
<1>5. CASE s # <<>> /\ ~LineComment(s) /\ ~Begins(s, "/", "*") /\ ~Doubled(s)
  <2>1. f[Tail(s)] = g[Tail(s)] /\ f[Drop(StringEnd(s), 1)] = g[Drop(StringEnd(s), 1)]
    BY <1>0, <1>5, TailIsShorter, StringIsShorter
  <2>2. s[1] \in WordChars => f[AfterWord(s)] = g[AfterWord(s)]
    BY <1>0, <1>5, WordIs
  <2> HIDE DEF Agree
  <2>3. CASE s[1] \in Whitespace \cup {"tick"}
    BY <1>5, <2>1, <2>3 DEF Reading, Whitespace, Quotes, WordChars, Letters, Digits
  <2>4. CASE s[1] \in Quotes
    BY <1>5, <2>1, <2>4 DEF Reading, Whitespace, Quotes, WordChars, Letters, Digits
  <2>5. CASE s[1] \in WordChars
    BY <1>5, <2>2, <2>5 DEF Reading, Whitespace, Quotes, WordChars, Letters, Digits
  <2>6. CASE s[1] \notin Whitespace \cup {"tick"} \cup Quotes \cup WordChars
    BY <1>5, <2>1, <2>6 DEF Reading
  <2> QED BY <2>3, <2>4, <2>5, <2>6
<1> QED BY <1>1, <1>2, <1>3, <1>4, <1>5

LEMMA LeadingDescends ==
    ASSUME NEW f, NEW g, NEW s \in Text, Agree(f, g, s)
    PROVE  Leading(f, s) = Leading(g, s)
<1>0. \A t : Shorter(t, s) => f[t] = g[t]
  BY DEF Shorter, Agree
<1>1. CASE s # <<>> /\ s[1] \in Whitespace
  <2>1. f[Tail(s)] = g[Tail(s)]
    BY <1>0, <1>1, TailIsShorter
  <2>2. ~LineComment(s) /\ ~Begins(s, "/", "*")
    BY <1>1 DEF LineComment, Doubled, Begins, Whitespace
  <2> QED BY <1>1, <2>1, <2>2 DEF Leading
<1>2. CASE LineComment(s)
  <2>1. f[AtLineEnd(s)] = g[AtLineEnd(s)]
    BY <1>0, <1>2, LineIsShorter
  <2>2. ~Begins(s, "/", "*") /\ s[1] \notin Whitespace
    BY <1>2 DEF LineComment, Doubled, Begins, Whitespace
  <2> QED BY <1>2, <2>1, <2>2 DEF Leading
<1>3. CASE Begins(s, "/", "*")
  <2>1. f[AfterComment(s)] = g[AfterComment(s)]
    BY <1>0, <1>3, CommentIs DEF Doubled, Begins
  <2>2. ~LineComment(s) /\ s[1] \notin Whitespace
    BY <1>3 DEF LineComment, Doubled, Begins, Whitespace
  <2> QED BY <1>3, <2>1, <2>2 DEF Leading
<1>4. CASE ~(s # <<>> /\ s[1] \in Whitespace) /\ ~LineComment(s) /\ ~Begins(s, "/", "*")
  BY <1>4 DEF Leading
<1> QED BY <1>1, <1>2, <1>3, <1>4

\* A text as the server reads it, and the comments before a statement.
Texts == Seq(Text)

LEMMA JoinIs ==
    ASSUME NEW t \in Text, NEW r \in Texts
    PROVE  /\ <<t>> \o r \in Texts
           /\ <<t>> \o r # <<>>
           /\ Len(<<t>> \o r) = Len(r) + 1
           /\ (<<t>> \o r)[1] = t
           /\ \A k \in 1..Len(r) : (<<t>> \o r)[k + 1] = r[k]
<1>1. <<t>> \in Texts /\ Len(<<t>>) = 1 /\ <<t>>[1] = t
  BY DEF Texts
<1>2. /\ <<t>> \o r \in Texts
      /\ Len(<<t>> \o r) = Len(<<t>>) + Len(r)
      /\ \A i \in 1..(Len(<<t>>) + Len(r)) :
            (<<t>> \o r)[i] = IF i <= Len(<<t>>) THEN <<t>>[i] ELSE r[i - Len(<<t>>)]
  BY <1>1, ConcatProperties DEF Texts
<1>3. Len(r) \in Nat /\ Len(<<>>) = 0
  BY EmptySeq DEF Texts
<1> HIDE DEF Texts
<1>4. Len(<<t>> \o r) = Len(r) + 1 /\ (<<t>> \o r)[1] = t
  BY <1>1, <1>2, <1>3
<1>5. ASSUME NEW k \in 1..Len(r) PROVE (<<t>> \o r)[k + 1] = r[k]
  <2>1. k + 1 \in 1..(Len(<<t>>) + Len(r)) /\ ~(k + 1 <= Len(<<t>>)) /\ k + 1 - Len(<<t>>) = k
    BY <1>1, <1>3
  <2> QED BY <1>2, <2>1
<1> QED BY <1>2, <1>3, <1>4, <1>5

LEMMA OneCharacter == ASSUME NEW c \in TextChars PROVE <<c>> \in Text
BY TextIs

LEMMA SpelledIs == ASSUME NEW s PROVE <<Spelled(s)>> \in Text
BY OneCharacter DEF Spelled, TextChars, OtherChars

LEMMA ReadingIn ==
    ASSUME NEW f \in [Text -> Texts], NEW s \in Text
    PROVE  Reading(f, s) \in Texts
<1>0. \A t \in Text : f[t] \in Texts
  OBVIOUS
<1>1. CASE s = <<>>
  <2>1. ~LineComment(s) /\ ~Doubled(s) /\ \A a, b : ~Begins(s, a, b)
    BY <1>1, EmptySeq DEF LineComment, Doubled, Begins
  <2> QED BY <1>1, <2>1, EmptySeq DEF Reading, Texts
<1>2. CASE LineComment(s)
  <2>1. f[AtLineEnd(s)] \in Texts
    BY <1>2, LineIsShorter DEF Shorter
  <2>2. s # <<>> /\ ~Begins(s, "/", "*") /\ ~Doubled(s)
    BY <1>2, EmptySeq DEF LineComment, Doubled, Begins
  <2> QED BY <1>2, <2>1, <2>2 DEF Reading
<1>3. CASE Begins(s, "/", "*")
  <2>1. f[Kept(s)] \in Texts /\ f[AfterComment(s)] \in Texts
    BY <1>3, CommentIs DEF Doubled, Begins, Shorter
  <2>2. s # <<>> /\ ~LineComment(s) /\ ~Doubled(s)
    BY <1>3, EmptySeq DEF LineComment, Doubled, Begins
  <2>3. Reading(f, s) = f[Kept(s)] \o f[AfterComment(s)]
    BY <1>3, <2>2 DEF Reading
  <2> QED BY <2>1, <2>3, ConcatProperties DEF Texts
<1>4. CASE Doubled(s)
  <2>1. f[Body(s)] \in Texts /\ <<Spelled(s)>> \in Text
    BY <1>4, CommentIs, SpelledIs DEF Doubled, Begins, Shorter
  <2>2. s # <<>> /\ ~LineComment(s) /\ ~Begins(s, "/", "*")
    BY <1>4, EmptySeq DEF LineComment, Doubled, Begins
  <2>3. Reading(f, s) = <<<<Spelled(s)>>>> \o f[Body(s)]
    BY <1>4, <2>2 DEF Reading
  <2> QED BY <2>1, <2>3, JoinIs
<1>5. CASE s # <<>> /\ ~LineComment(s) /\ ~Begins(s, "/", "*") /\ ~Doubled(s)
  <2>1. f[Tail(s)] \in Texts /\ f[Drop(StringEnd(s), 1)] \in Texts
    BY <1>5, TailIsShorter, StringIsShorter DEF Shorter
  <2>3. CASE s[1] \in Whitespace \cup {"tick"}
    BY <1>5, <2>1, <2>3 DEF Reading, Whitespace, Quotes, WordChars, Letters, Digits
  <2>4. CASE s[1] \in Quotes
    <3>1. Reading(f, s) = <<<<"?">>>> \o f[Drop(StringEnd(s), 1)]
      BY <1>5, <2>4 DEF Reading, Whitespace, Quotes, WordChars, Letters, Digits
    <3>2. <<"?">> \in Text
      BY OneCharacter DEF TextChars, Punctuation
    <3> QED BY <2>1, <3>1, <3>2, JoinIs
  <2>5. CASE s[1] \in WordChars
    <3>1. f[AfterWord(s)] \in Texts /\ Word(s) \in Text
      BY <1>5, <2>5, WordIs DEF Shorter
    <3> DEFINE w == IF Word(s) \in Seq(Digits) THEN <<"?">> ELSE Word(s)
    <3>2. Reading(f, s) = <<w>> \o f[AfterWord(s)]
      BY <1>5, <2>5 DEF Reading, Whitespace, Quotes, WordChars, Letters, Digits
    <3>3. <<"?">> \in Text
      BY OneCharacter DEF TextChars, Punctuation
    <3>4. w \in Text
      BY <3>1, <3>3
    <3> HIDE DEF w
    <3> QED BY <3>1, <3>2, <3>4, JoinIs
  <2>6. CASE s[1] \notin Whitespace \cup {"tick"} \cup Quotes \cup WordChars
    <3>1. Reading(f, s) = <<<<s[1]>>>> \o f[Tail(s)]
      BY <1>5, <2>6 DEF Reading
    <3>2. <<s[1]>> \in Text
      BY <1>5, TailIs, OneCharacter
    <3> QED BY <2>1, <3>1, <3>2, JoinIs
  <2> QED BY <2>3, <2>4, <2>5, <2>6
<1> QED BY <1>1, <1>2, <1>3, <1>4, <1>5

LEMMA LeadingIn ==
    ASSUME NEW f \in [Text -> Texts], NEW s \in Text
    PROVE  Leading(f, s) \in Texts
<1>1. CASE s # <<>> /\ s[1] \in Whitespace
  <2>1. f[Tail(s)] \in Texts
    BY <1>1, TailIsShorter DEF Shorter
  <2>2. ~LineComment(s) /\ ~Begins(s, "/", "*")
    BY <1>1 DEF LineComment, Doubled, Begins, Whitespace
  <2> QED BY <1>1, <2>1, <2>2 DEF Leading
<1>2. CASE LineComment(s)
  <2>1. f[AtLineEnd(s)] \in Texts
    BY <1>2, LineIsShorter DEF Shorter
  <2>2. ~Begins(s, "/", "*") /\ s[1] \notin Whitespace
    BY <1>2 DEF LineComment, Doubled, Begins, Whitespace
  <2> QED BY <1>2, <2>1, <2>2 DEF Leading
<1>3. CASE Begins(s, "/", "*")
  <2>1. f[AfterComment(s)] \in Texts /\ Before(Body(s), PlainEnd(Body(s))) \in Text
    BY <1>3, CommentIs DEF Doubled, Begins, Shorter
  <2>2. ~LineComment(s) /\ s[1] \notin Whitespace
    BY <1>3 DEF LineComment, Doubled, Begins, Whitespace
  <2>3. Leading(f, s) = <<Before(Body(s), PlainEnd(Body(s)))>> \o f[AfterComment(s)]
    BY <1>3, <2>2 DEF Leading
  <2> QED BY <2>1, <2>3, JoinIs
<1>4. CASE ~(s # <<>> /\ s[1] \in Whitespace) /\ ~LineComment(s) /\ ~Begins(s, "/", "*")
  BY <1>4, EmptySeq DEF Leading, Texts
<1> QED BY <1>1, <1>2, <1>3, <1>4

\* A function on texts that each equation defines.
LEMMA ReadExists == \E f \in [Text -> Texts] : f = [s \in Text |-> Reading(f, s)]
<1> DEFINE size == [s \in Text |-> Len(s)]
           H == [f \in [Text -> Texts] |-> [s \in Text |-> Reading(f, s)]]
<1>1. size \in [Text -> Nat]
  BY DEF Text
<1>2. H \in [[Text -> Texts] -> [Text -> Texts]]
  BY ReadingIn
<1>3. \A f \in [Text -> Texts] : \A s \in Text : H[f][s] = Reading(f, s)
  OBVIOUS
<1>4. Descends(H, Text, Texts, size)
  <2> SUFFICES ASSUME NEW f \in [Text -> Texts], NEW g \in [Text -> Texts], NEW s \in Text,
                      \A t \in Text : size[t] < size[s] => f[t] = g[t]
               PROVE  H[f][s] = H[g][s]
    BY DEF Descends
  <2>1. Agree(f, g, s)
    BY DEF Agree
  <2>2. Reading(f, s) = Reading(g, s)
    BY <2>1, ReadingDescends
  <2> HIDE DEF H
  <2> QED BY <1>3, <2>2
<1>5. Texts # {}
  BY EmptySeq DEF Texts
<1> HIDE DEF size, H
<1>6. PICK f \in [Text -> Texts] : \A s \in Text : f[s] = H[f][s]
  <2>1. Equation(H, Text, Texts, size)
    BY <1>1, <1>2, <1>4, <1>5 DEF Equation
  <2>2. Solvable(H, Text, Texts)
    BY <2>1, Recursion
  <2> QED BY <2>2 DEF Solvable
<1>7. f = [s \in Text |-> Reading(f, s)]
  BY <1>3, <1>6
<1> QED BY <1>7

LEMMA FirstDifference ==
    ASSUME NEW f, NEW g, \E s \in Text : f[s] # g[s]
    PROVE  \E s \in Text : f[s] # g[s] /\ Agree(f, g, s)
<1> DEFINE Differ == {s \in Text : f[s] # g[s]}
           Sizes == {Len(s) : s \in Differ}
<1>1. PICK m \in Sizes : \A k \in Sizes : m <= k
  <2>1. \A s \in Text : Len(s) \in Nat
    BY DEF Text
  <2>2. Sizes \in SUBSET Nat /\ Sizes # {}
    BY <2>1
  <2> HIDE DEF Sizes
  <2> QED BY <2>2, LeastIs
<1>2. PICK s \in Differ : Len(s) = m
  BY <1>1
<1>3. Agree(f, g, s)
  <2>1. ASSUME NEW t \in Text, Len(t) < Len(s), f[t] # g[t] PROVE FALSE
    <3>1. m <= Len(t) /\ Len(t) \in Nat /\ Len(s) \in Nat
      BY <1>1, <1>2, <2>1 DEF Text
    <3> QED BY <1>2, <2>1, <3>1
  <2> QED BY <2>1 DEF Agree
<1> QED BY <1>2, <1>3

LEMMA ReadIs ==
    /\ Read \in [Text -> Texts]
    /\ \A s \in Text : Read[s] = Reading(Read, s)
<1>1. \E f : f = [s \in Text |-> Reading(f, s)]
  BY ReadExists
<1>2. Read = CHOOSE f : f = [s \in Text |-> Reading(f, s)]
  BY DEF Read, Reading, Body, AfterComment, Kept, Word, AfterWord
<1>3. Read = [s \in Text |-> Reading(Read, s)]
  BY <1>1, <1>2
<1>4. \A s \in Text : Read[s] = Reading(Read, s)
  BY <1>3
<1>5. PICK f \in [Text -> Texts] : f = [s \in Text |-> Reading(f, s)]
  BY ReadExists
<1>6. \A s \in Text : f[s] = Reading(f, s)
  BY <1>5
<1>7. \A s \in Text : Read[s] = f[s]
  <2> SUFFICES ASSUME \E s \in Text : Read[s] # f[s] PROVE FALSE
    OBVIOUS
  <2>1. PICK s \in Text : Read[s] # f[s] /\ Agree(Read, f, s)
    BY FirstDifference
  <2> QED BY <1>4, <1>6, <2>1, ReadingDescends
<1>8. Read = [s \in Text |-> Read[s]]
  BY <1>3
<1>9. Read \in [Text -> Texts]
  BY <1>7, <1>8
<1> QED BY <1>4, <1>9

LEMMA LeadingExists == \E f \in [Text -> Texts] : f = [s \in Text |-> Leading(f, s)]
<1> DEFINE size == [s \in Text |-> Len(s)]
           H == [f \in [Text -> Texts] |-> [s \in Text |-> Leading(f, s)]]
<1>1. size \in [Text -> Nat]
  BY DEF Text
<1>2. H \in [[Text -> Texts] -> [Text -> Texts]]
  BY LeadingIn
<1>3. \A f \in [Text -> Texts] : \A s \in Text : H[f][s] = Leading(f, s)
  OBVIOUS
<1>4. Descends(H, Text, Texts, size)
  <2> SUFFICES ASSUME NEW f \in [Text -> Texts], NEW g \in [Text -> Texts], NEW s \in Text,
                      \A t \in Text : size[t] < size[s] => f[t] = g[t]
               PROVE  H[f][s] = H[g][s]
    BY DEF Descends
  <2>1. Agree(f, g, s)
    BY DEF Agree
  <2>2. Leading(f, s) = Leading(g, s)
    BY <2>1, LeadingDescends
  <2> HIDE DEF H
  <2> QED BY <1>3, <2>2
<1>5. Texts # {}
  BY EmptySeq DEF Texts
<1> HIDE DEF size, H
<1>6. PICK f \in [Text -> Texts] : \A s \in Text : f[s] = H[f][s]
  <2>1. Equation(H, Text, Texts, size)
    BY <1>1, <1>2, <1>4, <1>5 DEF Equation
  <2>2. Solvable(H, Text, Texts)
    BY <2>1, Recursion
  <2> QED BY <2>2 DEF Solvable
<1>7. f = [s \in Text |-> Leading(f, s)]
  BY <1>3, <1>6
<1> QED BY <1>7

LEMMA LeadingIs ==
    /\ LeadingComments \in [Text -> Texts]
    /\ \A s \in Text : LeadingComments[s] = Leading(LeadingComments, s)
<1>1. \E f : f = [s \in Text |-> Leading(f, s)]
  BY LeadingExists
<1>2. LeadingComments = CHOOSE f : f = [s \in Text |-> Leading(f, s)]
  BY DEF LeadingComments, Leading, Body, AfterComment
<1>3. LeadingComments = [s \in Text |-> Leading(LeadingComments, s)]
  BY <1>1, <1>2
<1>4. \A s \in Text : LeadingComments[s] = Leading(LeadingComments, s)
  BY <1>3
<1>5. PICK f \in [Text -> Texts] : f = [s \in Text |-> Leading(f, s)]
  BY LeadingExists
<1>6. \A s \in Text : f[s] = Leading(f, s)
  BY <1>5
<1>7. \A s \in Text : LeadingComments[s] = f[s]
  <2> SUFFICES ASSUME \E s \in Text : LeadingComments[s] # f[s] PROVE FALSE
    OBVIOUS
  <2>1. PICK s \in Text : LeadingComments[s] # f[s] /\ Agree(LeadingComments, f, s)
    BY FirstDifference
  <2> QED BY <1>4, <1>6, <2>1, LeadingDescends
<1>8. LeadingComments = [s \in Text |-> LeadingComments[s]]
  BY <1>3
<1>9. LeadingComments \in [Text -> Texts]
  BY <1>7, <1>8
<1> QED BY <1>4, <1>9

-----------------------------------------------------------------------------
(***************************************************************************)
(* What the server reads from a position of the statement on               *)
(***************************************************************************)

Rest(i) == Suffix(query, i)

LEMMA RestIs ==
    ASSUME ReadInv, NEW i \in 1..(Len(query) + 1)
    PROVE  /\ Len(query) \in Nat
           /\ Rest(i) \in Text
           /\ Len(Rest(i)) = Len(query) - i + 1
           /\ \A k \in 1..(Len(query) - i + 1) : Rest(i)[k] = query[i + k - 1]
BY SuffixIs, AheadIs DEF ReadInv, Rest

LEMMA RestOfRest ==
    ASSUME ReadInv, NEW i \in 1..(Len(query) + 1), NEW k \in 1..(Len(query) - i + 2)
    PROVE  Suffix(Rest(i), k) = Rest(i + k - 1)
<1>1. /\ Len(query) \in Nat /\ Rest(i) \in Text /\ Len(Rest(i)) = Len(query) - i + 1
      /\ \A h \in 1..(Len(query) - i + 1) : Rest(i)[h] = query[i + h - 1]
  BY RestIs
<1>2. i + k - 1 \in 1..(Len(query) + 1) /\ k \in 1..(Len(Rest(i)) + 1)
  BY <1>1
<1>3. /\ Suffix(Rest(i), k) \in Text
      /\ Len(Suffix(Rest(i), k)) = Len(Rest(i)) - k + 1
      /\ \A h \in 1..(Len(Rest(i)) - k + 1) : Suffix(Rest(i), k)[h] = Rest(i)[k + h - 1]
  BY <1>1, <1>2, SuffixIs
<1> DEFINE j == i + k - 1
<1>4. /\ Rest(j) \in Text /\ Len(Rest(j)) = Len(query) - j + 1
      /\ \A h \in 1..(Len(query) - j + 1) : Rest(j)[h] = query[j + h - 1]
  <2>1. j \in 1..(Len(query) + 1)
    BY <1>2
  <2> HIDE DEF j
  <2> QED BY <2>1, RestIs
<1>5. Len(Suffix(Rest(i), k)) = Len(Rest(j))
  BY <1>1, <1>3, <1>4
<1>6. ASSUME NEW h \in 1..Len(Rest(j)) PROVE Suffix(Rest(i), k)[h] = Rest(j)[h]
  <2>1. h \in 1..(Len(Rest(i)) - k + 1) /\ h \in 1..(Len(query) - j + 1)
    BY <1>1, <1>3, <1>4, <1>5
  <2>2. Suffix(Rest(i), k)[h] = Rest(i)[k + h - 1] /\ Rest(j)[h] = query[j + h - 1]
    BY <1>3, <1>4, <2>1
  <2>3. k + h - 1 \in 1..(Len(query) - i + 1) /\ i + (k + h - 1) - 1 = j + h - 1
    BY <1>1, <2>1
  <2> QED BY <1>1, <2>2, <2>3
<1>7. Suffix(Rest(i), k) = Rest(j)
  <2> HIDE DEF j
  <2> QED BY <1>3, <1>4, <1>5, <1>6, SeqEqual, TextIs
<1> QED BY <1>7

LEMMA RestFirst ==
    ASSUME ReadInv, NEW i \in 1..Len(query)
    PROVE  /\ Rest(i) # <<>>
           /\ Rest(i)[1] = query[i]
           /\ Tail(Rest(i)) = Rest(i + 1)
<1>0. i \in 1..(Len(query) + 1)
  BY AheadIs
<1>1. /\ Len(query) \in Nat /\ Rest(i) \in Text /\ Len(Rest(i)) = Len(query) - i + 1
      /\ \A h \in 1..(Len(query) - i + 1) : Rest(i)[h] = query[i + h - 1]
  BY <1>0, RestIs
<1>2. Len(<<>>) = 0
  BY EmptySeq
<1>3. Rest(i) # <<>>
  BY <1>1, <1>2
<1>4. 2 \in 1..(Len(query) - i + 2) /\ 1 \in 1..(Len(query) - i + 1) /\ i + 1 - 1 = i
      /\ i \in 1..(Len(query) + 1) /\ i + 2 - 1 = i + 1
  BY <1>1
<1>5. Suffix(Rest(i), 2) = Rest(i + 1)
  BY <1>4, RestOfRest
<1>6. Rest(i)[1] = query[i]
  BY <1>1, <1>4
<1> QED BY <1>1, <1>3, <1>5, <1>6, TailIs

LEMMA RestDrop ==
    ASSUME ReadInv, NEW i \in 1..(Len(query) + 1), NEW n \in 0..(Len(query) - i + 1)
    PROVE  Drop(Rest(i), n) = Rest(i + n)
<1>1. Len(query) \in Nat /\ Rest(i) \in Text /\ Len(Rest(i)) = Len(query) - i + 1
  BY RestIs
<1>2. n \in 0..Len(Rest(i)) /\ n + 1 \in 1..(Len(query) - i + 2) /\ i + (n + 1) - 1 = i + n
  BY <1>1
<1>3. Drop(Rest(i), n) = Suffix(Rest(i), n + 1)
  BY <1>1, <1>2, DropIs
<1> QED BY <1>2, <1>3, RestOfRest

\* The server reads the same from i and from j on, and the same comments.
ReadAlike(i, j) ==
    /\ Read[Rest(i)] = Read[Rest(j)]
    /\ LeadingComments[Rest(i)] = LeadingComments[Rest(j)]

LEMMA SpaceRead ==
    ASSUME ReadInv, NEW i \in 1..Len(query), query[i] \in Whitespace
    PROVE  ReadAlike(i, i + 1)
<1>1. Rest(i) \in Text /\ Rest(i) # <<>> /\ Rest(i)[1] \in Whitespace
      /\ Tail(Rest(i)) = Rest(i + 1)
  <2>1. i \in 1..(Len(query) + 1)
    BY AheadIs
  <2> QED BY <2>1, RestIs, RestFirst
<1>2. ~LineComment(Rest(i)) /\ \A b : ~Begins(Rest(i), "/", b) /\ ~Doubled(Rest(i))
  BY <1>1 DEF LineComment, Doubled, Begins, Whitespace
<1>3. Reading(Read, Rest(i)) = Read[Tail(Rest(i))]
  BY <1>1, <1>2 DEF Reading, Whitespace, Quotes, WordChars, Letters, Digits
<1>4. Leading(LeadingComments, Rest(i)) = LeadingComments[Tail(Rest(i))]
  BY <1>1, <1>2 DEF Leading
<1> QED BY <1>1, <1>3, <1>4, ReadIs, LeadingIs DEF ReadAlike

LEMMA SpacesRead ==
    ASSUME ReadInv, NEW i \in 1..(Len(query) + 1), NEW j \in i..(Len(query) + 1),
           \A h \in i..(j - 1) : query[h] \in Whitespace
    PROVE  ReadAlike(i, j)
<1>0. Len(query) \in Nat
  BY AheadIs
<1> DEFINE Bad == {k \in i..j : ~ReadAlike(i, k)}
<1> SUFFICES ASSUME Bad # {} PROVE FALSE
  BY <1>0
<1>1. PICK k \in Bad : \A h \in Bad : k <= h
  <2>1. Bad \in SUBSET Nat
    OBVIOUS
  <2> HIDE DEF Bad
  <2> QED BY <2>1, LeastIs
<1>2. k # i
  BY <1>1 DEF ReadAlike
<1>3. k - 1 \in i..j /\ k - 1 \notin Bad /\ k - 1 \in 1..Len(query) /\ k - 1 \in i..(j - 1)
  BY <1>0, <1>1, <1>2
<1>4. ReadAlike(i, k - 1)
  BY <1>3
<1>5. ReadAlike(k - 1, (k - 1) + 1)
  BY <1>3, SpaceRead
<1>6. (k - 1) + 1 = k
  BY <1>1
<1> QED BY <1>1, <1>4, <1>5, <1>6 DEF ReadAlike

LEMMA PairIs ==
    ASSUME ReadInv, NEW i \in 1..(Len(query) + 1), NEW a, NEW b
    PROVE  /\ Pair(i, a, b) <=> Begins(Rest(i), a, b)
           /\ Pair(i, a, b) => /\ i + 2 \in 1..(Len(query) + 1)
                                /\ Len(Rest(i)) > 1
                                /\ Body(Rest(i)) = Rest(i + 2)
                                /\ Rest(i)[1] = a /\ Rest(i)[2] = b
<1>1. /\ Len(query) \in Nat /\ Rest(i) \in Text /\ Len(Rest(i)) = Len(query) - i + 1
      /\ \A h \in 1..(Len(query) - i + 1) : Rest(i)[h] = query[i + h - 1]
  BY RestIs
<1>2. Len(Rest(i)) > 1 <=> i \in 1..(Len(query) - 1)
  BY <1>1
<1>3. CASE Len(Rest(i)) > 1
  <2>1. 1 \in 1..(Len(query) - i + 1) /\ 2 \in 1..(Len(query) - i + 1)
        /\ i + 1 - 1 = i /\ i + 2 - 1 = i + 1
    BY <1>1, <1>3
  <2>2. Rest(i)[1] = query[i] /\ Rest(i)[2] = query[i + 1]
    BY <1>1, <2>1
  <2>3. 2 \in 0..(Len(query) - i + 1) /\ i + 2 \in 1..(Len(query) + 1)
    BY <1>1, <1>3
  <2>4. Body(Rest(i)) = Rest(i + 2)
    BY <2>3, RestDrop DEF Body
  <2> QED BY <1>2, <1>3, <2>2, <2>3, <2>4 DEF Pair, Begins
<1>4. CASE ~(Len(Rest(i)) > 1)
  BY <1>2, <1>4 DEF Pair, Begins
<1> QED BY <1>3, <1>4

LEMMA LineRead ==
    ASSUME ReadInv, NEW i \in 1..(Len(query) + 1), LineComment(Rest(i))
    PROVE  /\ i + 2 \in 1..(Len(query) + 1)
           /\ AfterLine(i + 2) \in 1..(Len(query) + 1)
           /\ ReadAlike(i, AfterLine(i + 2))
<1>1. /\ Len(query) \in Nat /\ Rest(i) \in Text /\ Len(Rest(i)) = Len(query) - i + 1
      /\ \A h \in 1..(Len(query) - i + 1) : Rest(i)[h] = query[i + h - 1]
  BY RestIs
<1>2. Len(Rest(i)) > 1 /\ Rest(i)[1] = "-" /\ Rest(i)[2] = "-"
  BY DEF LineComment, Doubled, Begins
<1> DEFINE e == LineEnd(i + 2)
<1>3. i + 2 \in 1..(Len(query) + 1)
  BY <1>1, <1>2
<1>4. /\ e \in (i + 2)..(Len(query) + 1)
      /\ e <= Len(query) => query[e] = "newline"
      /\ \A h \in (i + 2)..(e - 1) : query[h] # "newline"
  <2>1. i + 2 \in Nat /\ i + 2 <= Len(query) + 1
    BY <1>1, <1>3
  <2> QED BY <1>1, <2>1, LineEndIs
<1> HIDE DEF e
<1>5. AtLineEnd(Rest(i)) = Rest(e)
  <2>1. PICK k \in 1..(Len(Rest(i)) + 1) :
           /\ AtLineEnd(Rest(i)) = Suffix(Rest(i), k)
           /\ k <= Len(Rest(i)) => Rest(i)[k] = "newline"
           /\ \A j \in 1..(k - 1) : Rest(i)[j] # "newline"
    BY <1>1, AtLineEndIs
  <2>2. k >= 3
    <3>1. k # 1 /\ k # 2
      BY <1>1, <1>2, <2>1
    <3> QED BY <3>1
  <2>3. CASE i + k - 1 < e
    <3>1. k <= Len(Rest(i)) /\ k \in 1..(Len(query) - i + 1) /\ i + k - 1 \in (i + 2)..(e - 1)
      BY <1>1, <1>4, <2>2, <2>3
    <3> QED BY <1>1, <1>4, <2>1, <3>1
  <2>4. CASE e < i + k - 1
    <3>1. e - i + 1 \in 1..(k - 1) /\ e <= Len(query) /\ e - i + 1 \in 1..(Len(query) - i + 1)
          /\ i + (e - i + 1) - 1 = e
      BY <1>1, <1>4, <2>4
    <3>2. Rest(i)[e - i + 1] = query[e]
      BY <1>1, <3>1
    <3> QED BY <1>4, <2>1, <3>1, <3>2
  <2>5. CASE i + k - 1 = e
    <3>1. k \in 1..(Len(query) - i + 2)
      BY <1>1
    <3> QED BY <2>1, <2>5, <3>1, RestOfRest
  <2> QED BY <1>1, <1>4, <2>1, <2>3, <2>4, <2>5
<1>6. ReadAlike(i, e)
  <2>1. Reading(Read, Rest(i)) = Read[AtLineEnd(Rest(i))]
    <3>1. Rest(i) # <<>> /\ ~Begins(Rest(i), "/", "*") /\ ~Doubled(Rest(i))
      BY <1>2, EmptySeq DEF Doubled, Begins
    <3> QED BY <3>1 DEF Reading
  <2>2. Leading(LeadingComments, Rest(i)) = LeadingComments[AtLineEnd(Rest(i))]
    <3>1. ~Begins(Rest(i), "/", "*") /\ Rest(i)[1] \notin Whitespace
      BY <1>2 DEF Doubled, Begins, Whitespace
    <3> QED BY <3>1 DEF Leading
  <2> QED BY <1>1, <1>5, <2>1, <2>2, ReadIs, LeadingIs DEF ReadAlike
<1>7. CASE e <= Len(query)
  <2>1. AfterLine(i + 2) = e + 1
    BY <1>7 DEF AfterLine, e
  <2>2. e \in 1..Len(query) /\ query[e] \in Whitespace
    BY <1>1, <1>4, <1>7 DEF Whitespace
  <2>3. ReadAlike(e, e + 1)
    BY <2>2, SpaceRead
  <2> QED BY <1>1, <1>3, <1>6, <2>1, <2>2, <2>3 DEF ReadAlike
<1>8. CASE e > Len(query)
  <2>1. AfterLine(i + 2) = e
    <3>1. ~(e <= Len(query))
      BY <1>1, <1>4, <1>8
    <3> QED BY <3>1 DEF AfterLine, e
  <2> QED BY <1>1, <1>3, <1>4, <1>6, <2>1
<1> QED BY <1>1, <1>4, <1>7, <1>8

LEMMA SliceIs ==
    ASSUME ReadInv, NEW i \in 1..(Len(query) + 1), NEW e \in i..(Len(query) + 1)
    PROVE  /\ Slice(i, e) \in Text
           /\ Len(Slice(i, e)) = e - i
           /\ \A k \in 1..(e - i) : Slice(i, e)[k] = query[i + k - 1]
           /\ SubSeq(Rest(i), 1, e - i) = Slice(i, e)
<1>0. Len(query) \in Nat /\ i \in Int /\ e \in Int /\ e >= i
  BY AheadIs
<1>1. /\ Rest(i) \in Text /\ Len(Rest(i)) = Len(query) - i + 1
      /\ \A h \in 1..(Len(query) - i + 1) : Rest(i)[h] = query[i + h - 1]
  BY RestIs
<1>2. \A k \in i..(e - 1) : query[k] \in TextChars
  <2>1. query \in Seq(TextChars)
    BY TextIs DEF ReadInv
  <2>2. \A k \in i..(e - 1) : k \in 1..Len(query)
    BY <1>0
  <2> QED BY <2>1, <2>2, ElementOfSeq
<1>3. /\ Slice(i, e) \in Seq(TextChars)
      /\ Len(Slice(i, e)) = IF i <= e - 1 THEN (e - 1) - i + 1 ELSE 0
      /\ \A k \in 1..((e - 1) - i + 1) : Slice(i, e)[k] = query[i + k - 1]
  <2>1. i \in Int /\ e - 1 \in Int
    BY <1>0
  <2> QED BY <1>2, <2>1, SubSeqProperties DEF Slice
<1>4. Len(Slice(i, e)) = e - i
  <2>1. (IF i <= e - 1 THEN (e - 1) - i + 1 ELSE 0) = e - i
    BY <1>0
  <2> QED BY <1>3, <2>1
<1>5. (e - 1) - i + 1 = e - i
  BY <1>0
<1>6. /\ SubSeq(Rest(i), 1, e - i) \in Text
      /\ Len(SubSeq(Rest(i), 1, e - i)) = e - i
      /\ \A k \in 1..(e - i) : SubSeq(Rest(i), 1, e - i)[k] = Rest(i)[k]
  <2>1. e - i \in 0..Len(Rest(i))
    BY <1>0, <1>1
  <2> QED BY <1>1, <2>1, PrefixIs
<1>7. ASSUME NEW k \in 1..(e - i) PROVE SubSeq(Rest(i), 1, e - i)[k] = Slice(i, e)[k]
  <2>1. k \in 1..(Len(query) - i + 1)
    BY <1>0
  <2> QED BY <1>1, <1>3, <1>5, <1>6, <2>1
<1>8. SubSeq(Rest(i), 1, e - i) = Slice(i, e)
  <2>1. SubSeq(Rest(i), 1, e - i) \in Seq(TextChars)
    BY <1>6, TextIs
  <2> QED BY <1>3, <1>4, <1>6, <1>7, <2>1, SeqEqual
<1> QED BY <1>3, <1>4, <1>5, <1>8, TextIs

\* The loop over a comment ends where the server sees the end of it.
LEMMA PlainCommentEnds ==
    ASSUME ReadInv, CommentsPlain, NEW i \in 1..(Len(query) + 1), Pair(i, "/", "*")
    PROVE  /\ BodyEnd(i + 2) \in (i + 2)..(Len(query) - 1)
           /\ Pair(BodyEnd(i + 2), "*", "/")
           /\ \A h \in (i + 2)..(BodyEnd(i + 2) - 1) : query[h] # "*"
<1> DEFINE e == BodyEnd(i + 2)
<1>0. Len(query) \in Nat /\ i \in 1..Len(query)
  BY AheadIs DEF Pair
<1>1. PICK c \in (i + 2)..Len(query) :
         Closes(c) /\ \A j \in (i + 2)..(c - 1) : query[j] \notin {"*", "/"}
  BY <1>0 DEF CommentsPlain, Opens
<1>2. c \in 1..(Len(query) - 1) /\ query[c] = "*" /\ query[c + 1] = "/"
  BY <1>1 DEF Closes, Pair
<1>3. i + 2 \in Nat /\ i + 2 <= Len(query) + 1
  BY <1>0, <1>1
<1>4. /\ e \in (i + 2)..(Len(query) + 1)
      /\ e <= Len(query) => e = Len(query) \/ query[e] = "*" \/ query[e + 1] = "/"
      /\ \A h \in (i + 2)..(e - 1) : h # Len(query) /\ query[h] # "*" /\ query[h + 1] # "/"
  BY <1>0, <1>3, BodyEndIs
<1> HIDE DEF e
<1>5. e <= c
  <2> SUFFICES ASSUME c < e PROVE FALSE
    BY <1>0, <1>4
  <2>1. c \in (i + 2)..(e - 1)
    BY <1>0, <1>1, <1>4
  <2> QED BY <1>2, <1>4, <2>1
<1>6. e = c
  <2> SUFFICES ASSUME e < c PROVE FALSE
    BY <1>0, <1>4, <1>5
  <2>1. e \in (i + 2)..(c - 1) /\ e <= Len(query) /\ e # Len(query)
    BY <1>0, <1>2, <1>4
  <2>2. query[e + 1] = "/" /\ e + 1 \in (i + 2)..c
    BY <1>0, <1>1, <1>4, <2>1
  <2>3. e + 1 # c
    BY <1>2, <2>2
  <2>4. e + 1 \in (i + 2)..(c - 1)
    BY <1>0, <2>2, <2>3
  <2> QED BY <1>1, <2>2, <2>4
<1> QED BY <1>0, <1>1, <1>2, <1>4, <1>6 DEF e, Closes

LEMMA NothingRead == <<>> \in Text /\ Read[<<>>] = <<>> /\ LeadingComments[<<>>] = <<>>
<1>1. <<>> \in Text
  BY EmptySeq, TextIs
<1>2. ~LineComment(<<>>) /\ ~Doubled(<<>>) /\ \A x, y : ~Begins(<<>>, x, y)
  BY EmptySeq DEF LineComment, Doubled, Begins
<1>3. Reading(Read, <<>>) = <<>> /\ Leading(LeadingComments, <<>>) = <<>>
  BY <1>2 DEF Reading, Leading
<1> QED BY <1>1, <1>3, ReadIs, LeadingIs

\* The parts of a comment, for the code and for the server.
LEMMA CommentPartsAre ==
    ASSUME ReadInv, CommentsPlain, NEW i \in 1..(Len(query) + 1), Pair(i, "/", "*")
    PROVE  LET e == BodyEnd(i + 2)
           IN  /\ e \in (i + 2)..(Len(query) - 1) /\ query[e] = "*" /\ query[e + 1] = "/"
               /\ \A h \in (i + 2)..(e - 1) : query[h] # "*"
               /\ i + 2 \in 1..(Len(query) + 1) /\ e + 2 \in 1..(Len(query) + 1)
               /\ AfterBody(i + 2) = e + 2
               /\ Begins(Rest(i), "/", "*") /\ Rest(i)[1] = "/" /\ Rest(i)[2] = "*"
               /\ Rest(i) \in Text /\ Rest(e + 2) \in Text
               /\ Body(Rest(i)) = Rest(i + 2)
               /\ Before(Rest(i + 2), PlainEnd(Rest(i + 2))) = Slice(i + 2, e)
               /\ Slice(i + 2, e) \in Text
               /\ AfterComment(Rest(i)) = Rest(e + 2)
<1> DEFINE e == BodyEnd(i + 2)
           b == Rest(i + 2)
<1>1. /\ Len(query) \in Nat
      /\ e \in (i + 2)..(Len(query) - 1) /\ query[e] = "*" /\ query[e + 1] = "/"
      /\ \A h \in (i + 2)..(e - 1) : query[h] # "*"
  BY AheadIs, PlainCommentEnds DEF Pair
<1>2. AfterBody(i + 2) = e + 2
  BY <1>1 DEF AfterBody
<1>3. /\ Begins(Rest(i), "/", "*") /\ Len(Rest(i)) > 1 /\ i + 2 \in 1..(Len(query) + 1)
      /\ Body(Rest(i)) = b /\ Rest(i)[1] = "/" /\ Rest(i)[2] = "*"
  BY PairIs
<1> HIDE DEF e
<1>4. /\ b \in Text /\ Len(b) = Len(query) - (i + 2) + 1
      /\ \A h \in 1..(Len(query) - (i + 2) + 1) : b[h] = query[(i + 2) + h - 1]
  BY <1>3, RestIs
<1>5. PlainEnd(b) = Rest(e)
  <2>1. PICK k \in 1..(Len(b) + 1) :
           /\ PlainEnd(b) = Suffix(b, k)
           /\ k <= Len(b) => k < Len(b) /\ b[k] = "*" /\ b[k + 1] = "/"
           /\ \A j \in 1..(k - 1) : ~(j < Len(b) /\ b[j] = "*" /\ b[j + 1] = "/")
    BY <1>4, PlainEndIs
  <2>2. CASE (i + 2) + k - 1 < e
    <3>1. /\ k <= Len(b) /\ k \in 1..(Len(query) - (i + 2) + 1)
          /\ (i + 2) + k - 1 \in (i + 2)..(e - 1)
      BY <1>1, <1>3, <1>4, <2>2
    <3> QED BY <1>1, <1>4, <2>1, <3>1
  <2>3. CASE e < (i + 2) + k - 1
    <3> DEFINE j == e - (i + 2) + 1
    <3>1. /\ j \in 1..(k - 1) /\ j < Len(b)
          /\ j \in 1..(Len(query) - (i + 2) + 1) /\ j + 1 \in 1..(Len(query) - (i + 2) + 1)
          /\ (i + 2) + j - 1 = e /\ (i + 2) + (j + 1) - 1 = e + 1
      BY <1>1, <1>3, <1>4, <2>3
    <3> HIDE DEF j
    <3>2. b[j] = query[e] /\ b[j + 1] = query[e + 1]
      BY <1>4, <3>1
    <3> QED BY <1>1, <2>1, <3>1, <3>2
  <2>4. CASE (i + 2) + k - 1 = e
    <3>1. k \in 1..(Len(query) - (i + 2) + 2)
      BY <1>1, <1>4
    <3>2. Suffix(Rest(i + 2), k) = Rest((i + 2) + k - 1)
      BY <1>3, <3>1, RestOfRest
    <3> QED BY <2>1, <2>4, <3>2
  <2> QED BY <1>1, <1>3, <1>4, <2>2, <2>3, <2>4
<1>6. Before(b, PlainEnd(b)) = Slice(i + 2, e) /\ Slice(i + 2, e) \in Text
  <2>1. e \in 1..(Len(query) + 1) /\ e \in (i + 2)..(Len(query) + 1)
    BY <1>1, <1>3
  <2>2. Len(Rest(e)) = Len(query) - e + 1
    BY <2>1, RestIs
  <2>3. Len(b) - Len(Rest(e)) = e - (i + 2)
    <3>1. Len(b) = Len(query) - i - 1 /\ Len(Rest(e)) = Len(query) - e + 1
      BY <1>1, <1>3, <1>4, <2>2
    <3>2. i \in Int /\ e \in Int /\ Len(query) \in Int
      BY <1>1, <1>3
    <3> HIDE DEF b
    <3> QED BY <3>1, <3>2
  <2>4. Before(b, PlainEnd(b)) = SubSeq(b, 1, e - (i + 2))
    BY <1>5, <2>3 DEF Before
  <2> QED BY <1>3, <2>1, <2>4, SliceIs
<1>7. AfterComment(Rest(i)) = Rest(e + 2)
  <2>1. e \in 1..(Len(query) + 1) /\ 2 \in 0..(Len(query) - e + 1)
    BY <1>1, <1>3
  <2> QED BY <1>3, <1>5, <2>1, RestDrop DEF AfterComment
<1>8. Rest(i) \in Text /\ Rest(e + 2) \in Text /\ e + 2 \in 1..(Len(query) + 1)
  <2>1. e + 2 \in 1..(Len(query) + 1)
    BY <1>1, <1>3
  <2> QED BY <2>1, RestIs
<1> HIDE DEF b
<1> QED BY <1>1, <1>2, <1>3, <1>6, <1>7, <1>8 DEF e, b

LEMMA CommentRead ==
    ASSUME ReadInv, CommentsPlain, NEW i \in 1..(Len(query) + 1), Pair(i, "/", "*"),
           query[i + 2] # "!"
    PROVE  /\ AfterBody(i + 2) \in 1..(Len(query) + 1)
           /\ Slice(i + 2, BodyEnd(i + 2)) \in Text
           /\ Read[Rest(i)] = Read[Rest(AfterBody(i + 2))]
           /\ LeadingComments[Rest(i)] =
                 <<Slice(i + 2, BodyEnd(i + 2))>> \o LeadingComments[Rest(AfterBody(i + 2))]
<1> DEFINE e == BodyEnd(i + 2)
           b == Rest(i + 2)
<1>1. /\ e \in (i + 2)..(Len(query) - 1) /\ i + 2 \in 1..(Len(query) + 1)
      /\ e + 2 \in 1..(Len(query) + 1) /\ AfterBody(i + 2) = e + 2
      /\ Begins(Rest(i), "/", "*") /\ Rest(i)[1] = "/" /\ Rest(i)[2] = "*"
      /\ Rest(i) \in Text /\ Rest(e + 2) \in Text
      /\ Body(Rest(i)) = b
      /\ Before(b, PlainEnd(b)) = Slice(i + 2, e) /\ Slice(i + 2, e) \in Text
      /\ AfterComment(Rest(i)) = Rest(e + 2)
  BY CommentPartsAre
<1>2. /\ Len(query) \in Nat
      /\ \A h \in 1..(Len(query) - (i + 2) + 1) : b[h] = query[(i + 2) + h - 1]
  BY <1>1, RestIs
<1> HIDE DEF e
<1>3. Kept(Rest(i)) = <<>>
  <2>1. 1 \in 1..(Len(query) - (i + 2) + 1) /\ (i + 2) + 1 - 1 = i + 2
    BY <1>1, <1>2
  <2>2. b[1] = query[i + 2]
    BY <1>2, <2>1
  <2> QED BY <1>1, <2>2 DEF Kept
<1>4. Read[Rest(i)] = Read[Rest(e + 2)]
  <2>1. Rest(i) # <<>> /\ ~LineComment(Rest(i)) /\ ~Doubled(Rest(i))
    BY <1>1, EmptySeq DEF LineComment, Doubled, Begins
  <2>2. Reading(Read, Rest(i)) = Read[<<>>] \o Read[Rest(e + 2)]
    BY <1>1, <1>3, <2>1 DEF Reading
  <2>3. Read[Rest(e + 2)] \in Seq(Text)
    BY <1>1, ReadIs DEF Texts
  <2> QED BY <1>1, <2>2, <2>3, NothingRead, ReadIs, ConcatEmptySeq
<1>5. LeadingComments[Rest(i)] = <<Slice(i + 2, e)>> \o LeadingComments[Rest(e + 2)]
  <2>1. ~LineComment(Rest(i)) /\ Rest(i)[1] \notin Whitespace
    BY <1>1 DEF LineComment, Doubled, Begins, Whitespace
  <2>2. Leading(LeadingComments, Rest(i)) =
           <<Before(b, PlainEnd(b))>> \o LeadingComments[Rest(e + 2)]
    BY <1>1, <2>1 DEF Leading
  <2> QED BY <1>1, <2>2, LeadingIs
<1> QED BY <1>1, <1>4, <1>5 DEF e

\* What is read begins with SELECT.
Selects(r) == r # <<>> /\ r[1] = <<"SELECT">>

LEMMA OthersDoNotSelect ==
    ASSUME NEW t \in Text, t # <<"SELECT">>, NEW r \in Texts
    PROVE  ~Selects(<<t>> \o r)
BY JoinIs DEF Selects

LEMMA WordRead ==
    ASSUME ReadInv, NEW i \in 1..Len(query), query[i] \in WordChars
    PROVE  Selects(Read[Rest(i)]) <=> Slice(i, Skip(i, WordChars)) = <<"SELECT">>
<1> DEFINE e == Skip(i, WordChars)
           w == Slice(i, e)
<1>0. Len(query) \in Nat /\ i \in 1..(Len(query) + 1)
  BY AheadIs
<1>1. /\ e \in i..(Len(query) + 1)
      /\ e <= Len(query) => query[e] \notin WordChars
      /\ \A h \in i..(e - 1) : query[h] \in WordChars
  <2>1. i \in Nat /\ i <= Len(query) + 1
    BY <1>0
  <2> QED BY <1>0, <2>1, SkipIs
<1> HIDE DEF e
<1>2. /\ Rest(i) \in Text /\ Len(Rest(i)) = Len(query) - i + 1
      /\ \A h \in 1..(Len(query) - i + 1) : Rest(i)[h] = query[i + h - 1]
      /\ Rest(i) # <<>> /\ Rest(i)[1] \in WordChars
  BY <1>0, RestIs, RestFirst
<1>3. AfterWord(Rest(i)) = Rest(e)
  <2>1. PICK k \in 1..(Len(Rest(i)) + 1) :
           /\ AfterWord(Rest(i)) = Suffix(Rest(i), k)
           /\ k <= Len(Rest(i)) => Rest(i)[k] \notin WordChars
           /\ \A j \in 1..(k - 1) : Rest(i)[j] \in WordChars
    BY <1>2, AfterWordIs
  <2>2. CASE i + k - 1 < e
    <3>1. k <= Len(Rest(i)) /\ k \in 1..(Len(query) - i + 1) /\ i + k - 1 \in i..(e - 1)
      BY <1>0, <1>1, <1>2, <2>2
    <3> QED BY <1>1, <1>2, <2>1, <3>1
  <2>3. CASE e < i + k - 1
    <3>1. /\ e - i + 1 \in 1..(k - 1) /\ e - i + 1 \in 1..(Len(query) - i + 1) /\ e <= Len(query)
          /\ i + (e - i + 1) - 1 = e
      BY <1>0, <1>1, <1>2, <2>3
    <3>2. Rest(i)[e - i + 1] = query[e]
      BY <1>2, <3>1
    <3> QED BY <1>1, <2>1, <3>1, <3>2
  <2>4. CASE i + k - 1 = e
    <3>1. k \in 1..(Len(query) - i + 2)
      BY <1>0, <1>2
    <3>2. Suffix(Rest(i), k) = Rest(i + k - 1)
      BY <1>0, <3>1, RestOfRest
    <3> QED BY <2>1, <2>4, <3>2
  <2> QED BY <1>0, <1>1, <2>2, <2>3, <2>4
<1>4. Word(Rest(i)) = w /\ w \in Text
  <2>1. e \in 1..(Len(query) + 1)
    BY <1>0, <1>1
  <2>2. Len(Rest(e)) = Len(query) - e + 1
    BY <2>1, RestIs
  <2>3. Len(Rest(i)) - Len(Rest(e)) = e - i
    <3>1. i \in Int /\ e \in Int /\ Len(query) \in Int
      BY <1>0, <1>1
    <3> QED BY <1>2, <2>2, <3>1
  <2>4. Word(Rest(i)) = SubSeq(Rest(i), 1, e - i)
    BY <1>3, <2>3 DEF Word, Before
  <2> QED BY <1>0, <1>1, <2>4, SliceIs
<1> DEFINE v == IF w \in Seq(Digits) THEN <<"?">> ELSE w
<1>5. Read[Rest(i)] = <<v>> \o Read[Rest(e)]
  <2>1. ~LineComment(Rest(i)) /\ \A b : ~Begins(Rest(i), "/", b) /\ ~Doubled(Rest(i))
    BY <1>2 DEF LineComment, Doubled, Begins, WordChars, Letters, Digits
  <2>2. Reading(Read, Rest(i)) = <<v>> \o Read[AfterWord(Rest(i))]
    BY <1>2, <1>4, <2>1 DEF Reading, Whitespace, Quotes, WordChars, Letters, Digits
  <2> HIDE DEF v
  <2> QED BY <1>2, <1>3, <2>2, ReadIs
<1>6. v \in Text /\ (v = <<"SELECT">> <=> w = <<"SELECT">>)
  <2>1. <<"?">> \in Text /\ <<"?">> # <<"SELECT">>
    BY OneCharacter DEF TextChars, Punctuation
  <2>2. <<"SELECT">> \notin Seq(Digits)
    <3> SUFFICES ASSUME <<"SELECT">> \in Seq(Digits) PROVE FALSE
      OBVIOUS
    <3>1. Len(<<"SELECT">>) = 1 /\ <<"SELECT">>[1] = "SELECT"
      OBVIOUS
    <3>2. <<"SELECT">>[1] \in Digits
      BY <3>1, ElementOfSeq
    <3> QED BY <3>1, <3>2 DEF Digits
  <2> HIDE DEF w
  <2> QED BY <1>4, <2>1, <2>2
<1>7. Read[Rest(e)] \in Texts
  <2>1. e \in 1..(Len(query) + 1)
    BY <1>0, <1>1
  <2> QED BY <2>1, RestIs, ReadIs
<1>8. Selects(Read[Rest(i)]) <=> v = <<"SELECT">>
  <2> HIDE DEF v
  <2> QED BY <1>5, <1>6, <1>7, JoinIs DEF Selects
<1> QED BY <1>6, <1>8 DEF e

-----------------------------------------------------------------------------
(***************************************************************************)
(* Hints                                                                   *)
(***************************************************************************)

\* What is neither a comment nor whitespace begins with the keyword for the
\* server just if it does for the scanner.
LEMMA FirstTokenRead ==
    ASSUME ReadInv, PlainHints, NEW i \in 1..(Len(query) + 1),
           i <= Len(query) => query[i] \notin Whitespace,
           ~Pair(i, "/", "*"), ~LineComment(Rest(i)), ~Pair(i, "-", "-")
    PROVE  /\ LeadingComments[Rest(i)] = <<>>
           /\ Selects(Read[Rest(i)]) <=> TokenAt(i).value = <<"SELECT">>
<1> DEFINE s == Rest(i)
           t == TokenAt(i)
<1>0. Len(query) \in Nat /\ s \in Text
  BY RestIs
<1>1. ~Begins(s, "/", "*") /\ (Doubled(s) <=> Pair(i, "|", "|") \/ Pair(i, "&", "&"))
  BY PairIs DEF Doubled
<1>2. CASE i = Len(query) + 1
  <2>1. s = <<>>
    <3>1. Len(s) = 0
      BY <1>0, <1>2, RestIs
    <3> QED BY <1>0, <3>1, TailIs
  <2>2. Leading(LeadingComments, s) = <<>> /\ Reading(Read, s) = <<>>
    <3>1. ~LineComment(<<>>) /\ ~Doubled(<<>>) /\ \A a, b : ~Begins(<<>>, a, b)
      BY EmptySeq DEF LineComment, Doubled, Begins
    <3> HIDE DEF s
    <3> QED BY <2>1, <3>1 DEF Leading, Reading
  <2>3. t.value = <<>>
    <3>1. Char(i) = "none"
      BY <1>0, <1>2 DEF Char
    <3>2. t = WordToken(i)
      BY <3>1 DEF TokenAt, Punctuation, Quotes, Digits
    <3>3. Skip(i, WordChars) = i
      <4>1. i \in Nat /\ i <= Len(query) + 1
        BY <1>0, <1>2
      <4>2. Skip(i, WordChars) \in i..(Len(query) + 1)
        BY <1>0, <4>1, SkipIs
      <4> QED BY <1>0, <1>2, <4>2
    <3>4. t.value = Slice(i, Skip(i, WordChars))
      BY <3>1, <3>2 DEF WordToken, Token
    <3>5. t.value = Slice(i, i)
      BY <3>3, <3>4
    <3>6. Slice(i, i) = <<>>
      BY <1>0, SubSeqEmpty DEF Slice
    <3> QED BY <3>5, <3>6
  <2>4. LeadingComments[s] = <<>> /\ Read[s] = <<>>
    <3> HIDE DEF s
    <3> QED BY <1>0, <2>2, ReadIs, LeadingIs
  <2> QED BY <2>3, <2>4 DEF Selects
<1>3. CASE i \in 1..Len(query)
  <2> DEFINE c == query[i]
  <2>1. /\ s # <<>> /\ s[1] = c /\ Tail(s) = Rest(i + 1) /\ Char(i) = c /\ c \in TextChars
        /\ c \notin Whitespace
    BY <1>0, <1>3, RestFirst, TailIs DEF Char
  <2>2. Leading(LeadingComments, s) = <<>>
    <3> HIDE DEF s, c
    <3> QED BY <1>1, <2>1 DEF Leading, s
  <2>3. LeadingComments[s] = <<>>
    <3> HIDE DEF s
    <3> QED BY <1>0, <2>2, LeadingIs
  <2>4. CASE Pair(i, "|", "|") \/ Pair(i, "&", "&")
    <3>1. c \in {"|", "&"}
      BY <2>4 DEF Pair
    <3>2. Reading(Read, s) = <<<<Spelled(s)>>>> \o Read[Body(s)]
      <4> HIDE DEF s, c
      <4> QED BY <1>1, <2>1, <2>4 DEF Reading, s
    <3>3. Body(s) \in Text
      <4>1. Len(s) > 1
        BY <1>1, <2>4 DEF Doubled, Begins
      <4> HIDE DEF s
      <4> QED BY <1>0, <4>1, CommentIs DEF Shorter
    <3>4. ~Selects(Read[s])
      <4>1. <<Spelled(s)>> \in Text /\ <<Spelled(s)>> # <<"SELECT">>
        BY SpelledIs DEF Spelled
      <4>2. Read[Body(s)] \in Texts /\ Read[s] = <<<<Spelled(s)>>>> \o Read[Body(s)]
        <5> HIDE DEF s
        <5> QED BY <1>0, <3>2, <3>3, ReadIs
      <4> QED BY <4>1, <4>2, OthersDoNotSelect
    <3>5. t = OperatorToken(i)
      BY <2>1, <3>1 DEF TokenAt, Punctuation, Quotes, Digits
    <3>6. t.value # <<"SELECT">>
      BY <2>1, <3>1, <3>5 DEF OperatorToken, Token, Pairs
    <3> QED BY <2>3, <3>4, <3>6
  <2>5. CASE ~Doubled(s) /\ c = "tick"
    <3>1. i + 1 \in 1..Len(query) /\ query[i + 1] \in WordChars
      BY <1>3, <2>5 DEF PlainHints, Opens
    <3>2. Reading(Read, s) = Read[Rest(i + 1)]
      <4> HIDE DEF s
      <4> QED BY <1>1, <2>1, <2>5 DEF Reading, Whitespace, Quotes, WordChars, Letters, Digits, s
    <3>3. Read[s] = Read[Rest(i + 1)]
      <4> HIDE DEF s
      <4> QED BY <1>0, <3>2, ReadIs
    <3>4. Selects(Read[Rest(i + 1)]) <=> Slice(i + 1, Skip(i + 1, WordChars)) = <<"SELECT">>
      BY <3>1, WordRead
    <3>5. t = WordToken(i)
      BY <2>1, <2>5 DEF TokenAt, Punctuation, Quotes, Digits
    <3>6. t.value = Slice(i + 1, Skip(i + 1, WordChars))
      BY <2>1, <2>5, <3>5 DEF WordToken, Token
    <3> QED BY <2>3, <3>3, <3>4, <3>6
  <2>6. CASE ~Doubled(s) /\ c \in Quotes
    <3>1. Reading(Read, s) = <<<<"?">>>> \o Read[Drop(StringEnd(s), 1)]
      <4> HIDE DEF s
      <4> QED BY <1>1, <2>1, <2>6 DEF Reading, Whitespace, Quotes, WordChars, Letters, Digits, s
    <3>2. Drop(StringEnd(s), 1) \in Text
      <4> HIDE DEF s
      <4> QED BY <1>0, <2>1, StringIsShorter DEF Shorter
    <3>3. <<"?">> \in Text /\ Read[Drop(StringEnd(s), 1)] \in Texts
      BY <3>2, OneCharacter, ReadIs DEF TextChars, Punctuation
    <3>4. Read[s] = <<<<"?">>>> \o Read[Drop(StringEnd(s), 1)]
      <4> HIDE DEF s
      <4> QED BY <1>0, <3>1, ReadIs
    <3>5. ~Selects(Read[s])
      BY <3>3, <3>4, OthersDoNotSelect
    <3>6. t = StringToken(i)
      BY <2>1, <2>6 DEF TokenAt, Quotes, Punctuation, Digits
    <3>7. t.value = <<>>
      BY <3>6 DEF StringToken, Token
    <3> QED BY <2>3, <3>5, <3>7
  <2>7. CASE ~Doubled(s) /\ c \in WordChars
    <3>1. Selects(Read[s]) <=> Slice(i, Skip(i, WordChars)) = <<"SELECT">>
      BY <1>3, <2>7, WordRead
    <3>2. CASE c \in Letters
      <4>1. t = WordToken(i) /\ c # "tick"
        BY <2>1, <3>2 DEF TokenAt, Punctuation, Quotes, Digits, Letters
      <4>2. t.value = Slice(i, Skip(i, WordChars))
        BY <2>1, <4>1 DEF WordToken, Token
      <4> QED BY <2>3, <3>1, <4>2
    <3>3. CASE c \in Digits
      <4>1. t.value = <<>>
        BY <2>1, <3>3 DEF TokenAt, Punctuation, Quotes, Digits, NumberToken, Token
      <4>2. Slice(i, Skip(i, WordChars)) # <<"SELECT">>
        <5> DEFINE e == Skip(i, WordChars)
        <5>1. i \in Nat /\ i <= Len(query) + 1 /\ i \in 1..(Len(query) + 1)
          BY <1>0, <1>3
        <5>2. e \in i..(Len(query) + 1) /\ (e <= Len(query) => query[e] \notin WordChars)
          BY <1>0, <5>1, SkipIs
        <5> HIDE DEF e
        <5>3. e # i /\ 1 \in 1..(e - i) /\ i + 1 - 1 = i
          BY <1>0, <1>3, <2>7, <5>1, <5>2
        <5>4. Slice(i, e)[1] = c
          BY <5>1, <5>2, <5>3, SliceIs
        <5> QED BY <3>3, <5>4 DEF Digits, e
      <4> QED BY <2>3, <3>1, <4>1, <4>2
    <3> QED BY <2>7, <3>2, <3>3 DEF WordChars
  <2>8. CASE ~Doubled(s) /\ c \notin {"tick"} \cup Quotes \cup WordChars
    <3>1. Reading(Read, s) = <<<<c>>>> \o Read[Rest(i + 1)]
      <4> HIDE DEF s, c
      <4> QED BY <1>1, <2>1, <2>8 DEF Reading, s
    <3>2. Rest(i + 1) \in Text
      <4>1. i + 1 \in 1..(Len(query) + 1)
        BY <1>0, <1>3
      <4> QED BY <4>1, RestIs
    <3>3. <<c>> \in Text /\ <<c>> # <<"SELECT">>
      <4>1. c # "SELECT"
        BY <2>8 DEF WordChars, Letters
      <4> QED BY <2>1, <4>1, OneCharacter
    <3>4. Read[s] = <<<<c>>>> \o Read[Rest(i + 1)] /\ Read[Rest(i + 1)] \in Texts
      <4> HIDE DEF s
      <4> QED BY <1>0, <3>1, <3>2, ReadIs
    <3>5. ~Selects(Read[s])
      <4> HIDE DEF c
      <4> QED BY <3>3, <3>4, OthersDoNotSelect
    <3>6. t.value # <<"SELECT">>
      <4>1. CASE c = "\\"
        BY <2>1, <4>1 DEF TokenAt, Token, Punctuation, Quotes, Digits
      <4>2. CASE c \in Punctuation
        <5>1. t.value = <<c>>
          BY <2>1, <4>2 DEF TokenAt, Token, Punctuation, Quotes, Digits
        <5> QED BY <3>3, <5>1
      <4>3. CASE c \in {"!", "<", ">", "|", "&", "@"}
        <5>1. t = OperatorToken(i)
          BY <2>1, <4>3 DEF TokenAt, Token, Punctuation, Quotes, Digits
        <5>2. t.value \in {<<c, Char(i + 1)>>, <<c, c>>, <<c>>}
          BY <5>1 DEF OperatorToken, Token, Pairs
        <5> QED BY <3>3, <5>2
      <4>4. CASE c \notin {"\\", "!", "<", ">", "|", "&", "@"} \cup Punctuation
        <5>1. t = WordToken(i)
          BY <2>1, <2>8, <4>4 DEF TokenAt, WordChars
        <5>2. t.value = Slice(i, Skip(i, WordChars))
          BY <2>1, <2>8, <5>1 DEF WordToken, Token
        <5>3. Skip(i, WordChars) = i
          <6>1. i \in Nat /\ i <= Len(query) + 1
            BY <1>0, <1>3
          <6>2. /\ Skip(i, WordChars) \in i..(Len(query) + 1)
                /\ \A h \in i..(Skip(i, WordChars) - 1) : query[h] \in WordChars
            BY <1>0, <6>1, SkipIs
          <6>3. Skip(i, WordChars) # i => i \in i..(Skip(i, WordChars) - 1)
            BY <6>1, <6>2
          <6> QED BY <2>8, <6>2, <6>3
        <5>4. Slice(i, i) = <<>>
          BY <1>0, SubSeqEmpty DEF Slice
        <5> QED BY <5>2, <5>3, <5>4
      <4> QED BY <4>1, <4>2, <4>3, <4>4
    <3> QED BY <2>3, <3>5, <3>6
  <2>9. Doubled(s) \/ ~Doubled(s)
    OBVIOUS
  <2> HIDE DEF s, c
  <2> QED BY <1>1, <2>4, <2>5, <2>6, <2>7, <2>8, <2>9
<1> QED BY <1>0, <1>2, <1>3

\* The last of the bodies at these places.
LastOf(bodies, found) ==
    IF found = {} THEN <<>> ELSE bodies[CHOOSE i \in found : \A j \in found : j <= i]

Switches(bodies) == {i \in 1..Len(bodies) : Says(bodies[i], "qc=on") \/ Says(bodies[i], "qc=off")}
Times(bodies) == {i \in 1..Len(bodies) : Says(bodies[i], "qc_ttl=")}
Servers(bodies) == {i \in 1..Len(bodies) : Says(bodies[i], "qc_sid=")}

LEMMA GreatestIs ==
    ASSUME NEW n \in Nat, NEW S \in SUBSET (1..n), S # {}
    PROVE  \E m \in S : \A k \in S : k <= m
<1> DEFINE D == {n - k : k \in S}
<1>1. PICK d \in D : \A e \in D : d <= e
  <2>1. \A k \in S : n - k \in Nat
    OBVIOUS
  <2>2. D \in SUBSET Nat /\ D # {}
    BY <2>1
  <2> HIDE DEF D
  <2> QED BY <2>2, LeastIs
<1>2. PICK m \in S : d = n - m
  BY <1>1
<1>3. ASSUME NEW k \in S PROVE k <= m
  <2>1. n - k \in D /\ d <= n - k
    BY <1>1
  <2>2. k \in Int /\ m \in Int
    OBVIOUS
  <2> HIDE DEF D
  <2> QED BY <1>2, <2>1, <2>2
<1> QED BY <1>3

LEMMA OneBodyMore ==
    ASSUME NEW bodies \in Texts, NEW b \in Text
    PROVE  /\ Append(bodies, b) \in Texts
           /\ Len(bodies) \in Nat
           /\ Len(Append(bodies, b)) = Len(bodies) + 1
           /\ Append(bodies, b)[Len(bodies) + 1] = b
           /\ \A i \in 1..Len(bodies) : Append(bodies, b)[i] = bodies[i]
BY AppendProperties DEF Texts

LEMMA LastOfSame ==
    ASSUME NEW bodies \in Texts, NEW b \in Text, NEW found \in SUBSET (1..Len(bodies))
    PROVE  LastOf(Append(bodies, b), found) = LastOf(bodies, found)
<1>1. CASE found = {}
  BY <1>1 DEF LastOf
<1>2. CASE found # {}
  <2> DEFINE m == CHOOSE i \in found : \A j \in found : j <= i
  <2>1. Len(bodies) \in Nat
    BY OneBodyMore
  <2>2. \E i \in found : \A j \in found : j <= i
    BY <1>2, <2>1, GreatestIs
  <2>3. m \in 1..Len(bodies)
    BY <2>2
  <2>4. LastOf(Append(bodies, b), found) = Append(bodies, b)[m] /\ LastOf(bodies, found) = bodies[m]
    BY <1>2 DEF LastOf
  <2> HIDE DEF m
  <2> QED BY <2>3, <2>4, OneBodyMore
<1> QED BY <1>1, <1>2

LEMMA LastOfNew ==
    ASSUME NEW bodies \in Texts, NEW b \in Text, NEW found \in SUBSET (1..Len(bodies))
    PROVE  LastOf(Append(bodies, b), found \cup {Len(bodies) + 1}) = b
<1> DEFINE n == Len(bodies) + 1
           S == found \cup {n}
           m == CHOOSE i \in S : \A j \in S : j <= i
<1>1. Len(bodies) \in Nat
  BY OneBodyMore
<1>2. n \in S /\ \A j \in S : j <= n
  BY <1>1
<1>3. m \in S /\ \A j \in S : j <= m
  <2> HIDE DEF S, n
  <2> QED BY <1>2
<1>4. m = n
  <2>1. \A j \in S : j \in Nat
    BY <1>1
  <2>2. n <= m /\ m <= n /\ m \in Nat /\ n \in Nat
    <3> HIDE DEF S, n, m
    <3> QED BY <1>2, <1>3, <2>1
  <2> HIDE DEF S, n, m
  <2> QED BY <2>2
<1>5. LastOf(Append(bodies, b), S) = Append(bodies, b)[m]
  BY DEF LastOf
<1> HIDE DEF m
<1> QED BY <1>4, <1>5, OneBodyMore

LEMMA PlacesAre ==
    ASSUME NEW bodies \in Texts, NEW b \in Text
    PROVE  /\ Switches(bodies) \in SUBSET (1..Len(bodies))
           /\ Times(bodies) \in SUBSET (1..Len(bodies))
           /\ Servers(bodies) \in SUBSET (1..Len(bodies))
           /\ Switches(Append(bodies, b)) =
                 Switches(bodies) \cup (IF Says(b, "qc=on") \/ Says(b, "qc=off")
                                        THEN {Len(bodies) + 1} ELSE {})
           /\ Times(Append(bodies, b)) =
                 Times(bodies) \cup (IF Says(b, "qc_ttl=") THEN {Len(bodies) + 1} ELSE {})
           /\ Servers(Append(bodies, b)) =
                 Servers(bodies) \cup (IF Says(b, "qc_sid=") THEN {Len(bodies) + 1} ELSE {})
<1> DEFINE more == Append(bodies, b)
           n == Len(bodies)
<1>1. /\ n \in Nat /\ Len(more) = n + 1 /\ more[n + 1] = b
      /\ \A i \in 1..n : more[i] = bodies[i]
  BY OneBodyMore
<1>2. 1..(n + 1) = (1..n) \cup {n + 1}
  BY <1>1
<1> HIDE DEF more, n
<1>3. Switches(more) = {i \in 1..n : Says(bodies[i], "qc=on") \/ Says(bodies[i], "qc=off")}
                         \cup (IF Says(b, "qc=on") \/ Says(b, "qc=off") THEN {n + 1} ELSE {})
  BY <1>1, <1>2 DEF Switches
<1>4. Times(more) = {i \in 1..n : Says(bodies[i], "qc_ttl=")}
                      \cup (IF Says(b, "qc_ttl=") THEN {n + 1} ELSE {})
  BY <1>1, <1>2 DEF Times
<1>5. Servers(more) = {i \in 1..n : Says(bodies[i], "qc_sid=")}
                        \cup (IF Says(b, "qc_sid=") THEN {n + 1} ELSE {})
  BY <1>1, <1>2 DEF Servers
<1> QED BY <1>3, <1>4, <1>5 DEF Switches, Times, Servers, more, n

LEMMA LatestAre ==
    ASSUME NEW bodies \in Texts, NEW b \in Text
    PROVE  /\ LastOf(Append(bodies, b), Switches(Append(bodies, b))) =
                 IF Says(b, "qc=on") \/ Says(b, "qc=off") THEN b
                 ELSE LastOf(bodies, Switches(bodies))
           /\ LastOf(Append(bodies, b), Times(Append(bodies, b))) =
                 IF Says(b, "qc_ttl=") THEN b ELSE LastOf(bodies, Times(bodies))
           /\ LastOf(Append(bodies, b), Servers(Append(bodies, b))) =
                 IF Says(b, "qc_sid=") THEN b ELSE LastOf(bodies, Servers(bodies))
<1> DEFINE more == Append(bodies, b)
           n == Len(bodies)
<1>1. \A S : S \cup {} = S
  OBVIOUS
<1>2. LastOf(more, Switches(more)) =
         IF Says(b, "qc=on") \/ Says(b, "qc=off") THEN b ELSE LastOf(bodies, Switches(bodies))
  <2>1. /\ Switches(bodies) \in SUBSET (1..n)
        /\ Switches(more) =
              Switches(bodies) \cup (IF Says(b, "qc=on") \/ Says(b, "qc=off") THEN {n + 1} ELSE {})
    BY PlacesAre
  <2>2. LastOf(more, Switches(bodies)) = LastOf(bodies, Switches(bodies))
    BY <2>1, LastOfSame
  <2>3. LastOf(more, Switches(bodies) \cup {n + 1}) = b
    BY <2>1, LastOfNew
  <2> HIDE DEF more, n
  <2>4. CASE Says(b, "qc=on") \/ Says(b, "qc=off")
    BY <2>1, <2>3, <2>4
  <2>5. CASE ~(Says(b, "qc=on") \/ Says(b, "qc=off"))
    <3>1. Switches(more) = Switches(bodies)
      BY <1>1, <2>1, <2>5
    <3> QED BY <2>2, <2>5, <3>1
  <2> QED BY <2>4, <2>5
<1>3. LastOf(more, Times(more)) = IF Says(b, "qc_ttl=") THEN b ELSE LastOf(bodies, Times(bodies))
  <2>1. /\ Times(bodies) \in SUBSET (1..n)
        /\ Times(more) = Times(bodies) \cup (IF Says(b, "qc_ttl=") THEN {n + 1} ELSE {})
    BY PlacesAre
  <2>2. LastOf(more, Times(bodies)) = LastOf(bodies, Times(bodies))
    BY <2>1, LastOfSame
  <2>3. LastOf(more, Times(bodies) \cup {n + 1}) = b
    BY <2>1, LastOfNew
  <2> HIDE DEF more, n
  <2>4. CASE Says(b, "qc_ttl=")
    BY <2>1, <2>3, <2>4
  <2>5. CASE ~(Says(b, "qc_ttl="))
    <3>1. Times(more) = Times(bodies)
      BY <1>1, <2>1, <2>5
    <3> QED BY <2>2, <2>5, <3>1
  <2> QED BY <2>4, <2>5
<1>4. LastOf(more, Servers(more)) = IF Says(b, "qc_sid=") THEN b ELSE LastOf(bodies, Servers(bodies))
  <2>1. /\ Servers(bodies) \in SUBSET (1..n)
        /\ Servers(more) = Servers(bodies) \cup (IF Says(b, "qc_sid=") THEN {n + 1} ELSE {})
    BY PlacesAre
  <2>2. LastOf(more, Servers(bodies)) = LastOf(bodies, Servers(bodies))
    BY <2>1, LastOfSame
  <2>3. LastOf(more, Servers(bodies) \cup {n + 1}) = b
    BY <2>1, LastOfNew
  <2> HIDE DEF more, n
  <2>4. CASE Says(b, "qc_sid=")
    BY <2>1, <2>3, <2>4
  <2>5. CASE ~(Says(b, "qc_sid="))
    <3>1. Servers(more) = Servers(bodies)
      BY <1>1, <2>1, <2>5
    <3> QED BY <2>2, <2>5, <3>1
  <2> QED BY <2>4, <2>5
<1> QED BY <1>2, <1>3, <1>4

\* The hint says what these comments say.
HintIs(h, bodies) ==
    /\ h = [cache |-> h.cache, ttl |-> h.ttl, server_id |-> h.server_id]
    /\ h.cache \in BOOLEAN
    /\ h.cache <=> IF byDefault
                   THEN \A i \in 1..Len(bodies) : ~Says(bodies[i], "qc=off")
                   ELSE Says(LastOf(bodies, Switches(bodies)), "qc=on")
    /\ h.ttl = IF byDefault \/ LastOf(bodies, Times(bodies)) = <<>> THEN <<>>
               ELSE Number(LastOf(bodies, Times(bodies)))
    /\ h.server_id = IF byDefault \/ LastOf(bodies, Servers(bodies)) = <<>> THEN <<>>
                     ELSE Tail(LastOf(bodies, Servers(bodies)))

LEMMA NoHintIs ==
    ASSUME byDefault \in BOOLEAN
    PROVE  HintIs([NoHint EXCEPT !.cache = byDefault], <<>>)
<1>1. Switches(<<>>) = {} /\ Times(<<>>) = {} /\ Servers(<<>>) = {}
  BY EmptySeq DEF Switches, Times, Servers
<1>2. LastOf(<<>>, {}) = <<>>
  BY DEF LastOf
<1>3. ~Says(<<>>, "qc=on")
  BY DEF Says
<1>4. [NoHint EXCEPT !.cache = byDefault] = [cache |-> byDefault, ttl |-> <<>>, server_id |-> <<>>]
  BY DEF NoHint
<1>5. \A i \in 1..Len(<<>>) : FALSE
  BY EmptySeq
<1> QED BY <1>1, <1>2, <1>3, <1>4, <1>5 DEF HintIs

LEMMA HintFollows ==
    ASSUME byDefault \in BOOLEAN, NEW h, NEW bodies \in Texts, HintIs(h, bodies), NEW b \in Text
    PROVE  HintIs(AfterHint(h, b), Append(bodies, b))
<1> DEFINE more == Append(bodies, b)
           g == AfterHint(h, b)
           on == Says(b, "qc=on")
           off == Says(b, "qc=off")
<1>1. /\ LastOf(more, Switches(more)) = IF on \/ off THEN b ELSE LastOf(bodies, Switches(bodies))
      /\ LastOf(more, Times(more)) = IF Says(b, "qc_ttl=") THEN b ELSE LastOf(bodies, Times(bodies))
      /\ LastOf(more, Servers(more)) = IF Says(b, "qc_sid=") THEN b
                                       ELSE LastOf(bodies, Servers(bodies))
  BY LatestAre
<1>2. /\ h.cache \in BOOLEAN
      /\ h.cache <=> IF byDefault
                     THEN \A i \in 1..Len(bodies) : ~Says(bodies[i], "qc=off")
                     ELSE Says(LastOf(bodies, Switches(bodies)), "qc=on")
      /\ h.ttl = IF byDefault \/ LastOf(bodies, Times(bodies)) = <<>> THEN <<>>
                 ELSE Number(LastOf(bodies, Times(bodies)))
      /\ h.server_id = IF byDefault \/ LastOf(bodies, Servers(bodies)) = <<>> THEN <<>>
                       ELSE Tail(LastOf(bodies, Servers(bodies)))
  BY DEF HintIs
<1>3. /\ g = [cache |-> g.cache, ttl |-> g.ttl, server_id |-> g.server_id]
      /\ g.cache = ((h.cache \/ (~byDefault /\ on)) /\ ~off)
      /\ g.ttl = IF ~byDefault /\ Says(b, "qc_ttl=") THEN Number(b) ELSE h.ttl
      /\ g.server_id = IF ~byDefault /\ Says(b, "qc_sid=") THEN Tail(b) ELSE h.server_id
  BY DEF AfterHint
<1>4. /\ Len(bodies) \in Nat /\ Len(more) = Len(bodies) + 1 /\ more[Len(bodies) + 1] = b
      /\ \A i \in 1..Len(bodies) : more[i] = bodies[i]
  BY OneBodyMore
<1>5. (on => ~off) /\ (off => ~on)
  BY DEF Says
<1>6. (Says(b, "qc_ttl=") => b # <<>>) /\ (Says(b, "qc_sid=") => b # <<>>)
  BY DEF Says
<1> HIDE DEF more, g
<1>7. (\A i \in 1..Len(more) : ~Says(more[i], "qc=off"))
        <=> (\A i \in 1..Len(bodies) : ~Says(bodies[i], "qc=off")) /\ ~off
  <2>1. 1..Len(more) = (1..Len(bodies)) \cup {Len(bodies) + 1}
    BY <1>4
  <2> QED BY <1>4, <2>1
<1> HIDE DEF on, off
<1>8. g.cache \in BOOLEAN
  BY <1>3
<1>9. g.cache <=> IF byDefault
                  THEN \A i \in 1..Len(more) : ~Says(more[i], "qc=off")
                  ELSE Says(LastOf(more, Switches(more)), "qc=on")
  <2>1. CASE byDefault
    BY <1>2, <1>3, <1>7, <2>1
  <2>2. CASE ~byDefault /\ (on \/ off)
    <3>1. LastOf(more, Switches(more)) = b
      BY <1>1, <2>2
    <3>2. g.cache <=> on
      BY <1>3, <1>5, <2>2
    <3> QED BY <2>2, <3>1, <3>2 DEF on
  <2>3. CASE ~byDefault /\ ~on /\ ~off
    <3>1. LastOf(more, Switches(more)) = LastOf(bodies, Switches(bodies))
      BY <1>1, <2>3
    <3>2. g.cache = h.cache
      BY <1>2, <1>3, <2>3
    <3> QED BY <1>2, <2>3, <3>1, <3>2
  <2> QED BY <2>1, <2>2, <2>3
<1>10. g.ttl = IF byDefault \/ LastOf(more, Times(more)) = <<>> THEN <<>>
               ELSE Number(LastOf(more, Times(more)))
  BY <1>1, <1>2, <1>3, <1>6
<1>11. g.server_id = IF byDefault \/ LastOf(more, Servers(more)) = <<>> THEN <<>>
                     ELSE Tail(LastOf(more, Servers(more)))
  BY <1>1, <1>2, <1>3, <1>6
<1> QED BY <1>3, <1>8, <1>9, <1>10, <1>11 DEF HintIs, g, more

\* The text of a line comment is no hint: the server's has a space in front.
LEMMA NoHintFollows ==
    ASSUME byDefault \in BOOLEAN, NEW h, NEW bodies \in Texts, HintIs(h, bodies),
           NEW b, b = <<>> \/ b[1] \in Whitespace
    PROVE  AfterHint(h, b) = h
<1>1. /\ ~Says(b, "qc=on") /\ ~Says(b, "qc=off") /\ ~Says(b, "qc_ttl=") /\ ~Says(b, "qc_sid=")
  BY DEF Says, Whitespace
<1>2. h = [cache |-> h.cache, ttl |-> h.ttl, server_id |-> h.server_id] /\ h.cache \in BOOLEAN
  BY DEF HintIs
<1>3. ((h.cache \/ (~byDefault /\ FALSE)) /\ ~FALSE) = h.cache
  BY <1>2
<1>4. AfterHint(h, b) = [cache |-> h.cache, ttl |-> h.ttl, server_id |-> h.server_id]
  <2>1. ((h.cache \/ (~byDefault /\ Says(b, "qc=on"))) /\ ~Says(b, "qc=off")) = h.cache
    BY <1>1, <1>2
  <2> QED BY <1>1, <2>1 DEF AfterHint
<1> QED BY <1>2, <1>4

\* What the code makes of the comments, when the scan has ended.
Obeyed(h) ==
    LET bodies == LeadingComments[query]
    IN  /\ h.cache <=> /\ Selects(Read[query])
                       /\ IF byDefault
                          THEN \A i \in 1..Len(bodies) : ~Says(bodies[i], "qc=off")
                          ELSE Says(LastOf(bodies, Switches(bodies)), "qc=on")
        /\ h.ttl = IF byDefault \/ LastOf(bodies, Times(bodies)) = <<>> THEN <<>>
                   ELSE Number(LastOf(bodies, Times(bodies)))
        /\ h.server_id = IF byDefault \/ LastOf(bodies, Servers(bodies)) = <<>> THEN <<>>
                         ELSE Tail(LastOf(bodies, Servers(bodies)))

\* The last of some bodies is one of them, and none of them comes after it.
LEMMA LastOfIs ==
    ASSUME NEW bodies, Len(bodies) \in Nat, NEW found \in SUBSET (1..Len(bodies)), found # {}
    PROVE  \E m \in found : /\ LastOf(bodies, found) = bodies[m]
                            /\ \A k \in found : k <= m
<1> DEFINE m == CHOOSE i \in found : \A j \in found : j <= i
<1>1. m \in found /\ \A k \in found : k <= m
  BY GreatestIs
<1>2. LastOf(bodies, found) = bodies[m]
  BY DEF LastOf
<1> HIDE DEF m
<1> QED BY <1>1, <1>2

\* What is looked for when caching is the default is what the last hints say.
LEMMA DefaultSwitched ==
    ASSUME byDefault, HintsLookedFor, Len(LeadingComments[query]) \in Nat
    PROVE  LET bodies == LeadingComments[query]
               switch == LastOf(bodies, Switches(bodies))
           IN  /\ (\A i \in 1..Len(bodies) : ~Says(bodies[i], "qc=off"))
                     <=> switch = <<>> \/ Says(switch, "qc=on")
               /\ Times(bodies) = {} /\ Servers(bodies) = {}
<1> DEFINE bodies == LeadingComments[query]
           switch == LastOf(bodies, Switches(bodies))
<1>1. \A i \in 1..Len(bodies) :
         /\ ~Says(bodies[i], "qc_ttl=") /\ ~Says(bodies[i], "qc_sid=")
         /\ Says(bodies[i], "qc=off") =>
               \A j \in (i + 1)..Len(bodies) : ~Says(bodies[j], "qc=on")
  BY DEF HintsLookedFor
<1>2. Len(bodies) \in Nat
  OBVIOUS
<1> HIDE DEF bodies
<1>3. Times(bodies) = {} /\ Servers(bodies) = {}
  BY <1>1 DEF Times, Servers
<1>4. (\A i \in 1..Len(bodies) : ~Says(bodies[i], "qc=off")) <=> switch = <<>> \/ Says(switch, "qc=on")
  <2>1. CASE Switches(bodies) = {}
    <3>1. switch = <<>>
      BY <2>1 DEF LastOf
    <3> QED BY <2>1, <3>1 DEF Switches
  <2>2. CASE Switches(bodies) # {}
    <3>1. Switches(bodies) \in SUBSET (1..Len(bodies))
      BY DEF Switches
    <3>2. PICK m \in Switches(bodies) : switch = bodies[m] /\ \A k \in Switches(bodies) : k <= m
      BY <1>2, <2>2, <3>1, LastOfIs
    <3> HIDE DEF switch
    <3>3. /\ m \in 1..Len(bodies) /\ switch # <<>>
          /\ Says(switch, "qc=on") \/ Says(switch, "qc=off")
      BY <3>2 DEF Switches, Says
    <3>4. Says(switch, "qc=on") => ~Says(switch, "qc=off")
      BY DEF Says
    <3>5. ASSUME Says(switch, "qc=on"), NEW i \in 1..Len(bodies) PROVE ~Says(bodies[i], "qc=off")
      <4> SUFFICES ASSUME Says(bodies[i], "qc=off") PROVE FALSE
        OBVIOUS
      <4>1. i \in Switches(bodies) /\ i <= m /\ i # m
        BY <3>2, <3>4, <3>5 DEF Switches
      <4>2. m \in (i + 1)..Len(bodies)
        BY <1>2, <3>3, <4>1
      <4> QED BY <1>1, <3>2, <3>5, <4>2
    <3> QED BY <3>2, <3>3, <3>4, <3>5
  <2> QED BY <2>1, <2>2
<1> QED BY <1>3, <1>4 DEF bodies

\* As far as all hints are looked for, the last ones decide.
LEMMA ObeyedIs ==
    ASSUME query \in Text, Obeyed(hint)
    PROVE  HintsObeyed
<1> DEFINE bodies == LeadingComments[query]
           switch == LastOf(bodies, Switches(bodies))
           ttl == LastOf(bodies, Times(bodies))
           sid == LastOf(bodies, Servers(bodies))
<1> SUFFICES ASSUME HintsLookedFor
             PROVE  /\ hint.cache <=> Selects(Read[query]) /\ IF switch = <<>> THEN byDefault
                                                             ELSE Says(switch, "qc=on")
                    /\ hint.ttl = IF ttl = <<>> THEN <<>> ELSE Number(ttl)
                    /\ hint.server_id = IF sid = <<>> THEN <<>> ELSE Tail(sid)
  BY DEF HintsObeyed, LastHint, LastOf, Switches, Times, Servers, Selects, ForCache, SwitchedOn
<1>1. Len(bodies) \in Nat
  BY LeadingIs DEF Texts
<1>2. /\ hint.cache <=> /\ Selects(Read[query])
                        /\ IF byDefault
                           THEN \A i \in 1..Len(bodies) : ~Says(bodies[i], "qc=off")
                           ELSE Says(switch, "qc=on")
      /\ hint.ttl = IF byDefault \/ ttl = <<>> THEN <<>> ELSE Number(ttl)
      /\ hint.server_id = IF byDefault \/ sid = <<>> THEN <<>> ELSE Tail(sid)
  BY DEF Obeyed
<1>3. ~Says(<<>>, "qc=on")
  BY DEF Says
<1>4. CASE ~byDefault
  BY <1>2, <1>3, <1>4
<1>5. CASE byDefault
  <2>1. /\ (\A i \in 1..Len(bodies) : ~Says(bodies[i], "qc=off"))
              <=> switch = <<>> \/ Says(switch, "qc=on")
        /\ Times(bodies) = {} /\ Servers(bodies) = {}
    BY <1>1, <1>5, DefaultSwitched
  <2>2. ttl = <<>> /\ sid = <<>>
    BY <2>1 DEF LastOf
  <2> HIDE DEF bodies, switch, ttl, sid
  <2> QED BY <1>2, <1>5, <2>1, <2>2
<1> QED BY <1>4, <1>5

\* The comments so far are behind, and what is left reads as the statement does.
Reached(done) ==
    /\ HintIs(hint, done)
    /\ LeadingComments[query] = done \o LeadingComments[Rest(p)]
    /\ Read[query] = Read[Rest(p)]

\* The inductive invariant: while the comments are read, the hint is what they say.
HintInv ==
    job = "is_select" /\ Whole /\ CommentsPlain /\ PlainHints =>
        /\ byDefault \in BOOLEAN
        /\ ~ended => \E done \in Texts : Reached(done)
        /\ ended => Obeyed(hint)

LEMMA HintInit == Init => HintInv
<1> SUFFICES ASSUME Init, job = "is_select", Whole PROVE HintInv
  BY DEF HintInv
<1>1. ReadInv /\ byDefault \in BOOLEAN /\ p = 1 /\ ~ended
      /\ hint = [NoHint EXCEPT !.cache = byDefault]
  BY ReadInit DEF Init
<1>2. HintIs(hint, <<>>)
  BY <1>1, NoHintIs
<1>3. Rest(1) = query
  BY <1>1, SubSeqFull, TextIs DEF Rest, Suffix, ReadInv
<1>4. LeadingComments[query] \in Texts /\ query \in Text
  BY <1>1, LeadingIs DEF ReadInv
<1>5. <<>> \in Texts /\ <<>> \o LeadingComments[query] = LeadingComments[query]
  BY <1>4, ConcatEmptySeq, EmptySeq DEF Texts
<1>6. Reached(<<>>)
  BY <1>1, <1>2, <1>3, <1>5 DEF Reached
<1> QED BY <1>1, <1>5, <1>6 DEF HintInv

\* What begins like a line comment is one for the server.
LEMMA PlainLine ==
    ASSUME ReadInv, CommentsPlain, NEW i \in 1..(Len(query) + 1), Pair(i, "-", "-")
    PROVE  /\ LineComment(Rest(i))
           /\ LET b == Slice(i + 2, LineEnd(i + 2))
              IN  b = <<>> \/ b[1] \in Whitespace
<1>1. Len(query) \in Nat /\ i \in 1..(Len(query) - 1)
  BY AheadIs DEF Pair
<1>2. LineComment(Rest(i))
  <2>1. LineComment(Drop(query, i - 1))
    BY <1>1 DEF CommentsPlain
  <2>2. (i - 1) + 1 = i
    BY <1>1
  <2> QED BY <2>1, <2>2 DEF Rest, Suffix, Drop
<1>3. /\ Len(Rest(i)) = Len(query) - i + 1
      /\ \A h \in 1..(Len(query) - i + 1) : Rest(i)[h] = query[i + h - 1]
  BY RestIs
<1> DEFINE e == LineEnd(i + 2)
           b == Slice(i + 2, e)
<1>4. e \in (i + 2)..(Len(query) + 1)
  <2>1. i + 2 \in Nat /\ i + 2 <= Len(query) + 1
    BY <1>1
  <2> QED BY <1>1, <2>1, LineEndIs
<1> HIDE DEF e
<1>5. /\ b \in Text /\ Len(b) = e - (i + 2)
      /\ \A k \in 1..(e - (i + 2)) : b[k] = query[(i + 2) + k - 1]
  <2>1. i + 2 \in 1..(Len(query) + 1)
    BY <1>1
  <2> QED BY <1>4, <2>1, SliceIs
<1> HIDE DEF b
<1>6. CASE e = i + 2
  <2>1. Len(b) = 0
    BY <1>1, <1>5, <1>6
  <2>2. b = <<>>
    BY <1>5, <2>1, TailIs
  <2> QED BY <1>2, <2>2 DEF b, e
<1>7. CASE e # i + 2
  <2>1. 1 \in 1..(e - (i + 2)) /\ (i + 2) + 1 - 1 = i + 2
    BY <1>1, <1>4, <1>7
  <2>2. Len(Rest(i)) # 2 /\ 3 \in 1..(Len(query) - i + 1) /\ i + 3 - 1 = i + 2
    BY <1>1, <1>3, <1>4, <1>7
  <2>3. Rest(i)[3] \in Whitespace
    BY <1>2, <2>2 DEF LineComment
  <2>4. b[1] \in Whitespace
    BY <1>3, <1>5, <2>1, <2>2, <2>3
  <2> QED BY <1>2, <2>4 DEF b, e
<1> QED BY <1>6, <1>7

LEMMA OneMoreInFront ==
    ASSUME NEW done \in Texts, NEW v \in Text, NEW r \in Texts
    PROVE  Append(done, v) \o r = done \o (<<v>> \o r)
<1>1. Append(done, v) = done \o <<v>>
  BY AppendIsConcat DEF Texts
<1>2. <<v>> \in Seq(Text) /\ done \in Seq(Text) /\ r \in Seq(Text)
  BY DEF Texts
<1> DEFINE w == <<v>>
<1> HIDE DEF w
<1>3. w \in Seq(Text)
  BY <1>2 DEF w
<1>4. (done \o w) \o r = done \o (w \o r)
  BY <1>2, <1>3, ConcatAssociative
<1> QED BY <1>1, <1>4 DEF w

\* One more comment is behind.
LEMMA HintReached ==
    ASSUME ReadInv, CommentsPlain, PlainHints, byDefault \in BOOLEAN,
           NEW done \in Texts, Reached(done), GetToken.kind = "comment"
    PROVE  \E more \in Texts :
              /\ HintIs(AfterHint(hint, GetToken.value), more)
              /\ LeadingComments[query] = more \o LeadingComments[Rest(GetToken.left)]
              /\ Read[query] = Read[Rest(GetToken.left)]
<1> DEFINE i == Ahead
           v == GetToken.value
           e == GetToken.left
<1>1. Len(query) \in Nat /\ p \in 1..(Len(query) + 1)
  BY AheadIs DEF ReadInv, NeverBeyond
<1>2. p <= Len(query)
  <2> SUFFICES ASSUME p > Len(query) PROVE FALSE
    BY <1>1
  <2> QED BY DEF GetToken, Token
<1>3. i \in p..(Len(query) + 1) /\ i \in 1..(Len(query) + 1) /\ ReadAlike(p, i)
  <2>1. /\ i \in p..(Len(query) + 1) /\ i \in 1..(Len(query) + 1)
        /\ \A h \in p..(i - 1) : query[h] \in Whitespace
    BY <1>1, AheadIs
  <2> HIDE DEF i
  <2> QED BY <1>1, <2>1, SpacesRead
<1>4. GetToken = TokenAt(i)
  BY <1>2, TokenIsAhead
<1>5. Pair(i, "/", "*") \/ Pair(i, "-", "-")
  BY <1>4, CommentOpens
<1>6. /\ HintIs(hint, done)
      /\ LeadingComments[query] = done \o LeadingComments[Rest(i)]
      /\ Read[query] = Read[Rest(i)]
  BY <1>3 DEF Reached, ReadAlike
<1> HIDE DEF i
<1>7. CASE Pair(i, "/", "*")
  <2>1. TokenAt(i) = Token("comment", Slice(i + 2, BodyEnd(i + 2)), AfterBody(i + 2))
    BY <1>7 DEF TokenAt, Pair
  <2>2. v = Slice(i + 2, BodyEnd(i + 2)) /\ e = AfterBody(i + 2)
    BY <1>4, <2>1 DEF Token
  <2>3. query[i + 2] # "!"
    <3>1. i \in 1..Len(query)
      BY <1>1, <1>7 DEF Pair
    <3> QED BY <1>7, <3>1 DEF PlainHints, Opens
  <2>4. /\ e \in 1..(Len(query) + 1) /\ v \in Text
        /\ Read[Rest(i)] = Read[Rest(e)]
        /\ LeadingComments[Rest(i)] = <<v>> \o LeadingComments[Rest(e)]
    <3> HIDE DEF v, e
    <3> QED BY <1>3, <1>7, <2>2, <2>3, CommentRead
  <2> HIDE DEF v, e
  <2>5. Append(done, v) \in Texts /\ HintIs(AfterHint(hint, v), Append(done, v))
    BY <1>6, <2>4, HintFollows, OneBodyMore
  <2>6. LeadingComments[query] = Append(done, v) \o LeadingComments[Rest(e)]
    <3>1. LeadingComments[Rest(e)] \in Texts
      BY <2>4, RestIs, LeadingIs
    <3> QED BY <1>6, <2>4, <3>1, OneMoreInFront
  <2>7. Read[query] = Read[Rest(e)]
    BY <1>6, <2>4
  <2> QED BY <2>5, <2>6, <2>7 DEF v, e
<1>8. CASE ~Pair(i, "/", "*")
  <2>0. Pair(i, "-", "-")
    BY <1>5, <1>8
  <2>1. TokenAt(i) = Token("comment", Slice(i + 2, LineEnd(i + 2)), AfterLine(i + 2))
    BY <1>8, <2>0 DEF TokenAt
  <2>2. v = Slice(i + 2, LineEnd(i + 2)) /\ e = AfterLine(i + 2)
    BY <1>4, <2>1 DEF Token
  <2> HIDE DEF v, e
  <2>3. LineComment(Rest(i)) /\ (v = <<>> \/ v[1] \in Whitespace)
    BY <1>3, <2>0, <2>2, PlainLine
  <2>4. ReadAlike(i, e)
    BY <1>3, <2>2, <2>3, LineRead
  <2>5. AfterHint(hint, v) = hint
    BY <1>6, <2>3, NoHintFollows
  <2>6. LeadingComments[query] = done \o LeadingComments[Rest(e)] /\ Read[query] = Read[Rest(e)]
    BY <1>6, <2>4 DEF ReadAlike
  <2> QED BY <1>6, <2>5, <2>6 DEF v, e
<1> QED BY <1>7, <1>8

\* No comment is left.
LEMMA HintComplete ==
    ASSUME ReadInv, CommentsPlain, PlainHints, byDefault \in BOOLEAN,
           NEW done \in Texts, Reached(done), GetToken.kind # "comment"
    PROVE  Obeyed([hint EXCEPT !.cache = @ /\ GetToken.value = <<"SELECT">>])
<1> DEFINE i == Ahead
           sel == GetToken.value = <<"SELECT">>
           g == [hint EXCEPT !.cache = @ /\ GetToken.value = <<"SELECT">>]
<1>1. Len(query) \in Nat /\ p \in 1..(Len(query) + 1)
  BY AheadIs DEF ReadInv, NeverBeyond
<1>2. /\ i \in p..(Len(query) + 1) /\ i \in 1..(Len(query) + 1)
      /\ i <= Len(query) => query[i] \notin Whitespace
      /\ ReadAlike(p, i)
  <2>1. /\ i \in p..(Len(query) + 1) /\ i \in 1..(Len(query) + 1)
        /\ i <= Len(query) => query[i] \notin Whitespace
        /\ \A h \in p..(i - 1) : query[h] \in Whitespace
    BY <1>1, AheadIs
  <2> HIDE DEF i
  <2> QED BY <1>1, <2>1, SpacesRead
<1>3. LeadingComments[Rest(i)] = <<>> /\ (Selects(Read[Rest(i)]) <=> sel)
  <2>1. CASE p <= Len(query)
    <3>1. GetToken = TokenAt(i)
      BY <2>1, TokenIsAhead
    <3> HIDE DEF i
    <3>2. ~Pair(i, "/", "*") /\ ~Pair(i, "-", "-")
      <4>1. Pair(i, "/", "*") \/ Pair(i, "-", "-") => TokenAt(i).kind = "comment"
        BY DEF TokenAt, Token
      <4> QED BY <3>1, <4>1
    <3>3. ~LineComment(Rest(i))
      BY <1>2, <3>2, PairIs DEF LineComment
    <3> QED BY <1>2, <3>1, <3>2, <3>3, FirstTokenRead
  <2>2. CASE p > Len(query)
    <3>1. i = Len(query) + 1 /\ ~sel
      <4>1. GetToken = Token("no_more", <<>>, p)
        BY <2>2 DEF GetToken
      <4> QED BY <1>1, <1>2, <2>2, <4>1 DEF Token
    <3> HIDE DEF i, sel
    <3>2. Rest(i) \in Text /\ Len(Rest(i)) = 0
      BY <1>1, <1>2, <3>1, RestIs
    <3>3. Rest(i) = <<>>
      BY <3>2, TailIs
    <3>4. ~LineComment(<<>>) /\ ~Doubled(<<>>) /\ \A a, b : ~Begins(<<>>, a, b)
      BY EmptySeq DEF LineComment, Doubled, Begins
    <3>5. Leading(LeadingComments, <<>>) = <<>> /\ Reading(Read, <<>>) = <<>>
      BY <3>4 DEF Leading, Reading
    <3>6. LeadingComments[Rest(i)] = <<>> /\ Read[Rest(i)] = <<>>
      BY <3>2, <3>3, <3>5, ReadIs, LeadingIs
    <3> QED BY <3>1, <3>6 DEF Selects
  <2> QED BY <1>1, <2>1, <2>2
<1> HIDE DEF i
<1>4. /\ HintIs(hint, done)
      /\ LeadingComments[query] = done
      /\ Selects(Read[query]) <=> sel
  <2>1. done \o <<>> = done
    BY ConcatEmptySeq DEF Texts
  <2> QED BY <1>2, <1>3, <2>1 DEF Reached, ReadAlike
<1> HIDE DEF sel
<1>5. g = [cache |-> (hint.cache /\ sel), ttl |-> hint.ttl, server_id |-> hint.server_id]
  <2>1. hint = [cache |-> hint.cache, ttl |-> hint.ttl, server_id |-> hint.server_id]
    BY <1>4 DEF HintIs
  <2> QED BY <2>1 DEF sel
<1> HIDE DEF g
<1>6. g.cache = (hint.cache /\ sel) /\ g.ttl = hint.ttl /\ g.server_id = hint.server_id
  BY <1>5
<1>7. Obeyed(g)
  BY <1>4, <1>6 DEF Obeyed, HintIs
<1> QED BY <1>7 DEF g

LEMMA HintKept == WholeRead /\ HintInv /\ [Next]_vars => HintInv'
<1> SUFFICES ASSUME ReadInv, HintInv, [Next]_vars, query' = query,
                    job = "is_select", Whole, CommentsPlain, PlainHints,
                    job' = job, byDefault' = byDefault
             PROVE  /\ ~ended' => \E done \in Texts : Reached(done)'
                    /\ ended' => Obeyed(hint)'
  <2>1. ASSUME [Next]_vars PROVE UNCHANGED <<query, job, byDefault>>
    BY <2>1 DEF Next, vars, StripComment, KeepExecutable, StripLineComment, CopyCharacter,
                Stripping, KeyDone, ReadHint, Classify, Asking, WriteToken, FormDone, Normalizing
  <2>2. ASSUME query' = query
        PROVE  (CommentsPlain' <=> CommentsPlain) /\ (PlainHints' <=> PlainHints)
    BY <2>2 DEF CommentsPlain, PlainHints, Opens, Closes, Pair
  <2>3. ASSUME query' = query, job' = job PROVE Whole' <=> Whole
    BY <2>3 DEF Whole
  <2> QED BY <2>1, <2>2, <2>3 DEF HintInv, WholeRead
<1>1. /\ byDefault \in BOOLEAN
      /\ ~ended => \E done \in Texts : Reached(done)
      /\ ended => Obeyed(hint)
  BY DEF HintInv
<1>2. CASE ReadHint
  <2>1. ~ended /\ ~ended' /\ GetToken.kind = "comment"
        /\ hint' = AfterHint(hint, GetToken.value) /\ p' = GetToken.left
    BY <1>2 DEF ReadHint, Asking
  <2>2. PICK done \in Texts : Reached(done)
    BY <1>1, <2>1
  <2>3. PICK more \in Texts :
           /\ HintIs(AfterHint(hint, GetToken.value), more)
           /\ LeadingComments[query] = more \o LeadingComments[Rest(GetToken.left)]
           /\ Read[query] = Read[Rest(GetToken.left)]
    BY <1>1, <2>1, <2>2, HintReached
  <2>4. Reached(more)'
    BY <2>1, <2>3 DEF Reached, HintIs, Rest
  <2> QED BY <2>1, <2>4
<1>3. CASE Classify
  <2>1. ~ended /\ ended' /\ GetToken.kind # "comment"
        /\ hint' = [hint EXCEPT !.cache = @ /\ GetToken.value = <<"SELECT">>]
    BY <1>3 DEF Classify, Asking
  <2>2. PICK done \in Texts : Reached(done)
    BY <1>1, <2>1
  <2>3. Obeyed([hint EXCEPT !.cache = @ /\ GetToken.value = <<"SELECT">>])
    BY <1>1, <2>1, <2>2, HintComplete
  <2>4. Obeyed(hint')
    BY <2>1, <2>3
  <2>5. Obeyed(hint)'
    BY <2>4 DEF Obeyed
  <2> QED BY <2>1, <2>5
<1>4. CASE UNCHANGED vars
  BY <1>1, <1>4 DEF vars, Reached, HintIs, Rest, Obeyed
<1>5. CASE StripComment \/ KeepExecutable \/ StripLineComment \/ CopyCharacter \/ KeyDone
  BY <1>5 DEF StripComment, KeepExecutable, StripLineComment, CopyCharacter, Stripping, KeyDone
<1>6. CASE WriteToken \/ FormDone
  BY <1>6 DEF WriteToken, FormDone, Normalizing
<1> QED BY <1>2, <1>3, <1>4, <1>5, <1>6 DEF Next

\* When caching is not the default, query_is_select obeys the last hints, whatever the
\* statement: it is for the cache just if the server reads a SELECT in it and the last
\* of its switches is on, with the time to live and the server id of the last hints
\* that name them.  When caching is the default, it does so as long as no hint names
\* one of these or switches caching on after another has switched it off.
THEOREM HintsAreObeyed == Spec => []HintsObeyed
<1>1. WholeRead /\ HintInv => HintsObeyed
  <2> SUFFICES ASSUME WholeRead, HintInv, HintsRead PROVE HintsObeyed
    BY DEF HintsObeyed
  <2>1. query \in Text /\ Obeyed(hint)
    BY DEF HintInv, HintsRead, WholeRead, ReadInv
  <2> QED BY <2>1, ObeyedIs
<1>2. Spec => []HintInv
  BY HintInit, HintKept, ReadAlways, PTL DEF Spec
<1> QED BY <1>1, <1>2, ReadAlways, PTL

-----------------------------------------------------------------------------
(***************************************************************************)
(* Texts in two parts                                                      *)
(***************************************************************************)

\* The text has no strings, and no comment begins in it.
Clean(a) == \A k \in 1..Len(a) :
    /\ a[k] \notin Quotes
    /\ k < Len(a) => ~(a[k] = "/" /\ a[k + 1] = "*") /\ ~(a[k] = "-" /\ a[k + 1] = "-")

\* What c ends does not go on with d.
Splits(c, d) ==
    /\ c \in WordChars => d \notin WordChars
    /\ c = "|" => d # "|"
    /\ c = "&" => d # "&"
    /\ c = "-" => d # "-"
    /\ c = "/" => d # "*"

\* No token begins in a and ends in b.
Apart(a, b) == a # <<>> /\ b # <<>> => Splits(a[Len(a)], b[1])

LEMMA TextIsEmpty == ASSUME NEW a \in Text PROVE (a = <<>> <=> Len(a) = 0) /\ Len(a) \in Nat
BY TextIs, EmptySeq

LEMMA TwoParts ==
    ASSUME NEW a \in Text, NEW b \in Text
    PROVE  /\ a \o b \in Text
           /\ Len(a) \in Nat /\ Len(b) \in Nat
           /\ Len(a \o b) = Len(a) + Len(b)
           /\ \A k \in 1..Len(a) : (a \o b)[k] = a[k]
           /\ \A k \in 1..Len(b) : (a \o b)[Len(a) + k] = b[k]
<1>1. /\ a \in Seq(TextChars) /\ b \in Seq(TextChars) /\ Len(a) \in Nat /\ Len(b) \in Nat
  BY TextIs
<1>2. /\ a \o b \in Seq(TextChars) /\ Len(a \o b) = Len(a) + Len(b)
      /\ \A k \in 1..(Len(a) + Len(b)) : (a \o b)[k] = IF k <= Len(a) THEN a[k] ELSE b[k - Len(a)]
  BY <1>1, ConcatProperties
<1>3. ASSUME NEW k \in 1..Len(a) PROVE (a \o b)[k] = a[k]
  <2>1. k \in 1..(Len(a) + Len(b)) /\ k <= Len(a)
    BY <1>1
  <2> QED BY <1>2, <2>1
<1>4. ASSUME NEW k \in 1..Len(b) PROVE (a \o b)[Len(a) + k] = b[k]
  <2>1. Len(a) + k \in 1..(Len(a) + Len(b)) /\ ~(Len(a) + k <= Len(a)) /\ Len(a) + k - Len(a) = k
    BY <1>1
  <2> QED BY <1>2, <2>1
<1> QED BY <1>1, <1>2, <1>3, <1>4, TextIs

LEMMA SameText ==
    ASSUME NEW a \in Text, NEW b \in Text, Len(a) = Len(b),
           \A k \in 1..Len(a) : a[k] = b[k]
    PROVE  a = b
BY SeqEqual, TextIs

LEMMA SuffixOfParts ==
    ASSUME NEW a \in Text, NEW b \in Text, NEW i \in 1..(Len(a) + 1)
    PROVE  Suffix(a \o b, i) = Suffix(a, i) \o b
<1> DEFINE x == a \o b
           l == Suffix(x, i)
           r == Suffix(a, i) \o b
<1>1. /\ x \in Text /\ Len(a) \in Nat /\ Len(b) \in Nat /\ Len(x) = Len(a) + Len(b)
      /\ \A k \in 1..Len(a) : x[k] = a[k]
      /\ \A k \in 1..Len(b) : x[Len(a) + k] = b[k]
  BY TwoParts
<1> HIDE DEF x
<1>2. /\ l \in Text /\ Len(l) = Len(x) - i + 1
      /\ \A k \in 1..(Len(x) - i + 1) : l[k] = x[i + k - 1]
  <2>1. i \in 1..(Len(x) + 1)
    BY <1>1
  <2> QED BY <1>1, <2>1, SuffixIs
<1>3. /\ Suffix(a, i) \in Text /\ Len(Suffix(a, i)) = Len(a) - i + 1
      /\ \A k \in 1..(Len(a) - i + 1) : Suffix(a, i)[k] = a[i + k - 1]
  BY SuffixIs
<1>4. /\ r \in Text /\ Len(r) = Len(Suffix(a, i)) + Len(b)
      /\ \A k \in 1..Len(Suffix(a, i)) : r[k] = Suffix(a, i)[k]
      /\ \A k \in 1..Len(b) : r[Len(Suffix(a, i)) + k] = b[k]
  BY <1>3, TwoParts
<1> HIDE DEF l, r
<1>5. Len(l) = Len(r)
  BY <1>1, <1>2, <1>3, <1>4
<1>6. ASSUME NEW k \in 1..Len(l) PROVE l[k] = r[k]
  <2>1. k \in 1..(Len(x) - i + 1) /\ l[k] = x[i + k - 1]
    BY <1>2
  <2>2. CASE k <= Len(a) - i + 1
    <3>1. k \in 1..(Len(a) - i + 1) /\ i + k - 1 \in 1..Len(a)
      BY <1>1, <2>2
    <3> QED BY <1>1, <1>3, <1>4, <2>1, <3>1
  <2>3. CASE k > Len(a) - i + 1
    <3> DEFINE h == k - (Len(a) - i + 1)
    <3>1. h \in 1..Len(b) /\ Len(a) + h = i + k - 1 /\ Len(Suffix(a, i)) + h = k
      BY <1>1, <1>3, <2>1, <2>3
    <3> HIDE DEF h
    <3> QED BY <1>1, <1>4, <2>1, <3>1
  <2> QED BY <1>1, <2>2, <2>3
<1>7. l = r
  BY <1>2, <1>4, <1>5, <1>6, SameText
<1> QED BY <1>7 DEF l, r, x

LEMMA SuffixIsClean ==
    ASSUME NEW a \in Text, Clean(a), NEW b, Apart(a, b), NEW i \in 1..(Len(a) + 1)
    PROVE  Suffix(a, i) \in Text /\ Clean(Suffix(a, i)) /\ Apart(Suffix(a, i), b)
<1> DEFINE s == Suffix(a, i)
<1>1. /\ s \in Text /\ Len(a) \in Nat /\ Len(s) = Len(a) - i + 1
      /\ \A k \in 1..(Len(a) - i + 1) : s[k] = a[i + k - 1]
  BY SuffixIs, TextIsEmpty
<1> HIDE DEF s
<1>2. Clean(s)
  <2> SUFFICES ASSUME NEW k \in 1..Len(s)
               PROVE  /\ s[k] \notin Quotes
                      /\ k < Len(s) => /\ ~(s[k] = "/" /\ s[k + 1] = "*")
                                       /\ ~(s[k] = "-" /\ s[k + 1] = "-")
    BY DEF Clean
  <2>1. k \in 1..(Len(a) - i + 1) /\ i + k - 1 \in 1..Len(a) /\ s[k] = a[i + k - 1]
    BY <1>1
  <2>2. ASSUME k < Len(s)
        PROVE  i + k - 1 < Len(a) /\ s[k + 1] = a[(i + k - 1) + 1]
    <3>1. k + 1 \in 1..(Len(a) - i + 1) /\ i + (k + 1) - 1 = (i + k - 1) + 1 /\ i + k - 1 < Len(a)
      BY <1>1, <2>2
    <3> QED BY <1>1, <3>1
  <2> QED BY <2>1, <2>2 DEF Clean
<1>3. Apart(s, b)
  <2>1. ASSUME s # <<>> PROVE a # <<>> /\ s[Len(s)] = a[Len(a)]
    <3>1. Len(s) # 0
      BY <1>1, <2>1, TextIsEmpty
    <3>2. Len(s) \in 1..(Len(a) - i + 1) /\ i + Len(s) - 1 = Len(a) /\ Len(a) # 0
      BY <1>1, <3>1
    <3> QED BY <1>1, <3>2, TextIsEmpty
  <2> QED BY <2>1 DEF Apart
<1> QED BY <1>1, <1>2, <1>3 DEF s

LEMMA WordOfParts ==
    ASSUME NEW a \in Text, a # <<>>, a[1] \in WordChars, NEW b \in Text, Apart(a, b)
    PROVE  \E i \in 2..(Len(a) + 1) :
              /\ AfterWord(a) = Suffix(a, i)
              /\ AfterWord(a \o b) = Suffix(a, i) \o b
              /\ Word(a \o b) = Word(a)
<1> DEFINE x == a \o b
<1>1. /\ x \in Text /\ Len(a) \in Nat \ {0} /\ Len(b) \in Nat /\ Len(x) = Len(a) + Len(b)
      /\ \A k \in 1..Len(a) : x[k] = a[k]
      /\ \A k \in 1..Len(b) : x[Len(a) + k] = b[k]
  BY TwoParts, TextIsEmpty
<1>2. \A k \in 1..(Len(a) + 1) : Suffix(x, k) = Suffix(a, k) \o b
  BY SuffixOfParts
<1> HIDE DEF x
<1>3. PICK i \in 1..(Len(a) + 1) :
         /\ AfterWord(a) = Suffix(a, i)
         /\ i <= Len(a) => (a[i] \notin WordChars)
         /\ \A j \in 1..(i - 1) : ~(a[j] \notin WordChars)
  BY AfterWordIs
<1>4. PICK j \in 1..(Len(x) + 1) :
         /\ AfterWord(x) = Suffix(x, j)
         /\ j <= Len(x) => (x[j] \notin WordChars)
         /\ \A k \in 1..(j - 1) : ~(x[k] \notin WordChars)
  BY <1>1, AfterWordIs
<1>5. i # 1
  BY <1>1, <1>3
<1>6. j = i
  <2>1. ~(j < i)
    <3> SUFFICES ASSUME j < i PROVE FALSE
      OBVIOUS
    <3>1. j \in 1..(i - 1) /\ j \in 1..Len(a) /\ j <= Len(x)
      BY <1>1
    <3> QED BY <1>1, <1>3, <1>4, <3>1
  <2>2. ~(i < j)
    <3> SUFFICES ASSUME i < j PROVE FALSE
      OBVIOUS
    <3>1. i \in 1..(j - 1)
      BY <1>1
    <3>2. CASE i <= Len(a)
      <4>1. i \in 1..Len(a)
        BY <1>1, <3>2
      <4> QED BY <1>1, <1>3, <1>4, <3>1, <3>2, <4>1
    <3>3. CASE i = Len(a) + 1
      <4>1. 1 \in 1..Len(b) /\ Len(b) # 0 /\ Len(a) \in 1..(i - 1)
        BY <1>1, <3>3
      <4>2. x[i] = b[1] /\ a[Len(a)] \in WordChars
        BY <1>1, <1>3, <3>3, <4>1
      <4>3. b # <<>>
        BY <4>1, TextIsEmpty
      <4> QED BY <1>4, <3>1, <4>2, <4>3 DEF Apart, Splits
    <3> QED BY <1>1, <3>2, <3>3
  <2> QED BY <1>1, <2>1, <2>2
<1>7. AfterWord(x) = Suffix(a, i) \o b
  BY <1>2, <1>4, <1>6
<1>8. Word(x) = Word(a)
  <2>1. Len(Suffix(a, i)) = Len(a) - i + 1 /\ Len(Suffix(x, i)) = Len(x) - i + 1
    BY <1>1, <1>4, <1>6, SuffixIs
  <2>2. Word(a) = SubSeq(a, 1, i - 1) /\ Word(x) = SubSeq(x, 1, i - 1)
    <3>1. Len(a) - Len(Suffix(a, i)) = i - 1 /\ Len(x) - Len(Suffix(x, i)) = i - 1
      BY <1>1, <2>1
    <3> QED BY <1>3, <1>4, <1>6, <3>1 DEF Word, Before
  <2>3. i - 1 \in 0..Len(a) /\ i - 1 \in 0..Len(x)
    BY <1>1
  <2>4. /\ SubSeq(a, 1, i - 1) \in Text /\ Len(SubSeq(a, 1, i - 1)) = i - 1
        /\ \A k \in 1..(i - 1) : SubSeq(a, 1, i - 1)[k] = a[k]
        /\ SubSeq(x, 1, i - 1) \in Text /\ Len(SubSeq(x, 1, i - 1)) = i - 1
        /\ \A k \in 1..(i - 1) : SubSeq(x, 1, i - 1)[k] = x[k]
    BY <1>1, <2>3, PrefixIs
  <2>5. \A k \in 1..(i - 1) : k \in 1..Len(a)
    BY <1>1
  <2>6. SubSeq(a, 1, i - 1) = SubSeq(x, 1, i - 1)
    BY <1>1, <2>4, <2>5, SameText
  <2> QED BY <2>2, <2>6
<1>9. i \in 2..(Len(a) + 1)
  BY <1>1, <1>5
<1>10. /\ AfterWord(a) = Suffix(a, i)
       /\ AfterWord(a \o b) = Suffix(a, i) \o b
       /\ Word(a \o b) = Word(a)
  BY <1>3, <1>7, <1>8 DEF x
<1> QED BY <1>9, <1>10

LEMMA OneMoreRead ==
    ASSUME NEW w \in Text, NEW r \in Texts, NEW t \in Texts
    PROVE  <<w>> \o (r \o t) = (<<w>> \o r) \o t
<1> DEFINE v == <<w>>
<1>1. v \in Seq(Text) /\ r \in Seq(Text) /\ t \in Seq(Text)
  BY DEF Texts
<1> HIDE DEF v
<1>2. v \o (r \o t) = (v \o r) \o t
  BY <1>1, ConcatAssociative
<1> QED BY <1>2 DEF v

\* One token of a, the first, is the first of a and b; what follows is read alike.
LEMMA FirstOfParts ==
    ASSUME NEW a \in Text, a # <<>>, Clean(a), NEW b \in Text, Apart(a, b)
    PROVE  \E i \in 2..(Len(a) + 1) :
              \/ Read[a] = Read[Suffix(a, i)] /\ Read[a \o b] = Read[Suffix(a, i) \o b]
              \/ \E w \in Text : /\ Read[a] = <<w>> \o Read[Suffix(a, i)]
                                /\ Read[a \o b] = <<w>> \o Read[Suffix(a, i) \o b]
<1> DEFINE x == a \o b
           c == a[1]
<1>1. /\ x \in Text /\ Len(a) \in Nat \ {0} /\ Len(b) \in Nat /\ Len(x) = Len(a) + Len(b)
      /\ \A k \in 1..Len(a) : x[k] = a[k]
      /\ \A k \in 1..Len(b) : x[Len(a) + k] = b[k]
      /\ x[1] = c /\ x # <<>>
  <2>1. /\ x \in Text /\ Len(a) \in Nat \ {0} /\ Len(b) \in Nat /\ Len(x) = Len(a) + Len(b)
        /\ \A k \in 1..Len(a) : x[k] = a[k]
        /\ \A k \in 1..Len(b) : x[Len(a) + k] = b[k]
    BY TwoParts, TextIsEmpty
  <2> HIDE DEF x
  <2>2. 1 \in 1..Len(a) /\ Len(x) # 0
    BY <2>1
  <2> QED BY <2>1, <2>2, TextIsEmpty
<1>2. \A k \in 1..(Len(a) + 1) : Suffix(x, k) = Suffix(a, k) \o b
  BY SuffixOfParts
<1> HIDE DEF x
<1>3. c \in TextChars \ Quotes
  <2>1. 1 \in 1..Len(a)
    BY <1>1
  <2> QED BY <2>1, TailIs DEF Clean
<1>4. Tail(a) = Suffix(a, 2) /\ Tail(x) = Suffix(a, 2) \o b /\ 2 \in 2..(Len(a) + 1)
  <2>1. 2 \in 1..(Len(a) + 1) /\ 2 \in 2..(Len(a) + 1)
    BY <1>1
  <2> QED BY <1>1, <1>2, <2>1, TailIs
<1>5. \A d, e : Begins(x, d, e) => /\ d = c
                                 /\ \/ Len(a) > 1 /\ e = a[2] /\ Begins(a, d, e)
                                    \/ Len(a) = 1 /\ Splits(d, e)
  <2> SUFFICES ASSUME NEW d, NEW e, Begins(x, d, e)
               PROVE  d = c /\ (\/ Len(a) > 1 /\ e = a[2] /\ Begins(a, d, e)
                                \/ Len(a) = 1 /\ Splits(d, e))
    OBVIOUS
  <2>1. Len(x) > 1 /\ x[1] = d /\ x[2] = e
    BY DEF Doubled, Begins
  <2>2. CASE Len(a) > 1
    <3>1. 2 \in 1..Len(a)
      BY <1>1, <2>2
    <3> QED BY <1>1, <2>1, <2>2, <3>1 DEF Doubled, Begins
  <2>3. CASE Len(a) = 1
    <3>1. 1 \in 1..Len(b) /\ Len(a) + 1 = 2 /\ Len(b) # 0
      BY <1>1, <2>1, <2>3
    <3>2. b # <<>> /\ b[1] = e /\ a[Len(a)] = c
      BY <1>1, <2>1, <2>3, <3>1, TextIsEmpty
    <3> QED BY <1>1, <2>1, <2>3, <3>2 DEF Apart
  <2>4. \A n \in Nat \ {0} : n > 1 \/ n = 1
    OBVIOUS
  <2>5. Len(a) > 1 \/ Len(a) = 1
    BY <1>1, <2>4, Zenon
  <2> QED BY <2>2, <2>3, <2>5
<1>6. ~Begins(a, "/", "*") /\ ~Begins(a, "-", "-")
  <2>1. Len(a) > 1 => 1 \in 1..Len(a) /\ 1 < Len(a)
    BY <1>1
  <2> QED BY <2>1 DEF Doubled, Begins, Clean
<1>7. ~Begins(x, "/", "*") /\ ~LineComment(x) /\ (Doubled(x) <=> Doubled(a))
      /\ ~LineComment(a)
  <2>1. ~Splits("/", "*") /\ ~Splits("-", "-") /\ ~Splits("|", "|") /\ ~Splits("&", "&")
    BY DEF Splits
  <2>2. Doubled(a) => Doubled(x)
    <3>1. Len(a) > 1 => 1 \in 1..Len(a) /\ 2 \in 1..Len(a) /\ Len(x) > 1
      BY <1>1
    <3> QED BY <1>1, <3>1 DEF Doubled, Begins
  <2>3. Doubled(x) => Doubled(a)
    BY <1>5, <2>1 DEF Doubled
  <2>4. ~Begins(x, "/", "*") /\ ~Begins(x, "-", "-")
    BY <1>5, <1>6, <2>1
  <2> QED BY <1>6, <2>2, <2>3, <2>4 DEF LineComment
<1>8. CASE Doubled(a)
  <2>1. Len(a) > 1
    BY <1>8 DEF Doubled, Begins
  <2>2. 3 \in 2..(Len(a) + 1) /\ 3 \in 1..(Len(a) + 1) /\ 2 \in 0..Len(a) /\ 2 \in 0..Len(x)
    BY <1>1, <2>1
  <2>3. Body(a) = Suffix(a, 3) /\ Body(x) = Suffix(a, 3) \o b
    <3>1. Drop(a, 2) = Suffix(a, 2 + 1) /\ Drop(x, 2) = Suffix(x, 2 + 1)
      BY <1>1, <2>2, DropIs
    <3>2. Suffix(x, 3) = Suffix(a, 3) \o b
      BY <1>2, <2>2
    <3>3. Drop(a, 2) = Suffix(a, 3) /\ Drop(x, 2) = Suffix(x, 3)
      BY <3>1
    <3> QED BY <3>2, <3>3 DEF Body
  <2>4. Reading(Read, a) = <<<<Spelled(a)>>>> \o Read[Body(a)]
    BY <1>6, <1>7, <1>8 DEF Reading
  <2>5. Reading(Read, x) = <<<<Spelled(a)>>>> \o Read[Body(x)]
    <3>1. Spelled(x) = Spelled(a)
      BY <1>1 DEF Spelled
    <3>2. Reading(Read, x) = <<<<Spelled(x)>>>> \o Read[Body(x)]
      BY <1>1, <1>7, <1>8 DEF Reading
    <3> QED BY <3>1, <3>2
  <2>6. <<Spelled(a)>> \in Text
    BY SpelledIs
  <2> QED BY <1>1, <2>2, <2>3, <2>4, <2>5, <2>6, ReadIs DEF x
<1>9. CASE ~Doubled(a) /\ c \in Whitespace \cup {"tick"}
  <2>0. c \notin Quotes \cup WordChars
    BY <1>9 DEF WordChars, Letters, Digits, Whitespace, Quotes
  <2>1. Reading(Read, a) = Read[Tail(a)]
    BY <1>6, <1>7, <1>9, <2>0 DEF Reading
  <2>2. Reading(Read, x) = Read[Tail(x)]
    BY <1>1, <1>7, <1>9, <2>0 DEF Reading
  <2> QED BY <1>1, <1>4, <2>1, <2>2, ReadIs DEF x
<1>10. CASE ~Doubled(a) /\ c \in WordChars
  <2>1. PICK i \in 2..(Len(a) + 1) :
           /\ AfterWord(a) = Suffix(a, i)
           /\ AfterWord(x) = Suffix(a, i) \o b
           /\ Word(x) = Word(a)
    BY <1>10, WordOfParts DEF x
  <2> DEFINE v == IF Word(a) \in Seq(Digits) THEN <<"?">> ELSE Word(a)
  <2>2. v \in Text
    BY <1>10, WordIs, OneCharacter DEF TextChars, Punctuation
  <2>3. c \notin Whitespace \cup {"tick"} \cup Quotes
    BY <1>10 DEF WordChars, Letters, Digits, Whitespace, Quotes
  <2>4. Reading(Read, a) = <<v>> \o Read[AfterWord(a)]
    BY <1>6, <1>7, <1>10, <2>3 DEF Reading
  <2>5. Reading(Read, x) = <<v>> \o Read[AfterWord(x)]
    BY <1>1, <1>7, <1>10, <2>1, <2>3 DEF Reading
  <2> HIDE DEF v
  <2>6. Read[a] = <<v>> \o Read[Suffix(a, i)] /\ Read[x] = <<v>> \o Read[Suffix(a, i) \o b]
    BY <1>1, <2>1, <2>4, <2>5, ReadIs
  <2> QED BY <2>2, <2>6 DEF x
<1>11. CASE ~Doubled(a) /\ c \notin Whitespace \cup {"tick"} \cup WordChars
  <2>1. Reading(Read, a) = <<<<c>>>> \o Read[Tail(a)]
    BY <1>3, <1>6, <1>7, <1>11 DEF Reading
  <2>2. Reading(Read, x) = <<<<c>>>> \o Read[Tail(x)]
    BY <1>1, <1>3, <1>7, <1>11 DEF Reading
  <2>3. <<c>> \in Text
    BY <1>3, OneCharacter
  <2> HIDE DEF c
  <2>4. Read[a] = <<<<c>>>> \o Read[Suffix(a, 2)] /\ Read[x] = <<<<c>>>> \o Read[Suffix(a, 2) \o b]
    BY <1>1, <1>4, <2>1, <2>2, ReadIs
  <2> QED BY <1>4, <2>3, <2>4 DEF x
<1> QED BY <1>8, <1>9, <1>10, <1>11

\* Two parts between which no token lies are read one after the other.
LEMMA PartsRead ==
    ASSUME NEW a \in Text, Clean(a), NEW b \in Text, Apart(a, b)
    PROVE  Read[a \o b] = Read[a] \o Read[b]
<1> DEFINE Bad(s) == /\ s \in Text /\ Clean(s) /\ Apart(s, b)
                     /\ Read[s \o b] # Read[s] \o Read[b]
           Lengths == {n \in Nat : \E s \in Text : Bad(s) /\ Len(s) = n}
<1> SUFFICES ASSUME Bad(a) PROVE FALSE
  OBVIOUS
<1>0. Read[b] \in Texts /\ \A s \in Text : Read[s] \in Texts
  BY ReadIs
<1>1. PICK n \in Lengths : \A m \in Lengths : n <= m
  <2>1. Lengths \in SUBSET Nat /\ Lengths # {}
    <3>1. Len(a) \in Lengths
      BY TextIsEmpty
    <3> QED BY <3>1
  <2> HIDE DEF Lengths
  <2> QED BY <2>1, LeastIs
<1>2. PICK s \in Text : Bad(s) /\ Len(s) = n
  BY <1>1
<1>3. ASSUME NEW t \in Text, Clean(t), Apart(t, b), Len(t) < Len(s)
      PROVE  Read[t \o b] = Read[t] \o Read[b]
  <2> SUFFICES ASSUME Bad(t) PROVE FALSE
    BY <1>3
  <2>1. Len(t) \in Lengths
    BY TextIsEmpty
  <2>2. Len(t) \in Nat /\ Len(s) \in Nat
    BY TextIsEmpty
  <2> HIDE DEF Lengths
  <2> QED BY <1>1, <1>2, <1>3, <2>1, <2>2
<1>4. CASE s = <<>>
  <2>1. <<>> \o b = b
    BY ConcatEmptySeq, TextIs
  <2>2. <<>> \o Read[b] = Read[b]
    BY <1>0, ConcatEmptySeq DEF Texts
  <2> QED BY <1>2, <1>4, <2>1, <2>2, NothingRead
<1>5. CASE s # <<>>
  <2>1. PICK i \in 2..(Len(s) + 1) :
           \/ Read[s] = Read[Suffix(s, i)] /\ Read[s \o b] = Read[Suffix(s, i) \o b]
           \/ \E w \in Text : /\ Read[s] = <<w>> \o Read[Suffix(s, i)]
                             /\ Read[s \o b] = <<w>> \o Read[Suffix(s, i) \o b]
    BY <1>2, <1>5, FirstOfParts
  <2> DEFINE t == Suffix(s, i)
  <2>2. Len(s) \in Nat /\ i \in 1..(Len(s) + 1)
    BY TextIsEmpty
  <2>3. t \in Text /\ Clean(t) /\ Apart(t, b) /\ Len(t) = Len(s) - i + 1
    BY <1>2, <2>2, SuffixIsClean, SuffixIs
  <2> HIDE DEF t
  <2>4. Len(t) < Len(s)
    BY <2>2, <2>3
  <2>5. Read[t \o b] = Read[t] \o Read[b]
    BY <1>3, <2>3, <2>4
  <2>6. CASE Read[s] = Read[t] /\ Read[s \o b] = Read[t \o b]
    BY <1>2, <2>5, <2>6
  <2>7. ASSUME NEW w \in Text, Read[s] = <<w>> \o Read[t], Read[s \o b] = <<w>> \o Read[t \o b]
        PROVE  FALSE
    <3>0. Read[t] \in Texts /\ Read[b] \in Texts
      BY <1>0, <2>3
    <3>1. <<w>> \o (Read[t] \o Read[b]) = (<<w>> \o Read[t]) \o Read[b]
      BY <3>0, OneMoreRead
    <3> QED BY <1>2, <2>5, <2>7, <3>1
  <2> QED BY <2>1, <2>6, <2>7 DEF t
<1> QED BY <1>4, <1>5

LEMMA OneCharacterMore ==
    ASSUME NEW a \in Text, NEW c \in TextChars
    PROVE  /\ Append(a, c) \in Text
           /\ Len(a) \in Nat
           /\ Append(a, c) # <<>>
           /\ Len(Append(a, c)) = Len(a) + 1
           /\ Append(a, c)[Len(a) + 1] = c
           /\ \A k \in 1..Len(a) : Append(a, c)[k] = a[k]
           /\ Append(a, c) = a \o <<c>>
<1>1. a \in Seq(TextChars)
  BY TextIs
<1>2. /\ Append(a, c) \in Seq(TextChars) /\ Len(Append(a, c)) = Len(a) + 1
      /\ Append(a, c)[Len(a) + 1] = c
      /\ \A k \in 1..Len(a) : Append(a, c)[k] = a[k]
      /\ Append(a, c) # <<>>
  BY <1>1, AppendProperties
<1>3. Append(a, c) = a \o <<c>>
  BY <1>1, AppendIsConcat
<1> QED BY <1>2, <1>3, TextIs, TextIsEmpty

\* d after c begins no comment.
Follows(c, d) == ~(c = "/" /\ d = "*") /\ ~(c = "-" /\ d = "-")

LEMMA CleanWith ==
    ASSUME NEW a \in Text, Clean(a), NEW c \in TextChars \ Quotes,
           a # <<>> => Follows(a[Len(a)], c)
    PROVE  Clean(Append(a, c))
<1> DEFINE x == Append(a, c)
<1>1. /\ Len(a) \in Nat /\ Len(x) = Len(a) + 1 /\ x[Len(a) + 1] = c
      /\ \A k \in 1..Len(a) : x[k] = a[k]
  BY OneCharacterMore
<1> HIDE DEF x
<1>2. Clean(x)
  <2> SUFFICES ASSUME NEW k \in 1..Len(x)
               PROVE  /\ x[k] \notin Quotes
                      /\ k < Len(x) => /\ ~(x[k] = "/" /\ x[k + 1] = "*")
                                       /\ ~(x[k] = "-" /\ x[k + 1] = "-")
    BY DEF Clean
  <2>1. CASE k < Len(a)
    <3>1. k \in 1..Len(a) /\ k + 1 \in 1..Len(a)
      BY <1>1, <2>1
    <3> QED BY <1>1, <2>1, <3>1 DEF Clean
  <2>2. CASE k = Len(a)
    <3>1. k \in 1..Len(a) /\ Len(a) # 0
      BY <1>1, <2>2
    <3>2. x[k] = a[Len(a)] /\ x[k + 1] = c /\ a # <<>> /\ a[k] \notin Quotes
      BY <1>1, <2>2, <3>1, TextIsEmpty DEF Clean
    <3> QED BY <2>2, <3>2 DEF Follows
  <2>3. CASE k = Len(a) + 1
    <3>1. ~(k < Len(x)) /\ x[k] = c
      BY <1>1, <2>3
    <3> QED BY <3>1
  <2> QED BY <1>1, <2>1, <2>2, <2>3
<1> QED BY <1>2 DEF x

LEMMA CleanParts ==
    ASSUME NEW a \in Text, Clean(a), NEW b \in Text, Clean(b), Apart(a, b)
    PROVE  Clean(a \o b)
<1> DEFINE x == a \o b
<1>1. /\ Len(a) \in Nat /\ Len(b) \in Nat /\ Len(x) = Len(a) + Len(b)
      /\ \A k \in 1..Len(a) : x[k] = a[k]
      /\ \A k \in 1..Len(b) : x[Len(a) + k] = b[k]
  BY TwoParts
<1> HIDE DEF x
<1>2. Clean(x)
  <2> SUFFICES ASSUME NEW k \in 1..Len(x)
               PROVE  /\ x[k] \notin Quotes
                      /\ k < Len(x) => /\ ~(x[k] = "/" /\ x[k + 1] = "*")
                                       /\ ~(x[k] = "-" /\ x[k + 1] = "-")
    BY DEF Clean
  <2>1. CASE k < Len(a)
    <3>1. k \in 1..Len(a) /\ k + 1 \in 1..Len(a)
      BY <1>1, <2>1
    <3> QED BY <1>1, <2>1, <3>1 DEF Clean
  <2>2. CASE k = Len(a)
    <3>1. k \in 1..Len(a) /\ Len(a) # 0
      BY <1>1, <2>2
    <3>2. x[k] = a[Len(a)] /\ a # <<>> /\ a[k] \notin Quotes
      BY <1>1, <2>2, <3>1, TextIsEmpty DEF Clean
    <3>3. ASSUME k < Len(x) PROVE Splits(a[Len(a)], x[k + 1])
      <4>1. 1 \in 1..Len(b) /\ Len(b) # 0
        BY <1>1, <2>2, <3>3
      <4>2. x[k + 1] = b[1] /\ b # <<>>
        BY <1>1, <2>2, <4>1, TextIsEmpty
      <4> QED BY <3>2, <4>2 DEF Apart
    <3> QED BY <2>2, <3>2, <3>3 DEF Splits
  <2>3. CASE k > Len(a)
    <3> DEFINE h == k - Len(a)
    <3>1. h \in 1..Len(b) /\ Len(a) + h = k /\ (k < Len(x) => h < Len(b))
      BY <1>1, <2>3
    <3>2. ASSUME k < Len(x) PROVE x[k + 1] = b[h + 1]
      <4>1. h + 1 \in 1..Len(b) /\ Len(a) + (h + 1) = k + 1
        BY <1>1, <3>1, <3>2
      <4> HIDE DEF h
      <4> QED BY <1>1, <4>1
    <3> HIDE DEF h
    <3> QED BY <1>1, <3>1, <3>2 DEF Clean
  <2> QED BY <1>1, <2>1, <2>2, <2>3
<1> QED BY <1>2 DEF x

\* What ends such a text goes on with nothing.
Blank(a) == a # <<>> => a[Len(a)] \in {"space", "comma", "(", ")"}

LEMMA BlankIsApart == ASSUME NEW a, Blank(a), NEW b PROVE Apart(a, b)
BY DEF Blank, Apart, Splits, WordChars, Letters, Digits

LEMMA SpaceIsApart ==
    ASSUME NEW a, NEW b, b # <<>> => b[1] \in Whitespace
    PROVE  Apart(a, b)
BY DEF Apart, Splits, WordChars, Letters, Digits, Whitespace

LEMMA OneSpaceRead ==
    ASSUME NEW s \in Text, s # <<>>, s[1] \in Whitespace
    PROVE  Read[s] = Read[Tail(s)]
<1>1. ~LineComment(s) /\ \A b : ~Begins(s, "/", b) /\ ~Doubled(s)
  BY DEF LineComment, Doubled, Begins, Whitespace
<1>2. Reading(Read, s) = Read[Tail(s)]
  BY <1>1 DEF Reading, Whitespace, Quotes, WordChars, Letters, Digits
<1> QED BY <1>2, ReadIs

LEMMA OnlySpaceRead ==
    ASSUME NEW s \in Text, \A k \in 1..Len(s) : s[k] \in Whitespace
    PROVE  Read[s] = <<>>
<1> DEFINE Bad(t) == Read[t] # <<>> /\ \A k \in 1..Len(t) : t[k] \in Whitespace
           Lengths == {n \in Nat : \E t \in Text : Bad(t) /\ Len(t) = n}
<1> SUFFICES ASSUME Bad(s) PROVE FALSE
  OBVIOUS
<1>1. PICK n \in Lengths : \A m \in Lengths : n <= m
  <2>1. Lengths \in SUBSET Nat /\ Lengths # {}
    <3>1. Len(s) \in Lengths
      BY TextIsEmpty
    <3> QED BY <3>1
  <2> HIDE DEF Lengths
  <2> QED BY <2>1, LeastIs
<1>2. PICK t \in Text : Bad(t) /\ Len(t) = n
  BY <1>1
<1>3. t # <<>>
  BY <1>2, NothingRead
<1>4. /\ Tail(t) \in Text /\ Len(t) \in Nat \ {0} /\ Len(Tail(t)) = Len(t) - 1
      /\ \A k \in 1..(Len(t) - 1) : Tail(t)[k] = t[k + 1]
  <2>1. /\ Tail(t) \in Text /\ Len(t) \in Nat \ {0} /\ Len(Tail(t)) = Len(t) - 1
        /\ Tail(t) = Suffix(t, 2)
    BY <1>3, TailIs
  <2>2. 2 \in 1..(Len(t) + 1) /\ Len(t) - 2 + 1 = Len(t) - 1
    BY <2>1
  <2>3. \A k \in 1..(Len(t) - 2 + 1) : Suffix(t, 2)[k] = t[2 + k - 1]
    BY <2>2, SuffixIs
  <2>4. \A k \in 1..(Len(t) - 1) : 2 + k - 1 = k + 1
    BY <2>1
  <2> QED BY <2>1, <2>2, <2>3, <2>4
<1>5. t[1] \in Whitespace /\ \A k \in 1..Len(Tail(t)) : Tail(t)[k] \in Whitespace
  <2>1. 1 \in 1..Len(t) /\ \A k \in 1..(Len(t) - 1) : k + 1 \in 1..Len(t)
    BY <1>4
  <2> QED BY <1>2, <1>4, <2>1
<1>6. Bad(Tail(t))
  BY <1>2, <1>3, <1>5, OneSpaceRead
<1>7. Len(Tail(t)) \in Lengths
  <2>1. Len(Tail(t)) \in Nat
    BY <1>4
  <2> HIDE DEF Bad
  <2> QED BY <1>4, <1>6, <2>1
<1> HIDE DEF Lengths
<1> QED BY <1>1, <1>2, <1>4, <1>7

-----------------------------------------------------------------------------
(***************************************************************************)
(* Hash keys                                                               *)
(***************************************************************************)

\* With o written, the text goes on at q: the server reads both like the statement.
KeyAt(o, q) ==
    /\ o \in Text /\ Clean(o)
    /\ Read[query] = Read[o \o Rest(q)]
    /\ q <= Len(query) => /\ o # <<>> => Follows(o[Len(o)], query[q])
                          /\ SpaceAt(q - 1) => Blank(o)

\* What the statement has to be like.
PlainKey == CommentsPlain /\ CommentsApart /\ KeyPlain

LEMMA KeyBegins == ASSUME ReadInv PROVE KeyAt(<<>>, 1)
<1>1. query \in Text /\ query \in Seq(TextChars)
  BY TextIs DEF ReadInv
<1>2. Rest(1) = query /\ <<>> \o query = query
  BY <1>1, SubSeqFull, ConcatEmptySeq DEF Rest, Suffix
<1>3. \A k \in 1..Len(<<>>) : FALSE
  BY EmptySeq
<1> QED BY <1>1, <1>2, <1>3, NothingRead DEF KeyAt, Clean, Blank

\* Where q is, the rest begins.
LEMMA RestAt ==
    ASSUME ReadInv, NEW q \in 1..(Len(query) + 1)
    PROVE  /\ Rest(q) \in Text
           /\ Rest(q) = <<>> <=> q = Len(query) + 1
           /\ q <= Len(query) => Rest(q)[1] = query[q] /\ query[q] \in TextChars
<1>1. /\ Len(query) \in Nat /\ Rest(q) \in Text /\ Len(Rest(q)) = Len(query) - q + 1
  BY RestIs
<1>2. Rest(q) = <<>> <=> q = Len(query) + 1
  BY <1>1, TextIsEmpty
<1>3. ASSUME q <= Len(query) PROVE Rest(q)[1] = query[q] /\ query[q] \in TextChars
  <2>1. q \in 1..Len(query)
    BY <1>1, <1>3
  <2> QED BY <2>1, RestFirst, ElementOfSeq, TextIs DEF ReadInv
<1> QED BY <1>1, <1>2, <1>3

\* Spaced is out, or out and a space.
LEMMA SpacedIs ==
    ASSUME out \in Text, Clean(out)
    PROVE  /\ Spaced \in Text /\ Clean(Spaced)
           /\ Read[Spaced] = Read[out]
           /\ Spaced # out => Blank(Spaced)
           /\ Ahead = p => Spaced = out
           /\ Ahead # p /\ ~Blank(Spaced) =>
                 Char(Ahead) \in {"none", "comma", "!"}
<1>1. CASE Ahead # p /\ out # <<>> /\ Separates(out[Len(out)], Char(Ahead))
  <2>1. Spaced = Append(out, "space")
    BY <1>1 DEF Spaced
  <2>2. "space" \in TextChars \ Quotes
    BY DEF TextChars, Whitespace, Quotes
  <2>3. /\ Spaced \in Text /\ Clean(Spaced) /\ Spaced[Len(Spaced)] = "space"
        /\ Spaced = out \o <<"space">>
    BY <2>1, <2>2, OneCharacterMore, CleanWith DEF Follows
  <2>4. Read[Spaced] = Read[out]
    <3>1. /\ <<"space">> \in Text /\ <<"space">>[1] = "space" /\ Len(<<"space">>) = 1
          /\ <<"space">> # <<>>
      BY <2>2, OneCharacter
    <3>2. Read[<<"space">>] = <<>>
      BY <3>1, OnlySpaceRead DEF Whitespace
    <3>3. Read[Spaced] = Read[out] \o Read[<<"space">>]
      BY <2>3, <3>1, SpaceIsApart, PartsRead DEF Whitespace
    <3>4. Read[out] \in Texts
      BY ReadIs
    <3> QED BY <3>2, <3>3, <3>4, ConcatEmptySeq DEF Texts
  <2> QED BY <1>1, <2>3, <2>4 DEF Blank
<1>2. CASE ~(Ahead # p /\ out # <<>> /\ Separates(out[Len(out)], Char(Ahead)))
  <2>1. Spaced = out
    BY <1>2 DEF Spaced
  <2>2. ASSUME Ahead # p, ~Blank(Spaced) PROVE Char(Ahead) \in {"none", "comma", "!"}
    BY <1>2, <2>1, <2>2 DEF Blank, Separates
  <2> QED BY <2>1, <2>2
<1> QED BY <1>1, <1>2

\* Whitespace before what is next is read as nothing, with what is written before it.
LEMMA GapRead ==
    ASSUME ReadInv, p <= Len(query), KeyAt(out, p), Ahead # p \/ query[p] = "/" \/ Blank(out)
    PROVE  Read[query] = Read[Spaced] \o Read[Rest(Ahead)]
<1>1. /\ Len(query) \in Nat /\ p \in 1..(Len(query) + 1) /\ Ahead \in p..(Len(query) + 1)
      /\ \A h \in p..(Ahead - 1) : query[h] \in Whitespace
  BY AheadIs DEF ReadInv, NeverBeyond
<1>2. /\ out \in Text /\ Clean(out) /\ Read[query] = Read[out \o Rest(p)]
      /\ Rest(p) \in Text /\ Rest(p)[1] = query[p]
  BY <1>1, RestAt DEF KeyAt
<1>3. Apart(out, Rest(p))
  <2>1. CASE Blank(out)
    BY <2>1, BlankIsApart
  <2>2. CASE query[p] = "/"
    BY <1>2, <2>2 DEF Apart, Splits, WordChars, Letters, Digits
  <2>3. CASE Ahead # p
    <3>1. p \in p..(Ahead - 1)
      BY <1>1, <2>3
    <3> QED BY <1>1, <1>2, <3>1, SpaceIsApart
  <2> QED BY <2>1, <2>2, <2>3
<1>4. Read[query] = Read[out] \o Read[Rest(p)]
  BY <1>2, <1>3, PartsRead
<1>5. Read[Rest(p)] = Read[Rest(Ahead)]
  BY <1>1, SpacesRead DEF ReadAlike
<1> QED BY <1>2, <1>4, <1>5, SpacedIs

LEMMA CommentStripped ==
    ASSUME ReadInv, PlainKey, KeyAt(out, p), StripComment
    PROVE  KeyAt(Spaced, AfterBody(Ahead + 2))
<1> DEFINE e == BodyEnd(Ahead + 2)
<1>1. /\ Len(query) \in Nat /\ p \in 1..(Len(query) + 1) /\ p <= Len(query)
      /\ Ahead \in p..(Len(query) + 1) /\ Pair(Ahead, "/", "*") /\ ~Executable(Ahead + 2)
  BY AheadIs DEF ReadInv, NeverBeyond, StripComment, Stripping
<1>2. Ahead \in 1..(Len(query) + 1) /\ (Ahead = p => query[p] = "/")
  BY <1>1 DEF Pair
<1>3. /\ e \in (Ahead + 2)..(Len(query) - 1) /\ query[e] = "*" /\ query[e + 1] = "/"
      /\ e + 2 \in 1..(Len(query) + 1) /\ AfterBody(Ahead + 2) = e + 2
  BY <1>1, <1>2, CommentPartsAre DEF PlainKey
<1>4. query[Ahead + 2] # "!"
  <2>1. Ahead + 2 < Len(query)
    BY <1>1, <1>3
  <2> QED BY <1>1, <2>1 DEF Executable
<1>5. Read[Rest(Ahead)] = Read[Rest(e + 2)]
  BY <1>1, <1>2, <1>3, <1>4, CommentRead DEF PlainKey
<1>6. e + 2 <= Len(query) => query[e + 2] \in Whitespace
  <2>1. Closes(e) /\ e \in 1..Len(query)
    BY <1>1, <1>3 DEF Closes, Pair
  <2>2. SpaceAt(e + 2)
    BY <2>1 DEF PlainKey, CommentsApart
  <2> QED BY <1>3, <2>2 DEF SpaceAt
<1> HIDE DEF e
<1>7. out \in Text /\ Clean(out)
  BY DEF KeyAt
<1>8. Spaced \in Text /\ Clean(Spaced) /\ Read[query] = Read[Spaced] \o Read[Rest(e + 2)]
  BY <1>1, <1>2, <1>5, <1>7, SpacedIs, GapRead
<1>9. Rest(e + 2) \in Text /\ (Rest(e + 2) # <<>> => Rest(e + 2)[1] \in Whitespace)
  BY <1>1, <1>3, <1>6, RestAt
<1>10. Read[query] = Read[Spaced \o Rest(e + 2)]
  BY <1>8, <1>9, SpaceIsApart, PartsRead
<1>11. ~SpaceAt((e + 2) - 1)
  <2>1. (e + 2) - 1 = e + 1 /\ e + 1 \in 1..Len(query)
    BY <1>1, <1>3
  <2> QED BY <1>3, <2>1 DEF SpaceAt, Whitespace
<1>12. e + 2 <= Len(query) => \A c : Follows(c, query[e + 2])
  BY <1>6 DEF Follows, Whitespace
<1> QED BY <1>3, <1>8, <1>10, <1>11, <1>12 DEF KeyAt

LEMMA LineStripped ==
    ASSUME ReadInv, PlainKey, KeyAt(out, p), StripLineComment
    PROVE  KeyAt(Spaced, AfterLine(Ahead + 2))
<1> DEFINE e == AfterLine(Ahead + 2)
<1>1. /\ Len(query) \in Nat /\ p \in 1..(Len(query) + 1) /\ p <= Len(query)
      /\ Ahead \in p..(Len(query) + 1) /\ Pair(Ahead, "-", "-")
  BY AheadIs DEF ReadInv, NeverBeyond, StripLineComment, Stripping
<1>2. Ahead \in 1..(Len(query) + 1) /\ Ahead \in 1..Len(query) /\ Char(Ahead) = "-"
  BY <1>1 DEF Pair, Char
<1>3. LineComment(Rest(Ahead))
  BY <1>1, <1>2, PlainLine DEF PlainKey
<1>4. e \in 1..(Len(query) + 1) /\ Read[Rest(Ahead)] = Read[Rest(e)]
  BY <1>2, <1>3, LineRead DEF ReadAlike
<1> HIDE DEF e
<1>5. out \in Text /\ Clean(out) /\ (SpaceAt(p - 1) => Blank(out))
  BY <1>1 DEF KeyAt
<1>6. Ahead = p => Blank(out)
  <2> SUFFICES ASSUME Ahead = p PROVE SpaceAt(p - 1)
    BY <1>5
  <2> QED BY <1>1, <1>2 DEF PlainKey, CommentsApart
<1>7. Spaced \in Text /\ Clean(Spaced) /\ Blank(Spaced)
  BY <1>2, <1>5, <1>6, SpacedIs
<1>8. Read[query] = Read[Spaced] \o Read[Rest(e)]
  BY <1>1, <1>4, <1>6, GapRead
<1>9. Read[query] = Read[Spaced \o Rest(e)]
  BY <1>4, <1>7, <1>8, RestAt, BlankIsApart, PartsRead
<1>10. Spaced # <<>> => \A c : Follows(Spaced[Len(Spaced)], c)
  BY <1>7 DEF Blank, Follows
<1> QED BY <1>7, <1>9, <1>10 DEF KeyAt, e

\* A character that is copied goes from the rest to what is written.
LEMMA OneCharacterOn ==
    ASSUME ReadInv, NEW o \in Text, NEW i \in 1..Len(query)
    PROVE  /\ query[i] \in TextChars
           /\ Append(o, query[i]) \o Rest(i + 1) = o \o Rest(i)
<1> DEFINE c == query[i]
           a == Append(o, c)
<1>1. Len(query) \in Nat /\ i \in 1..(Len(query) + 1) /\ i + 1 \in 1..(Len(query) + 1)
  BY AheadIs
<1>2. c \in TextChars
  BY <1>1, RestAt
<1>3. /\ a \in Text /\ Len(o) \in Nat /\ Len(a) = Len(o) + 1 /\ a[Len(o) + 1] = c
      /\ \A k \in 1..Len(o) : a[k] = o[k]
  BY <1>2, OneCharacterMore
<1>4. /\ Rest(i) \in Text /\ Len(Rest(i)) = Len(query) - i + 1
      /\ \A k \in 1..(Len(query) - i + 1) : Rest(i)[k] = query[i + k - 1]
      /\ Rest(i + 1) \in Text /\ Len(Rest(i + 1)) = Len(query) - (i + 1) + 1
      /\ \A k \in 1..(Len(query) - (i + 1) + 1) : Rest(i + 1)[k] = query[(i + 1) + k - 1]
  BY <1>1, RestIs
<1> HIDE DEF a
<1> DEFINE l == a \o Rest(i + 1)
           r == o \o Rest(i)
<1>5. /\ l \in Text /\ Len(l) = Len(a) + Len(Rest(i + 1))
      /\ \A k \in 1..Len(a) : l[k] = a[k]
      /\ \A k \in 1..Len(Rest(i + 1)) : l[Len(a) + k] = Rest(i + 1)[k]
  BY <1>3, <1>4, TwoParts
<1>6. /\ r \in Text /\ Len(r) = Len(o) + Len(Rest(i))
      /\ \A k \in 1..Len(o) : r[k] = o[k]
      /\ \A k \in 1..Len(Rest(i)) : r[Len(o) + k] = Rest(i)[k]
  BY <1>4, TwoParts
<1> HIDE DEF l, r
<1>7. Len(l) = Len(r)
  <2>1. Len(l) = Len(o) + 1 + (Len(query) - (i + 1) + 1) /\ Len(r) = Len(o) + (Len(query) - i + 1)
    BY <1>3, <1>4, <1>5, <1>6
  <2>2. Len(o) \in Int /\ Len(query) \in Int /\ i \in Int
    BY <1>1, <1>3
  <2> QED BY <2>1, <2>2
<1>8. ASSUME NEW k \in 1..Len(l) PROVE l[k] = r[k]
  <2>1. CASE k <= Len(o)
    <3>1. k \in 1..Len(o) /\ k \in 1..Len(a)
      BY <1>3, <2>1
    <3> QED BY <1>3, <1>5, <1>6, <3>1
  <2>2. CASE k = Len(o) + 1
    <3>1. k \in 1..Len(a) /\ 1 \in 1..Len(Rest(i)) /\ 1 \in 1..(Len(query) - i + 1) /\ i + 1 - 1 = i
      BY <1>1, <1>3, <1>4, <2>2
    <3>2. r[k] = Rest(i)[1]
      BY <1>6, <2>2, <3>1
    <3>3. Rest(i)[1] = c
      BY <1>4, <3>1
    <3> QED BY <1>3, <1>5, <2>2, <3>1, <3>2, <3>3
  <2>3. CASE k > Len(o) + 1
    <3> DEFINE h == k - (Len(o) + 1)
    <3>1. /\ h \in 1..Len(Rest(i + 1)) /\ h \in 1..(Len(query) - (i + 1) + 1) /\ Len(a) + h = k
          /\ h + 1 \in 1..Len(Rest(i)) /\ h + 1 \in 1..(Len(query) - i + 1) /\ Len(o) + (h + 1) = k
          /\ (i + 1) + h - 1 = i + (h + 1) - 1
      BY <1>1, <1>3, <1>4, <1>5, <2>3
    <3> HIDE DEF h
    <3>2. l[k] = query[(i + 1) + h - 1]
      BY <1>4, <1>5, <3>1
    <3>3. r[k] = query[i + (h + 1) - 1]
      BY <1>4, <1>6, <3>1
    <3> QED BY <3>1, <3>2, <3>3
  <2> QED BY <1>3, <2>1, <2>2, <2>3
<1>9. l = r
  BY <1>5, <1>6, <1>7, <1>8, SameText
<1> QED BY <1>2, <1>9 DEF l, r, a

LEMMA CharacterCopied ==
    ASSUME ReadInv, PlainKey, KeyAt(out, p), CopyCharacter
    PROVE  KeyAt(out, p)'
<1>1. /\ Len(query) \in Nat /\ p \in 1..(Len(query) + 1) /\ p <= Len(query)
      /\ Ahead \in p..(Len(query) + 1) /\ Ahead \in 1..(Len(query) + 1) /\ query' = query
      /\ ~Pair(Ahead, "/", "*") /\ ~Pair(Ahead, "-", "-")
  BY AheadIs DEF ReadInv, NeverBeyond, CopyCharacter, Stripping
<1>2. /\ out \in Text /\ Clean(out) /\ Read[query] = Read[out \o Rest(p)]
      /\ (out # <<>> => Follows(out[Len(out)], query[p]))
  BY <1>1 DEF KeyAt
<1> DEFINE c == query[Ahead]
<1>3. CASE Ahead > Len(query)
  <2>1. out' = out /\ p' = Ahead /\ Ahead # p /\ Ahead = Len(query) + 1
    BY <1>1, <1>3 DEF CopyCharacter
  <2>2. Rest(Ahead) = <<>>
    BY <1>1, <2>1, RestAt
  <2>3. out \o <<>> = out /\ Read[out] \o <<>> = Read[out]
    <3>1. out \in Seq(TextChars) /\ Read[out] \in Seq(Text)
      BY <1>2, TextIs, ReadIs DEF Texts
    <3> QED BY <3>1, ConcatEmptySeq
  <2>4. Read[query] = Read[Spaced] \o Read[Rest(Ahead)]
    BY <1>1, <2>1, GapRead
  <2>5. Read[query] = Read[out \o Rest(Ahead)]
    BY <1>2, <2>2, <2>3, <2>4, SpacedIs, NothingRead
  <2>6. ~(Ahead <= Len(query))
    BY <1>1, <2>1
  <2>7. KeyAt(out, Ahead)
    BY <1>2, <2>5, <2>6 DEF KeyAt
  <2> QED BY <1>1, <2>1, <2>7 DEF KeyAt, Rest, SpaceAt
<1>4. CASE Ahead <= Len(query)
  <2>1. out' = Append(Spaced, c) /\ p' = Ahead + 1 /\ Ahead \in 1..Len(query) /\ Char(Ahead) = c
    BY <1>1, <1>4 DEF CopyCharacter, Char
  <2>2. c \in TextChars \ Quotes /\ c \notin Whitespace
    <3>1. c \in TextChars
      BY <2>1, OneCharacterOn, <1>2
    <3>2. c \notin Quotes
      BY <2>1 DEF PlainKey, KeyPlain
    <3>3. c \notin Whitespace
      BY <1>4, AheadIs
    <3> QED BY <3>1, <3>2, <3>3
  <2>3. Spaced \in Text /\ Clean(Spaced)
    BY <1>2, SpacedIs
  <2>4. /\ Read[query] = Read[Spaced \o Rest(Ahead)]
        /\ Spaced # <<>> => Follows(Spaced[Len(Spaced)], c)
    <3>1. CASE Ahead = p
      BY <1>2, <3>1, SpacedIs
    <3>2. CASE Ahead # p
      <4>1. Apart(Spaced, Rest(Ahead)) /\ (Spaced # <<>> => Follows(Spaced[Len(Spaced)], c))
        <5>1. CASE Blank(Spaced)
          BY <5>1, BlankIsApart DEF Blank, Follows
        <5>2. CASE ~Blank(Spaced)
          <6>1. c \in {"comma", "!"}
            <7>1. Char(Ahead) \in {"none", "comma", "!"}
              BY <1>2, <3>2, <5>2, SpacedIs
            <7>2. "none" \notin TextChars
              BY DEF TextChars, Whitespace, WordChars, Letters, Digits, Punctuation, Quotes, OtherChars
            <7> QED BY <2>1, <2>2, <7>1, <7>2
          <6>2. Rest(Ahead)[1] = c
            BY <1>1, <1>4, RestAt
          <6>3. \A d : Splits(d, c) /\ Follows(d, c)
            BY <6>1 DEF Splits, Follows, WordChars, Letters, Digits
          <6> QED BY <6>2, <6>3 DEF Apart
        <5> QED BY <5>1, <5>2
      <4>2. Read[query] = Read[Spaced] \o Read[Rest(Ahead)]
        BY <1>1, <3>2, GapRead
      <4>3. Rest(Ahead) \in Text
        BY <1>1, RestAt
      <4> QED BY <2>3, <4>1, <4>2, <4>3, PartsRead
    <3> QED BY <3>1, <3>2
  <2> DEFINE o == Append(Spaced, c)
  <2>5. Read[query] = Read[o \o Rest(Ahead + 1)]
    BY <2>1, <2>3, <2>4, OneCharacterOn
  <2>6. o \in Text /\ Clean(o) /\ o # <<>> /\ o[Len(o)] = c
    <3> HIDE DEF c
    <3>1. Clean(o)
      BY <2>2, <2>3, <2>4, CleanWith
    <3>2. /\ o \in Text /\ o # <<>> /\ Len(o) = Len(Spaced) + 1
          /\ o[Len(Spaced) + 1] = c
      BY <2>2, <2>3, OneCharacterMore
    <3> QED BY <3>1, <3>2
  <2>7. Ahead + 1 <= Len(query) => Follows(c, query[Ahead + 1])
    <3> SUFFICES ASSUME Ahead + 1 <= Len(query) PROVE Follows(c, query[Ahead + 1])
      OBVIOUS
    <3>1. Ahead \in 1..(Len(query) - 1)
      BY <1>1
    <3> QED BY <1>1, <3>1 DEF Pair, Follows
  <2>8. ~SpaceAt((Ahead + 1) - 1)
    <3>1. (Ahead + 1) - 1 = Ahead
      BY <1>1
    <3> QED BY <2>1, <2>2, <3>1 DEF SpaceAt
  <2> HIDE DEF o
  <2>9. KeyAt(o, Ahead + 1)
    BY <2>5, <2>6, <2>7, <2>8 DEF KeyAt
  <2>10. out' = o
    BY <2>1 DEF o
  <2> HIDE DEF c
  <2> QED BY <1>1, <2>1, <2>9, <2>10 DEF KeyAt, Rest, SpaceAt
<1> QED BY <1>1, <1>3, <1>4

LEMMA TwoSlices ==
    ASSUME ReadInv, NEW i \in 1..(Len(query) + 1), NEW m \in i..(Len(query) + 1),
           NEW e \in m..(Len(query) + 1)
    PROVE  Slice(i, m) \o Slice(m, e) = Slice(i, e)
<1> DEFINE a == Slice(i, m)
           b == Slice(m, e)
           s == Slice(i, e)
           x == a \o b
<1>0. Len(query) \in Nat /\ m \in 1..(Len(query) + 1) /\ e \in i..(Len(query) + 1)
  BY AheadIs
<1>1. /\ a \in Text /\ Len(a) = m - i /\ \A k \in 1..(m - i) : a[k] = query[i + k - 1]
      /\ b \in Text /\ Len(b) = e - m /\ \A k \in 1..(e - m) : b[k] = query[m + k - 1]
      /\ s \in Text /\ Len(s) = e - i /\ \A k \in 1..(e - i) : s[k] = query[i + k - 1]
  BY <1>0, SliceIs
<1> HIDE DEF a, b, s
<1>2. /\ x \in Text /\ Len(x) = Len(a) + Len(b)
      /\ \A k \in 1..Len(a) : x[k] = a[k]
      /\ \A k \in 1..Len(b) : x[Len(a) + k] = b[k]
  BY <1>1, TwoParts
<1> HIDE DEF x
<1>3. Len(x) = Len(s)
  BY <1>0, <1>1, <1>2
<1>4. ASSUME NEW k \in 1..Len(x) PROVE x[k] = s[k]
  <2>1. k \in 1..(e - i) /\ s[k] = query[i + k - 1]
    BY <1>1, <1>3
  <2>2. CASE k <= m - i
    <3>1. k \in 1..(m - i) /\ k \in 1..Len(a)
      BY <1>0, <1>1, <2>2
    <3> QED BY <1>1, <1>2, <2>1, <3>1
  <2>3. CASE k > m - i
    <3> DEFINE h == k - (m - i)
    <3>1. h \in 1..(e - m) /\ h \in 1..Len(b) /\ Len(a) + h = k /\ m + h - 1 = i + k - 1
      BY <1>0, <1>1, <2>1, <2>3
    <3> HIDE DEF h
    <3> QED BY <1>1, <1>2, <2>1, <3>1
  <2> QED BY <1>0, <2>2, <2>3
<1>5. x = s
  BY <1>1, <1>2, <1>3, <1>4, SameText
<1> QED BY <1>5 DEF x, a, b, s

\* The text of a comment for the server, without the space in front of it.
LEMMA KeptIs ==
    ASSUME ReadInv, PlainKey, p <= Len(query), Pair(Ahead, "/", "*"), Executable(Ahead + 2)
    PROVE  LET text == Skip(Ahead + 3, Whitespace)
               e == BodyEnd(text)
               b == Slice(text, e)
           IN  /\ e \in 1..(Len(query) - 1) /\ query[e] = "*" /\ query[e + 1] = "/"
               /\ e + 2 \in 1..(Len(query) + 1) /\ AfterBody(text) = e + 2
               /\ b \in Text /\ Clean(b)
               /\ Read[Rest(Ahead)] = Read[b] \o Read[Rest(e + 2)]
<1> DEFINE i == Ahead
           text == Skip(i + 3, Whitespace)
           f == BodyEnd(i + 2)
<1>1. /\ Len(query) \in Nat /\ i \in 1..(Len(query) + 1) /\ query[i + 2] = "!"
  BY AheadIs DEF ReadInv, NeverBeyond, Executable
<1> HIDE DEF i
<1>2. /\ f \in (i + 2)..(Len(query) - 1) /\ query[f] = "*" /\ query[f + 1] = "/"
      /\ \A h \in (i + 2)..(f - 1) : query[h] # "*"
      /\ i + 2 \in 1..(Len(query) + 1) /\ f + 2 \in 1..(Len(query) + 1)
      /\ Begins(Rest(i), "/", "*") /\ Rest(i)[1] = "/"
      /\ Rest(i) \in Text /\ Rest(f + 2) \in Text
      /\ Body(Rest(i)) = Rest(i + 2)
      /\ Before(Rest(i + 2), PlainEnd(Rest(i + 2))) = Slice(i + 2, f)
      /\ AfterComment(Rest(i)) = Rest(f + 2)
  BY <1>1, CommentPartsAre DEF PlainKey, i
<1>3. f # i + 2 /\ f \in (i + 3)..(Len(query) - 1)
  BY <1>1, <1>2
<1>4. /\ text \in (i + 3)..f
      /\ \A h \in (i + 3)..(text - 1) : query[h] \in Whitespace
  <2>1. i + 3 \in Nat /\ i + 3 <= Len(query) + 1
    BY <1>1, <1>3
  <2>2. /\ text \in (i + 3)..(Len(query) + 1)
        /\ \A h \in (i + 3)..(text - 1) : query[h] \in Whitespace
    BY <1>1, <2>1, SkipIs
  <2> HIDE DEF text, f
  <2>3. ~(f < text)
    <3> SUFFICES ASSUME f < text PROVE FALSE
      OBVIOUS
    <3>1. f \in (i + 3)..(text - 1)
      BY <1>1, <1>3, <2>2
    <3> QED BY <1>2, <2>2, <3>1 DEF Whitespace
  <2> QED BY <1>1, <1>3, <2>2, <2>3
<1>5. BodyEnd(text) = f
  <2> DEFINE e == BodyEnd(text)
  <2>1. text \in Nat /\ text <= Len(query) + 1
    BY <1>1, <1>3, <1>4
  <2>2. /\ e \in text..(Len(query) + 1)
        /\ e <= Len(query) => \/ e = Len(query)
                             \/ query[e] = "*"
                             \/ query[e + 1] = "/"
        /\ \A h \in text..(e - 1) : h # Len(query) /\ query[h] # "*" /\ query[h + 1] # "/"
    BY <1>1, <2>1, BodyEndIs
  <2>3. \A h \in (i + 2)..(f - 1) : h # Len(query) /\ query[h] # "*" /\ query[h + 1] # "/"
    <3>1. i + 2 \in Nat /\ i + 2 <= Len(query) + 1
      BY <1>1, <1>2
    <3> QED BY <1>1, <3>1, BodyEndIs
  <2> HIDE DEF text, f, e
  <2>4. ~(e < f)
    <3> SUFFICES ASSUME e < f PROVE FALSE
      OBVIOUS
    <3>1. e \in (i + 2)..(f - 1) /\ ~(e > Len(query))
      BY <1>1, <1>3, <1>4, <2>2
    <3> QED BY <2>2, <2>3, <3>1
  <2>5. ~(f < e)
    <3> SUFFICES ASSUME f < e PROVE FALSE
      OBVIOUS
    <3>1. f \in text..(e - 1)
      BY <1>1, <1>3, <1>4, <2>2
    <3> QED BY <1>2, <2>2, <3>1
  <2>6. e = f
    BY <1>1, <1>3, <1>4, <2>2, <2>4, <2>5
  <2> QED BY <2>6 DEF e
<1> HIDE DEF text, f
<1> DEFINE b == Slice(text, f)
           w == Slice(i + 3, text)
<1>6. /\ text \in 1..(Len(query) + 1) /\ f \in text..(Len(query) + 1)
      /\ i + 3 \in 1..(Len(query) + 1) /\ text \in (i + 3)..(Len(query) + 1)
      /\ f \in (i + 3)..(Len(query) + 1) /\ f \in (i + 2)..(Len(query) + 1)
  BY <1>1, <1>3, <1>4
<1>7. /\ b \in Text /\ Len(b) = f - text /\ \A k \in 1..(f - text) : b[k] = query[text + k - 1]
      /\ w \in Text /\ Len(w) = text - (i + 3)
      /\ \A k \in 1..(text - (i + 3)) : w[k] = query[(i + 3) + k - 1]
  BY <1>6, SliceIs
<1>8. w \o b = Slice(i + 3, f)
  BY <1>6, TwoSlices
<1>9. Tail(Slice(i + 2, f)) = Slice(i + 3, f) /\ Kept(Rest(i)) = Slice(i + 3, f)
  <2>1. /\ Slice(i + 2, f) \in Text /\ Len(Slice(i + 2, f)) = f - (i + 2)
    BY <1>2, <1>6, SliceIs
  <2>2. Slice(i + 2, f) # <<>> /\ Len(Slice(i + 2, f)) # 0
    BY <1>1, <1>3, <2>1, TextIsEmpty
  <2>3. Tail(Slice(i + 2, f)) = Slice(i + 3, f)
    <3> DEFINE s == Slice(i + 2, f)
               t == Slice(i + 3, f)
    <3>1. /\ s \in Text /\ Len(s) = f - (i + 2)
          /\ \A k \in 1..(f - (i + 2)) : s[k] = query[(i + 2) + k - 1]
          /\ t \in Text /\ Len(t) = f - (i + 3)
          /\ \A k \in 1..(f - (i + 3)) : t[k] = query[(i + 3) + k - 1]
      BY <1>2, <1>6, SliceIs
    <3>2. s # <<>>
      BY <2>2
    <3> HIDE DEF s, t
    <3>3. /\ Tail(s) = Suffix(s, 2) /\ Tail(s) \in Text /\ Len(Tail(s)) = Len(s) - 1
      BY <3>1, <3>2, TailIs
    <3>4. \A k \in 1..(Len(s) - 2 + 1) : Suffix(s, 2)[k] = s[2 + k - 1]
      <4>1. 2 \in 1..(Len(s) + 1)
        BY <1>1, <1>3, <3>1
      <4> QED BY <3>1, <4>1, SuffixIs
    <3>5. Len(Tail(s)) = Len(t)
      BY <1>1, <1>3, <3>1, <3>3
    <3>6. ASSUME NEW k \in 1..Len(Tail(s)) PROVE Tail(s)[k] = t[k]
      <4>1. /\ k \in 1..(Len(s) - 2 + 1) /\ 2 + k - 1 \in 1..(f - (i + 2)) /\ k \in 1..(f - (i + 3))
            /\ (i + 2) + (2 + k - 1) - 1 = (i + 3) + k - 1
        BY <1>1, <1>3, <3>1, <3>3
      <4> QED BY <3>1, <3>3, <3>4, <4>1
    <3>7. Tail(s) = t
      BY <3>1, <3>3, <3>5, <3>6, SameText
    <3> QED BY <3>7 DEF s, t
  <2>4. Body(Rest(i)) # <<>> /\ Body(Rest(i))[1] = "!"
    <3>1. i + 2 <= Len(query) /\ i + 2 # Len(query) + 1
      BY <1>1, <1>3
    <3> QED BY <1>1, <1>2, <3>1, RestAt
  <2>5. Kept(Rest(i)) = Tail(Slice(i + 2, f))
    BY <1>2, <2>4 DEF Kept
  <2> QED BY <2>3, <2>5
<1>10. Read[Slice(i + 3, f)] = Read[b]
  <2>1. \A k \in 1..Len(w) : w[k] \in Whitespace
    <3>1. \A k \in 1..Len(w) : k \in 1..(text - (i + 3)) /\ (i + 3) + k - 1 \in (i + 3)..(text - 1)
      BY <1>1, <1>4, <1>7
    <3> QED BY <1>4, <1>7, <3>1
  <2> HIDE DEF w, b
  <2>2. Read[w] = <<>>
    BY <1>7, <2>1, OnlySpaceRead
  <2>3. Clean(w) /\ Apart(w, b)
    <3>1. w # <<>> => w[Len(w)] \in Whitespace
      <4>1. w # <<>> => Len(w) \in 1..Len(w)
        BY <1>7, TextIsEmpty
      <4> QED BY <2>1, <4>1
    <3>2. Apart(w, b)
      BY <3>1 DEF Apart, Splits, WordChars, Letters, Digits, Whitespace
    <3> QED BY <2>1, <3>2 DEF Clean, Whitespace, Quotes
  <2>4. Read[w \o b] = Read[w] \o Read[b]
    BY <1>7, <2>3, PartsRead
  <2>5. Read[b] \in Seq(Text)
    BY <1>7, ReadIs DEF Texts
  <2> QED BY <1>8, <2>2, <2>4, <2>5, ConcatEmptySeq
<1>11. Clean(b)
  <2>0. \A k \in 1..Len(b) : /\ k \in 1..(f - text) /\ text + k - 1 \in 1..Len(query)
                             /\ text + k - 1 \in (i + 2)..(f - 1)
    BY <1>1, <1>3, <1>4, <1>7
  <2> HIDE DEF b
  <2> SUFFICES ASSUME NEW k \in 1..Len(b)
               PROVE  /\ b[k] \notin Quotes
                      /\ k < Len(b) => /\ ~(b[k] = "/" /\ b[k + 1] = "*")
                                       /\ ~(b[k] = "-" /\ b[k + 1] = "-")
    BY DEF Clean
  <2> DEFINE j == text + k - 1
  <2>1. b[k] = query[j] /\ j \in 1..Len(query) /\ j \in (i + 3)..(f - 1)
    <3>1. j \in (i + 3)..(f - 1)
      BY <1>1, <1>3, <1>4, <2>0
    <3> QED BY <1>7, <2>0, <3>1
  <2>2. b[k] \notin Quotes
    BY <2>1 DEF PlainKey, KeyPlain
  <2>3. ASSUME k < Len(b) PROVE b[k + 1] = query[j + 1] /\ j + 1 \in (i + 2)..(f - 1)
    <3>1. k + 1 \in 1..Len(b) /\ text + (k + 1) - 1 = j + 1
      BY <1>1, <1>3, <1>4, <1>7, <2>3
    <3> HIDE DEF j
    <3>2. k + 1 \in 1..(f - text) /\ text + (k + 1) - 1 \in (i + 2)..(f - 1)
      BY <2>0, <3>1
    <3>3. b[k + 1] = query[text + (k + 1) - 1]
      BY <1>7, <3>2
    <3> QED BY <3>1, <3>2, <3>3
  <2> HIDE DEF j
  <2>4. ASSUME k < Len(b) PROVE b[k + 1] # "*"
    BY <1>2, <2>3, <2>4
  <2>5. ASSUME k < Len(b), b[k] = "-", b[k + 1] = "-" PROVE FALSE
    <3>1. Pair(j, "-", "-")
      <4>1. j \in 1..(Len(query) - 1)
        BY <1>1, <1>3, <2>1
      <4> QED BY <2>1, <2>3, <2>5, <4>1 DEF Pair
    <3>2. i \in 1..(j - 1) /\ Opens(i) /\ Executable(i + 2)
      BY <1>1, <1>3, <2>1 DEF Opens, i
    <3>3. PICK c \in (i + 2)..(j - 1) : Closes(c)
      BY <2>1, <3>1, <3>2 DEF PlainKey, KeyPlain
    <3>4. c \in (i + 2)..(f - 1) /\ query[c] = "*"
      BY <1>1, <1>3, <2>1, <3>3 DEF Closes, Pair
    <3> QED BY <1>2, <3>4
  <2> QED BY <2>2, <2>4, <2>5
<1>12. Read[Rest(i)] = Read[b] \o Read[Rest(f + 2)]
  <2>1. Rest(i) # <<>> /\ ~LineComment(Rest(i)) /\ ~Doubled(Rest(i))
    BY <1>2, EmptySeq DEF LineComment, Doubled, Begins
  <2>2. Reading(Read, Rest(i)) = Read[Kept(Rest(i))] \o Read[Rest(f + 2)]
    BY <1>2, <2>1 DEF Reading
  <2> QED BY <1>2, <1>9, <1>10, <2>2, ReadIs
<1>13. AfterBody(text) = f + 2
  <2>1. f < Len(query)
    BY <1>1, <1>3
  <2> QED BY <1>5, <2>1 DEF AfterBody
<1>14. f \in 1..(Len(query) - 1)
  BY <1>1, <1>3
<1> HIDE DEF b
<1> QED BY <1>2, <1>5, <1>7, <1>11, <1>12, <1>13, <1>14 DEF b, text, i

LEMMA ExecutableKept ==
    ASSUME ReadInv, PlainKey, KeyAt(out, p), KeepExecutable
    PROVE  KeyAt(out, p)'
<1> DEFINE text == Skip(Ahead + 3, Whitespace)
           e == BodyEnd(text)
           b == Slice(text, e)
           a == Append(Spaced, "space")
           o == a \o b
<1>1. /\ Len(query) \in Nat /\ p \in 1..(Len(query) + 1) /\ p <= Len(query)
      /\ Ahead \in p..(Len(query) + 1) /\ Pair(Ahead, "/", "*") /\ Executable(Ahead + 2)
      /\ query' = query
      /\ out' = Spaced \o <<"space">> \o b
      /\ p' = AfterBody(text)
  BY AheadIs DEF ReadInv, NeverBeyond, KeepExecutable, Stripping
<1>2. /\ e \in 1..(Len(query) - 1) /\ query[e] = "*" /\ query[e + 1] = "/"
      /\ e + 2 \in 1..(Len(query) + 1) /\ AfterBody(text) = e + 2
      /\ b \in Text /\ Clean(b)
      /\ Read[Rest(Ahead)] = Read[b] \o Read[Rest(e + 2)]
  BY <1>1, KeptIs
<1> HIDE DEF text, e, b
<1>3. out \in Text /\ Clean(out) /\ (Ahead = p => query[p] = "/")
  BY <1>1 DEF KeyAt, Pair
<1>4. /\ Spaced \in Text /\ Clean(Spaced)
      /\ Read[query] = Read[Spaced] \o Read[Rest(Ahead)]
  BY <1>1, <1>3, SpacedIs, GapRead
<1>5. /\ a \in Text /\ Clean(a) /\ Read[a] = Read[Spaced] /\ Spaced \o <<"space">> = a
      /\ \A d : Apart(a, d)
  <2>1. "space" \in TextChars \ Quotes
    BY DEF TextChars, Whitespace, Quotes
  <2>2. /\ a \in Text /\ Len(a) = Len(Spaced) + 1 /\ a[Len(Spaced) + 1] = "space"
        /\ a = Spaced \o <<"space">>
    BY <1>4, <2>1, OneCharacterMore
  <2>3. Clean(a)
    BY <1>4, <2>1, CleanWith DEF Follows
  <2>4. /\ <<"space">> \in Text /\ <<"space">>[1] = "space" /\ Len(<<"space">>) = 1
    BY <2>1, OneCharacter
  <2>5. Read[<<"space">>] = <<>>
    BY <2>4, OnlySpaceRead DEF Whitespace
  <2>6. Apart(Spaced, <<"space">>)
    BY <2>4, SpaceIsApart DEF Whitespace
  <2>7. Read[Spaced \o <<"space">>] = Read[Spaced] \o Read[<<"space">>]
    BY <1>4, <2>4, <2>6, PartsRead
  <2>8. Read[Spaced] \in Seq(Text)
    BY <1>4, ReadIs DEF Texts
  <2>9. Read[Spaced] \o <<>> = Read[Spaced]
    BY <2>8, ConcatEmptySeq
  <2> HIDE DEF a
  <2>10. Blank(a)
    BY <2>2 DEF Blank
  <2> QED BY <2>2, <2>3, <2>5, <2>7, <2>9, <2>10, BlankIsApart
<1> HIDE DEF a
<1>6. /\ o \in Text /\ Clean(o) /\ Read[o] = Read[Spaced] \o Read[b]
  <2>1. a \in Text /\ Clean(a) /\ b \in Text /\ Clean(b) /\ Apart(a, b)
    BY <1>2, <1>5
  <2>2. a \o b \in Text
    BY <2>1, TwoParts
  <2>3. Clean(a \o b)
    BY <2>1, CleanParts
  <2>4. Read[a \o b] = Read[a] \o Read[b]
    BY <2>1, PartsRead
  <2> QED BY <1>5, <2>2, <2>3, <2>4
<1>7. e + 2 <= Len(query) => query[e + 2] \in Whitespace
  <2>1. Closes(e) /\ e \in 1..Len(query)
    BY <1>1, <1>2 DEF Closes, Pair
  <2>2. SpaceAt(e + 2)
    BY <2>1 DEF PlainKey, CommentsApart
  <2> QED BY <1>2, <2>2 DEF SpaceAt
<1>8. Rest(e + 2) \in Text /\ (Rest(e + 2) # <<>> => Rest(e + 2)[1] \in Whitespace)
  BY <1>1, <1>2, <1>7, RestAt
<1> HIDE DEF o
<1>9. Read[o \o Rest(e + 2)] = Read[o] \o Read[Rest(e + 2)]
  BY <1>6, <1>8, SpaceIsApart, PartsRead
<1>10. Read[query] = Read[o \o Rest(e + 2)]
  <2> DEFINE r == Read[Spaced]
             m == Read[b]
             t == Read[Rest(e + 2)]
  <2>1. r \in Seq(Text) /\ m \in Seq(Text) /\ t \in Seq(Text)
    BY <1>2, <1>4, <1>8, ReadIs DEF Texts
  <2> HIDE DEF r, m, t
  <2>2. r \o (m \o t) = (r \o m) \o t
    BY <2>1, ConcatAssociative
  <2> QED BY <1>2, <1>4, <1>6, <1>9, <2>2 DEF r, m, t
<1>11. ~SpaceAt((e + 2) - 1)
  <2>1. (e + 2) - 1 = e + 1 /\ e + 1 \in 1..Len(query)
    BY <1>1, <1>2
  <2> QED BY <1>2, <2>1 DEF SpaceAt, Whitespace
<1>12. e + 2 <= Len(query) => \A c : Follows(c, query[e + 2])
  BY <1>7 DEF Follows, Whitespace
<1>13. KeyAt(o, e + 2)
  BY <1>6, <1>10, <1>11, <1>12 DEF KeyAt
<1>14. out' = o /\ p' = e + 2
  BY <1>1, <1>2, <1>5 DEF o
<1> QED BY <1>1, <1>13, <1>14 DEF KeyAt, Rest, SpaceAt

\* The key so far and the rest of the statement are read like the statement, and
\* a key that is ready has no rest.
KeyInv == job = "hash_key" /\ PlainKey => KeyAt(out, p) /\ (ended => p > Len(query))

LEMMA KeyInit == Init => KeyInv
BY ReadInit, KeyBegins DEF Init, KeyInv, Whole

LEMMA KeyKept == WholeRead /\ KeyInv /\ [Next]_vars => KeyInv'
<1> SUFFICES ASSUME ReadInv, KeyInv, [Next]_vars, query' = query, job' = job,
                    job = "hash_key", PlainKey
             PROVE  KeyAt(out, p)' /\ (ended => p > Len(query))'
  <2>1. ASSUME [Next]_vars PROVE UNCHANGED <<query, job>>
    BY <2>1 DEF Next, vars, StripComment, KeepExecutable, StripLineComment, CopyCharacter,
                Stripping, KeyDone, ReadHint, Classify, Asking, WriteToken, FormDone, Normalizing
  <2>2. ASSUME query' = query PROVE PlainKey' <=> PlainKey
    BY <2>2 DEF PlainKey, CommentsPlain, CommentsApart, KeyPlain, Opens, Closes, Pair, SpaceAt,
                Executable
  <2>3. job = "hash_key" => Whole
    BY DEF Whole
  <2> QED BY <2>1, <2>2, <2>3 DEF KeyInv, WholeRead
<1>1. KeyAt(out, p) /\ (ended => p > Len(query)) /\ Len(query) \in Nat /\ p \in Nat
  BY AheadIs DEF KeyInv, ReadInv, NeverBeyond
<1>2. CASE StripComment
  <2>1. out' = Spaced /\ p' = AfterBody(Ahead + 2) /\ p <= Len(query) /\ ended' = ended
    BY <1>2 DEF StripComment, Stripping
  <2>2. KeyAt(Spaced, AfterBody(Ahead + 2))
    BY <1>1, <1>2, CommentStripped
  <2>3. KeyAt(out, p)'
    BY <2>1, <2>2 DEF KeyAt, Rest, SpaceAt
  <2> QED BY <1>1, <2>1, <2>3
<1>3. CASE StripLineComment
  <2>1. out' = Spaced /\ p' = AfterLine(Ahead + 2) /\ p <= Len(query) /\ ended' = ended
    BY <1>3 DEF StripLineComment, Stripping
  <2>2. KeyAt(Spaced, AfterLine(Ahead + 2))
    BY <1>1, <1>3, LineStripped
  <2>3. KeyAt(out, p)'
    BY <2>1, <2>2 DEF KeyAt, Rest, SpaceAt
  <2> QED BY <1>1, <2>1, <2>3
<1>4. CASE KeepExecutable
  <2>1. p <= Len(query) /\ ended' = ended
    BY <1>4 DEF KeepExecutable, Stripping
  <2>2. KeyAt(out, p)'
    BY <1>1, <1>4, ExecutableKept
  <2> QED BY <1>1, <2>1, <2>2
<1>5. CASE CopyCharacter
  <2>1. p <= Len(query) /\ ended' = ended
    BY <1>5 DEF CopyCharacter, Stripping
  <2>2. KeyAt(out, p)'
    BY <1>1, <1>5, CharacterCopied
  <2> QED BY <1>1, <2>1, <2>2
<1>6. CASE KeyDone
  BY <1>1, <1>6 DEF KeyDone, KeyAt, Rest, SpaceAt
<1>7. CASE UNCHANGED vars
  BY <1>1, <1>7 DEF vars, KeyAt, Rest, SpaceAt
<1>8. CASE ReadHint \/ Classify \/ WriteToken \/ FormDone
  BY <1>8 DEF ReadHint, Classify, Asking, WriteToken, FormDone, Normalizing
<1> QED BY <1>2, <1>3, <1>4, <1>5, <1>6, <1>7, <1>8 DEF Next

LEMMA KeyReady == WholeRead /\ KeyInv => KeyKeepsTokens
<1> SUFFICES ASSUME ReadInv, KeyAt(out, p), p > Len(query)
             PROVE  Read[out] = Read[query]
  BY DEF KeyInv, KeyKeepsTokens, PlainKey, WholeRead, Whole
<1>1. Len(query) \in Nat /\ p \in 1..(Len(query) + 1) /\ p = Len(query) + 1
  BY AheadIs DEF ReadInv, NeverBeyond
<1>2. Rest(p) = <<>>
  BY <1>1, RestAt
<1>3. out \in Seq(TextChars) /\ Read[query] = Read[out \o Rest(p)]
  BY TextIs DEF KeyAt
<1>4. out \o <<>> = out
  BY <1>3, ConcatEmptySeq
<1> QED BY <1>2, <1>3, <1>4

\* The server reads a hash key as it reads the statement it was made of, so statements
\* that share an entry of the cache say the same to the server: whatever whitespace and
\* comments are stripped, no two words of the statement become one.
THEOREM KeysKeepTokens == Spec => []KeyKeepsTokens
<1>1. WholeRead /\ KeyInv => KeyKeepsTokens
  BY KeyReady
<1>2. Spec => []WholeRead
  BY ReadAlways
<1>3. Spec => []KeyInv
  BY <1>2, KeyInit, KeyKept, PTL DEF Spec
<1> QED BY <1>1, <1>2, <1>3, PTL

-----------------------------------------------------------------------------
(***************************************************************************)
(* Normal forms                                                            *)
(***************************************************************************)

QuotesBefore(i) == {j \in 1..(i - 1) : Quote(j)}

LEMMA QuotesCounted ==
    ASSUME NEW i \in Nat
    PROVE  IsFiniteSet(QuotesBefore(i)) /\ Cardinality(QuotesBefore(i)) \in Nat
<1>1. IsFiniteSet(1..(i - 1))
  BY FS_Interval
<1>2. QuotesBefore(i) \subseteq 1..(i - 1)
  BY DEF QuotesBefore
<1>3. IsFiniteSet(QuotesBefore(i))
  BY <1>1, <1>2, FS_Subset
<1> QED BY <1>3, FS_CardinalityType

\* A quote opens or closes a string, and nothing else does.
LEMMA QuoteTurns ==
    ASSUME NEW i \in Nat \ {0}
    PROVE  /\ Quote(i) => (Quoted(i + 1) <=> ~Quoted(i))
           /\ ~Quote(i) => (Quoted(i + 1) <=> Quoted(i))
<1>1. IsFiniteSet(QuotesBefore(i)) /\ Cardinality(QuotesBefore(i)) \in Nat
  BY QuotesCounted
<1>2. \A n \in Nat : (n + 1) % 2 = 1 <=> n % 2 # 1
  OBVIOUS
<1>3. \A j \in Nat : Quoted(j) <=> Cardinality(QuotesBefore(j)) % 2 = 1
  BY DEF Quoted, QuotesBefore
<1>4. i + 1 \in Nat /\ (i + 1) - 1 = i /\ i \notin 1..(i - 1)
  OBVIOUS
<1>5. \A j : j \in 1..i <=> j \in 1..(i - 1) \/ j = i
  OBVIOUS
<1>6. ASSUME Quote(i) PROVE Quoted(i + 1) <=> ~Quoted(i)
  <2>1. QuotesBefore(i + 1) = QuotesBefore(i) \cup {i} /\ i \notin QuotesBefore(i)
    BY <1>4, <1>5, <1>6 DEF QuotesBefore
  <2>2. Cardinality(QuotesBefore(i + 1)) = Cardinality(QuotesBefore(i)) + 1
    BY <1>1, <2>1, FS_AddElement
  <2> QED BY <1>1, <1>2, <1>3, <1>4, <2>2
<1>7. ASSUME ~Quote(i) PROVE Quoted(i + 1) <=> Quoted(i)
  <2>1. QuotesBefore(i + 1) = QuotesBefore(i)
    BY <1>4, <1>5, <1>7 DEF QuotesBefore
  <2> QED BY <1>3, <1>4, <2>1
<1> QED BY <1>6, <1>7

\* Where there is no quote, strings neither begin nor end.
LEMMA QuotedSame ==
    ASSUME NEW i \in Nat \ {0}, NEW j \in Nat, i <= j, \A h \in i..(j - 1) : ~Quote(h)
    PROVE  Quoted(j) <=> Quoted(i)
<1>1. QuotesBefore(j) = QuotesBefore(i)
  <2>1. \A h : h \in 1..(j - 1) <=> h \in 1..(i - 1) \/ h \in i..(j - 1)
    OBVIOUS
  <2> QED BY <2>1 DEF QuotesBefore
<1>2. \A k \in Nat : Quoted(k) <=> Cardinality(QuotesBefore(k)) % 2 = 1
  BY DEF Quoted, QuotesBefore
<1> QED BY <1>1, <1>2

\* A character that is a token of its own.
Single(c) == c \in TextChars \ (Whitespace \cup {"tick"} \cup Quotes \cup WordChars)

LEMMA FirstRead ==
    ASSUME NEW s \in Text, s # <<>>, Single(s[1]),
           ~LineComment(s), ~Begins(s, "/", "*"), ~Doubled(s)
    PROVE  Read[s] = <<<<s[1]>>>> \o Read[Tail(s)]
<1> DEFINE c == s[1]
<1>1. c \notin Whitespace \cup {"tick"} /\ c \notin Quotes /\ c \notin WordChars
  BY DEF Single
<1>2. Reading(Read, s) = <<<<c>>>> \o Read[Tail(s)]
  BY <1>1 DEF Reading
<1> QED BY <1>2, ReadIs

\* Texts of one character.
LEMMA OneIs ==
    ASSUME NEW c \in TextChars
    PROVE  /\ <<c>> \in Text /\ <<c>> # <<>> /\ Len(<<c>>) = 1 /\ <<c>>[1] = c
           /\ Tail(<<c>>) = <<>>
           /\ ~LineComment(<<c>>) /\ ~Doubled(<<c>>) /\ \A a, b : ~Begins(<<c>>, a, b)
           /\ c \notin Quotes => Clean(<<c>>)
<1>1. <<c>> \in Text /\ Len(<<c>>) = 1 /\ <<c>>[1] = c
  BY OneCharacter
<1>2. <<c>> # <<>>
  BY <1>1, TextIsEmpty
<1>3. Tail(<<c>>) \in Text /\ Len(Tail(<<c>>)) = 0
  <2> DEFINE s == <<c>>
  <2> HIDE DEF s
  <2>1. s \in Text /\ s # <<>> /\ Len(s) = 1
    BY <1>1, <1>2 DEF s
  <2>2. Tail(s) \in Text /\ Len(Tail(s)) = 0
    BY <2>1, TailIs
  <2> QED BY <2>2 DEF s
<1>4. Tail(<<c>>) = <<>>
  BY <1>3, TextIsEmpty
<1>5. \A a, b : ~Begins(<<c>>, a, b)
  BY <1>1 DEF Begins
<1>6. ~LineComment(<<c>>) /\ ~Doubled(<<c>>)
  BY <1>5 DEF LineComment, Doubled
<1>7. c \notin Quotes => Clean(<<c>>)
  BY <1>1 DEF Clean
<1> QED BY <1>1, <1>2, <1>4, <1>5, <1>6, <1>7

LEMMA SingleRead ==
    ASSUME NEW c, Single(c)
    PROVE  Read[<<c>>] = <<<<c>>>>
<1>1. c \in TextChars
  BY DEF Single
<1> DEFINE s == <<c>>
<1>2. s \in Text /\ s # <<>> /\ s[1] = c /\ Tail(s) = <<>>
      /\ ~LineComment(s) /\ ~Doubled(s) /\ ~Begins(s, "/", "*")
  BY <1>1, OneIs
<1> HIDE DEF s
<1>3. Read[s] = <<<<s[1]>>>> \o Read[Tail(s)]
  BY <1>2, FirstRead
<1>4. <<<<c>>>> \o <<>> = <<<<c>>>>
  <2>1. <<c>> \in Text
    BY <1>1, OneCharacter
  <2> DEFINE w == <<c>>
  <2> HIDE DEF w
  <2>2. w \in Text
    BY <2>1 DEF w
  <2>3. <<w>> \in Seq(Text)
    BY <2>2
  <2>4. <<w>> \o <<>> = <<w>>
    BY <2>3, ConcatEmptySeq
  <2> QED BY <2>4 DEF w
<1> QED BY <1>2, <1>3, <1>4, NothingRead DEF s

LEMMA SpaceAlone ==
    /\ <<"space">> \in Text /\ Clean(<<"space">>) /\ Read[<<"space">>] = <<>>
    /\ <<"space">> # <<>> /\ Len(<<"space">>) = 1 /\ <<"space">>[1] = "space"
<1>1. "space" \in TextChars \ Quotes /\ "space" \in Whitespace
  BY DEF TextChars, Whitespace, Quotes
<1>2. /\ <<"space">> \in Text /\ <<"space">> # <<>> /\ Len(<<"space">>) = 1 /\ <<"space">>[1] = "space"
      /\ Clean(<<"space">>)
  BY <1>1, OneIs
<1>3. Read[<<"space">>] = <<>>
  BY <1>1, <1>2, OnlySpaceRead
<1> QED BY <1>2, <1>3

\* A space at the end or in front changes nothing.
LEMMA SpaceBehind ==
    ASSUME NEW a \in Text, Clean(a)
    PROVE  /\ a \o <<"space">> \in Text /\ Clean(a \o <<"space">>)
           /\ Read[a \o <<"space">>] = Read[a]
           /\ Append(a, "space") = a \o <<"space">>
           /\ Len(a \o <<"space">>) = Len(a) + 1 /\ (a \o <<"space">>)[Len(a) + 1] = "space"
<1>1. Apart(a, <<"space">>)
  BY SpaceAlone, SpaceIsApart DEF Whitespace
<1>2. Read[a \o <<"space">>] = Read[a] \o <<>>
  BY <1>1, SpaceAlone, PartsRead
<1>3. Read[a] \o <<>> = Read[a]
  <2>1. Read[a] \in Seq(Text)
    BY ReadIs DEF Texts
  <2> QED BY <2>1, ConcatEmptySeq
<1>4. "space" \in TextChars
  BY DEF TextChars, Whitespace
<1>5. /\ Append(a, "space") = a \o <<"space">> /\ Append(a, "space") \in Text
      /\ Len(Append(a, "space")) = Len(a) + 1 /\ Append(a, "space")[Len(a) + 1] = "space"
  BY <1>4, OneCharacterMore
<1>6. Clean(a \o <<"space">>)
  BY <1>1, SpaceAlone, CleanParts
<1> QED BY <1>2, <1>3, <1>5, <1>6

LEMMA SpaceInFront ==
    ASSUME NEW a \in Text, Clean(a)
    PROVE  /\ <<"space">> \o a \in Text /\ Clean(<<"space">> \o a)
           /\ Read[<<"space">> \o a] = Read[a]
<1>1. Apart(<<"space">>, a)
  BY SpaceAlone, BlankIsApart DEF Blank
<1>2. Read[<<"space">> \o a] = <<>> \o Read[a]
  BY <1>1, SpaceAlone, PartsRead
<1>3. <<>> \o Read[a] = Read[a]
  <2>1. Read[a] \in Seq(Text)
    BY ReadIs DEF Texts
  <2> QED BY <2>1, ConcatEmptySeq
<1> QED BY <1>1, <1>2, <1>3, SpaceAlone, CleanParts, TwoParts

\* A number is a literal.
LEMMA DigitsRead ==
    ASSUME NEW u \in Text, u # <<>>, \A k \in 1..Len(u) : u[k] \in Digits
    PROVE  Read[u] = <<<<"?">>>>
<1>1. Len(u) \in Nat \ {0} /\ u \in Seq(TextChars) /\ 1 \in 1..Len(u)
  BY TextIs, TailIs
<1>2. u[1] \in Digits
  BY <1>1
<1>3. AfterWord(u) = <<>>
  <2>1. PICK i \in 1..(Len(u) + 1) :
           AfterWord(u) = Suffix(u, i) /\ (i <= Len(u) => u[i] \notin WordChars)
    BY AfterWordIs
  <2>2. i = Len(u) + 1
    <3>1. \A k \in 1..Len(u) : u[k] \in WordChars
      BY DEF WordChars
    <3> QED BY <1>1, <2>1, <3>1
  <2>3. Suffix(u, i) \in Text /\ Len(Suffix(u, i)) = 0
    BY <1>1, <2>2, SuffixIs
  <2> QED BY <2>1, <2>3, TextIsEmpty
<1>4. Word(u) = u
  <2>1. Len(<<>>) = 0 /\ Len(u) - 0 = Len(u)
    BY <1>1, EmptySeq
  <2>2. SubSeq(u, 1, Len(u)) = u
    BY <1>1, SubSeqFull
  <2> QED BY <1>3, <2>1, <2>2 DEF Word, Before
<1>5. u \in Seq(Digits)
  <2>1. u \in [1..Len(u) -> TextChars]
    BY <1>1, LenProperties
  <2>2. u \in [1..Len(u) -> Digits]
    BY <2>1
  <2> QED BY <1>1, <2>2, SeqDef
<1>6. ~LineComment(u) /\ ~Begins(u, "/", "*") /\ ~Doubled(u)
  BY <1>2 DEF LineComment, Begins, Doubled, Digits
<1> DEFINE c == u[1]
<1>7. c \notin Whitespace \cup {"tick"} /\ c \notin Quotes /\ c \in WordChars
  BY <1>2 DEF Whitespace, Quotes, WordChars, Digits
<1>8. Reading(Read, u) = <<IF Word(u) \in Seq(Digits) THEN <<"?">> ELSE Word(u)>> \o Read[AfterWord(u)]
  BY <1>6, <1>7 DEF Reading
<1>9. Read[u] = <<<<"?">>>> \o <<>>
  BY <1>3, <1>4, <1>5, <1>8, ReadIs, NothingRead
<1>10. <<<<"?">>>> \o <<>> = <<<<"?">>>>
  <2>1. <<"?">> \in Text
    BY OneCharacter DEF TextChars, Punctuation
  <2> DEFINE w == <<"?">>
  <2> HIDE DEF w
  <2>2. w \in Text
    BY <2>1 DEF w
  <2>3. <<w>> \in Seq(Text)
    BY <2>2
  <2>4. <<w>> \o <<>> = <<w>>
    BY <2>3, ConcatEmptySeq
  <2> QED BY <2>4 DEF w
<1> QED BY <1>9, <1>10

\* The text up to e is read, then the rest.
LEMMA SliceRead ==
    ASSUME ReadInv, NEW i \in 1..(Len(query) + 1), NEW e \in i..(Len(query) + 1),
           Clean(Slice(i, e)), Apart(Slice(i, e), Rest(e))
    PROVE  Read[Rest(i)] = Read[Slice(i, e)] \o Read[Rest(e)]
<1>1. Len(query) \in Nat /\ e \in 1..(Len(query) + 1)
  BY RestIs
<1>2. \A k \in 1..(Len(query) + 1) : Slice(k, Len(query) + 1) = Rest(k)
  <2>1. (Len(query) + 1) - 1 = Len(query)
    BY <1>1
  <2> QED BY <2>1 DEF Slice, Rest, Suffix
<1>3. Slice(i, e) \o Slice(e, Len(query) + 1) = Slice(i, Len(query) + 1)
  <2>1. Len(query) + 1 \in e..(Len(query) + 1)
    BY <1>1
  <2> QED BY <2>1, TwoSlices
<1>4. Rest(i) = Slice(i, e) \o Rest(e)
  BY <1>1, <1>2, <1>3
<1>5. Slice(i, e) \in Text /\ Rest(e) \in Text
  BY <1>1, SliceIs, RestIs
<1> QED BY <1>4, <1>5, PartsRead

LEMMA ReadTogether ==
    ASSUME NEW r \in Texts, NEW s \in Texts, NEW t \in Texts
    PROVE  r \o (s \o t) = (r \o s) \o t
<1>1. r \in Seq(Text) /\ s \in Seq(Text) /\ t \in Seq(Text)
  BY DEF Texts
<1> QED BY <1>1, ConcatAssociative

\* What is written behind b is read after it, before the rest.
LEMMA Appended ==
    ASSUME NEW b \in Text, Clean(b), NEW v \in Text, Clean(v), Apart(b, v), NEW r \in Texts
    PROVE  /\ b \o v \in Text /\ Clean(b \o v)
           /\ Read[b] \o (Read[v] \o r) = Read[b \o v] \o r
<1>1. b \o v \in Text /\ Clean(b \o v)
  BY TwoParts, CleanParts
<1>2. Read[b \o v] = Read[b] \o Read[v]
  BY PartsRead
<1>3. Read[b] \in Texts /\ Read[v] \in Texts
  BY ReadIs
<1>4. Read[b] \o (Read[v] \o r) = (Read[b] \o Read[v]) \o r
  BY <1>3, ReadTogether, Zenon
<1> QED BY <1>1, <1>2, <1>4

\* What the statement has to be like.
PlainForm ==
    CommentsPlain /\ CommentsAside /\ StringsPlain /\ NumbersApart /\ TicksPaired /\ OperatorsApart

\* No word or doubled character is being written.
Ends(o) == o # <<>> => o[Len(o)] \notin WordChars \cup {"|", "&"}

\* What is at i makes no comment with what was written last.
Fits(o, i) == o # <<>> =>
    /\ o[Len(o)] = "-" => Char(i) # "-" /\ ~Opens(i)
    /\ o[Len(o)] = "/" => Char(i) # "*" /\ ~Opens(i) /\ ~Pair(i, "-", "-")

\* At q there is neither a string nor a comment, and no word goes on as a number.
Between(q) ==
    /\ ~Quoted(q)
    /\ q > 1 /\ q <= Len(query) /\ query[q - 1] \in Letters => query[q] \notin Digits
    /\ ~Pair(q - 1, "-", "-")
    /\ \A o \in 1..(q - 1) : Opens(o) => \E c \in (o + 2)..(q - 2) : Closes(c)

\* o is written for the text before q.
FormAt(o, q) ==
    /\ o \in Text /\ Clean(o) /\ Ends(o)
    /\ Read[query] = Read[o] \o Read[Rest(q)]
    /\ Fits(o, Skip(q, Whitespace))
    /\ Between(q)

LEMMA FormBegins == ASSUME ReadInv PROVE FormAt(<<>>, 1)
<1>1. query \in Text /\ query \in Seq(TextChars) /\ Len(query) \in Nat
  BY TextIs, AheadIs DEF ReadInv
<1>2. Rest(1) = query
  BY <1>1, SubSeqFull DEF Rest, Suffix
<1>3. \A k \in 1..Len(<<>>) : FALSE
  BY EmptySeq
<1>4. Read[query] = <<>> \o Read[query]
  <2>1. Read[query] \in Seq(Text)
    BY <1>1, ReadIs DEF Texts
  <2> QED BY <2>1, ConcatEmptySeq
<1>5. ~Quoted(1)
  <2>1. {j \in 1..(1 - 1) : Quote(j)} = {}
    OBVIOUS
  <2>2. Cardinality({}) % 2 # 1
    BY FS_EmptySet
  <2> QED BY <2>1, <2>2 DEF Quoted
<1>6. ~Pair(1 - 1, "-", "-") /\ \A o \in 1..(1 - 1) : FALSE
  BY DEF Pair
<1>7. Between(1)
  BY <1>5, <1>6 DEF Between
<1> QED BY <1>1, <1>2, <1>3, <1>4, <1>7, NothingRead DEF FormAt, Clean, Ends, Fits

\* Where no string or comment begins.
LEMMA BetweenOn ==
    ASSUME ReadInv, NEW i \in 1..(Len(query) + 1), Between(i), NEW l \in i..(Len(query) + 1),
           \A h \in i..(l - 1) : query[h] \notin Quotes /\ ~Opens(h),
           l # i => /\ ~Pair(l - 1, "-", "-")
                    /\ l <= Len(query) /\ query[l - 1] \in Letters => query[l] \notin Digits
    PROVE  Between(l)
<1>1. Len(query) \in Nat
  BY AheadIs
<1>2. CASE l = i
  BY <1>2
<1>3. CASE l # i
  <2>1. ~Quoted(l)
    <3>1. \A h \in i..(l - 1) : ~Quote(h)
      BY DEF Quote
    <3>2. i \in Nat \ {0} /\ l \in Nat /\ i <= l
      BY <1>1
    <3> QED BY <3>1, <3>2, QuotedSame DEF Between
  <2>2. ~Pair(l - 1, "-", "-")
    BY <1>3 DEF Pair
  <2>3. ASSUME NEW o \in 1..(l - 1), Opens(o) PROVE \E c \in (o + 2)..(l - 2) : Closes(c)
    <3>1. o \in 1..(i - 1)
      BY <1>1, <2>3
    <3>2. PICK c \in (o + 2)..(i - 2) : Closes(c)
      BY <2>3, <3>1 DEF Between
    <3>3. c \in (o + 2)..(l - 2)
      BY <1>1, <3>1
    <3> QED BY <3>2, <3>3
  <2> QED BY <1>3, <2>1, <2>2, <2>3 DEF Between
<1> QED BY <1>2, <1>3

\* Whitespace is not in the way.
LEMMA BetweenSpaces ==
    ASSUME ReadInv, NEW q \in 1..(Len(query) + 1), Between(q)
    PROVE  /\ Skip(q, Whitespace) \in q..(Len(query) + 1)
           /\ Skip(q, Whitespace) \in 1..(Len(query) + 1)
           /\ Between(Skip(q, Whitespace))
           /\ Read[Rest(q)] = Read[Rest(Skip(q, Whitespace))]
           /\ Skip(q, Whitespace) <= Len(query) => query[Skip(q, Whitespace)] \notin Whitespace
<1> DEFINE i == Skip(q, Whitespace)
<1>1. Len(query) \in Nat /\ q \in Nat /\ q <= Len(query) + 1
  BY AheadIs
<1>2. /\ i \in q..(Len(query) + 1)
      /\ i <= Len(query) => query[i] \notin Whitespace
      /\ \A h \in q..(i - 1) : query[h] \in Whitespace
  BY <1>1, SkipIs
<1> HIDE DEF i
<1>3. \A h \in q..(i - 1) : query[h] \notin Quotes /\ ~Opens(h)
  BY <1>2 DEF Whitespace, Quotes, Opens, Pair
<1>4. i # q => query[i - 1] \in Whitespace
  <2>1. i # q => i - 1 \in q..(i - 1)
    BY <1>1, <1>2
  <2> QED BY <1>2, <2>1
<1>5. Between(i)
  <2>1. i # q => query[i - 1] # "-" /\ query[i - 1] \notin Letters
    BY <1>4 DEF Whitespace, Letters
  <2> QED BY <1>2, <1>3, <2>1, BetweenOn DEF Pair
<1>6. Read[Rest(q)] = Read[Rest(i)]
  BY <1>2, SpacesRead DEF ReadAlike
<1>7. i \in 1..(Len(query) + 1)
  BY <1>1, <1>2
<1> QED BY <1>2, <1>5, <1>6, <1>7 DEF i

\* The space at the end of a normal form is not read.
LEMMA WithoutSpaceIs ==
    ASSUME out \in Text, Clean(out)
    PROVE  /\ WithoutSpace \in Text /\ Clean(WithoutSpace)
           /\ Read[WithoutSpace] = Read[out]
<1>1. CASE out # <<>> /\ out[Len(out)] = "space"
  <2> DEFINE w == SubSeq(out, 1, Len(out) - 1)
  <2>1. Len(out) \in Nat \ {0} /\ Len(out) - 1 \in 0..Len(out)
    BY <1>1, TailIs
  <2>2. w \in Text /\ Len(w) = Len(out) - 1 /\ \A k \in 1..(Len(out) - 1) : w[k] = out[k]
    BY <2>1, PrefixIs
  <2> HIDE DEF w
  <2>3. Clean(w)
    <3>1. \A k \in 1..Len(w) : k \in 1..Len(out) /\ w[k] = out[k]
      BY <2>1, <2>2
    <3>2. \A k \in 1..Len(w) : k < Len(w) => k < Len(out) /\ w[k + 1] = out[k + 1]
      BY <2>1, <2>2
    <3> QED BY <3>1, <3>2 DEF Clean
  <2>4. /\ w \o <<"space">> \in Text /\ Read[w \o <<"space">>] = Read[w]
        /\ Len(w \o <<"space">>) = Len(out) /\ (w \o <<"space">>)[Len(out)] = "space"
    BY <2>1, <2>2, <2>3, SpaceBehind
  <2>5. \A k \in 1..Len(w) : (w \o <<"space">>)[k] = w[k]
    BY <2>2, SpaceAlone, TwoParts
  <2>6. \A k \in 1..Len(out) : (w \o <<"space">>)[k] = out[k]
    <3>1. \A k \in 1..Len(out) : k \in 1..Len(w) \/ k = Len(out)
      BY <2>1, <2>2
    <3> QED BY <1>1, <2>2, <2>4, <2>5, <3>1
  <2>7. w \o <<"space">> = out
    BY <2>4, <2>6, SameText
  <2>8. WithoutSpace = w
    BY <1>1 DEF WithoutSpace, w
  <2> QED BY <2>2, <2>3, <2>4, <2>7, <2>8
<1>2. CASE ~(out # <<>> /\ out[Len(out)] = "space")
  <2>1. WithoutSpace = out
    BY <1>2 DEF WithoutSpace
  <2> QED BY <2>1
<1> QED BY <1>1, <1>2

\* v may be written for the token t at i.
Writes(v, t, i) ==
    /\ v \in Text /\ v # <<>> /\ Clean(v) /\ Ends(v)
    /\ v[1] \in {"-", "*"} => Char(i) = v[1]
    /\ t.left \in 1..(Len(query) + 1) /\ Between(t.left)
    /\ Read[Rest(i)] = Read[v] \o Read[Rest(t.left)]
    /\ Fits(v, Skip(t.left, Whitespace))
    /\ \/ Written(t) = out \o v
       \/ Written(t) = WithoutSpace \o v /\ v[1] \in {".", "comma"}

LEMMA FormGoesOn ==
    ASSUME ReadInv, FormAt(out, p), NEW i \in 1..(Len(query) + 1), i = Skip(p, Whitespace),
           NEW t, NEW v, Writes(v, t, i)
    PROVE  FormAt(Written(t), t.left)
<1>1. /\ out \in Text /\ Clean(out) /\ Ends(out) /\ Fits(out, i)
      /\ Read[query] = Read[out] \o Read[Rest(p)] /\ Between(p)
  BY DEF FormAt
<1>2. p \in 1..(Len(query) + 1)
  BY DEF ReadInv, NeverBeyond
<1>3. Read[query] = Read[out] \o Read[Rest(i)]
  BY <1>1, <1>2, BetweenSpaces
<1>4. /\ v \in Text /\ v # <<>> /\ Clean(v) /\ Ends(v)
      /\ v[1] \in {"-", "*"} => Char(i) = v[1]
      /\ t.left \in 1..(Len(query) + 1) /\ Between(t.left)
      /\ Read[Rest(i)] = Read[v] \o Read[Rest(t.left)]
      /\ Fits(v, Skip(t.left, Whitespace))
  BY DEF Writes
<1>5. \E b \in Text : /\ Clean(b) /\ Read[b] = Read[out] /\ Apart(b, v)
                      /\ Written(t) = b \o v
  <2>1. CASE Written(t) = out \o v
    <3>1. Apart(out, v)
      <4>1. ASSUME out # <<>> PROVE Splits(out[Len(out)], v[1])
        <5>1. out[Len(out)] \notin WordChars \cup {"|", "&"}
          BY <1>1, <4>1 DEF Ends
        <5>2. out[Len(out)] = "-" => v[1] # "-"
          BY <1>1, <1>4, <4>1 DEF Fits
        <5>3. out[Len(out)] = "/" => v[1] # "*"
          BY <1>1, <1>4, <4>1 DEF Fits
        <5> QED BY <5>1, <5>2, <5>3 DEF Splits
      <4> QED BY <4>1 DEF Apart
    <3> QED BY <1>1, <2>1, <3>1
  <2>2. CASE Written(t) = WithoutSpace \o v /\ v[1] \in {".", "comma"}
    <3>1. Apart(WithoutSpace, v)
      BY <2>2 DEF Apart, Splits, WordChars, Letters, Digits
    <3> QED BY <1>1, <2>2, <3>1, WithoutSpaceIs
  <2> QED BY <2>1, <2>2 DEF Writes
<1>6. PICK b \in Text : /\ Clean(b) /\ Read[b] = Read[out] /\ Apart(b, v)
                        /\ Written(t) = b \o v
  BY <1>5
<1>7. /\ b \o v \in Text /\ Clean(b \o v)
      /\ Read[query] = Read[b \o v] \o Read[Rest(t.left)]
  <2> DEFINE r == Read[Rest(t.left)]
  <2>1. r \in Texts
    <3>1. Rest(t.left) \in Text
      BY <1>4, RestIs
    <3> QED BY <3>1, ReadIs
  <2>2. Read[query] = Read[b] \o (Read[v] \o r)
    BY <1>3, <1>4, <1>6
  <2> HIDE DEF r
  <2>3. b \o v \in Text /\ Clean(b \o v) /\ Read[b] \o (Read[v] \o r) = Read[b \o v] \o r
    BY <1>4, <1>6, <2>1, Appended
  <2> QED BY <2>2, <2>3 DEF r
<1>8. (b \o v)[Len(b \o v)] = v[Len(v)]
  <2>1. /\ Len(v) \in 1..Len(v) /\ Len(b \o v) = Len(b) + Len(v)
    BY <1>4, <1>6, TwoParts, TailIs
  <2> QED BY <1>4, <1>6, <2>1, TwoParts
<1>9. Ends(b \o v) /\ Fits(b \o v, Skip(t.left, Whitespace))
  BY <1>4, <1>8 DEF Ends, Fits
<1> QED BY <1>4, <1>6, <1>7, <1>9 DEF FormAt

\* A text that ends in a space fits whatever is next.
LEMMA SpaceFits ==
    ASSUME NEW v, NEW i, v # <<>> => v[Len(v)] \notin {"-", "/", "|", "&"} \cup WordChars
    PROVE  Ends(v) /\ Fits(v, i)
BY DEF Ends, Fits

LEMMA WrittenTogether ==
    ASSUME NEW a \in Text, NEW b \in Text, NEW c \in Text
    PROVE  (a \o b) \o c = a \o (b \o c)
<1>1. a \in Seq(TextChars) /\ b \in Seq(TextChars) /\ c \in Seq(TextChars)
  BY TextIs
<1> QED BY <1>1, ConcatAssociative

LEMMA WordSlice ==
    ASSUME ReadInv, NEW j \in 1..(Len(query) + 1), NEW e, e = Skip(j, WordChars)
    PROVE  /\ e \in j..(Len(query) + 1)
           /\ e <= Len(query) => query[e] \notin WordChars
           /\ \A h \in j..(e - 1) : query[h] \in WordChars
           /\ Slice(j, e) \in Text /\ Clean(Slice(j, e)) /\ Len(Slice(j, e)) = e - j
           /\ \A k \in 1..Len(Slice(j, e)) : Slice(j, e)[k] \in WordChars
           /\ Read[Rest(j)] = Read[Slice(j, e)] \o Read[Rest(e)]
<1>1. Len(query) \in Nat /\ j \in Nat /\ j <= Len(query) + 1
  BY RestIs
<1>2. /\ e \in j..(Len(query) + 1)
      /\ e <= Len(query) => query[e] \notin WordChars
      /\ \A h \in j..(e - 1) : query[h] \in WordChars
  BY <1>1, SkipIs
<1> DEFINE u == Slice(j, e)
<1>3. u \in Text /\ Len(u) = e - j /\ \A k \in 1..(e - j) : u[k] = query[j + k - 1]
  BY <1>2, SliceIs
<1> HIDE DEF u
<1>4. \A k \in 1..Len(u) : u[k] \in WordChars
  <2>1. \A k \in 1..(e - j) : j + k - 1 \in j..(e - 1)
    BY <1>1, <1>2
  <2> QED BY <1>2, <1>3, <2>1
<1>5. Clean(u)
  BY <1>4 DEF Clean, WordChars, Letters, Digits, Quotes
<1>6. Apart(u, Rest(e))
  <2> SUFFICES ASSUME u # <<>>, Rest(e) # <<>> PROVE Splits(u[Len(u)], Rest(e)[1])
    BY DEF Apart
  <2>1. u[Len(u)] \in WordChars
    <3>1. Len(u) \in 1..Len(u)
      BY <1>3, TailIs
    <3> QED BY <1>4, <3>1
  <2>2. Rest(e)[1] \notin WordChars
    <3>1. e \in 1..(Len(query) + 1)
      BY <1>1, <1>2
    <3>2. e # Len(query) + 1 /\ (e <= Len(query) => Rest(e)[1] = query[e])
      BY <3>1, RestAt
    <3> QED BY <1>1, <1>2, <3>1, <3>2
  <2> QED BY <2>1, <2>2 DEF Splits, WordChars, Letters, Digits
<1>7. Read[Rest(j)] = Read[u] \o Read[Rest(e)]
  BY <1>2, <1>5, <1>6, SliceRead DEF u
<1> QED BY <1>2, <1>3, <1>4, <1>5, <1>7 DEF u

LEMMA TickSkipped ==
    ASSUME ReadInv, NEW i \in 1..Len(query), query[i] = "tick"
    PROVE  Read[Rest(i)] = Read[Rest(i + 1)]
<1> DEFINE s == Rest(i)
<1>1. s # <<>> /\ s[1] = "tick" /\ Tail(s) = Rest(i + 1)
  BY RestFirst
<1>2. s \in Text
  <2>1. i \in 1..(Len(query) + 1)
    BY AheadIs
  <2> QED BY <2>1, RestIs
<1> HIDE DEF s
<1>3. ~LineComment(s) /\ ~Begins(s, "/", "*") /\ ~Doubled(s)
  BY <1>1 DEF LineComment, Begins, Doubled
<1>4. Reading(Read, s) = Read[Tail(s)]
  BY <1>1, <1>3 DEF Reading, Whitespace, Quotes, WordChars, Letters, Digits
<1> QED BY <1>1, <1>2, <1>4, ReadIs DEF s

\* A word, with ` around it or not, is written with a space.
LEMMA WordWritten ==
    ASSUME ReadInv, job = "normalize", out \in Text, NEW i \in 1..(Len(query) + 1), Between(i)
    PROVE  \E v : Writes(v, WordToken(i), i)
<1>1. Len(query) \in Nat /\ AllWhole
  BY AheadIs DEF ReadInv, Whole, AllWhole
<1> DEFINE ticked == Char(i) = "tick"
           from == IF ticked THEN i + 1 ELSE i
           e == Skip(from, WordChars)
           w == Slice(from, e)
           skipped == ticked /\ w \notin Keywords /\ Char(e) = "tick"
           l == IF skipped THEN e + 1 ELSE e
           t == WordToken(i)
           v == w \o <<"space">>
<1>2. t = Token("word", w, l)
  BY <1>1, WordTokenIs
<1>3. t.kind = "word" /\ t.value = w /\ t.left = l
  BY <1>2 DEF Token
<1>4. ticked => i \in 1..Len(query) /\ query[i] = "tick"
  BY <1>1 DEF Char
<1>5. from \in 1..(Len(query) + 1) /\ from \in i..(i + 1) /\ Read[Rest(i)] = Read[Rest(from)]
  BY <1>1, <1>4, TickSkipped
<1>6. /\ e \in from..(Len(query) + 1)
      /\ e <= Len(query) => query[e] \notin WordChars
      /\ \A h \in from..(e - 1) : query[h] \in WordChars
      /\ w \in Text /\ Clean(w) /\ Len(w) = e - from
      /\ \A k \in 1..Len(w) : w[k] \in WordChars
      /\ Read[Rest(from)] = Read[w] \o Read[Rest(e)]
  <2> HIDE DEF from
  <2>1. from \in 1..(Len(query) + 1)
    BY <1>5
  <2> QED BY <2>1, WordSlice
<1> HIDE DEF from, w, e, t
<1>7. skipped => e \in 1..Len(query) /\ query[e] = "tick" /\ e >= i + 1
  <2>1. skipped => e <= Len(query)
    <3>1. "none" # "tick"
      OBVIOUS
    <3> QED BY <3>1 DEF Char
  <2>2. skipped => from = i + 1
    BY DEF from
  <2> QED BY <1>1, <1>5, <1>6, <2>1, <2>2 DEF Char
<1>8. l \in 1..(Len(query) + 1) /\ l \in i..(Len(query) + 1) /\ Read[Rest(e)] = Read[Rest(l)]
  BY <1>1, <1>5, <1>6, <1>7, TickSkipped
<1>9. v \in Text /\ v # <<>> /\ Clean(v) /\ Read[v] = Read[w] /\ Len(v) = Len(w) + 1 /\ v[Len(w) + 1] = "space"
  <2>1. /\ v \in Text /\ Clean(v) /\ Read[v] = Read[w] /\ Len(v) = Len(w) + 1 /\ v[Len(w) + 1] = "space"
    BY <1>6, SpaceBehind
  <2>2. Len(w) \in Nat
    BY <1>6, TextIsEmpty
  <2> HIDE DEF v
  <2>3. v # <<>>
    BY <2>1, <2>2, TextIsEmpty
  <2> QED BY <2>1, <2>3
<1>10. v[1] \notin {"-", "*"}
  <2>1. CASE Len(w) = 0
    BY <1>9, <2>1
  <2>2. CASE Len(w) # 0
    <3>1. 1 \in 1..Len(w)
      BY <1>1, <1>5, <1>6, <2>2
    <3>2. v[1] = w[1]
      BY <1>6, <3>1, SpaceAlone, TwoParts
    <3> QED BY <1>6, <3>1, <3>2 DEF WordChars, Letters, Digits
  <2> QED BY <2>1, <2>2
<1>11. Written(t) = out \o v
  <2>1. Written(t) = Append(out \o w, "space")
    BY <1>3 DEF Written
  <2>2. out \o w \in Text /\ "space" \in TextChars
    BY <1>6, TwoParts DEF TextChars, Whitespace
  <2>3. Append(out \o w, "space") = (out \o w) \o <<"space">>
    BY <2>2, OneCharacterMore
  <2>4. (out \o w) \o <<"space">> = out \o (w \o <<"space">>)
    BY <1>6, SpaceAlone, WrittenTogether
  <2> QED BY <2>1, <2>3, <2>4
<1>12. Between(l)
  <2>1. \A h \in i..(l - 1) : query[h] = "tick" \/ query[h] \in WordChars
    <3> SUFFICES ASSUME NEW h \in i..(l - 1) PROVE query[h] = "tick" \/ query[h] \in WordChars
      OBVIOUS
    <3>1. CASE h \in from..(e - 1)
      BY <1>6, <3>1
    <3>2. CASE h < from
      BY <1>1, <1>4, <1>5, <3>2 DEF from
    <3>3. CASE h > e - 1
      BY <1>1, <1>5, <1>6, <1>7, <3>3
    <3> QED BY <1>1, <1>5, <1>6, <3>1, <3>2, <3>3
  <2>2. \A h \in i..(l - 1) : query[h] \notin Quotes /\ ~Opens(h) /\ ~Pair(h, "-", "-")
    BY <2>1 DEF WordChars, Letters, Digits, Quotes, Opens, Pair
  <2>3. l # i => l - 1 \in i..(l - 1)
    BY <1>1, <1>8
  <2>4. l # i /\ l <= Len(query) /\ query[l - 1] \in Letters => query[l] \notin Digits
    <3> SUFFICES ASSUME l # i, l <= Len(query), query[l - 1] \in Letters PROVE query[l] \notin Digits
      OBVIOUS
    <3>1. query[l - 1] # "tick"
      BY DEF Letters
    <3>2. ~skipped
      BY <1>1, <1>5, <1>6, <1>7, <3>1
    <3> QED BY <1>6, <3>2 DEF WordChars
  <2> HIDE DEF l
  <2> QED BY <1>8, <2>2, <2>3, <2>4, BetweenOn
<1>13. Read[Rest(i)] = Read[v] \o Read[Rest(l)]
  BY <1>5, <1>6, <1>8, <1>9
<1>14. Ends(v) /\ Fits(v, Skip(l, Whitespace))
  <2> HIDE DEF v, l
  <2>1. v[Len(v)] = "space"
    BY <1>9
  <2> QED BY <2>1, SpaceFits DEF WordChars, Letters, Digits
<1> HIDE DEF v, l
<1>15. Writes(v, t, i)
  BY <1>3, <1>8, <1>9, <1>10, <1>11, <1>12, <1>13, <1>14 DEF Writes
<1> QED BY <1>15 DEF t

\* A literal is written as a question mark and a space.
LEMMA Literal ==
    /\ <<"?", "space">> \in Text /\ <<"?", "space">> # <<>> /\ Clean(<<"?", "space">>)
    /\ Read[<<"?", "space">>] = <<<<"?">>>>
    /\ <<"?", "space">>[1] = "?"
    /\ \A i : Ends(<<"?", "space">>) /\ Fits(<<"?", "space">>, i)
<1> DEFINE v == <<"?", "space">>
<1>1. Single("?") /\ "?" \in TextChars \ Quotes
  BY DEF Single, TextChars, Punctuation, Whitespace, Quotes, WordChars, Letters, Digits
<1>2. <<"?">> \in Text /\ Clean(<<"?">>) /\ Read[<<"?">>] = <<<<"?">>>>
  BY <1>1, OneIs, SingleRead
<1>3. v = Append(<<"?">>, "space")
  OBVIOUS
<1>4. /\ v \in Text /\ Clean(v) /\ Read[v] = <<<<"?">>>>
  BY <1>2, <1>3, SpaceBehind
<1>5. Len(v) = 2 /\ v[1] = "?" /\ v[2] = "space"
  OBVIOUS
<1> HIDE DEF v
<1>6. v # <<>>
  BY <1>4, <1>5, TextIsEmpty
<1>7. \A i : Ends(v) /\ Fits(v, i)
  BY <1>5, SpaceFits DEF WordChars, Letters, Digits
<1> QED BY <1>4, <1>5, <1>6, <1>7 DEF v

\* A number ends where its digits do.
LEMMA NumberIs ==
    ASSUME ReadInv, PlainForm, NEW i \in 1..Len(query), Between(i), query[i] \in Digits,
           NEW e, e = Skip(i, Digits \cup {"."})
    PROVE  /\ e \in (i + 1)..(Len(query) + 1)
           /\ \A h \in i..(e - 1) : query[h] \in Digits
           /\ e <= Len(query) => query[e] \notin WordChars
<1>1. Len(query) \in Nat /\ i \in Nat /\ i <= Len(query) + 1
  BY AheadIs
<1>2. /\ e \in i..(Len(query) + 1)
      /\ e <= Len(query) => query[e] \notin Digits \cup {"."}
      /\ \A h \in i..(e - 1) : query[h] \in Digits \cup {"."}
  BY <1>1, SkipIs
<1>3. e \in (i + 1)..(Len(query) + 1)
  <2>1. e # i
    BY <1>1, <1>2
  <2> QED BY <1>1, <1>2, <2>1
<1>4. ASSUME NEW h \in (i + 1)..Len(query), \A k \in i..(h - 1) : query[k] \in Digits
      PROVE  query[h] \notin Letters \cup {"."}
  <2> SUFFICES ASSUME query[h] \in Letters \cup {"."} PROVE FALSE
    OBVIOUS
  <2>1. h - 1 \in 1..(Len(query) - 1) /\ (h - 1) + 1 = h /\ h - 1 \in i..(h - 1)
    BY <1>1
  <2>2. h - 1 > 1 /\ query[(h - 1) - 1] \in Letters
    BY <1>4, <2>1 DEF PlainForm, NumbersApart
  <2>3. CASE h - 1 = i
    BY <1>1, <2>2, <2>3 DEF Between
  <2>4. CASE h - 1 # i
    <3>1. (h - 1) - 1 \in i..(h - 1)
      BY <1>1, <2>4
    <3> QED BY <1>4, <2>2, <3>1 DEF Letters, Digits
  <2> QED BY <2>3, <2>4
<1>5. \A h \in i..(e - 1) : query[h] \in Digits
  <2> DEFINE Bad == {h \in Nat : h \in i..(e - 1) /\ query[h] \notin Digits}
  <2> SUFFICES ASSUME Bad # {} PROVE FALSE
    <3>1. \A h \in i..(e - 1) : h \in Nat
      BY <1>1, <1>2
    <3> QED BY <3>1
  <2>1. PICK h \in Bad : \A k \in Bad : h <= k
    <3>1. Bad \in SUBSET Nat
      OBVIOUS
    <3> HIDE DEF Bad
    <3> QED BY <3>1, LeastIs
  <2>2. h \in i..(e - 1) /\ query[h] = "."
    BY <1>2, <2>1
  <2>3. h \in (i + 1)..Len(query)
    <3>1. h # i
      BY <2>1
    <3> QED BY <1>1, <1>2, <2>2, <3>1
  <2>4. \A k \in i..(h - 1) : query[k] \in Digits
    <3> SUFFICES ASSUME NEW k \in i..(h - 1), query[k] \notin Digits PROVE FALSE
      OBVIOUS
    <3>1. k \in Nat /\ k \in i..(e - 1) /\ h \in Nat /\ ~(h <= k)
      BY <1>1, <1>2, <2>2
    <3>2. k \in Bad
      BY <3>1
    <3> QED BY <2>1, <3>1, <3>2
  <2> QED BY <1>4, <2>2, <2>3, <2>4
<1>6. e <= Len(query) => query[e] \notin Letters
  <2>1. e <= Len(query) => e \in (i + 1)..Len(query)
    BY <1>1, <1>3
  <2> QED BY <1>4, <1>5, <2>1
<1> QED BY <1>2, <1>3, <1>5, <1>6 DEF WordChars

LEMMA NumberWritten ==
    ASSUME ReadInv, PlainForm, NEW i \in 1..Len(query), Between(i), query[i] \in Digits
    PROVE  \E v : Writes(v, NumberToken(i), i)
<1> DEFINE e == Skip(i, Digits \cup {"."})
           u == Slice(i, e)
           t == NumberToken(i)
           v == <<"?", "space">>
<1>1. Len(query) \in Nat /\ i \in 1..(Len(query) + 1)
  BY AheadIs
<1>2. /\ e \in (i + 1)..(Len(query) + 1)
      /\ \A h \in i..(e - 1) : query[h] \in Digits
      /\ e <= Len(query) => query[e] \notin WordChars
  BY NumberIs
<1>3. t.kind = "number" /\ t.left = e
  BY DEF NumberToken, Token
<1> HIDE DEF e, t
<1>4. e \in i..(Len(query) + 1) /\ e \in 1..(Len(query) + 1) /\ e # i /\ e - 1 \in i..(e - 1)
  BY <1>1, <1>2
<1>5. /\ u \in Text /\ Len(u) = e - i /\ \A k \in 1..Len(u) : u[k] \in Digits
  <2>1. u \in Text /\ Len(u) = e - i /\ \A k \in 1..(e - i) : u[k] = query[i + k - 1]
    BY <1>1, <1>4, SliceIs
  <2>2. \A k \in 1..(e - i) : i + k - 1 \in i..(e - 1)
    BY <1>1, <1>4
  <2> QED BY <1>2, <2>1, <2>2
<1>6. u # <<>>
  BY <1>1, <1>2, <1>5, TextIsEmpty
<1> HIDE DEF u
<1>7. Read[u] = <<<<"?">>>>
  BY <1>5, <1>6, DigitsRead
<1>8. Clean(u)
  BY <1>5 DEF Clean, Digits, Quotes
<1>9. Apart(u, Rest(e))
  <2> SUFFICES ASSUME Rest(e) # <<>> PROVE Splits(u[Len(u)], Rest(e)[1])
    BY DEF Apart
  <2>1. u[Len(u)] \in Digits
    <3>1. Len(u) \in 1..Len(u)
      BY <1>5, <1>6, TailIs
    <3> QED BY <1>5, <3>1
  <2>2. e # Len(query) + 1 /\ (e <= Len(query) => Rest(e)[1] = query[e])
    BY <1>4, RestAt
  <2> QED BY <1>1, <1>2, <1>4, <2>1, <2>2 DEF Splits, Digits
<1>10. Read[Rest(i)] = Read[u] \o Read[Rest(e)]
  BY <1>1, <1>4, <1>8, <1>9, SliceRead DEF u
<1>11. Between(e)
  <2>1. \A h \in i..(e - 1) : query[h] \notin Quotes /\ ~Opens(h) /\ ~Pair(h, "-", "-")
    BY <1>2 DEF Digits, Quotes, Opens, Pair
  <2>2. query[e - 1] \notin Letters
    BY <1>2, <1>4 DEF Letters, Digits
  <2> QED BY <1>1, <1>4, <2>1, <2>2, BetweenOn
<1>12. Written(t) = out \o v
  BY <1>3 DEF Written
<1> HIDE DEF v
<1>13. /\ v \in Text /\ v # <<>> /\ Clean(v) /\ Read[v] = <<<<"?">>>> /\ v[1] = "?"
       /\ \A k : Ends(v) /\ Fits(v, k)
  BY Literal DEF v
<1>14. Writes(v, t, i)
  BY <1>3, <1>4, <1>7, <1>10, <1>11, <1>12, <1>13 DEF Writes
<1> QED BY <1>14 DEF t

\* The first of the positions from i on at which the string that began at b ends.
StringStops(b, j) == query[j] = query[b] /\ query[j - 1] # "\\"

StringStop(b) == Find(b + 1, LAMBDA j : query[j] = query[b] /\ query[j - 1] # "\\")

LEMMA StringStopIs ==
    ASSUME Len(query) \in Nat, NEW b \in 1..Len(query)
    PROVE  /\ StringStop(b) \in (b + 1)..(Len(query) + 1)
           /\ StringStop(b) <= Len(query) => StringStops(b, StringStop(b))
           /\ \A h \in (b + 1)..(StringStop(b) - 1) : ~StringStops(b, h)
<1> DEFINE S == {j \in Nat : StringStops(b, j)}
           First(j) == /\ j > Len(query) \/ (query[j] = query[b] /\ query[j - 1] # "\\")
                       /\ \A h \in (b + 1)..(j - 1) : ~(query[h] = query[b] /\ query[h - 1] # "\\")
<1>1. \E j \in (b + 1)..(Len(query) + 1) : First(j)
  <2> HIDE DEF S
  <2>1. PICK j \in (b + 1)..(Len(query) + 1) :
               (j > Len(query) \/ j \in S) /\ \A h \in (b + 1)..(j - 1) : h \notin S
    <3>1. b + 1 \in Nat /\ b + 1 <= Len(query) + 1
      OBVIOUS
    <3> QED BY <3>1, FirstIs
  <2>2. \A h \in (b + 1)..(j - 1) : h \in Nat
    OBVIOUS
  <2> QED BY <2>1, <2>2 DEF S, StringStops
<1>2. StringStop(b) = CHOOSE j \in (b + 1)..(Len(query) + 1) : First(j)
  BY DEF StringStop, Find
<1>3. StringStop(b) \in (b + 1)..(Len(query) + 1) /\ First(StringStop(b))
  BY <1>1, <1>2
<1> QED BY <1>3 DEF StringStops

\* A string ends where the code and the server see its end.
LEMMA StringRead ==
    ASSUME ReadInv, NEW i \in 1..Len(query), query[i] \in Quotes,
           NEW e \in (i + 1)..Len(query), StringStops(i, e),
           \A h \in (i + 1)..(e - 1) : ~StringStops(i, h)
    PROVE  Read[Rest(i)] = <<<<"?">>>> \o Read[Rest(e + 1)]
<1> DEFINE s == Rest(i)
<1>1. Len(query) \in Nat /\ i \in 1..(Len(query) + 1) /\ e \in 1..(Len(query) + 1)
  BY AheadIs
<1>2. /\ s \in Text /\ s # <<>> /\ s[1] = query[i] /\ Len(s) = Len(query) - i + 1
      /\ \A k \in 1..(Len(query) - i + 1) : s[k] = query[i + k - 1]
  BY <1>1, RestIs, RestFirst
<1> HIDE DEF s
<1>3. PICK k \in 1..(Len(s) + 1) :
         /\ StringEnd(s) = Suffix(s, k)
         /\ k <= Len(s) => (k > 1 /\ s[k] = s[1] /\ s[k - 1] # "\\")
         /\ \A j \in 1..(k - 1) : ~(j > 1 /\ s[j] = s[1] /\ s[j - 1] # "\\")
  BY <1>2, StringEndIs
<1>4. \A j \in 2..Len(s) :
         (j > 1 /\ s[j] = s[1] /\ s[j - 1] # "\\") <=> StringStops(i, i + j - 1)
  <2> SUFFICES ASSUME NEW j \in 2..Len(s)
               PROVE  (j > 1 /\ s[j] = s[1] /\ s[j - 1] # "\\") <=> StringStops(i, i + j - 1)
    OBVIOUS
  <2>1. /\ j \in 1..(Len(query) - i + 1) /\ j - 1 \in 1..(Len(query) - i + 1) /\ j > 1
        /\ i + (j - 1) - 1 = (i + j - 1) - 1
    BY <1>1, <1>2
  <2>2. s[j] = query[i + j - 1] /\ s[j - 1] = query[(i + j - 1) - 1]
    BY <1>2, <2>1
  <2> QED BY <1>2, <2>1, <2>2 DEF StringStops
<1>5. k = e - i + 1
  <2>1. e - i + 1 \in 2..Len(s) /\ i + (e - i + 1) - 1 = e
    BY <1>1, <1>2
  <2>2. ~(e - i + 1 \in 1..(k - 1))
    BY <1>3, <1>4, <2>1
  <2>3. ~(k < e - i + 1)
    <3> SUFFICES ASSUME k < e - i + 1 PROVE FALSE
      OBVIOUS
    <3>1. k <= Len(s)
      BY <1>1, <1>2, <2>1
    <3>2. k \in 2..Len(s) /\ i + k - 1 \in (i + 1)..(e - 1)
      BY <1>1, <1>2, <1>3, <3>1
    <3> QED BY <1>3, <1>4, <3>1, <3>2
  <2> QED BY <1>1, <1>2, <2>1, <2>2, <2>3
<1>6. Drop(StringEnd(s), 1) = Rest(e + 1)
  <2>1. k \in 1..(Len(query) - i + 2) /\ i + k - 1 = e /\ 1 \in 0..(Len(query) - e + 1)
    BY <1>1, <1>2, <1>5
  <2>2. Suffix(Rest(i), k) = Rest(i + k - 1)
    BY <1>1, <2>1, RestOfRest
  <2>3. Drop(Rest(e), 1) = Rest(e + 1)
    BY <1>1, <2>1, RestDrop
  <2> QED BY <1>3, <2>1, <2>2, <2>3 DEF s
<1>7. ~LineComment(s) /\ ~Begins(s, "/", "*") /\ ~Doubled(s)
  BY <1>2 DEF LineComment, Begins, Doubled, Quotes
<1>8. Reading(Read, s) = <<<<"?">>>> \o Read[Drop(StringEnd(s), 1)]
  BY <1>2, <1>7 DEF Reading, Whitespace, Quotes, WordChars, Letters, Digits
<1> QED BY <1>2, <1>6, <1>8, ReadIs DEF s

\* A string that begins at i ends, and no comment is open behind it.
LEMMA StringCloses ==
    ASSUME ReadInv, PlainForm, NEW i \in 1..Len(query), Between(i), query[i] \in Quotes
    PROVE  /\ StringStop(i) \in (i + 1)..Len(query)
           /\ Between(StringStop(i) + 1)
<1> DEFINE e == StringStop(i)
<1>1. Len(query) \in Nat /\ Len(query) + 1 \in Nat
  BY AheadIs
<1>2. /\ e \in (i + 1)..(Len(query) + 1)
      /\ e <= Len(query) => StringStops(i, e)
      /\ \A h \in (i + 1)..(e - 1) : ~StringStops(i, h)
  BY <1>1, StringStopIs
<1> HIDE DEF e
<1>3. Quoted(i + 1)
  <2>1. ~Quoted(i) /\ i \in Nat \ {0}
    BY <1>1 DEF Between
  <2>2. i > 1 => query[i - 1] # "\\"
    <3> SUFFICES ASSUME i > 1, query[i - 1] = "\\" PROVE FALSE
      OBVIOUS
    <3>1. i - 1 \in 1..Len(query) /\ i - 1 \in Nat \ {0} /\ (i - 1) + 1 = i
      BY <1>1
    <3>2. Quoted(i - 1)
      BY <3>1 DEF PlainForm, StringsPlain
    <3>3. ~Quote(i - 1)
      BY DEF Quote, Quotes
    <3> QED BY <2>1, <3>1, <3>2, <3>3, QuoteTurns
  <2>3. Quote(i)
    BY <2>2 DEF Quote
  <2> QED BY <2>1, <2>3, QuoteTurns
<1>4. \A h \in (i + 1)..Len(query) : Quote(h) <=> StringStops(i, h)
  <2> SUFFICES ASSUME NEW h \in (i + 1)..Len(query) PROVE Quote(h) <=> StringStops(i, h)
    OBVIOUS
  <2>1. h > 1
    BY <1>1
  <2>2. query[h] \in Quotes <=> query[h] = query[i]
    BY DEF Quotes
  <2> QED BY <2>1, <2>2 DEF Quote, StringStops
<1>5. Quoted(e)
  <2>1. \A h \in (i + 1)..(e - 1) : ~Quote(h)
    <3>1. \A h \in (i + 1)..(e - 1) : h \in (i + 1)..Len(query)
      BY <1>1, <1>2
    <3> QED BY <1>2, <1>4, <3>1
  <2>2. i + 1 \in Nat \ {0} /\ e \in Nat /\ i + 1 <= e
    BY <1>1, <1>2
  <2> QED BY <1>3, <2>1, <2>2, QuotedSame
<1>6. e \in (i + 1)..Len(query)
  <2>1. e # Len(query) + 1
    BY <1>5 DEF PlainForm, StringsPlain
  <2> QED BY <1>1, <1>2, <2>1
<1>7. Quote(e) /\ query[e] \in Quotes
  <2>1. e <= Len(query)
    BY <1>1, <1>6
  <2> QED BY <1>2, <1>4, <1>6, <2>1 DEF Quote
<1>8. ~Quoted(e + 1)
  <2>1. e \in Nat \ {0}
    BY <1>1, <1>6
  <2> QED BY <1>5, <1>7, <2>1, QuoteTurns
<1>9. (e + 1) - 1 = e /\ (e + 1) - 2 = e - 1
  BY <1>1, <1>6
<1>10. ~Pair(e, "-", "-") /\ query[e] \notin Letters
  BY <1>7 DEF Quotes, Letters, Pair
<1>11. ASSUME NEW o \in 1..e, Opens(o) PROVE \E c \in (o + 2)..(e - 1) : Closes(c)
  <2>1. o # e
    BY <1>7, <1>11 DEF Opens, Pair, Quotes
  <2>2. o \in 1..Len(query) /\ e \in 1..Len(query) /\ o < e
    BY <1>1, <1>6, <2>1
  <2> QED BY <1>7, <1>11, <2>2 DEF PlainForm, CommentsAside
<1>12. Between(e + 1)
  BY <1>8, <1>9, <1>10, <1>11 DEF Between
<1> QED BY <1>6, <1>12 DEF e

LEMMA StringWritten ==
    ASSUME ReadInv, PlainForm, NEW i \in 1..Len(query), Between(i), query[i] \in Quotes
    PROVE  /\ StringToken(i).kind # "no_more"
           /\ \E v : Writes(v, StringToken(i), i)
<1> DEFINE e == StringStop(i)
           t == StringToken(i)
           v == <<"?", "space">>
<1>1. Len(query) \in Nat
  BY AheadIs
<1>2. e \in (i + 1)..Len(query) /\ Between(e + 1)
  BY StringCloses
<1>3. StringStops(i, e) /\ \A h \in (i + 1)..(e - 1) : ~StringStops(i, h)
  <2>1. e <= Len(query)
    BY <1>1, <1>2
  <2> QED BY <1>1, <2>1, StringStopIs
<1>4. t = Token("string", <<>>, e + 1)
  <2>1. t = CASE i = Len(query) -> Token("no_more", <<>>, i + 1)
              [] i < Len(query) /\ e > Len(query) -> Token("string", <<>>, e)
              [] OTHER -> Token("string", <<>>, e + 1)
    BY DEF StringToken, StringStop
  <2>2. i # Len(query) /\ ~(e > Len(query))
    <3> HIDE DEF e
    <3> QED BY <1>1, <1>2
  <2> HIDE DEF e, t
  <2> QED BY <2>1, <2>2
<1> HIDE DEF e, t
<1>5. t.kind = "string" /\ t.left = e + 1
  BY <1>4 DEF Token
<1>6. Read[Rest(i)] = <<<<"?">>>> \o Read[Rest(e + 1)]
  BY <1>2, <1>3, StringRead
<1>7. Written(t) = out \o v
  BY <1>5 DEF Written
<1> HIDE DEF v
<1>8. /\ v \in Text /\ v # <<>> /\ Clean(v) /\ Read[v] = <<<<"?">>>> /\ v[1] = "?"
       /\ \A k : Ends(v) /\ Fits(v, k)
  BY Literal DEF v
<1>9. e + 1 \in 1..(Len(query) + 1)
  BY <1>1, <1>2
<1>10. Writes(v, t, i)
  BY <1>2, <1>5, <1>6, <1>7, <1>8, <1>9 DEF Writes
<1> QED BY <1>5, <1>10 DEF t

LEMMA SingleRest ==
    ASSUME ReadInv, NEW i \in 1..Len(query), Single(query[i]), ~Opens(i), ~Pair(i, "-", "-"),
           ~Pair(i, "|", "|"), ~Pair(i, "&", "&")
    PROVE  Read[Rest(i)] = <<<<query[i]>>>> \o Read[Rest(i + 1)]
<1> DEFINE s == Rest(i)
<1>1. i \in 1..(Len(query) + 1)
  BY AheadIs
<1>2. s \in Text /\ s # <<>> /\ s[1] = query[i] /\ Tail(s) = Rest(i + 1)
  BY <1>1, RestIs, RestFirst
<1>3. ~Begins(s, "/", "*") /\ ~Begins(s, "-", "-") /\ ~Begins(s, "|", "|") /\ ~Begins(s, "&", "&")
  BY <1>1, PairIs DEF Opens
<1> HIDE DEF s
<1>4. ~LineComment(s) /\ ~Doubled(s)
  BY <1>3 DEF LineComment, Doubled
<1> QED BY <1>2, <1>3, <1>4, FirstRead DEF s

\* No comment ends right before such a place.
LEMMA NothingCloses ==
    ASSUME ReadInv, PlainForm, NEW i \in 1..(Len(query) + 1), Between(i)
    PROVE  ~Closes(i - 1)
<1> SUFFICES ASSUME Closes(i - 1) PROVE FALSE
  OBVIOUS
<1>1. i - 1 \in 1..Len(query) /\ Len(query) \in Nat
  BY AheadIs DEF Closes, Pair
<1>2. PICK o \in 1..((i - 1) - 2) : Opens(o) /\ \A c \in (o + 2)..((i - 1) - 1) : ~Closes(c)
  BY <1>1 DEF PlainForm, CommentsAside
<1>3. o \in 1..(i - 1)
  BY <1>1
<1>4. PICK c \in (o + 2)..(i - 2) : Closes(c)
  BY <1>2, <1>3 DEF Between
<1>5. c \in (o + 2)..((i - 1) - 1)
  BY <1>1
<1> QED BY <1>2, <1>4, <1>5

\* What comes after a minus or a slash.
LEMMA OperatorFits ==
    ASSUME ReadInv, PlainForm, NEW i \in 1..Len(query), Between(i), ~Opens(i), ~Pair(i, "-", "-")
    PROVE  Fits(<<query[i]>>, Skip(i + 1, Whitespace))
<1> DEFINE j == Skip(i + 1, Whitespace)
           c == query[i]
           v == <<query[i]>>
<1>1. Len(query) \in Nat /\ i + 1 \in Nat /\ i + 1 <= Len(query) + 1 /\ i \in 1..(Len(query) + 1)
  BY AheadIs
<1>2. j \in (i + 1)..(Len(query) + 1) /\ \A h \in (i + 1)..(j - 1) : query[h] \in Whitespace
  BY <1>1, SkipIs
<1>3. Len(v) = 1 /\ v[1] = c
  OBVIOUS
<1> SUFFICES Fits(v, j)
  OBVIOUS
<1> HIDE DEF j, v, c
<1>4. CASE j > Len(query)
  <2>1. Char(j) = "none" /\ ~Opens(j) /\ ~Pair(j, "-", "-")
    BY <1>1, <1>2, <1>4 DEF Char, Opens, Pair
  <2>2. Char(j) # "-" /\ Char(j) # "*"
    BY <2>1
  <2> QED BY <2>1, <2>2 DEF Fits
<1>5. CASE j <= Len(query)
  <2>1. j \in 1..Len(query) /\ i < j /\ Char(j) = query[j]
    BY <1>1, <1>2, <1>5 DEF Char
  <2>2. c = "-" => Char(j) # "-" /\ ~Opens(j)
    <3>1. ~Pair(i - 1, "-", "-")
      BY DEF Between
    <3> QED BY <1>2, <2>1, <3>1 DEF PlainForm, OperatorsApart, c
  <2>3. c = "/" => Char(j) # "*" /\ ~Opens(j) /\ ~Pair(j, "-", "-")
    <3>1. ~Closes(i - 1)
      BY <1>1, NothingCloses
    <3> QED BY <1>2, <2>1, <3>1 DEF PlainForm, OperatorsApart, c
  <2> QED BY <1>3, <2>2, <2>3 DEF Fits
<1> QED BY <1>1, <1>2, <1>4, <1>5

\* A character on its own is written as it is, or with a space.
LEMMA SingleWritten ==
    ASSUME ReadInv, PlainForm, NEW i \in 1..Len(query), Between(i), ~Opens(i), ~Pair(i, "-", "-"),
           ~Pair(i, "|", "|"), ~Pair(i, "&", "&"), Single(query[i]),
           NEW t, t.left = i + 1,
           NEW v, \/ v = <<query[i]>> /\ query[i] \notin {"|", "&"}
                  \/ v = Append(<<query[i]>>, "space"),
           \/ Written(t) = out \o v
           \/ Written(t) = WithoutSpace \o v /\ query[i] \in {".", "comma"}
    PROVE  Writes(v, t, i)
<1> DEFINE c == query[i]
<1>1. Len(query) \in Nat /\ i + 1 \in 1..(Len(query) + 1) /\ i + 1 \in i..(Len(query) + 1)
      /\ i \in 1..(Len(query) + 1) /\ (i + 1) - 1 = i /\ Char(i) = c
  BY AheadIs DEF Char
<1>2. Read[Rest(i)] = <<<<c>>>> \o Read[Rest(i + 1)]
  BY SingleRest
<1>3. c \in TextChars /\ c \notin Quotes /\ c \notin WordChars
  BY DEF Single
<1>4. <<c>> \in Text /\ <<c>> # <<>> /\ Len(<<c>>) = 1 /\ <<c>>[1] = c /\ Clean(<<c>>) /\ Read[<<c>>] = <<<<c>>>>
  BY <1>3, OneIs, SingleRead
<1>5. Between(i + 1)
  <2>1. \A h \in i..((i + 1) - 1) : query[h] \notin Quotes /\ ~Opens(h)
    <3>1. \A h \in i..((i + 1) - 1) : h = i
      BY <1>1
    <3> QED BY <1>3, <3>1
  <2>2. c \notin Letters
    BY <1>3 DEF WordChars
  <2> QED BY <1>1, <2>1, <2>2, BetweenOn
<1>6. CASE v = <<c>> /\ c \notin {"|", "&"}
  <2>1. Ends(v)
    <3> HIDE DEF c
    <3> QED BY <1>3, <1>4, <1>6 DEF Ends
  <2>2. Fits(v, Skip(i + 1, Whitespace))
    BY <1>6, OperatorFits
  <2>3. v \in Text /\ v # <<>> /\ v[1] = c /\ Clean(v) /\ Read[v] = <<<<c>>>>
    BY <1>4, <1>6
  <2> HIDE DEF c
  <2> QED BY <1>1, <1>2, <1>5, <2>1, <2>2, <2>3 DEF Writes, c
<1>7. CASE v = Append(<<c>>, "space")
  <2> DEFINE b == <<c>>
  <2>1. b \in Text /\ Len(b) = 1 /\ b[1] = c /\ Clean(b) /\ Read[b] = <<<<c>>>> /\ v = Append(b, "space")
    BY <1>4, <1>7
  <2> HIDE DEF b, c
  <2>2. /\ v = b \o <<"space">> /\ v \in Text /\ Clean(v) /\ Read[v] = <<<<c>>>>
        /\ Len(v) = 2 /\ v[2] = "space"
    <3> DEFINE w == b \o <<"space">>
    <3>1. /\ w \in Text /\ Clean(w) /\ Read[w] = Read[b]
          /\ Append(b, "space") = w
          /\ Len(w) = Len(b) + 1 /\ w[Len(b) + 1] = "space"
      BY <2>1, SpaceBehind
    <3>2. Len(b) + 1 = 2
      BY <2>1
    <3> HIDE DEF w
    <3>3. v = w
      BY <2>1, <3>1
    <3> QED BY <2>1, <3>1, <3>2, <3>3 DEF w
  <2>3. v[1] = c
    <3>1. 1 \in 1..Len(b)
      BY <2>1
    <3> QED BY <2>1, <2>2, <3>1, SpaceAlone, TwoParts
  <2>4. v # <<>>
    BY <2>2, TextIsEmpty
  <2>5. Ends(v) /\ Fits(v, Skip(i + 1, Whitespace))
    BY <2>2, SpaceFits DEF WordChars, Letters, Digits
  <2> QED BY <1>1, <1>2, <1>5, <2>2, <2>3, <2>4, <2>5 DEF Writes, c
<1> QED BY <1>6, <1>7

\* Texts of two characters.
LEMMA TwoCharacters ==
    ASSUME NEW c \in TextChars, NEW d \in TextChars
    PROVE  /\ Append(<<c>>, d) = <<c, d>>
           /\ <<c, d>> \in Text /\ <<c, d>> # <<>>
           /\ Len(<<c, d>>) = 2 /\ <<c, d>>[1] = c /\ <<c, d>>[2] = d
<1>1. <<c>> \in Text /\ Len(<<c>>) = 1 /\ <<c>>[1] = c
  BY OneIs
<1> DEFINE x == Append(<<c>>, d)
           y == <<c, d>>
<1>2. y \in Seq(TextChars) /\ Len(y) = 2 /\ y[1] = c /\ y[2] = d
  OBVIOUS
<1>3. x \in Text /\ Len(x) = 2 /\ x[1] = c /\ x[2] = d /\ x # <<>>
  <2> DEFINE w == <<c>>
  <2> HIDE DEF w
  <2>1. w \in Text /\ Len(w) = 1 /\ w[1] = c
    BY <1>1 DEF w
  <2>2. /\ Append(w, d) \in Text /\ Len(Append(w, d)) = Len(w) + 1 /\ Append(w, d)[Len(w) + 1] = d
        /\ \A k \in 1..Len(w) : Append(w, d)[k] = w[k]
        /\ Append(w, d) # <<>>
    BY <2>1, OneCharacterMore
  <2> DEFINE z == Append(w, d)
  <2> HIDE DEF z
  <2>3. z \in Text /\ Len(z) = 2 /\ z[1] = c /\ z[2] = d /\ z # <<>>
    BY <2>1, <2>2 DEF z
  <2> QED BY <2>3 DEF z, w
<1> HIDE DEF x, y
<1>4. y \in Text
  BY <1>2, TextIs
<1>5. \A k \in 1..Len(x) : x[k] = y[k]
  <2>1. \A k \in 1..Len(x) : k = 1 \/ k = 2
    BY <1>3
  <2> QED BY <1>2, <1>3, <2>1
<1>6. x = y
  BY <1>2, <1>3, <1>4, <1>5, SameText
<1> QED BY <1>2, <1>3, <1>4, <1>6 DEF x, y

LEMMA PunctuationWritten ==
    ASSUME ReadInv, PlainForm, out \in Text, NEW i \in 1..Len(query), Between(i),
           ~Opens(i), ~Pair(i, "-", "-"), query[i] \in Punctuation
    PROVE  \E v : Writes(v, Token("operator", <<query[i]>>, i + 1), i)
<1> DEFINE c == query[i]
           t == Token("operator", <<c>>, i + 1)
<1>1. Single(c) /\ c \notin {"|", "&"} /\ ~Pair(i, "|", "|") /\ ~Pair(i, "&", "&")
  BY DEF Single, TextChars, Punctuation, Whitespace, Quotes, WordChars, Letters, Digits, Pair
<1>2. c # "?"
  <2>1. 1 \in 1..Len(query)
    BY AheadIs
  <2> QED BY <2>1 DEF PlainForm, OperatorsApart
<1>3. t.left = i + 1 /\ Written(t) = WrittenOperator(<<c>>)
  BY DEF Token, Written
<1> HIDE DEF c, t
<1>0. WithoutSpace \in Text
  <2>1. Len(out) \in Nat
    BY TextIsEmpty
  <2>2. out # <<>> => Len(out) - 1 \in 0..Len(out)
    BY <2>1, TextIsEmpty
  <2> QED BY <2>2, PrefixIs DEF WithoutSpace
<1>4. Len(<<c>>) = 1 /\ \A d : <<c>> = <<d>> <=> c = d
  OBVIOUS
<1>5. \A d, e : <<c>> # <<d, e>>
  OBVIOUS
<1>6. CASE c = "comma"
  <2> DEFINE v == Append(<<c>>, "space")
  <2>1. WrittenOperator(<<c>>) = Append(Append(WithoutSpace, "comma"), "space")
    BY <1>6 DEF WrittenOperator, Joined
  <2>2. Append(Append(WithoutSpace, "comma"), "space") = WithoutSpace \o v
    <3>2. "comma" \in TextChars /\ "space" \in TextChars
      BY DEF TextChars, Whitespace, Punctuation
    <3>3. Append(WithoutSpace, "comma") \in Text /\ Append(WithoutSpace, "comma") = WithoutSpace \o <<"comma">>
      BY <1>0, <3>2, OneCharacterMore
    <3>4. Append(Append(WithoutSpace, "comma"), "space") = (WithoutSpace \o <<"comma">>) \o <<"space">>
      BY <3>2, <3>3, OneCharacterMore
    <3>5. <<"comma">> \in Text /\ <<"space">> \in Text /\ Append(<<"comma">>, "space") = <<"comma">> \o <<"space">>
      BY <3>2, OneCharacter, OneCharacterMore
    <3>6. (WithoutSpace \o <<"comma">>) \o <<"space">> = WithoutSpace \o (<<"comma">> \o <<"space">>)
      BY <1>0, <3>5, WrittenTogether
    <3> QED BY <1>6, <3>4, <3>5, <3>6
  <2> HIDE DEF v
  <2>3. Written(t) = WithoutSpace \o v /\ c \in {".", "comma"}
    BY <1>3, <1>6, <2>1, <2>2
  <2>4. v = Append(<<query[i]>>, "space")
    BY DEF v, c
  <2>5. Writes(v, t, i)
    BY <1>1, <1>3, <2>3, <2>4, SingleWritten DEF c
  <2> QED BY <2>5 DEF t, c
<1>7. CASE c = "."
  <2> DEFINE v == <<c>>
  <2>1. WrittenOperator(<<c>>) = Append(WithoutSpace, ".")
    BY <1>7 DEF WrittenOperator, Joined
  <2>2. Append(WithoutSpace, ".") = WithoutSpace \o <<".">>
    <3>2. "." \in TextChars
      BY DEF TextChars, Punctuation
    <3> QED BY <1>0, <3>2, OneCharacterMore
  <2>3. Written(t) = WithoutSpace \o v /\ c \in {".", "comma"} /\ v = <<query[i]>>
    BY <1>3, <1>7, <2>1, <2>2 DEF c
  <2> HIDE DEF v
  <2>4. Writes(v, t, i)
    BY <1>1, <1>3, <2>3, SingleWritten DEF c
  <2> QED BY <2>4 DEF t, c
<1>8. CASE c = ")"
  <2> DEFINE v == Append(<<c>>, "space")
  <2>1. WrittenOperator(<<c>>) = out \o <<")", "space">>
    BY <1>8 DEF WrittenOperator
  <2>2. v = <<")", "space">>
    <3>1. v = <<c, "space">>
      <4>1. c \in TextChars /\ "space" \in TextChars
        BY <1>1 DEF Single, TextChars, Whitespace
      <4> QED BY <4>1, TwoCharacters
    <3> QED BY <1>8, <3>1
  <2>3. Written(t) = out \o v
    BY <1>3, <2>1, <2>2
  <2> HIDE DEF v
  <2>4. v = Append(<<query[i]>>, "space")
    BY DEF v, c
  <2>5. Writes(v, t, i)
    BY <1>1, <1>3, <2>3, <2>4, SingleWritten DEF c
  <2> QED BY <2>5 DEF t, c
<1>9. CASE c \notin {"comma", ".", ")"}
  <2> DEFINE v == <<c>>
  <2>1. WrittenOperator(<<c>>) = out \o <<c>>
    BY <1>2, <1>4, <1>5, <1>9 DEF WrittenOperator
  <2>3. Written(t) = out \o v /\ v = <<query[i]>>
    BY <1>3, <2>1 DEF c
  <2> HIDE DEF v
  <2>4. Writes(v, t, i)
    BY <1>1, <1>3, <2>3, SingleWritten DEF c
  <2> QED BY <2>4 DEF t, c
<1> QED BY <1>6, <1>7, <1>8, <1>9

\* Two characters that are one operator are read one after the other.
LEMMA TwoRead ==
    ASSUME NEW c, NEW d, Single(c), Single(d), c \notin {"|", "&", "-", "/"}
    PROVE  /\ c \in TextChars /\ d \in TextChars
           /\ Clean(<<c, d>>)
           /\ Read[<<c, d>>] = <<<<c>>>> \o <<<<d>>>>
           /\ <<<<c>>>> \in Texts /\ <<<<d>>>> \in Texts
<1>1. /\ c \in TextChars /\ c \notin Quotes /\ c \notin WordChars
      /\ d \in TextChars /\ d \notin Quotes /\ d \notin WordChars
  BY DEF Single
<1>2. /\ <<c>> \in Text /\ Len(<<c>>) = 1 /\ <<c>>[1] = c /\ Clean(<<c>>) /\ Read[<<c>>] = <<<<c>>>>
      /\ <<d>> \in Text /\ Len(<<d>>) = 1 /\ <<d>>[1] = d /\ Clean(<<d>>) /\ Read[<<d>>] = <<<<d>>>>
  BY <1>1, OneIs, SingleRead
<1>3. Append(<<c>>, d) = <<c>> \o <<d>> /\ Append(<<c>>, d) = <<c, d>>
  <2>1. Append(<<c>>, d) = <<c, d>>
    BY <1>1, TwoCharacters
  <2> DEFINE a == <<c>>
  <2> HIDE DEF a
  <2>2. a \in Text
    BY <1>2 DEF a
  <2>3. Append(a, d) = a \o <<d>>
    BY <1>1, <2>2, OneCharacterMore
  <2> QED BY <2>1, <2>3 DEF a
<1>4. <<<<c>>>> \in Texts /\ <<<<d>>>> \in Texts
  BY <1>2, ReadIs
<1> DEFINE a == <<c>>
           b == <<d>>
<1>5. a \in Text /\ Len(a) = 1 /\ a[1] = c /\ Clean(a) /\ b \in Text /\ b[1] = d /\ Clean(b)
  BY <1>2
<1>6. <<c, d>> = a \o b /\ Read[a] = <<<<c>>>> /\ Read[b] = <<<<d>>>>
  BY <1>2, <1>3
<1> HIDE DEF a, b
<1>7. Apart(a, b)
  <2>1. a[Len(a)] = c
    BY <1>5
  <2> QED BY <1>1, <1>5, <2>1 DEF Apart, Splits
<1>8. Read[a \o b] = Read[a] \o Read[b] /\ Clean(a \o b)
  BY <1>5, <1>7, PartsRead, CleanParts
<1> QED BY <1>1, <1>4, <1>6, <1>8

\* The places of an operator of two characters.
LEMMA PairPlaces ==
    ASSUME ReadInv, NEW i \in 1..Len(query), Between(i), <<query[i], Char(i + 1)>> \in Pairs
    PROVE  /\ i + 1 \in 1..Len(query) /\ Char(i + 1) = query[i + 1]
           /\ i + 2 \in 1..(Len(query) + 1) /\ Between(i + 2)
<1>1. Len(query) \in Nat /\ i \in 1..(Len(query) + 1)
  BY AheadIs
<1>2. query[i] \in {"!", "<", ">", "|", "&", "@"} /\ Char(i + 1) \in {"=", "|", "&", "@"}
  BY DEF Pairs
<1>3. i + 1 <= Len(query)
  <2>1. ~(i + 1 <= Len(query)) => Char(i + 1) = "none"
    BY DEF Char
  <2> QED BY <1>2, <2>1
<1>4. i + 1 \in 1..Len(query) /\ Char(i + 1) = query[i + 1]
  BY <1>1, <1>3 DEF Char
<1>5. i + 2 \in i..(Len(query) + 1) /\ i + 2 # i /\ i + 2 \in 1..(Len(query) + 1) /\ (i + 2) - 1 = i + 1
  BY <1>1, <1>3
<1>6. \A h \in i..((i + 2) - 1) : query[h] \notin Quotes /\ ~Opens(h)
  <2>1. \A h \in i..((i + 2) - 1) : h = i \/ h = i + 1
    BY <1>1
  <2>2. query[i] \notin Quotes /\ query[i] # "/" /\ query[i + 1] \notin Quotes /\ query[i + 1] # "/"
    BY <1>2, <1>4 DEF Quotes
  <2> QED BY <2>1, <2>2 DEF Opens, Pair
<1>7. ~Pair((i + 2) - 1, "-", "-") /\ query[(i + 2) - 1] \notin Letters
  BY <1>2, <1>4, <1>5 DEF Pair, Letters
<1> QED BY <1>1, <1>4, <1>5, <1>6, <1>7, BetweenOn

\* A comparison of two characters stands alone; @@ is written as it is.
LEMMA ComparisonWritten ==
    ASSUME ReadInv, out \in Text, NEW i \in 1..Len(query), Between(i),
           <<query[i], Char(i + 1)>> \in Pairs, query[i] \notin {"|", "&"}
    PROVE  \E v : Writes(v, Token("operator", <<query[i], Char(i + 1)>>, i + 2), i)
<1> DEFINE c == query[i]
           d == Char(i + 1)
           t == Token("operator", <<c, d>>, i + 2)
           w == <<c, d>>
           s == <<"space">>
<1>1. c \in {"!", "<", ">", "@"} /\ d \in {"=", "@"} /\ (d = "@" => c = "@")
  BY DEF Pairs
<1>2. /\ Len(query) \in Nat /\ i + 1 \in 1..Len(query) /\ d = query[i + 1]
      /\ i + 2 \in 1..(Len(query) + 1) /\ Between(i + 2) /\ (i + 1) + 1 = i + 2
  BY AheadIs, PairPlaces
<1>3. t.left = i + 2 /\ Written(t) = WrittenOperator(w)
  BY DEF Token, Written
<1>0. c = query[i]
  OBVIOUS
<1> HIDE DEF c, d, t
<1>4. Single(c) /\ Single(d) /\ c \notin {"|", "&", "-", "/"}
  BY <1>1 DEF Single, TextChars, Punctuation, OtherChars, Whitespace, Quotes, WordChars, Letters, Digits
<1>5. /\ c \in TextChars /\ d \in TextChars /\ Clean(w) /\ Read[w] = <<<<c>>>> \o <<<<d>>>>
      /\ <<<<c>>>> \in Texts /\ <<<<d>>>> \in Texts
  BY <1>4, TwoRead
<1>6. w \in Text /\ w # <<>> /\ Len(w) = 2 /\ w[1] = c /\ w[2] = d
  BY <1>5, TwoCharacters
<1>7. Read[Rest(i)] = Read[w] \o Read[Rest(i + 2)]
  <2>1. Read[Rest(i)] = <<<<c>>>> \o Read[Rest(i + 1)]
    <3>1. ~Opens(i) /\ ~Pair(i, "-", "-") /\ ~Pair(i, "|", "|") /\ ~Pair(i, "&", "&")
      BY <1>0, <1>1 DEF Opens, Pair
    <3> QED BY <1>0, <1>4, <3>1, SingleRest
  <2>2. Read[Rest(i + 1)] = <<<<d>>>> \o Read[Rest(i + 2)]
    <3>1. ~Opens(i + 1) /\ ~Pair(i + 1, "-", "-") /\ ~Pair(i + 1, "|", "|") /\ ~Pair(i + 1, "&", "&")
      BY <1>1, <1>2 DEF Opens, Pair
    <3> QED BY <1>2, <1>4, <3>1, SingleRest
  <2>3. Read[Rest(i + 2)] \in Texts
    BY <1>2, RestIs, ReadIs
  <2>4. <<<<c>>>> \o (<<<<d>>>> \o Read[Rest(i + 2)]) = (<<<<c>>>> \o <<<<d>>>>) \o Read[Rest(i + 2)]
    BY <1>5, <2>3, ReadTogether, Zenon
  <2> QED BY <1>5, <2>1, <2>2, <2>4
<1> HIDE DEF w
<1>8. CASE d = "@"
  <2>1. WrittenOperator(w) = out \o w
    <3>1. /\ w # <<"comma">> /\ w # <<".">> /\ w # <<")">> /\ w # <<"?">>
          /\ w # <<"|", "|">> /\ w # <<"&", "&">>
      BY <1>1 DEF w
    <3> QED BY <1>6, <1>8, <3>1 DEF WrittenOperator
  <2>2. Ends(w) /\ Fits(w, Skip(i + 2, Whitespace))
    <3>1. w[Len(w)] = "@"
      BY <1>6, <1>8
    <3> QED BY <3>1, SpaceFits DEF WordChars, Letters, Digits
  <2>3. Writes(w, t, i)
    BY <1>1, <1>2, <1>3, <1>5, <1>6, <1>7, <2>1, <2>2 DEF Writes
  <2> QED BY <2>3 DEF t, c, d
<1>9. CASE d = "="
  <2> DEFINE v == s \o (w \o s)
  <2>1. WrittenOperator(w) = ((out \o s) \o w) \o s
    <3>1. /\ w # <<"comma">> /\ w # <<".">> /\ w # <<")">> /\ w # <<"?">>
          /\ w # <<"|", "|">> /\ w # <<"&", "&">>
      BY <1>1 DEF w
    <3> QED BY <1>6, <1>9, <3>1 DEF WrittenOperator
  <2>2. /\ s \in Text /\ Len(s) = 1 /\ s[1] = "space"
    BY SpaceAlone
  <2>3. w \o s \in Text /\ Clean(w \o s) /\ Read[w \o s] = Read[w] /\ Len(w \o s) = 3 /\ (w \o s)[3] = "space"
    <3>1. Len(w) + 1 = 3
      BY <1>6
    <3> QED BY <1>5, <1>6, <3>1, SpaceBehind
  <2>4. v \in Text /\ Clean(v) /\ Read[v] = Read[w \o s]
    BY <2>3, SpaceInFront
  <2>5. ((out \o s) \o w) \o s = out \o v
    <3> HIDE DEF s
    <3>1. out \o s \in Text
      BY <2>2, TwoParts
    <3>2. ((out \o s) \o w) \o s = (out \o s) \o (w \o s)
      BY <1>6, <2>2, <3>1, WrittenTogether
    <3>3. (out \o s) \o (w \o s) = out \o (s \o (w \o s))
      BY <2>2, <2>3, WrittenTogether
    <3> QED BY <3>2, <3>3
  <2> HIDE DEF s
  <2>6. Len(v) = 4 /\ v[1] = "space" /\ v[4] = "space"
    <3>1. /\ Len(v) = Len(s) + Len(w \o s) /\ \A k \in 1..Len(s) : v[k] = s[k]
          /\ \A k \in 1..Len(w \o s) : v[Len(s) + k] = (w \o s)[k]
      BY <2>2, <2>3, TwoParts
    <3>2. 1 \in 1..Len(s) /\ 3 \in 1..Len(w \o s) /\ Len(s) + 3 = 4
      BY <2>2, <2>3
    <3> QED BY <2>2, <2>3, <3>1, <3>2
  <2> HIDE DEF v
  <2>7. v # <<>>
    <3>1. v \in Text /\ Len(v) # 0
      BY <2>4, <2>6
    <3>2. v = <<>> => Len(v) = 0
      BY EmptySeq
    <3> QED BY <3>1, <3>2
  <2>8. Ends(v) /\ Fits(v, Skip(i + 2, Whitespace))
    BY <2>6, SpaceFits DEF WordChars, Letters, Digits
  <2>9. Writes(v, t, i)
    BY <1>2, <1>3, <1>7, <2>1, <2>3, <2>4, <2>5, <2>6, <2>7, <2>8 DEF Writes
  <2> QED BY <2>9 DEF t, c, d
<1> QED BY <1>1, <1>8, <1>9

\* || and && are read as the words that are written for them.
LEMMA DoubleRead ==
    ASSUME ReadInv, NEW i \in 1..Len(query), query[i] \in {"|", "&"}, Pair(i, query[i], query[i])
    PROVE  Read[Rest(i)] = <<<<IF query[i] = "|" THEN "OR" ELSE "AND">>>> \o Read[Rest(i + 2)]
<1> DEFINE s == Rest(i)
           c == query[i]
<1>1. i \in 1..(Len(query) + 1)
  BY AheadIs
<1>2. s \in Text /\ s # <<>> /\ Body(s) = Rest(i + 2) /\ s[1] = c /\ s[2] = c /\ Len(s) > 1
  BY <1>1, RestIs, RestFirst, PairIs
<1>3. c \in {"|", "&"}
  OBVIOUS
<1> HIDE DEF s, c
<1>4. ~LineComment(s) /\ ~Begins(s, "/", "*") /\ Doubled(s)
  BY <1>2, <1>3 DEF LineComment, Doubled, Begins
<1>5. Reading(Read, s) = <<<<Spelled(s)>>>> \o Read[Body(s)]
  BY <1>2, <1>4 DEF Reading
<1>6. Spelled(s) = IF c = "|" THEN "OR" ELSE "AND"
  BY <1>2 DEF Spelled
<1> QED BY <1>2, <1>5, <1>6, ReadIs DEF s, c

\* The word of an operator is written with a space.
LEMMA SpelledWord ==
    ASSUME NEW c \in {"OR", "AND"}
    PROVE  LET v == <<c, "space">>
           IN  /\ v \in Text /\ v # <<>> /\ Clean(v) /\ Read[v] = <<<<c>>>> /\ v[1] = c
               /\ \A k : Ends(v) /\ Fits(v, k)
<1>1. Single(c) /\ c \in TextChars \ Quotes /\ "space" \in TextChars
  BY DEF Single, TextChars, OtherChars, Whitespace, Quotes, WordChars, Letters, Digits
<1>2. <<c>> \in Text /\ Clean(<<c>>) /\ Read[<<c>>] = <<<<c>>>>
  BY <1>1, OneIs, SingleRead
<1> DEFINE b == <<c>>
           v == <<c, "space">>
<1>3. v = Append(b, "space") /\ v \in Text /\ v # <<>> /\ Len(v) = 2 /\ v[1] = c /\ v[2] = "space"
  BY <1>1, TwoCharacters
<1>4. b \in Text /\ Clean(b) /\ Read[b] = <<<<c>>>>
  BY <1>2
<1> HIDE DEF b, v
<1>5. Append(b, "space") = b \o <<"space">> /\ Clean(b \o <<"space">>) /\ Read[b \o <<"space">>] = Read[b]
  BY <1>4, SpaceBehind
<1>6. \A k : Ends(v) /\ Fits(v, k)
  BY <1>3, SpaceFits DEF WordChars, Letters, Digits
<1> QED BY <1>3, <1>4, <1>5, <1>6 DEF v

LEMMA DoubleWritten ==
    ASSUME ReadInv, NEW i \in 1..Len(query), Between(i),
           <<query[i], Char(i + 1)>> \in Pairs, query[i] \in {"|", "&"}
    PROVE  \E v : Writes(v, Token("operator", <<query[i], Char(i + 1)>>, i + 2), i)
<1> DEFINE c == query[i]
           d == Char(i + 1)
           t == Token("operator", <<c, d>>, i + 2)
           word == IF c = "|" THEN "OR" ELSE "AND"
           v == <<word, "space">>
<1>1. c \in {"|", "&"} /\ d = c
  BY DEF Pairs
<1>2. /\ Len(query) \in Nat /\ i + 1 \in 1..Len(query) /\ d = query[i + 1]
      /\ i + 2 \in 1..(Len(query) + 1) /\ Between(i + 2)
  BY AheadIs, PairPlaces
<1>3. t.left = i + 2 /\ Written(t) = WrittenOperator(<<c, c>>)
  BY <1>1 DEF Token, Written
<1>4. Read[Rest(i)] = <<<<word>>>> \o Read[Rest(i + 2)]
  <2>1. Pair(i, c, c)
    BY <1>1, <1>2 DEF Pair
  <2> QED BY <1>1, <2>1, DoubleRead
<1> HIDE DEF d, t
<1>5. WrittenOperator(<<c, c>>) = out \o v
  <2> HIDE DEF c
  <2>1. CASE c = "|"
    BY <2>1 DEF WrittenOperator
  <2>2. CASE c = "&"
    BY <2>2 DEF WrittenOperator
  <2> QED BY <1>1, <2>1, <2>2
<1>6. word \in {"OR", "AND"}
  OBVIOUS
<1> HIDE DEF word
<1>7. /\ v \in Text /\ v # <<>> /\ Clean(v) /\ Read[v] = <<<<word>>>> /\ v[1] = word
      /\ \A k : Ends(v) /\ Fits(v, k)
  BY <1>6, SpelledWord
<1> HIDE DEF v
<1>8. Writes(v, t, i)
  BY <1>2, <1>3, <1>4, <1>5, <1>6, <1>7 DEF Writes
<1> QED BY <1>8 DEF t, d, c

\* An operator of one or two characters.
LEMMA OperatorWritten ==
    ASSUME ReadInv, PlainForm, out \in Text, NEW i \in 1..Len(query), Between(i),
           ~Opens(i), ~Pair(i, "-", "-"), query[i] \in {"!", "<", ">", "|", "&", "@"}
    PROVE  \E v : Writes(v, OperatorToken(i), i)
<1> DEFINE c == query[i]
           d == Char(i + 1)
           kind == IF c \in {"!", "|", "&"} THEN "word" ELSE "operator"
           t == Token(kind, <<c>>, i + 1)
<1>1. CASE <<c, d>> \in Pairs
  <2>1. OperatorToken(i) = Token("operator", <<c, d>>, i + 2)
    <3>1. ~(c \in {"<", ">"} /\ d = "<")
      BY <1>1 DEF Pairs
    <3> QED BY <1>1, <3>1 DEF OperatorToken
  <2> QED BY <1>1, <2>1, ComparisonWritten, DoubleWritten
<1>2. CASE <<c, d>> \notin Pairs
  <2>1. ~(c \in {"<", ">"} /\ d = "<")
    <3> SUFFICES ASSUME c \in {"<", ">"}, d = "<" PROVE FALSE
      OBVIOUS
    <3>1. Len(query) \in Nat
      BY AheadIs
    <3>2. i + 1 <= Len(query)
      <4>1. ~(i + 1 <= Len(query)) => d = "none"
        BY DEF Char
      <4> QED BY <4>1
    <3>3. i + 1 \in 1..Len(query) /\ query[i + 1] = "<" /\ i < i + 1
      BY <3>1, <3>2 DEF Char
    <3>4. \A h \in (i + 1)..((i + 1) - 1) : FALSE
      BY <3>1
    <3>5. i + 1 > i + 1
      BY <3>3, <3>4 DEF PlainForm, OperatorsApart
    <3> QED BY <3>1, <3>5
  <2>2. OperatorToken(i) = t
    BY <1>2, <2>1 DEF OperatorToken
  <2>3. ~Pair(i, "|", "|") /\ ~Pair(i, "&", "&")
    <3>1. Pair(i, "|", "|") \/ Pair(i, "&", "&") => i + 1 <= Len(query) /\ d = c /\ c \in {"|", "&"}
      <4>1. Len(query) \in Nat
        BY AheadIs
      <4> QED BY <4>1 DEF Pair, Char
    <3> QED BY <1>2, <3>1 DEF Pairs
  <2>4. Single(c) /\ c \in TextChars /\ "space" \in TextChars
    BY DEF Single, TextChars, OtherChars, Whitespace, Quotes, WordChars, Letters, Digits
  <2>5. t.left = i + 1 /\ t.value = <<c>> /\ t.kind = kind
    BY DEF Token
  <2>6. CASE c \in {"!", "|", "&"}
    <3> DEFINE v == Append(<<c>>, "space")
    <3>1. Written(t) = Append(out \o <<c>>, "space")
      BY <2>5, <2>6 DEF Written
    <3>2. Append(out \o <<c>>, "space") = out \o v
      <4> DEFINE b == <<c>>
      <4>1. b \in Text
        BY <2>4, OneCharacter
      <4> HIDE DEF b
      <4>2. out \o b \in Text
        BY <4>1, TwoParts
      <4>3. Append(out \o b, "space") = (out \o b) \o <<"space">> /\ Append(b, "space") = b \o <<"space">>
        BY <2>4, <4>1, <4>2, OneCharacterMore
      <4>4. (out \o b) \o <<"space">> = out \o (b \o <<"space">>)
        BY <4>1, SpaceAlone, WrittenTogether
      <4>5. Append(out \o b, "space") = out \o Append(b, "space")
        BY <4>3, <4>4
      <4> QED BY <4>5 DEF b
    <3>3. v = Append(<<query[i]>>, "space") /\ c = query[i]
      OBVIOUS
    <3> HIDE DEF v, t, c
    <3>4. Writes(v, t, i)
      BY <2>3, <2>4, <2>5, <3>1, <3>2, <3>3, SingleWritten
    <3> QED BY <2>2, <3>4
  <2>7. CASE c \notin {"!", "|", "&"}
    <3> DEFINE v == <<c>>
    <3>1. c \in {"<", ">", "@"} /\ c = query[i]
      BY <2>7
    <3>2. Written(t) = WrittenOperator(<<c>>)
      BY <2>5, <2>7 DEF Written
    <3> HIDE DEF c
    <3>3. WrittenOperator(<<c>>) = out \o <<c>>
      <4>1. Len(<<c>>) = 1 /\ (\A x : <<c>> = <<x>> <=> c = x) /\ \A x, y : <<c>> # <<x, y>>
        OBVIOUS
      <4> QED BY <3>1, <4>1 DEF WrittenOperator
    <3>4. v = <<query[i]>>
      BY <3>1
    <3>5. Written(t) = out \o v
      BY <3>2, <3>3
    <3> HIDE DEF v, t
    <3>6. query[i] \notin {"|", "&"}
      BY <3>1
    <3>7. Writes(v, t, i)
      BY <2>3, <2>4, <2>5, <3>1, <3>4, <3>5, <3>6, SingleWritten
    <3> QED BY <2>2, <3>7
  <2> QED BY <2>6, <2>7
<1> QED BY <1>1, <1>2

\* Whatever is next but a comment is written.
LEMMA TokenWritten ==
    ASSUME ReadInv, job = "normalize", PlainForm, out \in Text,
           NEW i \in 1..(Len(query) + 1), Between(i),
           ~Pair(i, "/", "*"), ~Pair(i, "-", "-")
    PROVE  /\ TokenAt(i).kind # "no_more"
           /\ \E v : Writes(v, TokenAt(i), i)
<1>1. Len(query) \in Nat /\ ~Opens(i)
  BY AheadIs DEF Opens
<1>2. Char(i) # "none" => i \in 1..Len(query) /\ query[i] = Char(i)
  BY <1>1 DEF Char
<1> DEFINE c == Char(i)
<1>3. c # "\\"
  <2> SUFFICES ASSUME c = "\\" PROVE FALSE
    OBVIOUS
  <2>1. i \in 1..Len(query) /\ query[i] = "\\"
    BY <1>2
  <2>2. Quoted(i)
    BY <2>1 DEF PlainForm, StringsPlain
  <2> QED BY <2>2 DEF Between
<1>4. TokenAt(i) = CASE c = "\\" -> Token("unknown", <<>>, IF i < Len(query) THEN i + 2 ELSE i + 1)
                     [] c \in Punctuation -> Token("operator", <<c>>, i + 1)
                     [] c \in {"!", "<", ">", "|", "&", "@"} -> OperatorToken(i)
                     [] c \in Quotes -> StringToken(i)
                     [] c \in Digits -> NumberToken(i)
                     [] OTHER -> WordToken(i)
  BY DEF TokenAt
<1>5. "none" \notin Punctuation /\ "none" \notin Quotes /\ "none" \notin Digits
  BY DEF Punctuation, Quotes, Digits
<1> HIDE DEF c
<1>6. CASE c \in Punctuation
  <2>1. c \notin {"!", "<", ">", "|", "&", "@"} /\ c \notin Quotes /\ c \notin Digits
    BY <1>6 DEF Punctuation, Quotes, Digits
  <2>2. TokenAt(i) = Token("operator", <<c>>, i + 1)
    BY <1>3, <1>4, <1>6, <2>1
  <2>3. i \in 1..Len(query) /\ query[i] = c
    BY <1>2, <1>5, <1>6 DEF c
  <2>4. \E v : Writes(v, Token("operator", <<query[i]>>, i + 1), i)
    BY <1>1, <1>6, <2>3, PunctuationWritten
  <2> QED BY <2>2, <2>3, <2>4 DEF Token
<1>7. CASE c \in {"!", "<", ">", "|", "&", "@"}
  <2>1. c \notin Punctuation /\ c \notin Quotes /\ c \notin Digits
    BY <1>7 DEF Punctuation, Quotes, Digits
  <2>2. TokenAt(i) = OperatorToken(i)
    BY <1>3, <1>4, <1>7, <2>1
  <2>3. i \in 1..Len(query) /\ query[i] = c
    BY <1>2, <1>7 DEF c
  <2>4. \E v : Writes(v, OperatorToken(i), i)
    BY <1>1, <1>7, <2>3, OperatorWritten
  <2>5. OperatorToken(i).kind # "no_more"
    BY DEF OperatorToken, Token, Pairs
  <2> QED BY <2>2, <2>4, <2>5
<1>8. CASE c \in Quotes
  <2>1. c \notin Punctuation /\ c \notin {"!", "<", ">", "|", "&", "@"} /\ c \notin Digits
    BY <1>8 DEF Punctuation, Quotes, Digits
  <2>2. TokenAt(i) = StringToken(i)
    BY <1>3, <1>4, <1>8, <2>1
  <2>3. i \in 1..Len(query) /\ query[i] = c
    BY <1>2, <1>5, <1>8 DEF c
  <2> QED BY <1>8, <2>2, <2>3, StringWritten
<1>9. CASE c \in Digits
  <2>1. c \notin Punctuation /\ c \notin {"!", "<", ">", "|", "&", "@"} /\ c \notin Quotes
    BY <1>9 DEF Punctuation, Quotes, Digits
  <2>2. TokenAt(i) = NumberToken(i)
    BY <1>3, <1>4, <1>9, <2>1
  <2>3. i \in 1..Len(query) /\ query[i] = c
    BY <1>2, <1>5, <1>9 DEF c
  <2>4. NumberToken(i).kind # "no_more"
    BY DEF NumberToken, Token
  <2> QED BY <1>9, <2>2, <2>3, <2>4, NumberWritten
<1>10. CASE c \notin Punctuation \cup {"!", "<", ">", "|", "&", "@"} \cup Quotes \cup Digits
  <2>1. TokenAt(i) = WordToken(i)
    BY <1>3, <1>4, <1>10
  <2>2. WordToken(i).kind # "no_more"
    BY DEF WordToken, Token
  <2> QED BY <2>1, <2>2, WordWritten
<1> QED BY <1>6, <1>7, <1>8, <1>9, <1>10

\* A comment makes no difference.
LEMMA CommentWritten ==
    ASSUME ReadInv, PlainForm, FormAt(out, p), NEW i \in 1..(Len(query) + 1),
           i = Skip(p, Whitespace), Pair(i, "/", "*")
    PROVE  FormAt(out, AfterBody(i + 2))
<1> DEFINE e == BodyEnd(i + 2)
<1>1. Len(query) \in Nat /\ p \in 1..(Len(query) + 1) /\ i \in 1..Len(query) /\ query[i] = "/" /\ query[i + 1] = "*"
  BY AheadIs DEF ReadInv, NeverBeyond, Pair
<1>2. /\ e \in (i + 2)..(Len(query) - 1) /\ query[e] = "*" /\ query[e + 1] = "/"
      /\ \A h \in (i + 2)..(e - 1) : query[h] # "*"
      /\ e + 2 \in 1..(Len(query) + 1) /\ AfterBody(i + 2) = e + 2
  BY CommentPartsAre DEF PlainForm
<1> HIDE DEF e
<1>3. Between(i) /\ Read[Rest(p)] = Read[Rest(i)] /\ Fits(out, i)
  <2>1. Between(p)
    BY DEF FormAt
  <2> QED BY <1>1, <2>1, BetweenSpaces DEF FormAt
<1>4. Opens(i) /\ Closes(e)
  BY <1>1, <1>2 DEF Opens, Closes, Pair
<1>5. Read[Rest(i)] = Read[Rest(e + 2)]
  <2>1. query[i + 2] # "!"
    BY <1>1, <1>4 DEF PlainForm, CommentsAside
  <2> QED BY <1>2, <2>1, CommentRead DEF PlainForm
<1>6. \A h \in (i + 2)..(e - 1) : query[h] # "/"
  <2>1. PICK c \in (i + 2)..Len(query) :
           Closes(c) /\ \A j \in (i + 2)..(c - 1) : query[j] \notin {"*", "/"}
    BY <1>1, <1>4 DEF PlainForm, CommentsPlain
  <2>2. query[c] = "*"
    BY <2>1 DEF Closes, Pair
  <2>3. ~(c < e)
    BY <1>1, <1>2, <2>2
  <2>4. \A h \in (i + 2)..(e - 1) : h \in (i + 2)..(c - 1)
    BY <1>1, <1>2, <2>3
  <2> QED BY <2>1, <2>4
<1>7. \A h \in i..(e + 1) : query[h] \notin Quotes
  <2> SUFFICES ASSUME NEW h \in i..(e + 1), query[h] \in Quotes PROVE FALSE
    OBVIOUS
  <2>1. h # i /\ h # i + 1 /\ h # e /\ h # e + 1
    BY <1>1, <1>2 DEF Quotes
  <2>2. h \in (i + 2)..(e - 1) /\ h \in 1..Len(query) /\ i < h
    BY <1>1, <1>2, <2>1
  <2>3. PICK c \in (i + 2)..(h - 1) : Closes(c)
    BY <1>1, <1>4, <2>2 DEF PlainForm, CommentsAside
  <2>4. c \in (i + 2)..(e - 1) /\ query[c] = "*"
    BY <1>1, <1>2, <2>2, <2>3 DEF Closes, Pair
  <2> QED BY <1>2, <2>4
<1>8. ~Quoted(e + 2)
  <2>1. i \in Nat \ {0} /\ e + 2 \in Nat /\ i <= e + 2 /\ (e + 2) - 1 = e + 1
    BY <1>1, <1>2
  <2>2. \A h \in i..((e + 2) - 1) : ~Quote(h)
    BY <1>7, <2>1 DEF Quote
  <2>3. Quoted(e + 2) <=> Quoted(i)
    BY <2>1, <2>2, QuotedSame
  <2> QED BY <1>3, <2>3 DEF Between
<1>9. ASSUME NEW o \in 1..((e + 2) - 1), Opens(o) PROVE \E c \in (o + 2)..((e + 2) - 2) : Closes(c)
  <2>1. CASE o < i
    <3>1. o \in 1..(i - 1)
      BY <1>1, <2>1
    <3>2. PICK c \in (o + 2)..(i - 2) : Closes(c)
      BY <1>3, <1>9, <3>1 DEF Between
    <3>3. c \in (o + 2)..((e + 2) - 2)
      BY <1>1, <1>2, <3>1
    <3> QED BY <3>2, <3>3
  <2>2. CASE o = i
    <3>1. e \in (o + 2)..((e + 2) - 2)
      BY <1>1, <1>2, <2>2
    <3> QED BY <1>4, <3>1
  <2>3. CASE o > i
    <3>1. query[o] = "/"
      BY <1>9 DEF Opens, Pair
    <3>2. o # i + 1 /\ o # e
      BY <1>1, <1>2, <3>1
    <3>3. o # e + 1
      <4>1. ~Opens(e + 1)
        BY <1>1, <1>2, <1>4 DEF PlainForm, CommentsAside
      <4> QED BY <1>9, <4>1
    <3>4. o \in (i + 2)..(e - 1)
      BY <1>1, <1>2, <2>3, <3>2, <3>3
    <3> QED BY <1>6, <3>1, <3>4
  <2> QED BY <1>1, <2>1, <2>2, <2>3
<1>10. Between(e + 2)
  <2>1. (e + 2) - 1 = e + 1
    BY <1>1, <1>2
  <2>2. query[(e + 2) - 1] \notin Letters /\ ~Pair((e + 2) - 1, "-", "-")
    BY <1>2, <2>1 DEF Letters, Pair
  <2> QED BY <1>8, <1>9, <2>2 DEF Between
<1>11. \A k : Fits(out, k)
  BY <1>3, <1>4 DEF Fits
<1> QED BY <1>2, <1>3, <1>5, <1>10, <1>11 DEF FormAt

LEMMA LineWritten ==
    ASSUME ReadInv, PlainForm, FormAt(out, p), NEW i \in 1..(Len(query) + 1),
           i = Skip(p, Whitespace), Pair(i, "-", "-")
    PROVE  FormAt(out, AfterLine(i + 2))
<1> DEFINE e == LineEnd(i + 2)
           l == AfterLine(i + 2)
<1>1. Len(query) \in Nat /\ p \in 1..(Len(query) + 1) /\ i \in 1..Len(query) /\ query[i] = "-" /\ query[i + 1] = "-"
  BY AheadIs DEF ReadInv, NeverBeyond, Pair
<1>2. i + 2 \in 1..(Len(query) + 1) /\ l \in 1..(Len(query) + 1) /\ Read[Rest(i)] = Read[Rest(l)]
  <2>1. LineComment(Rest(i))
    BY PlainLine DEF PlainForm
  <2> QED BY <2>1, LineRead DEF ReadAlike
<1>3. /\ e \in (i + 2)..(Len(query) + 1)
      /\ e <= Len(query) => query[e] = "newline"
      /\ \A h \in (i + 2)..(e - 1) : query[h] # "newline"
  <2>1. i + 2 \in Nat /\ i + 2 <= Len(query) + 1
    BY <1>1, <1>2
  <2> QED BY <1>1, <2>1, LineEndIs
<1>4. l = IF e <= Len(query) THEN e + 1 ELSE e
  BY DEF AfterLine
<1> HIDE DEF e, l
<1>5. Between(i) /\ Read[Rest(p)] = Read[Rest(i)] /\ Fits(out, i)
  <2>1. Between(p)
    BY DEF FormAt
  <2> QED BY <1>1, <2>1, BetweenSpaces DEF FormAt
<1>6. l \in i..(Len(query) + 1) /\ l # i
  BY <1>1, <1>2, <1>3, <1>4
<1>7. \A h \in i..(l - 1) : query[h] \notin Quotes /\ ~Opens(h)
  <2> SUFFICES ASSUME NEW h \in i..(l - 1), query[h] \in Quotes \/ Opens(h) PROVE FALSE
    OBVIOUS
  <2>1. query[h] # "-" /\ query[h] # "newline"
    BY DEF Quotes, Opens, Pair
  <2>2. h # i /\ h # i + 1
    BY <1>1, <2>1
  <2>3. h # e
    <3>1. h = e => e <= Len(query)
      BY <1>1, <1>3, <1>4
    <3> QED BY <1>3, <2>1, <3>1
  <2>4. h \in (i + 2)..(e - 1) /\ h \in 1..Len(query) /\ i < h
    BY <1>1, <1>3, <1>4, <2>2, <2>3
  <2>5. PICK c \in i..(h - 1) : query[c] = "newline"
    BY <1>1, <2>4 DEF PlainForm, CommentsAside
  <2>6. c # i /\ c # i + 1
    BY <1>1, <2>5
  <2>7. c \in (i + 2)..(e - 1)
    BY <1>1, <1>3, <2>4, <2>6
  <2> QED BY <1>3, <2>5, <2>7
<1>8. Between(l)
  <2>1. l <= Len(query) => query[l - 1] = "newline"
    <3> SUFFICES ASSUME l <= Len(query) PROVE query[l - 1] = "newline"
      OBVIOUS
    <3>1. e <= Len(query) /\ l - 1 = e
      BY <1>1, <1>3, <1>4
    <3> QED BY <1>3, <3>1
  <2>2. ~Pair(l - 1, "-", "-")
    <3> SUFFICES ASSUME Pair(l - 1, "-", "-") PROVE FALSE
      OBVIOUS
    <3>1. l - 1 \in 1..(Len(query) - 1) /\ query[l - 1] = "-"
      BY DEF Pair
    <3>2. l <= Len(query)
      BY <1>1, <1>6, <3>1
    <3> QED BY <2>1, <3>1, <3>2
  <2>3. l <= Len(query) => query[l - 1] \notin Letters
    BY <2>1 DEF Letters
  <2> QED BY <1>5, <1>6, <1>7, <2>2, <2>3, BetweenOn
<1>9. \A k : Fits(out, k)
  <2>1. Char(i) = "-"
    BY <1>1 DEF Char
  <2> QED BY <1>5, <2>1 DEF Fits
<1> QED BY <1>2, <1>5, <1>8, <1>9 DEF FormAt, l

LEMMA FormWritten ==
    ASSUME ReadInv, job = "normalize", PlainForm, FormAt(out, p), p <= Len(query)
    PROVE  /\ GetToken.kind # "no_more"
           /\ FormAt(Written(GetToken), GetToken.left)
<1> DEFINE i == Skip(p, Whitespace)
<1>1. p \in 1..(Len(query) + 1) /\ out \in Text /\ Between(p)
  BY DEF ReadInv, NeverBeyond, FormAt
<1>2. i \in 1..(Len(query) + 1) /\ Between(i)
  BY <1>1, BetweenSpaces
<1>3. GetToken = TokenAt(i)
  BY TokenIsAhead DEF Ahead
<1>0. i = Skip(p, Whitespace)
  OBVIOUS
<1> HIDE DEF i
<1>4. CASE Pair(i, "/", "*")
  <2>1. TokenAt(i) = Token("comment", Slice(i + 2, BodyEnd(i + 2)), AfterBody(i + 2))
    <3>1. ~Pair(i, "-", "-")
      BY <1>4 DEF Pair
    <3> QED BY <1>4, <3>1 DEF TokenAt
  <2>2. GetToken.kind = "comment" /\ GetToken.left = AfterBody(i + 2)
    BY <1>3, <2>1 DEF Token
  <2>3. Written(GetToken) = out
    BY <2>2 DEF Written
  <2>4. FormAt(out, AfterBody(i + 2))
    BY <1>0, <1>2, <1>4, CommentWritten
  <2> QED BY <2>2, <2>3, <2>4
<1>5. CASE Pair(i, "-", "-")
  <2>1. TokenAt(i) = Token("comment", Slice(i + 2, LineEnd(i + 2)), AfterLine(i + 2))
    <3>1. ~Pair(i, "/", "*")
      BY <1>5 DEF Pair
    <3> QED BY <1>5, <3>1 DEF TokenAt
  <2>2. GetToken.kind = "comment" /\ GetToken.left = AfterLine(i + 2)
    BY <1>3, <2>1 DEF Token
  <2>3. Written(GetToken) = out
    BY <2>2 DEF Written
  <2>4. FormAt(out, AfterLine(i + 2))
    BY <1>0, <1>2, <1>5, LineWritten
  <2> QED BY <2>2, <2>3, <2>4
<1>6. CASE ~Pair(i, "/", "*") /\ ~Pair(i, "-", "-")
  <2>1. TokenAt(i).kind # "no_more" /\ \E v : Writes(v, TokenAt(i), i)
    BY <1>1, <1>2, <1>6, TokenWritten
  <2>2. PICK v : Writes(v, TokenAt(i), i)
    BY <2>1
  <2> DEFINE t == TokenAt(i)
  <2>3. Writes(v, t, i)
    BY <2>2
  <2> HIDE DEF t
  <2>4. FormAt(Written(t), t.left)
    BY <1>0, <1>2, <2>3, FormGoesOn
  <2> QED BY <1>3, <2>1, <2>4 DEF t
<1> QED BY <1>4, <1>5, <1>6

\* The inductive invariant: what is written so far is read as the text before p.
FormInv ==
    job = "normalize" /\ Whole /\ PlainForm =>
        IF ended THEN Read[out] = Read[query] ELSE FormAt(out, p)

LEMMA FormInit == Init => FormInv
<1> SUFFICES ASSUME Init, Whole PROVE FormAt(<<>>, 1) /\ p = 1 /\ out = <<>> /\ ~ended
  BY DEF FormInv
<1> QED BY ReadInit, FormBegins DEF Init

LEMMA FormDoneReads ==
    ASSUME ReadInv, job = "normalize", PlainForm, FormAt(out, p), GetToken.kind = "no_more"
    PROVE  Read[WithoutSpace] = Read[query]
<1>1. Len(query) \in Nat /\ p \in 1..(Len(query) + 1)
  BY AheadIs DEF ReadInv, NeverBeyond
<1>2. p = Len(query) + 1
  BY <1>1, FormWritten
<1>3. Rest(p) = <<>>
  BY <1>1, <1>2, RestAt
<1>4. out \in Text /\ Clean(out) /\ Read[query] = Read[out] \o <<>>
  BY <1>3, NothingRead DEF FormAt
<1>5. Read[out] \o <<>> = Read[out]
  <2>1. Read[out] \in Seq(Text)
    BY <1>4, ReadIs DEF Texts
  <2> QED BY <2>1, ConcatEmptySeq
<1> QED BY <1>4, <1>5, WithoutSpaceIs

LEMMA FormKept == WholeRead /\ FormInv /\ [Next]_vars => FormInv'
<1> SUFFICES ASSUME ReadInv, FormInv, [Next]_vars, query' = query, job' = job,
                    job = "normalize", Whole, PlainForm
             PROVE  IF ended' THEN Read[out'] = Read[query] ELSE FormAt(out', p')
  <2>1. ASSUME [Next]_vars PROVE UNCHANGED <<query, job>>
    BY <2>1 DEF Next, vars, StripComment, KeepExecutable, StripLineComment, CopyCharacter,
                Stripping, KeyDone, ReadHint, Classify, Asking, WriteToken, FormDone, Normalizing
  <2>2. ASSUME query' = query PROVE PlainForm' <=> PlainForm
    BY <2>2 DEF PlainForm, CommentsPlain, CommentsAside, StringsPlain, NumbersApart, TicksPaired,
                OperatorsApart, Opens, Closes, Pair, Quote, Quoted
  <2>3. ASSUME query' = query PROVE FormAt(out, p)' <=> FormAt(out', p')
    BY <2>3 DEF FormAt, Ends, Fits, Between, Rest, Char, Opens, Closes, Pair, Quote, Quoted, Skip, Find
  <2>4. ASSUME query' = query, job' = job PROVE Whole' <=> Whole
    BY <2>4 DEF Whole
  <2> QED BY <2>1, <2>2, <2>3, <2>4 DEF FormInv, WholeRead
<1>1. ended => Read[out] = Read[query]
  BY DEF FormInv
<1>2. ~ended => FormAt(out, p)
  BY DEF FormInv
<1>3. CASE WriteToken
  <2>1. /\ ~ended /\ ~ended' /\ out' = Written(GetToken) /\ p' = GetToken.left
        /\ GetToken.kind # "no_more"
    BY <1>3 DEF WriteToken, Normalizing
  <2>2. p <= Len(query)
    <3>1. Len(query) \in Nat /\ p \in Nat
      BY AheadIs DEF ReadInv, NeverBeyond
    <3>2. p > Len(query) => GetToken.kind = "no_more"
      BY DEF GetToken, Token
    <3> QED BY <2>1, <3>1, <3>2
  <2>3. FormAt(Written(GetToken), GetToken.left)
    BY <1>2, <2>1, <2>2, FormWritten
  <2> QED BY <2>1, <2>3
<1>4. CASE FormDone
  <2>1. ~ended /\ ended' /\ out' = WithoutSpace /\ GetToken.kind = "no_more"
    BY <1>4 DEF FormDone, Normalizing
  <2>2. Read[WithoutSpace] = Read[query]
    BY <1>2, <2>1, FormDoneReads
  <2> QED BY <2>1, <2>2
<1>5. CASE UNCHANGED vars
  BY <1>1, <1>2, <1>5 DEF vars
<1>6. CASE \/ StripComment \/ KeepExecutable \/ StripLineComment \/ CopyCharacter \/ KeyDone
           \/ ReadHint \/ Classify
  BY <1>6 DEF StripComment, KeepExecutable, StripLineComment, CopyCharacter, Stripping, KeyDone,
              ReadHint, Classify, Asking
<1> QED BY <1>3, <1>4, <1>5, <1>6 DEF Next

LEMMA FormReady == FormInv => FormKeepsTokens
BY DEF FormInv, FormKeepsTokens, PlainForm

\* The server reads a normal form as it reads the statement it was made of, literals
\* aside, so the statements that the trace log counts under one form differ in nothing
\* else: no word of the statement is lost, written twice or put together with another.
THEOREM FormsKeepTokens == Spec => []FormKeepsTokens
<1>1. FormInv => FormKeepsTokens
  BY FormReady
<1>2. Spec => []WholeRead
  BY ReadAlways
<1>3. Spec => []FormInv
  BY <1>2, FormInit, FormKept, PTL DEF Spec
<1> QED BY <1>1, <1>3, PTL
=============================================================================
