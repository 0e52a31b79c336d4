---------------------------- MODULE LexerProofs -----------------------------
(***************************************************************************)
(* Theorems about the Lexer module, for every text and all keywords: where *)
(* tokens stand, that every token is the longest lexeme at its place, and  *)
(* that a text is refused only where there is none.  About Diagnostic: the *)
(* reporter puts its caret under the character that the lexer meant.       *)
(***************************************************************************)
EXTENDS Lexer, Diagnostic, SequenceTheorems, FiniteSetTheorems, Induction, TLAPS

-----------------------------------------------------------------------------
(* Places.                                                                 *)

Breaks(t, o) == Cardinality({p \in 1 .. o : t[p] = Newline})

LEMMA BreaksNat ==
    ASSUME NEW t, NEW o \in Nat
    PROVE  IsFiniteSet({p \in 1 .. o : t[p] = Newline}) /\ Breaks(t, o) \in Nat
<1>1. IsFiniteSet(1 .. o)
  BY FS_Interval
<1>2. {p \in 1 .. o : t[p] = Newline} \in SUBSET (1 .. o)
  OBVIOUS
<1>3. IsFiniteSet({p \in 1 .. o : t[p] = Newline})
  BY <1>1, <1>2, FS_Subset
<1> QED
  BY <1>3, FS_CardinalityType DEF Breaks

LEMMA BreaksNext ==
    ASSUME NEW t, NEW o \in Nat
    PROVE  Breaks(t, o + 1) = IF t[o + 1] = Newline THEN Breaks(t, o) + 1 ELSE Breaks(t, o)
<1> DEFINE S == {p \in 1 .. o : t[p] = Newline}
<1> DEFINE U == {p \in 1 .. o + 1 : t[p] = Newline}
<1>1. IsFiniteSet(S) /\ Cardinality(S) \in Nat
  BY BreaksNat DEF Breaks
<1>2. CASE t[o + 1] = Newline
  <2>1. U = S \cup {o + 1} /\ o + 1 \notin S
    BY <1>2
  <2>2. Cardinality(U) = Cardinality(S) + 1
    BY <1>1, <2>1, FS_AddElement
  <2> QED
    BY <1>2, <2>2 DEF Breaks
<1>3. CASE t[o + 1] # Newline
  <2>1. U = S
    BY <1>3
  <2> QED
    BY <1>3, <2>1 DEF Breaks
<1> QED
  BY <1>2, <1>3

\* No line break from a to b.
Clean(t, a, b) == \A p \in a .. b : t[p] # Newline

\* Offset o is on line l, which starts at offset s.
OnLine(t, o, l, s) ==
    /\ s \in 0 .. o /\ l = 1 + Breaks(t, o)
    /\ s > 0 => t[s] = Newline
    /\ Clean(t, s + 1, o)

LEMMA PlaceOnLine ==
    ASSUME NEW t, NEW o \in Nat, NEW s \in Nat, NEW place, place.column = o - s + 1
    PROVE  OnLine(t, o, place.line, s) <=> IsPlace(t, o, place)
<1>1. /\ o + 1 - place.column = s /\ o + 2 - place.column = s + 1
      /\ place.column <= o <=> s > 0
      /\ place.column \in 1 .. o + 1 <=> s \in 0 .. o
  OBVIOUS
<1> QED
  BY <1>1 DEF OnLine, IsPlace, Breaks, Clean

LEMMA PlaceLine ==
    ASSUME NEW t, NEW o \in Nat, NEW place, IsPlace(t, o, place)
    PROVE  \E s \in 0 .. o : place.column = o - s + 1 /\ OnLine(t, o, place.line, s)
<1>1. place.column \in 1 .. o + 1
  BY DEF IsPlace
<1>2. PICK s \in 0 .. o : place.column = o - s + 1
  <2>1. o + 1 - place.column \in 0 .. o
        /\ place.column = o - (o + 1 - place.column) + 1
    BY <1>1
  <2> QED
    BY <2>1
<1> QED
  BY <1>2, PlaceOnLine

LEMMA OnLineNext ==
    ASSUME NEW t, NEW o \in Nat, NEW l, NEW s, OnLine(t, o, l, s)
    PROVE  IF t[o + 1] = Newline THEN OnLine(t, o + 1, l + 1, o + 1)
           ELSE OnLine(t, o + 1, l, s)
<1>1. Breaks(t, o) \in Nat /\ l = 1 + Breaks(t, o) /\ s \in 0 .. o
  BY BreaksNat DEF OnLine
<1> QED
  BY <1>1, BreaksNext DEF OnLine, Clean

\* Line breaks behind an offset are counted.
LEMMA BreaksGrow ==
    ASSUME NEW t, NEW a \in Nat, NEW b \in Nat, a <= b, Breaks(t, a) = Breaks(t, b)
    PROVE  Clean(t, a + 1, b)
<1> DEFINE S == {p \in 1 .. a : t[p] = Newline}
<1> DEFINE U == {p \in 1 .. b : t[p] = Newline}
<1>1. IsFiniteSet(S) /\ IsFiniteSet(U) /\ Cardinality(S) = Cardinality(U)
  BY BreaksNat DEF Breaks
<1>2. S \in SUBSET U
  OBVIOUS
<1>3. S = U
  BY <1>1, <1>2, FS_Subset
<1> QED
  BY <1>3 DEF Clean

LEMMA OnLineOnce ==
    ASSUME NEW t, NEW a \in Nat, NEW b \in Nat, NEW l, NEW s, NEW r,
           OnLine(t, a, l, s), OnLine(t, b, l, r), a <= b
    PROVE  s = r
<1>1. /\ Breaks(t, a) \in Nat /\ Breaks(t, b) \in Nat
      /\ l = 1 + Breaks(t, a) /\ l = 1 + Breaks(t, b)
  BY BreaksNat DEF OnLine
<1>2. Clean(t, a + 1, b)
  BY <1>1, BreaksGrow
<1> QED
  BY <1>2 DEF OnLine, Clean

\* A place of the text is the place of one offset.
LEMMA OffsetUnique ==
    ASSUME NEW t, NEW place, NEW o \in 0 .. Len(t), Len(t) \in Nat, IsPlace(t, o, place)
    PROVE  OffsetOf(t, place) = o
<1>1. ASSUME NEW a \in Nat, NEW b \in Nat, IsPlace(t, a, place), IsPlace(t, b, place),
             a <= b
      PROVE  a = b
  <2>1. PICK s \in 0 .. a : place.column = a - s + 1 /\ OnLine(t, a, place.line, s)
    BY <1>1, PlaceLine
  <2>2. PICK r \in 0 .. b : place.column = b - r + 1 /\ OnLine(t, b, place.line, r)
    BY <1>1, PlaceLine
  <2>3. s = r
    BY <1>1, <2>1, <2>2, OnLineOnce
  <2> QED
    BY <2>1, <2>2, <2>3
<1>2. ASSUME NEW a \in 0 .. Len(t), IsPlace(t, a, place)
      PROVE  a = o
  BY <1>1, <1>2
<1> QED
  BY <1>2 DEF OffsetOf

-----------------------------------------------------------------------------
(* Gaps.                                                                   *)

LEMMA GapEmpty ==
    ASSUME NEW t, NEW a \in Nat
    PROVE  IsGap(t, a, a)
BY DEF IsGap

LEMMA GapNext ==
    ASSUME NEW t, NEW a \in Nat, NEW b \in Nat, IsGap(t, a, b),
           t[b + 1] \in Blank \cup {Newline}
    PROVE  IsGap(t, a, b + 1)
<1>1. PICK c \in Nat : c = b + 1
  OBVIOUS
<1>2. t[c] \in Blank \cup {Newline} /\ a <= c
  BY <1>1 DEF IsGap
<1>3. ASSUME NEW p \in a + 1 .. c, p # c
      PROVE  \/ t[p] \in Blank \cup {Newline}
             \/ \E q \in a + 1 .. p :
                   /\ q < c /\ t[q] = "/" /\ t[q + 1] = "/"
                   /\ \A r \in q .. p : t[r] # Newline
  <2>1. p \in a + 1 .. b
    BY <1>1, <1>3
  <2>2. CASE t[p] \in Blank \cup {Newline}
    BY <2>2
  <2>3. CASE \E q \in a + 1 .. p :
                /\ q < b /\ t[q] = "/" /\ t[q + 1] = "/"
                /\ \A r \in q .. p : t[r] # Newline
    BY <1>1, <2>3
  <2> QED
    BY <2>1, <2>2, <2>3 DEF IsGap
<1>4. IsGap(t, a, c)
  BY <1>2, <1>3 DEF IsGap
<1> QED
  BY <1>1, <1>4

\* A comment starts at offset b.
Slashes(t, b) == t[b + 1] = "/" /\ t[b + 2] = "/"

LEMMA GapComment ==
    ASSUME NEW t, NEW a \in Nat, NEW b \in Nat, NEW c \in Nat, IsGap(t, a, b),
           Slashes(t, b), b + 2 <= c, Clean(t, b + 1, c)
    PROVE  IsGap(t, a, c)
<1>1. PICK q \in Nat : q = b + 1
  OBVIOUS
<1>2. /\ q \in a + 1 .. c /\ q < c /\ t[q] = "/" /\ t[q + 1] = "/" /\ a <= c
      /\ \A r \in q .. c : t[r] # Newline
  BY <1>1 DEF IsGap, Slashes, Clean
<1>3. ASSUME NEW p \in a + 1 .. c
      PROVE  \/ t[p] \in Blank \cup {Newline}
             \/ \E s \in a + 1 .. p :
                   /\ s < c /\ t[s] = "/" /\ t[s + 1] = "/"
                   /\ \A r \in s .. p : t[r] # Newline
  <2>1. CASE p \in a + 1 .. b
    <3>1. CASE t[p] \in Blank \cup {Newline}
      BY <3>1
    <3>2. CASE \E s \in a + 1 .. p :
                  /\ s < b /\ t[s] = "/" /\ t[s + 1] = "/"
                  /\ \A r \in s .. p : t[r] # Newline
      BY <3>2
    <3> QED
      BY <2>1, <3>1, <3>2 DEF IsGap
  <2>2. CASE p > b
    <3>1. q \in a + 1 .. p /\ \A r \in q .. p : t[r] # Newline
      BY <1>1, <1>2, <2>2
    <3> QED
      BY <1>2, <3>1
  <2> QED
    BY <2>1, <2>2
<1> QED
  BY <1>2, <1>3 DEF IsGap

-----------------------------------------------------------------------------
(* The tokens read.                                                        *)

Read == [type : TokenType, lexeme : Seq(Char), line : Nat \ {0}, column : Nat \ {0}]

\* The offset behind the first k tokens ts of the text t.
Behind(t, ts, k) == IF k = 0 THEN 0 ELSE OffsetOf(t, ts[k]) + Len(ts[k].lexeme)

\* Token k of ts stands in the text, behind the one before it.
InText(t, ts, k) ==
    /\ OffsetOf(t, ts[k]) \in 0 .. Len(t) /\ StandsAt(t, OffsetOf(t, ts[k]), ts[k])
    /\ IsGap(t, Behind(t, ts, k - 1), OffsetOf(t, ts[k]))

AllInText(t, ts) == \A k \in 1 .. Len(ts) : InText(t, ts, k)

\* One more token behind all the others.
LEMMA ReadNext ==
    ASSUME NEW t, Len(t) \in Nat, NEW ts \in Seq(Read), NEW token \in Read,
           NEW o \in 0 .. Len(t), AllInText(t, ts), StandsAt(t, o, token),
           IsGap(t, Behind(t, ts, Len(ts)), o)
    PROVE  /\ AllInText(t, Append(ts, token))
           /\ Behind(t, Append(ts, token), Len(Append(ts, token))) = o + Len(token.lexeme)
<1> DEFINE all == Append(ts, token)
<1>1. /\ all \in Seq(Read) /\ Len(ts) \in Nat /\ Len(all) = Len(ts) + 1
      /\ \A k \in 1 .. Len(ts) : all[k] = ts[k]
      /\ all[Len(ts) + 1] = token
  BY AppendProperties, LenProperties
<1>2. PICK n \in Nat : n = Len(ts) + 1
  BY <1>1
<1>3. all[n] = token /\ Len(all) = n /\ n # 0 /\ n - 1 = Len(ts)
  BY <1>1, <1>2
<1>4. OffsetOf(t, token) = o
  BY OffsetUnique DEF StandsAt
<1> HIDE DEF all
<1>5. \A k \in 0 .. Len(ts) : Behind(t, all, k) = Behind(t, ts, k)
  BY <1>1 DEF Behind
<1>6. InText(t, all, n)
  <2>1. Len(ts) \in 0 .. Len(ts)
    BY <1>1
  <2>2. Behind(t, all, n - 1) = Behind(t, ts, Len(ts))
    BY <1>3, <1>5, <2>1, Zenon
  <2> QED
    BY <1>3, <1>4, <2>2, Zenon DEF InText
<1>7. ASSUME NEW k \in 1 .. Len(ts)
      PROVE  InText(t, all, k)
  <2>1. k - 1 \in 0 .. Len(ts) /\ all[k] = ts[k] /\ InText(t, ts, k)
    BY <1>1 DEF AllInText
  <2>2. Behind(t, all, k - 1) = Behind(t, ts, k - 1)
    BY <1>5, <2>1, Zenon
  <2> QED
    BY <2>1, <2>2, Zenon DEF InText
<1>8. AllInText(t, all)
  <2>1. \A k \in 1 .. Len(all) : k = n \/ k \in 1 .. Len(ts)
    BY <1>1, <1>2, <1>3
  <2> QED
    BY <1>6, <1>7, <2>1, Zenon DEF AllInText
<1>9. Behind(t, all, n) = o + Len(token.lexeme)
  BY <1>3, <1>4, Zenon DEF Behind
<1> QED
  BY <1>3, <1>8, <1>9, Zenon DEF all

-----------------------------------------------------------------------------
(* The invariant.                                                          *)

LastEnd == Behind(src, lexed, Len(lexed))
Reading == {"scanToken", "number", "identifier", "stringLit"}

\* Where the reader is: on its line, behind a gap or in a comment behind one,
\* or in a token behind one.
PlaceInv ==
    /\ scanning # "failed" => OnLine(src, current, line, lineStart)
    /\ scanning = "skipping" => IsGap(src, LastEnd, current)
    /\ scanning = "comment" =>
          \E b \in 0 .. current :
              /\ IsGap(src, LastEnd, b) /\ b + 2 <= Len(src)
              /\ Slashes(src, b) /\ Clean(src, b + 1, current)
    /\ scanning \in Reading =>
          IsPlace(src, start, TokenPlace) /\ IsGap(src, LastEnd, start)
    /\ scanning = "scanToken" =>
          start = current /\ current < Len(src) /\ src[current + 1] # Newline

\* Where it ended.
EndInv ==
    /\ scanning = "done" => LastEnd = Len(src)
    /\ scanning = "failed" =>
          \E o \in 0 .. Len(src) : IsPlace(src, o, refusal) /\ IsGap(src, LastEnd, o)

TextInv  == AllInText(src, lexed) /\ PlaceInv /\ EndInv
LexerInv == LexerTypeOK /\ TextInv

LEMMA TextsLemma ==
    ASSUME LexerTypeOK
    PROVE  /\ src \in Seq(Char) /\ Len(src) \in Nat /\ DOMAIN src = 1 .. Len(src)
           /\ current \in Nat /\ start \in Nat /\ lineStart \in Nat /\ line \in Nat
           /\ lexed \in Seq(Read) /\ Len(lexed) \in Nat
           /\ start <= current /\ current <= Len(src)
<1>1. src \in Seq(Char)
  BY CharactersAssumption DEF LexerTypeOK
<1>2. lexed \in Seq(Read)
  BY DEF LexerTypeOK, Read
<1> QED
  BY <1>1, <1>2, LenProperties DEF LexerTypeOK

\* The tokens end at an offset.
LEMMA LastEndNat ==
    ASSUME LexerTypeOK, AllInText(src, lexed)
    PROVE  LastEnd \in Nat
<1>1. CASE Len(lexed) = 0
  BY <1>1 DEF LastEnd, Behind
<1>2. CASE Len(lexed) # 0
  <2>1. Len(lexed) \in 1 .. Len(lexed) /\ lexed \in Seq(Read)
    BY <1>2, TextsLemma
  <2>2. OffsetOf(src, lexed[Len(lexed)]) \in 0 .. Len(src)
    BY <2>1, Zenon DEF AllInText, InText
  <2>3. lexed[Len(lexed)] \in Read
    BY <2>1, ElementOfSeq
  <2>4. Len(lexed[Len(lexed)].lexeme) \in Nat
    BY <2>3, LenProperties DEF Read
  <2>5. OffsetOf(src, lexed[Len(lexed)]) + Len(lexed[Len(lexed)].lexeme) \in Nat
    BY <2>2, <2>4
  <2> QED
    BY <1>2, <2>5, Zenon DEF LastEnd, Behind
<1> QED
  BY <1>1, <1>2

\* What lookahead tells of the text.
LEMMA AheadLemma ==
    ASSUME LexerTypeOK
    PROVE  /\ Next1 # "NUL" => current < Len(src) /\ src[current + 1] = Next1
           /\ ~IsAtEnd => current < Len(src) /\ src[current + 1] = Next1
           /\ Next2 # "NUL" => current + 1 < Len(src) /\ src[current + 2] = Next2
BY TextsLemma DEF Next1, Next2, IsAtEnd

\* One character that is not a line break is consumed.
LEMMA LineAfter ==
    ASSUME LexerTypeOK, OnLine(src, current, line, lineStart),
           src[current + 1] # Newline
    PROVE  OnLine(src, current + 1, line, lineStart)
BY TextsLemma, OnLineNext

\* A function that reads on changes nothing but its offset.
LEMMA AdvanceLemma ==
    ASSUME LexerInv, NEW n \in {0, 1}, NEW f, Advance(n, f),
           current + n <= Len(src), scanning \notin {"done", "failed"},
           n = 1 => src[current + 1] # Newline,
           f \in {"skipping", "comment", "number", "identifier", "stringLit"}
    PROVE  /\ LexerTypeOK' /\ AllInText(src, lexed)'
           /\ OnLine(src, current, line, lineStart)' /\ LastEnd' = LastEnd
<1>1. /\ current' = current + n /\ scanning' = f /\ src' = src /\ start' = start
      /\ line' = line /\ lineStart' = lineStart /\ tokenLine' = tokenLine
      /\ tokenColumn' = tokenColumn /\ lexed' = lexed /\ refusal' = refusal
  BY Zenon DEF Advance
<1>2. LexerTypeOK /\ AllInText(src, lexed) /\ OnLine(src, current, line, lineStart)
  BY DEF LexerInv, TextInv, PlaceInv
<1>3. current + n \in 0 .. Len(src) /\ start \in 0 .. current + n
      /\ lineStart \in 0 .. current + n
  BY <1>2, TextsLemma DEF LexerTypeOK
<1>4. LexerTypeOK'
  BY <1>1, <1>2, <1>3 DEF LexerTypeOK
<1>5. OnLine(src, current + n, line, lineStart)
  <2>1. CASE n = 0
    <3>1. current + n = current
      BY <1>2, <2>1, TextsLemma
    <3> QED
      BY <1>2, <3>1, Zenon
  <2>2. CASE n = 1
    BY <1>2, <2>2, LineAfter, Zenon
  <2> QED
    BY <2>1, <2>2
<1> QED
  BY <1>1, <1>2, <1>4, <1>5, Zenon DEF LastEnd

\* A token is read on.
LEMMA ReadOn ==
    ASSUME LexerInv, scanning \in Reading, NEW f \in {"number", "identifier", "stringLit"},
           Advance(1, f), current < Len(src), src[current + 1] # Newline
    PROVE  LexerInv'
<1>1. LexerTypeOK /\ current + 1 <= Len(src) /\ scanning \notin {"done", "failed"}
  BY TextsLemma DEF LexerInv, Reading
<1>2. /\ LexerTypeOK' /\ AllInText(src, lexed)'
      /\ OnLine(src, current, line, lineStart)' /\ LastEnd' = LastEnd
  BY <1>1, AdvanceLemma
<1>3. /\ scanning' = f /\ src' = src /\ start' = start
      /\ TokenPlace' = TokenPlace
  BY Zenon DEF Advance, TokenPlace
<1>4. IsPlace(src, start, TokenPlace) /\ IsGap(src, LastEnd, start)
  BY DEF LexerInv, TextInv, PlaceInv
<1>5. /\ IsPlace(src, start, TokenPlace)'
      /\ IsGap(src, LastEnd, start)'
  BY <1>2, <1>3, <1>4, Zenon
<1>6. scanning' \notin {"skipping", "comment", "scanToken", "done", "failed"}
  BY <1>3
<1> QED
  BY <1>2, <1>5, <1>6, Zenon DEF LexerInv, TextInv, PlaceInv, EndInv

\* A line break is consumed between tokens or in a string.
LEMMA BreakLineLemma ==
    ASSUME LexerInv, NEW f \in {"skipping", "stringLit"}, scanning = f, BreakLine(f),
           current < Len(src), src[current + 1] = Newline
    PROVE  LexerInv'
<1>1. LexerTypeOK /\ AllInText(src, lexed) /\ OnLine(src, current, line, lineStart)
  BY DEF LexerInv, TextInv, PlaceInv
<1>2. /\ line' = line + 1 /\ current' = current + 1 /\ lineStart' = current + 1
      /\ scanning' = f /\ src' = src /\ start' = start /\ lexed' = lexed
      /\ tokenLine' = tokenLine /\ tokenColumn' = tokenColumn /\ refusal' = refusal
  BY Zenon DEF BreakLine, LineStartAfter
<1>3. LexerTypeOK'
  <2>1. /\ current + 1 \in 0 .. Len(src) /\ start \in 0 .. current + 1
        /\ current + 1 \in 0 .. current + 1 /\ line + 1 \in Nat \ {0}
    BY <1>1, TextsLemma, SMTT(30) DEF LexerTypeOK
  <2> QED
    BY <1>1, <1>2, <2>1 DEF LexerTypeOK
<1>4. OnLine(src, current, line, lineStart)'
  <2>1. OnLine(src, current + 1, line + 1, current + 1)
    BY <1>1, TextsLemma, OnLineNext
  <2> QED
    BY <1>2, <2>1, Zenon
<1>5. LastEnd' = LastEnd /\ TokenPlace' = TokenPlace
  BY <1>2, Zenon DEF LastEnd, TokenPlace
<1>6. scanning = "skipping" => IsGap(src, LastEnd, current)'
  <2>1. LastEnd \in Nat
    BY <1>1, LastEndNat
  <2>2. scanning = "skipping" => IsGap(src, LastEnd, current + 1)
    BY <1>1, <2>1, TextsLemma, GapNext DEF LexerInv, TextInv, PlaceInv
  <2> QED
    BY <1>2, <1>5, <2>2, Zenon
<1>7. scanning = "stringLit" =>
          IsPlace(src, start, TokenPlace)' /\ IsGap(src, LastEnd, start)'
  <2>1. scanning = "stringLit" =>
            IsPlace(src, start, TokenPlace) /\ IsGap(src, LastEnd, start)
    BY DEF LexerInv, TextInv, PlaceInv, Reading
  <2> QED
    BY <1>2, <1>5, <2>1, Zenon
<1>8. scanning' \notin {"comment", "scanToken", "done", "failed"}
      /\ (scanning' \in Reading => scanning = "stringLit")
      /\ (scanning' = "skipping" => scanning = "skipping")
  BY <1>2 DEF Reading
<1>9. AllInText(src, lexed)'
  BY <1>1, <1>2, Zenon
<1> QED
  BY <1>3, <1>4, <1>6, <1>7, <1>8, <1>9, Zenon DEF LexerInv, TextInv, PlaceInv, EndInv

\* What has been read of the token, and of the characters taken with it.
LEMMA LexemeLemma ==
    ASSUME LexerTypeOK, NEW n \in {0, 1, 2}, current + n <= Len(src)
    PROVE  Lexeme(n) \in Seq(Char) /\ start + Len(Lexeme(n)) = current + n
<1>1. PICK a \in Nat, b \in Nat : a = start + 1 /\ b = current + n
  BY TextsLemma
<1>2. \A i \in a .. b : src[i] \in Char
  BY <1>1, TextsLemma, ElementOfSeq
<1>3. /\ SubSeq(src, a, b) \in Seq(Char)
      /\ Len(SubSeq(src, a, b)) = IF a <= b THEN b - a + 1 ELSE 0
  BY <1>2, SubSeqProperties
<1>4. Lexeme(n) = SubSeq(src, a, b)
  BY <1>1, Zenon DEF Lexeme
<1>5. b - a + 1 = current + n - start /\ (a > b => current + n - start = 0)
      /\ start + (current + n - start) = current + n
  <2>1. start \in Nat /\ current \in Nat /\ n \in Nat /\ start <= current
    BY TextsLemma
  <2> QED
    BY <1>1, <2>1
<1> QED
  BY <1>1, <1>3, <1>4, <1>5

\* addToken: the token is what the text has from its start on.
LEMMA AddTokenLemma ==
    ASSUME LexerInv, scanning \in Reading, NEW type \in TokenType \ {"END_OF_FILE"},
           NEW n \in {0, 1, 2}, AddToken(type, n), current + n <= Len(src),
           OnLine(src, current + n, line, lineStart)
    PROVE  LexerInv'
<1> DEFINE token == Made(type, n)
<1>1. /\ LexerTypeOK /\ AllInText(src, lexed) /\ IsPlace(src, start, TokenPlace)
      /\ IsGap(src, LastEnd, start)
  BY DEF LexerInv, TextInv, PlaceInv
<1>2. /\ lexed' = Append(lexed, token) /\ current' = current + n
      /\ scanning' = "skipping" /\ src' = src /\ start' = start /\ line' = line
      /\ lineStart' = lineStart /\ tokenLine' = tokenLine /\ tokenColumn' = tokenColumn
      /\ refusal' = refusal
  BY Zenon DEF AddToken
<1>3. Lexeme(n) \in Seq(Char) /\ start + Len(Lexeme(n)) = current + n
  BY <1>1, LexemeLemma
<1>4. token \in Read /\ token.lexeme = Lexeme(n) /\ token.type = type
      /\ token.line = TokenPlace.line /\ token.column = TokenPlace.column
  BY <1>1, <1>3 DEF LexerTypeOK, Made, Read, TokenPlace
<1> HIDE DEF token
<1>5. StandsAt(src, start, token)
  <2>1. IsPlace(src, start, token)
    BY <1>1, <1>4, Zenon DEF IsPlace
  <2>2. token.lexeme = SubSeq(src, start + 1, start + Len(token.lexeme))
    BY <1>3, <1>4, Zenon DEF Lexeme
  <2> QED
    BY <1>3, <1>4, <2>1, <2>2, Zenon DEF StandsAt
<1>6. /\ AllInText(src, Append(lexed, token))
      /\ Behind(src, Append(lexed, token), Len(Append(lexed, token))) = current + n
  <2>1. start \in 0 .. Len(src)
    BY <1>1, TextsLemma
  <2>2. IsGap(src, Behind(src, lexed, Len(lexed)), start)
    BY <1>1, Zenon DEF LastEnd
  <2>3. /\ AllInText(src, Append(lexed, token))
        /\ Behind(src, Append(lexed, token), Len(Append(lexed, token)))
               = start + Len(token.lexeme)
    BY <1>1, <1>4, <1>5, <2>1, <2>2, TextsLemma, ReadNext
  <2> QED
    BY <1>3, <1>4, <2>3, Zenon
<1>7. LexerTypeOK'
  <2>1. /\ current + n \in 0 .. Len(src) /\ start \in 0 .. current + n
        /\ lineStart \in 0 .. current + n
    BY <1>1, TextsLemma, SMTT(30) DEF LexerTypeOK
  <2>2. /\ Append(lexed, token) \in Seq(Read)
        /\ Len(Append(lexed, token)) = Len(lexed) + 1
        /\ \A k \in 1 .. Len(lexed) : Append(lexed, token)[k] = lexed[k]
        /\ Append(lexed, token)[Len(lexed) + 1] = token
    BY <1>1, <1>4, TextsLemma, AppendProperties
  <2>3. /\ DOMAIN lexed = 1 .. Len(lexed)
        /\ DOMAIN Append(lexed, token) = 1 .. Len(lexed) + 1
    BY <1>1, <2>2, TextsLemma, LenProperties
  <2>4. \A k \in DOMAIN Append(lexed, token) :
            Append(lexed, token)[k].type # "END_OF_FILE"
    <3>1. \A k \in DOMAIN lexed : lexed[k].type # "END_OF_FILE"
      BY <1>1 DEF LexerTypeOK, Reading
    <3>2. \A k \in 1 .. Len(lexed) + 1 : k \in 1 .. Len(lexed) \/ k = Len(lexed) + 1
      BY <1>1, TextsLemma
    <3> QED
      BY <1>4, <2>2, <2>3, <3>1, <3>2, Zenon
  <2> QED
    BY <1>1, <1>2, <2>1, <2>2, <2>4 DEF LexerTypeOK, Read
<1>8. LastEnd' = current'
  BY <1>2, <1>6, Zenon DEF LastEnd
<1>9. IsGap(src, LastEnd, current)'
  <2>1. IsGap(src, current + n, current + n)
    BY <1>1, TextsLemma, GapEmpty
  <2> QED
    BY <1>2, <1>8, <2>1, Zenon
<1>10. AllInText(src, lexed)' /\ OnLine(src, current, line, lineStart)'
  BY <1>2, <1>6, Zenon
<1>11. scanning' \notin {"comment", "done", "failed"} \cup Reading
  BY <1>2 DEF Reading
<1> QED
  BY <1>7, <1>9, <1>10, <1>11 DEF LexerInv, TextInv, PlaceInv, EndInv, Reading

\* A token is refused at its start.
LEMMA RefuseLemma ==
    ASSUME LexerInv, scanning \in Reading, NEW n \in {0, 1}, Refuse(n, TokenPlace),
           current + n <= Len(src)
    PROVE  LexerInv'
<1>1. /\ LexerTypeOK /\ AllInText(src, lexed) /\ IsPlace(src, start, TokenPlace)
      /\ IsGap(src, LastEnd, start)
  BY DEF LexerInv, TextInv, PlaceInv
<1>2. /\ current' = current + n /\ scanning' = "failed" /\ refusal' = TokenPlace
      /\ src' = src /\ start' = start /\ line' = line /\ lineStart' = lineStart
      /\ tokenLine' = tokenLine /\ tokenColumn' = tokenColumn /\ lexed' = lexed
  BY Zenon DEF Refuse
<1>3. LexerTypeOK'
  <2>1. /\ current + n \in 0 .. Len(src) /\ start \in 0 .. current + n
        /\ lineStart \in 0 .. current + n
    BY <1>1, TextsLemma DEF LexerTypeOK
  <2>2. TokenPlace \in [line : Nat, column : Nat]
    BY <1>1 DEF LexerTypeOK, TokenPlace
  <2> QED
    BY <1>1, <1>2, <2>1, <2>2 DEF LexerTypeOK, Reading
<1>4. LastEnd' = LastEnd /\ AllInText(src, lexed)'
  BY <1>1, <1>2, Zenon DEF LastEnd
<1>5. EndInv'
  <2>1. start \in 0 .. Len(src)
    BY <1>1, TextsLemma
  <2> QED
    BY <1>1, <1>2, <1>4, <2>1, Zenon DEF EndInv
<1>6. PlaceInv'
  BY <1>2 DEF PlaceInv, Reading
<1> QED
  BY <1>3, <1>4, <1>5, <1>6, Zenon DEF LexerInv, TextInv

-----------------------------------------------------------------------------
(* The steps.                                                              *)

LEMMA InitInv ==
    ASSUME LexerInit
    PROVE  LexerInv
<1>1. src \in Seq(Char) /\ Len(src) \in Nat
  BY CharactersAssumption, LenProperties DEF LexerInit
<1>2. Len(lexed) = 0 /\ DOMAIN lexed = {} /\ lexed \in Seq(Read)
  BY DEF LexerInit
<1>3. LexerTypeOK
  BY <1>1, <1>2 DEF LexerInit, LexerTypeOK, Read
<1>4. LastEnd = 0 /\ AllInText(src, lexed)
  BY <1>2 DEF LastEnd, Behind, AllInText
<1>5. OnLine(src, current, line, lineStart)
  <2>1. {p \in 1 .. 0 : src[p] = Newline} = {}
    OBVIOUS
  <2>2. Breaks(src, 0) = 0
    BY <2>1, FS_EmptySet, Zenon DEF Breaks
  <2> QED
    BY <2>2 DEF LexerInit, OnLine, Clean
<1>6. IsGap(src, LastEnd, current)
  BY <1>4, GapEmpty DEF LexerInit
<1>7. scanning = "skipping"
  BY DEF LexerInit
<1> QED
  BY <1>3, <1>4, <1>5, <1>6, <1>7 DEF LexerInv, TextInv, PlaceInv, EndInv, Reading

LEMMA SkipBlankStep ==
    ASSUME LexerInv, SkipBlank
    PROVE  LexerInv'
<1>1. LexerTypeOK /\ AllInText(src, lexed) /\ IsGap(src, LastEnd, current)
      /\ Advance(1, "skipping") /\ scanning = "skipping"
  BY DEF LexerInv, TextInv, PlaceInv, SkipBlank
<1>2. /\ src[current + 1] \in Blank /\ src[current + 1] # Newline
      /\ current + 1 <= Len(src)
  <2>1. Next1 \in Blank /\ Next1 # "NUL" /\ Next1 # Newline
    BY DEF SkipBlank, Blank, Newline
  <2>2. current < Len(src) /\ src[current + 1] = Next1
    BY <1>1, <2>1, AheadLemma
  <2> QED
    BY <1>1, <2>1, <2>2, TextsLemma
<1>3. /\ LexerTypeOK' /\ AllInText(src, lexed)'
      /\ OnLine(src, current, line, lineStart)' /\ LastEnd' = LastEnd
  BY <1>1, <1>2, AdvanceLemma
<1>4. current' = current + 1 /\ scanning' = "skipping" /\ src' = src
  BY <1>1, Zenon DEF Advance
<1>5. IsGap(src, LastEnd, current)'
  <2>1. IsGap(src, LastEnd, current + 1)
    BY <1>1, <1>2, LastEndNat, TextsLemma, GapNext
  <2> QED
    BY <1>3, <1>4, <2>1, Zenon
<1> QED
  BY <1>3, <1>4, <1>5 DEF LexerInv, TextInv, PlaceInv, EndInv, Reading

LEMMA SkipLineStep ==
    ASSUME LexerInv, SkipLine
    PROVE  LexerInv'
<1>1. current < Len(src) /\ src[current + 1] = Newline
  BY AheadLemma DEF LexerInv, SkipLine, Newline
<1> QED
  BY <1>1, BreakLineLemma DEF SkipLine

LEMMA BeginCommentStep ==
    ASSUME LexerInv, BeginComment
    PROVE  LexerInv'
<1>1. LexerTypeOK /\ AllInText(src, lexed) /\ IsGap(src, LastEnd, current)
      /\ Advance(0, "comment") /\ scanning = "skipping"
  BY DEF LexerInv, TextInv, PlaceInv, BeginComment
<1>2. current + 2 <= Len(src) /\ current + 0 <= Len(src) /\ current + 0 = current
      /\ Slashes(src, current)
  BY <1>1, AheadLemma, TextsLemma DEF BeginComment, Slashes
<1>3. /\ LexerTypeOK' /\ AllInText(src, lexed)'
      /\ OnLine(src, current, line, lineStart)' /\ LastEnd' = LastEnd
  BY <1>1, <1>2, AdvanceLemma
<1>4. current' = current /\ scanning' = "comment" /\ src' = src
  BY <1>1, <1>2, Zenon DEF Advance
<1>5. Clean(src, current + 1, current) /\ current \in 0 .. current
  BY <1>1, TextsLemma DEF Clean
<1>6. \E b \in 0 .. current' :
          /\ IsGap(src, LastEnd, b)' /\ b + 2 <= Len(src')
          /\ Slashes(src', b) /\ Clean(src', b + 1, current')
  BY <1>1, <1>2, <1>3, <1>4, <1>5, Zenon
<1> QED
  BY <1>3, <1>4, <1>6 DEF LexerInv, TextInv, PlaceInv, EndInv, Reading

\* A comment holds its two slashes when it ends.
LEMMA CommentStep ==
    ASSUME LexerInv, Comment
    PROVE  LexerInv'
<1>1. LexerTypeOK /\ AllInText(src, lexed) /\ scanning = "comment"
  BY DEF LexerInv, TextInv, Comment
<1>2. PICK b \in 0 .. current :
          /\ IsGap(src, LastEnd, b) /\ b + 2 <= Len(src)
          /\ Slashes(src, b) /\ Clean(src, b + 1, current)
  BY <1>1 DEF LexerInv, TextInv, PlaceInv
<1>3. b \in Nat /\ LastEnd \in Nat
  BY <1>1, <1>2, LastEndNat, TextsLemma
<1>4. CASE Next1 # Newline /\ ~IsAtEnd
  <2>1. Advance(1, "comment")
    BY <1>4 DEF Comment
  <2>2. src[current + 1] # Newline /\ current + 1 <= Len(src)
    BY <1>1, <1>4, AheadLemma, TextsLemma
  <2>3. /\ LexerTypeOK' /\ AllInText(src, lexed)'
        /\ OnLine(src, current, line, lineStart)' /\ LastEnd' = LastEnd
    BY <1>1, <2>1, <2>2, AdvanceLemma
  <2>4. current' = current + 1 /\ scanning' = "comment" /\ src' = src
    BY <2>1, Zenon DEF Advance
  <2>5. Clean(src, b + 1, current + 1) /\ b \in 0 .. current + 1
    BY <1>1, <1>2, <2>2, TextsLemma DEF Clean
  <2>6. \E a \in 0 .. current' :
            /\ IsGap(src, LastEnd, a)' /\ a + 2 <= Len(src')
            /\ Slashes(src', a) /\ Clean(src', a + 1, current')
    BY <1>2, <2>3, <2>4, <2>5, Zenon
  <2> QED
    BY <2>3, <2>4, <2>6 DEF LexerInv, TextInv, PlaceInv, EndInv, Reading
<1>5. CASE Next1 = Newline \/ IsAtEnd
  <2>1. Advance(0, "skipping")
    BY <1>5 DEF Comment
  <2>2. current + 0 <= Len(src) /\ current + 0 = current
    BY <1>1, TextsLemma
  <2>3. /\ LexerTypeOK' /\ AllInText(src, lexed)'
        /\ OnLine(src, current, line, lineStart)' /\ LastEnd' = LastEnd
    BY <1>1, <2>1, <2>2, AdvanceLemma
  <2>4. current' = current /\ scanning' = "skipping" /\ src' = src
    BY <2>1, <2>2, Zenon DEF Advance
  <2>5. b + 2 <= current
    <3>1. CASE IsAtEnd
      BY <1>1, <1>2, <3>1, TextsLemma DEF IsAtEnd
    <3>2. CASE Next1 = Newline
      <4>1. src[current + 1] = Newline
        BY <1>1, <3>2, AheadLemma DEF Newline
      <4>2. current # b /\ current # b + 1
        BY <1>2, <4>1 DEF Slashes, Newline
      <4> QED
        BY <1>1, <1>2, <4>2, TextsLemma
    <3> QED
      BY <1>5, <3>1, <3>2
  <2>6. IsGap(src, LastEnd, current)
    BY <1>1, <1>2, <1>3, <2>5, TextsLemma, GapComment
  <2> QED
    BY <2>3, <2>4, <2>6 DEF LexerInv, TextInv, PlaceInv, EndInv, Reading
<1> QED
  BY <1>4, <1>5

\* The place of a token or of the end is that of the offset reached.
LEMMA PlaceLemma ==
    ASSUME LexerInv, scanning # "failed", NEW place, place.line = line,
           place.column = ColumnOf(current)
    PROVE  IsPlace(src, current, place) /\ ColumnOf(current) \in Nat \ {0}
<1>1. OnLine(src, current, line, lineStart) /\ current \in Nat /\ lineStart \in Nat
  BY TextsLemma DEF LexerInv, TextInv, PlaceInv
<1>2. place.column = current - lineStart + 1
  BY Zenon DEF ColumnOf
<1>3. IsPlace(src, current, place)
  BY <1>1, <1>2, PlaceOnLine, Zenon
<1>4. lineStart \in 0 .. current
  BY DEF LexerInv, LexerTypeOK
<1> QED
  BY <1>1, <1>3, <1>4 DEF ColumnOf

LEMMA BeginTokenStep ==
    ASSUME LexerInv, BeginToken
    PROVE  LexerInv'
<1>1. /\ LexerTypeOK /\ AllInText(src, lexed) /\ IsGap(src, LastEnd, current)
      /\ OnLine(src, current, line, lineStart) /\ scanning = "skipping"
  BY DEF LexerInv, TextInv, PlaceInv, BeginToken
<1>2. /\ start' = current /\ tokenLine' = line /\ tokenColumn' = ColumnOf(current)
      /\ scanning' = "scanToken" /\ src' = src /\ current' = current /\ line' = line
      /\ lineStart' = lineStart /\ lexed' = lexed /\ refusal' = refusal
  BY DEF BeginToken
<1>3. LexerTypeOK'
  <2>1. ColumnOf(current) \in Nat \ {0}
    <3>1. \E place : place.line = line /\ place.column = ColumnOf(current)
      <4>1. [line |-> line, column |-> ColumnOf(current)].line = line
            /\ [line |-> line, column |-> ColumnOf(current)].column = ColumnOf(current)
        OBVIOUS
      <4> QED
        BY <4>1, Zenon
    <3> QED
      BY <1>1, <3>1, PlaceLemma
  <2>2. current \in 0 .. current
    BY <1>1, TextsLemma
  <2> QED
    BY <1>1, <1>2, <2>1, <2>2 DEF LexerTypeOK
<1>4. LastEnd' = LastEnd /\ AllInText(src, lexed)'
  BY <1>1, <1>2, Zenon DEF LastEnd
<1>5. IsPlace(src, start, TokenPlace)'
  <2>1. TokenPlace' = [line |-> line, column |-> ColumnOf(current)]
    BY <1>2, Zenon DEF TokenPlace
  <2>2. TokenPlace'.line = line /\ TokenPlace'.column = ColumnOf(current)
    BY <2>1
  <2>3. IsPlace(src, current, TokenPlace')
    BY <1>1, <2>2, PlaceLemma
  <2> QED
    BY <1>2, <2>3, Zenon
<1>6. current < Len(src) /\ src[current + 1] # Newline
  BY <1>1, AheadLemma DEF BeginToken, Skippable
<1>7. IsGap(src, LastEnd, start)' /\ OnLine(src, current, line, lineStart)'
  BY <1>1, <1>2, <1>4, Zenon
<1>8. PlaceInv'
  BY <1>2, <1>5, <1>6, <1>7, Zenon DEF PlaceInv
<1>9. EndInv'
  BY <1>2 DEF EndInv
<1> QED
  BY <1>3, <1>4, <1>8, <1>9, Zenon DEF LexerInv, TextInv

LEMMA EndTokensStep ==
    ASSUME LexerInv, EndTokens
    PROVE  LexerInv'
<1>1. /\ LexerTypeOK /\ AllInText(src, lexed) /\ IsGap(src, LastEnd, current)
      /\ OnLine(src, current, line, lineStart) /\ scanning = "skipping"
  BY DEF LexerInv, TextInv, PlaceInv, EndTokens
<1>2. /\ lexed' = Append(lexed, EndToken) /\ scanning' = "done" /\ src' = src
      /\ start' = start /\ current' = current /\ line' = line
      /\ lineStart' = lineStart /\ tokenLine' = tokenLine /\ tokenColumn' = tokenColumn
      /\ refusal' = refusal
  BY DEF EndTokens
<1>3. /\ EndToken.type = "END_OF_FILE" /\ EndToken.lexeme = << >>
      /\ EndToken.line = line /\ EndToken.column = ColumnOf(current)
  BY DEF EndToken
<1>4. IsPlace(src, current, EndToken) /\ ColumnOf(current) \in Nat \ {0}
  BY <1>1, <1>3, PlaceLemma
<1>5. EndToken \in Read
  BY <1>1, <1>4 DEF EndToken, Read, LexerTypeOK, TokenType
<1>6. current = Len(src) /\ current + 0 = current /\ Len(<< >>) = 0
  BY <1>1, TextsLemma DEF EndTokens, IsAtEnd
<1>7. StandsAt(src, current, EndToken)
  <2>1. SubSeq(src, current + 1, current) = << >>
    BY <1>1, TextsLemma, SubSeqEmpty
  <2>2. current <= Len(src)
    BY <1>1, TextsLemma
  <2> QED
    BY <1>3, <1>4, <1>6, <2>1, <2>2, Zenon DEF StandsAt
<1>8. /\ AllInText(src, Append(lexed, EndToken))
      /\ Behind(src, Append(lexed, EndToken), Len(Append(lexed, EndToken))) = Len(src)
  <2>1. current \in 0 .. Len(src)
    BY <1>1, TextsLemma
  <2>2. IsGap(src, Behind(src, lexed, Len(lexed)), current)
    BY <1>1, Zenon DEF LastEnd
  <2>3. /\ AllInText(src, Append(lexed, EndToken))
        /\ Behind(src, Append(lexed, EndToken), Len(Append(lexed, EndToken)))
               = current + Len(EndToken.lexeme)
    BY <1>1, <1>5, <1>7, <2>1, <2>2, TextsLemma, ReadNext
  <2> QED
    BY <1>3, <1>6, <2>3, Zenon
<1>9. LexerTypeOK'
  <2>1. /\ Append(lexed, EndToken) \in Seq(Read)
        /\ Append(lexed, EndToken) # << >>
        /\ Len(Append(lexed, EndToken)) = Len(lexed) + 1
        /\ \A k \in 1 .. Len(lexed) : Append(lexed, EndToken)[k] = lexed[k]
        /\ Append(lexed, EndToken)[Len(lexed) + 1] = EndToken
    BY <1>1, <1>5, TextsLemma, AppendProperties
  <2>2. /\ DOMAIN lexed = 1 .. Len(lexed)
        /\ DOMAIN Append(lexed, EndToken) = 1 .. Len(lexed) + 1
    BY <1>1, <2>1, TextsLemma, LenProperties
  <2>3. \A k \in DOMAIN Append(lexed, EndToken) :
            Append(lexed, EndToken)[k].type = "END_OF_FILE" <=> k = Len(lexed) + 1
    <3>1. \A k \in DOMAIN lexed : lexed[k].type # "END_OF_FILE"
      BY <1>1 DEF LexerTypeOK
    <3>2. \A k \in 1 .. Len(lexed) + 1 :
              (k \in 1 .. Len(lexed) /\ k # Len(lexed) + 1) \/ k = Len(lexed) + 1
      BY <1>1, TextsLemma
    <3> QED
      BY <1>3, <2>1, <2>2, <3>1, <3>2, Zenon
  <2> QED
    BY <1>1, <1>2, <2>1, <2>3 DEF LexerTypeOK, Read
<1>10. /\ AllInText(src, lexed)' /\ LastEnd' = Len(src)'
       /\ OnLine(src, current, line, lineStart)'
  BY <1>1, <1>2, <1>8, Zenon DEF LastEnd
<1>11. PlaceInv' /\ EndInv'
  BY <1>2, <1>10 DEF PlaceInv, EndInv, Reading
<1> QED
  BY <1>9, <1>10, <1>11, Zenon DEF LexerInv, TextInv

-----------------------------------------------------------------------------
(* scanToken().                                                            *)

\* A token of one character is on the line it starts on.
LEMMA ScanOne ==
    ASSUME LexerInv, scanning = "scanToken"
    PROVE  /\ LexerTypeOK /\ scanning \in Reading
           /\ current < Len(src) /\ src[current + 1] # Newline
           /\ current + 1 <= Len(src) /\ OnLine(src, current + 1, line, lineStart)
<1>1. /\ LexerTypeOK /\ OnLine(src, current, line, lineStart)
      /\ current < Len(src) /\ src[current + 1] # Newline
  BY DEF LexerInv, TextInv, PlaceInv
<1>2. current + 1 <= Len(src) /\ scanning \in Reading
  BY <1>1, TextsLemma DEF Reading
<1> QED
  BY <1>1, <1>2, LineAfter, Zenon

LEMMA TypesLemma ==
    /\ \A c \in DOMAIN Single : Single[c] \in TokenType \ {"END_OF_FILE"}
    /\ \A c \in DOMAIN Alone : Alone[c] \in TokenType \ {"END_OF_FILE"}
    /\ \A c \in DOMAIN WithEqual : WithEqual[c] \in TokenType \ {"END_OF_FILE"}
    /\ \A text : TypeOf(text) \in TokenType \ {"END_OF_FILE"}
    /\ "NUMBER" \in TokenType \ {"END_OF_FILE"} /\ "STRING" \in TokenType \ {"END_OF_FILE"}
<1>1. \A c \in DOMAIN Single : Single[c] \in Punctuation
  BY DEF Single, Punctuation
<1>2. \A c \in DOMAIN Alone : Alone[c] \in Punctuation
  BY DEF Alone, Punctuation
<1>3. \A c \in DOMAIN WithEqual : WithEqual[c] \in Punctuation
  BY DEF WithEqual, Punctuation
<1>4. \A text : TypeOf(text) \in Keywords \cup Literals
  BY CharactersAssumption DEF TypeOf, Literals
<1>5. /\ \A type \in Punctuation \cup Keywords \cup Literals :
             type \in TokenType \ {"END_OF_FILE"}
      /\ "NUMBER" \in Literals /\ "STRING" \in Literals
  BY DEF TokenType, Punctuation, Keywords, Literals
<1> QED
  BY <1>1, <1>2, <1>3, <1>4, <1>5, Zenon

LEMMA ScanSingleStep ==
    ASSUME LexerInv, ScanSingle
    PROVE  LexerInv'
<1>1. scanning = "scanToken" /\ AddToken(Single[Next1], 1) /\ 1 \in {0, 1, 2}
      /\ Single[Next1] \in TokenType \ {"END_OF_FILE"}
  BY TypesLemma DEF ScanSingle
<1> QED
  BY <1>1, ScanOne, AddTokenLemma, Zenon

LEMMA ScanPairStep ==
    ASSUME LexerInv, ScanPair
    PROVE  LexerInv'
<1>1. scanning = "scanToken" /\ Next1 \in DOMAIN WithEqual
  BY DEF ScanPair
<1>2. CASE Next2 = "=" /\ AddToken(WithEqual[Next1], 2)
  <2>1. current + 1 < Len(src) /\ src[current + 2] = "="
    BY <1>1, <1>2, ScanOne, AheadLemma
  <2>2. PICK next \in Nat : next = current + 1
    BY <1>1, ScanOne, TextsLemma
  <2>3. src[next + 1] # Newline /\ OnLine(src, next, line, lineStart)
        /\ next + 1 = current + 2 /\ current + 2 <= Len(src)
    BY <1>1, <2>1, <2>2, ScanOne, TextsLemma DEF Newline
  <2>4. OnLine(src, next + 1, line, lineStart)
    BY <2>3, OnLineNext
  <2>5. OnLine(src, current + 2, line, lineStart)
    BY <2>3, <2>4, Zenon
  <2>6. WithEqual[Next1] \in TokenType \ {"END_OF_FILE"} /\ 2 \in {0, 1, 2}
    BY <1>1, TypesLemma
  <2> QED
    BY <1>1, <1>2, <2>3, <2>5, <2>6, ScanOne, AddTokenLemma, Zenon
<1>3. CASE Next1 \in DOMAIN Alone /\ AddToken(Alone[Next1], 1)
  <2>1. Alone[Next1] \in TokenType \ {"END_OF_FILE"} /\ 1 \in {0, 1, 2}
    BY <1>3, TypesLemma
  <2> QED
    BY <1>1, <1>3, <2>1, ScanOne, AddTokenLemma, Zenon
<1>4. CASE Refuse(1, TokenPlace)
  <2>1. 1 \in {0, 1}
    OBVIOUS
  <2> QED
    BY <1>1, <1>4, <2>1, ScanOne, RefuseLemma, Zenon
<1> QED
  BY <1>2, <1>3, <1>4 DEF ScanPair

LEMMA ScanLongerStep ==
    ASSUME LexerInv, ScanLonger
    PROVE  LexerInv'
<1>1. scanning = "scanToken"
  BY DEF ScanLonger
<1>2. PICK f \in {"number", "identifier", "stringLit"} : Advance(1, f)
  BY DEF ScanLonger
<1> QED
  BY <1>1, <1>2, ScanOne, ReadOn, Zenon

LEMMA ScanOtherStep ==
    ASSUME LexerInv, ScanOther
    PROVE  LexerInv'
<1>1. scanning = "scanToken" /\ Refuse(1, TokenPlace) /\ 1 \in {0, 1}
  BY DEF ScanOther
<1> QED
  BY <1>1, ScanOne, RefuseLemma, Zenon

\* A token that ends before the character reached.
LEMMA EndBefore ==
    ASSUME LexerInv, scanning \in Reading, NEW type \in TokenType \ {"END_OF_FILE"},
           AddToken(type, 0)
    PROVE  LexerInv'
<1>1. LexerTypeOK /\ OnLine(src, current, line, lineStart)
  BY DEF LexerInv, TextInv, PlaceInv, Reading
<1>2. current + 0 = current /\ current <= Len(src) /\ 0 \in {0, 1, 2}
  BY <1>1, TextsLemma
<1> QED
  BY <1>1, <1>2, AddTokenLemma, Zenon

LEMMA ScanNumberStep ==
    ASSUME LexerInv, ScanNumber
    PROVE  LexerInv'
<1>1. scanning \in Reading /\ "number" \in {"number", "identifier", "stringLit"}
  BY DEF ScanNumber, Reading
<1>2. CASE Next1 \in Digit /\ Advance(1, "number")
  <2>1. Next1 # "NUL" /\ Next1 # Newline
    BY <1>2, CharactersAssumption
  <2>2. current < Len(src) /\ src[current + 1] # Newline
    BY <2>1, AheadLemma DEF LexerInv
  <2> QED
    BY <1>1, <1>2, <2>2, ReadOn, Zenon
<1>3. CASE AddToken("NUMBER", 0)
  BY <1>1, <1>3, TypesLemma, EndBefore, Zenon
<1> QED
  BY <1>2, <1>3 DEF ScanNumber

LEMMA ScanIdentifierStep ==
    ASSUME LexerInv, ScanIdentifier
    PROVE  LexerInv'
<1>1. scanning \in Reading /\ "identifier" \in {"number", "identifier", "stringLit"}
  BY DEF ScanIdentifier, Reading
<1>2. CASE Next1 \in AlphaNum \cup {"_"} /\ Advance(1, "identifier")
  <2>1. Next1 # "NUL" /\ Next1 # Newline
    BY <1>2, CharactersAssumption DEF AlphaNum, Newline
  <2>2. current < Len(src) /\ src[current + 1] # Newline
    BY <2>1, AheadLemma DEF LexerInv
  <2> QED
    BY <1>1, <1>2, <2>2, ReadOn, Zenon
<1>3. CASE AddToken(TypeOf(Lexeme(0)), 0)
  BY <1>1, <1>3, TypesLemma, EndBefore, Zenon
<1> QED
  BY <1>2, <1>3 DEF ScanIdentifier

LEMMA ScanStringStep ==
    ASSUME LexerInv, ScanString
    PROVE  LexerInv'
<1>1. /\ scanning \in Reading /\ scanning = "stringLit"
      /\ "stringLit" \in {"number", "identifier", "stringLit"}
      /\ "stringLit" \in {"skipping", "stringLit"}
  BY DEF ScanString, Reading
<1>2. LexerTypeOK /\ OnLine(src, current, line, lineStart)
  BY <1>1 DEF LexerInv, TextInv, PlaceInv
<1>3. CASE Refuse(0, UnclosedAt)
  <2>1. current + 0 <= Len(src) /\ 0 \in {0, 1} /\ Refuse(0, TokenPlace)
    BY <1>2, <1>3, TextsLemma DEF UnclosedAt
  <2> QED
    BY <1>1, <2>1, RefuseLemma, Zenon
<1>4. CASE ~IsAtEnd /\ Next1 = Newline /\ BreakLine("stringLit")
  BY <1>1, <1>2, <1>4, AheadLemma, BreakLineLemma
<1>5. CASE ~IsAtEnd /\ Next1 = Quote /\ AddToken("STRING", 1)
  <2>1. current + 1 <= Len(src) /\ src[current + 1] # Newline
    <3>1. current < Len(src) /\ src[current + 1] = Next1
      BY <1>2, <1>5, AheadLemma
    <3>2. Next1 # Newline
      BY <1>5 DEF Quote, Newline
    <3> QED
      BY <1>2, <3>1, <3>2, TextsLemma
  <2>2. OnLine(src, current + 1, line, lineStart) /\ 1 \in {0, 1, 2}
    BY <1>2, <2>1, LineAfter
  <2> QED
    BY <1>1, <1>5, <2>1, <2>2, TypesLemma, AddTokenLemma, Zenon
<1>6. CASE ~IsAtEnd /\ Next1 \notin {Newline, Quote} /\ Advance(1, "stringLit")
  BY <1>1, <1>2, <1>6, AheadLemma, ReadOn
<1> QED
  BY <1>3, <1>4, <1>5, <1>6 DEF ScanString

LEMMA LexerStep ==
    ASSUME LexerInv, [LexerNext]_lexerVars
    PROVE  LexerInv'
<1>1. CASE Skipping
  BY <1>1, SkipBlankStep, SkipLineStep, BeginCommentStep, CommentStep, BeginTokenStep,
     EndTokensStep DEF Skipping
<1>2. CASE ScanToken
  BY <1>2, ScanSingleStep, ScanPairStep, ScanLongerStep, ScanOtherStep, ScanNumberStep,
     ScanIdentifierStep, ScanStringStep DEF ScanToken
<1>3. CASE UNCHANGED lexerVars
  BY <1>3 DEF lexerVars, LexerInv, LexerTypeOK, TextInv, PlaceInv, EndInv, LastEnd,
              TokenPlace
<1> QED
  BY <1>1, <1>2, <1>3 DEF LexerNext

LEMMA LexerAlways == LexerSpec => []LexerInv
BY InitInv, LexerStep, PTL DEF LexerSpec

-----------------------------------------------------------------------------
(* The theorems.                                                           *)

\* Whatever the text, the lexer never leaves it, and the tokens it returns
\* end, once, with the token that stops the parser.
THEOREM LexerTypeCorrect == LexerSpec => []LexerTypeOK
<1>1. LexerInv => LexerTypeOK
  BY DEF LexerInv
<1> QED
  BY <1>1, LexerAlways, PTL

\* Whatever the text, every token is what stands at its line and column, and
\* no character but blanks and comments is between two tokens, before the
\* first, or behind the last.
THEOREM TextAlways == LexerSpec => []TokensAreTheText
<1>1. ASSUME LexerInv
      PROVE  TokensAreTheText
  <2>1. /\ LexerTypeOK /\ AllInText(src, lexed) /\ EndInv
        /\ DOMAIN lexed = 1 .. Len(lexed) /\ Len(lexed) \in Nat /\ Len(src) \in Nat
    BY <1>1, TextsLemma, LenProperties DEF LexerInv, TextInv
  <2>2. PlacesTrue
    BY <2>1, Zenon DEF PlacesTrue, AllInText, InText, EndInv
  <2>3. \A k : End(k) = Behind(src, lexed, k)
    BY Zenon DEF End, Begin, Behind
  <2>4. \A k \in DOMAIN lexed : IsGap(src, End(k - 1), Begin(k))
    BY <2>1, <2>3, Zenon DEF AllInText, InText, Begin
  <2>5. scanning = "done" => End(Len(lexed)) = Len(src)
    BY <2>1, <2>3, Zenon DEF EndInv, LastEnd
  <2>6. ASSUME scanning = "failed"
        PROVE  IsGap(src, End(Len(lexed)), OffsetOf(src, refusal))
    <3>1. PICK o \in 0 .. Len(src) : IsPlace(src, o, refusal) /\ IsGap(src, LastEnd, o)
      BY <2>1, <2>6 DEF EndInv
    <3>2. OffsetOf(src, refusal) = o
      BY <2>1, <3>1, OffsetUnique
    <3> QED
      BY <2>3, <3>1, <3>2, Zenon DEF LastEnd
  <2> QED
    BY <2>2, <2>4, <2>5, <2>6, Zenon DEF TokensAreTheText, NothingSkipped
<1> QED
  BY <1>1, LexerAlways, PTL

-----------------------------------------------------------------------------
(* The lexemes, told apart by their first character.                       *)

LEMMA ClassesLemma ==
    /\ \A c \in DOMAIN Single :
           c \notin DOMAIN Alone \cup DOMAIN WithEqual \cup Digit \cup Letter
                    \cup {"_", Quote}
    /\ \A c \in DOMAIN WithEqual : c \notin Digit \cup Letter \cup {"_", Quote}
    /\ \A c \in DOMAIN Alone : c \in DOMAIN WithEqual
    /\ \A c \in Digit : c \notin Letter \cup {"_", Quote}
    /\ \A c \in Letter \cup {"_"} : c # Quote
<1>1. DOMAIN Single \cup DOMAIN WithEqual \cup {Quote} \subseteq Mark
  BY DEF Single, WithEqual, Mark
<1>2. \A c \in DOMAIN Single :
          c \notin DOMAIN Alone \cup DOMAIN WithEqual \cup {"_", Quote}
  BY DEF Single, WithEqual, Alone, Quote
<1>3. \A c \in DOMAIN WithEqual : c \notin {"_", Quote}
  BY DEF WithEqual, Quote
<1>4. DOMAIN Alone \subseteq DOMAIN WithEqual /\ "_" # Quote
  BY DEF Alone, WithEqual, Quote
<1>5. \A c \in Mark : c \notin Digit \cup Letter
  BY CharactersAssumption
<1>6. \A c \in Digit : c \notin Letter \cup {"_"}
  BY CharactersAssumption
<1> QED
  BY <1>1, <1>2, <1>3, <1>4, <1>5, <1>6

AllDigits(s) == \A i \in DOMAIN s : s[i] \in Digit
WordChar     == AlphaNum \cup {"_"}
AllWord(s)   == \A i \in DOMAIN s : s[i] \in WordChar
Quotes(s)    == {i \in DOMAIN s : s[i] = Quote}

LEMMA FirstLemma ==
    ASSUME NEW s, Len(s) \in Nat, DOMAIN s = 1 .. Len(s), Len(s) > 0
    PROVE  1 \in DOMAIN s
OBVIOUS

LEMMA SingleTypes ==
    ASSUME NEW s, Len(s) \in Nat, DOMAIN s = 1 .. Len(s), Len(s) > 0,
           s[1] \in DOMAIN Single
    PROVE  Types(s) = IF Len(s) = 1 THEN {Single[s[1]]} ELSE {}
<1>1. 1 \in DOMAIN s /\ Single[s[1]] \in TokenType
  BY TypesLemma
<1>2. /\ s[1] \notin DOMAIN Alone /\ s[1] \notin DOMAIN WithEqual
      /\ ~ AllDigits(s) /\ ~ IsWord(s) /\ Quotes(s) # {1, Len(s)}
  BY <1>1, ClassesLemma DEF AllDigits, IsWord, AlphaNum, Quotes
<1> QED
  BY <1>1, <1>2 DEF Types, AllDigits, Quotes

LEMMA PairTypes ==
    ASSUME NEW s, Len(s) \in Nat, DOMAIN s = 1 .. Len(s), Len(s) > 0,
           s[1] \in DOMAIN WithEqual
    PROVE  Types(s) =
               IF Len(s) = 1 /\ s[1] \in DOMAIN Alone THEN {Alone[s[1]]}
               ELSE IF Len(s) = 2 /\ s[2] = "=" THEN {WithEqual[s[1]]} ELSE {}
<1>1. 1 \in DOMAIN s /\ WithEqual[s[1]] \in TokenType
      /\ (s[1] \in DOMAIN Alone => Alone[s[1]] \in TokenType)
  BY TypesLemma
<1>2. /\ s[1] \notin DOMAIN Single
      /\ ~ AllDigits(s) /\ ~ IsWord(s) /\ Quotes(s) # {1, Len(s)}
  BY <1>1, ClassesLemma DEF AllDigits, IsWord, AlphaNum, Quotes
<1> QED
  BY <1>1, <1>2 DEF Types, AllDigits, Quotes

LEMMA NumberTypes ==
    ASSUME NEW s, Len(s) \in Nat, DOMAIN s = 1 .. Len(s), Len(s) > 0, s[1] \in Digit
    PROVE  Types(s) = IF AllDigits(s) THEN {"NUMBER"} ELSE {}
<1>1. 1 \in DOMAIN s /\ "NUMBER" \in TokenType
  BY TypesLemma
<1>2. /\ s[1] \notin DOMAIN Single /\ s[1] \notin DOMAIN WithEqual
      /\ s[1] \notin DOMAIN Alone /\ ~ IsWord(s) /\ Quotes(s) # {1, Len(s)}
  BY <1>1, ClassesLemma DEF IsWord, Quotes
<1> QED
  BY <1>1, <1>2 DEF Types, AllDigits, Quotes

LEMMA WordTypes ==
    ASSUME NEW s, Len(s) \in Nat, DOMAIN s = 1 .. Len(s), Len(s) > 0,
           s[1] \in Letter \cup {"_"}
    PROVE  Types(s) = IF AllWord(s) THEN {TypeOf(s)} ELSE {}
<1>1. 1 \in DOMAIN s /\ TypeOf(s) \in TokenType
  <2>1. TypeOf(s) \in TokenType
    BY TypesLemma, Zenon
  <2> QED
    BY FirstLemma, <2>1, Zenon
<1>2. /\ s[1] \notin DOMAIN Single /\ s[1] \notin DOMAIN WithEqual
      /\ s[1] \notin DOMAIN Alone /\ ~ AllDigits(s) /\ Quotes(s) # {1, Len(s)}
      /\ IsWord(s) <=> AllWord(s)
  BY <1>1, ClassesLemma DEF IsWord, AllWord, WordChar, AllDigits, Quotes
<1> QED
  BY <1>1, <1>2 DEF Types, AllDigits, Quotes

LEMMA StringTypes ==
    ASSUME NEW s, Len(s) \in Nat, DOMAIN s = 1 .. Len(s), Len(s) > 0, s[1] = Quote
    PROVE  Types(s) = IF Len(s) > 1 /\ Quotes(s) = {1, Len(s)} THEN {"STRING"} ELSE {}
<1>1. 1 \in DOMAIN s /\ "STRING" \in TokenType
  BY TypesLemma
<1>2. /\ s[1] \notin DOMAIN Single /\ s[1] \notin DOMAIN WithEqual
      /\ s[1] \notin DOMAIN Alone /\ ~ AllDigits(s) /\ ~ IsWord(s)
  BY <1>1, ClassesLemma DEF IsWord, AllDigits, AlphaNum
<1> QED
  BY <1>1, <1>2 DEF Types, AllDigits, Quotes

LEMMA OtherTypes ==
    ASSUME NEW s, Len(s) \in Nat, DOMAIN s = 1 .. Len(s), Len(s) > 0,
           s[1] \notin DOMAIN Single \cup DOMAIN WithEqual \cup {Quote, "_"} \cup AlphaNum
    PROVE  Types(s) = {}
<1>1. 1 \in DOMAIN s
  BY FirstLemma, Zenon
<1>2. /\ s[1] \notin DOMAIN Single /\ s[1] \notin DOMAIN WithEqual
      /\ s[1] \notin DOMAIN Alone /\ ~ AllDigits(s) /\ ~ IsWord(s)
      /\ Quotes(s) # {1, Len(s)}
  BY <1>1, ClassesLemma DEF IsWord, AllDigits, AlphaNum, Quotes
<1> QED
  BY <1>1, <1>2 DEF Types, AllDigits, Quotes

-----------------------------------------------------------------------------
(* Longest lexemes of a text.                                              *)

\* The lexeme from offset o to offset e is of this type, and none is longer.
Longest(t, o, e, type) ==
    /\ Types(SubSeq(t, o + 1, e)) = {type}
    /\ \A f \in e + 1 .. Len(t) : Types(SubSeq(t, o + 1, f)) = {}

\* No lexeme starts at offset o, which is a character.
NoLexeme(t, o) ==
    o < Len(t) /\ \A f \in o + 1 .. Len(t) : Types(SubSeq(t, o + 1, f)) = {}

LEMMA PieceLemma ==
    ASSUME NEW t \in Seq(Char), NEW o \in Nat, NEW e \in o + 1 .. Len(t)
    PROVE  LET s == SubSeq(t, o + 1, e)
           IN  /\ Len(s) = e - o /\ Len(s) \in Nat /\ Len(s) > 0
               /\ DOMAIN s = 1 .. Len(s) /\ \A i \in 1 .. Len(s) : s[i] = t[o + i]
               /\ s[1] = t[o + 1]
<1>1. PICK a \in Int, b \in Int : a = o + 1 /\ b = e
  OBVIOUS
<1>2. \A i \in a .. b : t[i] \in Char
  BY <1>1, ElementOfSeq, LenProperties
<1>3. /\ SubSeq(t, a, b) \in Seq(Char)
      /\ Len(SubSeq(t, a, b)) = IF a <= b THEN b - a + 1 ELSE 0
      /\ \A i \in 1 .. b - a + 1 : SubSeq(t, a, b)[i] = t[a + i - 1]
  BY <1>2, SubSeqProperties
<1>4. DOMAIN SubSeq(t, a, b) = 1 .. Len(SubSeq(t, a, b))
  BY <1>3, LenProperties
<1>5. a <= b /\ b - a + 1 = e - o /\ e - o \in Nat /\ e - o > 0
      /\ \A i \in 1 .. e - o : a + i - 1 = o + i
  BY <1>1
<1>6. \A i \in 1 .. e - o : SubSeq(t, a, b)[i] = t[o + i]
  BY <1>3, <1>5
<1>7. 1 \in 1 .. e - o
  BY <1>5
<1> QED
  BY <1>1, <1>3, <1>4, <1>5, <1>6, <1>7

LEMMA SingleLongest ==
    ASSUME NEW t \in Seq(Char), NEW o \in Nat, o < Len(t), t[o + 1] \in DOMAIN Single
    PROVE  Longest(t, o, o + 1, Single[t[o + 1]])
<1> DEFINE S(f) == SubSeq(t, o + 1, f)
<1>1. Len(t) \in Nat
  BY LenProperties
<1>2. ASSUME NEW f \in o + 1 .. Len(t)
      PROVE  Types(S(f)) = IF f = o + 1 THEN {Single[t[o + 1]]} ELSE {}
  <2>1. /\ Len(S(f)) = f - o /\ Len(S(f)) \in Nat /\ Len(S(f)) > 0
        /\ DOMAIN S(f) = 1 .. Len(S(f)) /\ S(f)[1] = t[o + 1]
    BY PieceLemma
  <2> HIDE DEF S
  <2>2. Types(S(f)) = IF Len(S(f)) = 1 THEN {Single[S(f)[1]]} ELSE {}
    BY <2>1, SingleTypes, Zenon
  <2>3. Len(S(f)) = 1 <=> f = o + 1
    BY <1>1, <2>1
  <2> QED
    BY <2>1, <2>2, <2>3, Zenon
<1>3. /\ o + 1 \in o + 1 .. Len(t)
      /\ \A f \in (o + 1) + 1 .. Len(t) : f \in o + 1 .. Len(t) /\ f # o + 1
  BY <1>1
<1> QED
  BY <1>2, <1>3, Zenon DEF Longest

\* The types of the pieces that start like an operator of one or two characters.
LEMMA PairPiece ==
    ASSUME NEW t \in Seq(Char), NEW o \in Nat, t[o + 1] \in DOMAIN WithEqual,
           NEW f \in o + 1 .. Len(t)
    PROVE  Types(SubSeq(t, o + 1, f)) =
               IF f = o + 1 /\ t[o + 1] \in DOMAIN Alone THEN {Alone[t[o + 1]]}
               ELSE IF f = o + 2 /\ t[o + 2] = "=" THEN {WithEqual[t[o + 1]]} ELSE {}
<1> DEFINE s == SubSeq(t, o + 1, f)
<1>1. /\ Len(s) = f - o /\ Len(s) \in Nat /\ Len(s) > 0
      /\ DOMAIN s = 1 .. Len(s) /\ s[1] = t[o + 1]
      /\ \A i \in 1 .. Len(s) : s[i] = t[o + i]
  BY PieceLemma
<1>2. /\ Len(s) = 1 <=> f = o + 1
      /\ Len(s) = 2 <=> f = o + 2
      /\ Len(s) = 2 => s[2] = t[o + 2]
  <2> HIDE DEF s
  <2> QED
    BY <1>1, LenProperties
<1> HIDE DEF s
<1>3. Types(s) = IF Len(s) = 1 /\ s[1] \in DOMAIN Alone THEN {Alone[s[1]]}
                 ELSE IF Len(s) = 2 /\ s[2] = "=" THEN {WithEqual[s[1]]} ELSE {}
  BY <1>1, PairTypes, Zenon
<1>4. Types(s) = IF f = o + 1 /\ t[o + 1] \in DOMAIN Alone THEN {Alone[t[o + 1]]}
                 ELSE IF f = o + 2 /\ t[o + 2] = "=" THEN {WithEqual[t[o + 1]]} ELSE {}
  BY <1>1, <1>2, <1>3
<1> QED
  BY <1>4 DEF s

LEMMA PairLongest ==
    ASSUME NEW t \in Seq(Char), NEW o \in Nat, o < Len(t),
           t[o + 1] \in DOMAIN WithEqual
    PROVE  /\ o + 1 < Len(t) /\ t[o + 2] = "=" =>
                  Longest(t, o, o + 2, WithEqual[t[o + 1]])
           /\ (o + 1 < Len(t) => t[o + 2] # "=") =>
                  IF t[o + 1] \in DOMAIN Alone THEN Longest(t, o, o + 1, Alone[t[o + 1]])
                  ELSE NoLexeme(t, o)
<1>1. Len(t) \in Nat
  BY LenProperties
<1>2. ASSUME o + 1 < Len(t), t[o + 2] = "="
      PROVE  Longest(t, o, o + 2, WithEqual[t[o + 1]])
  <2>1. /\ o + 2 \in o + 1 .. Len(t) /\ o + 2 # o + 1
        /\ \A f \in (o + 2) + 1 .. Len(t) :
              f \in o + 1 .. Len(t) /\ f # o + 1 /\ f # o + 2
    BY <1>1, <1>2
  <2> QED
    BY <1>2, <2>1, PairPiece, Zenon DEF Longest
<1>3. ASSUME o + 1 < Len(t) => t[o + 2] # "="
      PROVE  \A f \in o + 1 .. Len(t) :
                 Types(SubSeq(t, o + 1, f)) =
                     IF f = o + 1 /\ t[o + 1] \in DOMAIN Alone
                     THEN {Alone[t[o + 1]]} ELSE {}
  <2>1. \A f \in o + 1 .. Len(t) : f = o + 2 => o + 1 < Len(t)
    BY <1>1
  <2> QED
    BY <1>3, <2>1, PairPiece, Zenon
<1>4. /\ o + 1 \in o + 1 .. Len(t)
      /\ \A f \in (o + 1) + 1 .. Len(t) : f \in o + 1 .. Len(t) /\ f # o + 1
  BY <1>1
<1> QED
  BY <1>2, <1>3, <1>4, Zenon DEF Longest, NoLexeme

LEMMA OtherLongest ==
    ASSUME NEW t \in Seq(Char), NEW o \in Nat, o < Len(t),
           t[o + 1] \notin DOMAIN Single \cup DOMAIN WithEqual \cup {Quote, "_"}
                        \cup AlphaNum
    PROVE  NoLexeme(t, o)
<1>1. ASSUME NEW f \in o + 1 .. Len(t)
      PROVE  Types(SubSeq(t, o + 1, f)) = {}
  <2> DEFINE s == SubSeq(t, o + 1, f)
  <2>1. /\ Len(s) \in Nat /\ Len(s) > 0 /\ DOMAIN s = 1 .. Len(s) /\ s[1] = t[o + 1]
    BY PieceLemma
  <2> HIDE DEF s
  <2>2. Types(s) = {}
    BY <2>1, OtherTypes, Zenon
  <2> QED
    BY <2>2 DEF s
<1> QED
  BY <1>1, Zenon DEF NoLexeme

\* The characters from offset o to offset e are of a set.
Run(t, o, e, set) == \A p \in o + 1 .. e : t[p] \in set

LEMMA NumberLongest ==
    ASSUME NEW t \in Seq(Char), NEW o \in Nat, NEW e \in o + 1 .. Len(t),
           e < Len(t) => t[e + 1] \notin Digit, Run(t, o, e, Digit)
    PROVE  Longest(t, o, e, "NUMBER")
<1> DEFINE S(f) == SubSeq(t, o + 1, f)
<1>1. Len(t) \in Nat /\ o + 1 \in o + 1 .. e /\ e \in Nat
  BY LenProperties
<1>2. ASSUME NEW f \in o + 1 .. Len(t), f >= e
      PROVE  Types(S(f)) = IF f = e THEN {"NUMBER"} ELSE {}
  <2>1. /\ Len(S(f)) = f - o /\ Len(S(f)) \in Nat /\ Len(S(f)) > 0
        /\ DOMAIN S(f) = 1 .. Len(S(f)) /\ S(f)[1] = t[o + 1]
        /\ \A i \in 1 .. Len(S(f)) : S(f)[i] = t[o + i]
    BY PieceLemma
  <2> HIDE DEF S
  <2>2. S(f)[1] \in Digit
    BY <1>1, <2>1, Zenon DEF Run
  <2>3. Types(S(f)) = IF AllDigits(S(f)) THEN {"NUMBER"} ELSE {}
    BY <2>1, <2>2, NumberTypes, Zenon
  <2>4. AllDigits(S(f)) <=> f = e
    <3>1. ASSUME f = e
          PROVE  AllDigits(S(f))
      <4>1. \A i \in 1 .. Len(S(f)) : o + i \in o + 1 .. e
        BY <1>1, <2>1, <3>1
      <4> QED
        BY <2>1, <4>1, Zenon DEF AllDigits, Run
    <3>2. ASSUME f # e
          PROVE  ~ AllDigits(S(f))
      <4>1. PICK i \in 1 .. Len(S(f)) : o + i = e + 1
        <5>1. e + 1 - o \in 1 .. Len(S(f)) /\ o + (e + 1 - o) = e + 1
          BY <1>1, <1>2, <2>1, <3>2
        <5> QED
          BY <5>1, Zenon
      <4>2. e < Len(t)
        BY <1>1, <1>2, <3>2
      <4> QED
        BY <2>1, <4>1, <4>2, Zenon DEF AllDigits
    <3> QED
      BY <3>1, <3>2
  <2> QED
    BY <2>3, <2>4, Zenon
<1>3. /\ e \in o + 1 .. Len(t) /\ e >= e
      /\ \A f \in e + 1 .. Len(t) : f \in o + 1 .. Len(t) /\ f >= e /\ f # e
  BY <1>1
<1> QED
  BY <1>2, <1>3, Zenon DEF Longest

WordStart(c) == c \in Letter \cup {"_"}

LEMMA WordLongest ==
    ASSUME NEW t \in Seq(Char), NEW o \in Nat, NEW e \in o + 1 .. Len(t),
           WordStart(t[o + 1]), Run(t, o, e, WordChar),
           e < Len(t) => t[e + 1] \notin WordChar
    PROVE  Longest(t, o, e, TypeOf(SubSeq(t, o + 1, e)))
<1> DEFINE S(f) == SubSeq(t, o + 1, f)
<1>1. Len(t) \in Nat /\ e \in Nat
  BY LenProperties
<1>2. ASSUME NEW f \in o + 1 .. Len(t), f >= e
      PROVE  Types(S(f)) = IF f = e THEN {TypeOf(S(f))} ELSE {}
  <2>1. /\ Len(S(f)) = f - o /\ Len(S(f)) \in Nat /\ Len(S(f)) > 0
        /\ DOMAIN S(f) = 1 .. Len(S(f)) /\ S(f)[1] = t[o + 1]
        /\ \A i \in 1 .. Len(S(f)) : S(f)[i] = t[o + i]
    BY PieceLemma
  <2> HIDE DEF S
  <2>2. Types(S(f)) = IF AllWord(S(f)) THEN {TypeOf(S(f))} ELSE {}
    BY <2>1, WordTypes, Zenon DEF WordStart
  <2>3. AllWord(S(f)) <=> f = e
    <3>1. ASSUME f = e
          PROVE  AllWord(S(f))
      <4>1. \A i \in 1 .. Len(S(f)) : o + i \in o + 1 .. e
        BY <1>1, <2>1, <3>1
      <4> QED
        BY <2>1, <4>1, Zenon DEF AllWord, Run
    <3>2. ASSUME f # e
          PROVE  ~ AllWord(S(f))
      <4>1. PICK i \in 1 .. Len(S(f)) : o + i = e + 1
        <5>1. e + 1 - o \in 1 .. Len(S(f)) /\ o + (e + 1 - o) = e + 1
          BY <1>1, <1>2, <2>1, <3>2
        <5> QED
          BY <5>1, Zenon
      <4>2. e < Len(t)
        BY <1>1, <1>2, <3>2
      <4> QED
        BY <2>1, <4>1, <4>2, Zenon DEF AllWord
    <3> QED
      BY <3>1, <3>2
  <2> QED
    BY <2>2, <2>3, Zenon
<1>3. /\ e \in o + 1 .. Len(t) /\ e >= e
      /\ \A f \in e + 1 .. Len(t) : f \in o + 1 .. Len(t) /\ f >= e /\ f # e
  BY <1>1
<1> QED
  BY <1>2, <1>3, Zenon DEF Longest

\* The types of the pieces that start with a quote.
LEMMA StringPiece ==
    ASSUME NEW t \in Seq(Char), NEW o \in Nat, t[o + 1] = Quote,
           NEW f \in o + 1 .. Len(t)
    PROVE  Types(SubSeq(t, o + 1, f)) =
               IF /\ f > o + 1 /\ t[f] = Quote
                  /\ \A p \in o + 2 .. f - 1 : t[p] # Quote
               THEN {"STRING"} ELSE {}
<1> DEFINE s == SubSeq(t, o + 1, f)
<1>1. /\ Len(s) = f - o /\ Len(s) \in Nat /\ Len(s) > 0
      /\ DOMAIN s = 1 .. Len(s) /\ s[1] = t[o + 1]
      /\ \A i \in 1 .. Len(s) : s[i] = t[o + i]
  BY PieceLemma
<1> HIDE DEF s
<1>2. Types(s) = IF Len(s) > 1 /\ Quotes(s) = {1, Len(s)} THEN {"STRING"} ELSE {}
  BY <1>1, StringTypes, Zenon
<1>3. Len(t) \in Nat /\ f \in Nat
  BY LenProperties
<1>4. ASSUME f > o + 1, t[f] = Quote, \A p \in o + 2 .. f - 1 : t[p] # Quote
      PROVE  Len(s) > 1 /\ Quotes(s) = {1, Len(s)}
  <2>1. Len(s) > 1 /\ o + Len(s) = f /\ 1 \in 1 .. Len(s) /\ Len(s) \in 1 .. Len(s)
    BY <1>1, <1>3, <1>4
  <2>2. s[Len(s)] = Quote /\ s[1] = Quote
    BY <1>1, <1>4, <2>1, Zenon
  <2>3. ASSUME NEW i \in 1 .. Len(s), i # 1, i # Len(s)
        PROVE  s[i] # Quote
    <3>1. o + i \in o + 2 .. f - 1
      BY <1>1, <1>3, <2>3
    <3> QED
      BY <1>1, <1>4, <3>1, Zenon
  <2> QED
    BY <1>1, <2>1, <2>2, <2>3 DEF Quotes
<1>5. ASSUME Len(s) > 1, Quotes(s) = {1, Len(s)}
      PROVE  /\ f > o + 1 /\ t[f] = Quote
             /\ \A p \in o + 2 .. f - 1 : t[p] # Quote
  <2>1. o + Len(s) = f /\ Len(s) \in 1 .. Len(s) /\ f > o + 1
    BY <1>1, <1>3, <1>5
  <2>2. s[Len(s)] = Quote
    BY <1>5 DEF Quotes
  <2>3. t[f] = Quote
    BY <1>1, <2>1, <2>2, Zenon
  <2>4. ASSUME NEW p \in o + 2 .. f - 1
        PROVE  t[p] # Quote
    <3>1. PICK i \in 1 .. Len(s) : o + i = p /\ i # 1 /\ i # Len(s)
      <4>1. p - o \in 1 .. Len(s) /\ o + (p - o) = p /\ p - o # 1 /\ p - o # Len(s)
        BY <1>1, <1>3
      <4> QED
        BY <4>1, Zenon
    <3>2. s[i] # Quote
      BY <1>1, <1>5, <3>1 DEF Quotes
    <3> QED
      BY <1>1, <3>1, <3>2, Zenon
  <2> QED
    BY <2>1, <2>3, <2>4, Zenon
<1>6. Types(s) = IF /\ f > o + 1 /\ t[f] = Quote
                    /\ \A p \in o + 2 .. f - 1 : t[p] # Quote
                 THEN {"STRING"} ELSE {}
  BY <1>2, <1>4, <1>5, Zenon
<1> QED
  BY <1>6 DEF s

\* No quote from offset a to offset b.
Unquoted(t, a, b) == \A p \in a + 1 .. b : t[p] # Quote

LEMMA StringLongest ==
    ASSUME NEW t \in Seq(Char), NEW o \in Nat, NEW e \in Nat, o + 1 <= e,
           t[o + 1] = Quote, Unquoted(t, o + 1, e)
    PROVE  /\ e < Len(t) /\ t[e + 1] = Quote => Longest(t, o, e + 1, "STRING")
           /\ e = Len(t) => NoLexeme(t, o)
<1>1. Len(t) \in Nat
  BY LenProperties
<1>2. PICK b \in Nat : b = e + 1
  OBVIOUS
<1>3. ASSUME e < Len(t), t[e + 1] = Quote
      PROVE  Longest(t, o, b, "STRING")
  <2>1. /\ b \in o + 1 .. Len(t) /\ b > o + 1 /\ t[b] = Quote
        /\ \A p \in o + 2 .. b - 1 : t[p] # Quote
    BY <1>1, <1>2, <1>3 DEF Unquoted
  <2>2. Types(SubSeq(t, o + 1, b)) = {"STRING"}
    BY <2>1, StringPiece, Zenon
  <2>3. \A f \in b + 1 .. Len(t) : f \in o + 1 .. Len(t) /\ b \in o + 2 .. f - 1
    BY <1>1, <2>1
  <2>4. \A f \in b + 1 .. Len(t) : Types(SubSeq(t, o + 1, f)) = {}
    BY <2>1, <2>3, StringPiece, Zenon
  <2> QED
    BY <2>2, <2>4, Zenon DEF Longest
<1>4. ASSUME e = Len(t)
      PROVE  NoLexeme(t, o)
  <2>1. o < Len(t) /\ \A f \in o + 1 .. Len(t) : f > o + 1 => t[f] # Quote
    BY <1>1, <1>4 DEF Unquoted
  <2> QED
    BY <2>1, StringPiece, Zenon DEF NoLexeme
<1> QED
  BY <1>2, <1>3, <1>4, Zenon

-----------------------------------------------------------------------------
(* The invariant.                                                          *)

TokenLongest(t, token) ==
    token.type # "END_OF_FILE" =>
        Longest(t, OffsetOf(t, token), OffsetOf(t, token) + Len(token.lexeme), token.type)

AllLongest(t, ts) == \A k \in 1 .. Len(ts) : TokenLongest(t, ts[k])

LEMMA AppendLongest ==
    ASSUME NEW t, NEW ts \in Seq(Read), NEW token, AllLongest(t, ts),
           TokenLongest(t, token)
    PROVE  AllLongest(t, Append(ts, token))
<1>1. /\ Len(ts) \in Nat /\ Len(Append(ts, token)) = Len(ts) + 1
      /\ \A k \in 1 .. Len(ts) : Append(ts, token)[k] = ts[k]
      /\ Append(ts, token)[Len(ts) + 1] = token
  BY LenProperties
<1>2. \A k \in 1 .. Len(ts) + 1 : k \in 1 .. Len(ts) \/ k = Len(ts) + 1
  BY <1>1
<1> QED
  BY <1>1, <1>2, Zenon DEF AllLongest

\* What is known of the characters read of a token.
ReadInv ==
    /\ scanning = "number" =>
          start + 1 <= current /\ Run(src, start, current, Digit)
    /\ scanning = "identifier" =>
          /\ start + 1 <= current /\ WordStart(src[start + 1])
          /\ Run(src, start, current, WordChar)
    /\ scanning = "stringLit" =>
          /\ start + 1 <= current /\ src[start + 1] = Quote
          /\ Unquoted(src, start + 1, current)

RefusedInv ==
    scanning = "failed" =>
        \E o \in 0 .. Len(src) : IsPlace(src, o, refusal) /\ NoLexeme(src, o)

LexemeInv == LexerInv /\ AllLongest(src, lexed) /\ ReadInv /\ RefusedInv

LEMMA LexemeTypes ==
    ASSUME LexemeInv
    PROVE  /\ LexerInv /\ LexerTypeOK /\ AllLongest(src, lexed) /\ ReadInv
           /\ src \in Seq(Char) /\ Len(src) \in Nat
           /\ current \in Nat /\ start \in Nat /\ start <= current /\ current <= Len(src)
           /\ scanning = "scanToken" => start = current /\ current < Len(src)
<1>1. LexerInv /\ LexerTypeOK /\ AllLongest(src, lexed) /\ ReadInv
      /\ (scanning = "scanToken" => start = current /\ current < Len(src))
  BY DEF LexemeInv, LexerInv, TextInv, PlaceInv
<1> QED
  BY <1>1, TextsLemma, Zenon

\* A token that is the longest lexeme at its place is added.
LEMMA AddLongest ==
    ASSUME LexemeInv, scanning \in Reading, NEW type, NEW n \in {0, 1, 2},
           AddToken(type, n), current + n <= Len(src),
           Longest(src, start, current + n, type)
    PROVE  (AllLongest(src, lexed) /\ ReadInv /\ RefusedInv)'
<1> DEFINE token == Made(type, n)
<1>1. /\ LexerTypeOK /\ AllLongest(src, lexed) /\ IsPlace(src, start, TokenPlace)
      /\ Len(src) \in Nat /\ start \in 0 .. Len(src) /\ lexed \in Seq(Read)
      /\ Len(lexed) \in Nat
  BY LexemeTypes, TextsLemma DEF LexemeInv, LexerInv, TextInv, PlaceInv
<1>2. lexed' = Append(lexed, token) /\ scanning' = "skipping" /\ src' = src
  BY Zenon DEF AddToken
<1>3. /\ token.lexeme = Lexeme(n) /\ token.type = type
      /\ token.line = TokenPlace.line /\ token.column = TokenPlace.column
  BY DEF Made, TokenPlace
<1>4. start + Len(Lexeme(n)) = current + n
  BY <1>1, LexemeLemma
<1> HIDE DEF token
<1>5. OffsetOf(src, token) = start
  <2>1. IsPlace(src, start, token)
    BY <1>1, <1>3, Zenon DEF IsPlace
  <2> QED
    BY <1>1, <2>1, OffsetUnique
<1>6. TokenLongest(src, token)
  BY <1>3, <1>4, <1>5, Zenon DEF TokenLongest
<1>7. AllLongest(src, Append(lexed, token))
  BY <1>1, <1>6, AppendLongest
<1> QED
  BY <1>2, <1>7, Zenon DEF ReadInv, RefusedInv

\* No lexeme starts where a token is refused.
LEMMA RefuseLongest ==
    ASSUME LexemeInv, scanning \in Reading, NEW n, Refuse(n, TokenPlace),
           NoLexeme(src, start)
    PROVE  (AllLongest(src, lexed) /\ ReadInv /\ RefusedInv)'
<1>1. /\ AllLongest(src, lexed) /\ IsPlace(src, start, TokenPlace)
      /\ start \in 0 .. Len(src)
  BY LexemeTypes DEF LexemeInv, LexerInv, TextInv, PlaceInv
<1>2. /\ scanning' = "failed" /\ refusal' = TokenPlace /\ src' = src /\ lexed' = lexed
  BY Zenon DEF Refuse
<1>3. AllLongest(src, lexed)' /\ RefusedInv'
  BY <1>1, <1>2, Zenon DEF RefusedInv
<1> QED
  BY <1>2, <1>3, Zenon DEF ReadInv

\* Nothing is known, and nothing needed, between tokens.
LEMMA BetweenTokens ==
    ASSUME LexemeInv, src' = src, lexed' = lexed,
           scanning' \in {"skipping", "comment", "scanToken"}
    PROVE  (AllLongest(src, lexed) /\ ReadInv /\ RefusedInv)'
<1>1. AllLongest(src, lexed)'
  BY Zenon DEF LexemeInv
<1> QED
  BY <1>1 DEF ReadInv, RefusedInv

\* A token that goes on: one character more has been read of it.
LEMMA RunNext ==
    ASSUME NEW t, NEW a \in Nat, NEW b \in Nat, NEW set
    PROVE  /\ Run(t, a, a, set)
           /\ Run(t, a, b, set) /\ t[b + 1] \in set => Run(t, a, b + 1, set)
           /\ Unquoted(t, a, a)
           /\ Unquoted(t, a, b) /\ t[b + 1] # Quote => Unquoted(t, a, b + 1)
<1>1. \A p : p \in a + 1 .. a => FALSE
  OBVIOUS
<1>2. \A p \in a + 1 .. b + 1 : p \in a + 1 .. b \/ p = b + 1
  OBVIOUS
<1> QED
  BY <1>1, <1>2, Zenon DEF Run, Unquoted

LEMMA SingleLexeme ==
    ASSUME LexemeInv, ScanSingle
    PROVE  (AllLongest(src, lexed) /\ ReadInv /\ RefusedInv)'
<1>1. scanning = "scanToken" /\ scanning \in Reading /\ Next1 \in DOMAIN Single
      /\ AddToken(Single[Next1], 1) /\ 1 \in {0, 1, 2}
  BY DEF ScanSingle, Reading
<1>2. start = current /\ current < Len(src) /\ src[current + 1] = Next1
      /\ current + 1 <= Len(src)
  BY <1>1, LexemeTypes, AheadLemma DEF IsAtEnd
<1>3. Longest(src, start, current + 1, Single[Next1])
  BY <1>1, <1>2, LexemeTypes, SingleLongest, Zenon
<1> QED
  BY <1>1, <1>2, <1>3, AddLongest, Zenon

LEMMA PairLexeme ==
    ASSUME LexemeInv, ScanPair
    PROVE  (AllLongest(src, lexed) /\ ReadInv /\ RefusedInv)'
<1>1. scanning = "scanToken" /\ scanning \in Reading /\ Next1 \in DOMAIN WithEqual
  BY DEF ScanPair, Reading
<1>2. start = current /\ current < Len(src) /\ src[current + 1] = Next1
      /\ current + 1 <= Len(src) /\ current \in Nat /\ src \in Seq(Char)
  BY <1>1, LexemeTypes, AheadLemma DEF IsAtEnd
<1>3. /\ Next2 = "=" => current + 1 < Len(src) /\ src[current + 2] = "="
      /\ Next2 # "=" => (current + 1 < Len(src) => src[current + 2] # "=")
  BY <1>2, LexemeTypes DEF Next2
<1>4. CASE Next2 = "=" /\ AddToken(WithEqual[Next1], 2)
  <2>1. Longest(src, start, current + 2, WithEqual[Next1])
    BY <1>1, <1>2, <1>3, <1>4, PairLongest, Zenon
  <2>2. 2 \in {0, 1, 2} /\ current + 2 <= Len(src)
    BY <1>2, <1>3, <1>4, LexemeTypes
  <2> QED
    BY <1>1, <1>4, <2>1, <2>2, AddLongest, Zenon
<1>5. CASE Next2 # "=" /\ Next1 \in DOMAIN Alone /\ AddToken(Alone[Next1], 1)
  <2>1. Longest(src, start, current + 1, Alone[Next1])
    BY <1>1, <1>2, <1>3, <1>5, PairLongest, Zenon
  <2>2. 1 \in {0, 1, 2}
    OBVIOUS
  <2> QED
    BY <1>1, <1>2, <1>5, <2>1, <2>2, AddLongest, Zenon
<1>6. CASE Next2 # "=" /\ Next1 \notin DOMAIN Alone /\ Refuse(1, TokenPlace)
  <2>1. NoLexeme(src, start)
    BY <1>1, <1>2, <1>3, <1>6, PairLongest, Zenon
  <2> QED
    BY <1>1, <1>6, <2>1, RefuseLongest, Zenon
<1> QED
  BY <1>4, <1>5, <1>6 DEF ScanPair

LEMMA LongerLexeme ==
    ASSUME LexemeInv, ScanLonger
    PROVE  (AllLongest(src, lexed) /\ ReadInv /\ RefusedInv)'
<1>1. scanning = "scanToken"
  BY DEF ScanLonger
<1>2. start = current /\ src[current + 1] = Next1 /\ current \in Nat
      /\ start + 1 = current + 1 /\ start + 1 <= current + 1 /\ current + 1 \in Nat
  BY <1>1, LexemeTypes, AheadLemma DEF IsAtEnd
<1>3. /\ src' = src /\ start' = start /\ current' = current + 1 /\ lexed' = lexed
      /\ \/ Next1 = Quote /\ scanning' = "stringLit"
         \/ Next1 \in Digit /\ scanning' = "number"
         \/ WordStart(Next1) /\ scanning' = "identifier"
  BY DEF ScanLonger, Advance, WordStart
<1>4. AllLongest(src, lexed)' /\ RefusedInv'
  BY <1>3 DEF LexemeInv, RefusedInv
<1>5. \A c : WordStart(c) => c \in WordChar
  BY DEF WordStart, WordChar, AlphaNum
<1>6. /\ Unquoted(src, start + 1, current + 1)
      /\ Next1 \in Digit => Run(src, start, current + 1, Digit)
      /\ WordStart(Next1) => Run(src, start, current + 1, WordChar)
  BY <1>2, <1>5, RunNext, Zenon
<1>7. ReadInv'
  BY <1>2, <1>3, <1>6 DEF ReadInv
<1> QED
  BY <1>4, <1>7

LEMMA OtherLexeme ==
    ASSUME LexemeInv, ScanOther
    PROVE  (AllLongest(src, lexed) /\ ReadInv /\ RefusedInv)'
<1>1. scanning = "scanToken" /\ scanning \in Reading /\ Refuse(1, TokenPlace)
  BY DEF ScanOther, Reading
<1>2. start = current /\ current < Len(src) /\ src[current + 1] = Next1
  BY <1>1, LexemeTypes, AheadLemma DEF IsAtEnd
<1>3. NoLexeme(src, start)
  BY <1>2, LexemeTypes, OtherLongest, Zenon DEF ScanOther
<1> QED
  BY <1>1, <1>3, RefuseLongest, Zenon

\* A function that reads on, and what it has then read.
LEMMA OnLexeme ==
    ASSUME LexemeInv, scanning \in {"number", "identifier", "stringLit"}, src' = src,
           start' = start, current' = current + 1, lexed' = lexed, scanning' = scanning,
           scanning = "number" => src[current + 1] \in Digit,
           scanning = "identifier" => src[current + 1] \in WordChar,
           scanning = "stringLit" => src[current + 1] # Quote
    PROVE  (AllLongest(src, lexed) /\ ReadInv /\ RefusedInv)'
<1>1. AllLongest(src, lexed)' /\ RefusedInv'
  BY DEF LexemeInv, RefusedInv
<1>2. start \in Nat /\ start + 1 \in Nat /\ current \in Nat
      /\ (start + 1 <= current => start + 1 <= current + 1)
  BY LexemeTypes
<1>3. ReadInv
  BY DEF LexemeInv
<1>4. ReadInv'
  <2>1. CASE scanning = "number"
    BY <1>2, <1>3, <2>1, RunNext, Zenon DEF ReadInv
  <2>2. CASE scanning = "identifier"
    BY <1>2, <1>3, <2>2, RunNext, Zenon DEF ReadInv
  <2>3. CASE scanning = "stringLit"
    BY <1>2, <1>3, <2>3, RunNext, Zenon DEF ReadInv
  <2> QED
    BY <2>1, <2>2, <2>3
<1> QED
  BY <1>1, <1>4

LEMMA NumberLexeme ==
    ASSUME LexemeInv, ScanNumber
    PROVE  (AllLongest(src, lexed) /\ ReadInv /\ RefusedInv)'
<1>1. /\ scanning = "number" /\ scanning \in Reading
      /\ scanning \in {"number", "identifier", "stringLit"}
  BY DEF ScanNumber, Reading
<1>2. start + 1 <= current /\ Run(src, start, current, Digit)
  BY <1>1 DEF LexemeInv, ReadInv
<1>3. CASE Next1 \in Digit /\ Advance(1, "number")
  <2>1. Next1 # "NUL"
    BY <1>3, CharactersAssumption
  <2>2. src[current + 1] \in Digit
    BY <1>3, <2>1, LexemeTypes, AheadLemma, Zenon
  <2> QED
    BY <1>1, <1>3, <2>2, OnLexeme DEF Advance
<1>4. CASE Next1 \notin Digit /\ AddToken("NUMBER", 0)
  <2>1. current < Len(src) => src[current + 1] \notin Digit
    BY <1>4, LexemeTypes DEF Next1, IsAtEnd
  <2>2. current \in start + 1 .. Len(src) /\ current + 0 = current /\ 0 \in {0, 1, 2}
        /\ current + 0 <= Len(src)
    BY <1>2, LexemeTypes
  <2>3. Longest(src, start, current, "NUMBER")
    BY <1>2, <2>1, <2>2, LexemeTypes, NumberLongest, Zenon
  <2> QED
    BY <1>1, <1>4, <2>2, <2>3, AddLongest, Zenon
<1> QED
  BY <1>3, <1>4 DEF ScanNumber

LEMMA IdentifierLexeme ==
    ASSUME LexemeInv, ScanIdentifier
    PROVE  (AllLongest(src, lexed) /\ ReadInv /\ RefusedInv)'
<1>1. /\ scanning = "identifier" /\ scanning \in Reading
      /\ scanning \in {"number", "identifier", "stringLit"}
  BY DEF ScanIdentifier, Reading
<1>2. start + 1 <= current /\ WordStart(src[start + 1])
      /\ Run(src, start, current, WordChar)
  BY <1>1 DEF LexemeInv, ReadInv
<1>3. CASE Next1 \in WordChar /\ Advance(1, "identifier")
  <2>1. Next1 # "NUL"
    BY <1>3, CharactersAssumption DEF WordChar, AlphaNum
  <2>2. src[current + 1] \in WordChar
    BY <1>3, <2>1, LexemeTypes, AheadLemma, Zenon
  <2> QED
    BY <1>1, <1>3, <2>2, OnLexeme DEF Advance
<1>4. CASE Next1 \notin WordChar /\ AddToken(TypeOf(Lexeme(0)), 0)
  <2>1. current < Len(src) => src[current + 1] \notin WordChar
    BY <1>4, LexemeTypes DEF Next1, IsAtEnd
  <2>2. current \in start + 1 .. Len(src) /\ current + 0 = current /\ 0 \in {0, 1, 2}
        /\ current + 0 <= Len(src)
    BY <1>2, LexemeTypes
  <2>3. Longest(src, start, current, TypeOf(SubSeq(src, start + 1, current)))
    BY <1>2, <2>1, <2>2, LexemeTypes, WordLongest, Zenon
  <2>4. Longest(src, start, current + 0, TypeOf(Lexeme(0)))
    BY <2>2, <2>3, Zenon DEF Lexeme
  <2> QED
    BY <1>1, <1>4, <2>2, <2>4, AddLongest, Zenon
<1> QED
  BY <1>3, <1>4, Zenon DEF ScanIdentifier, WordChar

LEMMA StringLexeme ==
    ASSUME LexemeInv, ScanString
    PROVE  (AllLongest(src, lexed) /\ ReadInv /\ RefusedInv)'
<1>1. /\ scanning = "stringLit" /\ scanning \in Reading
      /\ scanning \in {"number", "identifier", "stringLit"}
  BY DEF ScanString, Reading
<1>2. start + 1 <= current /\ src[start + 1] = Quote
      /\ Unquoted(src, start + 1, current)
  BY <1>1 DEF LexemeInv, ReadInv
<1>3. ~IsAtEnd => current < Len(src) /\ src[current + 1] = Next1
  BY LexemeTypes, AheadLemma, Zenon
<1>4. CASE IsAtEnd /\ Refuse(0, UnclosedAt)
  <2>1. current = Len(src)
    BY <1>4, LexemeTypes DEF IsAtEnd
  <2>2. NoLexeme(src, start)
    BY <1>2, <2>1, LexemeTypes, StringLongest, Zenon
  <2> QED
    BY <1>1, <1>4, <2>2, RefuseLongest, Zenon DEF UnclosedAt
<1>5. CASE ~IsAtEnd /\ Next1 = Newline /\ BreakLine("stringLit")
  <2>1. src[current + 1] # Quote
    BY <1>3, <1>5 DEF Newline, Quote
  <2> QED
    BY <1>1, <1>5, <2>1, OnLexeme DEF BreakLine
<1>6. CASE ~IsAtEnd /\ Next1 = Quote /\ AddToken("STRING", 1)
  <2>1. current < Len(src) /\ src[current + 1] = Quote
    BY <1>3, <1>6
  <2>2. Longest(src, start, current + 1, "STRING")
    BY <1>2, <2>1, LexemeTypes, StringLongest, Zenon
  <2>3. 1 \in {0, 1, 2} /\ current + 1 <= Len(src)
    BY <2>1, LexemeTypes
  <2> QED
    BY <1>1, <1>6, <2>2, <2>3, AddLongest, Zenon
<1>7. CASE ~IsAtEnd /\ Next1 \notin {Newline, Quote} /\ Advance(1, "stringLit")
  <2>1. src[current + 1] # Quote
    BY <1>3, <1>7
  <2> QED
    BY <1>1, <1>7, <2>1, OnLexeme DEF Advance
<1> QED
  BY <1>4, <1>5, <1>6, <1>7 DEF ScanString

\* Between tokens nothing is read of one.
LEMMA SkippingLexeme ==
    ASSUME LexemeInv, Skipping
    PROVE  (AllLongest(src, lexed) /\ ReadInv /\ RefusedInv)'
<1>1. CASE EndTokens
  <2>1. /\ lexed' = Append(lexed, EndToken) /\ src' = src /\ scanning' = "done"
        /\ EndToken.type = "END_OF_FILE"
    BY <1>1 DEF EndTokens, EndToken
  <2>2. TokenLongest(src, EndToken)
    BY <2>1 DEF TokenLongest
  <2>3. AllLongest(src, Append(lexed, EndToken))
    BY <2>2, LexemeTypes, TextsLemma, AppendLongest
  <2> QED
    BY <2>1, <2>3, Zenon DEF ReadInv, RefusedInv
<1>2. CASE SkipBlank \/ SkipLine \/ BeginComment \/ Comment \/ BeginToken
  <2>1. /\ src' = src /\ lexed' = lexed
        /\ scanning' \in {"skipping", "comment", "scanToken"}
    BY <1>2 DEF SkipBlank, SkipLine, BeginComment, Comment, BeginToken, Advance,
                BreakLine
  <2> QED
    BY <2>1, BetweenTokens
<1> QED
  BY <1>1, <1>2 DEF Skipping

LEMMA LexemeStep ==
    ASSUME LexemeInv, [LexerNext]_lexerVars
    PROVE  LexemeInv'
<1>1. LexerInv'
  BY LexerStep DEF LexemeInv
<1>2. CASE Skipping
  BY <1>1, <1>2, SkippingLexeme DEF LexemeInv
<1>3. CASE ScanToken
  <2>1. (AllLongest(src, lexed) /\ ReadInv /\ RefusedInv)'
    BY <1>3, SingleLexeme, PairLexeme, LongerLexeme, OtherLexeme, NumberLexeme,
       IdentifierLexeme, StringLexeme DEF ScanToken
  <2> QED
    BY <1>1, <2>1 DEF LexemeInv
<1>4. CASE UNCHANGED lexerVars
  BY <1>1, <1>4 DEF lexerVars, LexemeInv, ReadInv, RefusedInv
<1> QED
  BY <1>2, <1>3, <1>4 DEF LexerNext

LEMMA LexemeAlways == LexerSpec => []LexemeInv
<1>1. LexerInit => LexemeInv
  <2>1. ASSUME LexerInit
        PROVE  LexemeInv
    <3>1. LexerInv
      BY <2>1, InitInv
    <3> QED
      BY <2>1, <3>1 DEF LexerInit, LexemeInv, AllLongest, ReadInv, RefusedInv
  <2> QED
    BY <2>1
<1> QED
  BY <1>1, LexemeStep, PTL DEF LexerSpec

-----------------------------------------------------------------------------
(* The theorems.                                                           *)

\* Whatever the text and the keywords, every token is the longest lexeme at
\* its place and has its type.
THEOREM MunchAlways == LexerSpec => []MaximalMunch
<1>1. ASSUME LexemeInv
      PROVE  MaximalMunch
  <2>1. DOMAIN lexed = 1 .. Len(lexed) /\ AllLongest(src, lexed)
    BY <1>1, LexemeTypes, TextsLemma, LenProperties
  <2>2. ASSUME NEW k \in DOMAIN lexed, lexed[k].type # "END_OF_FILE"
        PROVE  Longest(src, Begin(k), End(k), lexed[k].type)
    <3>1. k # 0 /\ TokenLongest(src, lexed[k])
      BY <2>1 DEF AllLongest
    <3> QED
      BY <2>2, <3>1, Zenon DEF TokenLongest, Begin, End
  <2>3. \A k \in DOMAIN lexed : lexed[k].type # "END_OF_FILE" =>
            lexed[k].lexeme = SubSeq(src, Begin(k) + 1, End(k))
    <3>1. \A k \in DOMAIN lexed : k # 0 /\ InText(src, lexed, k)
      BY <1>1, <2>1 DEF LexemeInv, LexerInv, TextInv, AllInText
    <3> QED
      BY <3>1, Zenon DEF InText, StandsAt, Begin, End
  <2> QED
    BY <2>2, <2>3, Zenon DEF MaximalMunch, Longest
<1> QED
  BY <1>1, LexemeAlways, PTL

\* Whatever the text, it is refused only at a character where no lexeme starts.
THEOREM RefusalAlways == LexerSpec => []RefusalExact
<1>1. ASSUME LexemeInv
      PROVE  RefusalExact
  <2>1. ASSUME scanning = "failed"
        PROVE  NoLexeme(src, OffsetOf(src, refusal))
    <3>1. PICK o \in 0 .. Len(src) : IsPlace(src, o, refusal) /\ NoLexeme(src, o)
      BY <1>1, <2>1 DEF LexemeInv, RefusedInv
    <3>2. OffsetOf(src, refusal) = o
      BY <1>1, <3>1, LexemeTypes, OffsetUnique
    <3> QED
      BY <3>1, <3>2, Zenon
  <2> QED
    BY <2>1, Zenon DEF RefusalExact, NoLexeme
<1> QED
  BY <1>1, LexemeAlways, PTL

-----------------------------------------------------------------------------
(* The expansion of tabs.  The reporter's loops are recursive functions.   *)

LEMMA MinOfTwo ==
    ASSUME NEW a \in Int, NEW b \in Int
    PROVE  Min({a, b}) = IF a <= b THEN a ELSE b
<1> DEFINE m == IF a <= b THEN a ELSE b
<1>1. m \in {a, b} /\ \A y \in {a, b} : m <= y
  OBVIOUS
<1>2. \A x \in {a, b} : (\A y \in {a, b} : x <= y) => x = m
  OBVIOUS
<1> HIDE DEF m
<1>3. Min({a, b}) = m
  BY <1>1, <1>2, Zenon DEF Min
<1> QED
  BY <1>3 DEF m

Cells(c) == IF c = "\t" THEN Width ELSE 1
Shown(c) == IF c = "\t" THEN [j \in 1 .. Width |-> " "] ELSE <<c>>

\* The two loops over a line, by the number of characters behind them.
Visuals(raw) ==
    CHOOSE visual : visual = [n \in 0 .. Len(raw) |->
                                 IF n = 0 THEN 0 ELSE visual[n - 1] + Cells(raw[n])]
Expansions(s) ==
    CHOOSE out : out = [n \in 0 .. Len(s) |->
                           IF n = 0 THEN << >> ELSE out[n - 1] \o Shown(s[n])]

LEMMA LoopsNamed ==
    ASSUME NEW raw, NEW column
    PROVE  /\ VisualColumn(raw, column) = Visuals(raw)[Min({column - 1, Len(raw)})]
           /\ ExpandTabs(raw) = Expansions(raw)[Len(raw)]
BY Zenon DEF VisualColumn, ExpandTabs, Visuals, Expansions, Cells, Shown

LEMMA VisualsLemma ==
    ASSUME NEW raw, Len(raw) \in Nat
    PROVE  /\ Visuals(raw) \in [0 .. Len(raw) -> Nat]
           /\ Visuals(raw)[0] = 0
           /\ \A n \in 1 .. Len(raw) :
                  Visuals(raw)[n] = Visuals(raw)[n - 1] + Cells(raw[n])
<1> DEFINE N == Len(raw)
<1> DEFINE G == [p \in (1 .. N) \X Nat |-> p[2] + Cells(raw[p[1]])]
<1>1. G \in [(1 .. N) \X Nat -> Nat] /\ N \in Nat /\ 0 \in Nat
  BY DEF Cells, Width
<1> HIDE DEF N, G
<1>2. PICK f \in [0 .. N -> Nat] : IsLoop(f, N, 0, G)
  BY <1>1, Loop, Zenon
<1>3. \A n \in 0 .. N : n # 0 => G[<<n, f[n - 1]>>] = f[n - 1] + Cells(raw[n])
  <2> TAKE n \in 0 .. N
  <2> HAVE n # 0
  <2>1. n \in 1 .. N /\ n - 1 \in 0 .. N
    BY <1>1
  <2>2. <<n, f[n - 1]>> \in (1 .. N) \X Nat
    BY <2>1
  <2> QED
    BY <2>2 DEF G
<1>4. f = [n \in 0 .. N |-> IF n = 0 THEN 0 ELSE f[n - 1] + Cells(raw[n])]
  BY <1>2, <1>3, Zenon DEF IsLoop
<1>5. PICK v : v = Visuals(raw)
  OBVIOUS
<1>6. v = [n \in 0 .. N |-> IF n = 0 THEN 0 ELSE v[n - 1] + Cells(raw[n])]
  BY <1>4, <1>5, Zenon DEF Visuals, N
<1>7. v[0] = 0 /\ \A n \in 1 .. N : v[n] = v[n - 1] + Cells(raw[n])
  <2>1. 0 \in 0 .. N /\ \A n \in 1 .. N : n \in 0 .. N /\ n # 0
    BY <1>1
  <2> QED
    BY <1>6, <2>1, Zenon
<1>8. \A n \in 0 .. N : v[n] \in Nat
  <2> DEFINE S == {n \in 0 .. N : v[n] \in Nat}
  <2>1. 0 \in S
    BY <1>1, <1>7
  <2>2. ASSUME NEW n \in 1 .. N, n - 1 \in S
        PROVE  n \in S
    <3>1. v[n - 1] \in Nat /\ v[n] = v[n - 1] + Cells(raw[n]) /\ n \in 0 .. N
      BY <1>1, <1>7, <2>2
    <3>2. v[n] \in Nat
      BY <3>1 DEF Cells, Width
    <3> QED
      BY <3>1, <3>2
  <2> HIDE DEF S
  <2>3. \A n \in 0 .. N : n \in S
    BY <1>1, <2>1, <2>2, InductionTo, Zenon
  <2> QED
    BY <2>3 DEF S
<1>9. v \in [0 .. N -> Nat]
  BY <1>6, <1>8
<1> QED
  BY <1>5, <1>7, <1>9, Zenon DEF N

\* What a line is expanded to.
Printable == Char \cup {" "}

LEMMA ConstantSeq ==
    ASSUME NEW S, NEW x \in S, NEW n \in Nat
    PROVE  /\ [j \in 1 .. n |-> x] \in Seq(S)
           /\ Len([j \in 1 .. n |-> x]) = n
           /\ \A j \in 1 .. n : [k \in 1 .. n |-> x][j] = x
<1>1. PICK f \in [1 .. n -> S] : f = [j \in 1 .. n |-> x]
  OBVIOUS
<1>2. f \in Seq(S)
  BY SeqDef
<1>3. Len(f) \in Nat /\ DOMAIN f = 1 .. Len(f) /\ DOMAIN f = 1 .. n
  BY <1>2, LenProperties
<1>4. Len(f) = n
  BY <1>3
<1> QED
  BY <1>1, <1>2, <1>4

LEMMA ShownLemma ==
    ASSUME NEW c \in Char
    PROVE  /\ Shown(c) \in Seq(Printable) /\ Len(Shown(c)) = Cells(c) /\ Cells(c) > 0
           /\ Shown(c)[1] = IF c = "\t" THEN " " ELSE c
<1>1. CASE c = "\t"
  <2>1. PICK blank \in Printable : blank = " "
    BY DEF Printable
  <2>2. Shown(c) = [j \in 1 .. Width |-> blank]
    BY <1>1, <2>1, Zenon DEF Shown
  <2>3. Cells(c) = Width /\ Width \in Nat /\ Width > 0 /\ 1 \in 1 .. Width
    BY <1>1 DEF Cells, Width
  <2>4. PICK b : b = [j \in 1 .. Width |-> blank]
    OBVIOUS
  <2>5. b \in Seq(Printable) /\ Len(b) = Width /\ \A j \in 1 .. Width : b[j] = blank
    BY <2>3, <2>4, ConstantSeq
  <2> QED
    BY <1>1, <2>1, <2>2, <2>3, <2>4, <2>5, Zenon
<1>2. CASE c # "\t"
  <2>1. Shown(c) = <<c>> /\ Cells(c) = 1 /\ c \in Printable
    BY <1>2 DEF Shown, Cells, Printable
  <2> QED
    BY <1>2, <2>1
<1> QED
  BY <1>1, <1>2

LEMMA ExpansionsLemma ==
    ASSUME NEW s \in Seq(Char)
    PROVE  /\ Expansions(s) \in [0 .. Len(s) -> Seq(Printable)]
           /\ Expansions(s)[0] = << >>
           /\ \A n \in 1 .. Len(s) :
                  Expansions(s)[n] = Expansions(s)[n - 1] \o Shown(s[n])
<1> DEFINE N == Len(s)
<1> DEFINE D == Seq(Printable)
<1> DEFINE G == [p \in (1 .. N) \X D |-> p[2] \o Shown(s[p[1]])]
<1>1. N \in Nat /\ << >> \in D /\ \A n \in 1 .. N : s[n] \in Char
  BY LenProperties, ElementOfSeq, EmptySeq
<1>2. \A n \in 1 .. N : \A e \in D : e \o Shown(s[n]) \in D
  BY <1>1, ShownLemma, ConcatProperties
<1>3. G \in [(1 .. N) \X D -> D]
  BY <1>2
<1> HIDE DEF N, G, D
<1>4. PICK f \in [0 .. N -> D] : IsLoop(f, N, << >>, G)
  BY <1>1, <1>3, Loop, Zenon
<1>5. \A n \in 0 .. N : n # 0 => G[<<n, f[n - 1]>>] = f[n - 1] \o Shown(s[n])
  <2> TAKE n \in 0 .. N
  <2> HAVE n # 0
  <2>1. n \in 1 .. N /\ n - 1 \in 0 .. N
    BY <1>1
  <2>2. <<n, f[n - 1]>> \in (1 .. N) \X D
    BY <2>1
  <2> QED
    BY <2>2 DEF G
<1>6. f = [n \in 0 .. N |-> IF n = 0 THEN << >> ELSE f[n - 1] \o Shown(s[n])]
  BY <1>4, <1>5, Zenon DEF IsLoop
<1>7. PICK e : e = Expansions(s)
  OBVIOUS
<1>8. e = [n \in 0 .. N |-> IF n = 0 THEN << >> ELSE e[n - 1] \o Shown(s[n])]
  BY <1>6, <1>7, Zenon DEF Expansions, N
<1>9. e[0] = << >> /\ \A n \in 1 .. N : e[n] = e[n - 1] \o Shown(s[n])
  <2>1. 0 \in 0 .. N /\ \A n \in 1 .. N : n \in 0 .. N /\ n # 0
    BY <1>1
  <2> QED
    BY <1>8, <2>1, Zenon
<1>10. \A n \in 0 .. N : e[n] \in D
  <2> DEFINE S == {n \in 0 .. N : e[n] \in D}
  <2>1. 0 \in S
    BY <1>1, <1>9
  <2>2. ASSUME NEW n \in 1 .. N, n - 1 \in S
        PROVE  n \in S
    <3>1. e[n - 1] \in D /\ e[n] = e[n - 1] \o Shown(s[n]) /\ n \in 0 .. N
      BY <1>1, <1>9, <2>2
    <3>2. e[n] \in D
      BY <1>2, <3>1
    <3> QED
      BY <3>1, <3>2
  <2> HIDE DEF S
  <2>3. \A n \in 0 .. N : n \in S
    BY <1>1, <2>1, <2>2, InductionTo, Zenon
  <2> QED
    BY <2>3 DEF S
<1>11. e \in [0 .. N -> D]
  BY <1>8, <1>10
<1> QED
  BY <1>7, <1>9, <1>11, Zenon DEF N, D

\* One more piece of an expansion.
LEMMA ExpandMore ==
    ASSUME NEW e \in Seq(Printable), NEW c \in Seq(Printable), Len(c) > 0
    PROVE  /\ Len(e) \in Nat /\ Len(e \o c) = Len(e) + Len(c)
           /\ \A k \in 1 .. Len(e) : (e \o c)[k] = e[k]
           /\ (e \o c)[Len(e) + 1] = c[1]
BY LenProperties, ConcatProperties

Expanded(c) == IF c = "\t" THEN " " ELSE c

\* The first n characters of s are expanded to e, and counted by v.
Fits(s, e, v, n) ==
    /\ Len(e) = v[n]
    /\ \A i \in 1 .. n : v[i - 1] < v[n] /\ e[v[i - 1] + 1] = Expanded(s[i])

LEMMA FitsNext ==
    ASSUME NEW s, NEW e \in Seq(Printable), NEW N \in Nat, NEW v \in [0 .. N -> Nat],
           NEW m \in 0 .. N, NEW n \in 1 .. N, n = m + 1, Fits(s, e, v, m),
           NEW c \in Seq(Printable), Len(c) > 0, v[n] = v[m] + Len(c),
           c[1] = Expanded(s[n])
    PROVE  Fits(s, e \o c, v, n)
<1>1. Len(e) = v[m] /\ v[m] \in Nat /\ Len(c) \in Nat
  BY LenProperties DEF Fits
<1>2. PICK d : d = e \o c
  OBVIOUS
<1>3. /\ Len(d) = v[m] + Len(c) /\ d[v[m] + 1] = c[1]
      /\ \A k \in 1 .. v[m] : d[k] = e[k]
  BY <1>1, <1>2, ExpandMore, Zenon
<1>4. v[n] \in Nat /\ v[m] < v[n] /\ Len(d) = v[n]
  BY <1>1, <1>3
<1>5. ASSUME NEW i \in 1 .. n
      PROVE  v[i - 1] < v[n] /\ d[v[i - 1] + 1] = Expanded(s[i])
  <2>1. CASE i = n
    <3>1. i - 1 = m
      BY <2>1
    <3> QED
      BY <1>3, <1>4, <2>1, <3>1, Zenon
  <2>2. CASE i # n
    <3>1. i \in 1 .. m /\ i - 1 \in 0 .. N
      BY <2>2
    <3>2. PICK a \in Nat : a = v[i - 1]
      BY <3>1
    <3>3. a < v[m] /\ e[a + 1] = Expanded(s[i])
      BY <3>1, <3>2, Zenon DEF Fits
    <3>4. a + 1 \in 1 .. v[m] /\ a < v[n]
      BY <1>1, <1>4, <3>3, SMTT(30)
    <3>5. d[a + 1] = e[a + 1]
      BY <1>3, <3>4, Zenon
    <3> QED
      BY <3>2, <3>3, <3>4, <3>5, Zenon
  <2> QED
    BY <2>1, <2>2
<1> QED
  BY <1>2, <1>4, <1>5, Zenon DEF Fits

\* The expansion is as long as the loop of the caret counts, and shows every
\* character, or the first blank of a tab, behind what it has counted.
LEMMA CaretLemma ==
    ASSUME NEW s \in Seq(Char)
    PROVE  Fits(s, ExpandTabs(s), Visuals(s), Len(s))
<1>1. PICK N \in Nat : N = Len(s)
  BY LenProperties
<1>2. PICK v \in [0 .. N -> Nat] :
          /\ v = Visuals(s) /\ v[0] = 0
          /\ \A n \in 1 .. N : v[n] = v[n - 1] + Cells(s[n])
  BY <1>1, VisualsLemma
<1>3. PICK e \in [0 .. N -> Seq(Printable)] :
          /\ e = Expansions(s) /\ e[0] = << >>
          /\ \A n \in 1 .. N : e[n] = e[n - 1] \o Shown(s[n])
  BY <1>1, ExpansionsLemma
<1>4. \A n \in 1 .. N : s[n] \in Char
  BY <1>1, ElementOfSeq
<1> DEFINE S == {n \in 0 .. N : Fits(s, e[n], v, n)}
<1>5. 0 \in S
  BY <1>2, <1>3 DEF Fits
<1>6. ASSUME NEW n \in 1 .. N, n - 1 \in S
      PROVE  n \in S
  <2>1. PICK m \in 0 .. N : m = n - 1 /\ Fits(s, e[m], v, m)
    BY <1>6
  <2>2. PICK c \in Seq(Printable) :
            /\ c = Shown(s[n]) /\ Len(c) = Cells(s[n]) /\ Len(c) > 0
            /\ c[1] = Expanded(s[n])
    BY <1>4, ShownLemma DEF Expanded
  <2>3. v[n] = v[m] + Len(c) /\ e[n] = e[m] \o c
    BY <1>2, <1>3, <2>1, <2>2, Zenon
  <2>6. e[m] \in Seq(Printable) /\ n = m + 1
    BY <2>1
  <2>4. Fits(s, e[m] \o c, v, n)
    BY <2>1, <2>2, <2>3, <2>6, FitsNext, Zenon
  <2>5. n \in 0 .. N
    OBVIOUS
  <2> QED
    BY <2>3, <2>4, <2>5
<1> HIDE DEF S
<1>7. N \in S
  <2>1. \A n \in 0 .. N : n \in S
    BY <1>5, <1>6, InductionTo, Zenon
  <2> QED
    BY <2>1
<1>8. Fits(s, e[N], v, N)
  BY <1>7 DEF S
<1>9. ExpandTabs(s) = e[N]
  BY <1>1, <1>3, LoopsNamed
<1> QED
  BY <1>1, <1>2, <1>8, <1>9

-----------------------------------------------------------------------------
(* The line found again.                                                   *)

LEMMA FindBreakLemma ==
    ASSUME LexerTypeOK, NEW s \in 0 .. Len(src)
    PROVE  /\ FindBreak(s) \in s .. Len(src)
           /\ FindBreak(s) < Len(src) => src[FindBreak(s) + 1] = Newline
           /\ Clean(src, s + 1, FindBreak(s))
<1>1. Len(src) \in Nat
  BY TextsLemma
<1> DEFINE T == {p \in s .. Len(src) : p < Len(src) => src[p + 1] = Newline}
<1>2. Len(src) \in T /\ T \in SUBSET Nat /\ T # {}
  BY <1>1
<1>3. PICK m \in T : \A k \in T : m <= k
  <2> HIDE DEF T
  <2> QED
    BY <1>2, Least, Zenon
<1>4. \A x \in T : (\A y \in T : x <= y) => x = m
  BY <1>1, <1>3
<1>5. FindBreak(s) = m
  <2>1. FindBreak(s) = Min(T)
    BY Zenon DEF FindBreak
  <2> HIDE DEF T
  <2>2. Min(T) = m
    BY <1>3, <1>4, Zenon DEF Min
  <2> QED
    BY <2>1, <2>2
<1>6. ASSUME NEW q \in s + 1 .. m
      PROVE  src[q] # Newline
  <2>1. PICK p \in s .. m - 1 : q = p + 1
    <3>1. q - 1 \in s .. m - 1 /\ q = (q - 1) + 1
      BY <1>1, <1>3
    <3> QED
      BY <3>1
  <2>2. p \notin T /\ p \in s .. Len(src) /\ p < Len(src)
    BY <1>1, <1>3, <2>1
  <2> QED
    BY <2>1, <2>2
<1> QED
  BY <1>3, <1>5, <1>6 DEF Clean

\* The loop over the lines of the text.
NextOffset(from) == IF from > Len(src) THEN from ELSE FindBreak(from) + 1
Offsets(n) ==
    CHOOSE offset : offset = [k \in 0 .. n - 1 |->
                                 IF k = 0 THEN 0 ELSE NextOffset(offset[k - 1])]

LEMMA OffsetsNamed ==
    ASSUME NEW n
    PROVE  LineOffset(n) = Offsets(n)[n - 1]
BY Zenon DEF LineOffset, Offsets, NextOffset

LEMMA OffsetsLemma ==
    ASSUME LexerTypeOK, NEW n \in Nat, NEW N \in Nat, N = n - 1
    PROVE  /\ Offsets(n)[0] = 0
           /\ \A k \in 1 .. N : Offsets(n)[k] = NextOffset(Offsets(n)[k - 1])
<1> DEFINE D == 0 .. Len(src) + 1
<1> DEFINE G == [p \in (1 .. N) \X D |-> NextOffset(p[2])]
<1>1. Len(src) \in Nat
  BY TextsLemma
<1>2. \A from \in D : NextOffset(from) \in D
  <2> TAKE from \in D
  <2>1. CASE from > Len(src)
    BY <2>1 DEF NextOffset
  <2>2. CASE from <= Len(src)
    <3>1. from \in 0 .. Len(src) /\ ~(from > Len(src))
      BY <1>1, <2>2
    <3>2. FindBreak(from) \in from .. Len(src)
      BY <3>1, FindBreakLemma
    <3> QED
      BY <1>1, <3>1, <3>2 DEF NextOffset
  <2> QED
    BY <1>1, <2>1, <2>2
<1>3. G \in [(1 .. N) \X D -> D] /\ 0 \in D
  BY <1>1, <1>2
<1> HIDE DEF G, D
<1>4. PICK f \in [0 .. N -> D] : IsLoop(f, N, 0, G)
  BY <1>3, Loop, Zenon
<1>5. \A k \in 0 .. N : k # 0 => G[<<k, f[k - 1]>>] = NextOffset(f[k - 1])
  <2> TAKE k \in 0 .. N
  <2> HAVE k # 0
  <2>1. k \in 1 .. N /\ k - 1 \in 0 .. N
    OBVIOUS
  <2>2. <<k, f[k - 1]>> \in (1 .. N) \X D
    BY <2>1
  <2> QED
    BY <2>2 DEF G
<1>6. f = [k \in 0 .. N |-> IF k = 0 THEN 0 ELSE NextOffset(f[k - 1])]
  BY <1>4, <1>5, Zenon DEF IsLoop
<1>7. PICK e : e = Offsets(n)
  OBVIOUS
<1>8. e = [k \in 0 .. N |-> IF k = 0 THEN 0 ELSE NextOffset(e[k - 1])]
  BY <1>6, <1>7, Zenon DEF Offsets
<1>9. 0 \in 0 .. N /\ \A k \in 1 .. N : k \in 0 .. N /\ k # 0
  OBVIOUS
<1> QED
  BY <1>7, <1>8, <1>9, Zenon

\* Every offset is on a line.
LEMMA LineExists ==
    ASSUME NEW t, NEW o \in Nat
    PROVE  \E s \in 0 .. o : OnLine(t, o, 1 + Breaks(t, o), s)
<1> DEFINE OnSome(q) == \E s \in 0 .. q : OnLine(t, q, 1 + Breaks(t, q), s)
<1> DEFINE S == {q \in Nat : OnSome(q)}
<1>1. 0 \in S
  <2>1. OnLine(t, 0, 1 + Breaks(t, 0), 0)
    <3>1. 0 \in 0 .. 0 /\ ~(0 > 0) /\ \A p \in 0 + 1 .. 0 : FALSE
      OBVIOUS
    <3> QED
      BY <3>1, Zenon DEF OnLine, Clean
  <2> QED
    BY <2>1
<1>2. ASSUME NEW q \in Nat, q \in S
      PROVE  q + 1 \in S
  <2>1. PICK s \in 0 .. q : OnLine(t, q, 1 + Breaks(t, q), s)
    BY <1>2
  <2>2. PICK l \in {1 + Breaks(t, q), 2 + Breaks(t, q)}, r \in 0 .. q + 1 :
            OnLine(t, q + 1, l, r)
    <3>1. Breaks(t, q) \in Nat
      BY BreaksNat
    <3> QED
      BY <2>1, <3>1, OnLineNext
  <2>3. l = 1 + Breaks(t, q + 1)
    BY <2>2 DEF OnLine
  <2> QED
    BY <2>2, <2>3
<1> HIDE DEF S
<1>3. o \in S
  BY <1>1, <1>2, Induction
<1> QED
  BY <1>3 DEF S

\* No line break between two offsets, and they are on the same line.
LEMMA BreaksSame ==
    ASSUME NEW t, NEW a \in Nat, NEW b \in Nat, a <= b, Clean(t, a + 1, b)
    PROVE  Breaks(t, a) = Breaks(t, b)
<1>1. {p \in 1 .. a : t[p] = Newline} = {p \in 1 .. b : t[p] = Newline}
  BY DEF Clean
<1> QED
  BY <1>1 DEF Breaks

\* Line 1 starts at the beginning, every other behind a break that ends the
\* line before.
LEMMA LineBefore ==
    ASSUME NEW t, NEW o \in Nat, NEW l \in Nat, NEW s \in 0 .. o, OnLine(t, o, l, s)
    PROVE  IF s = 0 THEN l = 1
           ELSE l > 1 /\ t[s] = Newline /\ \E r \in 0 .. s - 1 : OnLine(t, s - 1, l - 1, r)
<1>1. Breaks(t, s) = Breaks(t, o) /\ l = 1 + Breaks(t, o) /\ Breaks(t, o) \in Nat
  <2>1. l = 1 + Breaks(t, o) /\ Clean(t, s + 1, o) /\ s <= o /\ s \in Nat
    BY DEF OnLine
  <2> QED
    BY <2>1, BreaksSame, BreaksNat, Zenon
<1>2. CASE s = 0
  <2>1. {p \in 1 .. 0 : t[p] = Newline} = {}
    OBVIOUS
  <2>2. Breaks(t, 0) = 0
    BY <2>1, FS_EmptySet DEF Breaks
  <2> QED
    BY <1>1, <1>2, <2>2
<1>3. CASE s # 0
  <2>1. PICK q \in Nat : s = q + 1 /\ q = s - 1
    BY <1>3
  <2>2. t[s] = Newline
    BY <1>3 DEF OnLine
  <2>3. Breaks(t, s) = Breaks(t, q) + 1 /\ Breaks(t, q) \in Nat
    BY <2>1, <2>2, BreaksNext, BreaksNat
  <2>4. PICK r \in 0 .. q : OnLine(t, q, 1 + Breaks(t, q), r)
    BY LineExists
  <2>5. l - 1 = 1 + Breaks(t, q) /\ l > 1
    BY <1>1, <2>3
  <2> QED
    BY <1>3, <2>1, <2>2, <2>4, <2>5
<1> QED
  BY <1>2, <1>3

\* The loop comes to where the lexer saw the line start.
LEMMA LineOffsetLemma ==
    ASSUME LexerTypeOK, NEW o \in 0 .. Len(src), NEW n \in Nat, NEW s \in 0 .. o,
           OnLine(src, o, n, s)
    PROVE  n > 0 /\ LineOffset(n) = s
<1>1. Len(src) \in Nat /\ o \in Nat
  BY TextsLemma
<1>2. n > 0
  BY <1>1, LineBefore
<1>3. PICK N \in Nat : N = n - 1
  BY <1>2
<1>4. PICK f : f = Offsets(n)
  OBVIOUS
<1>5. f[0] = 0 /\ \A k \in 1 .. N : f[k] = NextOffset(f[k - 1])
  BY <1>3, <1>4, OffsetsLemma, Zenon
<1> DEFINE Found(k) == \A q \in 0 .. Len(src) : \A r \in 0 .. q :
                           OnLine(src, q, k + 1, r) => f[k] = r
<1> DEFINE S == {k \in 0 .. N : Found(k)}
<1>6. 0 \in S
  <2>1. ASSUME NEW q \in 0 .. Len(src), NEW r \in 0 .. q, OnLine(src, q, 0 + 1, r)
        PROVE  r = 0
    <3>1. PICK l \in Nat : l = 0 + 1
      OBVIOUS
    <3>2. q \in Nat /\ OnLine(src, q, l, r)
      BY <1>1, <2>1, <3>1
    <3>3. r # 0 => l > 1
      BY <3>2, LineBefore, Zenon
    <3> QED
      BY <3>1, <3>3
  <2> QED
    BY <1>5, <2>1
<1>7. ASSUME NEW k \in 1 .. N, k - 1 \in S
      PROVE  k \in S
  <2>1. ASSUME NEW q \in 0 .. Len(src), NEW r \in 0 .. q, OnLine(src, q, k + 1, r)
        PROVE  f[k] = r
    <3>1. PICK l \in Nat : l = k + 1 /\ l - 1 = (k - 1) + 1 /\ l # 1
      OBVIOUS
    <3>2. q \in Nat
      BY <1>1
    <3>3. /\ r # 0 /\ src[r] = Newline
          /\ \E u \in 0 .. r - 1 : OnLine(src, r - 1, l - 1, u)
      BY <2>1, <3>1, <3>2, LineBefore, Zenon
    <3>4. PICK u \in 0 .. r - 1 : OnLine(src, r - 1, (k - 1) + 1, u)
      BY <3>1, <3>3
    <3>5. r - 1 \in 0 .. Len(src) /\ r \in 1 .. Len(src) /\ u \in 0 .. Len(src)
      BY <1>1, <3>3
    <3>6. f[k - 1] = u
      BY <1>7, <3>4, <3>5
    <3>7. Clean(src, u + 1, r - 1)
      BY <3>4 DEF OnLine
    <3>8. FindBreak(u) = r - 1
      <4>1. PICK p : p = FindBreak(u)
        OBVIOUS
      <4>2. /\ p \in u .. Len(src) /\ (p < Len(src) => src[p + 1] = Newline)
            /\ Clean(src, u + 1, p)
        BY <3>5, <4>1, FindBreakLemma
      <4>3. ~(p < r - 1)
        <5> SUFFICES ASSUME p < r - 1 PROVE FALSE
          OBVIOUS
        <5>1. p + 1 \in u + 1 .. r - 1 /\ p < Len(src)
          BY <1>1, <3>5, <4>2
        <5> QED
          BY <3>7, <4>2, <5>1 DEF Clean
      <4>4. ~(p > r - 1)
        <5> SUFFICES ASSUME p > r - 1 PROVE FALSE
          OBVIOUS
        <5>1. r \in u + 1 .. p
          BY <1>1, <3>5, <4>2
        <5> QED
          BY <3>3, <4>2, <5>1 DEF Clean
      <4> QED
        BY <1>1, <3>5, <4>1, <4>2, <4>3, <4>4
    <3>9. f[k] = NextOffset(u)
      BY <1>5, <3>6
    <3> QED
      BY <1>1, <3>5, <3>8, <3>9 DEF NextOffset
  <2> QED
    BY <2>1
<1> HIDE DEF S
<1>8. N \in S
  <2>1. \A k \in 0 .. N : k \in S
    BY <1>6, <1>7, InductionTo, Zenon
  <2> QED
    BY <2>1
<1>9. f[N] = s
  BY <1>3, <1>8 DEF S
<1> QED
  BY <1>2, <1>3, <1>4, <1>9, OffsetsNamed

\* The line without the carriage return in front of its break.
LEMMA SourceLineLemma ==
    ASSUME LexerTypeOK, NEW o \in 0 .. Len(src), NEW n \in Nat, NEW s \in 0 .. o,
           OnLine(src, o, n, s)
    PROVE  LET raw == SourceLine(n)
           IN  /\ raw \in Seq(Char)
               /\ IF IsShown(o) THEN o - s < Len(raw) /\ raw[o - s + 1] = src[o + 1]
                  ELSE o - s >= Len(raw)
<1>1. Len(src) \in Nat /\ src \in Seq(Char)
  BY TextsLemma
<1>2. n > 0 /\ LineOffset(n) = s
  BY LineOffsetLemma
<1>3. PICK p : p = FindBreak(s)
  OBVIOUS
<1>4. /\ p \in s .. Len(src) /\ (p < Len(src) => src[p + 1] = Newline)
      /\ Clean(src, s + 1, p)
  <2>1. s \in 0 .. Len(src)
    BY <1>1
  <2> QED
    BY <1>3, <2>1, FindBreakLemma, Zenon
<1>5. Clean(src, s + 1, o)
  BY DEF OnLine
<1>6. o <= p
  <2> SUFFICES ASSUME o > p PROVE FALSE
    BY <1>4
  <2>1. p + 1 \in s + 1 .. o /\ p < Len(src)
    BY <1>1, <1>4
  <2> QED
    BY <1>4, <1>5, <2>1 DEF Clean
<1>7. PICK whole : whole = SubSeq(src, s + 1, p)
  OBVIOUS
<1>8. /\ whole \in Seq(Char) /\ Len(whole) = p - s
      /\ \A i \in 1 .. p - s : whole[i] = src[s + i]
  BY <1>1, <1>4, <1>7, SubSeqProperties, SMTT(30)
<1>9. SourceLine(n) = IF whole # << >> /\ Last(whole) = "\r" THEN Front(whole) ELSE whole
  <2>1. ~(n < 1 \/ LineOffset(n) > Len(src))
    BY <1>1, <1>2
  <2> QED
    BY <1>2, <1>3, <1>7, <2>1, Zenon DEF SourceLine
<1>10. CASE whole # << >> /\ Last(whole) = "\r"
  <2>1. p > s /\ src[p] = "\r"
    <3>1. Len(whole) > 0
      BY <1>8, <1>10, EmptySeq
    <3>2. p - s \in 1 .. p - s /\ s + (p - s) = p
      BY <1>4, <1>8, <3>1
    <3> QED
      BY <1>8, <1>10, <3>1, <3>2 DEF Last
  <2>2. PICK raw : raw = Front(whole)
    OBVIOUS
  <2>3. /\ raw \in Seq(Char) /\ Len(raw) = p - s - 1
        /\ \A i \in 1 .. p - s - 1 : raw[i] = src[s + i]
    BY <1>4, <1>8, <2>1, <2>2, SubSeqProperties DEF Front
  <2>4. CASE o < p - 1
    <3>1. o - s + 1 \in 1 .. p - s - 1 /\ s + (o - s + 1) = o + 1
      BY <1>4, <2>4
    <3>2. o + 1 \in s + 1 .. p /\ o + 2 \in s + 1 .. p
      BY <1>4, <2>4
    <3>3. IsShown(o)
      BY <1>4, <2>4, <3>2 DEF IsShown, Clean
    <3> QED
      BY <1>9, <1>10, <2>2, <2>3, <3>1, <3>3
  <2>5. CASE o = p - 1
    <3>1. ~IsShown(o)
      BY <1>1, <1>4, <2>1, <2>5 DEF IsShown
    <3> QED
      BY <1>4, <1>9, <1>10, <2>2, <2>3, <2>5, <3>1
  <2>6. CASE o = p
    <3>1. ~IsShown(o)
      BY <1>1, <1>4, <2>6 DEF IsShown
    <3> QED
      BY <1>4, <1>9, <1>10, <2>2, <2>3, <2>6, <3>1
  <2> QED
    BY <1>4, <1>6, <2>4, <2>5, <2>6
<1>11. CASE ~(whole # << >> /\ Last(whole) = "\r")
  <2>1. CASE o < p
    <3>1. o - s + 1 \in 1 .. p - s /\ s + (o - s + 1) = o + 1 /\ o + 1 \in s + 1 .. p
      BY <1>4, <2>1
    <3>2. src[o + 1] = "\r" => o + 1 < p
      <4> SUFFICES ASSUME src[o + 1] = "\r", o + 1 = p PROVE FALSE
        BY <1>4, <2>1
      <4>1. whole # << >> /\ Last(whole) = src[o + 1]
        BY <1>4, <1>8, <2>1, <3>1, EmptySeq DEF Last
      <4> QED
        BY <1>11, <4>1
    <3>3. IsShown(o)
      <4>1. o + 1 < p => o + 2 \in s + 1 .. p
        BY <1>4
      <4> QED
        BY <1>1, <1>4, <2>1, <3>1, <3>2, <4>1 DEF IsShown, Clean
    <3> QED
      BY <1>8, <1>9, <1>11, <3>1, <3>3
  <2>2. CASE o = p
    <3>1. ~IsShown(o)
      BY <1>1, <1>4, <2>2 DEF IsShown
    <3> QED
      BY <1>4, <1>8, <1>9, <1>11, <2>2, <3>1
  <2> QED
    BY <1>4, <1>6, <2>1, <2>2
<1> QED
  BY <1>10, <1>11

\* The report of a place of the text.
CaretAt(place) ==
    LET o == OffsetOf(src, place)
        r == Report(place)
    IN  IF IsShown(o)
        THEN /\ r.snippet /\ r.caret < Len(r.shown)
             /\ r.shown[r.caret + 1] = IF src[o + 1] = "\t" THEN " " ELSE src[o + 1]
        ELSE r.snippet => r.caret = Len(r.shown)

LEMMA ReportLemma ==
    ASSUME LexerTypeOK, NEW place, NEW o \in 0 .. Len(src), IsPlace(src, o, place)
    PROVE  CaretAt(place)
<1>1. Len(src) \in Nat /\ o \in Nat
  BY TextsLemma
<1>2. PICK s \in 0 .. o : place.column = o - s + 1 /\ OnLine(src, o, place.line, s)
  BY <1>1, PlaceLine
<1>3. PICK n \in Nat : n = place.line
  <2>1. place.line = 1 + Breaks(src, o) /\ Breaks(src, o) \in Nat
    BY <1>1, <1>2, BreaksNat, Zenon DEF OnLine
  <2> QED
    BY <2>1
<1>4. n > 0
  BY <1>2, <1>3, LineOffsetLemma
<1>5. PICK raw \in Seq(Char) :
          /\ raw = SourceLine(n)
          /\ IF IsShown(o) THEN o - s < Len(raw) /\ raw[o - s + 1] = src[o + 1]
             ELSE o - s >= Len(raw)
  BY <1>2, <1>3, SourceLineLemma
<1>6. PICK v : v = Visuals(raw)
  OBVIOUS
<1>7. PICK shown : shown = ExpandTabs(raw)
  OBVIOUS
<1>8. Len(raw) \in Nat /\ Fits(raw, shown, v, Len(raw))
  BY <1>6, <1>7, CaretLemma, LenProperties
<1>9. PICK i \in Nat : i = o - s /\ i = place.column - 1
  BY <1>1, <1>2
<1>10. PICK r : r = Report(place)
  OBVIOUS
<1>11. (r.snippet <=> raw # << >>) /\ r.shown = shown /\ r.caret = v[Min({i, Len(raw)})]
  <2>1. r = [snippet |-> place.line >= 1 /\ raw # << >>,
             shown   |-> shown,
             caret   |-> VisualColumn(raw, place.column)]
    BY <1>3, <1>5, <1>7, <1>10, Zenon DEF Report
  <2>2. VisualColumn(raw, place.column) = v[Min({i, Len(raw)})]
    BY <1>6, <1>9, LoopsNamed, Zenon
  <2>3. place.line >= 1
    BY <1>3, <1>4
  <2> QED
    BY <2>1, <2>2, <2>3, Zenon
<1>12. OffsetOf(src, place) = o
  BY <1>1, OffsetUnique
<1>13. CASE IsShown(o)
  <2>1. i < Len(raw) /\ raw[i + 1] = src[o + 1]
    BY <1>5, <1>9, <1>13
  <2>2. r.caret = v[i] /\ raw # << >>
    BY <1>8, <1>11, <2>1, MinOfTwo, EmptySeq
  <2>3. PICK k \in 1 .. Len(raw) : k = i + 1 /\ k - 1 = i
    BY <1>8, <2>1
  <2>4. v[i] < Len(shown) /\ shown[v[i] + 1] = Expanded(raw[k])
    BY <1>8, <2>3 DEF Fits
  <2> QED
    BY <1>10, <1>11, <1>12, <1>13, <2>1, <2>2, <2>3, <2>4, Zenon DEF CaretAt, Expanded
<1>14. CASE ~IsShown(o)
  <2>1. i >= Len(raw)
    BY <1>5, <1>9, <1>14
  <2>2. r.caret = v[Len(raw)]
    BY <1>8, <1>11, <2>1, MinOfTwo
  <2>3. Len(shown) = v[Len(raw)]
    BY <1>8 DEF Fits
  <2> QED
    BY <1>10, <1>11, <1>12, <1>14, <2>2, <2>3, Zenon DEF CaretAt
<1> QED
  BY <1>13, <1>14

-----------------------------------------------------------------------------
(* The places reported.                                                    *)

\* Only a string may span lines.
LEMMA OneLineTypes ==
    ASSUME NEW s \in Seq(Char), NEW type \in Types(s), type # "STRING"
    PROVE  \A i \in DOMAIN s : s[i] # Newline
<1>1. /\ Newline \notin DOMAIN Single /\ Newline \notin DOMAIN Alone
      /\ Newline \notin DOMAIN WithEqual /\ Newline # "="
  BY DEF Newline, Single, Alone, WithEqual
<1>2. /\ \A c \in Digit : c # Newline
      /\ \A c \in AlphaNum \cup {"_"} : c # Newline
  <2>1. Newline \notin Digit /\ Newline \notin Letter
    BY CharactersAssumption
  <2>2. Newline # "_"
    BY DEF Newline
  <2> QED
    BY <2>1, <2>2 DEF AlphaNum
<1>3. DOMAIN s = 1 .. Len(s)
  BY LenProperties
<1>4. CASE Len(s) = 1 /\ (s[1] \in DOMAIN Single \/ s[1] \in DOMAIN Alone)
  BY <1>1, <1>3, <1>4
<1>5. CASE Len(s) = 2 /\ s[1] \in DOMAIN WithEqual /\ s[2] = "="
  BY <1>1, <1>3, <1>5
<1>6. CASE \A i \in DOMAIN s : s[i] \in Digit
  BY <1>2, <1>6
<1>7. CASE IsWord(s)
  BY <1>2, <1>7 DEF IsWord
<1> QED
  BY <1>4, <1>5, <1>6, <1>7 DEF Types

\* The place behind a token is that of the offset behind it.
LEMMA BehindPlace ==
    ASSUME LexerTypeOK, NEW token \in Read, NEW o \in 0 .. Len(src),
           StandsAt(src, o, token),
           \A i \in DOMAIN token.lexeme : token.lexeme[i] # Newline
    PROVE  \E b \in 0 .. Len(src) : IsPlace(src, b, PlaceBehind(token))
<1>1. Len(src) \in Nat /\ src \in Seq(Char) /\ o \in Nat
  BY TextsLemma
<1>2. PICK n \in Nat : n = Len(token.lexeme)
  BY LenProperties DEF Read
<1>3. /\ IsPlace(src, o, token) /\ o + n <= Len(src)
      /\ token.lexeme = SubSeq(src, o + 1, o + n)
  BY <1>2 DEF StandsAt
<1>4. DOMAIN token.lexeme = 1 .. n
  BY <1>2, LenProperties DEF Read
<1>5. PICK b \in 0 .. Len(src) : b = o + n
  BY <1>1, <1>2, <1>3
<1>6. Clean(src, o + 1, b)
  <2>1. ASSUME NEW p \in o + 1 .. b
        PROVE  src[p] # Newline
    <3>1. PICK i \in 1 .. n : i = p - o /\ p = o + i
      BY <1>1, <1>5, <2>1
    <3>2. token.lexeme[i] = src[o + i]
      BY <1>1, <1>2, <1>3, <3>1, SubSeqProperties
    <3> QED
      BY <1>4, <3>1, <3>2
  <2> QED
    BY <2>1 DEF Clean
<1>7. PICK s \in 0 .. o : token.column = o - s + 1 /\ OnLine(src, o, token.line, s)
  BY <1>1, <1>3, PlaceLine
<1>8. OnLine(src, b, token.line, s)
  <2>1. b \in Nat /\ o <= b
    BY <1>1, <1>2, <1>5
  <2>3. Breaks(src, o) = Breaks(src, b)
    BY <1>1, <1>6, <2>1, BreaksSame, Zenon
  <2>2. Clean(src, s + 1, b)
    BY <1>5, <1>6, <1>7 DEF OnLine, Clean
  <2> QED
    BY <1>5, <1>7, <2>1, <2>2, <2>3 DEF OnLine
<1>9. PICK place : place = PlaceBehind(token)
  OBVIOUS
<1>10. place.line = token.line /\ place.column = b - s + 1
  <2>1. place.line = token.line /\ place.column = token.column + n
    BY <1>2, <1>9, Zenon DEF PlaceBehind
  <2>2. (o - s + 1) + n = b - s + 1
    <3>1. o \in Nat /\ s \in Nat /\ n \in Nat /\ b = o + n
      BY <1>1, <1>2, <1>5, <1>7
    <3> QED
      BY <3>1
  <2> QED
    BY <1>7, <2>1, <2>2, Zenon
<1>11. IsPlace(src, b, place)
  <2>1. b \in Nat /\ s \in Nat
    BY <1>1, <1>7
  <2> QED
    BY <1>8, <1>10, <2>1, PlaceOnLine, Zenon
<1> QED
  BY <1>9, <1>11

\* The mark of the end has no characters.
EndEmpty ==
    scanning = "done" =>
        \A k \in 1 .. Len(lexed) :
            lexed[k].type = "END_OF_FILE" => lexed[k].lexeme = << >>

LEMMA EndEmptyStep ==
    ASSUME LexerTypeOK, LexerTypeOK', EndEmpty, [LexerNext]_lexerVars
    PROVE  EndEmpty'
<1> SUFFICES ASSUME scanning' = "done"
             PROVE  \A k \in 1 .. Len(lexed') :
                        lexed'[k].type = "END_OF_FILE" => lexed'[k].lexeme = << >>
  BY DEF EndEmpty
<1>1. CASE EndTokens
  <2>1. /\ lexed \in Seq(Read) /\ Len(lexed) \in Nat /\ scanning = "skipping"
        /\ lexed' = Append(lexed, EndToken)
    BY <1>1, TextsLemma DEF EndTokens
  <2>2. /\ Len(lexed') = Len(lexed) + 1 /\ lexed'[Len(lexed) + 1] = EndToken
        /\ \A k \in 1 .. Len(lexed) : lexed'[k] = lexed[k]
    BY <2>1, AppendProperties
  <2>3. \A k \in 1 .. Len(lexed) : lexed[k].type # "END_OF_FILE"
    BY <2>1, LenProperties DEF LexerTypeOK
  <2>4. EndToken.lexeme = << >>
    BY DEF EndToken
  <2>5. \A k \in 1 .. Len(lexed') : k \in 1 .. Len(lexed) \/ k = Len(lexed) + 1
    BY <2>1, <2>2
  <2> QED
    BY <2>2, <2>3, <2>4, <2>5, Zenon
<1>2. CASE UNCHANGED lexerVars
  BY <1>2 DEF lexerVars, EndEmpty
<1>3. CASE LexerNext /\ ~EndTokens
  <2>1. scanning' # "done"
    BY <1>3 DEF LexerNext, Skipping, ScanToken, SkipBlank, SkipLine, BeginComment, Comment,
                BeginToken, ScanSingle, ScanPair, ScanLonger, ScanOther, ScanNumber,
                ScanIdentifier, ScanString, Advance, BreakLine, AddToken, Refuse
  <2> QED
    BY <2>1
<1> QED
  BY <1>1, <1>2, <1>3

LEMMA EndEmptyAlways == LexerSpec => []EndEmpty
<1>1. LexerInit => EndEmpty
  BY DEF LexerInit, EndEmpty
<1>2. LexerTypeOK /\ LexerTypeOK' /\ EndEmpty /\ [LexerNext]_lexerVars => EndEmpty'
  BY EndEmptyStep
<1> QED
  BY <1>1, <1>2, LexerTypeCorrect, PTL DEF LexerSpec

-----------------------------------------------------------------------------
(* The theorem.                                                            *)

\* Whatever the text, the caret is printed under the character reported, or
\* behind the line: what the lexer counts as it reads, the reporter finds.
THEOREM CaretAlways == LexerSpec => []CaretUnderPlace
<1>1. ASSUME LexemeInv, EndEmpty
      PROVE  CaretUnderPlace
  <2> SUFFICES ASSUME scanning \in {"done", "failed"}, NEW place \in ReportedPlaces
               PROVE  CaretAt(place)
    BY Zenon DEF CaretUnderPlace, CaretAt
  <2>1. LexerTypeOK /\ AllInText(src, lexed) /\ AllLongest(src, lexed) /\ EndInv
    BY <1>1, LexemeTypes DEF LexerInv, TextInv
  <2>2. lexed \in Seq(Read) /\ DOMAIN lexed = 1 .. Len(lexed)
    BY <2>1, TextsLemma, LenProperties
  <2>3. ASSUME NEW k \in DOMAIN lexed
        PROVE  \E o \in 0 .. Len(src) :
                   o = OffsetOf(src, lexed[k]) /\ StandsAt(src, o, lexed[k])
    BY <2>1, <2>2 DEF AllInText, InText
  <2>4. \E o \in 0 .. Len(src) : IsPlace(src, o, place)
    <3>1. CASE place \in {lexed[k] : k \in DOMAIN lexed}
      BY <2>3, <3>1 DEF StandsAt
    <3>2. ASSUME NEW k \in DOMAIN lexed, lexed[k].type # "STRING",
                 place = PlaceBehind(lexed[k])
          PROVE  \E o \in 0 .. Len(src) : IsPlace(src, o, place)
      <4>1. PICK token \in Read : token = lexed[k]
        BY <2>2, ElementOfSeq
      <4>2. PICK o \in 0 .. Len(src) :
                o = OffsetOf(src, token) /\ StandsAt(src, o, token)
        BY <2>3, <4>1
      <4>3. \A i \in DOMAIN token.lexeme : token.lexeme[i] # Newline
        <5>1. CASE token.type = "END_OF_FILE"
          <6>1. scanning = "done"
            BY <2>1, <4>1, <5>1 DEF LexerTypeOK
          <6>2. token.lexeme = << >>
            BY <1>1, <2>2, <4>1, <5>1, <6>1 DEF EndEmpty
          <6> QED
            BY <6>2
        <5>2. CASE token.type # "END_OF_FILE"
          <6>1. Longest(src, o, o + Len(token.lexeme), token.type)
            BY <2>1, <2>2, <4>1, <4>2, <5>2 DEF AllLongest, TokenLongest
          <6>2. token.type \in Types(token.lexeme)
            BY <4>2, <6>1 DEF Longest, StandsAt
          <6> QED
            BY <3>2, <4>1, <6>2, OneLineTypes DEF Read
        <5> QED
          BY <5>1, <5>2
      <4> QED
        BY <2>1, <3>2, <4>1, <4>2, <4>3, BehindPlace
    <3>3. CASE scanning = "failed" /\ place = refusal
      BY <2>1, <3>3 DEF EndInv
    <3> QED
      BY <3>1, <3>2, <3>3 DEF ReportedPlaces
  <2> QED
    BY <2>1, <2>4, ReportLemma
<1> QED
  BY <1>1, LexemeAlways, EndEmptyAlways, PTL
==============================================================================
