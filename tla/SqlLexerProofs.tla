--------------------------- MODULE SqlLexerProofs ---------------------------
(***************************************************************************)
(* Proofs about SqlLexer, for any number of statements: types, that the    *)
(* tokenizer follows the comment stripper, and what the splitter may have  *)
(* overlooked in a script that is accepted.                                *)
(***************************************************************************)
EXTENDS SqlLexer, TLAPS

-----------------------------------------------------------------------------
(* Scanners.                                                               *)

LEMMA ScannerCases ==
  ASSUME NEW s \in Scanners
  PROVE  \E m \in Modes : s = At(m) \/ s = Over(m)
<1>1. /\ s.mode \in Modes /\ s.skip \in BOOLEAN
      /\ s = [mode |-> s.mode, skip |-> s.skip]
  BY DEF Scanners
<1>2. CASE s.skip
  BY <1>1, <1>2 DEF Over
<1>3. CASE ~s.skip
  BY <1>1, <1>3 DEF At
<1> QED
  BY <1>2, <1>3

LEMMA ScannerFields ==
  /\ \A m : At(m).mode = m /\ ~At(m).skip /\ Over(m).mode = m /\ Over(m).skip
  /\ \A m \in Modes : At(m) \in Scanners /\ Over(m) \in Scanners
  /\ \A m, n : At(m) # Over(n)
  /\ \A m, n : At(m) = At(n) \/ Over(m) = Over(n) => m = n
<1>1. \A m : /\ At(m).mode = m /\ At(m).skip = FALSE
             /\ Over(m).mode = m /\ Over(m).skip = TRUE
  BY DEF At, Over
<1>2. \A m \in Modes : At(m) \in Scanners /\ Over(m) \in Scanners
  BY DEF At, Over, Scanners
<1> QED
  BY <1>1, <1>2

LEMMA StepsTyped ==
  ASSUME NEW s \in Scanners, NEW ch, NEW next
  PROVE  /\ SplitStep(s, ch, next) \in Scanners
         /\ StripStep(s, ch, next) \in Scanners
         /\ TokenStep(s, ch, next) \in Scanners
<1>1. /\ s.mode \in Modes
      /\ \A m \in Modes : At(m) \in Scanners /\ Over(m) \in Scanners
  BY ScannerFields DEF Scanners
<1> USE <1>1 DEF Modes
<1>2. SplitStep(s, ch, next) \in Scanners
  BY DEF SplitStep
<1>3. StripStep(s, ch, next) \in Scanners
  BY DEF StripStep
<1>4. TokenStep(s, ch, next) \in Scanners
  BY DEF TokenStep
<1> QED
  BY <1>2, <1>3, <1>4

-----------------------------------------------------------------------------
(* The tokenizer follows the comment stripper: it is in the same literal,  *)
(* or in none, and meets no comment.                                       *)

Quoted(s) == s.mode \in {"single", "double"}
AsToken(s) == IF Quoted(s) THEN s ELSE At("code")

\* What is blanked is neither a quote nor the start of a comment.
LEMMA BlanksPassed ==
  ASSUME NEW h \in Blanks, NEW n
  PROVE  TokenStep(At("code"), h, n) = At("code") /\ <<h, n>> \notin Openers
BY ScannerFields DEF Blanks, Space, TokenStep, Openers

LEMMA ShownRunes ==
  ASSUME NEW s \in Scanners, NEW ch \in Runes, NEW a
  PROVE  /\ Comment(s, ch, a) => Shown(s, ch, a) \in Blanks
         /\ ~Comment(s, ch, a) => Shown(s, ch, a) = ch
         /\ Shown(s, ch, a) # None
BY DEF Shown, Blanks, Runes, Space, None

LEMMA QuotedShown ==
  ASSUME NEW s \in Scanners, Quoted(s), NEW ch, NEW a
  PROVE  ~Comment(s, ch, a) /\ Shown(s, ch, a) = ch
BY ScannerFields DEF Quoted, Comment, Shown

LEMMA TokenFollows ==
  ASSUME NEW s \in Scanners, NEW ch \in Runes, NEW a \in Runes,
         NEW r \in Runes \cup {None}
  PROVE  LET t == StripStep(s, ch, a)
             h == Shown(s, ch, a)
             n == Shown(t, a, r)
         IN  /\ TokenStep(AsToken(s), h, n) = AsToken(t)
             /\ AsToken(s) = At("code") => <<h, n>> \notin Openers
<1> DEFINE t == StripStep(s, ch, a)
           h == Shown(s, ch, a)
           n == Shown(t, a, r)
<1>0. t \in Scanners /\ n # None /\ (n = a \/ n \in Blanks)
  BY StepsTyped, ShownRunes
<1>1. PICK m \in Modes : s = At(m) \/ s = Over(m)
  BY ScannerCases
<1>2. CASE Comment(s, ch, a)
  <2>1. ~Quoted(s)
    BY <1>2, QuotedShown
  <2>2. ~Quoted(t)
    BY <1>1, <1>2, <2>1, ScannerFields
       DEF Modes, Quoted, StripStep, Comment, Openers
  <2>3. h \in Blanks
    BY <1>2, ShownRunes
  <2> QED
    BY <2>1, <2>2, <2>3, BlanksPassed DEF AsToken
<1>3. CASE ~Comment(s, ch, a) /\ ~Quoted(s)
  <2>1. s = At("code") /\ h = ch /\ <<ch, a>> \notin Openers
    BY <1>1, <1>3, ShownRunes, ScannerFields DEF Modes, Quoted, Comment
  <2>2. <<ch, n>> \notin Openers
    BY <1>0, <2>1 DEF Openers, Blanks, Space
  <2>3. t = CASE ch = "quote" -> At("single")
              [] ch = "dquote" -> At("double")
              [] OTHER -> At("code")
    BY <2>1, ScannerFields DEF StripStep, Openers
  <2>4. TokenStep(At("code"), ch, n) = CASE ch = "quote" -> At("single")
              [] ch = "dquote" -> At("double")
              [] OTHER -> At("code")
    BY ScannerFields DEF TokenStep
  <2> QED
    BY <2>1, <2>2, <2>3, <2>4, ScannerFields DEF AsToken, Quoted
<1>4. CASE Quoted(s)
  <2>1. h = ch /\ AsToken(s) = s /\ s # At("code")
    BY <1>4, QuotedShown, ScannerFields DEF AsToken, Quoted
  <2>2. CASE Quoted(t)
    <3>1. n = a
      BY <2>2, <1>0, QuotedShown
    <3> QED
      BY <1>1, <1>4, <2>1, <2>2, <3>1, ScannerFields
         DEF AsToken, Quoted, StripStep, TokenStep, Runes, None
  <2>3. CASE ~Quoted(t)
    <3>1. /\ t = At("code")
          /\ \/ s = At("single") /\ ch = "quote" /\ a # "quote"
             \/ s = At("double") /\ ch = "dquote" /\ a # "dquote"
      BY <1>1, <1>4, <2>3, ScannerFields DEF Quoted, StripStep
    <3>2. n # "quote" \/ a = "quote"
      BY <1>0 DEF Blanks, Space
    <3>3. n # "dquote" \/ a = "dquote"
      BY <1>0 DEF Blanks, Space
    <3>4. TokenStep(s, ch, n) = At("code")
      BY <3>1, <3>2, <3>3, ScannerFields DEF TokenStep
    <3> QED
      BY <2>1, <3>1, <3>4, ScannerFields DEF AsToken, Quoted
  <2> QED
    BY <2>2, <2>3
<1> QED
  BY <1>2, <1>3, <1>4

\* Where a statement may end, the tokenizer is in no literal.
LEMMA TokenEnds ==
  ASSUME NEW s \in Scanners, NEW ch \in Runes, NEW a,
         StripStep(s, ch, a).mode \in {"code", "line"}
  PROVE  TokenStep(AsToken(s), Shown(s, ch, a), None).mode = "code"
<1> DEFINE h == Shown(s, ch, a)
<1>1. PICK m \in Modes : s = At(m) \/ s = Over(m)
  BY ScannerCases
<1>2. CASE Comment(s, ch, a)
  <2>1. ~Quoted(s) /\ h \in Blanks
    BY <1>2, QuotedShown, ShownRunes
  <2>2. TokenStep(At("code"), h, None) = At("code")
    BY <2>1, BlanksPassed
  <2> QED
    BY <2>1, <2>2, ScannerFields DEF AsToken
<1>3. CASE ~Comment(s, ch, a) /\ ~Quoted(s)
  <2>1. s = At("code") /\ h = ch /\ <<ch, a>> \notin Openers
    BY <1>1, <1>3, ShownRunes, ScannerFields DEF Modes, Quoted, Comment
  <2>2. ch # "quote" /\ ch # "dquote"
    BY <2>1, ScannerFields DEF StripStep, Openers
  <2>3. TokenStep(At("code"), ch, None) = At("code")
    BY <2>2, ScannerFields DEF TokenStep
  <2> QED
    BY <2>1, <2>3, ScannerFields DEF AsToken, Quoted
<1>4. CASE Quoted(s)
  <2>1. \/ s = At("single") /\ ch = "quote"
        \/ s = At("double") /\ ch = "dquote"
    BY <1>1, <1>4, ScannerFields DEF Quoted, StripStep
  <2>2. TokenStep(s, ch, None) = At("code")
    BY <2>1, ScannerFields DEF TokenStep, None
  <2> QED
    BY <1>4, <2>2, QuotedShown, ScannerFields DEF AsToken
<1> QED
  BY <1>2, <1>3, <1>4

-----------------------------------------------------------------------------
(* Types.                                                                  *)

LEMMA ShownTyped ==
  ASSUME NEW s, NEW ch \in Runes, NEW a
  PROVE  Shown(s, ch, a) \in Runes \cup {Space}
BY DEF Shown

LEMMA TokensTyped ==
  ASSUME NEW t \in Tokens, NEW s, NEW ch, NEW next
  PROVE  TokensAfter(t, s, ch, next) \in Tokens
BY DEF Tokens, TokensAfter

LEMMA NewStatementTyped == NewStatement \in Statements
BY ScannerFields DEF NewStatement, Statements, Tokens, Modes

\* What reading a rune does to the scanners of a statement.
LEMMA Consumed ==
  ASSUME NEW st \in Statements, NEW ch \in Runes, NEW next
  PROVE  LET n   == Consume(st, ch, next)
             new == Shown(st.strip, ch, next)
         IN  /\ n \in Statements
             /\ n.strip = StripStep(st.strip, ch, next)
             /\ n.held = new
             /\ n.token = IF st.held = None THEN st.token
                          ELSE TokenStep(st.token, st.held, new)
             /\ n.tokens = IF st.held = None THEN st.tokens
                           ELSE TokensAfter(st.tokens, st.token, st.held, new)
<1> DEFINE new == Shown(st.strip, ch, next)
           p == Pass(st, new)
           n == Consume(st, ch, next)
<1>1. /\ st.strip \in Scanners /\ st.token \in Scanners /\ st.tokens \in Tokens
      /\ new \in Runes \cup {Space}
  BY ShownTyped DEF Statements
<1>2. /\ StripStep(st.strip, ch, next) \in Scanners
      /\ TokenStep(st.token, st.held, new) \in Scanners
      /\ TokensAfter(st.tokens, st.token, st.held, new) \in Tokens
  BY <1>1, StepsTyped, TokensTyped
<1>3. /\ p \in Statements /\ p.strip = st.strip
      /\ p.token = IF st.held = None THEN st.token
                   ELSE TokenStep(st.token, st.held, new)
      /\ p.tokens = IF st.held = None THEN st.tokens
                    ELSE TokensAfter(st.tokens, st.token, st.held, new)
  BY <1>2 DEF Pass, Statements
<1>4. n = [p EXCEPT !.held = new, !.strip = StripStep(@, ch, next)]
  BY DEF Consume
<1>5. /\ n \in Statements
      /\ n.strip = StripStep(st.strip, ch, next) /\ n.held = new
      /\ n.token = p.token /\ n.tokens = p.tokens
  BY <1>1, <1>2, <1>3, <1>4 DEF Statements
<1> QED
  BY <1>3, <1>5

LEMMA Beginnings == At("code") \in Scanners /\ 0 \in 0..MaxStatements
<1>1. At("code") \in Scanners
  BY ScannerFields DEF Modes
<1>2. 0 \in 0..MaxStatements
  BY ConstantsAssumption
<1> QED
  BY <1>1, <1>2

LEMMA TypeInit == Init => TypeOK
BY Beginnings, NewStatementTyped DEF Init, TypeOK

LEMMA TypeStep == TypeOK /\ [Next]_vars => TypeOK'
<1> SUFFICES ASSUME TypeOK, [Next]_vars PROVE TypeOK'
  OBVIOUS
<1> USE DEF TypeOK
<1>1. ASSUME NEW r \in Runes \cup {None}, Advance(r)
      PROVE  /\ ahead \in Runes /\ ahead' \in Runes \cup {None}
             /\ split' \in Scanners /\ whole' \in Scanners /\ odd' \in BOOLEAN
  BY <1>1, StepsTyped DEF Advance
<1>2. ASSUME NEW r \in Runes \cup {None}, Read(r)
      PROVE  TypeOK'
  <2>1. Advance(r)
    BY <1>2 DEF Read
  <2>2. statement' \in Statements
    BY <1>1, <1>2, <2>1, Consumed DEF Read
  <2>3. joined' \in BOOLEAN /\ astray' \in BOOLEAN /\ parted' \in BOOLEAN
    BY <1>2 DEF Read
  <2> QED
    BY <1>1, <1>2, <2>1, <2>2, <2>3 DEF Read
<1>3. ASSUME NEW r \in Runes \cup {None}, Semicolon(r)
      PROVE  TypeOK'
  <2>1. Advance(r) /\ statement' \in Statements
    BY <1>3, NewStatementTyped DEF Semicolon
  <2>2. number' \in 0..MaxStatements
    BY <1>3, ConstantsAssumption DEF Semicolon, Accepts
  <2> QED
    BY <1>1, <1>3, <2>1, <2>2 DEF Semicolon
<1>4. CASE Finish
  <2>1. number' \in 0..MaxStatements
    BY <1>4, ConstantsAssumption DEF Finish, Accepts
  <2> QED
    BY <1>4, <2>1 DEF Finish
<1>5. CASE Refuse
  BY <1>5, NewStatementTyped, Beginnings DEF Refuse
<1>6. CASE UNCHANGED vars
  BY <1>6 DEF vars
<1> QED
  BY <1>2, <1>3, <1>4, <1>5, <1>6 DEF Next

(* Every state is of the declared types; in particular no more statements  *)
(* than max_script_statements are accepted (sqlguard.go:181-228).          *)
THEOREM TypeCorrect == Spec => []TypeOK
<1> QED
  BY TypeInit, TypeStep, PTL DEF Spec

-----------------------------------------------------------------------------
(* The tokenizer is one rune behind the comment stripper, in step with it. *)

Lag ==
  LET st == statement
  IN  /\ st.tokens # "comment"
      /\ \/ /\ st.held = None /\ st.tokens = "none"
            /\ st.strip = At("code") /\ st.token = At("code")
         \/ \E s \in Scanners, ch \in Runes :
              /\ st.strip = StripStep(s, ch, ahead)
              /\ st.held = Shown(s, ch, ahead)
              /\ st.token = AsToken(s)

LEMMA NewLag == statement = NewStatement => Lag
BY DEF Lag, NewStatement

\* Only an opener makes a comment.
LEMMA NoComment ==
  ASSUME NEW t \in Tokens, t # "comment", NEW s, NEW h, NEW n,
         s = At("code") => <<h, n>> \notin Openers
  PROVE  TokensAfter(t, s, h, n) # "comment"
BY DEF TokensAfter, Tokens

LEMMA NoneOpens == \A h : <<h, None>> \notin Openers
BY DEF Openers, None

\* What the tokenizer will have made of the statement so far does not depend
\* on what comes next.
LEMMA ConsumedLag ==
  ASSUME TypeOK, Lag, ahead \in Runes, NEW r \in Runes \cup {None}
  PROVE  LET st == statement
             n  == Consume(st, ahead, r)
         IN  /\ n.tokens # "comment"
             /\ n.strip = StripStep(st.strip, ahead, r)
             /\ n.held = Shown(st.strip, ahead, r)
             /\ n.token = AsToken(st.strip)
             /\ n.tokens = Ended(st).tokens
             /\ Ended(n).tokens =
                  TokensAfter(Ended(st).tokens, AsToken(st.strip), n.held, None)
<1> DEFINE st == statement
           n == Consume(st, ahead, r)
           new == Shown(st.strip, ahead, r)
<1>1. st \in Statements /\ st.strip \in Scanners /\ st.tokens \in Tokens
  BY DEF TypeOK, Statements
<1>2. /\ n \in Statements
      /\ n.strip = StripStep(st.strip, ahead, r)
      /\ n.held = new /\ new # None
      /\ n.token = IF st.held = None THEN st.token
                   ELSE TokenStep(st.token, st.held, new)
      /\ n.tokens = IF st.held = None THEN st.tokens
                    ELSE TokensAfter(st.tokens, st.token, st.held, new)
  BY <1>1, Consumed, ShownRunes
<1>3. /\ n.token = AsToken(st.strip)
      /\ n.tokens = Ended(st).tokens /\ n.tokens # "comment"
  <2>1. CASE st.held = None
    <3>1. Ended(st) = st /\ AsToken(At("code")) = At("code")
      BY <2>1, ScannerFields DEF Ended, Pass, AsToken, Quoted
    <3>2. \A s \in Scanners, ch \in Runes : Shown(s, ch, ahead) # None
      BY ShownRunes
    <3> QED
      BY <1>2, <2>1, <3>1, <3>2 DEF Lag
  <2>2. CASE st.held # None
    <3>1. PICK s \in Scanners, ch \in Runes :
            /\ st.strip = StripStep(s, ch, ahead)
            /\ st.held = Shown(s, ch, ahead)
            /\ st.token = AsToken(s)
      BY <2>2 DEF Lag
    <3>2. /\ TokenStep(st.token, st.held, new) = AsToken(st.strip)
          /\ st.token = At("code") => <<st.held, new>> \notin Openers
      BY <3>1, TokenFollows
    <3>3. Ended(st).tokens = TokensAfter(st.tokens, st.token, st.held, None)
      BY <1>1, <2>2 DEF Ended, Pass, Statements
    <3>4. TokensAfter(st.tokens, st.token, st.held, None)
            = TokensAfter(st.tokens, st.token, st.held, new)
      BY <3>2, NoneOpens DEF TokensAfter
    <3>5. TokensAfter(st.tokens, st.token, st.held, new) # "comment"
      BY <1>1, <3>2, NoComment DEF Lag
    <3> QED
      BY <1>2, <2>2, <3>2, <3>3, <3>4, <3>5
  <2> QED
    BY <2>1, <2>2
<1>4. Ended(n).tokens = TokensAfter(n.tokens, n.token, n.held, None)
  BY <1>2 DEF Ended, Pass, Statements
<1> QED
  BY <1>2, <1>3, <1>4

LEMMA LagStep == TypeOK /\ Lag /\ [Next]_vars => Lag'
<1> SUFFICES ASSUME TypeOK, Lag, [Next]_vars PROVE Lag'
  OBVIOUS
<1>1. ASSUME NEW r \in Runes \cup {None}, Read(r)
      PROVE  Lag'
  <2>1. ahead \in Runes /\ ahead' = r /\ statement.strip \in Scanners
    BY <1>1 DEF Read, Advance, TypeOK, Statements
  <2>2. statement' = Consume(statement, ahead, r)
    BY <1>1 DEF Read
  <2> QED
    BY <2>1, <2>2, ConsumedLag DEF Lag
<1>2. ASSUME statement' = NewStatement
      PROVE  Lag'
  BY <1>2 DEF Lag, NewStatement
<1>3. ASSUME UNCHANGED <<statement, ahead>>
      PROVE  Lag'
  BY <1>3 DEF Lag
<1> QED
  BY <1>1, <1>2, <1>3 DEF Next, Semicolon, Finish, Refuse, vars

LEMMA Agreeing == TypeOK /\ Lag => StripTokenizeAgree
<1> SUFFICES ASSUME TypeOK, Lag, Stripped(statement)
             PROVE  /\ Ended(statement).token.mode = "code"
                    /\ Ended(statement).tokens # "comment"
  BY DEF StripTokenizeAgree
<1> DEFINE st == statement
<1>1. st \in Statements /\ st.tokens \in Tokens
  BY DEF TypeOK, Statements
<1>2. CASE st.held = None
  <2>1. \A s \in Scanners, ch \in Runes : Shown(s, ch, ahead) # None
    BY ShownRunes
  <2> QED
    BY <1>2, <2>1, ScannerFields DEF Lag, Ended, Pass
<1>3. CASE st.held # None
  <2>1. PICK s \in Scanners, ch \in Runes :
          /\ st.strip = StripStep(s, ch, ahead)
          /\ st.held = Shown(s, ch, ahead)
          /\ st.token = AsToken(s)
    BY <1>3 DEF Lag
  <2>2. TokenStep(st.token, st.held, None).mode = "code"
    BY <2>1, TokenEnds DEF Stripped
  <2>3. TokensAfter(st.tokens, st.token, st.held, None) # "comment"
    BY <1>1, NoComment, NoneOpens DEF Lag
  <2> QED
    BY <1>1, <1>3, <2>2, <2>3 DEF Ended, Pass, Statements
<1> QED
  BY <1>2, <1>3

(* Whatever the comment stripper lets pass, the tokenizer finds no comment *)
(* and no unterminated quote in it (sqlguard.go:255-353, 469-569).         *)
THEOREM Agreement == Spec => []StripTokenizeAgree
<1>1. Init => Lag
  BY NewLag DEF Init
<1>2. TypeOK /\ Lag /\ [Next]_vars => Lag'
  BY LagStep
<1> QED
  BY <1>1, <1>2, TypeCorrect, Agreeing, PTL DEF Spec

-----------------------------------------------------------------------------
(* Without empty literals and escaped quotes the splitter is where a scan  *)
(* of the whole script is, but for the rune before a doubled quote and the *)
(* one after a backslash, which the latter takes together.                 *)

InStep(s, w, a) ==
  \/ s = w
  \/ s = At("code") /\ w = Over("single") /\ a = "quote"
  \/ s = At("code") /\ w = Over("double") /\ a = "dquote"
  \/ s = At("single") /\ w = Over("single") /\ a # "quote"

LEMMA InStepKept ==
  ASSUME NEW s \in Scanners, NEW w \in Scanners, NEW a \in Runes,
         NEW r \in Runes \cup {None}, InStep(s, w, a),
         ~(s = At("code") /\ a = "quote" /\ r = "quote"),
         ~(w = At("single") /\ a = "backslash" /\ r = "quote")
  PROVE  InStep(SplitStep(s, a, r), StripStep(w, a, r), r)
<1>1. PICK m \in Modes : s = At(m) \/ s = Over(m)
  BY ScannerCases
<1>2. CASE s = w /\ s = Over(m)
  BY <1>2, ScannerFields DEF InStep, SplitStep, StripStep
<1>3. CASE s = w /\ s \in {At("line"), At("block")}
  BY <1>3, ScannerFields DEF InStep, SplitStep, StripStep
<1>4. CASE s = w /\ s = At("code")
  BY <1>4, ScannerFields DEF InStep, SplitStep, StripStep
<1>5. CASE s = w /\ s = At("single")
  BY <1>5, ScannerFields DEF InStep, SplitStep, StripStep
<1>6. CASE s = w /\ s = At("double")
  BY <1>6, ScannerFields DEF InStep, SplitStep, StripStep
<1>7. CASE s # w
  BY <1>7, ScannerFields DEF InStep, SplitStep, StripStep
<1> QED
  BY <1>1, <1>2, <1>3, <1>4, <1>5, <1>6, <1>7 DEF Modes

Straight ==
  ~odd => /\ ~astray
          /\ verdict = "open" => /\ statement.strip = whole
                                 /\ InStep(split, whole, ahead)

LEMMA StraightInit == Init => Straight
BY DEF Init, Straight, InStep, NewStatement

LEMMA StraightStep == TypeOK /\ Straight /\ [Next]_vars => Straight'
<1> SUFFICES ASSUME TypeOK, Straight, [Next]_vars, ~odd' PROVE Straight'
  BY DEF Straight
<1>1. ASSUME NEW r \in Runes \cup {None}, Advance(r)
      PROVE  /\ ahead \in Runes /\ ahead' = r /\ ~odd /\ ~astray
             /\ statement.strip = whole /\ InStep(split, whole, ahead)
             /\ InStep(split, whole, ahead)'
  <2>1. /\ ahead \in Runes /\ ahead' = r /\ ~odd /\ ~astray
        /\ statement.strip = whole /\ InStep(split, whole, ahead)
    BY <1>1 DEF Advance, TypeOK, Straight
  <2>2. /\ split' = SplitStep(split, ahead, r)
        /\ whole' = StripStep(whole, ahead, r)
        /\ ~(split = At("code") /\ ahead = "quote" /\ r = "quote")
        /\ ~(whole = At("single") /\ ahead = "backslash" /\ r = "quote")
    BY <1>1 DEF Advance
  <2>3. InStep(SplitStep(split, ahead, r), StripStep(whole, ahead, r), r)
    BY <2>1, <2>2, InStepKept DEF TypeOK
  <2> QED
    BY <2>1, <2>2, <2>3 DEF InStep
<1>2. ASSUME NEW r \in Runes \cup {None}, Read(r)
      PROVE  Straight'
  <2>1. Advance(r) /\ statement' = Consume(statement, ahead, r)
    BY <1>2 DEF Read
  <2>2. statement'.strip = StripStep(statement.strip, ahead, r)
    BY <1>1, <2>1, Consumed DEF TypeOK
  <2>3. whole' = StripStep(whole, ahead, r)
    BY <2>1 DEF Advance
  <2>4. ~astray'
    BY <1>1, <1>2, <2>1 DEF Read
  <2> QED
    BY <1>1, <2>1, <2>2, <2>3, <2>4 DEF Straight
<1>3. ASSUME NEW r \in Runes \cup {None}, Semicolon(r)
      PROVE  Straight'
  <2>1. Advance(r) /\ ahead = "semicolon" /\ split = At("code")
    BY <1>3 DEF Semicolon, Cut
  <2>2. whole = At("code")
    BY <1>1, <2>1, ScannerFields DEF InStep
  <2>3. whole' = At("code")
    BY <2>1, <2>2, ScannerFields DEF Advance, StripStep
  <2>4. statement'.strip = At("code") /\ astray' = astray
    BY <1>3 DEF Semicolon, NewStatement
  <2> QED
    BY <1>1, <2>1, <2>3, <2>4 DEF Straight
<1>4. CASE Finish
  BY <1>4 DEF Finish, Straight
<1>5. CASE Refuse
  BY <1>5 DEF Refuse, Straight
<1>6. CASE UNCHANGED vars
  BY <1>6 DEF vars, Straight, InStep
<1> QED
  BY <1>2, <1>3, <1>4, <1>5, <1>6 DEF Next

-----------------------------------------------------------------------------
(* A statement with a semicolon of the whole script in it is refused if it *)
(* goes on: the tokenizer has seen it.                                     *)

LEMMA UnquotedStays ==
  ASSUME NEW s \in Scanners, ~Quoted(s), NEW ch, NEW a,
         Comment(s, ch, a) \/ ch \notin {"quote", "dquote"}
  PROVE  ~Quoted(StripStep(s, ch, a))
<1>1. PICK m \in Modes : s = At(m) \/ s = Over(m)
  BY ScannerCases
<1> QED
  BY <1>1, ScannerFields DEF Modes, Quoted, StripStep, Comment, Openers

LEMMA KeptUnquoted ==
  ASSUME NEW s \in Scanners, ~Quoted(s), NEW ch, NEW a, ~Comment(s, ch, a)
  PROVE  s = At("code")
<1>1. PICK m \in Modes : s = At(m) \/ s = Over(m)
  BY ScannerCases
<1> QED
  BY <1>1, ScannerFields DEF Modes, Quoted, Comment

\* A semicolon stays the last token only if none follows.
LEMMA LastToken ==
  ASSUME NEW t \in {"ended", "two"}, NEW s, NEW h
  PROVE  /\ TokensAfter(t, s, h, None) \in {"ended", "two"}
         /\ t = "two" => TokensAfter(t, s, h, None) = "two"
         /\ s = At("code") /\ h \notin Blanks
              => TokensAfter(t, s, h, None) = "two"
BY NoneOpens DEF TokensAfter

LEMMA SemicolonToken ==
  ASSUME NEW t \in Tokens, t # "comment"
  PROVE  TokensAfter(t, At("code"), "semicolon", None) \in {"ended", "two"}
BY NoneOpens DEF TokensAfter, Tokens, Blanks, Space

Sighted ==
  verdict = "open" /\ ~astray =>
    /\ statement.strip = whole \/ (~Quoted(statement.strip) /\ ~Quoted(whole))
    /\ parted => /\ Ended(statement).tokens \in {"ended", "two"}
                 /\ Quoted(statement.strip) => Ended(statement).tokens = "two"
    /\ joined => Ended(statement).tokens = "two"

Unjoined == verdict = "accepted" => astray \/ ~joined

LEMMA SightedRead ==
  ASSUME TypeOK, Lag, Sighted, NEW r \in Runes \cup {None}, Read(r)
  PROVE  Sighted'
<1> DEFINE strip == statement.strip
           tokens == Ended(statement).tokens
           shown == Shown(strip, ahead, r)
<1> SUFFICES ASSUME ~astray'
             PROVE  /\ statement'.strip = whole'
                         \/ (~Quoted(statement'.strip) /\ ~Quoted(whole'))
                    /\ parted' =>
                         /\ Ended(statement').tokens \in {"ended", "two"}
                         /\ Quoted(statement'.strip)
                              => Ended(statement').tokens = "two"
                    /\ joined' => Ended(statement').tokens = "two"
  BY Zenon DEF Sighted, Quoted, Ended, Pass
<1>1. /\ verdict = "open" /\ ahead \in Runes /\ ~astray
      /\ whole' = StripStep(whole, ahead, r)
      /\ statement' = Consume(statement, ahead, r)
      /\ parted' = (parted \/ Cut(whole, ahead))
      /\ joined' = \/ joined
                   \/ parted /\ ~Comment(strip, ahead, r) /\ ahead \notin Blanks
      /\ \/ ahead \in Blanks
         \/ Comment(strip, ahead, r) <=> Comment(whole, ahead, r)
  BY DEF Read, Advance, TypeOK
<1>2. /\ strip \in Scanners /\ whole \in Scanners
      /\ strip = whole \/ (~Quoted(strip) /\ ~Quoted(whole))
      /\ parted => /\ tokens \in {"ended", "two"}
                   /\ Quoted(strip) => tokens = "two"
      /\ joined => tokens = "two"
  BY <1>1 DEF TypeOK, Statements, Sighted
<1>3. /\ statement'.strip = StripStep(strip, ahead, r)
      /\ Ended(statement').tokens =
           TokensAfter(tokens, AsToken(strip), shown, None)
      /\ tokens \in Tokens /\ tokens # "comment"
  <2>1. Consume(statement, ahead, r) \in Statements
    BY <1>1, Consumed DEF TypeOK
  <2> QED
    BY <1>1, <2>1, ConsumedLag DEF Statements
<1>4. ahead \in Blanks => ahead \notin {"quote", "dquote"}
  BY DEF Blanks, Space
<1>5. ~Comment(strip, ahead, r) /\ ~Quoted(strip) =>
        strip = At("code") /\ AsToken(strip) = At("code") /\ shown = ahead
  BY <1>1, <1>2, KeptUnquoted, ShownRunes, ScannerFields DEF AsToken, Quoted
<1>6. \/ statement'.strip = whole'
      \/ ~Quoted(statement'.strip) /\ ~Quoted(whole')
  <2>1. CASE /\ ~Quoted(strip) /\ ~Quoted(whole)
             /\ Comment(strip, ahead, r) /\ Comment(whole, ahead, r)
    BY <1>1, <1>2, <1>3, <2>1, UnquotedStays
  <2>2. CASE ~Quoted(strip) /\ ~Quoted(whole) /\ ahead \in Blanks
    BY <1>1, <1>2, <1>3, <1>4, <2>2, UnquotedStays
  <2>3. CASE /\ ~Quoted(strip) /\ ~Quoted(whole)
             /\ ~Comment(strip, ahead, r) /\ ~Comment(whole, ahead, r)
    BY <1>1, <1>2, <1>3, <2>3, KeptUnquoted
  <2> QED
    BY <1>1, <1>2, <1>3, <2>1, <2>2, <2>3
<1>7. CASE parted
  <2>1. Ended(statement').tokens \in {"ended", "two"}
    BY <1>2, <1>3, <1>7, LastToken
  <2>2. tokens = "two" => Ended(statement').tokens = "two"
    BY <1>2, <1>3, <1>7, LastToken
  <2>3. ~Quoted(strip) /\ ~Comment(strip, ahead, r) /\ ahead \notin Blanks
          => Ended(statement').tokens = "two"
    BY <1>2, <1>3, <1>5, <1>7, LastToken
  <2>4. Quoted(statement'.strip) /\ ~Quoted(strip)
          => ~Comment(strip, ahead, r) /\ ahead \notin Blanks
    BY <1>2, <1>3, <1>4, UnquotedStays
  <2>5. Quoted(statement'.strip) => Ended(statement').tokens = "two"
    BY <1>2, <1>7, <2>2, <2>3, <2>4
  <2>6. joined' => Ended(statement').tokens = "two"
    BY <1>1, <1>2, <1>7, <2>2, <2>3
  <2> QED
    BY <1>6, <2>1, <2>5, <2>6
<1>8. CASE ~parted
  <2>1. joined' => Ended(statement').tokens = "two"
    BY <1>1, <1>2, <1>3, <1>8, LastToken
  <2>2. ASSUME parted'
        PROVE  /\ Ended(statement').tokens \in {"ended", "two"}
               /\ ~Quoted(statement'.strip)
    <3>1. whole = At("code") /\ ahead = "semicolon"
      BY <1>1, <1>8, <2>2 DEF Cut
    <3>2. ~Quoted(whole) /\ ~Comment(whole, ahead, r) /\ ahead \notin Blanks
      BY <3>1, ScannerFields DEF Quoted, Comment, Openers, Blanks, Space
    <3>3. ~Quoted(strip) /\ ~Comment(strip, ahead, r)
      BY <1>1, <1>2, <3>2
    <3>4. Ended(statement').tokens \in {"ended", "two"}
      BY <1>3, <1>5, <3>1, <3>3, SemicolonToken
    <3>5. ~Quoted(statement'.strip)
      BY <1>2, <1>3, <3>1, <3>3, UnquotedStays
    <3> QED
      BY <3>4, <3>5
  <2> QED
    BY <1>6, <2>1, <2>2
<1> QED
  BY <1>7, <1>8

LEMMA SightedStep ==
  TypeOK /\ Lag /\ Sighted /\ Unjoined /\ [Next]_vars => Sighted' /\ Unjoined'
<1> SUFFICES ASSUME TypeOK, Lag, Sighted, Unjoined, [Next]_vars
             PROVE  Sighted' /\ Unjoined'
  OBVIOUS
<1>1. ASSUME NEW r \in Runes \cup {None}, Read(r)
      PROVE  Sighted' /\ Unjoined'
  <2>1. verdict' = "open"
    BY <1>1 DEF Read, Advance
  <2> QED
    BY <1>1, <2>1, SightedRead DEF Unjoined
<1>2. ASSUME verdict = "open", ~astray, Skips \/ Accepts
      PROVE  ~joined
  BY <1>2 DEF Sighted, Skips, Accepts, Blank, Valid
<1>3. ASSUME NEW r \in Runes \cup {None}, Semicolon(r)
      PROVE  Sighted' /\ Unjoined'
  <2>1. /\ verdict = "open" /\ verdict' = "open" /\ ahead = "semicolon"
        /\ whole' = StripStep(whole, ahead, r)
        /\ statement' = NewStatement /\ astray' = astray
        /\ ~parted' /\ joined' = joined /\ (Skips \/ Accepts)
    BY <1>3 DEF Semicolon, Advance, Cut
  <2>2. ~Quoted(statement.strip)
    BY <2>1 DEF Skips, Accepts, Stripped, Quoted
  <2>3. ~astray => ~Quoted(whole')
    BY <2>1, <2>2, UnquotedStays DEF Sighted, TypeOK
  <2>4. ~Quoted(statement'.strip)
    BY <2>1, ScannerFields DEF NewStatement, Quoted
  <2>5. ~astray => ~joined'
    BY <1>2, <2>1
  <2> QED
    BY <2>1, <2>3, <2>4, <2>5 DEF Sighted, Unjoined, Quoted
<1>4. CASE Finish
  BY <1>2, <1>4 DEF Finish, Sighted, Unjoined
<1>5. CASE Refuse
  BY <1>5 DEF Refuse, Sighted, Unjoined
<1>6. CASE UNCHANGED vars
  BY <1>6 DEF vars, Sighted, Unjoined, Quoted, Ended, Pass
<1> QED
  BY <1>1, <1>3, <1>4, <1>5, <1>6 DEF Next

(* What is a comment in an accepted script is one in its statements, and   *)
(* the other way round, unless it has an empty literal or an escaped       *)
(* quote; and no two statements pass as one (parser_nocgo.go:9-78).        *)
THEOREM OddQuotes == Spec => []OnlyOddQuotesMislead
<1>1. Init => Lag /\ Straight /\ Sighted /\ Unjoined
  <2>1. Init => Lag
    BY NewLag DEF Init
  <2>2. Init => Sighted /\ Unjoined
    BY DEF Init, Sighted, Unjoined, NewStatement
  <2> QED
    BY <2>1, <2>2, StraightInit
<1>2. TypeOK /\ Lag /\ Straight /\ Sighted /\ Unjoined /\ [Next]_vars
        => (Lag /\ Straight /\ Sighted /\ Unjoined)'
  BY LagStep, StraightStep, SightedStep
<1>3. Straight /\ Unjoined => OnlyOddQuotesMislead
  BY DEF Straight, Unjoined, OnlyOddQuotesMislead
<1> QED
  BY <1>1, <1>2, <1>3, TypeCorrect, PTL DEF Spec
=============================================================================
