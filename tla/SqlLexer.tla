------------------------------ MODULE SqlLexer ------------------------------
(***************************************************************************)
(* How sqlguard.ValidateScript takes an import script apart, in the build  *)
(* without cgo.                                                            *)
(*                                                                         *)
(* splitStatements cuts the script at semicolons, stripSQLComments blanks  *)
(* the comments of each piece, and Validate tokenizes what is left.  The   *)
(* scanners know nothing of one another, and each has rules of its own for *)
(* quotes.  None has any effect, so that the model may run them in         *)
(* lockstep: it reads a script of any length rune by rune, each with the   *)
(* one after it in sight, which is as far as any of them looks ahead.      *)
(*                                                                         *)
(* Runes stand for the classes the scanners tell apart; "letter" is any    *)
(* other.  What can only refuse a script is the action Refuse: "$" in the  *)
(* tokenizer, splitting a statement once more in Validate, and the checks  *)
(* of what a statement says (allowlist, schemas, policies).                *)
(***************************************************************************)
EXTENDS Naturals

CONSTANT MaxStatements   \* max_script_statements

ASSUME ConstantsAssumption == MaxStatements \in Nat \ {0}

Runes == {"quote", "dquote", "dash", "slash", "star", "semicolon",
          "backslash", "newline", "letter"}
Space == "space"           \* what a comment is blanked with
Blanks == {Space, "newline"}
None == "none"             \* the rune after the last one

Openers == {<<"dash", "dash">>, <<"slash", "star">>}

Modes == {"code", "single", "double", "line", "block"}

VARIABLES
  ahead,      \* the next rune to be scanned
  split,      \* splitStatements
  statement,  \* the scanners of the statement that is being read
  number,     \* statementNumber
  verdict,    \* "open", "accepted" or "refused"
  \* history, read by the properties only
  whole,      \* stripSQLComments, had it been given the whole script
  odd,        \* an empty literal or an escaped quote has been read
  parted,     \* the statement contains a semicolon outside quotes
  joined,     \* an accepted statement goes on after such a semicolon
  astray      \* text was taken for a comment that is none, or conversely

vars == <<ahead, split, statement, number, verdict,
          whole, odd, parted, joined, astray>>

-----------------------------------------------------------------------------
(* The state of a scanner: its mode, and whether it has consumed the rune  *)
(* to come together with the last one.                                     *)
Scanners == [mode: Modes, skip: BOOLEAN]
At(m) == [mode |-> m, skip |-> FALSE]
Over(m) == [mode |-> m, skip |-> TRUE]

\* Defective variant: line comments mean nothing to the splitter.
SplitNoLine(s, ch, next) ==
  CASE s.skip -> At(s.mode)
    [] s = At("block") -> IF <<ch, next>> = <<"star", "slash">>
                          THEN Over("code") ELSE s
    [] s = At("code") /\ <<ch, next>> = <<"slash", "star">> -> Over("block")
    [] s = At("code") /\ ch = "quote" -> IF next = "quote" THEN Over("single")
                                                           ELSE At("single")
    [] s = At("single") /\ ch = "quote" -> At("code")
    [] s = At("code") /\ ch = "dquote" -> At("double")
    [] s = At("double") /\ ch = "dquote" -> At("code")
    [] OTHER -> s

\* splitStatements: a quote inside a literal leaves it, even a doubled one,
\* which then opens it again; a quote right after the opening one is skipped.
SplitStep(s, ch, next) ==
  CASE s.skip -> At(s.mode)
    [] s = At("line") -> At(IF ch = "newline" THEN "code" ELSE "line")
    [] s = At("block") -> IF <<ch, next>> = <<"star", "slash">>
                          THEN Over("code") ELSE s
    [] s = At("code") /\ <<ch, next>> = <<"dash", "dash">> -> Over("line")
    [] s = At("code") /\ <<ch, next>> = <<"slash", "star">> -> Over("block")
    [] s = At("code") /\ ch = "quote" -> IF next = "quote" THEN Over("single")
                                                           ELSE At("single")
    [] s = At("single") /\ ch = "quote" -> At("code")
    [] s = At("code") /\ ch = "dquote" -> At("double")
    [] s = At("double") /\ ch = "dquote" -> At("code")
    [] OTHER -> s

\* Where it ends a statement.
Cut(s, ch) == s = At("code") /\ ch = "semicolon"

\* Defective variant: a backslash escapes nothing.
StripNoEscape(s, ch, next) ==
  CASE s.skip -> At(s.mode)
    [] s = At("line") -> At(IF ch = "newline" THEN "code" ELSE "line")
    [] s = At("block") -> IF <<ch, next>> = <<"star", "slash">>
                          THEN Over("code") ELSE s
    [] s = At("code") /\ <<ch, next>> = <<"dash", "dash">> -> Over("line")
    [] s = At("code") /\ <<ch, next>> = <<"slash", "star">> -> Over("block")
    [] s = At("single") /\ ch = "quote" -> At("code")
    [] s = At("double") /\ ch = "dquote" -> At("code")
    [] s = At("code") /\ ch = "quote" -> At("single")
    [] s = At("code") /\ ch = "dquote" -> At("double")
    [] OTHER -> s

\* stripSQLComments: doubled quotes and backslashes are escapes.
StripStep(s, ch, next) ==
  CASE s.skip -> At(s.mode)
    [] s = At("line") -> At(IF ch = "newline" THEN "code" ELSE "line")
    [] s = At("block") -> IF <<ch, next>> = <<"star", "slash">>
                          THEN Over("code") ELSE s
    [] s = At("code") /\ <<ch, next>> = <<"dash", "dash">> -> Over("line")
    [] s = At("code") /\ <<ch, next>> = <<"slash", "star">> -> Over("block")
    [] s = At("single") /\ ch = "backslash" /\ next # None -> Over("single")
    [] s = At("single") /\ ch = "quote" -> IF next = "quote" THEN Over("single")
                                                             ELSE At("code")
    [] s = At("double") /\ ch = "dquote" -> IF next = "dquote"
                                            THEN Over("double") ELSE At("code")
    [] s = At("code") /\ ch = "quote" -> At("single")
    [] s = At("code") /\ ch = "dquote" -> At("double")
    [] OTHER -> s

\* The runes it blanks, newlines apart: both runes of "*/" included.
Comment(s, ch, next) ==
  \/ s.mode \in {"line", "block"}
  \/ s = Over("code")
  \/ s = At("code") /\ <<ch, next>> \in Openers

Shown(s, ch, next) ==
  IF Comment(s, ch, next) /\ ch # "newline" THEN Space ELSE ch

\* tokenize, as far as quotes go ...
TokenStep(s, ch, next) ==
  CASE s.skip -> At(s.mode)
    [] s = At("code") /\ ch = "quote" -> At("single")
    [] s = At("single") /\ ch = "backslash" /\ next # None -> Over("single")
    [] s = At("single") /\ ch = "quote" -> IF next = "quote" THEN Over("single")
                                                             ELSE At("code")
    [] s = At("code") /\ ch = "dquote" -> At("double")
    [] s = At("double") /\ ch = "dquote" -> IF next = "dquote"
                                            THEN Over("double") ELSE At("code")
    [] OTHER -> s

\* ... and the tokens so far: none, some, some with a semicolon as the last
\* one ("ended"), or with one before that ("two"), which
\* validateStatementTokens refuses, or a comment, which tokenize does.
Tokens == {"none", "some", "ended", "two", "comment"}

TokensAfter(t, s, ch, next) ==
  IF s # At("code") \/ ch \in Blanks \/ t = "comment" THEN t
  ELSE IF <<ch, next>> \in Openers THEN "comment"
  ELSE IF t \in {"ended", "two"} THEN "two"
  ELSE IF ch = "semicolon" THEN "ended" ELSE "some"

-----------------------------------------------------------------------------
(* One statement.  The tokenizer reads what stripSQLComments writes, one   *)
(* rune behind because of its look ahead.                                  *)
Statements == [strip: Scanners, held: Runes \cup {Space, None},
               token: Scanners, tokens: Tokens]

NewStatement == [strip |-> At("code"), held |-> None,
                 token |-> At("code"), tokens |-> "none"]

\* The rune held back is tokenized, with the one after it in sight.
Pass(st, next) ==
  IF st.held = None THEN st
  ELSE [st EXCEPT !.token  = TokenStep(@, st.held, next),
                  !.tokens = TokensAfter(@, st.token, st.held, next)]

Consume(st, ch, next) ==
  LET shown == Shown(st.strip, ch, next)
  IN  [Pass(st, shown) EXCEPT !.held = shown,
                              !.strip = StripStep(@, ch, next)]

Ended(st) == Pass(st, None)

\* Only an unterminated line comment may end with its statement.
Stripped(st) == st.strip.mode \in {"code", "line"}
Blank(st) == Ended(st).tokens = "none"
Valid(st) == /\ Ended(st).token.mode = "code"
             /\ Ended(st).tokens \notin {"two", "comment"}

-----------------------------------------------------------------------------
Init ==
  /\ ahead     \in Runes \cup {None}
  /\ split     = At("code")
  /\ statement = NewStatement
  /\ number    = 0
  /\ verdict   = "open"
  /\ whole     = At("code")
  /\ odd       = FALSE
  /\ parted    = FALSE
  /\ joined    = FALSE
  /\ astray    = FALSE

\* The scanners that read the script as a whole go on to the rune r.
Advance(r) ==
  /\ verdict = "open"
  /\ ahead # None
  /\ ahead' = r
  /\ split' = SplitStep(split, ahead, r)
  /\ whole' = StripStep(whole, ahead, r)
  /\ odd' = \/ odd
            \/ split = At("code") /\ ahead = "quote" /\ r = "quote"
            \/ whole = At("single") /\ ahead = "backslash" /\ r = "quote"

\* A rune that belongs to a statement.
Read(r) ==
  LET kept == ~Comment(statement.strip, ahead, r)
  IN  /\ ~Cut(split, ahead)
      /\ Advance(r)
      /\ statement' = Consume(statement, ahead, r)
      /\ parted' = (parted \/ Cut(whole, ahead))
      /\ joined' = \/ joined
                   \/ parted /\ kept /\ ahead \notin Blanks
      /\ astray' = \/ astray
                   \/ /\ ahead \notin Blanks
                      /\ kept # ~Comment(whole, ahead, r)
      /\ UNCHANGED <<number, verdict>>

\* The body of ValidateScript's loop: comments alone make no statement.
Skips == Stripped(statement) /\ Blank(statement)
\* Defective variant: one statement too many.
AcceptsOneMore == /\ Stripped(statement)
                  /\ ~Blank(statement)
                  /\ number <= MaxStatements
                  /\ Valid(statement)

Accepts == /\ Stripped(statement)
           /\ ~Blank(statement)
           /\ number < MaxStatements
           /\ Valid(statement)

\* A semicolon that ends a statement that can be skipped or accepted.
Semicolon(r) ==
  /\ Cut(split, ahead)
  /\ Advance(r)
  /\ Skips \/ Accepts
  /\ number' = IF Skips THEN number ELSE number + 1
  /\ statement' = NewStatement
  /\ parted' = FALSE
  /\ UNCHANGED <<verdict, joined, astray>>

\* The end of the script, which must have a statement.
Finish ==
  /\ verdict = "open"
  /\ ahead = None
  /\ Accepts \/ (Skips /\ number > 0)
  /\ verdict' = "accepted"
  /\ number' = IF Skips THEN number ELSE number + 1
  /\ UNCHANGED <<ahead, split, statement, whole, odd, parted, joined, astray>>

\* A statement is refused, for its form or for what it says: the script is
\* dropped, nothing of it is executed.
Refuse ==
  /\ verdict = "open"
  /\ verdict' = "refused"
  /\ ahead' = None
  /\ split' = At("code")
  /\ whole' = At("code")
  /\ statement' = NewStatement
  /\ number' = 0
  /\ parted' = FALSE
  /\ UNCHANGED <<odd, joined, astray>>

Next ==
  \/ \E r \in Runes \cup {None} : Read(r) \/ Semicolon(r)
  \/ Finish
  \/ Refuse

Spec == Init /\ [][Next]_vars

-----------------------------------------------------------------------------
TypeOK ==
  /\ ahead     \in Runes \cup {None}
  /\ split     \in Scanners
  /\ statement \in Statements
  /\ number    \in 0..MaxStatements
  /\ verdict   \in {"open", "accepted", "refused"}
  /\ whole     \in Scanners
  /\ odd       \in BOOLEAN
  /\ parted    \in BOOLEAN
  /\ joined    \in BOOLEAN
  /\ astray    \in BOOLEAN

\* What stripSQLComments has passed holds no surprise for the tokenizer: it
\* finds neither a comment nor an unterminated quote (sqlguard.go:255-353
\* against 469-569), so that comments in a script never make it fail.
StripTokenizeAgree ==
  Stripped(statement) =>
    LET e == Ended(statement)
    IN  e.token.mode = "code" /\ e.tokens # "comment"

\* Every rune of an accepted script is read as a scan of the whole would
\* read it, unless the script has an empty literal or an escaped quote; and
\* no two of its statements pass as one, whatever the splitter overlooked, as
\* long as no comment has led it astray (parser_nocgo.go:9-78,
\* sqlguard.go:255-353, 573-575).
OnlyOddQuotesMislead ==
  verdict = "accepted" => /\ odd \/ ~astray
                          /\ astray \/ ~joined

\* README.md:155: "it strips only envelope comments, validates each statement
\* independently, and executes the complete allowlisted script": what is a
\* comment in an accepted script is not executed, and what is none is.
CommentsStayComments == verdict = "accepted" => ~astray
=============================================================================
