------------------------------- MODULE Lexer -------------------------------
(***************************************************************************)
(* lexer.c: how an input line becomes a list of tokens.                    *)
(*                                                                         *)
(* lexing() goes through the line once, from left to right, so it is a     *)
(* fold over the characters. The mode says which loop of the code has the  *)
(* next character: "top" lexing() between tokens, "gt" after one '>',      *)
(* "word" the loop over a word, "sq" single_quote, "dq" double_quote, and  *)
(* "bs" and "dqbs" after a backslash in a word and in double quotes. One   *)
(* blank stands for the four the code knows.                               *)
(***************************************************************************)
EXTENDS Integers, SequencesExt

CONSTANTS Chars,   \* the characters of the input lines
          MaxLen   \* bound: length of a line

ASSUME LexerAssumption == MaxLen \in Nat

VARIABLE line      \* what the user has typed so far

is_space(c) == c = " "
is_special(c) == c \in {"|", "&", ";", "<", ">"}

OpType(v) ==
  CASE v = <<"|">> -> "OP_PIPE" [] v = <<"&">> -> "OP_AMP" [] v = <<";">> -> "OP_SEMI"
    [] v = <<"<">> -> "OP_LT" [] v = <<">">> -> "OP_GT" [] v = <<">", ">">> -> "OP_GTGT"

\* add_token, for the text v of an operator and for the word collected so far.
AddOp(s, v) == [s EXCEPT !.toks = Append(@, [type |-> OpType(v), value |-> v]),
                         !.mode = "top"]
AddWord(s) == [s EXCEPT !.toks = Append(@, [type |-> "WORD", value |-> s.word]),
                        !.word = <<>>, !.mode = "top"]

\* The characters vs go into the word, and the mode m follows.
Put(s, vs, m) == [s EXCEPT !.word = @ \o vs, !.mode = m]
Go(s, m) == [s EXCEPT !.mode = m]

\* A blank or an operator outside of quotes.
Between(s, c) ==
  CASE is_space(c) -> s
    [] c = ">"     -> Go(s, "gt")
    [] OTHER       -> AddOp(s, <<c>>)

\* A character of a word outside of quotes, the first one or a later one.
WordChar(s, c) ==
  CASE c = "\\" -> Go(s, "bs")
    [] c = "\"" -> Go(s, "dq")
    [] c = "'"  -> Go(s, "sq")
    [] OTHER    -> Put(s, <<c>>, "word")

Unquoted(s, c) ==
  LET after == CASE s.mode = "gt" -> AddOp(s, <<">">>)
                 [] s.mode = "word" /\ (is_space(c) \/ is_special(c)) -> AddWord(s)
                 [] OTHER -> s
  IN  CASE s.mode = "gt" /\ c = ">" -> AddOp(s, <<">", ">">>)
        [] is_space(c) \/ is_special(c) -> Between(after, c)
        [] OTHER -> WordChar(after, c)

single_quote(s, c) == IF c = "'" THEN Go(s, "word") ELSE Put(s, <<c>>, "sq")

double_quote(s, c) ==
  CASE c = "\"" -> Go(s, "word")
    [] c = "\\" -> Go(s, "dqbs")
    [] OTHER    -> Put(s, <<c>>, "dq")

\* Plausible bug: in double quotes only the quote can be escaped.
EscapedMutant(s, c) == Put(s, IF c = "\"" THEN <<c>> ELSE <<"\\", c>>, "dq")

\* After a backslash in double quotes: it disappears before a quote and before
\* a backslash, and stays before anything else.
Escaped(s, c) == Put(s, IF c \in {"\"", "\\"} THEN <<c>> ELSE <<"\\", c>>, "dq")

backslash_quote(s, c) == Put(s, <<c>>, "word")

LexStep(s, c) ==
  CASE s.mode = "sq"   -> single_quote(s, c)
    [] s.mode = "dq"   -> double_quote(s, c)
    [] s.mode = "dqbs" -> Escaped(s, c)
    [] s.mode = "bs"   -> backslash_quote(s, c)
    [] OTHER           -> Unquoted(s, c)

Scan(l) == FoldLeft(LexStep, [mode |-> "top", word |-> <<>>, toks |-> <<>>], l)

\* The end of the line: a word or a '>' in progress is a token; a quotation or
\* an escape in progress is an error.
lexing(l) ==
  LET s == Scan(l) IN
  CASE s.mode = "top"  -> [ok |-> TRUE, toks |-> s.toks]
    [] s.mode = "word" -> [ok |-> TRUE, toks |-> AddWord(s).toks]
    [] s.mode = "gt"   -> [ok |-> TRUE, toks |-> AddOp(s, <<">">>).toks]
    [] OTHER           -> [ok |-> FALSE, toks |-> <<>>]

-----------------------------------------------------------------------------
\* The user types any line.
Init == line = <<>>

Type == \E c \in Chars : Len(line) < MaxLen /\ line' = Append(line, c)

Next == Type

Spec == Init /\ [][Next]_line

-----------------------------------------------------------------------------
(***************************************************************************)
(* The reference: how each kind of quotation writes a word. A quote inside *)
(* single quotes cannot be written, nor an empty word by escapes.          *)
(***************************************************************************)
Styles == {"single", "double", "escape"}

Before(w, specials) ==
  FlattenSeq([i \in DOMAIN w |-> IF w[i] \in specials THEN <<"\\", w[i]>> ELSE <<w[i]>>])

Quotable(w, style) == CASE style = "single" -> \A i \in DOMAIN w : w[i] # "'"
                        [] style = "escape" -> w # <<>>
                        [] OTHER -> TRUE

Quote(w, style) ==
  CASE style = "single" -> <<"'">> \o w \o <<"'">>
    [] style = "double" -> <<"\"">> \o Before(w, {"\"", "\\"}) \o <<"\"">>
    [] style = "escape" -> Before(w, Chars)

\* A blank is needed between two words and after a '>' before another one.
NeedsBlank(t, u) == \/ t.type = "WORD" /\ u.type = "WORD"
                    \/ t.type = "OP_GT" /\ u.type \in {"OP_GT", "OP_GTGT"}

\* The tokens written out again, with as few blanks as possible.
Render(toks, style) ==
  FlattenSeq([i \in DOMAIN toks |->
    (IF toks[i].type = "WORD" THEN Quote(toks[i].value, style) ELSE toks[i].value)
    \o (IF i < Len(toks) /\ NeedsBlank(toks[i], toks[i + 1]) THEN <<" ">> ELSE <<>>)])

\* Quoting protects: whatever words and operators a line means, writing them
\* again in any of the three quotation styles, with no blank that is not
\* needed, means the same tokens (lexer.c: lexing, single_quote, double_quote,
\* backslash_quote).
RoundTrip ==
  LET l == lexing(line) IN
  l.ok =>
    \A style \in Styles :
      (\A i \in DOMAIN l.toks : l.toks[i].type = "WORD" => Quotable(l.toks[i].value, style))
        => lexing(Render(l.toks, style)) = l
=============================================================================
