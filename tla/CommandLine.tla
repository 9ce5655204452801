---------------------------- MODULE CommandLine ----------------------------
(***************************************************************************)
(* From tokens to commands: the syntax check of parser.c, the dispatch of  *)
(* main(), the splitting of a line by sequence.c, and the three passes of  *)
(* command.c that turn the tokens of a command into arguments and          *)
(* redirections.                                                           *)
(*                                                                         *)
(* The passes see a token in two ways. Its type tells an operator from a   *)
(* word; its value is text, and a word that was quoted may have the text   *)
(* of an operator. parser.c, sequence.c, has_pipeline() and                *)
(* parse_pipeline() look at types, the redirection passes at values.       *)
(***************************************************************************)
EXTENDS Lexer

CONSTANTS
  Builtins,   \* the names main() compares the first token of a line with
  Missing     \* the names for which exec_command() finds no executable file

\* The operators that end a command.
Ends == {"OP_SEMI", "OP_AMP"}

IsWord(t) == t.type = "WORD"

-----------------------------------------------------------------------------
(***************************************************************************)
(* parser.c: every function looks at one token and calls the next function *)
(* on the rest, so the call in progress is the state of an automaton.      *)
(***************************************************************************)

\* parse_arg: the function it calls on each kind of token.
parse_arg(t) ==
  CASE IsWord(t) -> "arg"
    [] t.type \in {"OP_LT", "OP_GT", "OP_GTGT"} -> "tgt"
    [] t.type \in {"OP_PIPE", "OP_SEMI"} -> "cmd"
    [] t.type = "OP_AMP" -> "bg"

\* parse_line, parse_cmd, parse_tgt and parse_bg: a word, then parse_arg.
ParseStep(f, t) ==
  CASE f = "arg" -> parse_arg(t)
    [] f \in {"line", "cmd", "tgt", "bg"} /\ IsWord(t) -> "arg"
    [] OTHER -> "error"

\* Plausible bug: parse_cmd() accepts the end of the line, like parse_bg().
AcceptsEndMutant(f) == f \in {"line", "arg", "bg", "cmd"}

\* The functions that accept the end of the line.
AcceptsEnd(f) == f \in {"line", "arg", "bg"}

parsing(l) == AcceptsEnd(FoldLeft(ParseStep, "line", l))

-----------------------------------------------------------------------------
(***************************************************************************)
(* command.c: the passes over one command.                                 *)
(***************************************************************************)

\* One round of the loop of parse_input_redirect (stops is TRUE: the text of ;
\* or & ends the command) or of parse_pipeline_stage (stops is FALSE).
InputStep(stops, s, t) ==
  CASE s.at = "end"   -> s
    [] s.at = "file"  -> IF IsWord(t)
                         THEN [s EXCEPT !.inputs = Append(@, t.value), !.at = "args"]
                         ELSE [s EXCEPT !.ok = FALSE, !.at = "end"]
    [] s.at = "args"  -> CASE stops /\ t.value \in {<<";">>, <<"&">>} -> [s EXCEPT !.at = "end"]
                           [] t.value = <<"<">> -> [s EXCEPT !.at = "file"]
                           [] OTHER -> [s EXCEPT !.argv = Append(@, t.value)]

parse_input(stops, toks) ==
  LET s == FoldLeft(LAMBDA a, t : InputStep(stops, a, t),
                    [ok |-> TRUE, at |-> "args", argv |-> <<>>, inputs |-> <<>>], toks)
  IN  [s EXCEPT !.ok = @ /\ s.at # "file"]

\* struct output_file of the file that follows an operator.
File(v, op) == [name |-> v, append |-> op = "OP_GTGT"]

\* Plausible bug: the name of the file stays among the arguments.
OutputStepMutant(s, v) ==
  CASE s.at # "args" -> [s EXCEPT !.outputs = Append(@, File(v, s.at)),
                                  !.argv = Append(@, v), !.at = "args"]
    [] s.at = "args" /\ v \in {<<">">>, <<">", ">">>} -> [s EXCEPT !.at = OpType(v)]
    [] OTHER -> [s EXCEPT !.argv = Append(@, v)]

\* One round of the loop of parse_output_redirection, over values.
OutputStep(s, v) ==
  CASE s.at # "args" -> [s EXCEPT !.outputs = Append(@, File(v, s.at)),
                                  !.at = "args"]
    [] s.at = "args" /\ v \in {<<">">>, <<">", ">">>} -> [s EXCEPT !.at = OpType(v)]
    [] OTHER -> [s EXCEPT !.argv = Append(@, v)]

parse_output_redirection(argv) ==
  LET s == FoldLeft(OutputStep, [at |-> "args", argv |-> <<>>, outputs |-> <<>>], argv)
  IN  [ok |-> s.at = "args", argv |-> s.argv, outputs |-> s.outputs]

Failed == [ok |-> FALSE, builtin |-> FALSE, argv |-> <<>>, inputs |-> <<>>, outputs |-> <<>>]

\* A simple command or a stage after both passes; either of them, or an empty
\* argument list, ends it.
Stage(stops, toks) ==
  LET in  == parse_input(stops, toks)
      out == parse_output_redirection(in.argv)
  IN  IF in.ok /\ out.ok /\ out.argv # <<>>
      THEN [ok |-> TRUE, builtin |-> FALSE, argv |-> out.argv,
            inputs |-> in.inputs, outputs |-> out.outputs]
      ELSE Failed

\* The pieces of a list of tokens between the operators of the given types.
Pieces(s, types) ==
  LET at   == SelectSeq([i \in DOMAIN s |-> i], LAMBDA i : s[i].type \in types)
      cuts == <<0>> \o at \o <<Len(s) + 1>>
  IN  [k \in 1..(Len(cuts) - 1) |-> SubSeq(s, cuts[k] + 1, cuts[k + 1] - 1)]

has_pipeline(toks) == \E i \in DOMAIN toks : toks[i].type = "OP_PIPE"

\* One stage that cannot be parsed is the end of the whole pipeline.
parse_pipeline(toks) ==
  LET pieces == Pieces(toks, {"OP_PIPE"})
      stages == [k \in DOMAIN pieces |-> Stage(FALSE, pieces[k])]
  IN  IF \A k \in DOMAIN stages : stages[k].ok THEN stages ELSE <<Failed>>

Command(toks) ==
  IF has_pipeline(toks) THEN parse_pipeline(toks) ELSE <<Stage(TRUE, toks)>>

\* exec_command returns 1: a simple command in the foreground whose name leads
\* to no executable file. It is the same for a path, a name with % and a name to
\* look up in PATH, so a name stands for all three (and for its text without %).
\* A pipeline, a command in the background and a command that cannot be parsed
\* return 0 or are not asked.
NotFound(launch) ==
  /\ ~launch.bg
  /\ Len(launch.stages) = 1
  /\ launch.stages[1].ok
  /\ launch.stages[1].argv[1] \in Missing

\* The loop of sequence_command: it returns at the first command not found.
UntilNotFound(launches) ==
  FoldLeft(LAMBDA done, c : IF done # <<>> /\ NotFound(Last(done)) THEN done ELSE Append(done, c),
           <<>>, launches)

\* sequence_command: one launch per piece between ; and &, in the background
\* when & ends it, up to the first command that is not found. Nothing follows
\* a final &.
sequence_command(l) ==
  LET ends   == SelectSeq(l, LAMBDA t : t.type \in Ends)
      pieces == Pieces(l, Ends)
      n      == IF l = <<>> \/ l[Len(l)].type \in Ends THEN Len(ends) ELSE Len(pieces)
  IN  UntilNotFound([k \in 1..n |-> [stages |-> Command(pieces[k]),
                                     bg |-> k <= Len(ends) /\ ends[k].type = "OP_AMP"]])

\* The built-in gets the list of all the tokens of the line, and reads their
\* values as its arguments whatever their types.
RunBuiltin(l) ==
  <<[stages |-> <<[ok |-> TRUE, builtin |-> TRUE, argv |-> [k \in DOMAIN l |-> l[k].value],
                   inputs |-> <<>>, outputs |-> <<>>]>>,
     bg |-> FALSE]>>

\* main() on a line that passed the syntax check: the value of the first token
\* decides whether a built-in gets the line.
Execute(l) ==
  IF l # <<>> /\ l[1].value \in Builtins THEN RunBuiltin(l) ELSE sequence_command(l)

-----------------------------------------------------------------------------
(***************************************************************************)
(* The reference: what a line means, by the types of its tokens.           *)
(***************************************************************************)

\* The texts of the operators.
OpTexts == {<<c>> : c \in {"|", "&", ";", "<", ">"}} \cup {<<">", ">">>}

\* Words follow everything but words, and only & may end a line besides them.
Grammar(l) ==
  \A i \in 0..Len(l) :
    i = 0 \/ ~IsWord(l[i]) => \/ i < Len(l) /\ IsWord(l[i + 1])
                              \/ i = Len(l) /\ (i = 0 \/ l[i].type = "OP_AMP")

\* The words of toks at the positions that satisfy P.
WordsAt(toks, P(_)) ==
  LET at == SelectSeq([i \in DOMAIN toks |-> i], LAMBDA i : IsWord(toks[i]) /\ P(i))
  IN  [k \in DOMAIN at |-> toks[at[k]].value]

After(toks, i, ops) == i > 1 /\ toks[i - 1].type \in ops

MeaningOfStage(toks) ==
  LET outs == SelectSeq([i \in DOMAIN toks |-> i],
                        LAMBDA i : IsWord(toks[i]) /\ After(toks, i, {"OP_GT", "OP_GTGT"}))
      argv == WordsAt(toks, LAMBDA i : ~After(toks, i, {"OP_LT", "OP_GT", "OP_GTGT"}))
  IN  [ok      |-> TRUE,
       builtin |-> argv[1] \in Builtins,
       argv    |-> argv,
       inputs  |-> WordsAt(toks, LAMBDA i : After(toks, i, {"OP_LT"})),
       outputs |-> [k \in DOMAIN outs |->
                      [name |-> toks[outs[k]].value,
                       append |-> toks[outs[k] - 1].type = "OP_GTGT"]]]

\* A launch is a maximal run of tokens without ; and &; a stage one without |.
Runs(l, ops) ==
  {<<i, j>> \in (DOMAIN l) \X (DOMAIN l) :
     /\ i <= j /\ \A k \in i..j : l[k].type \notin ops
     /\ i = 1 \/ l[i - 1].type \in ops
     /\ j = Len(l) \/ l[j + 1].type \in ops}

\* The k-th of the runs in the order of the line.
InOrder(runs) == SetToSortSeq(runs, LAMBDA a, b : a[1] < b[1])

Meaning(l) ==
  LET launches == InOrder(Runs(l, Ends)) IN
  [k \in DOMAIN launches |->
     LET piece  == SubSeq(l, launches[k][1], launches[k][2])
         stages == InOrder(Runs(piece, {"OP_PIPE"}))
         end    == launches[k][2] + 1
     IN  [stages |-> [m \in DOMAIN stages |->
                        MeaningOfStage(SubSeq(piece, stages[m][1], stages[m][2]))],
          bg |-> end <= Len(l) /\ l[end].type = "OP_AMP"]]

\* parser.c accepts exactly the lines of the grammar: a redirection has its
\* file, a pipe and a semicolon their command, and only & may end a line.
SyntaxCheck ==
  LET l == lexing(line) IN l.ok => (parsing(l.toks) <=> Grammar(l.toks))

\* The launches of m up to the first command that is not found.
Prefix(m) ==
  LET stops == {k \in DOMAIN m : NotFound(m[k])}
  IN  IF stops = {} THEN m ELSE SubSeq(m, 1, Min(stops))

OnlyOf(types, l) == \A i \in DOMAIN l : l[i].type \in types

\* No command of the line is a built-in, or the line is one command of words.
NoBuiltinAmong(l) ==
  \/ OnlyOf({"WORD"}, l)
  \/ LET m == Meaning(l)
     IN  \A k \in DOMAIN m : \A i \in DOMAIN m[k].stages : ~m[k].stages[i].builtin

\* Every later pass agrees with the syntax check: a line that parsing() lets
\* through is executed as the commands, stages, arguments and redirections its
\* tokens mean, up to the first foreground command that is not found, and no
\* pass reports an error of its own. This is of lines without built-ins, or of
\* one built-in and its arguments; src/README:64 says of all of them that
\* quotes and backslashes are supported, so a word that was quoted should be an
\* argument whatever its text. It is not: see FaithfulPlain.
Faithful ==
  LET l == lexing(line) IN
  l.ok /\ parsing(l.toks) /\ NoBuiltinAmong(l.toks)
    => Execute(l.toks) = Prefix(Meaning(l.toks))

\* What the code does manage: the passes agree with the tokens on every line in
\* which no word has the text of an operator, and the line stops after the
\* first command not found and nowhere else. The passes see the text of a token
\* and the syntax check its type, so only together do they get this right.
FaithfulPlain ==
  LET l == lexing(line) IN
  (\A i \in DOMAIN l.toks : IsWord(l.toks[i]) => l.toks[i].value \notin OpTexts)
    => Faithful

\* src/README:198-201: "Commands separated by `;` run sequentially", with a line
\* of three built-ins as the example. False: main() gives the whole line to the
\* built-in that comes first, and sequence_command() takes a later one for the
\* name of a file. No word of the line has the text of an operator.
SequenceRuns ==
  LET l == lexing(line) IN
  /\ l.ok /\ parsing(l.toks) /\ OnlyOf({"WORD", "OP_SEMI"}, l.toks)
  /\ \A i \in DOMAIN l.toks : IsWord(l.toks[i]) => l.toks[i].value \notin OpTexts
  => Execute(l.toks) = Prefix(Meaning(l.toks))
=============================================================================
