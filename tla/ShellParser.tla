----------------------------- MODULE ShellParser -----------------------------
(***************************************************************************)
(* The recursive descent parser of sh.c over the tokens of a line, and     *)
(* what it should compute.  Every token but "|", "<" and ">" is a word.    *)
(* An execcmd and the redircmd records around it are one record: "redirs"  *)
(* lists them from the innermost to the outermost.  A tree of pipecmds     *)
(* grows to the right: it is the sequence of its leaves.                   *)
(***************************************************************************)
EXTENDS Integers, SequencesExt, FiniteSets

CONSTANT MAXARGS

ASSUME MAXARGSAssumption == MAXARGS \in Nat \ {0}

IsWord(token) == token \notin {"|", "<", ">"}

execcmd == [argv |-> << >>, redirs |-> << >>]
redircmd(cmd, file, type) == [cmd EXCEPT !.redirs = Append(@, [type |-> type, file |-> file])]

(* Where the parser is.                                                     *)
(*   ps: the token it comes to next                                         *)
(*   left: the commands of the parsepipe calls that wait for their right    *)
(*   cmd: the command it is in                                              *)
(*   at: the function and loop it is in, or "parsed", or its error message  *)
(* Each of the operators below is one turn of the loop it is named for.     *)
start == [ps |-> 1, left |-> << >>, cmd |-> execcmd, at |-> "parseredirs"]

peek(tokens, parser, set) == parser.ps <= Len(tokens) /\ tokens[parser.ps] \in set

Fails(parser, message) == [parser EXCEPT !.at = message]

parseredirs(tokens, parser) ==
  LET ps == parser.ps
  IN CASE ~peek(tokens, parser, {"<", ">"}) -> [parser EXCEPT !.at = "parseexec"]
       [] peek(tokens, parser, {"<", ">"}) /\ (ps = Len(tokens) \/ ~IsWord(tokens[ps + 1])) ->
            Fails(parser, "missing file")
       [] OTHER ->
            [parser EXCEPT !.ps = ps + 2, !.cmd = redircmd(@, tokens[ps + 1], tokens[ps])]

\* Mutant: one argument too many, which leaves no room for the null pointer.
TooManyLate(argc) == argc > MAXARGS
TooMany(argc) == argc >= MAXARGS

parseexec(tokens, parser) ==
  LET token == tokens[parser.ps]
  IN CASE parser.ps > Len(tokens) \/ peek(tokens, parser, {"|"}) ->
            [parser EXCEPT !.at = "parsepipe"]
       [] parser.ps <= Len(tokens) /\ token \in {"<", ">"} -> Fails(parser, "syntax error")
       [] parser.ps <= Len(tokens) /\ IsWord(token) /\ TooMany(Len(parser.cmd.argv) + 1) ->
            Fails(parser, "too many args")
       [] OTHER -> [parser EXCEPT !.ps = @ + 1, !.cmd.argv = Append(@, token), !.at = "parseredirs"]

parsepipe(tokens, parser) ==
  IF peek(tokens, parser, {"|"})
    THEN [ps |-> parser.ps + 1, left |-> Append(parser.left, parser.cmd), cmd |-> execcmd,
          at |-> "parseredirs"]
    ELSE [parser EXCEPT !.at = "parsecmd"]

parsecmd(tokens, parser) ==
  IF parser.ps <= Len(tokens) THEN Fails(parser, "leftovers")
                              ELSE [parser EXCEPT !.at = "parsed"]

Parsing(parser) == parser.at \in {"parseredirs", "parseexec", "parsepipe", "parsecmd"}

ParserTurn(tokens, parser) ==
  CASE parser.at = "parseredirs" -> parseredirs(tokens, parser)
    [] parser.at = "parseexec"   -> parseexec(tokens, parser)
    [] parser.at = "parsepipe"   -> parsepipe(tokens, parser)
    [] parser.at = "parsecmd"    -> parsecmd(tokens, parser)

\* The parsepipe calls return, the last one first, with the pipecmd they make.
pipecmd(parser) == Append(parser.left, parser.cmd)

-----------------------------------------------------------------------------
(* What a line means *)

Bars(tokens) == {k \in DOMAIN tokens : tokens[k] = "|"}
Arrows(tokens) == {k \in DOMAIN tokens : tokens[k] \in {"<", ">"}}
Commands(tokens) == 1..(Cardinality(Bars(tokens)) + 1)

\* The command that token k belongs to: those between the bars, counted from 1.
CommandAt(tokens, k) == Cardinality({b \in Bars(tokens) : b < k}) + 1

\* A file follows every arrow; the words that are not files are arguments.
Redirections(tokens, j) == {k \in Arrows(tokens) : CommandAt(tokens, k) = j}
Arguments(tokens, j) ==
  {k \in DOMAIN tokens : /\ IsWord(tokens[k]) /\ k - 1 \notin Arrows(tokens)
                         /\ CommandAt(tokens, k) = j}

IsLine(tokens) ==
  /\ \A k \in Arrows(tokens) : k + 1 \in DOMAIN tokens /\ IsWord(tokens[k + 1])
  /\ \A j \in Commands(tokens) : Cardinality(Arguments(tokens, j)) < MAXARGS

\* The place of token k among those of a set.
Rank(set, k) == Cardinality({m \in set : m <= k})

\* argv and the redirections of command j, complete and in their order.
IsCommand(tokens, j, cmd) ==
  /\ Len(cmd.argv) = Cardinality(Arguments(tokens, j))
  /\ \A k \in Arguments(tokens, j) : cmd.argv[Rank(Arguments(tokens, j), k)] = tokens[k]
  /\ Len(cmd.redirs) = Cardinality(Redirections(tokens, j))
  /\ \A k \in Redirections(tokens, j) :
       cmd.redirs[Rank(Redirections(tokens, j), k)] = [type |-> tokens[k], file |-> tokens[k + 1]]

\* The parser accepts the lines whose commands are well-formed, and no others;
\* it keeps every argument and every redirection of every command, in their
\* order, with room in argv for the null pointer; and its messages "syntax
\* error" and "leftovers" are for errors that no line has.
ParsesRight(tokens, parser) ==
  IF IsLine(tokens)
    THEN /\ parser.at = "parsed"
         /\ DOMAIN pipecmd(parser) = Commands(tokens)
         /\ \A j \in Commands(tokens) : IsCommand(tokens, j, pipecmd(parser)[j])
    ELSE parser.at \in {"missing file", "too many args"}
=============================================================================
