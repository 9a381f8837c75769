---------------------------- MODULE ShellProofs ----------------------------
(***************************************************************************)
(* Proofs about Shell, for any lines: the parser accepts what it should    *)
(* and loses nothing, programs start with the descriptors that the line    *)
(* gives them, and nothing is left over at the prompt.                     *)
(***************************************************************************)
EXTENDS Shell, SequenceTheorems, FiniteSetTheorems, TLAPS

-----------------------------------------------------------------------------
(* Counting positions *)

LEMMA FiniteBelow ==
  ASSUME NEW S, NEW n \in Int, S \subseteq 1..n
  PROVE  IsFiniteSet(S) /\ Cardinality(S) \in Nat
<1>1. IsFiniteSet(1..n)
  BY FS_Interval
<1>2. IsFiniteSet(S)
  BY <1>1, FS_Subset
<1> QED
  BY <1>2, FS_CardinalityType

\* A position behind all others of a set is the last one, and leaves the ranks
\* of the others as they were.
LEMMA LastRank ==
  ASSUME NEW S \in SUBSET Int, IsFiniteSet(S), NEW n \in Int, \A k \in S : k < n
  PROVE  /\ Cardinality(S \cup {n}) = Cardinality(S) + 1
         /\ \A k \in S : Rank(S \cup {n}, k) = Rank(S, k)
         /\ Rank(S \cup {n}, n) = Cardinality(S) + 1
<1>1. n \notin S
  OBVIOUS
<1>2. Cardinality(S \cup {n}) = Cardinality(S) + 1
  BY <1>1, FS_AddElement
<1>3. ASSUME NEW k \in S PROVE Rank(S \cup {n}, k) = Rank(S, k)
  <2>1. {m \in S \cup {n} : m <= k} = {m \in S : m <= k}
    OBVIOUS
  <2> QED
    BY <2>1 DEF Rank
<1>4. {m \in S \cup {n} : m <= n} = S \cup {n}
  <2>1. \A m \in S : m \in Int /\ m < n
    OBVIOUS
  <2>2. n <= n /\ \A m \in S : m <= n
    BY <2>1
  <2> QED
    BY <2>2, Zenon
<1> QED
  BY <1>2, <1>3, <1>4 DEF Rank

\* Ranks are the numbers from 1, in the order of the positions.
LEMMA RankOrder ==
  ASSUME NEW S \in SUBSET Int, IsFiniteSet(S), NEW k \in S
  PROVE  /\ Rank(S, k) \in 1..Cardinality(S)
         /\ \A j \in S : j < k <=> Rank(S, j) < Rank(S, k)
<1> DEFINE Upto(j) == {m \in S : m <= j}
<1>1. ASSUME NEW j \in S
      PROVE  /\ IsFiniteSet(Upto(j)) /\ Cardinality(Upto(j)) \in Nat
             /\ Cardinality(Upto(j)) <= Cardinality(S)
  <2>1. Upto(j) \in SUBSET S
    OBVIOUS
  <2>2. IsFiniteSet(Upto(j)) /\ Cardinality(Upto(j)) <= Cardinality(S)
    BY <2>1, FS_Subset
  <2> QED
    BY <2>2, FS_CardinalityType
<1>2. ASSUME NEW i \in S, NEW j \in S, i < j
      PROVE  Cardinality(Upto(i)) < Cardinality(Upto(j))
  <2>3. i \in Int /\ j \in Int /\ \A m \in S : m \in Int
    OBVIOUS
  <2>4. j <= j /\ ~(j <= i) /\ \A m \in S : m <= i => m <= j
    BY <2>3, <1>2
  <2>1. Upto(i) \in SUBSET Upto(j) /\ j \in Upto(j) /\ j \notin Upto(i)
    BY <2>4, Zenon
  <2>2. Cardinality(Upto(i)) <= Cardinality(Upto(j)) /\ Cardinality(Upto(i)) # Cardinality(Upto(j))
    BY <2>1, <1>1, FS_Subset
  <2> QED
    BY <2>2, <1>1
<1>3. Cardinality(Upto(k)) # 0
  BY <1>1, FS_EmptySet
<1>4. Cardinality(S) \in Nat
  BY FS_CardinalityType
<1>5. \A j \in S : Rank(S, j) = Cardinality(Upto(j))
  BY DEF Rank
<1> HIDE DEF Upto
<1>6. Rank(S, k) \in 1..Cardinality(S)
  BY <1>1, <1>3, <1>4, <1>5
<1>7. ASSUME NEW j \in S PROVE j < k <=> Rank(S, j) < Rank(S, k)
  <2>1. j \in Int /\ k \in Int
    OBVIOUS
  <2>2. Rank(S, j) \in Int /\ Rank(S, k) \in Int
    BY <1>1, <1>5
  <2>3. CASE j < k
    BY <2>3, <1>2, <1>5
  <2>4. CASE j = k
    BY <2>4, <2>2
  <2>5. CASE k < j
    BY <2>5, <2>2, <1>2, <1>5
  <2> QED
    BY <2>1, <2>3, <2>4, <2>5
<1> QED
  BY <1>6, <1>7

-----------------------------------------------------------------------------
(* Positions in a line *)

IsTokens(l) == l \in Seq(Range(l))

LEMMA TokensAre ==
  ASSUME NEW l, IsTokens(l)
  PROVE  /\ Len(l) \in Nat /\ DOMAIN l = 1..Len(l)
         /\ \A k \in 1..Len(l) : l[k] \in Range(l)
BY DEF IsTokens, Range

BarsBefore(l, n) == {b \in Bars(l) : b < n}
ArgumentsBefore(l, j, n) == {k \in Arguments(l, j) : k < n}
RedirectionsBefore(l, j, n) == {k \in Redirections(l, j) : k < n}

LEMMA PositionsAreFinite ==
  ASSUME NEW l, IsTokens(l), NEW j, NEW n
  PROVE  /\ IsFiniteSet(Bars(l)) /\ Cardinality(Bars(l)) \in Nat
         /\ IsFiniteSet(BarsBefore(l, n)) /\ Cardinality(BarsBefore(l, n)) \in Nat
         /\ IsFiniteSet(Arguments(l, j)) /\ Cardinality(Arguments(l, j)) \in Nat
         /\ IsFiniteSet(ArgumentsBefore(l, j, n)) /\ Cardinality(ArgumentsBefore(l, j, n)) \in Nat
         /\ IsFiniteSet(Redirections(l, j)) /\ Cardinality(Redirections(l, j)) \in Nat
         /\ IsFiniteSet(RedirectionsBefore(l, j, n))
         /\ Cardinality(RedirectionsBefore(l, j, n)) \in Nat
<1>1. /\ Bars(l) \subseteq 1..Len(l) /\ BarsBefore(l, n) \subseteq 1..Len(l)
      /\ Arguments(l, j) \subseteq 1..Len(l) /\ ArgumentsBefore(l, j, n) \subseteq 1..Len(l)
      /\ Redirections(l, j) \subseteq 1..Len(l) /\ RedirectionsBefore(l, j, n) \subseteq 1..Len(l)
  BY TokensAre DEF Bars, BarsBefore, Arguments, ArgumentsBefore, Redirections, RedirectionsBefore, Arrows
<1>2. Len(l) \in Int
  BY TokensAre
<1> QED
  BY <1>1, <1>2, FiniteBelow

LEMMA CommandAtIs ==
  ASSUME NEW l, IsTokens(l), NEW k
  PROVE  CommandAt(l, k) = Cardinality(BarsBefore(l, k)) + 1 /\ CommandAt(l, k) \in Nat
BY PositionsAreFinite DEF CommandAt, BarsBefore

\* Commands are numbered from left to right.
LEMMA CommandsRise ==
  ASSUME NEW l, IsTokens(l), NEW j \in Int, NEW k \in Int, j <= k
  PROVE  /\ CommandAt(l, j) <= CommandAt(l, k)
         /\ j \in Bars(l) /\ j < k => CommandAt(l, j) < CommandAt(l, k)
<1>1. BarsBefore(l, j) \in SUBSET BarsBefore(l, k)
  BY TokensAre DEF BarsBefore, Bars
<1>2. /\ Cardinality(BarsBefore(l, j)) <= Cardinality(BarsBefore(l, k))
      /\ Cardinality(BarsBefore(l, j)) = Cardinality(BarsBefore(l, k))
           => BarsBefore(l, j) = BarsBefore(l, k)
  BY <1>1, PositionsAreFinite, FS_Subset
<1>3. j \in Bars(l) /\ j < k => j \in BarsBefore(l, k) /\ j \notin BarsBefore(l, j)
  BY DEF BarsBefore
<1>4. /\ Cardinality(BarsBefore(l, j)) \in Nat /\ Cardinality(BarsBefore(l, k)) \in Nat
  BY PositionsAreFinite
<1> QED
  BY <1>2, <1>3, <1>4, CommandAtIs

\* One position further.
LEMMA BarsNext ==
  ASSUME NEW l, IsTokens(l), NEW n \in 1..Len(l)
  PROVE  Cardinality(BarsBefore(l, n + 1)) =
           Cardinality(BarsBefore(l, n)) + (IF l[n] = "|" THEN 1 ELSE 0)
<1>1. BarsBefore(l, n + 1) = BarsBefore(l, n) \cup (IF l[n] = "|" THEN {n} ELSE {})
  BY TokensAre DEF BarsBefore, Bars
<1>2. n \notin BarsBefore(l, n)
  BY DEF BarsBefore
<1>3. Cardinality(BarsBefore(l, n)) \in Nat
  BY PositionsAreFinite
<1>4. CASE l[n] = "|"
  BY <1>1, <1>2, <1>4, PositionsAreFinite, FS_AddElement
<1>5. CASE l[n] # "|"
  BY <1>1, <1>5, <1>3
<1> QED
  BY <1>4, <1>5

LEMMA ArgumentsNext ==
  ASSUME NEW l, IsTokens(l), NEW n \in 1..Len(l), NEW j
  PROVE  /\ n \in Arguments(l, j) => ArgumentsBefore(l, j, n + 1) = ArgumentsBefore(l, j, n) \cup {n}
         /\ n \notin Arguments(l, j) => ArgumentsBefore(l, j, n + 1) = ArgumentsBefore(l, j, n)
         /\ n \in Redirections(l, j) =>
              RedirectionsBefore(l, j, n + 1) = RedirectionsBefore(l, j, n) \cup {n}
         /\ n \notin Redirections(l, j) => RedirectionsBefore(l, j, n + 1) = RedirectionsBefore(l, j, n)
<1>1. /\ \A k \in Arguments(l, j) : k \in Int
      /\ \A k \in Redirections(l, j) : k \in Int
  BY TokensAre DEF Arguments, Redirections, Arrows
<1>2. n \in Int /\ n < n + 1
  OBVIOUS
<1>3. \A k \in Int : k < n + 1 <=> k < n \/ k = n
  BY <1>2
<1> QED
  BY <1>1, <1>2, <1>3 DEF ArgumentsBefore, RedirectionsBefore

-----------------------------------------------------------------------------
(* The parser *)

Cmds(l) ==
  [argv : Seq(Range(l)), redirs : Seq([type : Range(l), file : Range(l)])]

\* cmd has the arguments and redirections of command j before position n.
ReadUpto(l, j, cmd, n) ==
  LET args == ArgumentsBefore(l, j, n)
      redirs == RedirectionsBefore(l, j, n)
  IN /\ Len(cmd.argv) = Cardinality(args)
     /\ \A k \in args : cmd.argv[Rank(args, k)] = l[k]
     /\ Len(cmd.redirs) = Cardinality(redirs)
     /\ \A k \in redirs : cmd.redirs[Rank(redirs, k)] = [type |-> l[k], file |-> l[k + 1]]
     /\ \A i \in 1..Len(cmd.redirs) : \E k \in redirs : Rank(redirs, k) = i

Turns == {"parseredirs", "parseexec", "parsepipe", "parsecmd"}
Messages == {"missing file", "syntax error", "too many args", "leftovers"}

ParserType(l, parser) ==
  parser \in [ps : 1..(Len(l) + 1), left : Seq(Cmds(l)), cmd : Cmds(l),
              at : Turns \cup {"parsed"} \cup Messages]

\* What the parser has read of the line is right.
ReadRight(l, parser) ==
  /\ Len(parser.left) = Cardinality(BarsBefore(l, parser.ps))
  /\ \A j \in 1..(Len(parser.left) + 1) :
       /\ ReadUpto(l, j, pipecmd(parser)[j], parser.ps)
       /\ Len(pipecmd(parser)[j].argv) < MAXARGS
  /\ \A k \in Arrows(l) : k < parser.ps => k + 1 < parser.ps /\ IsWord(l[k + 1])

\* What it will find.
Ahead(l, parser) ==
  LET ps == parser.ps
  IN /\ parser.at = "parseexec" => ps \notin Arrows(l)
     /\ parser.at = "parsepipe" => ps = Len(l) + 1 \/ ps \in Bars(l)
     /\ parser.at \in {"parsecmd", "parsed"} => ps = Len(l) + 1

ParserOK(l, parser) ==
  /\ ParserType(l, parser)
  /\ parser.at \notin Messages => ReadRight(l, parser) /\ Ahead(l, parser)
  /\ parser.at \in Messages => parser.at \in {"missing file", "too many args"} /\ ~IsLine(l)

LEMMA PipecmdIs ==
  ASSUME NEW l, NEW parser, ParserType(l, parser)
  PROVE  /\ pipecmd(parser) \in Seq(Cmds(l))
         /\ Len(parser.left) \in Nat
         /\ Len(pipecmd(parser)) = Len(parser.left) + 1
         /\ pipecmd(parser)[Len(parser.left) + 1] = parser.cmd
         /\ \A j \in 1..Len(parser.left) : pipecmd(parser)[j] = parser.left[j]
<1>1. parser.left \in Seq(Cmds(l)) /\ parser.cmd \in Cmds(l)
  BY DEF ParserType
<1> QED
  BY <1>1, AppendProperties DEF pipecmd

LEMMA NothingRead ==
  ASSUME NEW l, IsTokens(l), NEW j, NEW n,
         ArgumentsBefore(l, j, n) = {}, RedirectionsBefore(l, j, n) = {}
  PROVE  execcmd \in Cmds(l) /\ ReadUpto(l, j, execcmd, n) /\ Len(execcmd.argv) < MAXARGS
<1>1. execcmd \in Cmds(l) /\ execcmd.argv = << >> /\ execcmd.redirs = << >>
  BY EmptySeq DEF execcmd, Cmds
<1>2. Len(<< >>) = 0
  OBVIOUS
<1>3. Cardinality({}) = 0
  BY FS_EmptySet
<1> QED
  BY <1>1, <1>2, <1>3, MAXARGSAssumption DEF ReadUpto

LEMMA StartIsRight ==
  ASSUME NEW l, IsTokens(l)
  PROVE  ParserOK(l, start)
<1>1. Len(l) \in Nat /\ DOMAIN l = 1..Len(l)
  BY TokensAre
<1>2. \A k \in 1..Len(l) : ~(k < 1)
  BY <1>1
<1>3. /\ BarsBefore(l, 1) = {} /\ ArgumentsBefore(l, 1, 1) = {} /\ RedirectionsBefore(l, 1, 1) = {}
      /\ \A k \in Arrows(l) : ~(k < 1)
  BY <1>1, <1>2 DEF BarsBefore, Bars, ArgumentsBefore, Arguments, RedirectionsBefore, Redirections, Arrows
<1>4. /\ execcmd \in Cmds(l) /\ ReadUpto(l, 1, execcmd, 1) /\ Len(execcmd.argv) < MAXARGS
  BY <1>3, NothingRead
<1>5. ParserType(l, start)
  BY <1>1, <1>4, EmptySeq DEF ParserType, start, Turns
<1>6. Len(start.left) = 0 /\ Cardinality(BarsBefore(l, 1)) = 0 /\ start.ps = 1
  BY <1>3, FS_EmptySet DEF start
<1>7. pipecmd(start)[1] = execcmd
  BY <1>5, <1>6, PipecmdIs DEF start
<1>8. 1..(Len(start.left) + 1) = {1}
  BY <1>6
<1>9. ReadRight(l, start)
  BY <1>3, <1>4, <1>6, <1>7, <1>8 DEF ReadRight
<1>10. start.at = "parseredirs" /\ Ahead(l, start)
  BY DEF start, Ahead
<1> QED
  BY <1>5, <1>9, <1>10 DEF ParserOK, Messages

\* A turn that only changes where the parser is.
LEMMA MovesOn ==
  ASSUME NEW l, NEW parser, ParserOK(l, parser), parser.at \notin Messages,
         NEW at \in Turns \cup {"parsed"}, NEW next, next = [parser EXCEPT !.at = at],
         Ahead(l, next)
  PROVE  ParserOK(l, next)
<1>1. /\ ParserType(l, next) /\ next.at = at /\ next.ps = parser.ps
      /\ next.left = parser.left /\ next.cmd = parser.cmd
  BY DEF ParserOK, ParserType
<1>2. ReadRight(l, next)
  BY <1>1 DEF ParserOK, ReadRight, pipecmd
<1>3. next.at \notin Messages
  BY <1>1 DEF Turns, Messages
<1> QED
  BY <1>1, <1>2, <1>3 DEF ParserOK

LEMMA GivesUp ==
  ASSUME NEW l, NEW parser, ParserOK(l, parser), ~IsLine(l),
         NEW at \in {"missing file", "too many args"}
  PROVE  ParserOK(l, Fails(parser, at))
<1>1. ParserType(l, Fails(parser, at)) /\ Fails(parser, at).at = at
  BY DEF ParserOK, ParserType, Fails, Messages
<1> QED
  BY <1>1 DEF ParserOK, Messages

\* The command that the parser is in.
LEMMA ParserIsIn ==
  ASSUME NEW l, IsTokens(l), NEW parser, ParserOK(l, parser), parser.at \notin Messages,
         parser.ps \in 1..Len(l)
  PROVE  CommandAt(l, parser.ps) = Len(parser.left) + 1
BY CommandAtIs DEF ParserOK, ReadRight

\* A turn that adds to the command that the parser is in.
LEMMA Reads ==
  ASSUME NEW l, IsTokens(l), NEW parser, ParserOK(l, parser), parser.at \notin Messages,
         NEW next, ParserType(l, next), next.left = parser.left, next.at = "parseredirs",
         Cardinality(BarsBefore(l, next.ps)) = Cardinality(BarsBefore(l, parser.ps)),
         \A j \in 1..Len(parser.left) :
           /\ ArgumentsBefore(l, j, next.ps) = ArgumentsBefore(l, j, parser.ps)
           /\ RedirectionsBefore(l, j, next.ps) = RedirectionsBefore(l, j, parser.ps),
         ReadUpto(l, Len(parser.left) + 1, next.cmd, next.ps), Len(next.cmd.argv) < MAXARGS,
         \A k \in Arrows(l) : k < next.ps => k + 1 < next.ps /\ IsWord(l[k + 1])
  PROVE  ParserOK(l, next)
<1> DEFINE n == Len(parser.left)
<1>1. ParserType(l, parser)
  BY DEF ParserOK
<1>2. /\ n \in Nat /\ pipecmd(next)[n + 1] = next.cmd
      /\ \A j \in 1..n : pipecmd(next)[j] = pipecmd(parser)[j]
  BY <1>1, PipecmdIs
<1>3. \A j \in 1..n : ReadUpto(l, j, pipecmd(next)[j], next.ps) /\ Len(pipecmd(next)[j].argv) < MAXARGS
  <2> SUFFICES ASSUME NEW j \in 1..n
                PROVE  ReadUpto(l, j, pipecmd(next)[j], next.ps) /\ Len(pipecmd(next)[j].argv) < MAXARGS
    OBVIOUS
  <2>1. j \in 1..(n + 1)
    BY <1>2
  <2>2. ReadUpto(l, j, pipecmd(parser)[j], parser.ps) /\ Len(pipecmd(parser)[j].argv) < MAXARGS
    BY <2>1 DEF ParserOK, ReadRight
  <2>3. ReadUpto(l, j, pipecmd(parser)[j], next.ps)
    BY <2>2 DEF ReadUpto
  <2> QED
    BY <1>2, <2>2, <2>3
<1>4. \A j \in 1..(n + 1) : j \in 1..n \/ j = n + 1
  BY <1>2
<1>5. ReadRight(l, next)
  <2>1. Len(next.left) = Cardinality(BarsBefore(l, next.ps))
    BY DEF ParserOK, ReadRight
  <2> QED
    BY <1>2, <1>3, <1>4, <2>1 DEF ReadRight
<1>6. Ahead(l, next) /\ next.at \notin Messages
  BY DEF Ahead, Messages
<1> QED
  BY <1>5, <1>6 DEF ParserOK

LEMMA ReadsRedirection ==
  ASSUME NEW l, IsTokens(l), NEW parser, ParserOK(l, parser), parser.at = "parseredirs",
         peek(l, parser, {"<", ">"}), parser.ps # Len(l), IsWord(l[parser.ps + 1]),
         NEW next, next = [parser EXCEPT !.ps = parser.ps + 2,
                             !.cmd = redircmd(@, l[parser.ps + 1], l[parser.ps])]
  PROVE  ParserOK(l, next)
<1> DEFINE n == parser.ps
           J == Len(parser.left) + 1
           cmd == parser.cmd
           redir == [type |-> l[n], file |-> l[n + 1]]
           old == RedirectionsBefore(l, J, n)
<1>1. /\ ParserType(l, parser) /\ parser.at \notin Messages /\ ReadRight(l, parser)
      /\ Len(l) \in Nat /\ DOMAIN l = 1..Len(l)
  BY TokensAre DEF ParserOK, Messages
<1>2. /\ n \in 1..Len(l) /\ n + 1 \in 1..Len(l) /\ n \in Arrows(l) /\ n + 1 \notin Arrows(l)
      /\ n \notin Bars(l) /\ n + 1 \notin Bars(l) /\ l[n] # "|" /\ l[n + 1] # "|"
  BY <1>1 DEF ParserType, peek, Arrows, Bars, IsWord
<1>3. CommandAt(l, n) = J /\ J \in Nat
  BY <1>1, <1>2, ParserIsIn, PipecmdIs
<1>4. /\ n \in Redirections(l, J) /\ n + 1 \notin Redirections(l, J)
      /\ \A j : n \notin Arguments(l, j) /\ n + 1 \notin Arguments(l, j)
      /\ \A j : j # J => n \notin Redirections(l, j) /\ n + 1 \notin Redirections(l, j)
  BY <1>2, <1>3 DEF Redirections, Arguments, Arrows, IsWord
<1>5. n + 1 + 1 = n + 2
  BY <1>2
<1>6. /\ \A j : ArgumentsBefore(l, j, n + 2) = ArgumentsBefore(l, j, n)
      /\ \A j : j # J => RedirectionsBefore(l, j, n + 2) = RedirectionsBefore(l, j, n)
      /\ RedirectionsBefore(l, J, n + 2) = old \cup {n}
  BY <1>2, <1>4, <1>5, ArgumentsNext
<1>7. Cardinality(BarsBefore(l, n + 2)) = Cardinality(BarsBefore(l, n))
  <2>1. /\ Cardinality(BarsBefore(l, n + 1)) = Cardinality(BarsBefore(l, n)) + 0
        /\ Cardinality(BarsBefore(l, n + 1 + 1)) = Cardinality(BarsBefore(l, n + 1)) + 0
    BY <1>2, BarsNext
  <2> QED
    BY <1>5, <2>1, PositionsAreFinite
<1>8. cmd \in Cmds(l) /\ redir \in [type : Range(l), file : Range(l)]
  BY <1>1, <1>2, TokensAre DEF ParserType
<1>9. /\ next.ps = n + 2 /\ next.left = parser.left /\ next.at = "parseredirs"
      /\ next.cmd = [argv |-> cmd.argv, redirs |-> Append(cmd.redirs, redir)]
  BY <1>1, <1>8 DEF ParserType, redircmd, Cmds
<1>10. /\ cmd.redirs \in Seq([type : Range(l), file : Range(l)])
       /\ Append(cmd.redirs, redir) \in Seq([type : Range(l), file : Range(l)])
       /\ Len(cmd.redirs) \in Nat
       /\ Len(Append(cmd.redirs, redir)) = Len(cmd.redirs) + 1
       /\ Append(cmd.redirs, redir)[Len(cmd.redirs) + 1] = redir
       /\ \A i \in 1..Len(cmd.redirs) : Append(cmd.redirs, redir)[i] = cmd.redirs[i]
  BY <1>8, AppendProperties DEF Cmds
<1>11. ParserType(l, next)
  <2>4. cmd.argv \in Seq(Range(l))
    BY <1>8 DEF Cmds
  <2>1. next.cmd \in Cmds(l)
    <3>1. PICK argv \in Seq(Range(l)), redirs \in Seq([type : Range(l), file : Range(l)]) :
            next.cmd = [argv |-> argv, redirs |-> redirs]
      BY <1>9, <1>10, <2>4, Zenon
    <3> QED
      BY <3>1 DEF Cmds
  <2>2. next = [ps |-> n + 2, left |-> parser.left, cmd |-> next.cmd, at |-> "parseredirs"]
    BY <1>1, <1>9 DEF ParserType
  <2>3. n + 2 \in 1..(Len(l) + 1)
    BY <1>1, <1>2
  <2> QED
    BY <1>1, <2>1, <2>2, <2>3 DEF ParserType, Turns
<1>12. /\ ReadUpto(l, J, cmd, n) /\ Len(cmd.argv) < MAXARGS
  BY <1>1, <1>3, PipecmdIs DEF ReadRight
<1>13. ReadUpto(l, J, next.cmd, n + 2)
  <2>9. old \in SUBSET Int /\ n \in Int /\ \A k \in old : k < n
    BY <1>1, <1>2 DEF RedirectionsBefore, Redirections, Arrows
  <2>10. IsFiniteSet(old)
    BY PositionsAreFinite
  <2>1. old \in SUBSET Int /\ IsFiniteSet(old) /\ n \in Int /\ \A k \in old : k < n
    BY <2>9, <2>10
  <2>2. /\ Cardinality(old \cup {n}) = Cardinality(old) + 1
        /\ \A k \in old : Rank(old \cup {n}, k) = Rank(old, k)
        /\ Rank(old \cup {n}, n) = Cardinality(old) + 1
    BY <2>1, LastRank
  <2>3. /\ Len(cmd.redirs) = Cardinality(old)
        /\ \A k \in old : cmd.redirs[Rank(old, k)] = [type |-> l[k], file |-> l[k + 1]]
        /\ \A i \in 1..Len(cmd.redirs) : \E k \in old : Rank(old, k) = i
    BY <1>12 DEF ReadUpto
  <2>4. \A k \in old : Rank(old, k) \in 1..Cardinality(old)
    BY <2>1, RankOrder
  <2>5. Len(next.cmd.redirs) = Cardinality(old \cup {n})
    BY <1>9, <1>10, <2>2, <2>3
  <2>6. \A k \in old \cup {n} :
          next.cmd.redirs[Rank(old \cup {n}, k)] = [type |-> l[k], file |-> l[k + 1]]
    <3>1. next.cmd.redirs = Append(cmd.redirs, redir)
      BY <1>9
    <3>2. ASSUME NEW k \in old
          PROVE  next.cmd.redirs[Rank(old \cup {n}, k)] = [type |-> l[k], file |-> l[k + 1]]
      BY <3>1, <1>10, <2>2, <2>3, <2>4
    <3>3. next.cmd.redirs[Rank(old \cup {n}, n)] = redir
      BY <3>1, <1>10, <2>2, <2>3
    <3> QED
      BY <3>2, <3>3
  <2>7. \A i \in 1..Len(next.cmd.redirs) : \E k \in old \cup {n} : Rank(old \cup {n}, k) = i
    <3>1. \A i \in 1..Len(next.cmd.redirs) : i \in 1..Len(cmd.redirs) \/ i = Len(cmd.redirs) + 1
      BY <1>9, <1>10
    <3> QED
      BY <3>1, <2>2, <2>3
  <2>8. /\ Len(cmd.argv) = Cardinality(ArgumentsBefore(l, J, n))
        /\ \A k \in ArgumentsBefore(l, J, n) : cmd.argv[Rank(ArgumentsBefore(l, J, n), k)] = l[k]
    BY <1>12 DEF ReadUpto
  <2> QED
    <3>1. /\ ArgumentsBefore(l, J, n + 2) = ArgumentsBefore(l, J, n)
          /\ RedirectionsBefore(l, J, n + 2) = old \cup {n}
          /\ next.cmd.argv = cmd.argv
      BY <1>6, <1>9
    <3> HIDE DEF old, J, n, cmd
    <3> QED
      BY <3>1, <2>5, <2>6, <2>7, <2>8 DEF ReadUpto
<1>14. \A k \in Arrows(l) : k < n + 2 => k + 1 < n + 2 /\ IsWord(l[k + 1])
  <2>1. \A k \in Arrows(l) : k < n => k + 1 < n /\ IsWord(l[k + 1])
    BY <1>1 DEF ReadRight
  <2>2. \A k \in Arrows(l) : k \in Int
    BY <1>1 DEF Arrows
  <2>3. \A k \in Arrows(l) : k < n + 2 => k < n \/ k = n
    BY <1>2, <2>2
  <2> QED
    BY <1>2, <2>1, <2>2, <2>3
<1>15. \A j \in 1..Len(parser.left) : j # J
  BY <1>1, <1>3, PipecmdIs
<1>16. Len(next.cmd.argv) < MAXARGS
  BY <1>9, <1>12
<1> HIDE DEF n, J, cmd, redir, old
<1> QED
  BY <1>1, <1>6, <1>7, <1>9, <1>11, <1>13, <1>14, <1>15, <1>16, Reads DEF n, J

LEMMA ParseredirsIsRight ==
  ASSUME NEW l, IsTokens(l), NEW parser, ParserOK(l, parser), parser.at = "parseredirs"
  PROVE  ParserOK(l, parseredirs(l, parser))
<1>1. /\ ParserType(l, parser) /\ parser.at \notin Messages /\ Len(l) \in Nat /\ DOMAIN l = 1..Len(l)
  BY TokensAre DEF ParserOK, Messages
<1>2. CASE ~peek(l, parser, {"<", ">"})
  <2> DEFINE next == [parser EXCEPT !.at = "parseexec"]
  <2>1. next.ps = parser.ps /\ next.at = "parseexec" /\ parser.ps \notin Arrows(l)
    BY <1>1, <1>2 DEF ParserType, peek, Arrows
  <2>2. Ahead(l, next)
    BY <2>1 DEF Ahead
  <2>3. ParserOK(l, next)
    BY <1>1, <2>2, MovesOn DEF Turns
  <2> QED
    BY <1>2, <2>3 DEF parseredirs
<1>3. CASE peek(l, parser, {"<", ">"}) /\ (parser.ps = Len(l) \/ ~IsWord(l[parser.ps + 1]))
  <2>1. parser.ps \in Arrows(l) /\ (parser.ps + 1 \in DOMAIN l => ~IsWord(l[parser.ps + 1]))
    BY <1>1, <1>3 DEF ParserType, peek, Arrows
  <2>2. ~IsLine(l)
    BY <2>1 DEF IsLine
  <2>3. ParserOK(l, Fails(parser, "missing file"))
    BY <2>2, GivesUp
  <2> QED
    BY <1>3, <2>3 DEF parseredirs
<1>4. CASE peek(l, parser, {"<", ">"}) /\ parser.ps # Len(l) /\ IsWord(l[parser.ps + 1])
  <2>1. parseredirs(l, parser) =
          [parser EXCEPT !.ps = parser.ps + 2, !.cmd = redircmd(@, l[parser.ps + 1], l[parser.ps])]
    BY <1>4 DEF parseredirs
  <2> QED
    BY <1>4, <2>1, ReadsRedirection
<1> QED
  BY <1>2, <1>3, <1>4

LEMMA ParsepipeIsRight ==
  ASSUME NEW l, IsTokens(l), NEW parser, ParserOK(l, parser), parser.at = "parsepipe"
  PROVE  ParserOK(l, parsepipe(l, parser))
<1> DEFINE n == parser.ps
           J == Len(parser.left) + 1
<1>1. /\ ParserType(l, parser) /\ parser.at \notin Messages /\ Len(l) \in Nat /\ DOMAIN l = 1..Len(l)
      /\ ReadRight(l, parser) /\ Ahead(l, parser) /\ n \in 1..(Len(l) + 1) /\ J \in Nat
  <2>1. ParserType(l, parser) /\ parser.at \notin Messages
    BY DEF ParserOK, Messages
  <2>2. Len(parser.left) \in Nat
    BY <2>1, PipecmdIs
  <2>3. ReadRight(l, parser) /\ Ahead(l, parser)
    BY <2>1 DEF ParserOK
  <2>4. n \in 1..(Len(l) + 1)
    BY <2>1 DEF ParserType
  <2> QED
    BY <2>1, <2>2, <2>3, <2>4, TokensAre
<1>2. CASE ~peek(l, parser, {"|"})
  <2> DEFINE next == [parser EXCEPT !.at = "parsecmd"]
  <2>1. next.ps = n /\ next.at = "parsecmd" /\ n = Len(l) + 1
    BY <1>1, <1>2 DEF ParserType, peek, Ahead, Bars
  <2>2. Ahead(l, next)
    BY <2>1 DEF Ahead
  <2>3. ParserOK(l, next)
    BY <1>1, <2>2, MovesOn DEF Turns
  <2> QED
    BY <1>2, <2>3 DEF parsepipe
<1>3. CASE peek(l, parser, {"|"})
  <2> DEFINE next == parsepipe(l, parser)
  <2>1. /\ n \in 1..Len(l) /\ l[n] = "|" /\ n \in Bars(l) /\ n \notin Arrows(l) /\ ~IsWord(l[n])
    BY <1>1, <1>3 DEF peek, Bars, Arrows, IsWord
  <2>2. /\ next.ps = n + 1 /\ next.left = pipecmd(parser) /\ next.cmd = execcmd
        /\ next.at = "parseredirs"
        /\ next = [ps |-> n + 1, left |-> pipecmd(parser), cmd |-> execcmd, at |-> "parseredirs"]
    BY <1>3 DEF parsepipe, pipecmd
  <2>3. /\ \A j : ArgumentsBefore(l, j, n + 1) = ArgumentsBefore(l, j, n)
        /\ \A j : RedirectionsBefore(l, j, n + 1) = RedirectionsBefore(l, j, n)
    <3>1. \A j : n \notin Arguments(l, j) /\ n \notin Redirections(l, j)
      BY <2>1 DEF Arguments, Redirections
    <3> QED
      BY <2>1, <3>1, ArgumentsNext
  <2>4. Cardinality(BarsBefore(l, n + 1)) = J
    BY <1>1, <2>1, BarsNext DEF ReadRight
  <2>5. /\ ArgumentsBefore(l, J + 1, n) = {} /\ RedirectionsBefore(l, J + 1, n) = {}
    <3>1. CommandAt(l, n) = J
      BY <1>1, <2>1, ParserIsIn
    <3>2. ASSUME NEW k \in 1..Len(l), k < n PROVE CommandAt(l, k) # J + 1
      <4>1. CommandAt(l, k) <= CommandAt(l, n) /\ CommandAt(l, k) \in Nat
        BY <2>1, <3>2, CommandsRise, CommandAtIs
      <4> QED
        BY <3>1, <4>1, <1>1
    <3> QED
      BY <1>1, <3>2 DEF ArgumentsBefore, RedirectionsBefore, Arguments, Redirections, Arrows
  <2>6. /\ pipecmd(parser) \in Seq(Cmds(l)) /\ Len(pipecmd(parser)) = J
    BY <1>1, PipecmdIs
  <2>7. /\ execcmd \in Cmds(l) /\ ReadUpto(l, J + 1, execcmd, n + 1) /\ Len(execcmd.argv) < MAXARGS
    <3>1. /\ ArgumentsBefore(l, J + 1, n + 1) = {} /\ RedirectionsBefore(l, J + 1, n + 1) = {}
      BY <2>3, <2>5
    <3> QED
      BY <3>1, NothingRead
  <2>8. ParserType(l, next)
    <3>1. n + 1 \in 1..(Len(l) + 1)
      BY <1>1, <2>1
    <3> QED
      BY <2>2, <2>6, <2>7, <3>1 DEF ParserType, Turns
  <2>9. /\ pipecmd(next)[J + 1] = execcmd
        /\ \A j \in 1..J : pipecmd(next)[j] = pipecmd(parser)[j]
    BY <2>2, <2>6, <2>8, PipecmdIs
  <2>10. ReadRight(l, next)
    <3>1. Len(next.left) = Cardinality(BarsBefore(l, next.ps))
      BY <2>2, <2>4, <2>6
    <3>2. ASSUME NEW j \in 1..J
          PROVE  ReadUpto(l, j, pipecmd(next)[j], n + 1) /\ Len(pipecmd(next)[j].argv) < MAXARGS
      <4>1. ReadUpto(l, j, pipecmd(parser)[j], n) /\ Len(pipecmd(parser)[j].argv) < MAXARGS
        BY <1>1 DEF ReadRight
      <4>2. ReadUpto(l, j, pipecmd(parser)[j], n + 1)
        BY <4>1, <2>3 DEF ReadUpto
      <4> QED
        BY <4>1, <4>2, <2>9
    <3>3. ASSUME NEW j \in 1..(Len(next.left) + 1)
          PROVE  /\ ReadUpto(l, j, pipecmd(next)[j], next.ps)
                 /\ Len(pipecmd(next)[j].argv) < MAXARGS
      <4>1. j \in 1..J \/ j = J + 1
        BY <1>1, <2>2, <2>6
      <4> QED
        BY <4>1, <3>2, <2>2, <2>7, <2>9
    <3>4. ASSUME NEW k \in Arrows(l), k < n + 1
          PROVE  k + 1 < n + 1 /\ IsWord(l[k + 1])
      <4>1. k \in Int /\ k < n
        BY <1>1, <2>1, <3>4 DEF Arrows
      <4> QED
        BY <4>1, <1>1 DEF ReadRight
    <3> QED
      BY <2>2, <3>1, <3>3, <3>4 DEF ReadRight
  <2>11. Ahead(l, next) /\ next.at \notin Messages
    BY <2>2 DEF Ahead, Messages
  <2> QED
    BY <2>8, <2>10, <2>11 DEF ParserOK
<1> QED
  BY <1>2, <1>3

LEMMA ParsecmdIsRight ==
  ASSUME NEW l, IsTokens(l), NEW parser, ParserOK(l, parser), parser.at = "parsecmd"
  PROVE  ParserOK(l, parsecmd(l, parser))
<1> DEFINE next == [parser EXCEPT !.at = "parsed"]
<1>1. /\ ParserType(l, parser) /\ parser.at \notin Messages /\ Len(l) \in Nat
      /\ parser.ps = Len(l) + 1
  BY TokensAre DEF ParserOK, Messages, Ahead
<1>2. next.ps = parser.ps /\ next.at = "parsed"
  BY <1>1 DEF ParserType
<1>3. Ahead(l, next)
  BY <1>1, <1>2 DEF Ahead
<1>4. ParserOK(l, next)
  BY <1>1, <1>3, MovesOn
<1> QED
  BY <1>1, <1>4 DEF parsecmd

\* A word that the parser comes to in parseexec is an argument of its command.
LEMMA ComesToArgument ==
  ASSUME NEW l, IsTokens(l), NEW parser, ParserOK(l, parser), parser.at = "parseexec",
         parser.ps <= Len(l), IsWord(l[parser.ps])
  PROVE  /\ parser.ps \in 1..Len(l)
         /\ parser.ps \in Arguments(l, Len(parser.left) + 1)
         /\ Len(parser.left) + 1 \in Commands(l)
         /\ \A j : j # Len(parser.left) + 1 => parser.ps \notin Arguments(l, j)
         /\ \A j : parser.ps \notin Redirections(l, j)
<1> DEFINE n == parser.ps
           J == Len(parser.left) + 1
<1>1. ParserType(l, parser) /\ parser.at \notin Messages
  BY DEF ParserOK, Messages
<1>2. Len(l) \in Nat /\ DOMAIN l = 1..Len(l)
  BY TokensAre
<1>3. n \in 1..Len(l)
  BY <1>1, <1>2 DEF ParserType
<1>4. CommandAt(l, n) = J
  BY <1>1, <1>3, ParserIsIn
<1>5. n - 1 \notin Arrows(l)
  <2>1. \A k \in Arrows(l) : k < n => k + 1 < n
    BY <1>1 DEF ParserOK, ReadRight
  <2> QED
    BY <2>1, <1>3
<1>6. n \notin Arrows(l)
  BY DEF Arrows, IsWord
<1>7. J \in Commands(l)
  <2>1. BarsBefore(l, n) \in SUBSET Bars(l)
    BY DEF BarsBefore
  <2>2. Cardinality(BarsBefore(l, n)) <= Cardinality(Bars(l))
    BY <2>1, PositionsAreFinite, FS_Subset
  <2>3. Len(parser.left) = Cardinality(BarsBefore(l, n))
    BY <1>1 DEF ParserOK, ReadRight
  <2> QED
    <3>1. Cardinality(BarsBefore(l, n)) \in Nat /\ Cardinality(Bars(l)) \in Nat
      BY PositionsAreFinite
    <3> QED
      BY <2>2, <2>3, <3>1 DEF Commands
<1> QED
  BY <1>2, <1>3, <1>4, <1>5, <1>6, <1>7 DEF Arguments, Redirections

LEMMA ReadsArgument ==
  ASSUME NEW l, IsTokens(l), NEW parser, ParserOK(l, parser), parser.at = "parseexec",
         parser.ps <= Len(l), IsWord(l[parser.ps]), ~TooMany(Len(parser.cmd.argv) + 1),
         NEW next, next = [parser EXCEPT !.ps = @ + 1, !.cmd.argv = Append(@, l[parser.ps]),
                                         !.at = "parseredirs"]
  PROVE  ParserOK(l, next)
<1> DEFINE n == parser.ps
           J == Len(parser.left) + 1
           cmd == parser.cmd
           old == ArgumentsBefore(l, J, n)
<1>1. ParserType(l, parser) /\ parser.at \notin Messages
  BY DEF ParserOK, Messages
<1>2. Len(l) \in Nat /\ DOMAIN l = 1..Len(l) /\ Len(parser.left) \in Nat /\ J \in Nat
  BY <1>1, TokensAre, PipecmdIs
<1>3. ReadRight(l, parser) /\ Ahead(l, parser)
  BY <1>1 DEF ParserOK
<1>4. /\ n \in 1..Len(l) /\ n \in Arguments(l, J)
      /\ \A j : j # J => n \notin Arguments(l, j)
      /\ \A j : n \notin Redirections(l, j)
  BY ComesToArgument
<1>5. /\ \A j : RedirectionsBefore(l, j, n + 1) = RedirectionsBefore(l, j, n)
      /\ \A j : j # J => ArgumentsBefore(l, j, n + 1) = ArgumentsBefore(l, j, n)
      /\ ArgumentsBefore(l, J, n + 1) = old \cup {n}
  BY <1>4, ArgumentsNext
<1>6. Cardinality(BarsBefore(l, n + 1)) = Cardinality(BarsBefore(l, n))
  <2>1. l[n] # "|"
    BY DEF IsWord
  <2>2. Cardinality(BarsBefore(l, n + 1)) = Cardinality(BarsBefore(l, n)) + 0
    BY <1>4, <2>1, BarsNext
  <2>3. Cardinality(BarsBefore(l, n)) \in Nat
    BY PositionsAreFinite
  <2> QED
    BY <2>2, <2>3
<1>7. cmd.argv \in Seq(Range(l)) /\ cmd.redirs \in Seq([type : Range(l), file : Range(l)])
  BY <1>1 DEF ParserType, Cmds
<1>8. /\ next.ps = n + 1 /\ next.left = parser.left /\ next.at = "parseredirs"
      /\ next.cmd = [argv |-> Append(cmd.argv, l[n]), redirs |-> cmd.redirs]
      /\ next = [ps |-> n + 1, left |-> parser.left, cmd |-> next.cmd, at |-> "parseredirs"]
  BY <1>1 DEF ParserType, Cmds
<1>9. /\ Append(cmd.argv, l[n]) \in Seq(Range(l))
      /\ Len(cmd.argv) \in Nat
      /\ Len(Append(cmd.argv, l[n])) = Len(cmd.argv) + 1
      /\ Append(cmd.argv, l[n])[Len(cmd.argv) + 1] = l[n]
      /\ \A i \in 1..Len(cmd.argv) : Append(cmd.argv, l[n])[i] = cmd.argv[i]
  <2>1. l[n] \in Range(l)
    BY <1>4, TokensAre
  <2> QED
    BY <1>7, <2>1, AppendProperties
<1>10. ParserType(l, next)
  <2>1. PICK argv \in Seq(Range(l)), redirs \in Seq([type : Range(l), file : Range(l)]) :
          next.cmd = [argv |-> argv, redirs |-> redirs]
    <3>1. /\ next.cmd = [argv |-> Append(cmd.argv, l[n]), redirs |-> cmd.redirs]
          /\ Append(cmd.argv, l[n]) \in Seq(Range(l))
          /\ cmd.redirs \in Seq([type : Range(l), file : Range(l)])
      BY <1>7, <1>8, <1>9
    <3> QED
      BY <3>1, Zenon
  <2>2. next.cmd \in Cmds(l)
    BY <2>1 DEF Cmds
  <2>3. n + 1 \in 1..(Len(l) + 1)
    BY <1>2, <1>4
  <2> QED
    BY <1>1, <1>8, <2>2, <2>3 DEF ParserType, Turns
<1>11. ReadUpto(l, J, cmd, n)
  BY <1>1, <1>2, <1>3, PipecmdIs DEF ReadRight
<1>12. ReadUpto(l, J, next.cmd, n + 1)
  <2>1. old \in SUBSET Int /\ n \in Int /\ \A k \in old : k < n
    BY <1>2, <1>4 DEF ArgumentsBefore, Arguments
  <2>2. IsFiniteSet(old)
    BY PositionsAreFinite
  <2>3. /\ Cardinality(old \cup {n}) = Cardinality(old) + 1
        /\ \A k \in old : Rank(old \cup {n}, k) = Rank(old, k)
        /\ Rank(old \cup {n}, n) = Cardinality(old) + 1
    BY <2>1, <2>2, LastRank
  <2>4. /\ Len(cmd.argv) = Cardinality(old)
        /\ \A k \in old : cmd.argv[Rank(old, k)] = l[k]
    BY <1>11 DEF ReadUpto
  <2>5. \A k \in old : Rank(old, k) \in 1..Cardinality(old)
    BY <2>1, <2>2, RankOrder
  <2>6. next.cmd.argv = Append(cmd.argv, l[n]) /\ next.cmd.redirs = cmd.redirs
    BY <1>8
  <2>7. Len(next.cmd.argv) = Cardinality(old \cup {n})
    BY <2>6, <1>9, <2>3, <2>4
  <2>8. \A k \in old \cup {n} : next.cmd.argv[Rank(old \cup {n}, k)] = l[k]
    <3>1. ASSUME NEW k \in old PROVE next.cmd.argv[Rank(old \cup {n}, k)] = l[k]
      BY <2>6, <1>9, <2>3, <2>4, <2>5
    <3>2. next.cmd.argv[Rank(old \cup {n}, n)] = l[n]
      BY <2>6, <1>9, <2>3, <2>4
    <3> QED
      BY <3>1, <3>2
  <2>9. /\ ArgumentsBefore(l, J, n + 1) = old \cup {n}
        /\ RedirectionsBefore(l, J, n + 1) = RedirectionsBefore(l, J, n)
    BY <1>5
  <2> HIDE DEF old, J, n, cmd
  <2> QED
    BY <2>6, <2>7, <2>8, <2>9, <1>11 DEF ReadUpto
<1>13. \A k \in Arrows(l) : k < n + 1 => k + 1 < n + 1 /\ IsWord(l[k + 1])
  <2>1. \A k \in Arrows(l) : k < n => k + 1 < n /\ IsWord(l[k + 1])
    BY <1>3 DEF ReadRight
  <2>2. \A k \in Arrows(l) : k \in Int
    BY <1>2 DEF Arrows
  <2>3. n \notin Arrows(l)
    BY DEF Arrows, IsWord
  <2> QED
    BY <1>4, <2>1, <2>2, <2>3
<1>14. \A j \in 1..Len(parser.left) : j # J
  BY <1>2
<1>15. Len(next.cmd.argv) < MAXARGS
  BY <1>8, <1>9, MAXARGSAssumption DEF TooMany
<1> HIDE DEF n, J, cmd, old
<1> QED
  BY <1>1, <1>5, <1>6, <1>8, <1>10, <1>12, <1>13, <1>14, <1>15, Reads DEF n, J

LEMMA ParseexecIsRight ==
  ASSUME NEW l, IsTokens(l), NEW parser, ParserOK(l, parser), parser.at = "parseexec"
  PROVE  ParserOK(l, parseexec(l, parser))
<1> DEFINE n == parser.ps
           J == Len(parser.left) + 1
<1>1. ParserType(l, parser) /\ parser.at \notin Messages
  BY DEF ParserOK, Messages
<1>2. /\ Len(l) \in Nat /\ DOMAIN l = 1..Len(l) /\ J \in Nat /\ n \in 1..(Len(l) + 1)
      /\ Len(parser.cmd.argv) \in Nat
  BY <1>1, TokensAre, PipecmdIs DEF ParserType, Cmds
<1>3. ReadRight(l, parser) /\ Ahead(l, parser)
  BY <1>1 DEF ParserOK
<1>4. CASE n > Len(l) \/ peek(l, parser, {"|"})
  <2> DEFINE next == [parser EXCEPT !.at = "parsepipe"]
  <2>1. next.ps = n /\ next.at = "parsepipe" /\ (n = Len(l) + 1 \/ n \in Bars(l))
    BY <1>1, <1>2, <1>4 DEF ParserType, peek, Bars
  <2>2. Ahead(l, next)
    BY <2>1 DEF Ahead
  <2>3. ParserOK(l, next)
    BY <1>1, <2>2, MovesOn DEF Turns
  <2>4. ~(n <= Len(l) /\ l[n] \in {"<", ">"}) /\ ~(n <= Len(l) /\ IsWord(l[n]))
    BY <1>2, <1>4 DEF peek, IsWord
  <2> QED
    BY <1>4, <2>3, <2>4 DEF parseexec
<1>5. CASE n <= Len(l) /\ ~peek(l, parser, {"|"})
  <2>1. n \notin Arrows(l)
    BY <1>3 DEF Ahead
  <2>2. IsWord(l[n]) /\ l[n] \notin {"<", ">"}
    BY <1>2, <1>5, <2>1 DEF Arrows, IsWord, peek
  <2>3. ~(n > Len(l))
    BY <1>2, <1>5
  <2>4. CASE TooMany(Len(parser.cmd.argv) + 1)
    <3>1. /\ n \in 1..Len(l) /\ n \in Arguments(l, J) /\ J \in Commands(l)
      BY <1>5, <2>2, ComesToArgument
    <3>2. ReadUpto(l, J, parser.cmd, n)
      BY <1>1, <1>2, <1>3, PipecmdIs DEF ReadRight
    <3>3. Len(parser.cmd.argv) = Cardinality(ArgumentsBefore(l, J, n))
      BY <3>2 DEF ReadUpto
    <3>4. ArgumentsBefore(l, J, n) \cup {n} \in SUBSET Arguments(l, J) /\ n \notin ArgumentsBefore(l, J, n)
      BY <3>1 DEF ArgumentsBefore
    <3>5. Cardinality(ArgumentsBefore(l, J, n) \cup {n}) <= Cardinality(Arguments(l, J))
      BY <3>4, PositionsAreFinite, FS_Subset
    <3>6. Cardinality(ArgumentsBefore(l, J, n) \cup {n}) = Cardinality(ArgumentsBefore(l, J, n)) + 1
      BY <3>4, PositionsAreFinite, FS_AddElement
    <3>7. ~(Cardinality(Arguments(l, J)) < MAXARGS)
      BY <2>4, <3>3, <3>5, <3>6, <1>2, PositionsAreFinite, MAXARGSAssumption DEF TooMany
    <3>8. ~IsLine(l)
      BY <3>1, <3>7 DEF IsLine
    <3>9. ParserOK(l, Fails(parser, "too many args"))
      BY <3>8, GivesUp
    <3>10. parseexec(l, parser) = Fails(parser, "too many args")
      BY <1>5, <2>2, <2>3, <2>4 DEF parseexec
    <3> QED
      BY <3>9, <3>10
  <2>5. CASE ~TooMany(Len(parser.cmd.argv) + 1)
    <3>1. parseexec(l, parser) =
            [parser EXCEPT !.ps = @ + 1, !.cmd.argv = Append(@, l[n]), !.at = "parseredirs"]
      BY <1>5, <2>2, <2>3, <2>5 DEF parseexec
    <3> QED
      BY <1>5, <2>2, <2>5, <3>1, ReadsArgument
  <2> QED
    BY <2>4, <2>5
<1>6. n > Len(l) \/ n <= Len(l)
  BY <1>2
<1> QED
  BY <1>4, <1>5, <1>6

LEMMA TurnIsRight ==
  ASSUME NEW l, IsTokens(l), NEW parser, ParserOK(l, parser), Parsing(parser)
  PROVE  ParserOK(l, ParserTurn(l, parser))
BY ParseredirsIsRight, ParseexecIsRight, ParsepipeIsRight, ParsecmdIsRight
   DEF Parsing, ParserTurn

\* At the end of the line the parser has read what the line means.
LEMMA ParsedIsRight ==
  ASSUME NEW l, IsTokens(l), NEW parser, ParserOK(l, parser), ~Parsing(parser)
  PROVE  ParsesRight(l, parser)
<1>1. ParserType(l, parser) /\ Len(l) \in Nat /\ DOMAIN l = 1..Len(l)
  BY TokensAre DEF ParserOK
<1>2. parser.at = "parsed" \/ parser.at \in Messages
  BY <1>1 DEF ParserType, Parsing, Turns
<1>3. CASE parser.at \in Messages
  BY <1>3 DEF ParserOK, ParsesRight
<1>4. CASE parser.at = "parsed"
  <2>1. /\ ReadRight(l, parser) /\ parser.ps = Len(l) + 1
    BY <1>4 DEF ParserOK, Messages, Ahead
  <2>2. \A k \in 1..Len(l) : k < parser.ps
    BY <1>1, <2>1
  <2>3. /\ BarsBefore(l, parser.ps) = Bars(l)
        /\ \A j : ArgumentsBefore(l, j, parser.ps) = Arguments(l, j)
        /\ \A j : RedirectionsBefore(l, j, parser.ps) = Redirections(l, j)
    BY <1>1, <2>2 DEF BarsBefore, Bars, ArgumentsBefore, Arguments, RedirectionsBefore, Redirections, Arrows
  <2>4. Commands(l) = 1..(Len(parser.left) + 1)
    BY <2>1, <2>3 DEF ReadRight, Commands
  <2>5. pipecmd(parser) \in Seq(Cmds(l)) /\ Len(pipecmd(parser)) = Len(parser.left) + 1
    BY <1>1, PipecmdIs
  <2>6. DOMAIN pipecmd(parser) = Commands(l)
    BY <2>4, <2>5
  <2>7. ASSUME NEW j \in Commands(l)
        PROVE  IsCommand(l, j, pipecmd(parser)[j]) /\ Cardinality(Arguments(l, j)) < MAXARGS
    <3>1. ReadUpto(l, j, pipecmd(parser)[j], parser.ps) /\ Len(pipecmd(parser)[j].argv) < MAXARGS
      BY <2>1, <2>4 DEF ReadRight
    <3> QED
      BY <3>1, <2>3 DEF ReadUpto, IsCommand
  <2>8. \A k \in Arrows(l) : k + 1 \in DOMAIN l /\ IsWord(l[k + 1])
    <3>1. \A k \in Arrows(l) : k \in 1..Len(l)
      BY <1>1 DEF Arrows
    <3> QED
      BY <1>1, <2>1, <2>2, <3>1 DEF ReadRight
  <2>9. IsLine(l)
    BY <2>7, <2>8 DEF IsLine
  <2> QED
    BY <1>4, <2>6, <2>7, <2>9 DEF ParsesRight
<1> QED
  BY <1>2, <1>3, <1>4

-----------------------------------------------------------------------------
(* The inductive invariant *)

Waiting == {"fork right", "close", "first wait", "second wait"}

\* A process other than the first has its ancestors, and they wait for it or
\* will: a process that ends or comes to its end has no children.
TreeOK ==
  /\ shell = "prompt" => DOMAIN proc = {}
  /\ DOMAIN proc \subseteq Pids
  /\ \A q \in DOMAIN proc : \A j \in 1..q[2] : j < q[2] \/ q[1] = "left" =>
       <<"run", j>> \in DOMAIN proc /\ proc[<<"run", j>>].pc \in Waiting
  /\ \A k \in Nat : <<"run", k>> \in DOMAIN proc =>
       /\ proc[<<"run", k>>].pc = "fork right" => <<"run", k + 1>> \notin DOMAIN proc
       /\ proc[<<"run", k>>].pc = "second wait" =>
            <<"left", k>> \notin DOMAIN proc \/ <<"run", k + 1>> \notin DOMAIN proc

\* The redirections that command j of line l has left are its first ones.
RedirsLeft(l, j, cmd) ==
  \A i \in 1..Len(cmd.redirs) :
    \E n \in Redirections(l, j) :
      /\ Rank(Redirections(l, j), n) = i
      /\ cmd.redirs[i] = [type |-> l[n], file |-> l[n + 1]]

IsExecOf(r) == r.pc \in {"run", "program"} /\ Len(r.cmd) = 1

\* Process q runs its part of line l.
RunsItsPart(l, q, r) ==
  /\ IsLine(l) /\ r.cmd \in Seq(Cmds(l)) /\ q[2] \in Commands(l)
  /\ q[1] = "left" => Len(r.cmd) = 1 /\ q[2] + 1 \in Commands(l)
  /\ q[1] = "run" => Len(r.cmd) = Cardinality(Bars(l)) + 2 - q[2]
  /\ \A i \in 1..Len(r.cmd) :
       /\ RedirsLeft(l, q[2] + i - 1, r.cmd[i])
       /\ ~IsExecOf(r) => Len(r.cmd[i].redirs) = Cardinality(Redirections(l, q[2] + i - 1))
  /\ r.pc \in {"fork left", "fork right"} => Len(r.cmd) > 1
  /\ r.pc = "program" => Len(r.cmd) = 1 /\ r.cmd[1].redirs = << >>

ProcessOK(l, q, r) ==
  /\ r = [pc |-> r.pc, cmd |-> r.cmd, fds |-> r.fds, p |-> r.p]
  /\ r.pc \in IF q[1] = "left" THEN {"left", "run", "program", "zombie"}
               ELSE {"parse", "right", "run", "fork left", "exit", "program", "zombie"} \cup Waiting
  /\ r.pc = "parse" => q = <<"run", 1>> /\ ParserOK(l, r.cmd)
  /\ r.pc = "right" => q[2] # 1
  /\ r.pc \notin {"parse", "zombie"} => RunsItsPart(l, q, r)

\* Where the first redirection of a type leads when the first m are not done yet.
After(l, j, type, m, other) ==
  LET done == {n \in Redirections(l, j) : l[n] = type /\ Rank(Redirections(l, j), n) > m}
      first == CHOOSE n \in done : \A i \in done : n <= i
  IN IF done = {} THEN other ELSE <<type, l[first + 1]>>

PipeIn(k) == IF k = 1 THEN Terminal ELSE ReadEnd(k - 1)
PipeOut(l, k) == IF k + 1 \in Commands(l) THEN WriteEnd(k) ELSE Terminal

\* The descriptors of a process that is about to run the pipeline from k on, and
\* the ones it has between pipe and the calls of close.
Standard(k) == [n \in 0..2 |-> IF n = 0 THEN PipeIn(k) ELSE Terminal]
Piped(k) ==
  [n \in 0..4 |-> IF n = 0 THEN PipeIn(k)
                  ELSE IF n = 3 THEN ReadEnd(k) ELSE IF n = 4 THEN WriteEnd(k) ELSE Terminal]

ExecFds(l, k, fds, m) ==
  /\ DOMAIN fds = 0..2
  /\ fds[0] = After(l, k, "<", m, PipeIn(k))
  /\ fds[1] = After(l, k, ">", m, PipeOut(l, k))

FdsOK(l, q, r) ==
  /\ r.pc = "parse" => r.fds = Standard(1)
  /\ r.pc = "run" /\ Len(r.cmd) > 1 => r.fds = Standard(q[2])
  /\ IsExecOf(r) => ExecFds(l, q[2], r.fds, Len(r.cmd[1].redirs))
  /\ r.pc \in {"fork left", "fork right", "close", "left"} =>
       r.fds = Piped(q[2]) /\ r.p = <<3, 4>>
  /\ r.pc = "right" => r.fds = Piped(q[2] - 1) /\ r.p = <<3, 4>>

ProcessesOK ==
  \A q \in DOMAIN proc : ProcessOK(line, q, proc[q]) /\ (fault # "pipe" => FdsOK(line, q, proc[q]))

IInv ==
  /\ IsTokens(line) /\ shell \in {"prompt", "wait"}
  /\ TreeOK
  /\ ProcessesOK

-----------------------------------------------------------------------------
(* Descriptors *)

LEMMA LowestIs ==
  ASSUME NEW fds, NEW n \in 0..9, n \notin DOMAIN fds, \A m \in 0..(n - 1) : m \in DOMAIN fds
  PROVE  Lowest(fds) = n
<1> DEFINE Free(m) == m \notin DOMAIN fds /\ \A i \in 0..(m - 1) : i \in DOMAIN fds
<1>1. Free(n)
  OBVIOUS
<1>2. ASSUME NEW m \in 0..9, Free(m) PROVE m = n
  <2>1. ~(m < n) /\ ~(n < m)
    BY <1>2
  <2> QED
    BY <2>1
<1>3. Lowest(fds) = CHOOSE m \in 0..9 : Free(m)
  BY DEF Lowest
<1> HIDE DEF Free
<1> QED
  BY <1>1, <1>2, <1>3

LEMMA OpenIs ==
  ASSUME NEW fds, NEW object
  PROVE  Open(fds, object) =
           [i \in DOMAIN fds \cup {Lowest(fds)} |-> IF i = Lowest(fds) THEN object ELSE fds[i]]
BY DEF Open, With

\* What pipe adds to the descriptors of a process that is about to run a pipeline.
LEMMA PipeOpens ==
  ASSUME NEW k
  PROVE  /\ Lowest(Standard(k)) = 3
         /\ Lowest(Open(Standard(k), ReadEnd(k))) = 4
         /\ Open(Open(Standard(k), ReadEnd(k)), WriteEnd(k)) = Piped(k)
<1> DEFINE f == Standard(k)
           g == [i \in 0..3 |-> IF i = 3 THEN ReadEnd(k) ELSE f[i]]
<1>1. DOMAIN f = 0..2
  BY DEF Standard
<1>2. Lowest(f) = 3
  <2>1. 3 \in 0..9 /\ 3 \notin DOMAIN f /\ \A m \in 0..(3 - 1) : m \in DOMAIN f
    BY <1>1
  <2> HIDE DEF f
  <2> QED
    BY <2>1, LowestIs
<1>3. 0..2 \cup {3} = 0..3 /\ 0..3 \cup {4} = 0..4
  OBVIOUS
<1>4. Open(f, ReadEnd(k)) = g
  BY <1>1, <1>2, <1>3, OpenIs
<1>5. Lowest(g) = 4
  <2>1. 4 \in 0..9 /\ 4 \notin DOMAIN g /\ \A m \in 0..(4 - 1) : m \in DOMAIN g
    OBVIOUS
  <2> HIDE DEF g
  <2> QED
    BY <2>1, LowestIs
<1>6. Open(g, WriteEnd(k)) = [i \in 0..4 |-> IF i = 4 THEN WriteEnd(k) ELSE g[i]]
  BY <1>3, <1>5, OpenIs
<1>7. ASSUME NEW i \in 0..4 PROVE (IF i = 4 THEN WriteEnd(k) ELSE g[i]) = Piped(k)[i]
  BY DEF Piped, Standard
<1>8. Piped(k) = [i \in 0..4 |-> Piped(k)[i]]
  BY DEF Piped
<1> HIDE DEF f, g
<1> QED
  BY <1>2, <1>4, <1>5, <1>6, <1>7, <1>8 DEF f

\* close(n) and dup of a pipe's end give the end the number n, and with both ends
\* closed there are three descriptors again.
LEMMA ChildDups ==
  ASSUME NEW k, NEW n \in {0, 1}, NEW e \in {3, 4},
         NEW fds, fds = Close(Dup(Close(Piped(k), {n}), e), {3, 4})
  PROVE  fds = [i \in 0..2 |-> IF i = n THEN Piped(k)[e] ELSE Piped(k)[i]]
<1> DEFINE f == [i \in 0..4 \ {n} |-> Piped(k)[i]]
           g == [i \in 0..4 |-> IF i = n THEN Piped(k)[e] ELSE Piped(k)[i]]
<1>1. Close(Piped(k), {n}) = f
  BY DEF Close, Piped
<1>2. Lowest(f) = n
  <2>1. n \in 0..9 /\ n \notin DOMAIN f /\ \A m \in 0..(n - 1) : m \in DOMAIN f
    OBVIOUS
  <2> HIDE DEF f
  <2> QED
    BY <2>1, LowestIs
<1>3. e \in DOMAIN f /\ f[e] = Piped(k)[e]
  OBVIOUS
<1>4. Dup(f, e) = Open(f, Piped(k)[e])
  BY <1>3 DEF Dup
<1>5. (0..4 \ {n}) \cup {n} = 0..4
  OBVIOUS
<1>6. Open(f, Piped(k)[e]) = [i \in 0..4 |-> IF i = n THEN Piped(k)[e] ELSE f[i]]
  BY <1>2, <1>5, OpenIs
<1>7. Open(f, Piped(k)[e]) = g
  BY <1>6
<1>8. Close(g, {3, 4}) = [i \in 0..4 \ {3, 4} |-> g[i]]
  BY DEF Close
<1>9. 0..4 \ {3, 4} = 0..2
  OBVIOUS
<1>10. \A i \in 0..2 : g[i] = IF i = n THEN Piped(k)[e] ELSE Piped(k)[i]
  OBVIOUS
<1> HIDE DEF f, g
<1> QED
  BY <1>1, <1>4, <1>7, <1>8, <1>9, <1>10

LEMMA NothingDone ==
  ASSUME NEW l, IsTokens(l), NEW j, NEW type, NEW other
  PROVE  After(l, j, type, Cardinality(Redirections(l, j)), other) = other
<1> DEFINE S == Redirections(l, j)
<1>1. S \in SUBSET Int /\ IsFiniteSet(S) /\ Cardinality(S) \in Nat
  <2>1. S \in SUBSET Int
    BY TokensAre DEF Redirections, Arrows
  <2> QED
    BY <2>1, PositionsAreFinite
<1>2. \A n \in S : Rank(S, n) \in 1..Cardinality(S)
  BY <1>1, RankOrder
<1>3. \A n \in S : ~(Rank(S, n) > Cardinality(S))
  BY <1>1, <1>2
<1> QED
  BY <1>3 DEF After

LEMMA EverythingDone ==
  ASSUME NEW k
  PROVE  /\ IsTokens(line) => After(line, k, "<", 0, PipeIn(k)) = Input(k)
         /\ IsTokens(line) => After(line, k, ">", 0, PipeOut(line, k)) = Output(k)
<1> SUFFICES ASSUME IsTokens(line)
             PROVE  /\ After(line, k, "<", 0, PipeIn(k)) = Input(k)
                    /\ After(line, k, ">", 0, PipeOut(line, k)) = Output(k)
  OBVIOUS
<1> DEFINE S == Redirections(line, k)
<1>1. S \in SUBSET Int /\ IsFiniteSet(S) /\ Cardinality(S) \in Nat
  <2>1. S \in SUBSET Int
    BY TokensAre DEF Redirections, Arrows
  <2> QED
    BY <2>1, PositionsAreFinite
<1>2. \A n \in S : Rank(S, n) > 0
  BY <1>1, RankOrder
<1>3. \A type : {n \in S : line[n] = type /\ Rank(S, n) > 0} = {n \in S : line[n] = type}
  BY <1>2
<1>4. ASSUME NEW type, NEW other PROVE After(line, k, type, 0, other) = Expected(k, type, other)
  <2> DEFINE A == {n \in S : line[n] = type /\ Rank(S, n) > 0}
             B == {n \in S : line[n] = type}
             path(set) == IF set = {} THEN other
                          ELSE <<type, line[(CHOOSE n \in set : \A i \in set : n <= i) + 1]>>
  <2>1. A = B
    BY <1>3
  <2>2. After(line, k, type, 0, other) = path(A)
    BY DEF After
  <2>3. Expected(k, type, other) = path(B)
    BY DEF Expected
  <2> HIDE DEF A, B, path
  <2> QED
    BY <2>1, <2>2, <2>3
<1> QED
  BY <1>4 DEF Input, Output, PipeIn, PipeOut

\* One redirection more, the last of those that are left.
LEMMA OneMoreDone ==
  ASSUME NEW l, IsTokens(l), NEW j, NEW n \in Redirections(l, j), NEW m \in Nat, m > 0,
         Rank(Redirections(l, j), n) = m, NEW type, NEW other
  PROVE  After(l, j, type, m - 1, other) =
           IF l[n] = type THEN <<type, l[n + 1]>> ELSE After(l, j, type, m, other)
<1> DEFINE S == Redirections(l, j)
           done(i) == {x \in S : l[x] = type /\ Rank(S, x) > i}
           first(set) == CHOOSE x \in set : \A i \in set : x <= i
<1>1. S \in SUBSET Int /\ IsFiniteSet(S) /\ Cardinality(S) \in Nat
  <2>1. S \in SUBSET Int
    BY TokensAre DEF Redirections, Arrows
  <2> QED
    BY <2>1, PositionsAreFinite
<1>2. \A x \in S : Rank(S, x) \in Nat
  BY <1>1, RankOrder
<1>3. \A x, y \in S : x < y <=> Rank(S, x) < Rank(S, y)
  BY <1>1, RankOrder
<1>4. \A x \in S : x \in Int
  BY <1>1
<1>5. \A x \in S : Rank(S, x) = m => x = n
  <2> SUFFICES ASSUME NEW x \in S, Rank(S, x) = m PROVE x = n
    OBVIOUS
  <2>1. ~(x < n) /\ ~(n < x)
    BY <1>3
  <2> QED
    BY <2>1, <1>4
<1>6. \A x \in S : Rank(S, x) > m - 1 <=> Rank(S, x) > m \/ x = n
  BY <1>2, <1>5
<1>7. /\ After(l, j, type, m - 1, other) =
            IF done(m - 1) = {} THEN other ELSE <<type, l[first(done(m - 1)) + 1]>>
      /\ After(l, j, type, m, other) =
            IF done(m) = {} THEN other ELSE <<type, l[first(done(m)) + 1]>>
  BY DEF After
<1>8. CASE l[n] # type
  <2>1. done(m - 1) = done(m)
    BY <1>6, <1>8
  <2> QED
    BY <2>1, <1>7, <1>8
<1>9. CASE l[n] = type
  <2>1. n \in done(m - 1)
    BY <1>6, <1>9
  <2>2. \A i \in done(m - 1) : n <= i
    <3> SUFFICES ASSUME NEW i \in done(m - 1) PROVE n <= i
      OBVIOUS
    <3>1. i \in S /\ (i = n \/ Rank(S, i) > m)
      BY <1>6
    <3>2. ~(i < n)
      BY <3>1, <1>2, <1>3, <1>4
    <3> QED
      BY <3>1, <3>2, <1>4
  <2>3. \A x \in done(m - 1) : x \in Int
    BY <1>4
  <2>4. \A x \in done(m - 1) : (\A i \in done(m - 1) : x <= i) => x = n
    BY <2>1, <2>2, <2>3
  <2> HIDE DEF done
  <2>5. first(done(m - 1)) = n
    BY <2>1, <2>2, <2>4
  <2> QED
    BY <2>1, <2>5, <1>7, <1>9
<1> QED
  BY <1>8, <1>9

-----------------------------------------------------------------------------
(* Steps of one process *)

LEMMA BecomeIs ==
  ASSUME NEW pid \in DOMAIN proc, NEW r, Become(pid, r)
  PROVE  proc' = [q \in DOMAIN proc |-> IF q = pid THEN r ELSE proc[q]]
<1>1. DOMAIN proc \cup {pid} = DOMAIN proc
  OBVIOUS
<1> QED
  BY <1>1 DEF Become, With

LEMMA GotoIs ==
  ASSUME IInv, NEW pid \in DOMAIN proc, NEW pc, Goto(pid, pc)
  PROVE  proc' = [q \in DOMAIN proc |->
                    IF q = pid THEN [pc |-> pc, cmd |-> proc[pid].cmd, fds |-> proc[pid].fds, p |-> proc[pid].p]
                    ELSE proc[q]]
<1>1. proc[pid] = [pc |-> proc[pid].pc, cmd |-> proc[pid].cmd, fds |-> proc[pid].fds, p |-> proc[pid].p]
  BY DEF IInv, ProcessesOK, ProcessOK
<1>2. proc' = [q \in DOMAIN proc |-> IF q = pid THEN [proc[pid] EXCEPT !.pc = pc] ELSE proc[q]]
  BY DEF Goto
<1>3. [proc[pid] EXCEPT !.pc = pc] =
        [pc |-> pc, cmd |-> proc[pid].cmd, fds |-> proc[pid].fds, p |-> proc[pid].p]
  BY <1>1
<1> QED
  BY <1>2, <1>3

\* A process that does not wait has no children.
LEMMA NoChildren ==
  ASSUME IInv, NEW k \in Nat, <<"run", k>> \in DOMAIN proc, proc[<<"run", k>>].pc \notin Waiting
  PROVE  <<"left", k>> \notin DOMAIN proc /\ <<"run", k + 1>> \notin DOMAIN proc
<1>1. k \in Nat \ {0}
  <2>1. <<"run", k>> \in Pids
    BY DEF IInv, TreeOK
  <2> QED
    BY <2>1 DEF Pids
<1>2. k \in 1..k /\ k \in 1..(k + 1) /\ k < k + 1
  BY <1>1
<1>3. <<"left", k>> \notin DOMAIN proc
  <2>1. <<"left", k>>[1] = "left" /\ <<"left", k>>[2] = k
    OBVIOUS
  <2> QED
    BY <1>2, <2>1 DEF IInv, TreeOK
<1>4. <<"run", k + 1>> \notin DOMAIN proc
  <2>1. <<"run", k + 1>>[2] = k + 1
    OBVIOUS
  <2> QED
    BY <1>2, <2>1 DEF IInv, TreeOK
<1> QED
  BY <1>3, <1>4

\* A step that changes one process, which waits on for its children if it has any.
LEMMA OneMoves ==
  ASSUME IInv, NEW pid \in DOMAIN proc, NEW r,
         proc' = [q \in DOMAIN proc |-> IF q = pid THEN r ELSE proc[q]],
         UNCHANGED <<shell, line>>,
         ProcessOK(line, pid, r),
         fault' # "pipe" => fault # "pipe" /\ FdsOK(line, pid, r),
         proc[pid].pc \in Waiting => r.pc \in Waiting,
         r.pc \in {"fork right", "second wait"} => proc[pid].pc \notin Waiting
  PROVE  IInv'
<1>1. DOMAIN proc' = DOMAIN proc /\ proc'[pid] = r /\ \A q \in DOMAIN proc : q # pid => proc'[q] = proc[q]
  OBVIOUS
<1>2. \A q \in DOMAIN proc : proc[q].pc \in Waiting => proc'[q].pc \in Waiting
  BY <1>1
<1>3. ASSUME NEW k \in Nat, <<"run", k>> \in DOMAIN proc'
      PROVE  /\ proc'[<<"run", k>>].pc = "fork right" => <<"run", k + 1>> \notin DOMAIN proc'
             /\ proc'[<<"run", k>>].pc = "second wait" =>
                  <<"left", k>> \notin DOMAIN proc' \/ <<"run", k + 1>> \notin DOMAIN proc'
  <2>1. CASE <<"run", k>> # pid
    BY <1>1, <1>3, <2>1 DEF IInv, TreeOK
  <2>2. CASE <<"run", k>> = pid /\ r.pc \notin {"fork right", "second wait"}
    BY <1>1, <2>2
  <2>3. CASE <<"run", k>> = pid /\ r.pc \in {"fork right", "second wait"}
    <3>1. proc[pid].pc \notin Waiting
      BY <2>3
    <3> QED
      BY <1>1, <2>3, <3>1, NoChildren
  <2> QED
    BY <2>1, <2>2, <2>3
<1>4. TreeOK'
  <2>1. (shell = "prompt" => DOMAIN proc = {})'
    BY <1>1 DEF IInv, TreeOK
  <2>2. DOMAIN proc' \subseteq Pids
    BY <1>1 DEF IInv, TreeOK
  <2>3. \A q \in DOMAIN proc' : \A j \in 1..q[2] : j < q[2] \/ q[1] = "left" =>
          <<"run", j>> \in DOMAIN proc' /\ proc'[<<"run", j>>].pc \in Waiting
    BY <1>1, <1>2 DEF IInv, TreeOK
  <2> QED
    BY <2>1, <2>2, <2>3, <1>3 DEF TreeOK
<1>5. ProcessesOK'
  <2> SUFFICES ASSUME NEW q \in DOMAIN proc
               PROVE  ProcessOK(line, q, proc'[q]) /\ (fault' # "pipe" => FdsOK(line, q, proc'[q]))
    BY <1>1 DEF ProcessesOK
  <2>1. CASE q = pid
    BY <1>1, <2>1
  <2>2. CASE q # pid
    BY <1>1, <2>2 DEF IInv, ProcessesOK
  <2> QED
    BY <2>1, <2>2
<1> QED
  BY <1>4, <1>5 DEF IInv

LEMMA ExitIs ==
  ASSUME NEW pid \in DOMAIN proc, Exit(pid)
  PROVE  proc' = [q \in DOMAIN proc |-> IF q = pid THEN Zombie ELSE proc[q]]
BY DEF Exit

LEMMA ExitInv ==
  ASSUME IInv, NEW pid \in DOMAIN proc, Exit(pid), proc[pid].pc \notin Waiting,
         UNCHANGED <<shell, line, fault>>
  PROVE  IInv'
<1>1. ProcessOK(line, pid, Zombie) /\ FdsOK(line, pid, Zombie)
  BY DEF ProcessOK, FdsOK, Zombie, IsExecOf
<1>2. Zombie.pc = "zombie"
  BY DEF Zombie
<1> QED
  BY <1>1, <1>2, ExitIs, OneMoves

\* What holds of a process.
LEMMA ProcessIs ==
  ASSUME IInv, NEW pid \in DOMAIN proc
  PROVE  /\ ProcessOK(line, pid, proc[pid]) /\ (fault # "pipe" => FdsOK(line, pid, proc[pid]))
         /\ proc[pid] = [pc |-> proc[pid].pc, cmd |-> proc[pid].cmd, fds |-> proc[pid].fds, p |-> proc[pid].p]
         /\ IsTokens(line)
         /\ pid = <<pid[1], pid[2]>> /\ pid[1] \in {"run", "left"} /\ pid[2] \in Nat \ {0}
<1>1. pid \in Pids
  BY DEF IInv, TreeOK
<1>2. pid = <<pid[1], pid[2]>> /\ pid[1] \in {"run", "left"} /\ pid[2] \in Nat \ {0}
  BY <1>1 DEF Pids
<1> QED
  BY <1>2 DEF IInv, ProcessesOK, ProcessOK

LEMMA ParsedGives ==
  ASSUME NEW l, IsTokens(l), NEW parser, ParserOK(l, parser), parser.at = "parsed"
  PROVE  /\ IsLine(l) /\ pipecmd(parser) \in Seq(Cmds(l))
         /\ Len(pipecmd(parser)) = Cardinality(Bars(l)) + 1
         /\ \A j \in 1..Len(pipecmd(parser)) :
              /\ RedirsLeft(l, j, pipecmd(parser)[j])
              /\ Len(pipecmd(parser)[j].redirs) = Cardinality(Redirections(l, j))
<1>1. ~Parsing(parser)
  BY DEF Parsing
<1>2. ParsesRight(l, parser) /\ ParserType(l, parser)
  BY <1>1, ParsedIsRight DEF ParserOK
<1>3. IsLine(l)
  BY <1>2 DEF ParsesRight
<1>4. /\ pipecmd(parser) \in Seq(Cmds(l)) /\ DOMAIN pipecmd(parser) = Commands(l)
      /\ \A j \in Commands(l) : IsCommand(l, j, pipecmd(parser)[j])
  BY <1>2, <1>3, PipecmdIs DEF ParsesRight
<1>5. /\ Len(pipecmd(parser)) \in Nat /\ DOMAIN pipecmd(parser) = 1..Len(pipecmd(parser))
  BY <1>4
<1>6. /\ ReadRight(l, parser) /\ parser.ps = Len(l) + 1 /\ Len(l) \in Nat /\ DOMAIN l = 1..Len(l)
      /\ Len(pipecmd(parser)) = Len(parser.left) + 1
  BY <1>2, PipecmdIs, TokensAre DEF ParserOK, Messages, Ahead
<1>7. BarsBefore(l, parser.ps) = Bars(l) /\ \A j : RedirectionsBefore(l, j, parser.ps) = Redirections(l, j)
  <2>1. \A k \in 1..Len(l) : k < parser.ps
    BY <1>6
  <2> QED
    BY <1>6, <2>1 DEF BarsBefore, Bars, RedirectionsBefore, Redirections, Arrows
<1>8. Len(pipecmd(parser)) = Cardinality(Bars(l)) + 1
  BY <1>6, <1>7 DEF ReadRight
<1>9. ASSUME NEW j \in 1..Len(pipecmd(parser))
      PROVE  /\ RedirsLeft(l, j, pipecmd(parser)[j])
             /\ Len(pipecmd(parser)[j].redirs) = Cardinality(Redirections(l, j))
  <2>1. ReadUpto(l, j, pipecmd(parser)[j], parser.ps)
    BY <1>6, <1>9 DEF ReadRight
  <2> QED
    BY <2>1, <1>7 DEF ReadUpto, RedirsLeft
<1> QED
  BY <1>3, <1>4, <1>8, <1>9

\* A process that is about to run its part of a line, and has done no redirection.
LEMMA AboutToRun ==
  ASSUME NEW l, IsTokens(l), NEW q, NEW r, r.pc = "run", RunsItsPart(l, q, r), q[2] \in Nat,
         q[1] \in {"run", "left"},
         \A i \in 1..Len(r.cmd) : Len(r.cmd[i].redirs) = Cardinality(Redirections(l, q[2] + i - 1)),
         DOMAIN r.fds = 0..2, r.fds[0] = PipeIn(q[2]), r.fds[2] = Terminal,
         r.fds[1] = IF q[1] = "left" THEN WriteEnd(q[2]) ELSE Terminal,
         r.fds = [i \in 0..2 |-> r.fds[i]]
  PROVE  FdsOK(l, q, r)
<1> DEFINE k == q[2]
<1>1. r.cmd \in Seq(Cmds(l)) /\ Len(r.cmd) \in Nat
  BY DEF RunsItsPart
<1>2. CASE Len(r.cmd) = 1
  <2>1. 1 \in 1..Len(r.cmd) /\ k + 1 - 1 = k
    BY <1>2
  <2>2. Len(r.cmd[1].redirs) = Cardinality(Redirections(l, k))
    BY <2>1
  <2>3. r.fds[1] = PipeOut(l, k)
    <3>1. CASE q[1] = "left"
      BY <3>1 DEF RunsItsPart, PipeOut
    <3>2. CASE q[1] = "run"
      <4>1. Len(r.cmd) = Cardinality(Bars(l)) + 2 - k
        BY <3>2 DEF RunsItsPart
      <4>2. Cardinality(Bars(l)) \in Nat
        BY PositionsAreFinite
      <4>3. k + 1 \notin Commands(l)
        BY <4>1, <4>2, <1>2 DEF Commands
      <4> QED
        BY <3>2, <4>3 DEF PipeOut
    <3> QED
      BY <3>1, <3>2
  <2>4. ExecFds(l, k, r.fds, Len(r.cmd[1].redirs))
    BY <2>2, <2>3, NothingDone DEF ExecFds
  <2> QED
    BY <1>2, <2>4 DEF FdsOK
<1>3. CASE Len(r.cmd) # 1
  <2>1. Len(r.cmd) > 1 => q[1] # "left"
    BY <1>3 DEF RunsItsPart
  <2>2. q[1] # "left" => r.fds = Standard(k)
    BY DEF Standard
  <2> QED
    BY <1>3, <2>1, <2>2 DEF FdsOK, IsExecOf
<1> QED
  BY <1>2, <1>3

-----------------------------------------------------------------------------
(* The steps of runcmd *)

LEMMA ParseInv ==
  ASSUME IInv, NEW pid \in DOMAIN proc, Parse(pid)
  PROVE  IInv'
<1> DEFINE me == proc[pid]
           parser == me.cmd
<1>1. /\ ProcessOK(line, pid, me) /\ (fault # "pipe" => FdsOK(line, pid, me)) /\ IsTokens(line)
      /\ me = [pc |-> me.pc, cmd |-> me.cmd, fds |-> me.fds, p |-> me.p]
  BY ProcessIs
<1>2. me.pc = "parse" /\ UNCHANGED <<shell, line, fault>>
  BY DEF Parse
<1>3. pid = <<"run", 1>> /\ ParserOK(line, parser)
  BY <1>1, <1>2 DEF ProcessOK
<1>4. fault # "pipe" => me.fds = Standard(1)
  BY <1>1, <1>2 DEF FdsOK
<1>5. CASE Parsing(parser) /\ Become(pid, [me EXCEPT !.cmd = ParserTurn(line, parser)])
  <2> DEFINE r == [pc |-> "parse", cmd |-> ParserTurn(line, parser), fds |-> me.fds, p |-> me.p]
  <2>1. [me EXCEPT !.cmd = ParserTurn(line, parser)] = r
    BY <1>1, <1>2
  <2>2. ParserOK(line, ParserTurn(line, parser))
    BY <1>1, <1>3, <1>5, TurnIsRight
  <2>3. ProcessOK(line, pid, r)
    BY <1>3, <2>2 DEF ProcessOK
  <2>4. fault # "pipe" => FdsOK(line, pid, r)
    BY <1>4 DEF FdsOK, IsExecOf
  <2>5. proc' = [q \in DOMAIN proc |-> IF q = pid THEN r ELSE proc[q]]
    BY <1>5, <2>1, BecomeIs
  <2>6. r.pc = "parse" /\ me.pc \notin Waiting
    BY <1>2 DEF Waiting
  <2> HIDE DEF r
  <2> QED
    BY <1>2, <2>3, <2>4, <2>5, <2>6, OneMoves
<1>6. CASE parser.at = "parsed" /\ Become(pid, [me EXCEPT !.pc = "run", !.cmd = pipecmd(parser)])
  <2> DEFINE tree == pipecmd(parser)
             r == [pc |-> "run", cmd |-> tree, fds |-> me.fds, p |-> me.p]
  <2>1. PICK next : next = [me EXCEPT !.pc = "run", !.cmd = tree] /\ Become(pid, next)
    BY <1>6
  <2>2. next = r
    BY <1>1, <2>1
  <2>3. /\ IsLine(line) /\ tree \in Seq(Cmds(line)) /\ Len(tree) = Cardinality(Bars(line)) + 1
        /\ \A j \in 1..Len(tree) : /\ RedirsLeft(line, j, tree[j])
                                   /\ Len(tree[j].redirs) = Cardinality(Redirections(line, j))
    BY <1>1, <1>3, <1>6, ParsedGives
  <2>4. Cardinality(Bars(line)) \in Nat /\ 1 \in Commands(line)
    BY <1>1, PositionsAreFinite DEF Commands
  <2>5. /\ pid[1] = "run" /\ pid[2] = 1 /\ Len(tree) = Cardinality(Bars(line)) + 2 - pid[2]
        /\ \A i \in 1..Len(tree) : pid[2] + i - 1 = i
    BY <1>3, <2>3, <2>4
  <2>6. \A i \in 1..Len(tree) : /\ RedirsLeft(line, pid[2] + i - 1, tree[i])
                                /\ Len(tree[i].redirs) = Cardinality(Redirections(line, pid[2] + i - 1))
    BY <2>3, <2>5
  <2>7. r.pc = "run" /\ r.cmd = tree /\ r.fds = me.fds /\ r.p = me.p
    OBVIOUS
  <2> HIDE DEF tree, r
  <2>8. RunsItsPart(line, pid, r)
    BY <2>3, <2>4, <2>5, <2>6, <2>7 DEF RunsItsPart
  <2>9. ProcessOK(line, pid, r)
    BY <1>3, <2>7, <2>8 DEF ProcessOK, r
  <2>10. fault # "pipe" => FdsOK(line, pid, r)
    <3> SUFFICES ASSUME fault # "pipe" PROVE FdsOK(line, pid, r)
      OBVIOUS
    <3>1. /\ DOMAIN r.fds = 0..2 /\ r.fds[0] = PipeIn(pid[2]) /\ r.fds[1] = Terminal
          /\ r.fds[2] = Terminal /\ r.fds = [i \in 0..2 |-> r.fds[i]]
      BY <1>4, <2>5, <2>7 DEF Standard
    <3> QED
      BY <1>1, <2>5, <2>6, <2>7, <2>8, <3>1, AboutToRun
  <2>11. proc' = [q \in DOMAIN proc |-> IF q = pid THEN r ELSE proc[q]]
    BY <2>1, <2>2, BecomeIs
  <2>12. r.pc \notin {"fork right", "second wait"} /\ me.pc \notin Waiting
    BY <1>2, <2>7 DEF Waiting
  <2> QED
    BY <1>2, <2>9, <2>10, <2>11, <2>12, OneMoves
<1>7. CASE Exit(pid)
  BY <1>2, <1>7, ExitInv DEF Waiting
<1> QED
  BY <1>5, <1>6, <1>7 DEF Parse

LEMMA RemoveLast ==
  ASSUME NEW S, NEW s \in Seq(S), Len(s) > 0
  PROVE  /\ RemoveAt(s, Len(s)) \in Seq(S)
         /\ Len(RemoveAt(s, Len(s))) = Len(s) - 1
         /\ \A i \in 1..(Len(s) - 1) : RemoveAt(s, Len(s))[i] = s[i]
<1>1. Len(s) \in Nat \ {0}
  OBVIOUS
<1>2. SubSeq(s, Len(s) + 1, Len(s)) = << >>
  BY <1>1
<1>3. /\ SubSeq(s, 1, Len(s) - 1) \in Seq(S) /\ Len(SubSeq(s, 1, Len(s) - 1)) = Len(s) - 1
      /\ \A i \in 1..(Len(s) - 1) : SubSeq(s, 1, Len(s) - 1)[i] = s[i]
  <2>1. /\ 1 \in 1..(Len(s) + 1) /\ Len(s) - 1 \in (1 - 1)..Len(s)
        /\ \A i \in 1..(Len(s) - 1) : 1 + i - 1 = i
        /\ (Len(s) - 1) - 1 + 1 = Len(s) - 1
    BY <1>1
  <2> QED
    BY <1>1, <2>1, SubSeqProperties
<1>4. SubSeq(s, 1, Len(s) - 1) \o << >> = SubSeq(s, 1, Len(s) - 1)
  BY <1>3
<1> QED
  BY <1>2, <1>3, <1>4 DEF RemoveAt

\* close, and open gets the number that is free again.
LEMMA Reopens ==
  ASSUME NEW fds, DOMAIN fds = 0..2, NEW n \in {0, 1}, NEW object
  PROVE  Open(Close(fds, {n}), object) = [i \in 0..2 |-> IF i = n THEN object ELSE fds[i]]
<1> DEFINE f == [i \in 0..2 \ {n} |-> fds[i]]
<1>1. Close(fds, {n}) = f
  BY DEF Close
<1>2. Lowest(f) = n
  <2>1. n \in 0..9 /\ n \notin DOMAIN f /\ \A m \in 0..(n - 1) : m \in DOMAIN f
    OBVIOUS
  <2> HIDE DEF f
  <2> QED
    BY <2>1, LowestIs
<1>3. (0..2 \ {n}) \cup {n} = 0..2
  OBVIOUS
<1>4. Open(f, object) = [i \in 0..2 |-> IF i = n THEN object ELSE f[i]]
  BY <1>2, <1>3, OpenIs
<1> QED
  BY <1>1, <1>4

LEMMA RedirectInv ==
  ASSUME IInv, NEW pid \in DOMAIN proc, Redirect(pid)
  PROVE  IInv'
<1> DEFINE me == proc[pid]
           k == pid[2]
           redirs == me.cmd[1].redirs
           m == Len(redirs)
           redir == redirs[m]
           number == IF redir.type = "<" THEN 0 ELSE 1
           fds == Open(Close(me.fds, {number}), <<redir.type, redir.file>>)
           cmd == [argv |-> me.cmd[1].argv, redirs |-> RemoveAt(redirs, m)]
           r == [pc |-> "run", cmd |-> [me.cmd EXCEPT ![1] = cmd], fds |-> fds, p |-> me.p]
<1>1. /\ ProcessOK(line, pid, me) /\ (fault # "pipe" => FdsOK(line, pid, me)) /\ IsTokens(line)
      /\ me = [pc |-> me.pc, cmd |-> me.cmd, fds |-> me.fds, p |-> me.p] /\ k \in Nat
  BY ProcessIs
<1>2. me.pc = "run" /\ Len(me.cmd) = 1 /\ redirs # << >> /\ UNCHANGED <<shell, line, fault>>
  BY DEF Redirect, IsExec
<1>3. RunsItsPart(line, pid, me) /\ IsExecOf(me)
  BY <1>1, <1>2 DEF ProcessOK, IsExecOf
<1>4. me.cmd \in Seq(Cmds(line)) /\ me.cmd[1] \in Cmds(line) /\ DOMAIN me.cmd = 1..1
  <2>1. me.cmd \in Seq(Cmds(line))
    BY <1>3 DEF RunsItsPart
  <2> QED
    BY <1>2, <2>1
<1>5. /\ me.cmd[1] = [argv |-> me.cmd[1].argv, redirs |-> redirs] /\ me.cmd[1].argv \in Seq(Range(line))
      /\ redirs \in Seq([type : Range(line), file : Range(line)])
  BY <1>4 DEF Cmds
<1>6. m \in Nat /\ m > 0
  BY <1>2, <1>5
<1>7. PICK n \in Redirections(line, k) :
        Rank(Redirections(line, k), n) = m /\ redir = [type |-> line[n], file |-> line[n + 1]]
  <2>1. RedirsLeft(line, k + 1 - 1, me.cmd[1])
    BY <1>2, <1>3 DEF RunsItsPart
  <2>2. RedirsLeft(line, k, me.cmd[1]) /\ m \in 1..m
    BY <1>1, <1>6, <2>1
  <2> QED
    BY <2>2 DEF RedirsLeft
<1>8. redir.type = line[n] /\ redir.file = line[n + 1] /\ line[n] \in {"<", ">"}
  BY <1>7 DEF Redirections, Arrows
<1>9. /\ cmd.redirs \in Seq([type : Range(line), file : Range(line)]) /\ Len(cmd.redirs) = m - 1
      /\ \A i \in 1..(m - 1) : cmd.redirs[i] = redirs[i]
  BY <1>5, <1>6, RemoveLast
<1>10. cmd \in Cmds(line)
  BY <1>5, <1>9 DEF Cmds
<1>11. CASE Become(pid, [me EXCEPT !.fds = fds, !.cmd[1].redirs = RemoveAt(@, m)])
  <2>1. PICK next : /\ next = [me EXCEPT !.fds = fds, !.cmd[1].redirs = RemoveAt(@, m)]
                    /\ Become(pid, next)
    BY <1>11
  <2>2. next.pc = "run" /\ next.fds = fds /\ next.p = me.p /\ next.cmd = [me.cmd EXCEPT ![1] = cmd]
        /\ next = [pc |-> next.pc, cmd |-> next.cmd, fds |-> next.fds, p |-> next.p]
    <3> HIDE DEF fds
    <3>1. [me.cmd EXCEPT ![1].redirs = RemoveAt(@, m)] = [me.cmd EXCEPT ![1] = cmd]
      BY <1>4, <1>5
    <3> HIDE DEF cmd, m
    <3> QED
      BY <1>1, <1>2, <2>1, <3>1
  <2>3. next = r
    <3> HIDE DEF fds, cmd
    <3> QED
      BY <2>2
  <2> HIDE DEF cmd
  <2>4. /\ r.cmd \in Seq(Cmds(line)) /\ Len(r.cmd) = 1 /\ r.cmd[1] = cmd
    <3>1. 1 \in 1..Len(me.cmd)
      BY <1>2
    <3> QED
      BY <1>2, <1>4, <1>10, <3>1, ExceptSeq
  <2>5. RedirsLeft(line, k, cmd)
    <3>1. RedirsLeft(line, k + 1 - 1, me.cmd[1])
      BY <1>2, <1>3 DEF RunsItsPart
    <3>2. RedirsLeft(line, k, me.cmd[1])
      BY <1>1, <3>1
    <3>3. \A i \in 1..(m - 1) : i \in 1..m
      BY <1>6
    <3> QED
      BY <1>9, <3>2, <3>3 DEF RedirsLeft
  <2>6. r.pc = "run" /\ r.fds = fds /\ r.p = me.p
    OBVIOUS
  <2>7. IsExecOf(r)
    BY <2>4 DEF IsExecOf
  <2> HIDE DEF r
  <2>8. RunsItsPart(line, pid, r)
    <3>1. \A i \in 1..Len(r.cmd) : i = 1 /\ k + i - 1 = k
      BY <1>1, <2>4
    <3>2. \A i \in 1..Len(r.cmd) : RedirsLeft(line, k + i - 1, r.cmd[i])
      BY <2>4, <2>5, <3>1
    <3> QED
      BY <1>2, <1>3, <2>4, <2>6, <2>7, <3>2 DEF RunsItsPart
  <2>9. ProcessOK(line, pid, r)
    BY <2>6, <2>8 DEF ProcessOK, r
  <2>10. fault # "pipe" => FdsOK(line, pid, r)
    <3> SUFFICES ASSUME fault # "pipe" PROVE FdsOK(line, pid, r)
      OBVIOUS
    <3>1. ExecFds(line, k, me.fds, m)
      BY <1>1, <1>3 DEF FdsOK
    <3>2. fds = [i \in 0..2 |-> IF i = number THEN <<line[n], line[n + 1]>> ELSE me.fds[i]]
      <4>1. number \in {0, 1} /\ DOMAIN me.fds = 0..2
        BY <3>1 DEF ExecFds
      <4>2. <<redir.type, redir.file>> = <<line[n], line[n + 1]>>
        BY <1>8
      <4> HIDE DEF number, redir
      <4> QED
        BY <4>1, <4>2, Reopens
    <3>3. /\ After(line, k, "<", m - 1, PipeIn(k)) =
               IF line[n] = "<" THEN <<"<", line[n + 1]>> ELSE After(line, k, "<", m, PipeIn(k))
          /\ After(line, k, ">", m - 1, PipeOut(line, k)) =
               IF line[n] = ">" THEN <<">", line[n + 1]>> ELSE After(line, k, ">", m, PipeOut(line, k))
      <4> HIDE DEF m, k
      <4>1. After(line, k, "<", m - 1, PipeIn(k)) =
              IF line[n] = "<" THEN <<"<", line[n + 1]>> ELSE After(line, k, "<", m, PipeIn(k))
        BY <1>1, <1>6, <1>7, OneMoreDone
      <4>2. After(line, k, ">", m - 1, PipeOut(line, k)) =
              IF line[n] = ">" THEN <<">", line[n + 1]>> ELSE After(line, k, ">", m, PipeOut(line, k))
        BY <1>1, <1>6, <1>7, OneMoreDone
      <4> QED
        BY <4>1, <4>2
    <3>4. ExecFds(line, k, fds, m - 1)
      <4>1. CASE line[n] = "<"
        BY <1>8, <3>1, <3>2, <3>3, <4>1 DEF ExecFds
      <4>2. CASE line[n] = ">"
        BY <1>8, <3>1, <3>2, <3>3, <4>2 DEF ExecFds
      <4> QED
        BY <1>8, <4>1, <4>2
    <3>5. Len(r.cmd[1].redirs) = m - 1
      BY <1>9, <2>4
    <3> QED
      BY <2>4, <2>6, <2>7, <3>4, <3>5 DEF FdsOK
  <2>11. proc' = [q \in DOMAIN proc |-> IF q = pid THEN r ELSE proc[q]]
    <3>1. Become(pid, r)
      BY <2>1, <2>3
    <3> HIDE DEF r
    <3> QED
      BY <3>1, BecomeIs
  <2>12. me.pc \notin Waiting
    BY <1>2 DEF Waiting
  <2> QED
    BY <1>2, <2>6, <2>9, <2>10, <2>11, <2>12, OneMoves
<1>12. CASE Exit(pid)
  BY <1>2, <1>12, ExitInv DEF Waiting
<1> QED
  BY <1>11, <1>12 DEF Redirect, Outermost

LEMMA ExecInv ==
  ASSUME IInv, NEW pid \in DOMAIN proc, Exec(pid)
  PROVE  IInv'
<1> DEFINE me == proc[pid]
           r == [pc |-> "program", cmd |-> me.cmd, fds |-> me.fds, p |-> me.p]
<1>1. ProcessOK(line, pid, me) /\ (fault # "pipe" => FdsOK(line, pid, me))
  BY ProcessIs
<1>2. /\ me.pc = "run" /\ Len(me.cmd) = 1 /\ me.cmd[1].redirs = << >>
      /\ UNCHANGED <<shell, line, fault>>
  BY DEF Exec, IsExec
<1>3. CASE Goto(pid, "program")
  <2>1. RunsItsPart(line, pid, me) /\ IsExecOf(me)
    BY <1>1, <1>2 DEF ProcessOK, IsExecOf
  <2>2. RunsItsPart(line, pid, r)
    BY <1>2, <2>1 DEF RunsItsPart, IsExecOf
  <2>3. ProcessOK(line, pid, r)
    BY <1>1, <1>2, <2>2 DEF ProcessOK
  <2>4. fault # "pipe" => FdsOK(line, pid, r)
    BY <1>1, <2>1 DEF FdsOK, IsExecOf
  <2>5. proc' = [q \in DOMAIN proc |-> IF q = pid THEN r ELSE proc[q]]
    BY <1>3, GotoIs
  <2>6. me.pc \notin Waiting /\ r.pc \notin {"fork right", "second wait"}
    BY <1>2 DEF Waiting
  <2> QED
    BY <1>2, <2>3, <2>4, <2>5, <2>6, OneMoves
<1>4. CASE Exit(pid)
  BY <1>2, <1>4, ExitInv DEF Waiting
<1> QED
  BY <1>3, <1>4 DEF Exec

LEMMA PipeInv ==
  ASSUME IInv, NEW pid \in DOMAIN proc, Pipe(pid)
  PROVE  IInv'
<1> DEFINE me == proc[pid]
           k == pid[2]
           next(fds, p) == [pc |-> "fork left", cmd |-> me.cmd, fds |-> fds, p |-> p]
<1>1. /\ ProcessOK(line, pid, me) /\ (fault # "pipe" => FdsOK(line, pid, me))
      /\ me = [pc |-> me.pc, cmd |-> me.cmd, fds |-> me.fds, p |-> me.p]
  BY ProcessIs
<1>2. me.pc = "run" /\ Len(me.cmd) > 1 /\ UNCHANGED <<shell, line>>
  BY DEF Pipe
<1>3. RunsItsPart(line, pid, me) /\ ~IsExecOf(me) /\ pid[1] # "left"
  <2>1. RunsItsPart(line, pid, me)
    BY <1>1, <1>2 DEF ProcessOK
  <2>2. Len(me.cmd) # 1 /\ Len(me.cmd) \in Nat
    <3>1. me.cmd \in Seq(Cmds(line))
      BY <2>1 DEF RunsItsPart
    <3>2. Len(me.cmd) \in Nat
      BY <3>1, LenProperties
    <3>3. \A n \in Nat : n > 1 => n # 1
      OBVIOUS
    <3> QED
      BY <1>2, <3>2, <3>3
  <2> QED
    BY <2>1, <2>2 DEF RunsItsPart, IsExecOf
<1>4. ASSUME NEW fds, NEW p PROVE ProcessOK(line, pid, next(fds, p))
  <2>1. RunsItsPart(line, pid, next(fds, p))
    BY <1>2, <1>3 DEF RunsItsPart, IsExecOf
  <2> QED
    BY <1>3, <2>1 DEF ProcessOK
<1>5. me.pc \notin Waiting
  BY <1>2 DEF Waiting
<1>6. CASE /\ Become(pid, [me EXCEPT !.pc = "fork left",
                             !.fds = Open(Open(me.fds, ReadEnd(k)), WriteEnd(k)),
                             !.p = <<Lowest(me.fds), Lowest(Open(me.fds, ReadEnd(k)))>>])
           /\ UNCHANGED fault
  <2> DEFINE fds == Open(Open(me.fds, ReadEnd(k)), WriteEnd(k))
             p == <<Lowest(me.fds), Lowest(Open(me.fds, ReadEnd(k)))>>
             r == next(fds, p)
  <2>1. PICK x : x = [me EXCEPT !.pc = "fork left", !.fds = fds, !.p = p] /\ Become(pid, x)
    BY <1>6
  <2>2. x = r
    <3> HIDE DEF fds, p
    <3> QED
      BY <1>1, <2>1
  <2>3. fault # "pipe" => FdsOK(line, pid, r)
    <3> SUFFICES ASSUME fault # "pipe" PROVE FdsOK(line, pid, r)
      OBVIOUS
    <3>1. me.fds = Standard(k)
      BY <1>1, <1>2 DEF FdsOK
    <3>2. fds = Piped(k) /\ p = <<3, 4>>
      BY <3>1, PipeOpens
    <3>3. r.pc = "fork left" /\ r.fds = Piped(k) /\ r.p = <<3, 4>>
      BY <3>2
    <3> HIDE DEF r
    <3> QED
      BY <3>3 DEF FdsOK, IsExecOf
  <2>4. proc' = [q \in DOMAIN proc |-> IF q = pid THEN r ELSE proc[q]]
    <3>1. Become(pid, r)
      BY <2>1, <2>2
    <3> HIDE DEF r
    <3> QED
      BY <3>1, BecomeIs
  <2>5. ProcessOK(line, pid, r)
    BY <1>4
  <2>6. r.pc \notin {"fork right", "second wait"}
    OBVIOUS
  <2> HIDE DEF r
  <2> QED
    BY <1>2, <1>5, <1>6, <2>3, <2>4, <2>5, <2>6, OneMoves
<1>7. CASE /\ fault' = "pipe"
           /\ \E p \in Garbage : Become(pid, [me EXCEPT !.pc = "fork left", !.p = p])
  <2>1. PICK p \in Garbage : Become(pid, [me EXCEPT !.pc = "fork left", !.p = p])
    BY <1>7
  <2> DEFINE r == next(me.fds, p)
  <2>2. PICK x : x = [me EXCEPT !.pc = "fork left", !.p = p] /\ Become(pid, x)
    BY <2>1
  <2>3. x = r
    BY <1>1, <2>2
  <2>4. proc' = [q \in DOMAIN proc |-> IF q = pid THEN r ELSE proc[q]]
    <3>1. Become(pid, r)
      BY <2>2, <2>3
    <3> HIDE DEF r
    <3> QED
      BY <3>1, BecomeIs
  <2>5. ProcessOK(line, pid, r)
    BY <1>4
  <2>6. r.pc \notin {"fork right", "second wait"}
    OBVIOUS
  <2> HIDE DEF r
  <2> QED
    BY <1>2, <1>5, <1>7, <2>4, <2>5, <2>6, OneMoves
<1> QED
  BY <1>6, <1>7 DEF Pipe

LEMMA LeftDescriptorsInv ==
  ASSUME IInv, NEW pid \in DOMAIN proc, LeftDescriptors(pid)
  PROVE  IInv'
<1> DEFINE me == proc[pid]
           k == pid[2]
           fds == Close(Dup(Close(me.fds, {1}), me.p[2]), {me.p[1], me.p[2]})
           r == [pc |-> "run", cmd |-> me.cmd, fds |-> fds, p |-> me.p]
<1>1. /\ ProcessOK(line, pid, me) /\ (fault # "pipe" => FdsOK(line, pid, me)) /\ IsTokens(line)
      /\ me = [pc |-> me.pc, cmd |-> me.cmd, fds |-> me.fds, p |-> me.p] /\ k \in Nat
  BY ProcessIs
<1>2. me.pc = "left" /\ UNCHANGED <<shell, line, fault>>
  BY DEF LeftDescriptors, ChildDescriptors
<1>3. RunsItsPart(line, pid, me) /\ ~IsExecOf(me) /\ pid[1] = "left"
  BY <1>1, <1>2 DEF ProcessOK, IsExecOf, Waiting
<1>4. PICK x : x = [me EXCEPT !.pc = "run", !.fds = fds] /\ Become(pid, x)
  BY DEF LeftDescriptors, ChildDescriptors, BothEnds
<1>5. x = r
  <2> HIDE DEF fds
  <2> QED
    BY <1>1, <1>4
<1>6. RunsItsPart(line, pid, r)
  BY <1>2, <1>3 DEF RunsItsPart, IsExecOf
<1>7. ProcessOK(line, pid, r)
  BY <1>3, <1>6 DEF ProcessOK
<1>8. fault # "pipe" => FdsOK(line, pid, r)
  <2> SUFFICES ASSUME fault # "pipe" PROVE FdsOK(line, pid, r)
    OBVIOUS
  <2>1. me.fds = Piped(k) /\ me.p = <<3, 4>>
    BY <1>1, <1>2 DEF FdsOK
  <2>2. fds = Close(Dup(Close(Piped(k), {1}), 4), {3, 4})
    BY <2>1
  <2>3. fds = [i \in 0..2 |-> IF i = 1 THEN Piped(k)[4] ELSE Piped(k)[i]]
    <3> HIDE DEF fds, k
    <3> QED
      BY <2>2, ChildDups
  <2>4. /\ DOMAIN fds = 0..2 /\ fds[0] = PipeIn(k) /\ fds[1] = WriteEnd(k) /\ fds[2] = Terminal
        /\ fds = [i \in 0..2 |-> fds[i]]
    <3> HIDE DEF fds, k
    <3> QED
      BY <2>3 DEF Piped
  <2>5. \A i \in 1..Len(me.cmd) : Len(me.cmd[i].redirs) = Cardinality(Redirections(line, k + i - 1))
    BY <1>3 DEF RunsItsPart
  <2>6. r.pc = "run" /\ r.cmd = me.cmd /\ r.fds = fds
    OBVIOUS
  <2> HIDE DEF r, fds
  <2> QED
    BY <1>1, <1>3, <1>6, <2>4, <2>5, <2>6, AboutToRun
<1>9. proc' = [q \in DOMAIN proc |-> IF q = pid THEN r ELSE proc[q]]
  <2>1. Become(pid, r)
    BY <1>4, <1>5
  <2> HIDE DEF r
  <2> QED
    BY <2>1, BecomeIs
<1>10. r.pc = "run" /\ me.pc \notin Waiting
  BY <1>2 DEF Waiting
<1> HIDE DEF r
<1> QED
  BY <1>2, <1>7, <1>8, <1>9, <1>10, OneMoves

LEMMA RightDescriptorsInv ==
  ASSUME IInv, NEW pid \in DOMAIN proc, RightDescriptors(pid)
  PROVE  IInv'
<1> DEFINE me == proc[pid]
           k == pid[2]
           fds == Close(Dup(Close(me.fds, {0}), me.p[1]), {me.p[1], me.p[2]})
           r == [pc |-> "run", cmd |-> me.cmd, fds |-> fds, p |-> me.p]
<1>1. /\ ProcessOK(line, pid, me) /\ (fault # "pipe" => FdsOK(line, pid, me)) /\ IsTokens(line)
      /\ me = [pc |-> me.pc, cmd |-> me.cmd, fds |-> me.fds, p |-> me.p] /\ k \in Nat
      /\ pid[1] \in {"run", "left"}
  BY ProcessIs
<1>2. me.pc = "right" /\ UNCHANGED <<shell, line, fault>>
  BY DEF RightDescriptors, ChildDescriptors
<1>3. RunsItsPart(line, pid, me) /\ ~IsExecOf(me) /\ pid[1] = "run" /\ k # 1
  BY <1>1, <1>2 DEF ProcessOK, IsExecOf, Waiting
<1>4. PICK x : x = [me EXCEPT !.pc = "run", !.fds = fds] /\ Become(pid, x)
  BY DEF RightDescriptors, ChildDescriptors, BothEnds
<1>5. x = r
  <2> HIDE DEF fds
  <2> QED
    BY <1>1, <1>4
<1>6. RunsItsPart(line, pid, r)
  BY <1>2, <1>3 DEF RunsItsPart, IsExecOf
<1>7. ProcessOK(line, pid, r)
  BY <1>3, <1>6 DEF ProcessOK
<1>8. fault # "pipe" => FdsOK(line, pid, r)
  <2> SUFFICES ASSUME fault # "pipe" PROVE FdsOK(line, pid, r)
    OBVIOUS
  <2>1. me.fds = Piped(k - 1) /\ me.p = <<3, 4>>
    BY <1>1, <1>2 DEF FdsOK
  <2>2. fds = Close(Dup(Close(Piped(k - 1), {0}), 3), {3, 4})
    BY <2>1
  <2>3. fds = [i \in 0..2 |-> IF i = 0 THEN Piped(k - 1)[3] ELSE Piped(k - 1)[i]]
    <3> HIDE DEF fds, k
    <3> QED
      BY <2>2, ChildDups
  <2>4. /\ DOMAIN fds = 0..2 /\ fds[0] = PipeIn(k) /\ fds[1] = Terminal /\ fds[2] = Terminal
        /\ fds = [i \in 0..2 |-> fds[i]]
    <3> HIDE DEF fds, k
    <3> QED
      BY <1>3, <2>3 DEF Piped, PipeIn
  <2>5. \A i \in 1..Len(me.cmd) : Len(me.cmd[i].redirs) = Cardinality(Redirections(line, k + i - 1))
    BY <1>3 DEF RunsItsPart
  <2>6. r.pc = "run" /\ r.cmd = me.cmd /\ r.fds = fds
    OBVIOUS
  <2> HIDE DEF r, fds
  <2> QED
    BY <1>1, <1>3, <1>6, <2>4, <2>5, <2>6, AboutToRun
<1>9. proc' = [q \in DOMAIN proc |-> IF q = pid THEN r ELSE proc[q]]
  <2>1. Become(pid, r)
    BY <1>4, <1>5
  <2> HIDE DEF r
  <2> QED
    BY <2>1, BecomeIs
<1>10. r.pc = "run" /\ me.pc \notin Waiting
  BY <1>2 DEF Waiting
<1> HIDE DEF r
<1> QED
  BY <1>2, <1>7, <1>8, <1>9, <1>10, OneMoves

LEMMA CloseEndsInv ==
  ASSUME IInv, NEW pid \in DOMAIN proc, CloseEnds(pid)
  PROVE  IInv'
<1> DEFINE me == proc[pid]
           fds == Close(me.fds, ParentCloses(me.p))
           r == [pc |-> "first wait", cmd |-> me.cmd, fds |-> fds, p |-> me.p]
<1>1. /\ ProcessOK(line, pid, me) /\ (fault # "pipe" => FdsOK(line, pid, me))
      /\ me = [pc |-> me.pc, cmd |-> me.cmd, fds |-> me.fds, p |-> me.p]
  BY ProcessIs
<1>2. me.pc = "close" /\ UNCHANGED <<shell, line, fault>>
  BY DEF CloseEnds
<1>3. RunsItsPart(line, pid, me) /\ ~IsExecOf(me) /\ pid[1] # "left"
  BY <1>1, <1>2 DEF ProcessOK, IsExecOf
<1>4. PICK x : x = [me EXCEPT !.pc = "first wait", !.fds = fds] /\ Become(pid, x)
  BY DEF CloseEnds
<1>5. x = r
  <2> HIDE DEF fds
  <2> QED
    BY <1>1, <1>4
<1>6. RunsItsPart(line, pid, r)
  BY <1>2, <1>3 DEF RunsItsPart, IsExecOf
<1>7. ProcessOK(line, pid, r)
  BY <1>3, <1>6 DEF ProcessOK, Waiting
<1>8. FdsOK(line, pid, r)
  BY DEF FdsOK, IsExecOf
<1>9. proc' = [q \in DOMAIN proc |-> IF q = pid THEN r ELSE proc[q]]
  <2>1. Become(pid, r)
    BY <1>4, <1>5
  <2> HIDE DEF r
  <2> QED
    BY <2>1, BecomeIs
<1>10. r.pc = "first wait" /\ r.pc \in Waiting
  BY DEF Waiting
<1> HIDE DEF r
<1> QED
  BY <1>2, <1>7, <1>8, <1>9, <1>10, OneMoves

LEMMA ExitAfterPipeInv ==
  ASSUME IInv, NEW pid \in DOMAIN proc, ExitAfterPipe(pid)
  PROVE  IInv'
BY ExitInv DEF ExitAfterPipe, Waiting

LEMMA ProgramEndsInv ==
  ASSUME IInv, NEW pid \in DOMAIN proc, ProgramEnds(pid)
  PROVE  IInv'
BY ExitInv DEF ProgramEnds, Waiting

-----------------------------------------------------------------------------
(* fork and wait *)

\* Process k of the pipeline becomes r and has a child c, to wait for later.
Fork(k, c, r, child) ==
  /\ k \in Nat /\ k # 0 /\ <<"run", k>> \in DOMAIN proc
  /\ c \in {<<"left", k>>, <<"run", k + 1>>} /\ c \notin DOMAIN proc
  /\ proc' = [q \in DOMAIN proc \cup {c} |->
                IF q = c THEN child ELSE IF q = <<"run", k>> THEN r ELSE proc[q]]
  /\ UNCHANGED <<shell, line, fault>>
  /\ r.pc \in {"fork right", "close"} /\ child.pc \notin Waiting
  /\ r.pc = "fork right" => c = <<"left", k>> /\ <<"run", k + 1>> \notin DOMAIN proc

LEMMA ForkInv ==
  ASSUME IInv, NEW k, NEW c, NEW r, NEW child, Fork(k, c, r, child),
         ProcessOK(line, <<"run", k>>, r) /\ (fault # "pipe" => FdsOK(line, <<"run", k>>, r)),
         ProcessOK(line, c, child) /\ (fault # "pipe" => FdsOK(line, c, child))
  PROVE  IInv'
<1> DEFINE pid == <<"run", k>>
<1>1. /\ k \in Nat /\ k # 0 /\ k + 1 \in Nat /\ k + 1 # 0 /\ k # k + 1
      /\ \A j \in Nat : j # k => j + 1 # k + 1
  <2>1. k \in Nat /\ k # 0
    BY DEF Fork
  <2> QED
    BY <2>1
<1>2. /\ c = <<"left", k>> \/ c = <<"run", k + 1>>
      /\ pid \in DOMAIN proc /\ pid # c /\ pid[1] = "run" /\ pid[2] = k
      /\ DOMAIN proc' = DOMAIN proc \cup {c} /\ proc'[c] = child /\ proc'[pid] = r
      /\ \A q \in DOMAIN proc : q # pid => proc'[q] = proc[q]
  <2>1. (c = <<"left", k>> \/ c = <<"run", k + 1>>) /\ pid \in DOMAIN proc /\ c \notin DOMAIN proc
    BY DEF Fork
  <2>2. pid # c
    BY <2>1
  <2>3. proc' = [q \in DOMAIN proc \cup {c} |->
                   IF q = c THEN child ELSE IF q = pid THEN r ELSE proc[q]]
    BY DEF Fork
  <2>4. pid[1] = "run" /\ pid[2] = k
    OBVIOUS
  <2> HIDE DEF pid
  <2> QED
    BY <2>1, <2>2, <2>3, <2>4
<1>3. /\ r.pc \in Waiting /\ r.pc # "second wait" /\ child.pc \notin Waiting
      /\ r.pc = "fork right" => c = <<"left", k>> /\ <<"run", k + 1>> \notin DOMAIN proc
      /\ UNCHANGED <<shell, line, fault>>
  BY DEF Fork, Waiting
<1>4. \A q \in DOMAIN proc : proc[q].pc \in Waiting => q \in DOMAIN proc' /\ proc'[q].pc \in Waiting
  BY <1>2, <1>3
<1>5. c \in Pids
  BY <1>1, <1>2 DEF Pids
<1>6. ASSUME NEW q \in DOMAIN proc', NEW j \in 1..q[2], j < q[2] \/ q[1] = "left"
      PROVE  <<"run", j>> \in DOMAIN proc' /\ proc'[<<"run", j>>].pc \in Waiting
  <2>1. CASE q \in DOMAIN proc
    BY <1>4, <1>6, <2>1 DEF IInv, TreeOK
  <2>2. CASE q = c
    <3>1. j \in 1..k
      <4>1. (c[1] = "left" /\ c[2] = k) \/ (c[1] = "run" /\ c[2] = k + 1)
        BY <1>2
      <4>2. CASE c[1] = "left" /\ c[2] = k
        BY <1>6, <2>2, <4>2
      <4>3. CASE c[1] = "run" /\ c[2] = k + 1
        <5>1. j \in 1..(k + 1) /\ j < k + 1
          BY <1>6, <2>2, <4>3
        <5> QED
          BY <1>1, <5>1
      <4> QED
        BY <4>1, <4>2, <4>3
    <3>2. CASE j = k
      BY <1>2, <1>3, <3>2
    <3>3. CASE j # k
      <4>1. j \in 1..pid[2] /\ j < pid[2]
        <5>1. j \in 1..k /\ j < k
          BY <1>1, <3>1, <3>3
        <5> QED
          BY <1>2, <5>1
      <4>2. <<"run", j>> \in DOMAIN proc /\ proc[<<"run", j>>].pc \in Waiting
        <5> HIDE DEF pid
        <5> QED
          BY <1>2, <4>1 DEF IInv, TreeOK
      <4> QED
        BY <1>4, <4>2
    <3> QED
      BY <3>2, <3>3
  <2> QED
    BY <1>2, <2>1, <2>2
<1>7. ASSUME NEW j \in Nat, <<"run", j>> \in DOMAIN proc'
      PROVE  /\ proc'[<<"run", j>>].pc = "fork right" => <<"run", j + 1>> \notin DOMAIN proc'
             /\ proc'[<<"run", j>>].pc = "second wait" =>
                  <<"left", j>> \notin DOMAIN proc' \/ <<"run", j + 1>> \notin DOMAIN proc'
  <2>1. CASE <<"run", j>> = c
    BY <1>2, <1>3, <2>1 DEF Waiting
  <2>2. CASE <<"run", j>> = pid
    <3>1. j = k
      BY <2>2
    <3>2. r.pc = "fork right" => <<"run", k + 1>> \notin DOMAIN proc /\ <<"run", k + 1>> # c
      <4>1. \A i : <<"left", k>> # <<"run", i>>
        OBVIOUS
      <4> QED
        BY <1>3, <4>1
    <3> QED
      BY <1>2, <1>3, <3>1, <3>2
  <2>3. CASE <<"run", j>> # c /\ <<"run", j>> # pid
    <3>1. c # <<"left", j>> /\ c # <<"run", j + 1>>
      <4>1. j # k
        BY <2>3
      <4>2. j + 1 # k + 1
        BY <1>1, <4>1
      <4> QED
        BY <1>2, <4>1, <4>2
    <3>2. <<"run", j>> \in DOMAIN proc /\ proc'[<<"run", j>>] = proc[<<"run", j>>]
      BY <1>2, <1>7, <2>3
    <3> QED
      BY <1>2, <3>1, <3>2 DEF IInv, TreeOK
  <2> QED
    BY <2>1, <2>2, <2>3
<1>8. TreeOK'
  <2>1. (shell = "prompt" => DOMAIN proc = {})'
    BY <1>2, <1>3 DEF IInv, TreeOK
  <2>2. DOMAIN proc' \subseteq Pids
    BY <1>2, <1>5 DEF IInv, TreeOK
  <2> QED
    BY <1>6, <1>7, <2>1, <2>2 DEF TreeOK
<1>9. ProcessesOK'
  <2> SUFFICES ASSUME NEW q \in DOMAIN proc'
               PROVE  ProcessOK(line, q, proc'[q]) /\ (fault # "pipe" => FdsOK(line, q, proc'[q]))
    BY <1>3 DEF ProcessesOK
  <2>1. q = c \/ q = pid \/ (q \in DOMAIN proc /\ q # pid)
    BY <1>2
  <2> QED
    BY <1>2, <2>1 DEF IInv, ProcessesOK
<1> QED
  BY <1>3, <1>8, <1>9 DEF IInv

LEMMA NextCommand ==
  ASSUME NEW n \in Nat, NEW b \in Nat, b + 2 - n > 1
  PROVE  n + 1 \in 1..(b + 1)
OBVIOUS

\* What a process that forks for a pipe knows of its commands.
LEMMA ForkerIs ==
  ASSUME IInv, NEW pid \in DOMAIN proc, proc[pid].pc \in {"fork left", "fork right"}
  PROVE  /\ pid = <<"run", pid[2]>> /\ pid[2] \in Nat \ {0}
         /\ RunsItsPart(line, pid, proc[pid]) /\ ~IsExecOf(proc[pid])
         /\ proc[pid].cmd \in Seq(Cmds(line)) /\ Len(proc[pid].cmd) \in Nat /\ Len(proc[pid].cmd) > 1
         /\ pid[2] \in Commands(line) /\ pid[2] + 1 \in Commands(line)
         /\ Len(proc[pid].cmd) = Cardinality(Bars(line)) + 2 - pid[2]
         /\ Cardinality(Bars(line)) \in Nat
<1>1. /\ ProcessOK(line, pid, proc[pid]) /\ IsTokens(line)
      /\ pid = <<pid[1], pid[2]>> /\ pid[1] \in {"run", "left"} /\ pid[2] \in Nat \ {0}
  BY ProcessIs
<1>2. pid[1] = "run" /\ RunsItsPart(line, pid, proc[pid]) /\ ~IsExecOf(proc[pid])
  BY <1>1 DEF ProcessOK, IsExecOf
<1>3. /\ proc[pid].cmd \in Seq(Cmds(line)) /\ Len(proc[pid].cmd) > 1 /\ pid[2] \in Commands(line)
      /\ Len(proc[pid].cmd) = Cardinality(Bars(line)) + 2 - pid[2]
  BY <1>2 DEF RunsItsPart
<1>4. Len(proc[pid].cmd) \in Nat /\ Cardinality(Bars(line)) \in Nat
  BY <1>1, <1>3, LenProperties, PositionsAreFinite
<1>5. pid[2] + 1 \in Commands(line)
  <2>1. pid[2] \in Nat
    BY <1>1
  <2> QED
    BY <1>3, <1>4, <2>1, NextCommand DEF Commands
<1> QED
  BY <1>1, <1>2, <1>3, <1>4, <1>5

LEMMA ForkLeftInv ==
  ASSUME IInv, NEW pid \in DOMAIN proc, ForkLeft(pid)
  PROVE  IInv'
<1> DEFINE me == proc[pid]
           k == pid[2]
           c == <<"left", k>>
           r == [pc |-> "fork right", cmd |-> me.cmd, fds |-> me.fds, p |-> me.p]
           child == [pc |-> "left", cmd |-> SubSeq(me.cmd, 1, 1), fds |-> me.fds, p |-> me.p]
<1>1. /\ ProcessOK(line, pid, me) /\ (fault # "pipe" => FdsOK(line, pid, me))
      /\ me = [pc |-> me.pc, cmd |-> me.cmd, fds |-> me.fds, p |-> me.p]
  BY ProcessIs
<1>2. me.pc = "fork left" /\ UNCHANGED <<shell, line>>
  BY DEF ForkLeft
<1>3. /\ pid = <<"run", k>> /\ k \in Nat \ {0} /\ RunsItsPart(line, pid, me) /\ ~IsExecOf(me)
      /\ me.cmd \in Seq(Cmds(line)) /\ Len(me.cmd) \in Nat /\ Len(me.cmd) > 1
      /\ k \in Commands(line) /\ k + 1 \in Commands(line)
  BY <1>2, ForkerIs
<1>4. me.pc \notin Waiting
  BY <1>2 DEF Waiting
<1>5. RunsItsPart(line, pid, r) /\ ~IsExecOf(r)
  BY <1>2, <1>3 DEF RunsItsPart, IsExecOf
<1>6. ProcessOK(line, pid, r) /\ (fault # "pipe" => FdsOK(line, pid, r))
  <2>1. ProcessOK(line, pid, r)
    <3>1. r.pc = "fork right" /\ pid[1] # "left" /\ r = [pc |-> r.pc, cmd |-> r.cmd, fds |-> r.fds, p |-> r.p]
      BY <1>3
    <3> HIDE DEF r
    <3> QED
      BY <1>5, <3>1 DEF ProcessOK, Waiting
  <2>2. fault # "pipe" => FdsOK(line, pid, r)
    BY <1>1, <1>2, <1>5 DEF FdsOK
  <2> QED
    BY <2>1, <2>2
<1>7. CASE /\ proc' = With([proc EXCEPT ![pid].pc = "fork right"], c,
                           Forked("left", SubSeq(me.cmd, 1, 1), me.fds, me.p))
           /\ UNCHANGED fault
  <2>1. c \notin DOMAIN proc /\ <<"run", k + 1>> \notin DOMAIN proc
    <3> HIDE DEF k, me
    <3>1. proc[<<"run", k>>].pc \notin Waiting
      BY <1>3, <1>4 DEF me
    <3> QED
      BY <1>3, <3>1, NoChildren
  <2>2. proc' = [q \in DOMAIN proc \cup {c} |->
                   IF q = c THEN child ELSE IF q = pid THEN r ELSE proc[q]]
    <3>1. PICK x : x = [me EXCEPT !.pc = "fork right"]
      OBVIOUS
    <3>2. x = r
      BY <1>1, <3>1
    <3>3. [proc EXCEPT ![pid].pc = "fork right"] = [q \in DOMAIN proc |-> IF q = pid THEN r ELSE proc[q]]
      <4>1. [proc EXCEPT ![pid].pc = "fork right"] = [q \in DOMAIN proc |-> IF q = pid THEN x ELSE proc[q]]
        BY <3>1
      <4> HIDE DEF r
      <4> QED
        BY <3>2, <4>1
    <3>4. Forked("left", SubSeq(me.cmd, 1, 1), me.fds, me.p) = child
      BY DEF Forked
    <3> HIDE DEF child, r, c, me
    <3>5. proc' = With([q \in DOMAIN proc |-> IF q = pid THEN r ELSE proc[q]], c, child)
      BY <1>7, <3>3, <3>4
    <3>6. \A q \in DOMAIN proc \cup {c} : q # c => q \in DOMAIN proc
      OBVIOUS
    <3> QED
      BY <3>5, <3>6 DEF With
  <2>3. child.cmd \in Seq(Cmds(line)) /\ Len(child.cmd) = 1 /\ child.cmd[1] = me.cmd[1]
    <3>1. \A i \in 1..1 : me.cmd[i] \in Cmds(line)
      BY <1>3
    <3>2. \A i \in 1..1 : 1 + i - 1 = i
      OBVIOUS
    <3> QED
      BY <3>1, <3>2, SubSeqProperties
  <2>4. child.pc = "left" /\ child.fds = me.fds /\ child.p = me.p /\ c[1] = "left" /\ c[2] = k
    OBVIOUS
  <2>5. ~IsExecOf(child)
    BY <2>4 DEF IsExecOf
  <2>6. /\ RedirsLeft(line, k, child.cmd[1])
        /\ Len(child.cmd[1].redirs) = Cardinality(Redirections(line, k))
    <3>1. 1 \in 1..Len(me.cmd) /\ k + 1 - 1 = k
      BY <1>3
    <3> HIDE DEF child, k
    <3> QED
      BY <1>3, <2>3, <3>1 DEF RunsItsPart, k
  <2> HIDE DEF child, c, r, k, me
  <2>7. RunsItsPart(line, c, child)
    <3>1. \A i \in 1..Len(child.cmd) : i = 1 /\ k + i - 1 = k
      BY <1>3, <2>3
    <3> QED
      BY <1>3, <2>3, <2>4, <2>6, <3>1 DEF RunsItsPart
  <2>8. ProcessOK(line, c, child)
    BY <2>4, <2>7 DEF ProcessOK, child
  <2>9. fault # "pipe" => FdsOK(line, c, child)
    BY <1>1, <1>2, <2>4, <2>5 DEF FdsOK, k, me
  <2>10. r.pc = "fork right" /\ child.pc \notin Waiting
    BY <2>4 DEF r, Waiting
  <2> QED
    BY <1>2, <1>3, <1>6, <1>7, <2>1, <2>2, <2>8, <2>9, <2>10, ForkInv DEF c, Fork
<1>8. CASE ForkFails /\ Goto(pid, "fork right")
  <2>1. proc' = [q \in DOMAIN proc |-> IF q = pid THEN r ELSE proc[q]]
    BY <1>8, GotoIs
  <2>2. fault = "none" /\ fault' = "fork"
    BY <1>8 DEF ForkFails
  <2> HIDE DEF r
  <2> QED
    BY <1>2, <1>4, <1>6, <2>1, <2>2, OneMoves
<1> QED
  BY <1>7, <1>8 DEF ForkLeft

LEMMA ForkRightInv ==
  ASSUME IInv, NEW pid \in DOMAIN proc, ForkRight(pid)
  PROVE  IInv'
<1> DEFINE me == proc[pid]
           k == pid[2]
           c == <<"run", k + 1>>
           r == [pc |-> "close", cmd |-> me.cmd, fds |-> me.fds, p |-> me.p]
           child == [pc |-> "right", cmd |-> Tail(me.cmd), fds |-> me.fds, p |-> me.p]
<1>1. /\ ProcessOK(line, pid, me) /\ (fault # "pipe" => FdsOK(line, pid, me))
      /\ me = [pc |-> me.pc, cmd |-> me.cmd, fds |-> me.fds, p |-> me.p]
  BY ProcessIs
<1>2. me.pc = "fork right" /\ UNCHANGED <<shell, line>>
  BY DEF ForkRight
<1>3. /\ pid = <<"run", k>> /\ k \in Nat \ {0} /\ RunsItsPart(line, pid, me) /\ ~IsExecOf(me)
      /\ me.cmd \in Seq(Cmds(line)) /\ Len(me.cmd) \in Nat /\ Len(me.cmd) > 1
      /\ k \in Commands(line) /\ k + 1 \in Commands(line)
      /\ Len(me.cmd) = Cardinality(Bars(line)) + 2 - k /\ Cardinality(Bars(line)) \in Nat
  BY <1>2, ForkerIs
<1>4. RunsItsPart(line, pid, r) /\ ~IsExecOf(r)
  BY <1>2, <1>3 DEF RunsItsPart, IsExecOf
<1>5. ProcessOK(line, pid, r) /\ (fault # "pipe" => FdsOK(line, pid, r))
  <2>1. ProcessOK(line, pid, r)
    BY <1>3, <1>4 DEF ProcessOK, Waiting
  <2>2. fault # "pipe" => FdsOK(line, pid, r)
    BY <1>1, <1>2, <1>4 DEF FdsOK
  <2> QED
    BY <2>1, <2>2
<1>6. CASE /\ proc' = With([proc EXCEPT ![pid].pc = "close"], c,
                           Forked("right", Tail(me.cmd), me.fds, me.p))
           /\ UNCHANGED fault
  <2>1. c \notin DOMAIN proc
    BY <1>2, <1>3 DEF IInv, TreeOK
  <2>2. proc' = [q \in DOMAIN proc \cup {c} |->
                   IF q = c THEN child ELSE IF q = pid THEN r ELSE proc[q]]
    <3>1. PICK x : x = [me EXCEPT !.pc = "close"]
      OBVIOUS
    <3>2. x = r
      BY <1>1, <3>1
    <3>3. [proc EXCEPT ![pid].pc = "close"] = [q \in DOMAIN proc |-> IF q = pid THEN r ELSE proc[q]]
      <4>1. [proc EXCEPT ![pid].pc = "close"] = [q \in DOMAIN proc |-> IF q = pid THEN x ELSE proc[q]]
        BY <3>1
      <4> HIDE DEF r
      <4> QED
        BY <3>2, <4>1
    <3>4. Forked("right", Tail(me.cmd), me.fds, me.p) = child
      BY DEF Forked
    <3> HIDE DEF child, r, c, me
    <3>5. proc' = With([q \in DOMAIN proc |-> IF q = pid THEN r ELSE proc[q]], c, child)
      BY <1>6, <3>3, <3>4
    <3>6. \A q \in DOMAIN proc \cup {c} : q # c => q \in DOMAIN proc
      OBVIOUS
    <3> QED
      BY <3>5, <3>6 DEF With
  <2>3. /\ child.cmd \in Seq(Cmds(line)) /\ Len(child.cmd) = Len(me.cmd) - 1
        /\ \A i \in 1..Len(child.cmd) : child.cmd[i] = me.cmd[i + 1]
    <3>1. me.cmd # << >>
      BY <1>3
    <3> QED
      BY <1>3, <3>1, HeadTailProperties
  <2>4. child.pc = "right" /\ child.fds = me.fds /\ child.p = me.p /\ c[1] = "run" /\ c[2] = k + 1
    OBVIOUS
  <2>5. ~IsExecOf(child)
    BY <2>4 DEF IsExecOf
  <2>6. ASSUME NEW i \in 1..Len(child.cmd)
        PROVE  /\ RedirsLeft(line, c[2] + i - 1, child.cmd[i])
               /\ Len(child.cmd[i].redirs) = Cardinality(Redirections(line, c[2] + i - 1))
    <3>1. i + 1 \in 1..Len(me.cmd) /\ k + (i + 1) - 1 = c[2] + i - 1 /\ child.cmd[i] = me.cmd[i + 1]
      BY <1>3, <2>3, <2>4
    <3>2. /\ RedirsLeft(line, k + (i + 1) - 1, me.cmd[i + 1])
          /\ Len(me.cmd[i + 1].redirs) = Cardinality(Redirections(line, k + (i + 1) - 1))
      BY <1>3, <3>1 DEF RunsItsPart
    <3> HIDE DEF child, k, c, me
    <3> QED
      BY <3>1, <3>2
  <2> HIDE DEF child, c, r, k, me
  <2>7. Len(child.cmd) = Cardinality(Bars(line)) + 2 - c[2]
    BY <1>3, <2>3, <2>4
  <2>8. RunsItsPart(line, c, child)
    BY <1>3, <2>3, <2>4, <2>6, <2>7 DEF RunsItsPart
  <2>9. ProcessOK(line, c, child)
    <3>1. c[2] # 1
      BY <1>3, <2>4
    <3> QED
      BY <2>4, <2>8, <3>1 DEF ProcessOK, child
  <2>10. fault # "pipe" => FdsOK(line, c, child)
    <3> SUFFICES ASSUME fault # "pipe" PROVE FdsOK(line, c, child)
      OBVIOUS
    <3>1. child.fds = Piped(k) /\ child.p = <<3, 4>>
      BY <1>1, <1>2, <2>4 DEF FdsOK, k, me
    <3>2. c[2] - 1 = k
      BY <1>3, <2>4
    <3> QED
      BY <2>4, <2>5, <3>1, <3>2 DEF FdsOK
  <2>11. r.pc = "close" /\ child.pc \notin Waiting
    BY <2>4 DEF r, Waiting
  <2> QED
    BY <1>2, <1>3, <1>5, <1>6, <2>1, <2>2, <2>9, <2>10, <2>11, ForkInv DEF c, Fork
<1>7. CASE ForkFails /\ Goto(pid, "close")
  <2>1. proc' = [q \in DOMAIN proc |-> IF q = pid THEN r ELSE proc[q]]
    BY <1>7, GotoIs
  <2>2. fault = "none" /\ fault' = "fork"
    BY <1>7 DEF ForkFails
  <2>3. r.pc = "close" /\ r.pc \in Waiting
    BY DEF Waiting
  <2> HIDE DEF r
  <2> QED
    BY <1>2, <1>5, <2>1, <2>2, <2>3, OneMoves
<1> QED
  BY <1>6, <1>7 DEF ForkRight

LEMMA ChildrenAre ==
  ASSUME IInv, NEW k \in Nat
  PROVE  Children(<<"run", k>>) = {<<"left", k>>, <<"run", k + 1>>} \cap DOMAIN proc
<1>1. ASSUME NEW q \in DOMAIN proc
      PROVE  Parent(q) = <<"run", k>> <=> q = <<"left", k>> \/ q = <<"run", k + 1>>
  <2>1. PICK n \in Nat \ {0} : q = <<"run", n>> \/ q = <<"left", n>>
    <3>1. q \in Pids
      BY DEF IInv, TreeOK
    <3> QED
      BY <3>1 DEF Pids
  <2>2. n - 1 = k <=> n = k + 1
    BY <2>1
  <2>3. CASE q = <<"run", n>>
    BY <2>2, <2>3 DEF Parent
  <2>4. CASE q = <<"left", n>>
    BY <2>4 DEF Parent
  <2> QED
    BY <2>1, <2>3, <2>4
<1> QED
  BY <1>1 DEF Children

\* wait takes a child, or there is none; after the second one there is none.
Waited(k, set, r) ==
  /\ k \in Nat /\ k # 0 /\ <<"run", k>> \in DOMAIN proc
  /\ proc[<<"run", k>>].pc \in {"first wait", "second wait"}
  /\ \/ set = {} /\ Children(<<"run", k>>) = {}
     \/ \E q \in Children(<<"run", k>>) : set = {q} /\ proc[q].pc = "zombie"
  /\ proc' = [q \in DOMAIN proc \ set |-> IF q = <<"run", k>> THEN r ELSE proc[q]]
  /\ r.pc = AfterWait(proc[<<"run", k>>].pc)
  /\ UNCHANGED <<shell, line, fault>>

LEMMA WaitedInv ==
  ASSUME IInv, NEW k, NEW set, NEW r, Waited(k, set, r),
         ProcessOK(line, <<"run", k>>, r) /\ (fault # "pipe" => FdsOK(line, <<"run", k>>, r))
  PROVE  IInv'
<1> DEFINE pid == <<"run", k>>
           kids == {<<"left", k>>, <<"run", k + 1>>} \cap DOMAIN proc
           left == {<<"left", k>>, <<"run", k + 1>>} \cap DOMAIN proc'
           pc == proc[pid].pc
<1>1. k \in Nat /\ k # 0 /\ pid \in DOMAIN proc /\ pid[2] = k
  BY DEF Waited
<1>2. k + 1 \in Nat /\ k # k + 1 /\ k \in 1..k /\ k \in 1..(k + 1) /\ k < k + 1
  BY <1>1
<1>3. /\ pc \in {"first wait", "second wait"} /\ r.pc = AfterWait(pc)
      /\ proc' = [q \in DOMAIN proc \ set |-> IF q = pid THEN r ELSE proc[q]]
      /\ UNCHANGED <<shell, line, fault>>
  BY DEF Waited
<1>4. \/ set = {} /\ kids = {}
      \/ \E q \in kids : set = {q} /\ proc[q].pc = "zombie"
  <2>1. Children(pid) = kids
    BY <1>1, ChildrenAre
  <2> QED
    BY <2>1 DEF Waited
<1>5. \A q \in set : proc[q].pc = "zombie"
  BY <1>4
<1>6. pid \notin set
  BY <1>3, <1>5
<1>7. /\ DOMAIN proc' = DOMAIN proc \ set /\ pid \in DOMAIN proc' /\ proc'[pid] = r
      /\ \A q \in DOMAIN proc' : q # pid => proc'[q] = proc[q]
  <2> HIDE DEF pid
  <2> QED
    BY <1>1, <1>3, <1>6
<1>8. /\ <<"left", k>> \notin DOMAIN proc' \/ <<"run", k + 1>> \notin DOMAIN proc'
      /\ pc = "second wait" => left = {}
  <2>1. CASE kids = {}
    BY <1>7, <2>1
  <2>2. CASE \E q \in kids : set = {q}
    <3>1. PICK q \in kids : set = {q}
      BY <2>2
    <3>2. q \notin DOMAIN proc' /\ (q = <<"left", k>> \/ q = <<"run", k + 1>>)
      BY <1>7, <3>1
    <3>3. pc = "second wait" => <<"left", k>> \notin DOMAIN proc \/ <<"run", k + 1>> \notin DOMAIN proc
      BY <1>1 DEF IInv, TreeOK
    <3>4. DOMAIN proc' \subseteq DOMAIN proc
      BY <1>7
    <3> QED
      BY <3>2, <3>3, <3>4
  <2> QED
    BY <1>4, <2>1, <2>2
<1>9. \/ pc = "first wait" /\ r.pc = "second wait"
      \/ pc = "second wait" /\ r.pc = "exit"
  BY <1>3 DEF AfterWait
<1>10. \A q \in DOMAIN proc : proc[q].pc \in Waiting => q \in DOMAIN proc'
  BY <1>5, <1>7 DEF Waiting
<1>11. ASSUME NEW q \in DOMAIN proc', NEW j \in 1..q[2], j < q[2] \/ q[1] = "left"
       PROVE  <<"run", j>> \in DOMAIN proc' /\ proc'[<<"run", j>>].pc \in Waiting
  <2>1. q \in DOMAIN proc
    BY <1>7
  <2>2. <<"run", j>> \in DOMAIN proc /\ proc[<<"run", j>>].pc \in Waiting
    BY <1>11, <2>1 DEF IInv, TreeOK
  <2>3. <<"run", j>> \in DOMAIN proc'
    BY <1>10, <2>2
  <2>4. CASE <<"run", j>> # pid
    BY <1>7, <2>2, <2>3, <2>4
  <2>5. CASE <<"run", j>> = pid
    <3>1. j = k
      BY <2>5
    <3>2. CASE pc = "first wait"
      BY <1>7, <1>9, <2>3, <2>5, <3>2 DEF Waiting
    <3>3. CASE pc = "second wait"
      <4>1. q \in Pids
        BY <2>1 DEF IInv, TreeOK
      <4>2. PICK n \in Nat : q = <<"run", n>> \/ q = <<"left", n>>
        BY <4>1 DEF Pids
      <4>3. CASE n = k
        <5>1. q = <<"left", k>>
          BY <1>1, <1>11, <3>1, <4>2, <4>3
        <5> QED
          BY <1>8, <3>3, <5>1
      <4>4. CASE n # k
        <5>1. k + 1 \in 1..n /\ (k + 1 < n \/ n = k + 1)
          <6>1. q[2] = n
            BY <4>2
          <6>2. k \in 1..n
            BY <1>11, <3>1, <6>1
          <6> QED
            BY <1>1, <4>4, <6>2
        <5>2. q # <<"run", k + 1>>
          BY <1>8, <3>3
        <5>3. <<"run", k + 1>> \in DOMAIN proc /\ proc[<<"run", k + 1>>].pc \in Waiting
          <6>1. k + 1 < q[2] \/ q[1] = "left"
            BY <4>2, <5>1, <5>2
          <6>2. k + 1 \in 1..q[2]
            BY <4>2, <5>1
          <6> QED
            BY <2>1, <6>1, <6>2 DEF IInv, TreeOK
        <5>4. <<"run", k + 1>> \in DOMAIN proc'
          BY <1>10, <5>3
        <5> QED
          BY <1>8, <3>3, <5>4
      <4> QED
        BY <4>3, <4>4
    <3> QED
      BY <1>9, <3>2, <3>3
  <2> QED
    BY <2>4, <2>5
<1>12. ASSUME NEW j \in Nat, <<"run", j>> \in DOMAIN proc'
       PROVE  /\ proc'[<<"run", j>>].pc = "fork right" => <<"run", j + 1>> \notin DOMAIN proc'
              /\ proc'[<<"run", j>>].pc = "second wait" =>
                   <<"left", j>> \notin DOMAIN proc' \/ <<"run", j + 1>> \notin DOMAIN proc'
  <2>1. CASE <<"run", j>> = pid
    <3>1. j = k
      BY <2>1
    <3>2. r.pc # "fork right"
      BY <1>9
    <3> QED
      BY <1>7, <1>8, <2>1, <3>1, <3>2
  <2>2. CASE <<"run", j>> # pid
    <3>1. <<"run", j>> \in DOMAIN proc /\ proc'[<<"run", j>>] = proc[<<"run", j>>]
      BY <1>7, <1>12, <2>2
    <3>2. DOMAIN proc' \subseteq DOMAIN proc
      BY <1>7
    <3> QED
      BY <3>1, <3>2 DEF IInv, TreeOK
  <2> QED
    BY <2>1, <2>2
<1>13. TreeOK'
  <2>1. (shell = "prompt" => DOMAIN proc = {})'
    BY <1>3, <1>7 DEF IInv, TreeOK
  <2>2. DOMAIN proc' \subseteq Pids
    BY <1>7 DEF IInv, TreeOK
  <2> QED
    BY <1>11, <1>12, <2>1, <2>2 DEF TreeOK
<1>14. ProcessesOK'
  <2> SUFFICES ASSUME NEW q \in DOMAIN proc'
               PROVE  ProcessOK(line, q, proc'[q]) /\ (fault # "pipe" => FdsOK(line, q, proc'[q]))
    BY <1>3 DEF ProcessesOK
  <2>1. q \in DOMAIN proc /\ (q = pid \/ proc'[q] = proc[q])
    BY <1>7
  <2> QED
    BY <1>7, <2>1 DEF IInv, ProcessesOK
<1> QED
  BY <1>3, <1>13, <1>14 DEF IInv

LEMMA WaitInv ==
  ASSUME IInv, NEW pid \in DOMAIN proc, Wait(pid)
  PROVE  IInv'
<1> DEFINE me == proc[pid]
           k == pid[2]
           r == [pc |-> AfterWait(me.pc), cmd |-> me.cmd, fds |-> me.fds, p |-> me.p]
<1>1. /\ ProcessOK(line, pid, me) /\ pid = <<pid[1], k>> /\ k \in Nat \ {0}
      /\ me = [pc |-> me.pc, cmd |-> me.cmd, fds |-> me.fds, p |-> me.p] /\ pid[1] \in {"run", "left"}
  BY ProcessIs
<1>2. me.pc \in {"first wait", "second wait"} /\ UNCHANGED <<shell, line, fault>>
  BY DEF Wait
<1>3. RunsItsPart(line, pid, me) /\ ~IsExecOf(me) /\ pid[1] = "run"
  BY <1>1, <1>2 DEF ProcessOK, IsExecOf
<1>4. r.pc \in {"second wait", "exit"} /\ r.cmd = me.cmd /\ r = [pc |-> r.pc, cmd |-> r.cmd, fds |-> r.fds, p |-> r.p]
  BY <1>2 DEF AfterWait
<1>5. r.pc = AfterWait(me.pc)
  OBVIOUS
<1>6. [me EXCEPT !.pc = AfterWait(me.pc)] = r
  <2>1. PICK x : x = [me EXCEPT !.pc = AfterWait(me.pc)]
    OBVIOUS
  <2>2. x = r
    BY <1>1, <2>1
  <2> HIDE DEF r
  <2> QED
    BY <2>1, <2>2
<1>7. pid = <<"run", k>> /\ k \in Nat /\ k # 0
  BY <1>1, <1>3
<1>8. ProcessOK(line, pid, r) /\ FdsOK(line, pid, r)
  <2> HIDE DEF r, me
  <2>1. ~IsExecOf(r) /\ r.pc # "program"
    BY <1>4 DEF IsExecOf
  <2>2. RunsItsPart(line, pid, r)
    BY <1>3, <1>4, <2>1 DEF RunsItsPart
  <2>3. ProcessOK(line, pid, r)
    BY <1>3, <1>4, <2>2 DEF ProcessOK, Waiting
  <2>4. FdsOK(line, pid, r)
    BY <1>4, <2>1 DEF FdsOK
  <2> QED
    BY <2>3, <2>4
<1>9. CASE Children(pid) = {} /\ Goto(pid, AfterWait(me.pc))
  <2>1. proc' = [q \in DOMAIN proc |-> IF q = pid THEN r ELSE proc[q]]
    BY <1>9, GotoIs
  <2>2. DOMAIN proc \ {} = DOMAIN proc
    OBVIOUS
  <2> HIDE DEF r, k
  <2>3. Waited(k, {}, r)
    BY <1>2, <1>5, <1>7, <1>9, <2>1, <2>2 DEF Waited
  <2> QED
    BY <1>7, <1>8, <2>3, WaitedInv
<1>10. CASE \E q \in Children(pid) :
               /\ proc[q].pc = "zombie"
               /\ proc' = [x \in DOMAIN proc \ {q} |->
                             IF x = pid THEN [proc[pid] EXCEPT !.pc = AfterWait(me.pc)] ELSE proc[x]]
  <2>1. PICK q \in Children(pid) :
          /\ proc[q].pc = "zombie"
          /\ proc' = [x \in DOMAIN proc \ {q} |-> IF x = pid THEN r ELSE proc[x]]
    BY <1>6, <1>10
  <2> HIDE DEF r, k
  <2>2. Waited(k, {q}, r)
    BY <1>2, <1>5, <1>7, <2>1 DEF Waited
  <2> QED
    BY <1>7, <1>8, <2>2, WaitedInv
<1> QED
  BY <1>9, <1>10 DEF Wait

-----------------------------------------------------------------------------
(* The main loop *)

LEMMA InitInv ==
  ASSUME Init
  PROVE  IInv
<1>1. proc = << >> /\ line = << >> /\ shell = "prompt"
  BY DEF Init
<1>2. DOMAIN proc = {} /\ IsTokens(line)
  BY <1>1 DEF IsTokens
<1>3. \A k \in Nat : <<"run", k>> \notin DOMAIN proc
  BY <1>2
<1> QED
  BY <1>1, <1>2, <1>3 DEF IInv, TreeOK, ProcessesOK

\* No process has a child or a parent once the first one is gone or has ended.
LEMMA NobodyIsLeft ==
  ASSUME IInv, NEW q \in DOMAIN proc, q # <<"run", 1>>
  PROVE  <<"run", 1>> \in DOMAIN proc /\ proc[<<"run", 1>>].pc \in Waiting
<1>1. q \in Pids
  BY DEF IInv, TreeOK
<1>2. q = <<q[1], q[2]>> /\ q[1] \in {"run", "left"} /\ q[2] \in Nat \ {0}
  BY <1>1 DEF Pids
<1>3. 1 \in 1..q[2] /\ (1 < q[2] \/ q[1] = "left")
  <2>1. q[2] \in Nat /\ q[2] # 0
    BY <1>2
  <2>2. 1 \in 1..q[2] /\ (1 < q[2] \/ q[2] = 1)
    BY <2>1
  <2> QED
    BY <1>2, <2>2
<1> QED
  BY <1>3 DEF IInv, TreeOK

LEMMA MainWaitInv ==
  ASSUME IInv, MainWait
  PROVE  IInv'
<1>1. \/ <<"run", 1>> \notin DOMAIN proc /\ UNCHANGED proc
      \/ /\ <<"run", 1>> \in DOMAIN proc /\ proc[<<"run", 1>>].pc \notin Waiting
         /\ proc' = [q \in DOMAIN proc \ {<<"run", 1>>} |-> proc[q]]
  BY DEF MainWait, Waiting
<1>2. \A q \in DOMAIN proc : q = <<"run", 1>>
  BY <1>1, NobodyIsLeft
<1>3. DOMAIN proc' = {}
  BY <1>1, <1>2
<1>4. IsTokens(line') /\ shell' = "prompt"
  BY DEF MainWait, IsTokens
<1>5. \A k \in Nat : <<"run", k>> \notin DOMAIN proc'
  BY <1>3
<1> QED
  BY <1>3, <1>4, <1>5 DEF IInv, TreeOK, ProcessesOK

LEMMA GetCmdInv ==
  ASSUME IInv, NEW l \in Lines, GetCmd(l)
  PROVE  IInv'
<1> DEFINE root == <<"run", 1>>
           r == [pc |-> "parse", cmd |-> start, fds |-> [n \in 0..2 |-> Terminal], p |-> <<-1, -1>>]
<1>1. IsTokens(l)
  BY LinesAssumption DEF IsTokens
<1>2. DOMAIN proc = {} /\ shell' = "wait" /\ line' = l
  BY DEF GetCmd, IInv, TreeOK
<1>3. CASE Become(root, Forked("parse", start, [n \in 0..2 |-> Terminal], <<-1, -1>>)) /\ fault' = "none"
  <2>1. proc' = With(proc, root, r)
    BY <1>3 DEF Become, Forked
  <2>2. DOMAIN proc' = {root} /\ proc'[root] = r
    BY <1>2, <2>1 DEF With
  <2>3. root[1] = "run" /\ root[2] = 1 /\ root \in Pids
    BY DEF Pids
  <2>4. r.pc = "parse" /\ r.cmd = start /\ r.fds = Standard(1)
    BY DEF Standard, PipeIn
  <2>5. ProcessOK(l, root, r)
    BY <1>1, <2>3, <2>4, StartIsRight DEF ProcessOK
  <2>6. FdsOK(l, root, r)
    BY <2>4 DEF FdsOK, IsExecOf
  <2>7. ProcessesOK'
    BY <1>2, <2>2, <2>5, <2>6 DEF ProcessesOK
  <2>8. ASSUME NEW q \in DOMAIN proc', NEW j \in 1..q[2], j < q[2] \/ q[1] = "left"
        PROVE  FALSE
    BY <2>2, <2>3, <2>8
  <2>9. ASSUME NEW k \in Nat, <<"run", k>> \in DOMAIN proc'
        PROVE  proc'[<<"run", k>>].pc \notin {"fork right", "second wait"}
    BY <2>2, <2>4, <2>9
  <2>10. TreeOK'
    BY <1>2, <2>2, <2>3, <2>8, <2>9 DEF TreeOK
  <2> QED
    BY <1>1, <1>2, <2>7, <2>10 DEF IInv
<1>4. CASE fault' = "fork" /\ UNCHANGED proc
  <2>1. \A k \in Nat : <<"run", k>> \notin DOMAIN proc'
    BY <1>2, <1>4
  <2> QED
    BY <1>1, <1>2, <1>4, <2>1 DEF IInv, TreeOK, ProcessesOK
<1> QED
  BY <1>3, <1>4 DEF GetCmd

\* The inductive invariant: the processes of a line form the tree that fork made,
\* each runs its part of the line, and has the descriptors that go with it.
THEOREM InductiveInvariant == Spec => []IInv
<1>1. Init => IInv
  BY InitInv
<1>2. IInv /\ [Next]_vars => IInv'
  <2> SUFFICES ASSUME IInv, [Next]_vars PROVE IInv'
    OBVIOUS
  <2>1. ASSUME NEW l \in Lines, GetCmd(l) PROVE IInv'
    BY <2>1, GetCmdInv
  <2>2. CASE MainWait
    BY <2>2, MainWaitInv
  <2>3. ASSUME NEW pid \in DOMAIN proc, Step(pid) PROVE IInv'
    BY <2>3, ParseInv, RedirectInv, ExecInv, PipeInv, ForkLeftInv, ForkRightInv, LeftDescriptorsInv,
       RightDescriptorsInv, CloseEndsInv, WaitInv, ExitAfterPipeInv DEF Step
  <2>4. ASSUME NEW pid \in DOMAIN proc, ProgramEnds(pid) PROVE IInv'
    BY <2>4, ProgramEndsInv
  <2>5. CASE UNCHANGED vars
    BY <2>5 DEF vars, IInv, TreeOK, ProcessesOK
  <2> QED
    BY <2>1, <2>2, <2>3, <2>4, <2>5 DEF Next
<1> QED
  BY <1>1, <1>2, PTL DEF Spec

\* Whatever the lines are, the parser accepts the well-formed ones and no others,
\* and keeps every argument and redirection of every command in their order.
THEOREM ParserIsAlwaysRight == Spec => []ParserIsRight
<1>1. IInv => ParserIsRight
  <2> SUFFICES ASSUME IInv, NEW pid \in DOMAIN proc, proc[pid].pc = "parse", ~Parsing(proc[pid].cmd)
               PROVE  ParsesRight(line, proc[pid].cmd)
    BY DEF ParserIsRight
  <2>1. IsTokens(line) /\ ParserOK(line, proc[pid].cmd)
    BY ProcessIs DEF ProcessOK
  <2> QED
    BY <2>1, ParsedIsRight
<1> QED
  BY <1>1, InductiveInvariant, PTL

\* However many commands a line has and whichever way the processes interleave,
\* every program starts with the files and the pipe ends that its place in the
\* line gives it, and with no other descriptor.
THEOREM DescriptorsAreAlwaysRight == Spec => []DescriptorsAreRight
<1>1. IInv => DescriptorsAreRight
  <2> SUFFICES ASSUME IInv, NEW pid \in DOMAIN proc, proc[pid].pc = "program", fault # "pipe"
               PROVE  /\ DOMAIN proc[pid].fds = 0..2
                      /\ proc[pid].fds[0] = Input(pid[2])
                      /\ proc[pid].fds[1] = Output(pid[2])
    BY DEF DescriptorsAreRight
  <2>1. ProcessOK(line, pid, proc[pid]) /\ FdsOK(line, pid, proc[pid]) /\ IsTokens(line)
    BY ProcessIs
  <2>2. RunsItsPart(line, pid, proc[pid])
    BY <2>1 DEF ProcessOK
  <2>3. Len(proc[pid].cmd) = 1 /\ proc[pid].cmd[1].redirs = << >>
    BY <2>2 DEF RunsItsPart
  <2>4. IsExecOf(proc[pid]) /\ Len(proc[pid].cmd[1].redirs) = 0
    BY <2>3 DEF IsExecOf
  <2>5. ExecFds(line, pid[2], proc[pid].fds, 0)
    BY <2>1, <2>4 DEF FdsOK
  <2> QED
    BY <2>1, <2>5, EverythingDone DEF ExecFds
<1> QED
  BY <1>1, InductiveInvariant, PTL

\* A line with an error runs nothing, and no process outlives its line.
THEOREM NothingIsEverLeftRunning == Spec => []NothingIsLeftRunning
<1>1. IInv => NothingIsLeftRunning
  <2> SUFFICES ASSUME IInv PROVE NothingIsLeftRunning
    OBVIOUS
  <2>1. shell = "prompt" => DOMAIN proc = {}
    BY DEF IInv, TreeOK
  <2>2. ASSUME NEW pid \in DOMAIN proc, proc[pid].pc = "program" PROVE IsLine(line)
    BY <2>2, ProcessIs DEF ProcessOK, RunsItsPart
  <2> QED
    BY <2>1, <2>2 DEF NothingIsLeftRunning
<1> QED
  BY <1>1, InductiveInvariant, PTL
=============================================================================
