------------------------------- MODULE Shell -------------------------------
(***************************************************************************)
(* The shell sh.c: its main loop reads a line and forks a process that     *)
(* parses and runs it; runcmd forks two more for every pipe, and moves     *)
(* file descriptors about until execvp.  Processes run in any order; fork, *)
(* pipe, open and execvp may fail.  A program reads its standard input to  *)
(* the end ("filter"), writes until nobody reads ("source") or just ends.  *)
(***************************************************************************)
EXTENDS ShellParser

CONSTANTS
  Lines,     \* the lines that are typed
  Garbage    \* what the array p of runcmd may hold before pipe sets it

ASSUME LinesAssumption == \A l \in Lines : l \in Seq(Range(l))

VARIABLES
  shell,  \* where the main loop is
  line,   \* buf
  proc,   \* the processes that are not waited for yet
  fault   \* the call that failed while this line runs

vars == <<shell, line, proc, fault>>

(* A process is named for what it was forked for: to run the pipeline from  *)
(* its k-th command on, or the command left of the k-th bar.  It has        *)
(*   pc: where it is in runcmd      cmd: the parser, then what it returned  *)
(*   fds: its open descriptors      p: the descriptors that pipe() returned *)
Pids == {"run", "left"} \X (Nat \ {0})

Parent(pid) == IF pid[1] = "left" THEN <<"run", pid[2]>> ELSE <<"run", pid[2] - 1>>
Children(pid) == {q \in DOMAIN proc : Parent(q) = pid}

Terminal == <<"tty">>
ReadEnd(k) == <<"read end", k>>
WriteEnd(k) == <<"write end", k>>

Init ==
  /\ shell = "prompt"
  /\ line = << >>
  /\ proc = << >>
  /\ fault = "none"

-----------------------------------------------------------------------------
(* Descriptors *)

\* f with the value y for x, which may be new to it.
With(f, x, y) == [z \in DOMAIN f \cup {x} |-> IF z = x THEN y ELSE f[z]]

\* The lowest number that is free.
Lowest(fds) == CHOOSE n \in 0..9 : n \notin DOMAIN fds /\ \A m \in 0..(n - 1) : m \in DOMAIN fds

Close(fds, set) == [n \in DOMAIN fds \ set |-> fds[n]]
Open(fds, object) == With(fds, Lowest(fds), object)
Dup(fds, n) == IF n \in DOMAIN fds THEN Open(fds, fds[n]) ELSE fds

Become(pid, process) == proc' = With(proc, pid, process)
Goto(pid, pc) == proc' = [proc EXCEPT ![pid].pc = pc]

\* exit closes every descriptor; the parent has yet to wait.
Zombie == [pc |-> "zombie", cmd |-> << >>, fds |-> << >>, p |-> <<-1, -1>>]
Exit(pid) == proc' = [proc EXCEPT ![pid] = Zombie]

Forked(pc, cmd, fds, p) == [pc |-> pc, cmd |-> cmd, fds |-> fds, p |-> p]

ForkFails ==
  /\ fault = "none"
  /\ fault' = "fork"

-----------------------------------------------------------------------------
(* The main loop *)

\* A line is read, and a process forked to parse and run it.  Lines that change
\* the directory are left out.
GetCmd(l) ==
  /\ shell = "prompt"
  /\ shell' = "wait"
  /\ line' = l
  /\ \/ /\ Become(<<"run", 1>>, Forked("parse", start, [n \in 0..2 |-> Terminal], <<-1, -1>>))
        /\ fault' = "none"
     \/ fault' = "fork" /\ UNCHANGED proc

\* wait returns at once when there is no child.
MainWait ==
  /\ shell = "wait"
  /\ \/ <<"run", 1>> \notin DOMAIN proc /\ UNCHANGED proc
     \/ /\ <<"run", 1>> \in DOMAIN proc
        /\ proc[<<"run", 1>>].pc = "zombie"
        /\ proc' = [q \in DOMAIN proc \ {<<"run", 1>>} |-> proc[q]]
  /\ shell' = "prompt"
  /\ line' = << >>
  /\ fault' = "none"

-----------------------------------------------------------------------------
(* runcmd *)

\* The parser goes on, runcmd gets what it returns, or it exits with a message.
Parse(pid) ==
  LET parser == proc[pid].cmd
  IN /\ proc[pid].pc = "parse"
     /\ \/ /\ Parsing(parser)
           /\ Become(pid, [proc[pid] EXCEPT !.cmd = ParserTurn(line, parser)])
        \/ /\ parser.at = "parsed"
           /\ Become(pid, [proc[pid] EXCEPT !.pc = "run", !.cmd = pipecmd(parser)])
        \/ ~Parsing(parser) /\ parser.at # "parsed" /\ Exit(pid)
     /\ UNCHANGED <<shell, line, fault>>

\* The last command of a line is no pipecmd.
IsExec(pid) == proc[pid].pc = "run" /\ Len(proc[pid].cmd) = 1

\* Mutant: the innermost redirection first.
InnermostFirst(redirs) == 1

\* The redirection that runcmd comes to first.
Outermost(redirs) == Len(redirs)

\* case '>' and '<': close the descriptor, and open gets its number.
Redirect(pid) ==
  LET me == proc[pid]
      redirs == me.cmd[1].redirs
      redir == redirs[Outermost(redirs)]
      closed == Close(me.fds, {IF redir.type = "<" THEN 0 ELSE 1})
  IN /\ IsExec(pid)
     /\ redirs # << >>
     /\ \/ Become(pid, [me EXCEPT !.fds = Open(closed, <<redir.type, redir.file>>),
                                  !.cmd[1].redirs = RemoveAt(@, Outermost(@))])
        \/ Exit(pid)
     /\ UNCHANGED <<shell, line, fault>>

\* case ' ': an empty command exits; execvp returns only if it fails.
Exec(pid) ==
  /\ IsExec(pid)
  /\ proc[pid].cmd[1].redirs = << >>
  /\ \/ proc[pid].cmd[1].argv # << >> /\ Goto(pid, "program")
     \/ Exit(pid)
  /\ UNCHANGED <<shell, line, fault>>

\* case '|': pipe.  When it fails the program goes on with whatever is in p.
Pipe(pid) ==
  LET me == proc[pid]
      k == pid[2]
      r == Lowest(me.fds)
      opened == Open(Open(me.fds, ReadEnd(k)), WriteEnd(k))
  IN /\ me.pc = "run"
     /\ Len(me.cmd) > 1
     /\ \/ /\ Become(pid, [me EXCEPT !.pc = "fork left", !.fds = opened,
                             !.p = <<r, Lowest(Open(me.fds, ReadEnd(k)))>>])
           /\ UNCHANGED fault
        \/ /\ fault = "none"
           /\ fault' = "pipe"
           /\ \E p \in Garbage :
                Become(pid, [me EXCEPT !.pc = "fork left", !.p = p])
     /\ UNCHANGED <<shell, line>>

ForkLeft(pid) ==
  LET me == proc[pid]
  IN /\ me.pc = "fork left"
     /\ \/ /\ proc' = With([proc EXCEPT ![pid].pc = "fork right"], <<"left", pid[2]>>,
                          Forked("left", SubSeq(me.cmd, 1, 1), me.fds, me.p))
           /\ UNCHANGED fault
        \/ ForkFails /\ Goto(pid, "fork right")
     /\ UNCHANGED <<shell, line>>

ForkRight(pid) ==
  LET me == proc[pid]
  IN /\ me.pc = "fork right"
     /\ \/ /\ proc' = With([proc EXCEPT ![pid].pc = "close"], <<"run", pid[2] + 1>>,
                          Forked("right", Tail(me.cmd), me.fds, me.p))
           /\ UNCHANGED fault
        \/ ForkFails /\ Goto(pid, "close")
     /\ UNCHANGED <<shell, line>>

\* The ends that a child closes once it has duplicated one of them.
BothEnds(p, n) == {p[1], p[2]}

\* close(1), dup(p[1]) and the same for the other side, then both ends are closed.
ChildDescriptors(pid, pc, n, end) ==
  LET me == proc[pid]
      duped == Dup(Close(me.fds, {n}), me.p[end])
  IN /\ me.pc = pc
     /\ Become(pid, [me EXCEPT !.pc = "run", !.fds = Close(duped, BothEnds(me.p, end))])
     /\ UNCHANGED <<shell, line, fault>>

LeftDescriptors(pid) == ChildDescriptors(pid, "left", 1, 2)
RightDescriptors(pid) == ChildDescriptors(pid, "right", 0, 1)

\* Mutant: the parent keeps the end that is written.
ParentKeepsWriteEnd(p) == {p[1]}
ParentCloses(p) == {p[1], p[2]}

CloseEnds(pid) ==
  /\ proc[pid].pc = "close"
  /\ Become(pid, [proc[pid] EXCEPT !.pc = "first wait", !.fds = Close(@, ParentCloses(proc[pid].p))])
  /\ UNCHANGED <<shell, line, fault>>

\* Mutant: one wait only.
AfterWaitExit(pc) == "exit"
AfterWait(pc) == IF pc = "first wait" THEN "second wait" ELSE "exit"

\* wait takes any child that has ended, and returns at once when there is none.
Wait(pid) ==
  LET pc == proc[pid].pc
  IN /\ pc \in {"first wait", "second wait"}
     /\ \/ Children(pid) = {} /\ Goto(pid, AfterWait(pc))
        \/ \E q \in Children(pid) :
             /\ proc[q].pc = "zombie"
             /\ proc' = [x \in DOMAIN proc \ {q} |->
                           IF x = pid THEN [proc[pid] EXCEPT !.pc = AfterWait(pc)] ELSE proc[x]]
     /\ UNCHANGED <<shell, line, fault>>

ExitAfterPipe(pid) ==
  /\ proc[pid].pc = "exit"
  /\ Exit(pid)
  /\ UNCHANGED <<shell, line, fault>>

-----------------------------------------------------------------------------
(* The programs *)

IsOpen(object) == \E q \in DOMAIN proc : object \in Range(proc[q].fds)

\* The object at descriptor n, or the terminal's if it is closed.
At(pid, n) == IF n \in DOMAIN proc[pid].fds THEN proc[pid].fds[n] ELSE Terminal

\* A filter has come to the end of its input, and a source cannot write.
HasToEnd(pid) ==
  LET program == proc[pid].cmd[1].argv[1]
      input == At(pid, 0)
      output == At(pid, 1)
  IN /\ program = "filter" /\ input[1] = "read end" => ~IsOpen(WriteEnd(input[2]))
     /\ program = "source" /\ output[1] = "write end" => ~IsOpen(ReadEnd(output[2]))

\* A program may end whenever it likes.
ProgramEnds(pid) ==
  /\ proc[pid].pc = "program"
  /\ Exit(pid)
  /\ UNCHANGED <<shell, line, fault>>

Step(pid) ==
  \/ Parse(pid) \/ Redirect(pid) \/ Exec(pid) \/ Pipe(pid) \/ ForkLeft(pid) \/ ForkRight(pid)
  \/ LeftDescriptors(pid) \/ RightDescriptors(pid) \/ CloseEnds(pid) \/ Wait(pid)
  \/ ExitAfterPipe(pid)

Next ==
  \/ \E l \in Lines : GetCmd(l)
  \/ MainWait
  \/ \E pid \in DOMAIN proc : Step(pid) \/ ProgramEnds(pid)

Spec == Init /\ [][Next]_vars

\* The processes run on, and a program ends when it has to.
Progress ==
  \/ MainWait
  \/ \E pid \in DOMAIN proc : Step(pid) \/ (ProgramEnds(pid) /\ HasToEnd(pid))

FairSpec == Spec /\ WF_vars(Progress)

-----------------------------------------------------------------------------
(* Correctness properties *)

\* The process that was forked for a line parses what the line means.
ParserIsRight ==
  \A pid \in DOMAIN proc :
    proc[pid].pc = "parse" /\ ~Parsing(proc[pid].cmd) => ParsesRight(line, proc[pid].cmd)

\* The file of the first redirection of a type in command k of the line, if there is one.
Expected(k, type, other) ==
  LET redirected == {n \in Redirections(line, k) : line[n] = type}
      first == CHOOSE n \in redirected : \A m \in redirected : n <= m
  IN IF redirected = {} THEN other ELSE <<type, line[first + 1]>>

Input(k) == Expected(k, "<", IF k = 1 THEN Terminal ELSE ReadEnd(k - 1))
Output(k) == Expected(k, ">", IF k + 1 \in Commands(line) THEN WriteEnd(k) ELSE Terminal)

\* Every program starts with the descriptors that the line gives its command
\* and no others: its input is the first file after a "<", or else the pipe on
\* its left, its output the first file after a ">", or else the pipe on its
\* right.  (When pipe failed its descriptors are anything.)
DescriptorsAreRight ==
  \A pid \in DOMAIN proc : proc[pid].pc = "program" /\ fault # "pipe" =>
    /\ DOMAIN proc[pid].fds = 0..2
    /\ proc[pid].fds[0] = Input(pid[2])
    /\ proc[pid].fds[1] = Output(pid[2])

\* A line with an error runs nothing, not even the commands before the error,
\* and at the prompt no process of an earlier line runs or waits to be reaped.
NothingIsLeftRunning ==
  /\ shell = "prompt" => DOMAIN proc = {}
  /\ ~IsLine(line) => \A pid \in DOMAIN proc : proc[pid].pc # "program"

\* The program that command k of line l runs.
Program(l, k) ==
  LET first == CHOOSE n \in Arguments(l, k) : Rank(Arguments(l, k), n) = 1
  IN IF Arguments(l, k) = {} THEN "nothing" ELSE l[first]

\* A source whose output a filter reads writes for ever.
Terminates(l) ==
  \A k \in Commands(l) \ {1} : ~(Program(l, k - 1) = "source" /\ Program(l, k) = "filter")

\* The prompt comes back: the commands of a pipeline come to the end of their
\* input, or find nobody who reads, once their neighbours have ended, because
\* no other process keeps an end of a pipe open for ever.
PromptReturns == shell = "wait" /\ (IsLine(line) => Terminates(line)) ~> shell = "prompt"
=============================================================================
