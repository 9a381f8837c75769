------------------------------- MODULE CycLog -------------------------------
(***************************************************************************)
(* The cyclic log files of cyc.c, used through log.c by the threads of one *)
(* process: files rotate by size (prefix.0 is the current one, prefix.1    *)
(* the one before it ...) or by time (prefix.<start of the period>).  The  *)
(* files outlive the process, which may crash at any step and start again. *)
(* Threads may be cancelled; malloc, rename, fopen and fputs may fail.     *)
(* Lines are numbered in the order in which they were written.             *)
(***************************************************************************)
EXTENDS Integers, Sequences, SequencesExt

CONSTANTS
  Threads,
  BackupCounts,  \* values of nbackups
  MaxSize,       \* cyc->maxsize, in units of a short line
  MaxBytes,      \* the longest line, in the same units
  Period,        \* cyc->period
  NULL,
  MaxCalls, MaxTime, MaxFaults, MaxStarts, MaxCancels  \* bounds

ASSUME CycAssumption ==
  /\ {MaxSize, Period, MaxBytes} \subseteq Nat \ {0}
  /\ BackupCounts \subseteq Nat
  /\ MaxTime \in Nat
  /\ NULL \notin Threads \cup Nat

VARIABLES
  cyc,         \* struct cyclic, with ftell(cyc->file) as its size (not counted past
               \* MaxSize + 1), and "up": the cyc of log.c is not null
  disk,        \* disk[n]: the lines in file prefix.n, for the files there are
  mutex, lock, \* the owners of the two mutexes, or NULL
  pc,          \* where each thread is in its call
  local,       \* local variables of the call that holds the mutex
  cancelable,  \* threads that can be cancelled at a cancellation point
  clock,       \* time(NULL)
  hist,        \* history: the number of lines printed, that at the last start, and
               \* whether a rename failed
  used         \* how much of the bounds is used up

vars == <<cyc, disk, mutex, lock, pc, local, cancelable, clock, hist, used>>

\* The numbers that files may have; those of cyc_init_filesize are in cyc.h.
FileNumbers == IF cyc.type = "filesize" THEN 0..(IF cyc.nbackups = 0 THEN 0 ELSE cyc.nbackups - 1)
                                        ELSE 0..MaxTime

NoLocals == [i |-> 0, now |-> 0]

Closed(type, nbackups) ==
  [type |-> type, nbackups |-> nbackups, up |-> FALSE, file |-> NULL, size |-> 0,
   period_start |-> 0, flock |-> FALSE]

Init ==
  /\ \/ \E n \in BackupCounts : cyc = Closed("filesize", n)
     \/ cyc = Closed("periodic", 0)
  /\ disk = << >>
  /\ mutex = NULL /\ lock = NULL
  /\ pc = [t \in Threads |-> "idle"]
  /\ local = NoLocals
  /\ cancelable = Threads
  /\ clock = 0
  /\ hist = [printed |-> 0, since |-> 0, renameFailed |-> FALSE]
  /\ used = [calls |-> 0, faults |-> 0, starts |-> 0, cancels |-> 0]

Goto(t, location) == pc' = [pc EXCEPT ![t] = location]

\* A call of the C library fails.
Fails ==
  /\ used.faults < MaxFaults
  /\ used' = [used EXCEPT !.faults = @ + 1]

-----------------------------------------------------------------------------
(* log.c: the handle *)

\* log_init and cyc_init_filesize, or cyc_init_periodic.
log_init ==
  /\ ~cyc.up
  /\ used.starts < MaxStarts
  /\ used' = [used EXCEPT !.starts = @ + 1]
  /\ cyc' = [Closed(cyc.type, cyc.nbackups) EXCEPT !.up = TRUE]
  /\ hist' = [hist EXCEPT !.since = hist.printed]
  /\ UNCHANGED <<disk, mutex, lock, pc, local, cancelable, clock>>

\* log_destroy and cyc_destroy, which take no mutex: no thread may be in a call.
log_destroy ==
  /\ cyc.up
  /\ lock = NULL
  /\ \A t \in Threads : pc[t] \in {"idle", "gone"}
  /\ cyc' = Closed(cyc.type, cyc.nbackups)
  /\ UNCHANGED <<disk, mutex, lock, pc, local, cancelable, clock, hist, used>>

\* The process dies, in logea too, and only the files stay.
Crash ==
  /\ cyc.up
  /\ cyc' = Closed(cyc.type, cyc.nbackups)
  /\ mutex' = NULL /\ lock' = NULL
  /\ pc' = [t \in Threads |-> "idle"]
  /\ local' = NoLocals
  /\ cancelable' = Threads
  /\ UNCHANGED <<disk, clock, hist, used>>

-----------------------------------------------------------------------------
(* The calls of a thread *)

\* logd, loge and log_flush return when there is no handle.
Begin(t, location) ==
  /\ cyc.up
  /\ pc[t] = "idle"
  /\ used.calls < MaxCalls
  /\ used' = [used EXCEPT !.calls = @ + 1]
  /\ Goto(t, location)
  /\ UNCHANGED <<cyc, disk, mutex, lock, local, cancelable, clock, hist>>

\* Mutant: the thread stays open to cancellation.
StayCancelable(t) == cancelable' = cancelable

\* pthread_setcancelstate(PTHREAD_CANCEL_DISABLE).
DisableCancel(t) == cancelable' = cancelable \ {t}

\* cyc_printf and cyc_vprintf, up to cyc_check_open_file.
cyc_printf(t) ==
  /\ pc[t] = "print"
  /\ mutex = NULL
  /\ mutex' = t
  /\ DisableCancel(t)
  /\ Goto(t, "check")
  /\ UNCHANGED <<cyc, disk, lock, local, clock, hist, used>>

\* Mutant: the size is not looked at.
IsFullNever == cyc.file = NULL

\* The current file is due for a change.
IsFull == cyc.file = NULL \/ cyc.size > MaxSize
IsOld == cyc.file = NULL \/ clock - cyc.period_start > Period
IsDue == ~(cyc.flock /\ cyc.file # NULL) /\ IF cyc.type = "filesize" THEN IsFull ELSE IsOld

\* The first value of the loop variable: the file before the last one.
FirstIndex == cyc.nbackups - 2

\* cyc_check_open_file, and the start of cyc_open_filesize.
cyc_check_open_file(t) ==
  /\ pc[t] = "check"
  /\ local' = [i |-> IF IsDue THEN FirstIndex ELSE 0, now |-> clock]
  /\ \/ /\ ~IsDue
        /\ Goto(t, "write")
        /\ UNCHANGED <<cyc, used>>
     \/ /\ IsDue /\ cyc.type = "periodic"
        /\ Goto(t, "open")
        /\ UNCHANGED <<cyc, used>>
     \/ /\ IsDue /\ cyc.type = "filesize"
        /\ cyc' = [cyc EXCEPT !.file = NULL, !.size = 0]
        /\ \/ Goto(t, "rotate") /\ UNCHANGED used
           \/ Goto(t, "leave") /\ Fails
  /\ UNCHANGED <<disk, mutex, lock, cancelable, clock, hist>>

\* Mutant: the file keeps its old name, too.
RenamedByLink(i) == [n \in DOMAIN disk \cup {i + 1} |-> IF n = i + 1 THEN disk[i] ELSE disk[n]]

\* rename(prefix.i, prefix.(i+1)).
Renamed(i) == [n \in (DOMAIN disk \ {i}) \cup {i + 1} |-> IF n = i + 1 THEN disk[i] ELSE disk[n]]

\* Mutant: the loop does not reach the current file.
LoopEndsEarly == local.i > 0

\* The condition of the loop.
LoopGoesOn == local.i >= 0

\* One iteration of the loop of cyc_open_filesize, which goes on after a rename
\* that failed, and ends when malloc fails.
Rotate(t) ==
  /\ pc[t] = "rotate"
  /\ LoopGoesOn
  /\ local' = [local EXCEPT !.i = @ - 1]
  /\ \/ local.i \notin DOMAIN disk /\ UNCHANGED <<disk, pc, hist, used>>
     \/ /\ local.i \in DOMAIN disk
        /\ \/ disk' = Renamed(local.i) /\ UNCHANGED <<pc, hist, used>>
           \/ hist' = [hist EXCEPT !.renameFailed = TRUE] /\ Fails /\ UNCHANGED <<disk, pc>>
           \/ Goto(t, "leave") /\ Fails /\ UNCHANGED <<disk, hist>>
  /\ UNCHANGED <<cyc, mutex, lock, cancelable, clock>>

\* fopen(prefix.n, "w") truncates the file, or there is none (nor memory for its
\* name).
Fopen(t, n, start) ==
  \/ /\ disk' = [k \in DOMAIN disk \cup {n} |-> IF k = n THEN << >> ELSE disk[k]]
     /\ cyc' = [cyc EXCEPT !.file = n, !.size = 0, !.period_start = start]
     /\ Goto(t, "write")
     /\ UNCHANGED used
  \/ /\ cyc' = [cyc EXCEPT !.file = NULL, !.size = 0, !.period_start = start]
     /\ Goto(t, "leave")
     /\ Fails
     /\ UNCHANGED disk

\* The end of cyc_open_filesize.
OpenFilesize(t) ==
  /\ pc[t] = "rotate"
  /\ ~LoopGoesOn
  /\ Fopen(t, 0, 0)
  /\ UNCHANGED <<mutex, lock, local, cancelable, clock, hist>>

cyc_open_periodic(t) ==
  /\ pc[t] = "open"
  /\ LET start == (clock \div Period) * Period IN Fopen(t, start, start)
  /\ UNCHANGED <<mutex, lock, local, cancelable, clock, hist>>

\* fputs and fflush; a line that could not be written is taken to leave nothing.
Fputs(t) ==
  /\ pc[t] = "write"
  /\ Goto(t, "leave")
  /\ \/ /\ disk' = [disk EXCEPT ![cyc.file] = Append(@, hist.printed + 1)]
        /\ hist' = [hist EXCEPT !.printed = @ + 1]
        /\ \E bytes \in 1..MaxBytes :
             cyc' = [cyc EXCEPT !.size = IF @ + bytes > MaxSize THEN MaxSize + 1 ELSE @ + bytes]
        /\ UNCHANGED used
     \/ Fails /\ UNCHANGED <<cyc, disk, hist>>
  /\ UNCHANGED <<mutex, lock, local, cancelable, clock>>

\* The end of cyc_printf, cyc_vprintf and cyc_flush.
Leave(t) ==
  /\ pc[t] \in {"leave", "flushing"}
  /\ mutex' = NULL
  /\ cancelable' = cancelable \cup {t}
  /\ local' = NoLocals
  /\ Goto(t, "idle")
  /\ UNCHANGED <<cyc, disk, lock, clock, hist, used>>

\* cyc_flush: every line is flushed already, so that nothing changes on disk.
\* Without a file the mutex is given back at once.
cyc_flush(t) ==
  /\ pc[t] = "flush"
  /\ mutex = NULL
  /\ \/ cyc.file = NULL /\ Goto(t, "idle") /\ UNCHANGED <<mutex, cancelable>>
     \/ cyc.file # NULL /\ Goto(t, "flushing") /\ mutex' = t /\ DisableCancel(t)
  /\ UNCHANGED <<cyc, disk, lock, local, clock, hist, used>>

cyc_file_lock(t) ==
  /\ pc[t] = "filelock"
  /\ lock = NULL
  /\ lock' = t
  /\ Goto(t, "setflag")
  /\ UNCHANGED <<cyc, disk, mutex, local, cancelable, clock, hist, used>>

\* Mutant: the flag is written without the mutex.
MutexIsIgnored == TRUE
MutexIsFree == mutex = NULL

SetFlag(t, from, value, to) ==
  /\ pc[t] = from
  /\ MutexIsFree
  /\ cyc' = [cyc EXCEPT !.flock = value]
  /\ Goto(t, to)
  /\ UNCHANGED <<disk, mutex, lock, local, cancelable, clock, hist, used>>

cyc_file_unlock(t) == SetFlag(t, "fileunlock", FALSE, "unlocking")

Unlock(t) ==
  /\ pc[t] = "unlocking"
  /\ lock' = NULL
  /\ Goto(t, "idle")
  /\ UNCHANGED <<cyc, disk, mutex, local, cancelable, clock, hist, used>>

\* The user of the file lock gives it back; that does not count in MaxCalls.
BeginUnlock(t) ==
  /\ lock = t
  /\ pc[t] = "idle"
  /\ Goto(t, "fileunlock")
  /\ UNCHANGED <<cyc, disk, mutex, lock, local, cancelable, clock, hist, used>>

\* A thread is cancelled outside the calls, or at the file operations within
\* them.  A thread with the file lock has a cleanup handler for it.
Cancel(t) ==
  /\ used.cancels < MaxCancels
  /\ t \in cancelable
  /\ lock # t
  /\ pc[t] \in {"idle", "check", "rotate", "open", "write", "flushing"}
  /\ used' = [used EXCEPT !.cancels = @ + 1]
  /\ Goto(t, "gone")
  /\ UNCHANGED <<cyc, disk, mutex, lock, local, cancelable, clock, hist>>

Tick ==
  /\ cyc.type = "periodic"
  /\ clock < MaxTime
  /\ clock' = clock + 1
  /\ UNCHANGED <<cyc, disk, mutex, lock, pc, local, cancelable, hist, used>>

InCall(t) ==
  \/ cyc_printf(t) \/ cyc_check_open_file(t) \/ Rotate(t) \/ OpenFilesize(t)
  \/ cyc_open_periodic(t) \/ Fputs(t) \/ Leave(t) \/ cyc_flush(t)
  \/ cyc_file_lock(t) \/ SetFlag(t, "setflag", TRUE, "idle")
  \/ BeginUnlock(t) \/ cyc_file_unlock(t) \/ Unlock(t)

Next ==
  \/ log_init \/ log_destroy \/ Crash \/ Tick
  \/ \E t \in Threads :
       \/ Begin(t, "print") \/ Begin(t, "flush")
       \/ lock # t /\ Begin(t, "filelock")
       \/ InCall(t)
       \/ Cancel(t)

Spec == Init /\ [][Next]_vars

\* A thread in a call runs on, and the user of the file lock gives it back.
FairSpec == Spec /\ \A t \in Threads : WF_vars(InCall(t))

-----------------------------------------------------------------------------
(* Correctness properties *)

\* The lines that files d hold.
LinesOf(d) == UNION {Range(d[n]) : n \in DOMAIN d}

\* The numbers tell that file m was written before file n.
Older(m, n) == IF cyc.type = "filesize" THEN m > n ELSE m < n

\* There are the files that cyc.h names, and no others, and their numbers give
\* the order of the lines: whatever failed or crashed in the middle of a
\* rotation, no older file comes before a newer one.
\* Rotation by size drops lines only at the old end, without a gap, as long as
\* rename works; rotation by time loses no line of a process, whatever fails.
KeepsTheNewest ==
  /\ DOMAIN disk \subseteq FileNumbers
  /\ \A m, n \in DOMAIN disk : \A i \in DOMAIN disk[m], j \in DOMAIN disk[n] :
       Older(m, n) \/ (m = n /\ i < j) => disk[m][i] < disk[n][j]
  /\ LinesOf(disk) \subseteq 1..hist.printed
  /\ cyc.type = "filesize" /\ ~hist.renameFailed =>
       \A x \in LinesOf(disk) : x..hist.printed \subseteq LinesOf(disk)
  /\ cyc.type = "periodic" => (hist.since + 1)..hist.printed \subseteq LinesOf(disk)

\* Lines are dropped only when there is a file for every number: without a
\* failure or a restart there are nbackups files of them.
DropsOnlyWhenFull ==
  [][cyc.type = "filesize" /\ ~(LinesOf(disk) \subseteq LinesOf(disk')) =>
       used.faults > 0 \/ used.starts > 1 \/ DOMAIN disk = FileNumbers]_vars

\* cyc_file_lock keeps the current file: no file appears, goes, is renamed or
\* truncated until the unlock, whatever the other threads print.
CurrentFileStays ==
  [][cyc.flock /\ cyc.flock' /\ cyc.file # NULL =>
       /\ cyc'.file = cyc.file
       /\ DOMAIN disk' = DOMAIN disk
       /\ \A n \in DOMAIN disk : IsPrefix(disk[n], disk'[n])]_vars

\* A line goes to a file that has room for it and whose period it is in (the
\* time of the check counts), but for a file that is locked.
LinesGoToTheRightFile ==
  [][hist'.printed # hist.printed /\ ~cyc.flock =>
       /\ cyc.type = "filesize" => cyc.size <= MaxSize
       /\ cyc.type = "periodic" => cyc.file <= clock /\ local.now <= cyc.file + Period]_vars

\* The calling thread can be sure that all functions will return (cyc.h),
\* whatever fails and whoever is cancelled: nobody goes away with a mutex.
CallsReturn == \A t \in Threads : pc[t] # "idle" ~> pc[t] \in {"idle", "gone"}
=============================================================================
