---------------------------- MODULE CycLogProofs ----------------------------
(***************************************************************************)
(* Proofs about CycLog, for any number of threads, files, calls, failures, *)
(* cancellations and restarts: the files hold the newest lines in order, a *)
(* locked file stays, and lines go to the file that is due.                *)
(***************************************************************************)
EXTENDS CycLog, SequenceTheorems, TLAPS

-----------------------------------------------------------------------------
(* The inductive invariant *)

InMutex == {"check", "rotate", "open", "write", "leave", "flushing"}
Locations == InMutex \cup {"idle", "gone", "print", "flush", "filelock", "setflag", "fileunlock", "unlocking"}

TypeOK ==
  /\ cyc \in [type : {"filesize", "periodic"}, nbackups : Nat, up : BOOLEAN, file : Nat \cup {NULL},
              size : Nat, period_start : Nat, flock : BOOLEAN]
  /\ disk = [n \in DOMAIN disk |-> disk[n]]
  /\ \A n \in DOMAIN disk : n \in Nat /\ disk[n] \in Seq(Nat)
  /\ mutex \in Threads \cup {NULL}
  /\ lock \in Threads \cup {NULL}
  /\ pc \in [Threads -> Locations]
  /\ local \in [i : Int, now : Nat]
  /\ cancelable \subseteq Threads
  /\ clock \in 0..MaxTime
  /\ hist \in [printed : Nat, since : Nat, renameFailed : BOOLEAN]
  /\ used \in [calls : Nat, faults : Nat, starts : Nat, cancels : Nat]

\* The thread that holds the mutex is in a call, and nobody can cancel it.
MutexOK ==
  /\ \A t \in Threads : (pc[t] \in InMutex <=> mutex = t) /\ (t \notin cancelable <=> mutex = t)
  /\ ~cyc.up => lock = NULL /\ \A t \in Threads : pc[t] \in {"idle", "gone"}

\* The file that is open, and what the holder of the mutex knows of it.
FileOK ==
  /\ cyc.file # NULL => /\ cyc.file \in DOMAIN disk
                        /\ cyc.file = IF cyc.type = "filesize" THEN 0 ELSE cyc.period_start
  /\ \A t \in Threads :
       /\ pc[t] = "rotate" => /\ cyc.type = "filesize" /\ cyc.file = NULL
                              /\ local.i >= -2 /\ local.i <= FirstIndex
                              /\ local.i < -1 => local.i = FirstIndex
       /\ pc[t] = "open" => /\ cyc.type = "periodic" /\ local.now <= clock
                            /\ cyc.file # NULL => ~cyc.flock /\ clock - cyc.period_start > Period
       /\ pc[t] = "write" => /\ cyc.file # NULL
                             /\ cyc.flock \/ IF cyc.type = "filesize"
                                  THEN cyc.size <= MaxSize
                                  ELSE cyc.file <= clock /\ local.now <= cyc.file + Period

\* Rotation by size.  A file is renamed only to a number that is free, but for the
\* oldest one; without failures and restarts nothing else is missing in between.
RotationOK ==
  cyc.type = "filesize" =>
    /\ hist.renameFailed => used.faults > 0
    /\ used.starts = 0 => ~cyc.up /\ DOMAIN disk = {}
    /\ \A t \in Threads : pc[t] = "rotate" /\ ~hist.renameFailed /\ local.i < FirstIndex =>
         local.i + 1 \notin DOMAIN disk
    /\ cyc.up /\ used.faults = 0 /\ used.starts <= 1 =>
         \A n \in DOMAIN disk : \A k \in 0..(n - 1) :
           k \in DOMAIN disk \/ \E t \in Threads : pc[t] = "rotate" /\ k = local.i + 1

\* A period starts at time n.
IsStart(n) == \E k \in 0..n : n = k * Period

\* Rotation by time.  The files start at periods that have begun, and the current
\* one is the last of them; a file that could not be opened has no line.
PeriodsOK ==
  cyc.type = "periodic" =>
    /\ \A n \in DOMAIN disk \cup {cyc.period_start} : n <= clock /\ IsStart(n)
    /\ cyc.file # NULL => \A n \in DOMAIN disk : n <= cyc.file
    /\ cyc.up => \A n \in DOMAIN disk : \A j \in DOMAIN disk[n] :
         disk[n][j] > hist.since => n <= cyc.period_start /\ (cyc.file = NULL => n < cyc.period_start)

IInv ==
  /\ TypeOK
  /\ MutexOK
  /\ FileOK
  /\ RotationOK
  /\ PeriodsOK
  /\ KeepsTheNewest

-----------------------------------------------------------------------------
\* The assumptions, one by one.
LEMMA Naturals ==
  /\ MaxSize \in Nat /\ MaxSize > 0
  /\ Period \in Nat /\ Period > 0
  /\ MaxBytes \in Nat /\ MaxBytes > 0
  /\ MaxTime \in Nat
  /\ \A n \in BackupCounts : n \in Nat
  /\ NULL \notin Nat /\ \A t \in Threads : t # NULL
BY CycAssumption

-----------------------------------------------------------------------------
(* The lines of the files *)

LEMMA InLines ==
  ASSUME NEW d, NEW x
  PROVE  x \in LinesOf(d) <=> \E n \in DOMAIN d : \E j \in DOMAIN d[n] : d[n][j] = x
<1>1. ASSUME x \in LinesOf(d) PROVE \E n \in DOMAIN d : \E j \in DOMAIN d[n] : d[n][j] = x
  <2>1. PICK n \in DOMAIN d : x \in Range(d[n])
    BY <1>1 DEF LinesOf
  <2> QED
    BY <2>1 DEF Range
<1>2. ASSUME NEW n \in DOMAIN d, NEW j \in DOMAIN d[n], d[n][j] = x PROVE x \in LinesOf(d)
  <2>1. x \in Range(d[n])
    BY <1>2 DEF Range
  <2> QED
    BY <2>1 DEF LinesOf
<1> QED
  BY <1>1, <1>2

\* The order of the lines when files with higher numbers are the older ones, and
\* when they are the newer ones.
Falling(d) ==
  \A m, n \in DOMAIN d : \A i \in DOMAIN d[m], j \in DOMAIN d[n] :
    m > n \/ (m = n /\ i < j) => d[m][i] < d[n][j]
Rising(d) ==
  \A m, n \in DOMAIN d : \A i \in DOMAIN d[m], j \in DOMAIN d[n] :
    m < n \/ (m = n /\ i < j) => d[m][i] < d[n][j]

Gapless(d, printed) == \A x \in LinesOf(d) : x..printed \subseteq LinesOf(d)

\* The files with their lines, apart from the state of the process.
DiskOK(type, d, h) ==
  /\ IF type = "filesize" THEN Falling(d) ELSE Rising(d)
  /\ LinesOf(d) \subseteq 1..h.printed
  /\ type = "filesize" /\ ~h.renameFailed => Gapless(d, h.printed)
  /\ type = "periodic" => (h.since + 1)..h.printed \subseteq LinesOf(d)

LEMMA NewestIs == KeepsTheNewest <=> DOMAIN disk \subseteq FileNumbers /\ DiskOK(cyc.type, disk, hist)
BY DEF KeepsTheNewest, DiskOK, Falling, Rising, Gapless, Older

LEMMA NewestIsNext ==
  DOMAIN disk' \subseteq FileNumbers' /\ DiskOK(cyc'.type, disk', hist') => KeepsTheNewest'
BY DEF KeepsTheNewest, DiskOK, Falling, Rising, Gapless, Older

\* Files are numbered, and lines too.
IsFiles(d) == \A n \in DOMAIN d : n \in Nat /\ d[n] \in Seq(Nat)

\* File i takes the place of file i + 1.
LEMMA RenamedLines ==
  ASSUME NEW d, IsFiles(d), Falling(d), NEW i \in DOMAIN d, NEW e,
         DOMAIN e = (DOMAIN d \ {i}) \cup {i + 1},
         \A n \in DOMAIN e : e[n] = IF n = i + 1 THEN d[i] ELSE d[n]
  PROVE  /\ IsFiles(e)
         /\ Falling(e)
         /\ LinesOf(e) \subseteq LinesOf(d)
         /\ i + 1 \notin DOMAIN d => LinesOf(e) = LinesOf(d)
         /\ \A printed \in Nat : (\A n \in DOMAIN d : n <= i + 1) /\ Gapless(d, printed) => Gapless(e, printed)
<1>1. i \in Nat /\ \A n \in DOMAIN d : n \in Nat
  BY DEF IsFiles
<1>2. IsFiles(e)
  BY <1>1 DEF IsFiles
<1>3. Falling(e)
  <2> SUFFICES ASSUME NEW m \in DOMAIN e, NEW n \in DOMAIN e, NEW a \in DOMAIN e[m], NEW b \in DOMAIN e[n],
                      m > n \/ (m = n /\ a < b)
               PROVE  e[m][a] < e[n][b]
    BY DEF Falling
  <2> DEFINE From(k) == IF k = i + 1 THEN i ELSE k
  <2>1. From(m) \in DOMAIN d /\ From(n) \in DOMAIN d /\ e[m] = d[From(m)] /\ e[n] = d[From(n)]
    BY <1>1 DEF IsFiles
  <2>2. m \in Nat /\ n \in Nat /\ m # i /\ n # i
    BY <1>1
  <2>3. From(m) > From(n) \/ (From(m) = From(n) /\ a < b)
    BY <1>1, <2>2
  <2> HIDE DEF From
  <2> QED
    BY <2>1, <2>3 DEF Falling
<1>4. ASSUME NEW x \in LinesOf(e) PROVE x \in LinesOf(d)
  <2>1. PICK n \in DOMAIN e : \E j \in DOMAIN e[n] : e[n][j] = x
    BY InLines
  <2>2. \E k \in DOMAIN d : \E j \in DOMAIN d[k] : d[k][j] = x
    BY <2>1
  <2> QED
    BY <2>2, InLines
<1>5. ASSUME NEW n \in DOMAIN d, NEW j \in DOMAIN d[n], n # i + 1 PROVE d[n][j] \in LinesOf(e)
  <2>1. PICK k \in DOMAIN e : e[k] = d[n]
    BY <1>1, <1>5
  <2> QED
    BY <2>1, InLines
<1>6. ASSUME i + 1 \notin DOMAIN d, NEW x \in LinesOf(d) PROVE x \in LinesOf(e)
  BY <1>5, <1>6, InLines
<1>7. ASSUME NEW printed \in Nat, \A n \in DOMAIN d : n <= i + 1, Gapless(d, printed)
      PROVE  Gapless(e, printed)
  <2> SUFFICES ASSUME NEW x \in LinesOf(e), NEW y \in x..printed PROVE y \in LinesOf(e)
    BY DEF Gapless
  <2>0. PICK m \in DOMAIN d : m # i + 1 /\ \E a \in DOMAIN d[m] : d[m][a] = x
    <3>1. PICK n \in DOMAIN e : \E j \in DOMAIN e[n] : e[n][j] = x
      BY InLines
    <3> QED
      BY <1>1, <3>1
  <2>1. PICK a \in DOMAIN d[m] : d[m][a] = x
    BY <2>0
  <2>2. y \in LinesOf(d)
    <3>1. x \in LinesOf(d)
      BY <1>4
    <3> QED
      BY <1>7, <3>1 DEF Gapless
  <2>3. PICK n \in DOMAIN d : \E b \in DOMAIN d[n] : d[n][b] = y
    BY <2>2, InLines
  <2>4. n # i + 1
    <3> SUFFICES ASSUME n = i + 1 PROVE FALSE
      OBVIOUS
    <3>1. n > m
      BY <1>1, <1>7, <2>0
    <3>2. y < x
      BY <2>1, <2>3, <3>1 DEF Falling
    <3>3. x \in Nat
      BY <2>1, ElementOfSeq, LenProperties DEF IsFiles
    <3> QED
      BY <3>2, <3>3
  <2> QED
    BY <1>5, <2>3, <2>4
<1> QED
  BY <1>2, <1>3, <1>4, <1>6, <1>7

-----------------------------------------------------------------------------
(* Steps that leave the files alone *)

LEMMA OneHolder ==
  ASSUME MutexOK, NEW t \in Threads, pc[t] \in InMutex
  PROVE  mutex = t /\ t \notin cancelable /\ cyc.up /\ \A u \in Threads \ {t} : pc[u] \notin InMutex
BY DEF MutexOK, InMutex

CycRecord ==
  [type : {"filesize", "periodic"}, nbackups : Nat, up : BOOLEAN, file : Nat \cup {NULL},
   size : Nat, period_start : Nat, flock : BOOLEAN]

LEMMA FlagSet ==
  ASSUME cyc \in CycRecord, NEW b \in BOOLEAN, cyc' = [cyc EXCEPT !.flock = b]
  PROVE  /\ cyc' \in CycRecord
         /\ cyc'.type = cyc.type /\ cyc'.nbackups = cyc.nbackups /\ cyc'.up = cyc.up
         /\ cyc'.file = cyc.file /\ cyc'.size = cyc.size /\ cyc'.period_start = cyc.period_start
         /\ cyc'.flock = b
BY DEF CycRecord

LEMMA FileNumbersStay ==
  ASSUME cyc'.type = cyc.type, cyc'.nbackups = cyc.nbackups
  PROVE  FileNumbers' = FileNumbers
BY DEF FileNumbers

\* The locations at which a thread knows something of the files.
AtFiles == {"rotate", "open", "write"}

LEMMA QuietKeeps ==
  ASSUME IInv, TypeOK', MutexOK', UNCHANGED <<disk, clock, hist>>,
         cyc' = cyc \/ (mutex = NULL /\ \E b \in BOOLEAN : cyc' = [cyc EXCEPT !.flock = b]),
         used'.faults = used.faults, used'.starts = used.starts,
         \A t \in Threads : pc[t] \in AtFiles \/ pc'[t] \in AtFiles => pc'[t] = pc[t] /\ local' = local
  PROVE  IInv'
<1>1. /\ cyc'.type = cyc.type /\ cyc'.nbackups = cyc.nbackups /\ cyc'.up = cyc.up /\ cyc'.file = cyc.file
      /\ cyc'.size = cyc.size /\ cyc'.period_start = cyc.period_start
      /\ cyc'.flock = cyc.flock \/ \A t \in Threads : pc[t] \notin AtFiles
  <2>1. CASE cyc' = cyc
    BY <2>1
  <2>2. CASE mutex = NULL /\ \E b \in BOOLEAN : cyc' = [cyc EXCEPT !.flock = b]
    <3>1. \A t \in Threads : pc[t] \notin AtFiles
      BY <2>2, Naturals DEF IInv, MutexOK, InMutex, AtFiles
    <3>2. cyc \in CycRecord
      BY DEF IInv, TypeOK, CycRecord
    <3> QED
      BY <2>2, <3>1, <3>2, FlagSet
  <2> QED
    BY <2>1, <2>2
<1>2. FirstIndex' = FirstIndex /\ FileNumbers' = FileNumbers
  BY <1>1, FileNumbersStay DEF FirstIndex
<1>3. KeepsTheNewest'
  BY <1>1, <1>2 DEF IInv, KeepsTheNewest, Older
<1>4. FileOK'
  BY <1>1, <1>2 DEF IInv, FileOK, AtFiles
<1>5. RotationOK'
  BY <1>1, <1>2 DEF IInv, RotationOK, AtFiles
<1>6. PeriodsOK'
  BY <1>1 DEF IInv, PeriodsOK
<1> QED
  BY <1>3, <1>4, <1>5, <1>6 DEF IInv

LEMMA BeginKeeps ==
  ASSUME IInv, NEW t \in Threads, NEW location \in {"print", "flush", "filelock"}, Begin(t, location)
  PROVE  IInv'
<1>1. TypeOK'
  BY DEF Begin, Goto, IInv, TypeOK, Locations, InMutex
<1>2. MutexOK'
  BY DEF Begin, Goto, IInv, TypeOK, MutexOK, InMutex
<1>3. used'.faults = used.faults /\ used'.starts = used.starts
  BY DEF Begin, IInv, TypeOK
<1>4. \A u \in Threads : pc[u] \in AtFiles \/ pc'[u] \in AtFiles => pc'[u] = pc[u] /\ local' = local
  BY DEF Begin, Goto, IInv, TypeOK, AtFiles
<1> QED
  BY <1>1, <1>2, <1>3, <1>4, QuietKeeps DEF Begin

LEMMA PrintKeeps ==
  ASSUME IInv, NEW t \in Threads, cyc_printf(t)
  PROVE  IInv'
<1>1. TypeOK'
  BY DEF cyc_printf, DisableCancel, Goto, IInv, TypeOK, Locations, InMutex
<1>2. MutexOK'
  BY Naturals DEF cyc_printf, DisableCancel, Goto, IInv, TypeOK, MutexOK, InMutex
<1>3. \A u \in Threads : pc[u] \in AtFiles \/ pc'[u] \in AtFiles => pc'[u] = pc[u] /\ local' = local
  BY DEF cyc_printf, Goto, IInv, TypeOK, AtFiles
<1> QED
  BY <1>1, <1>2, <1>3, QuietKeeps DEF cyc_printf

LEMMA LeaveKeeps ==
  ASSUME IInv, NEW t \in Threads, Leave(t)
  PROVE  IInv'
<1>1. TypeOK'
  BY DEF Leave, NoLocals, Goto, IInv, TypeOK, Locations, InMutex
<1>2. MutexOK'
  BY Naturals DEF Leave, Goto, IInv, TypeOK, MutexOK, InMutex
<1>3. \A u \in Threads : pc[u] \in AtFiles \/ pc'[u] \in AtFiles => pc'[u] = pc[u] /\ local' = local
  BY OneHolder DEF Leave, Goto, IInv, TypeOK, AtFiles, InMutex
<1> QED
  BY <1>1, <1>2, <1>3, QuietKeeps DEF Leave

LEMMA FlushKeeps ==
  ASSUME IInv, NEW t \in Threads, cyc_flush(t)
  PROVE  IInv'
<1>1. TypeOK'
  BY DEF cyc_flush, DisableCancel, Goto, IInv, TypeOK, Locations, InMutex
<1>2. MutexOK'
  <2>1. CASE UNCHANGED <<mutex, cancelable>>
    BY <2>1 DEF cyc_flush, Goto, IInv, TypeOK, MutexOK, InMutex
  <2>2. CASE mutex' = t /\ DisableCancel(t) /\ Goto(t, "flushing")
    BY <2>2, Naturals DEF cyc_flush, DisableCancel, Goto, IInv, TypeOK, MutexOK, InMutex
  <2> QED
    BY <2>1, <2>2 DEF cyc_flush
<1>3. \A u \in Threads : pc[u] \in AtFiles \/ pc'[u] \in AtFiles => pc'[u] = pc[u] /\ local' = local
  BY DEF cyc_flush, Goto, IInv, TypeOK, AtFiles
<1> QED
  BY <1>1, <1>2, <1>3, QuietKeeps DEF cyc_flush

LEMMA LockKeeps ==
  ASSUME IInv, NEW t \in Threads, cyc_file_lock(t) \/ BeginUnlock(t) \/ Unlock(t)
  PROVE  IInv'
<1>1. TypeOK'
  <2>1. pc' \in [Threads -> Locations] /\ lock' \in Threads \cup {NULL}
    BY DEF cyc_file_lock, BeginUnlock, Unlock, Goto, IInv, TypeOK, Locations
  <2> QED
    BY <2>1 DEF cyc_file_lock, BeginUnlock, Unlock, IInv, TypeOK
<1>2. MutexOK'
  BY Naturals DEF cyc_file_lock, BeginUnlock, Unlock, Goto, IInv, TypeOK, MutexOK, InMutex
<1>3. \A u \in Threads : pc[u] \in AtFiles \/ pc'[u] \in AtFiles => pc'[u] = pc[u] /\ local' = local
  BY DEF cyc_file_lock, BeginUnlock, Unlock, Goto, IInv, TypeOK, AtFiles
<1> QED
  BY <1>1, <1>2, <1>3, QuietKeeps DEF cyc_file_lock, BeginUnlock, Unlock

LEMMA FlagKeeps ==
  ASSUME IInv, NEW t \in Threads, NEW value \in BOOLEAN,
         SetFlag(t, "setflag", value, "idle") \/ SetFlag(t, "fileunlock", value, "unlocking")
  PROVE  IInv'
<1>0. cyc' \in CycRecord /\ cyc'.up = cyc.up
  BY FlagSet DEF SetFlag, IInv, TypeOK, CycRecord
<1>1. TypeOK'
  <2>1. pc' \in [Threads -> Locations]
    BY DEF SetFlag, Goto, IInv, TypeOK, Locations
  <2> QED
    BY <1>0, <2>1 DEF SetFlag, IInv, TypeOK, CycRecord
<1>2. MutexOK'
  <2>1. \A u \in Threads : pc'[u] \in InMutex <=> pc[u] \in InMutex
    BY DEF SetFlag, Goto, IInv, TypeOK, InMutex
  <2>2. cyc.up
    BY DEF SetFlag, IInv, MutexOK
  <2>3. cyc'.up
    BY <1>0, <2>2
  <2> QED
    BY <2>1, <2>3 DEF SetFlag, IInv, MutexOK
<1>3. \A u \in Threads : pc[u] \in AtFiles \/ pc'[u] \in AtFiles => pc'[u] = pc[u] /\ local' = local
  BY DEF SetFlag, Goto, IInv, TypeOK, AtFiles
<1> QED
  BY <1>1, <1>2, <1>3, QuietKeeps DEF SetFlag, MutexIsFree

\* A thread that holds the mutex cannot be cancelled.
LEMMA CancelKeeps ==
  ASSUME IInv, NEW t \in Threads, Cancel(t)
  PROVE  IInv'
<1>1. mutex # t /\ pc[t] = "idle"
  BY DEF Cancel, IInv, MutexOK, InMutex
<1>2. TypeOK'
  BY DEF Cancel, Goto, IInv, TypeOK, Locations, InMutex
<1>3. MutexOK'
  BY <1>1 DEF Cancel, Goto, IInv, TypeOK, MutexOK, InMutex
<1>4. used'.faults = used.faults /\ used'.starts = used.starts
  BY DEF Cancel, IInv, TypeOK
<1>5. \A u \in Threads : pc[u] \in AtFiles \/ pc'[u] \in AtFiles => pc'[u] = pc[u] /\ local' = local
  BY <1>1 DEF Cancel, Goto, IInv, TypeOK, AtFiles
<1> QED
  BY <1>2, <1>3, <1>4, <1>5, QuietKeeps DEF Cancel

-----------------------------------------------------------------------------
(* The handle *)

LEMMA ClosedFacts ==
  ASSUME cyc \in CycRecord,
         cyc' = Closed(cyc.type, cyc.nbackups) \/ cyc' = [Closed(cyc.type, cyc.nbackups) EXCEPT !.up = TRUE]
  PROVE  /\ cyc' \in CycRecord
         /\ cyc'.type = cyc.type /\ cyc'.nbackups = cyc.nbackups
         /\ cyc'.file = NULL /\ cyc'.period_start = 0
         /\ cyc' = Closed(cyc.type, cyc.nbackups) => ~cyc'.up
         /\ cyc' = [Closed(cyc.type, cyc.nbackups) EXCEPT !.up = TRUE] => cyc'.up
<1>1. cyc.type \in {"filesize", "periodic"} /\ cyc.nbackups \in Nat
  BY DEF CycRecord
<1>2. CASE cyc' = Closed(cyc.type, cyc.nbackups)
  <2>1. cyc' \in CycRecord
    BY <1>1, <1>2 DEF CycRecord, Closed
  <2>2. cyc'.up = FALSE
    BY <1>2, Zenon DEF Closed
  <2>3. cyc'.type = cyc.type /\ cyc'.nbackups = cyc.nbackups /\ cyc'.file = NULL /\ cyc'.period_start = 0
    BY <1>2 DEF Closed
  <2>4. cyc' # [Closed(cyc.type, cyc.nbackups) EXCEPT !.up = TRUE]
    <3>1. [Closed(cyc.type, cyc.nbackups) EXCEPT !.up = TRUE].up = TRUE
      BY Zenon DEF Closed
    <3> QED
      BY <2>2, <3>1, Zenon
  <2> QED
    BY <2>1, <2>2, <2>3, <2>4, Zenon
<1>3. CASE cyc' = [Closed(cyc.type, cyc.nbackups) EXCEPT !.up = TRUE]
  <2>1. cyc' \in CycRecord
    BY <1>1, <1>3 DEF CycRecord, Closed
  <2>2. cyc'.up = TRUE
    BY <1>3, Zenon DEF Closed
  <2>3. cyc'.type = cyc.type /\ cyc'.nbackups = cyc.nbackups /\ cyc'.file = NULL /\ cyc'.period_start = 0
    BY <1>3 DEF Closed
  <2>4. cyc' # Closed(cyc.type, cyc.nbackups)
    <3>1. Closed(cyc.type, cyc.nbackups).up = FALSE
      BY Zenon DEF Closed
    <3> QED
      BY <2>2, <3>1, Zenon
  <2> QED
    BY <2>1, <2>2, <2>3, <2>4, Zenon
<1> QED
  BY <1>2, <1>3

\* Without an open file there is little to know, and what there is on disk stays.
LEMMA ClosedKeeps ==
  ASSUME IInv, TypeOK', MutexOK', UNCHANGED <<disk, clock>>,
         cyc'.type = cyc.type, cyc'.nbackups = cyc.nbackups, cyc'.file = NULL, cyc'.period_start = 0,
         \A t \in Threads : pc'[t] \notin AtFiles,
         hist'.printed = hist.printed, hist'.renameFailed = hist.renameFailed,
         used'.faults = used.faults,
         \/ ~cyc'.up /\ hist'.since = hist.since /\ used'.starts = used.starts
         \/ cyc'.up /\ ~cyc.up /\ hist'.since = hist.printed /\ used'.starts = used.starts + 1
  PROVE  IInv'
<1>1. FirstIndex' = FirstIndex /\ FileNumbers' = FileNumbers
  BY FileNumbersStay DEF FirstIndex
<1>2. /\ hist.printed \in Nat /\ hist.since \in Nat /\ used.starts \in Nat /\ clock \in Nat
      /\ Period \in Nat
      /\ \A n \in DOMAIN disk : n \in Nat /\ disk[n] \in Seq(Nat)
  BY Naturals DEF IInv, TypeOK
<1>3. KeepsTheNewest'
  BY <1>1, <1>2 DEF IInv, KeepsTheNewest, Older
<1>4. FileOK'
  BY DEF FileOK, AtFiles
<1>5. RotationOK'
  <2> SUFFICES ASSUME cyc.type = "filesize" PROVE RotationOK'
    BY DEF RotationOK
  <2>1. hist'.renameFailed => used'.faults > 0
    BY DEF IInv, RotationOK
  <2>2. used'.starts = 0 => ~cyc'.up /\ DOMAIN disk' = {}
    BY <1>2 DEF IInv, RotationOK
  <2>3. cyc'.up /\ used'.starts <= 1 => DOMAIN disk' = {}
    BY <1>2 DEF IInv, RotationOK
  <2> QED
    BY <2>1, <2>2, <2>3 DEF RotationOK, AtFiles
<1>6. PeriodsOK'
  <2> SUFFICES ASSUME cyc.type = "periodic" PROVE PeriodsOK'
    BY DEF PeriodsOK
  <2>1. \A n \in DOMAIN disk \cup {0} : n <= clock /\ IsStart(n)
    <3>1. IsStart(0)
      BY <1>2 DEF IsStart
    <3> QED
      BY <1>2, <3>1 DEF IInv, PeriodsOK
  <2>2. ASSUME cyc'.up, NEW n \in DOMAIN disk, NEW j \in DOMAIN disk[n] PROVE ~(disk[n][j] > hist'.since)
    <3>1. disk[n][j] \in LinesOf(disk)
      BY InLines
    <3>2. disk[n][j] \in 1..hist.printed
      BY <3>1 DEF IInv, KeepsTheNewest
    <3>3. hist.printed \in Nat /\ hist'.since = hist.printed
      BY <1>2, <2>2, Zenon
    <3>4. PICK x \in Nat : x = disk[n][j] /\ x <= hist.printed
      BY <3>2, <3>3
    <3> QED
      BY <3>3, <3>4
  <2> QED
    BY <2>1, <2>2 DEF PeriodsOK
<1> QED
  BY <1>3, <1>4, <1>5, <1>6 DEF IInv

LEMMA InitKeeps ==
  ASSUME IInv, log_init
  PROVE  IInv'
<1>1. cyc \in CycRecord
  BY DEF IInv, TypeOK, CycRecord
<1>2. /\ cyc' \in CycRecord /\ cyc'.type = cyc.type /\ cyc'.nbackups = cyc.nbackups
      /\ cyc'.file = NULL /\ cyc'.period_start = 0 /\ cyc'.up
  BY <1>1, ClosedFacts, Zenon DEF log_init
<1>3. /\ hist'.printed = hist.printed /\ hist'.renameFailed = hist.renameFailed /\ hist'.since = hist.printed
      /\ hist' \in [printed : Nat, since : Nat, renameFailed : BOOLEAN]
  BY DEF log_init, IInv, TypeOK
<1>4. /\ used'.starts = used.starts + 1 /\ used'.faults = used.faults
      /\ used' \in [calls : Nat, faults : Nat, starts : Nat, cancels : Nat]
  BY DEF log_init, IInv, TypeOK
<1>5. TypeOK'
  <2>1. UNCHANGED <<disk, mutex, lock, pc, local, cancelable, clock>>
    BY DEF log_init
  <2> QED
    BY <1>2, <1>3, <1>4, <2>1 DEF IInv, TypeOK, CycRecord
<1>6. MutexOK'
  BY <1>2 DEF log_init, IInv, MutexOK
<1>7. \A t \in Threads : pc'[t] \notin AtFiles
  BY DEF log_init, IInv, MutexOK, AtFiles
<1> QED
  BY <1>2, <1>3, <1>4, <1>5, <1>6, <1>7, ClosedKeeps DEF log_init

LEMMA DestroyKeeps ==
  ASSUME IInv, log_destroy \/ Crash
  PROVE  IInv'
<1>1. cyc \in CycRecord
  BY DEF IInv, TypeOK, CycRecord
<1>2. cyc' = Closed(cyc.type, cyc.nbackups)
  BY DEF log_destroy, Crash
<1>3. /\ cyc' \in CycRecord /\ cyc'.type = cyc.type /\ cyc'.nbackups = cyc.nbackups
      /\ cyc'.file = NULL /\ cyc'.period_start = 0 /\ ~cyc'.up
  BY <1>1, <1>2, ClosedFacts, Zenon
<1>4. \A t \in Threads : pc'[t] \in {"idle", "gone"}
  BY DEF log_destroy, Crash
<1>5. TypeOK'
  BY <1>3 DEF log_destroy, Crash, NoLocals, IInv, TypeOK, CycRecord, Locations
<1>6. MutexOK'
  <2>1. CASE log_destroy
    BY <1>3, <1>4, <2>1 DEF log_destroy, IInv, MutexOK
  <2>2. CASE Crash
    BY <1>3, <1>4, <2>2, Naturals DEF Crash, MutexOK, InMutex
  <2> QED
    BY <2>1, <2>2
<1>7. UNCHANGED <<disk, clock, hist, used>>
  BY DEF log_destroy, Crash
<1> QED
  BY <1>3, <1>4, <1>5, <1>6, <1>7, ClosedKeeps DEF AtFiles

LEMMA TickKeeps ==
  ASSUME IInv, Tick
  PROVE  IInv'
<1>1. clock \in Nat /\ clock' = clock + 1 /\ clock' \in 0..MaxTime /\ Period \in Nat
  BY Naturals DEF Tick, IInv, TypeOK
<1>2. TypeOK' /\ MutexOK' /\ KeepsTheNewest' /\ RotationOK'
  <2>1. TypeOK'
    BY <1>1 DEF Tick, IInv, TypeOK
  <2>2. MutexOK'
    BY DEF Tick, IInv, MutexOK
  <2>3. KeepsTheNewest'
    BY DEF Tick, IInv, KeepsTheNewest, Older, FileNumbers
  <2>4. RotationOK'
    BY DEF Tick, IInv, RotationOK, FirstIndex
  <2> QED
    BY <2>1, <2>2, <2>3, <2>4
<1>3. /\ cyc.period_start \in Nat /\ (cyc.file # NULL => cyc.file \in Nat) /\ local.now \in Nat
      /\ \A n \in DOMAIN disk : n \in Nat
  BY DEF IInv, TypeOK
<1>4. FileOK'
  BY <1>1, <1>3 DEF Tick, IInv, FileOK, FirstIndex
<1>5. PeriodsOK'
  <2>1. \A n : IsStart(n)' <=> IsStart(n)
    BY DEF IsStart
  <2> QED
    BY <1>1, <1>3, <2>1 DEF Tick, IInv, PeriodsOK
<1> QED
  BY <1>2, <1>4, <1>5 DEF IInv

-----------------------------------------------------------------------------
(* The calls of the thread that holds the mutex *)

LEMMA HolderMoves ==
  ASSUME IInv, NEW t \in Threads, pc[t] \in InMutex, NEW location \in InMutex, Goto(t, location),
         UNCHANGED <<mutex, lock, cancelable>>, cyc'.up = cyc.up
  PROVE  /\ MutexOK'
         /\ pc' \in [Threads -> Locations]
         /\ pc'[t] = location
         /\ \A u \in Threads \ {t} : pc[u] \notin AtFiles /\ pc'[u] \notin AtFiles
         /\ cyc.up
<1>1. pc \in [Threads -> Locations] /\ location \in Locations
  BY DEF IInv, TypeOK, Locations
<1>2. pc' \in [Threads -> Locations] /\ \A u \in Threads : pc'[u] = IF u = t THEN location ELSE pc[u]
  BY <1>1 DEF Goto
<1>3. mutex = t /\ t \notin cancelable /\ cyc.up /\ \A u \in Threads \ {t} : pc[u] \notin InMutex
  BY OneHolder DEF IInv
<1>4. MutexOK'
  BY <1>2, <1>3 DEF IInv, MutexOK
<1> QED
  BY <1>2, <1>3, <1>4 DEF AtFiles, InMutex

\* A failure is counted, and only the faults change.
LEMMA FaultCounted ==
  ASSUME IInv, Fails
  PROVE  /\ used' \in [calls : Nat, faults : Nat, starts : Nat, cancels : Nat]
         /\ used'.faults > 0 /\ used'.starts = used.starts
<1>1. used \in [calls : Nat, faults : Nat, starts : Nat, cancels : Nat]
  BY DEF IInv, TypeOK
<1>2. used' = [used EXCEPT !.faults = @ + 1]
  BY DEF Fails
<1>3. used'.faults = used.faults + 1 /\ used.faults \in Nat /\ used'.starts = used.starts
  BY <1>1, <1>2
<1>4. used' \in [calls : Nat, faults : Nat, starts : Nat, cancels : Nat]
  BY <1>1, <1>2
<1> QED
  BY <1>3, <1>4

LEMMA FileClosed ==
  ASSUME cyc \in CycRecord, cyc' = [cyc EXCEPT !.file = NULL, !.size = 0]
  PROVE  /\ cyc' \in CycRecord /\ cyc'.type = cyc.type /\ cyc'.nbackups = cyc.nbackups /\ cyc'.up = cyc.up
         /\ cyc'.period_start = cyc.period_start /\ cyc'.flock = cyc.flock
         /\ cyc'.file = NULL /\ cyc'.size = 0
BY DEF CycRecord

LEMMA CheckKeeps ==
  ASSUME IInv, NEW t \in Threads, cyc_check_open_file(t)
  PROVE  IInv'
<1>1. PICK location \in {"write", "open", "rotate", "leave"} : Goto(t, location)
  BY DEF cyc_check_open_file
<1>2. /\ location = "write" => ~IsDue
      /\ location = "open" => IsDue /\ cyc.type = "periodic"
      /\ location = "rotate" => IsDue /\ cyc.type = "filesize"
  BY <1>1 DEF cyc_check_open_file, Goto, IInv, TypeOK
<1>3. cyc \in CycRecord
  BY DEF IInv, TypeOK, CycRecord
<1>4. \/ cyc' = cyc
      \/ cyc' = [cyc EXCEPT !.file = NULL, !.size = 0] /\ cyc.type = "filesize" /\ location \notin {"write", "open"}
  BY <1>1 DEF cyc_check_open_file, Goto, IInv, TypeOK
<1>5. /\ cyc' \in CycRecord /\ cyc'.type = cyc.type /\ cyc'.nbackups = cyc.nbackups /\ cyc'.up = cyc.up
      /\ cyc'.period_start = cyc.period_start /\ cyc'.flock = cyc.flock
      /\ cyc'.file \in {cyc.file, NULL} /\ cyc'.size \in {cyc.size, 0}
  <2>1. CASE cyc' = cyc
    BY <1>3, <2>1
  <2>2. CASE cyc' = [cyc EXCEPT !.file = NULL, !.size = 0]
    BY <1>3, <2>2, FileClosed
  <2> QED
    BY <1>4, <2>1, <2>2
<1>6. location \notin {"rotate", "leave"} => cyc' = cyc
  BY <1>4
<1>7. cyc.type = "periodic" => cyc' = cyc
  BY <1>4
<1>8. location = "rotate" => cyc'.file = NULL
  <2>1. location = "rotate" => cyc' = [cyc EXCEPT !.file = NULL, !.size = 0]
    BY <1>1 DEF cyc_check_open_file, Goto, IInv, TypeOK
  <2> QED
    BY <1>3, <2>1, FileClosed
<1>9. /\ MutexOK' /\ pc' \in [Threads -> Locations] /\ pc'[t] = location
      /\ \A u \in Threads \ {t} : pc[u] \notin AtFiles /\ pc'[u] \notin AtFiles
      /\ pc[t] = "check"
  BY <1>1, <1>5, HolderMoves DEF cyc_check_open_file, InMutex
<1>10. /\ used' \in [calls : Nat, faults : Nat, starts : Nat, cancels : Nat] /\ used'.starts = used.starts
       /\ used' = used \/ used'.faults > 0
  BY FaultCounted DEF cyc_check_open_file, IInv, TypeOK
<1>11. clock \in Nat /\ cyc.nbackups \in Nat /\ cyc.period_start \in Nat
  BY Naturals DEF IInv, TypeOK
<1>12. local' \in [i : Int, now : Nat] /\ local'.now = clock /\ (IsDue => local'.i = FirstIndex)
  BY <1>11 DEF cyc_check_open_file, FirstIndex
<1>13. TypeOK'
  BY <1>5, <1>9, <1>10, <1>12 DEF cyc_check_open_file, IInv, TypeOK, CycRecord
<1>14. FirstIndex' = FirstIndex /\ FileNumbers' = FileNumbers /\ UNCHANGED <<disk, clock, hist>>
  BY <1>5, FileNumbersStay DEF FirstIndex, cyc_check_open_file
<1>15. FileOK'
  <2>1. cyc'.file # NULL => /\ cyc'.file \in DOMAIN disk'
                            /\ cyc'.file = IF cyc'.type = "filesize" THEN 0 ELSE cyc'.period_start
    BY <1>5, <1>14 DEF IInv, FileOK
  <2>2. location = "rotate" => /\ cyc'.type = "filesize" /\ cyc'.file = NULL
                               /\ local'.i >= -2 /\ local'.i <= FirstIndex'
                               /\ local'.i < -1 => local'.i = FirstIndex'
    BY <1>2, <1>5, <1>8, <1>11, <1>12, <1>14 DEF FirstIndex
  <2>3. location = "open" => /\ cyc'.type = "periodic" /\ local'.now <= clock'
                             /\ cyc'.file # NULL => ~cyc'.flock /\ clock' - cyc'.period_start > Period
    BY <1>2, <1>6, <1>11, <1>12, <1>14 DEF IsDue, IsOld
  <2>4. location = "write" => /\ cyc'.file # NULL
                              /\ cyc'.flock \/ IF cyc'.type = "filesize"
                                   THEN cyc'.size <= MaxSize
                                   ELSE cyc'.file <= clock' /\ local'.now <= cyc'.file + Period
    <3> SUFFICES ASSUME location = "write" PROVE <2>4!2
      OBVIOUS
    <3>1. cyc' = cyc /\ cyc.file # NULL
      BY <1>2, <1>6 DEF IsDue, IsFull, IsOld
    <3>2. CASE cyc.flock
      BY <3>1, <3>2
    <3>3. CASE ~cyc.flock /\ cyc.type = "filesize"
      <4>1. cyc.size \in Nat /\ MaxSize \in Nat
        BY <1>3, Naturals DEF CycRecord
      <4> QED
        BY <1>2, <3>1, <3>3, <4>1 DEF IsDue, IsFull
    <3>4. CASE ~cyc.flock /\ cyc.type # "filesize"
      <4>1. cyc.type = "periodic" /\ cyc.file = cyc.period_start
        BY <1>3, <3>1, <3>4 DEF CycRecord, IInv, FileOK
      <4>2. cyc.period_start <= clock
        BY <4>1 DEF IInv, PeriodsOK
      <4>3. clock - cyc.period_start <= Period
        BY <1>2, <1>11, <3>4, Naturals DEF IsDue, IsOld
      <4> QED
        BY <1>11, <1>12, <1>14, <3>1, <3>4, <4>1, <4>2, <4>3, Naturals
    <3> QED
      BY <3>2, <3>3, <3>4
  <2> QED
    BY <1>9, <2>1, <2>2, <2>3, <2>4 DEF FileOK, AtFiles
<1>16. RotationOK'
  <2>1. \A u \in Threads : pc[u] # "rotate"
    BY <1>9 DEF AtFiles
  <2>2. \A u \in Threads : pc'[u] = "rotate" => local'.i = FirstIndex'
    BY <1>2, <1>9, <1>12, <1>14 DEF AtFiles
  <2>3. used.faults \in Nat /\ (used'.faults = 0 => used.faults = 0) /\ (used.faults > 0 => used'.faults > 0)
    BY <1>10 DEF IInv, TypeOK
  <2>4. cyc.nbackups \in Nat /\ FirstIndex \in Int
    BY <1>11 DEF FirstIndex
  <2> QED
    BY <1>5, <1>10, <1>14, <2>1, <2>2, <2>3, <2>4 DEF IInv, RotationOK
<1>17. KeepsTheNewest'
  BY <1>5, <1>14 DEF IInv, KeepsTheNewest, Older
<1>18. PeriodsOK'
  <2>1. \A n : IsStart(n)' <=> IsStart(n)
    BY DEF IsStart
  <2> QED
    BY <1>5, <1>7, <1>14, <2>1 DEF IInv, PeriodsOK
<1> QED
  BY <1>9, <1>13, <1>15, <1>16, <1>17, <1>18 DEF IInv

-----------------------------------------------------------------------------
(* Rotation by size *)

\* The loop of cyc_open_filesize: an iteration moves the free number down.
LEMMA RotateKeeps ==
  ASSUME IInv, NEW t \in Threads, Rotate(t)
  PROVE  IInv'
<1>1. /\ pc[t] = "rotate" /\ local.i >= 0 /\ local' = [local EXCEPT !.i = @ - 1]
      /\ UNCHANGED <<cyc, mutex, lock, cancelable, clock>>
  BY DEF Rotate, LoopGoesOn
<1>2. PICK i \in Nat : i = local.i
  BY <1>1 DEF IInv, TypeOK
<1>3. local' \in [i : Int, now : Nat] /\ local'.i = i - 1
  <2>1. local \in [i : Int, now : Nat]
    BY DEF IInv, TypeOK
  <2> QED
    BY <1>1, <1>2, <2>1
<1>4. /\ cyc.type = "filesize" /\ cyc.file = NULL /\ i <= FirstIndex
      /\ cyc.nbackups \in Nat /\ FirstIndex = cyc.nbackups - 2
      /\ FirstIndex' = FirstIndex /\ FileNumbers' = FileNumbers
  BY <1>1, <1>2 DEF IInv, TypeOK, FileOK, FirstIndex, FileNumbers
<1>5. IsFiles(disk) /\ disk = [n \in DOMAIN disk |-> disk[n]] /\ hist.printed \in Nat
  BY DEF IInv, TypeOK, IsFiles
<1>6. PICK location \in {"rotate", "leave"} : Goto(t, location)
  <2>1. pc' = pc => pc' = [pc EXCEPT ![t] = "rotate"]
    BY <1>1 DEF IInv, TypeOK
  <2> QED
    BY <2>1 DEF Rotate, Goto
<1>7. /\ MutexOK' /\ pc' \in [Threads -> Locations] /\ pc'[t] = location
      /\ \A u \in Threads \ {t} : pc[u] \notin AtFiles /\ pc'[u] \notin AtFiles
      /\ cyc.up
  BY <1>1, <1>6, HolderMoves DEF InMutex
<1>8. \/ i \notin DOMAIN disk /\ UNCHANGED <<disk, pc, hist, used>>
      \/ i \in DOMAIN disk /\ disk' = Renamed(i) /\ UNCHANGED <<pc, hist, used>>
      \/ hist' = [hist EXCEPT !.renameFailed = TRUE] /\ Fails /\ UNCHANGED <<disk, pc>>
      \/ location = "leave" /\ Fails /\ UNCHANGED <<disk, hist>>
  <2>1. Goto(t, "leave") => location = "leave"
    BY <1>1, <1>6 DEF Goto, IInv, TypeOK
  <2> QED
    BY <1>2, <2>1 DEF Rotate
<1>9. /\ used' \in [calls : Nat, faults : Nat, starts : Nat, cancels : Nat] /\ used'.starts = used.starts
      /\ used' = used \/ used'.faults > 0
  BY <1>8, FaultCounted DEF IInv, TypeOK
<1>10. /\ hist' \in [printed : Nat, since : Nat, renameFailed : BOOLEAN]
       /\ hist'.printed = hist.printed
       /\ hist' = hist \/ (hist'.renameFailed /\ used'.faults > 0)
  <2>1. hist \in [printed : Nat, since : Nat, renameFailed : BOOLEAN]
    BY DEF IInv, TypeOK
  <2>2. CASE hist' = hist
    BY <2>1, <2>2
  <2>3. CASE hist' = [hist EXCEPT !.renameFailed = TRUE] /\ Fails
    <3>1. hist' \in [printed : Nat, since : Nat, renameFailed : BOOLEAN] /\ hist'.printed = hist.printed
      BY <2>1, <2>3
    <3>2. hist'.renameFailed
      BY <2>1, <2>3
    <3> QED
      BY <2>3, <3>1, <3>2, FaultCounted
  <2> QED
    BY <1>8, <2>2, <2>3
<1>11. ASSUME i \in DOMAIN disk, disk' = Renamed(i), UNCHANGED <<pc, hist, used>>
      PROVE  /\ KeepsTheNewest' /\ RotationOK'
             /\ disk' = [n \in DOMAIN disk' |-> disk'[n]]
             /\ \A n \in DOMAIN disk' : n \in Nat /\ disk'[n] \in Seq(Nat)
  <2>1. /\ DOMAIN disk' = (DOMAIN disk \ {i}) \cup {i + 1}
        /\ \A n \in DOMAIN disk' : disk'[n] = IF n = i + 1 THEN disk[i] ELSE disk[n]
        /\ disk' = [n \in DOMAIN disk' |-> disk'[n]]
    BY <1>11 DEF Renamed
  <2>2. Falling(disk) /\ LinesOf(disk) \subseteq 1..hist.printed /\ (~hist.renameFailed => Gapless(disk, hist.printed))
        /\ DOMAIN disk \subseteq FileNumbers
    BY <1>4, NewestIs DEF IInv, DiskOK
  <2>3. /\ IsFiles(disk')
        /\ Falling(disk')
        /\ LinesOf(disk') \subseteq LinesOf(disk)
        /\ i + 1 \notin DOMAIN disk => LinesOf(disk') = LinesOf(disk)
        /\ (\A n \in DOMAIN disk : n <= i + 1) /\ Gapless(disk, hist.printed) => Gapless(disk', hist.printed)
    BY <1>5, <1>11, <2>1, <2>2, RenamedLines
  <2>4. FileNumbers = 0..(cyc.nbackups - 1)
    BY <1>4 DEF FileNumbers
  <2>5. Gapless(disk, hist.printed) /\ ~hist.renameFailed => Gapless(disk', hist.printed)
    <3>1. CASE i < FirstIndex /\ ~hist.renameFailed
      <4>1. i + 1 \notin DOMAIN disk
        BY <1>1, <1>2, <1>4, <3>1 DEF IInv, RotationOK
      <4> QED
        BY <2>3, <4>1 DEF Gapless
    <3>2. CASE i = FirstIndex
      <4>1. \A n \in DOMAIN disk : n <= i + 1
        <5>1. cyc.nbackups - 1 = i + 1 /\ cyc.nbackups \in Nat
          BY <1>4, <3>2
        <5>2. DOMAIN disk \subseteq 0..(i + 1)
          BY <2>2, <2>4, <5>1
        <5> QED
          BY <5>2
      <4> QED
        BY <2>3, <4>1
    <3> QED
      BY <1>4, <3>1, <3>2
  <2>6. KeepsTheNewest'
    <3>1. DOMAIN disk' \subseteq FileNumbers
      BY <1>4, <2>1, <2>2, <2>4
    <3>2. DiskOK(cyc.type, disk', hist)
      BY <1>4, <2>2, <2>3, <2>5 DEF DiskOK
    <3> QED
      BY <1>1, <1>4, <1>11, <3>1, <3>2, NewestIsNext
  <2>7. RotationOK'
    <3>1. \A u \in Threads : pc'[u] = "rotate" => local'.i + 1 \notin DOMAIN disk'
      BY <1>3, <2>1
    <3>2. ASSUME used.faults = 0, used.starts <= 1, NEW n \in DOMAIN disk', NEW k \in 0..(n - 1)
          PROVE  k \in DOMAIN disk' \/ k = i
      <4>1. \A m \in DOMAIN disk : \A j \in 0..(m - 1) : j \in DOMAIN disk \/ j = i + 1
        BY <1>2, <1>4, <1>7, <3>2 DEF IInv, RotationOK, AtFiles
      <4>2. n \in Nat /\ k \in Nat /\ k < n
        BY <2>3 DEF IsFiles
      <4>3. CASE n = i + 1
        BY <1>11, <2>1, <4>1, <4>2, <4>3
      <4>4. CASE n # i + 1
        BY <2>1, <4>1, <4>2, <4>4
      <4> QED
        BY <4>3, <4>4
    <3>3. used.starts = 0 => ~cyc.up
      BY <1>4 DEF IInv, RotationOK
    <3>4. pc'[t] = "rotate" /\ i = local'.i + 1
      BY <1>1, <1>3, <1>11
    <3> QED
      BY <1>1, <1>4, <1>7, <1>11, <3>1, <3>2, <3>3, <3>4 DEF IInv, RotationOK
  <2> QED
    BY <2>1, <2>3, <2>6, <2>7 DEF IsFiles
<1>12. ASSUME ~(i \in DOMAIN disk /\ disk' = Renamed(i) /\ UNCHANGED <<pc, hist, used>>)
      PROVE  /\ KeepsTheNewest' /\ RotationOK'
             /\ disk' = [n \in DOMAIN disk' |-> disk'[n]]
             /\ \A n \in DOMAIN disk' : n \in Nat /\ disk'[n] \in Seq(Nat)
  <2>1. disk' = disk
    BY <1>8, <1>12
  <2>2. KeepsTheNewest'
    BY <1>1, <1>4, <1>10, <2>1 DEF IInv, KeepsTheNewest, Older
  <2>3. RotationOK'
    <3>1. hist'.renameFailed => used'.faults > 0
      BY <1>4, <1>9, <1>10 DEF IInv, RotationOK
    <3>2. used.starts # 0
      BY <1>4, <1>7 DEF IInv, RotationOK
    <3>3. CASE i \notin DOMAIN disk /\ UNCHANGED <<pc, hist, used>>
      <4>1. \A u \in Threads : pc'[u] = "rotate" => local'.i + 1 \notin DOMAIN disk'
        BY <1>3, <2>1, <3>3
      <4>2. ASSUME used.faults = 0, used.starts <= 1, NEW n \in DOMAIN disk, NEW k \in 0..(n - 1)
            PROVE  k \in DOMAIN disk
        <5>1. \A m \in DOMAIN disk : \A j \in 0..(m - 1) : j \in DOMAIN disk \/ j = i + 1
          BY <1>2, <1>4, <1>7, <4>2 DEF IInv, RotationOK, AtFiles
        <5>2. n \in Nat /\ k \in Nat /\ k < n
          BY <1>5 DEF IsFiles
        <5> QED
          BY <3>3, <5>1, <5>2
      <4> QED
        BY <1>9, <2>1, <3>1, <3>2, <3>3, <4>1, <4>2 DEF RotationOK
    <3>4. CASE ~(i \notin DOMAIN disk /\ UNCHANGED <<pc, hist, used>>)
      <4>1. used'.faults > 0
        BY <1>8, <1>12, <3>4, FaultCounted
      <4>2. \A u \in Threads : pc'[u] = "rotate" => hist'.renameFailed
        <5>1. location = "leave" \/ hist'.renameFailed
          BY <1>8, <1>10, <1>12, <3>4
        <5> QED
          BY <1>7, <5>1 DEF AtFiles
      <4>3. used'.faults # 0
        BY <4>1
      <4> QED
        BY <1>9, <3>1, <3>2, <4>2, <4>3 DEF RotationOK
    <3> QED
      BY <3>3, <3>4
  <2> QED
    BY <1>5, <2>1, <2>2, <2>3 DEF IsFiles
<1>13. /\ KeepsTheNewest' /\ RotationOK'
       /\ disk' = [n \in DOMAIN disk' |-> disk'[n]]
       /\ \A n \in DOMAIN disk' : n \in Nat /\ disk'[n] \in Seq(Nat)
  <2>1. CASE i \in DOMAIN disk /\ disk' = Renamed(i) /\ UNCHANGED <<pc, hist, used>>
    BY <1>11, <2>1
  <2>2. CASE ~(i \in DOMAIN disk /\ disk' = Renamed(i) /\ UNCHANGED <<pc, hist, used>>)
    BY <1>12, <2>2
  <2> QED
    BY <2>1, <2>2
<1>14. TypeOK'
  <2>1. cyc' \in CycRecord
    BY <1>1 DEF IInv, TypeOK, CycRecord
  <2> QED
    BY <1>1, <1>3, <1>7, <1>9, <1>10, <1>13, <2>1 DEF IInv, TypeOK, CycRecord
<1>15. FileOK'
  <2>1. local'.i >= -2 /\ local'.i <= FirstIndex' /\ ~(local'.i < -1)
    BY <1>3, <1>4
  <2> QED
    BY <1>1, <1>4, <1>6, <1>7, <2>1 DEF FileOK, AtFiles
<1>16. PeriodsOK'
  BY <1>1, <1>4 DEF PeriodsOK
<1> QED
  BY <1>7, <1>13, <1>14, <1>15, <1>16 DEF IInv

-----------------------------------------------------------------------------
(* Opening a file *)

\* fopen makes file n empty; the order of the other lines does not change.
LEMMA TruncatedLines ==
  ASSUME NEW d, IsFiles(d), NEW n \in Nat, NEW e,
         DOMAIN e = DOMAIN d \cup {n},
         \A k \in DOMAIN e : e[k] = IF k = n THEN << >> ELSE d[k]
  PROVE  /\ IsFiles(e)
         /\ Falling(d) => Falling(e)
         /\ Rising(d) => Rising(e)
         /\ LinesOf(e) \subseteq LinesOf(d)
         /\ \A k \in DOMAIN d : k # n => \A j \in DOMAIN d[k] : d[k][j] \in LinesOf(e)
         /\ n \notin DOMAIN d => LinesOf(e) = LinesOf(d)
<1>1. IsFiles(e)
  <2>1. << >> \in Seq(Nat)
    OBVIOUS
  <2>2. ASSUME NEW k \in DOMAIN e PROVE k \in Nat /\ e[k] \in Seq(Nat)
    BY <2>1 DEF IsFiles
  <2> QED
    BY <2>2 DEF IsFiles
<1>2. \A k \in DOMAIN e : \A j \in DOMAIN e[k] : k \in DOMAIN d /\ k # n /\ e[k] = d[k]
  <2>1. DOMAIN << >> = {}
    OBVIOUS
  <2> QED
    BY <2>1
<1>3. Falling(d) => Falling(e)
  BY <1>2 DEF Falling
<1>4. Rising(d) => Rising(e)
  BY <1>2 DEF Rising
<1>5. ASSUME NEW x \in LinesOf(e) PROVE x \in LinesOf(d)
  <2>1. PICK k \in DOMAIN e : \E j \in DOMAIN e[k] : e[k][j] = x
    BY InLines
  <2>2. k \in DOMAIN d /\ \E j \in DOMAIN d[k] : d[k][j] = x
    BY <1>2, <2>1
  <2> QED
    BY <2>2, InLines
<1>6. ASSUME NEW k \in DOMAIN d, k # n, NEW j \in DOMAIN d[k] PROVE d[k][j] \in LinesOf(e)
  <2>1. k \in DOMAIN e /\ e[k] = d[k]
    BY <1>6
  <2> QED
    BY <2>1, InLines
<1>7. ASSUME n \notin DOMAIN d, NEW x \in LinesOf(d) PROVE x \in LinesOf(e)
  BY <1>6, <1>7, InLines
<1> QED
  BY <1>1, <1>3, <1>4, <1>5, <1>6, <1>7

\* What fopen does to the state.
LEMMA FopenFacts ==
  ASSUME IInv, NEW t \in Threads, NEW n \in Nat, NEW start \in Nat, Fopen(t, n, start),
         pc[t] \in {"rotate", "open"}, UNCHANGED <<mutex, lock, local, cancelable, clock, hist>>
  PROVE  /\ TypeOK' /\ MutexOK'
         /\ \A u \in Threads : pc'[u] \notin {"rotate", "open"}
         /\ \A u \in Threads : pc'[u] = "write" => cyc'.file # NULL /\ u = t
         /\ cyc'.type = cyc.type /\ cyc'.nbackups = cyc.nbackups /\ cyc'.up = cyc.up /\ cyc.up
         /\ cyc'.flock = cyc.flock /\ cyc'.period_start = start /\ cyc'.size = 0
         /\ used'.starts = used.starts
         /\ \/ /\ DOMAIN disk' = DOMAIN disk \cup {n}
               /\ \A k \in DOMAIN disk' : disk'[k] = IF k = n THEN << >> ELSE disk[k]
               /\ cyc'.file = n /\ used' = used
            \/ UNCHANGED disk /\ cyc'.file = NULL /\ used'.faults > 0
<1>1. /\ cyc \in CycRecord /\ IsFiles(disk) /\ disk = [k \in DOMAIN disk |-> disk[k]]
      /\ used \in [calls : Nat, faults : Nat, starts : Nat, cancels : Nat]
  BY DEF IInv, TypeOK, CycRecord, IsFiles
<1>2. PICK f \in {n, NULL} : cyc' = [cyc EXCEPT !.file = f, !.size = 0, !.period_start = start]
                             /\ Goto(t, IF f = NULL THEN "leave" ELSE "write")
                             /\ IF f = NULL
                                THEN UNCHANGED disk /\ Fails
                                ELSE /\ disk' = [k \in DOMAIN disk \cup {n} |-> IF k = n THEN << >> ELSE disk[k]]
                                     /\ used' = used
  BY Naturals DEF Fopen
<1>3. /\ cyc' \in CycRecord
      /\ cyc'.type = cyc.type /\ cyc'.nbackups = cyc.nbackups /\ cyc'.up = cyc.up
      /\ cyc'.flock = cyc.flock /\ cyc'.period_start = start /\ cyc'.size = 0 /\ cyc'.file = f
  BY <1>1, <1>2 DEF CycRecord
<1>4. PICK location \in {"leave", "write"} : Goto(t, location) /\ (location = "leave" <=> f = NULL)
  BY <1>2
<1>5. /\ MutexOK' /\ pc' \in [Threads -> Locations] /\ pc'[t] = location
      /\ \A u \in Threads \ {t} : pc[u] \notin AtFiles /\ pc'[u] \notin AtFiles
      /\ cyc.up
  BY <1>3, <1>4, HolderMoves DEF InMutex
<1>6. /\ used' \in [calls : Nat, faults : Nat, starts : Nat, cancels : Nat] /\ used'.starts = used.starts
      /\ f = NULL => used'.faults > 0
  BY <1>1, <1>2, FaultCounted
<1>7. IsFiles(disk') /\ disk' = [k \in DOMAIN disk' |-> disk'[k]]
  <2>1. CASE f = NULL
    BY <1>1, <1>2, <2>1
  <2>2. CASE f # NULL
    <3>1. disk' = [k \in DOMAIN disk \cup {n} |-> IF k = n THEN << >> ELSE disk[k]]
      BY <1>2, <2>2
    <3>2. IsFiles(disk')
      BY <1>1, <3>1 DEF IsFiles
    <3> QED
      BY <3>1, <3>2
  <2> QED
    BY <2>1, <2>2
<1>8. TypeOK'
  BY <1>3, <1>5, <1>6, <1>7 DEF IInv, TypeOK, CycRecord, IsFiles
<1>9. \/ /\ DOMAIN disk' = DOMAIN disk \cup {n}
         /\ \A k \in DOMAIN disk' : disk'[k] = IF k = n THEN << >> ELSE disk[k]
         /\ cyc'.file = n /\ used' = used
      \/ UNCHANGED disk /\ cyc'.file = NULL /\ used'.faults > 0
  BY <1>2, <1>3, <1>6
<1> QED
  BY <1>3, <1>4, <1>5, <1>6, <1>8, <1>9 DEF AtFiles

LEMMA OpenFilesizeKeeps ==
  ASSUME IInv, NEW t \in Threads, OpenFilesize(t)
  PROVE  IInv'
<1>1. /\ pc[t] = "rotate" /\ ~(local.i >= 0) /\ Fopen(t, 0, 0)
      /\ UNCHANGED <<mutex, lock, local, cancelable, clock, hist>>
  BY DEF OpenFilesize, LoopGoesOn
<1>2. /\ TypeOK' /\ MutexOK'
      /\ \A u \in Threads : pc'[u] \notin {"rotate", "open"}
      /\ \A u \in Threads : pc'[u] = "write" => cyc'.file # NULL /\ u = t
      /\ cyc'.type = cyc.type /\ cyc'.nbackups = cyc.nbackups /\ cyc'.up = cyc.up /\ cyc.up
      /\ cyc'.flock = cyc.flock /\ cyc'.period_start = 0 /\ cyc'.size = 0
      /\ used'.starts = used.starts
      /\ \/ /\ DOMAIN disk' = DOMAIN disk \cup {0}
            /\ \A k \in DOMAIN disk' : disk'[k] = IF k = 0 THEN << >> ELSE disk[k]
            /\ cyc'.file = 0 /\ used' = used
         \/ UNCHANGED disk /\ cyc'.file = NULL /\ used'.faults > 0
  BY <1>1, FopenFacts
<1>3. /\ cyc.type = "filesize" /\ local.i >= -2 /\ local.i <= FirstIndex /\ (local.i < -1 => local.i = FirstIndex)
      /\ local.i \in Int /\ cyc.nbackups \in Nat /\ FirstIndex = cyc.nbackups - 2
      /\ FirstIndex' = FirstIndex /\ FileNumbers' = FileNumbers
      /\ FileNumbers = 0..(IF cyc.nbackups = 0 THEN 0 ELSE cyc.nbackups - 1)
  BY <1>1, <1>2, FileNumbersStay DEF IInv, TypeOK, FileOK, FirstIndex, FileNumbers
<1>4. /\ Falling(disk) /\ LinesOf(disk) \subseteq 1..hist.printed /\ (~hist.renameFailed => Gapless(disk, hist.printed))
      /\ DOMAIN disk \subseteq FileNumbers /\ IsFiles(disk)
  BY <1>3, NewestIs DEF IInv, TypeOK, DiskOK, IsFiles
<1>5. /\ hist.renameFailed => used'.faults > 0
      /\ used.starts # 0
      /\ used.faults \in Nat
  BY <1>2, <1>3 DEF IInv, TypeOK, RotationOK
<1>6. PeriodsOK'
  BY <1>2, <1>3 DEF PeriodsOK
<1>7. FileOK'
  <2>1. cyc'.file # NULL => cyc'.file \in DOMAIN disk' /\ cyc'.file = 0
    BY <1>2
  <2>2. cyc'.size <= MaxSize
    BY <1>2, Naturals
  <2> QED
    BY <1>2, <1>3, <2>1, <2>2 DEF FileOK
<1>8. KeepsTheNewest' /\ RotationOK'
  <2>1. CASE UNCHANGED disk /\ cyc'.file = NULL /\ used'.faults > 0
    <3>1. KeepsTheNewest'
      BY <1>1, <1>2, <1>3, <2>1 DEF IInv, KeepsTheNewest, Older
    <3>2. used'.faults # 0
      BY <2>1
    <3>3. RotationOK'
      BY <1>1, <1>2, <1>5, <2>1, <3>2 DEF RotationOK
    <3> QED
      BY <3>1, <3>3
  <2>2. CASE /\ DOMAIN disk' = DOMAIN disk \cup {0}
             /\ \A k \in DOMAIN disk' : disk'[k] = IF k = 0 THEN << >> ELSE disk[k]
             /\ cyc'.file = 0 /\ used' = used
    <3>1. /\ Falling(disk')
          /\ LinesOf(disk') \subseteq LinesOf(disk)
          /\ 0 \notin DOMAIN disk => LinesOf(disk') = LinesOf(disk)
      BY <1>4, <2>2, TruncatedLines
    <3>2. ~hist.renameFailed => Gapless(disk', hist.printed)
      <4>1. CASE local.i < FirstIndex /\ ~hist.renameFailed
        <5>1. local.i = -1
          <6>1. local.i \in Int /\ ~(local.i >= 0) /\ ~(local.i < -1)
            BY <1>1, <1>3, <4>1
          <6> QED
            BY <6>1
        <5>2. local.i + 1 \notin DOMAIN disk
          BY <1>1, <1>3, <4>1 DEF IInv, RotationOK
        <5>3. 0 \notin DOMAIN disk
          BY <5>1, <5>2
        <5> QED
          BY <1>4, <3>1, <4>1, <5>3 DEF Gapless
      <4>2. CASE local.i = FirstIndex
        <5>1. FileNumbers = {0}
          BY <1>1, <1>3, <4>2
        <5>2. LinesOf(disk') = {}
          <6> SUFFICES ASSUME NEW x \in LinesOf(disk') PROVE FALSE
            OBVIOUS
          <6>1. PICK n \in DOMAIN disk' : \E j \in DOMAIN disk'[n] : disk'[n][j] = x
            BY InLines
          <6>2. disk'[n] = << >>
            BY <1>4, <2>2, <5>1
          <6> QED
            BY <6>1, <6>2
        <5> QED
          BY <5>2 DEF Gapless
      <4> QED
        BY <1>3, <4>1, <4>2
    <3>3. KeepsTheNewest'
      <4>1. DOMAIN disk' \subseteq FileNumbers
        BY <1>3, <1>4, <2>2
      <4>2. DiskOK(cyc.type, disk', hist)
        BY <1>3, <1>4, <3>1, <3>2 DEF DiskOK
      <4> QED
        BY <1>1, <1>2, <1>3, <4>1, <4>2, NewestIsNext
    <3>4. RotationOK'
      <4>1. ASSUME used.faults = 0, used.starts <= 1, NEW n \in DOMAIN disk', NEW k \in 0..(n - 1)
            PROVE  k \in DOMAIN disk'
        <5>1. \A m \in DOMAIN disk : \A j \in 0..(m - 1) :
                j \in DOMAIN disk \/ \E u \in Threads : pc[u] = "rotate" /\ j = local.i + 1
          BY <1>2, <1>3, <4>1 DEF IInv, RotationOK
        <5>2. n \in Nat /\ k \in Nat /\ k < n /\ n \in DOMAIN disk
          BY <1>4, <2>2 DEF IsFiles
        <5>3. k \in DOMAIN disk \/ k = local.i + 1
          BY <5>1, <5>2
        <5>4. k = local.i + 1 => k = 0
          BY <1>1, <1>3, <5>2
        <5> QED
          BY <2>2, <5>3, <5>4
      <4> QED
        BY <1>1, <1>2, <1>5, <2>2, <4>1 DEF RotationOK
    <3> QED
      BY <3>3, <3>4
  <2> QED
    BY <1>2, <2>1, <2>2
<1> QED
  BY <1>2, <1>6, <1>7, <1>8 DEF IInv

\* The arithmetic of cyc_open_periodic: the period that has begun last.
LEMMA LastStart ==
  ASSUME NEW c \in Nat
  PROVE  /\ (c \div Period) * Period \in Nat
         /\ (c \div Period) * Period <= c
         /\ c < (c \div Period) * Period + Period
         /\ IsStart((c \div Period) * Period)
         /\ \A n \in Nat : n <= c /\ IsStart(n) => n <= (c \div Period) * Period
<1>1. PICK p \in Nat : p = Period /\ p > 0
  BY Naturals
<1>2. PICK q \in Nat : q = c \div p
  BY <1>1
<1>3. c = p * q + (c % p) /\ c % p \in 0..(p - 1)
  BY <1>1, <1>2
<1>4. PICK s \in Nat : s = q * p
  BY <1>1
<1>5. s <= c /\ c < s + p
  BY <1>1, <1>3, <1>4
<1>6. q <= s
  BY <1>1, <1>4
<1>7. IsStart(s)
  BY <1>1, <1>4, <1>6 DEF IsStart
<1>8. ASSUME NEW n \in Nat, n <= c, IsStart(n) PROVE n <= s
  <2>1. PICK k \in Nat : n = k * p
    BY <1>1, <1>8 DEF IsStart
  <2>2. CASE k <= q
    <3>1. PICK m \in Nat : q = k + m
      BY <2>2
    <3>2. s = k * p + m * p /\ m * p >= 0
      BY <1>1, <1>4, <3>1
    <3> QED
      BY <2>1, <3>2
  <2>3. CASE k >= q + 1
    <3>1. PICK m \in Nat : k = q + 1 + m
      BY <2>3
    <3>2. n = q * p + p + m * p /\ m * p >= 0
      BY <1>1, <2>1, <3>1
    <3>3. n >= s + p
      BY <1>1, <1>4, <3>2
    <3> QED
      BY <1>1, <1>5, <1>8, <3>3
  <2> QED
    BY <2>2, <2>3
<1>9. s = (c \div Period) * Period
  BY <1>1, <1>2, <1>4
<1> QED
  BY <1>1, <1>5, <1>7, <1>8, <1>9

LEMMA OpenPeriodicKeeps ==
  ASSUME IInv, NEW t \in Threads, cyc_open_periodic(t)
  PROVE  IInv'
<1>1. /\ pc[t] = "open" /\ clock \in Nat
      /\ UNCHANGED <<mutex, lock, local, cancelable, clock, hist>>
  BY Naturals DEF cyc_open_periodic, IInv, TypeOK
<1>2. PICK start \in Nat : /\ Fopen(t, start, start) /\ start <= clock /\ clock < start + Period /\ IsStart(start)
                           /\ \A n \in Nat : n <= clock /\ IsStart(n) => n <= start
  BY <1>1, LastStart DEF cyc_open_periodic
<1>3. /\ TypeOK' /\ MutexOK'
      /\ \A u \in Threads : pc'[u] \notin {"rotate", "open"}
      /\ \A u \in Threads : pc'[u] = "write" => cyc'.file # NULL /\ u = t
      /\ cyc'.type = cyc.type /\ cyc'.nbackups = cyc.nbackups /\ cyc'.up = cyc.up /\ cyc.up
      /\ cyc'.flock = cyc.flock /\ cyc'.period_start = start /\ cyc'.size = 0
      /\ used'.starts = used.starts
      /\ \/ /\ DOMAIN disk' = DOMAIN disk \cup {start}
            /\ \A k \in DOMAIN disk' : disk'[k] = IF k = start THEN << >> ELSE disk[k]
            /\ cyc'.file = start /\ used' = used
         \/ UNCHANGED disk /\ cyc'.file = NULL /\ used'.faults > 0
  BY <1>1, <1>2, FopenFacts
<1>4. /\ cyc.type = "periodic" /\ local.now <= clock /\ local.now \in Nat /\ cyc.period_start \in Nat
      /\ Period \in Nat /\ Period > 0
      /\ cyc.file # NULL => clock - cyc.period_start > Period /\ cyc.file = cyc.period_start
  BY <1>1, Naturals DEF IInv, TypeOK, FileOK
<1>5. /\ Rising(disk) /\ LinesOf(disk) \subseteq 1..hist.printed
      /\ (hist.since + 1)..hist.printed \subseteq LinesOf(disk)
      /\ DOMAIN disk \subseteq FileNumbers /\ IsFiles(disk)
      /\ hist.since \in Nat /\ hist.printed \in Nat
  BY <1>4, NewestIs DEF IInv, TypeOK, DiskOK, IsFiles
<1>6. FileNumbers' = FileNumbers /\ FileNumbers = 0..MaxTime /\ clock \in 0..MaxTime /\ MaxTime \in Nat
  BY <1>3, <1>4, Naturals, FileNumbersStay DEF FileNumbers, IInv, TypeOK
<1>7. /\ \A n \in DOMAIN disk : n <= clock /\ IsStart(n) /\ n \in Nat
      /\ cyc.period_start <= clock /\ IsStart(cyc.period_start)
  BY <1>4, <1>5 DEF IInv, PeriodsOK, IsFiles
<1>8. (\A n \in DOMAIN disk : n <= start) /\ cyc.period_start <= start
  BY <1>2, <1>4, <1>7
<1>9. cyc.file # NULL => cyc.period_start < start
  BY <1>1, <1>2, <1>4
<1>10. ASSUME NEW n \in DOMAIN disk, NEW j \in DOMAIN disk[n], disk[n][j] > hist.since PROVE n < start
  <2>1. n <= cyc.period_start /\ (cyc.file = NULL => n < cyc.period_start)
    BY <1>3, <1>4, <1>10 DEF IInv, PeriodsOK
  <2> QED
    BY <1>4, <1>7, <1>8, <1>9, <2>1
<1>11. RotationOK'
  BY <1>3, <1>4 DEF RotationOK
<1>12. FileOK'
  <2>1. cyc'.file # NULL => cyc'.file \in DOMAIN disk' /\ cyc'.file = cyc'.period_start /\ cyc'.file = start
    BY <1>3, Naturals
  <2>2. start <= clock' /\ local'.now <= start + Period
    BY <1>1, <1>2, <1>4
  <2> QED
    BY <1>3, <1>4, <2>1, <2>2 DEF FileOK
<1>13. \A n : IsStart(n)' <=> IsStart(n)
  BY DEF IsStart
<1>14. CASE UNCHANGED disk /\ cyc'.file = NULL /\ used'.faults > 0
  <2>1. KeepsTheNewest'
    BY <1>1, <1>3, <1>4, <1>6, <1>14 DEF IInv, KeepsTheNewest, Older
  <2>2. PeriodsOK'
    <3>1. \A n \in DOMAIN disk' \cup {cyc'.period_start} : n <= clock' /\ IsStart(n)'
      BY <1>1, <1>2, <1>3, <1>7, <1>13, <1>14
    <3>2. \A n \in DOMAIN disk' : \A j \in DOMAIN disk'[n] :
            disk'[n][j] > hist'.since => n <= start /\ n < start
      BY <1>1, <1>8, <1>10, <1>14
    <3> QED
      BY <1>3, <1>14, <3>1, <3>2 DEF PeriodsOK
  <2> QED
    BY <1>3, <1>11, <1>12, <2>1, <2>2 DEF IInv
<1>15. CASE /\ DOMAIN disk' = DOMAIN disk \cup {start}
            /\ \A k \in DOMAIN disk' : disk'[k] = IF k = start THEN << >> ELSE disk[k]
            /\ cyc'.file = start /\ used' = used
  <2>1. /\ Rising(disk')
        /\ LinesOf(disk') \subseteq LinesOf(disk)
        /\ \A k \in DOMAIN disk : k # start => \A j \in DOMAIN disk[k] : disk[k][j] \in LinesOf(disk')
    <3>1. IsFiles(disk) /\ Rising(disk)
      BY <1>5
    <3>2. /\ DOMAIN disk' = DOMAIN disk \cup {start}
          /\ \A k \in DOMAIN disk' : disk'[k] = IF k = start THEN << >> ELSE disk[k]
      BY <1>15
    <3> QED
      BY <3>1, <3>2, TruncatedLines, Zenon
  <2>2. (hist.since + 1)..hist.printed \subseteq LinesOf(disk')
    <3> SUFFICES ASSUME NEW x \in (hist.since + 1)..hist.printed PROVE x \in LinesOf(disk')
      OBVIOUS
    <3>1. PICK n \in DOMAIN disk : \E j \in DOMAIN disk[n] : disk[n][j] = x
      BY <1>5, InLines
    <3>2. PICK j \in DOMAIN disk[n] : disk[n][j] = x
      BY <3>1
    <3>3. n < start
      BY <1>5, <1>10, <3>2
    <3>4. n # start
      BY <1>7, <3>3
    <3> QED
      BY <2>1, <3>2, <3>4
  <2>3. KeepsTheNewest'
    <3>1. DOMAIN disk' \subseteq FileNumbers
      BY <1>2, <1>5, <1>6, <1>15
    <3>2. DiskOK(cyc.type, disk', hist)
      BY <1>4, <1>5, <2>1, <2>2 DEF DiskOK
    <3> QED
      BY <1>1, <1>3, <1>6, <3>1, <3>2, NewestIsNext
  <2>4. PeriodsOK'
    <3>1. \A n \in DOMAIN disk' \cup {cyc'.period_start} : n <= clock' /\ IsStart(n)'
      BY <1>1, <1>2, <1>3, <1>7, <1>13, <1>15
    <3>2. \A n \in DOMAIN disk' : n <= start
      BY <1>8, <1>15
    <3> QED
      BY <1>3, <1>15, <3>1, <3>2, Naturals DEF PeriodsOK
  <2> QED
    BY <1>3, <1>11, <1>12, <2>3, <2>4 DEF IInv
<1> QED
  BY <1>3, <1>14, <1>15

-----------------------------------------------------------------------------
(* Printing a line *)

\* The line after all others is appended to the newest file.
LEMMA AppendedLines ==
  ASSUME NEW d, IsFiles(d), NEW f \in DOMAIN d, NEW x \in Nat, NEW e,
         DOMAIN e = DOMAIN d,
         \A k \in DOMAIN e : e[k] = IF k = f THEN Append(d[k], x) ELSE d[k],
         \A y \in LinesOf(d) : y < x
  PROVE  /\ IsFiles(e)
         /\ Falling(d) /\ (\A n \in DOMAIN d : f <= n) => Falling(e)
         /\ Rising(d) /\ (\A n \in DOMAIN d : n <= f) => Rising(e)
         /\ LinesOf(e) = LinesOf(d) \cup {x}
<1>1. f \in Nat /\ d[f] \in Seq(Nat) /\ Len(d[f]) \in Nat /\ DOMAIN d[f] = 1..Len(d[f])
  BY DEF IsFiles
<1>2. /\ Append(d[f], x) \in Seq(Nat)
      /\ DOMAIN Append(d[f], x) = 1..(Len(d[f]) + 1)
      /\ \A j \in 1..Len(d[f]) : Append(d[f], x)[j] = d[f][j]
      /\ Append(d[f], x)[Len(d[f]) + 1] = x
  BY <1>1
<1>3. IsFiles(e)
  BY <1>2 DEF IsFiles
<1>4. ASSUME NEW k \in DOMAIN e, NEW j \in DOMAIN e[k]
      PROVE  \/ k \in DOMAIN d /\ j \in DOMAIN d[k] /\ e[k][j] = d[k][j]
             \/ k = f /\ j = Len(d[f]) + 1 /\ e[k][j] = x
  <2>1. CASE k = f
    <3>1. e[k] = Append(d[f], x) /\ j \in 1..(Len(d[f]) + 1)
      BY <1>2, <2>1
    <3>2. CASE j \in 1..Len(d[f])
      BY <1>1, <1>2, <2>1, <3>1, <3>2
    <3>3. CASE j = Len(d[f]) + 1
      BY <1>2, <2>1, <3>1, <3>3
    <3> QED
      BY <1>1, <3>1, <3>2, <3>3
  <2>2. CASE k # f
    BY <2>2
  <2> QED
    BY <2>1, <2>2
<1>5. \A k \in DOMAIN d : \A j \in DOMAIN d[k] : d[k][j] < x
  BY InLines
<1>6. \A k \in DOMAIN d : k \in Nat
  BY DEF IsFiles
<1>7. ASSUME Falling(d), \A n \in DOMAIN d : f <= n PROVE Falling(e)
  <2> SUFFICES ASSUME NEW m \in DOMAIN e, NEW n \in DOMAIN e, NEW a \in DOMAIN e[m], NEW b \in DOMAIN e[n],
                      m > n \/ (m = n /\ a < b)
               PROVE  e[m][a] < e[n][b]
    BY DEF Falling
  <2>1. a \in DOMAIN d[m] /\ e[m][a] = d[m][a]
    <3> SUFFICES ASSUME m = f, a = Len(d[f]) + 1 PROVE FALSE
      BY <1>4
    <3>1. n = f
      BY <1>1, <1>6, <1>7
    <3>2. b \in 1..(Len(d[f]) + 1)
      BY <1>1, <1>2, <3>1
    <3> QED
      BY <1>1, <3>1, <3>2
  <2>2. CASE b \in DOMAIN d[n] /\ e[n][b] = d[n][b]
    BY <1>7, <2>1, <2>2 DEF Falling
  <2>3. CASE e[n][b] = x
    BY <1>5, <2>1, <2>3
  <2> QED
    BY <1>4, <2>2, <2>3
<1>8. ASSUME Rising(d), \A n \in DOMAIN d : n <= f PROVE Rising(e)
  <2> SUFFICES ASSUME NEW m \in DOMAIN e, NEW n \in DOMAIN e, NEW a \in DOMAIN e[m], NEW b \in DOMAIN e[n],
                      m < n \/ (m = n /\ a < b)
               PROVE  e[m][a] < e[n][b]
    BY DEF Rising
  <2>1. a \in DOMAIN d[m] /\ e[m][a] = d[m][a]
    <3> SUFFICES ASSUME m = f, a = Len(d[f]) + 1 PROVE FALSE
      BY <1>4
    <3>1. n = f
      BY <1>1, <1>6, <1>8
    <3>2. b \in 1..(Len(d[f]) + 1)
      BY <1>1, <1>2, <3>1
    <3> QED
      BY <1>1, <3>1, <3>2
  <2>2. CASE b \in DOMAIN d[n] /\ e[n][b] = d[n][b]
    BY <1>8, <2>1, <2>2 DEF Rising
  <2>3. CASE e[n][b] = x
    BY <1>5, <2>1, <2>3
  <2> QED
    BY <1>4, <2>2, <2>3
<1>9. ASSUME NEW y \in LinesOf(e) PROVE y \in LinesOf(d) \cup {x}
  <2>1. PICK k \in DOMAIN e : \E j \in DOMAIN e[k] : e[k][j] = y
    BY InLines
  <2>2. PICK j \in DOMAIN e[k] : e[k][j] = y
    BY <2>1
  <2>3. CASE k \in DOMAIN d /\ j \in DOMAIN d[k] /\ e[k][j] = d[k][j]
    BY <2>2, <2>3, InLines
  <2>4. CASE e[k][j] = x
    BY <2>2, <2>4
  <2> QED
    BY <1>4, <2>3, <2>4
<1>10. ASSUME NEW k \in DOMAIN d, NEW j \in DOMAIN d[k] PROVE j \in DOMAIN e[k] /\ e[k][j] = d[k][j]
  BY <1>1, <1>2
<1>11. ASSUME NEW y \in LinesOf(d) PROVE y \in LinesOf(e)
  <2>1. PICK k \in DOMAIN d : \E j \in DOMAIN d[k] : d[k][j] = y
    BY InLines
  <2>2. k \in DOMAIN e /\ \E j \in DOMAIN e[k] : e[k][j] = y
    BY <1>10, <2>1
  <2> QED
    BY <2>2, InLines
<1>12. x \in LinesOf(e)
  <2>1. f \in DOMAIN e /\ Len(d[f]) + 1 \in DOMAIN e[f] /\ e[f][Len(d[f]) + 1] = x
    BY <1>1, <1>2
  <2> QED
    BY <2>1, InLines
<1> QED
  BY <1>3, <1>7, <1>8, <1>9, <1>11, <1>12

LEMMA FputsKeeps ==
  ASSUME IInv, NEW t \in Threads, Fputs(t)
  PROVE  IInv'
<1>1. /\ pc[t] = "write" /\ Goto(t, "leave")
      /\ UNCHANGED <<mutex, lock, local, cancelable, clock>>
  BY DEF Fputs
<1>2. /\ cyc \in CycRecord /\ IsFiles(disk) /\ disk = [k \in DOMAIN disk |-> disk[k]]
      /\ hist \in [printed : Nat, since : Nat, renameFailed : BOOLEAN]
      /\ used \in [calls : Nat, faults : Nat, starts : Nat, cancels : Nat]
      /\ hist.printed \in Nat /\ hist.since \in Nat
  BY DEF IInv, TypeOK, CycRecord, IsFiles
<1>3. PICK f \in Nat : f = cyc.file /\ f \in DOMAIN disk
  BY <1>1, <1>2 DEF IInv, FileOK, IsFiles
<1>4. f # NULL
  BY Naturals
<1>5. \/ /\ disk' = [disk EXCEPT ![f] = Append(@, hist.printed + 1)]
         /\ hist' = [hist EXCEPT !.printed = @ + 1]
         /\ \E s \in Nat : cyc' = [cyc EXCEPT !.size = s]
         /\ used' = used
      \/ Fails /\ UNCHANGED <<cyc, disk, hist>>
  <2>1. ASSUME NEW bytes \in 1..MaxBytes, NEW size \in Nat
        PROVE  (IF size + bytes > MaxSize THEN MaxSize + 1 ELSE size + bytes) \in Nat
    BY Naturals
  <2>2. cyc.size \in Nat
    BY <1>2 DEF CycRecord
  <2> QED
    BY <1>3, <2>1, <2>2 DEF Fputs
<1>6. /\ cyc' \in CycRecord /\ cyc'.type = cyc.type /\ cyc'.nbackups = cyc.nbackups /\ cyc'.up = cyc.up
      /\ cyc'.file = cyc.file /\ cyc'.flock = cyc.flock /\ cyc'.period_start = cyc.period_start
  <2>1. CASE cyc' = cyc
    BY <1>2, <2>1
  <2>2. CASE \E s \in Nat : cyc' = [cyc EXCEPT !.size = s]
    BY <1>2, <2>2 DEF CycRecord
  <2> QED
    BY <1>5, <2>1, <2>2
<1>7. /\ MutexOK' /\ pc' \in [Threads -> Locations] /\ pc'[t] = "leave"
      /\ \A u \in Threads \ {t} : pc[u] \notin AtFiles /\ pc'[u] \notin AtFiles
      /\ cyc.up
  BY <1>1, <1>6, HolderMoves DEF InMutex
<1>8. \A u \in Threads : pc'[u] \notin AtFiles /\ pc[u] # "rotate"
  BY <1>1, <1>7 DEF AtFiles
<1>9. /\ used' \in [calls : Nat, faults : Nat, starts : Nat, cancels : Nat] /\ used'.starts = used.starts
      /\ used' = used \/ used'.faults > 0
  BY <1>2, <1>5, FaultCounted
<1>10. /\ hist' \in [printed : Nat, since : Nat, renameFailed : BOOLEAN]
       /\ hist'.since = hist.since /\ hist'.renameFailed = hist.renameFailed
       /\ hist' = hist \/ hist'.printed = hist.printed + 1
  <2>1. CASE hist' = hist
    BY <1>2, <2>1
  <2>2. CASE hist' = [hist EXCEPT !.printed = @ + 1]
    BY <1>2, <2>2
  <2> QED
    BY <1>5, <2>1, <2>2
<1>11. DOMAIN disk' = DOMAIN disk
  BY <1>5
<1>12. FileNumbers' = FileNumbers /\ FirstIndex' = FirstIndex
  BY <1>6, FileNumbersStay DEF FirstIndex
<1>13. FileOK'
  BY <1>6, <1>8, <1>11 DEF IInv, FileOK, AtFiles
<1>14. RotationOK'
  <2>1. used.faults \in Nat /\ (used'.faults = 0 => used.faults = 0) /\ (used.faults > 0 => used'.faults > 0)
    BY <1>2, <1>9
  <2> QED
    BY <1>6, <1>8, <1>9, <1>10, <1>11, <2>1 DEF IInv, RotationOK, AtFiles
<1>15. /\ DOMAIN disk \subseteq FileNumbers /\ DiskOK(cyc.type, disk, hist)
  BY NewestIs DEF IInv
<1>16. \A y \in LinesOf(disk) : y \in 1..hist.printed /\ y < hist.printed + 1
  BY <1>2, <1>15 DEF DiskOK
<1>17. (cyc.type = "filesize" => \A n \in DOMAIN disk : f <= n) /\ (cyc.type = "periodic" => \A n \in DOMAIN disk : n <= f)
  <2>1. cyc.type = "filesize" => f = 0
    BY <1>3, <1>4 DEF IInv, FileOK
  <2>2. cyc.type = "periodic" => \A n \in DOMAIN disk : n <= f
    BY <1>3, <1>4 DEF IInv, PeriodsOK
  <2> QED
    BY <1>2, <2>1, <2>2 DEF IsFiles
<1>18. CASE UNCHANGED <<cyc, disk, hist>>
  <2>1. KeepsTheNewest'
    BY <1>12, <1>18 DEF IInv, KeepsTheNewest, Older
  <2>2. PeriodsOK'
    <3>1. \A n : IsStart(n)' <=> IsStart(n)
      BY DEF IsStart
    <3> QED
      BY <1>1, <1>18, <3>1 DEF IInv, PeriodsOK
  <2>3. TypeOK'
    BY <1>1, <1>7, <1>9, <1>18 DEF IInv, TypeOK
  <2> QED
    BY <1>7, <1>13, <1>14, <2>1, <2>2, <2>3 DEF IInv
<1>19. CASE /\ disk' = [disk EXCEPT ![f] = Append(@, hist.printed + 1)]
            /\ hist' = [hist EXCEPT !.printed = @ + 1]
  <2>0. PICK x \in Nat : x = hist.printed + 1
    BY <1>2
  <2>1. /\ DOMAIN disk' = DOMAIN disk
        /\ \A k \in DOMAIN disk' : disk'[k] = IF k = f THEN Append(disk[k], x) ELSE disk[k]
        /\ disk' = [k \in DOMAIN disk' |-> disk'[k]]
    BY <1>3, <1>19, <2>0
  <2>2. /\ IsFiles(disk')
        /\ Falling(disk) /\ (\A n \in DOMAIN disk : f <= n) => Falling(disk')
        /\ Rising(disk) /\ (\A n \in DOMAIN disk : n <= f) => Rising(disk')
        /\ LinesOf(disk') = LinesOf(disk) \cup {x}
    <3>1. IsFiles(disk) /\ f \in DOMAIN disk /\ \A y \in LinesOf(disk) : y < x
      BY <1>2, <1>3, <1>16, <2>0
    <3>2. /\ DOMAIN disk' = DOMAIN disk
          /\ \A k \in DOMAIN disk' : disk'[k] = IF k = f THEN Append(disk[k], x) ELSE disk[k]
      BY <2>1
    <3> QED
      BY <3>1, <3>2, AppendedLines
  <2>3. hist'.printed = x
    BY <1>2, <1>19, <2>0
  <2>4. KeepsTheNewest'
    <3>1. cyc.type \in {"filesize", "periodic"}
      BY <1>2 DEF CycRecord
    <3>2. IF cyc.type = "filesize" THEN Falling(disk') ELSE Rising(disk')
      BY <1>15, <1>17, <2>2, <3>1 DEF DiskOK
    <3>3. LinesOf(disk') \subseteq 1..x
      BY <1>2, <1>16, <2>0, <2>2
    <3>4. cyc.type = "filesize" /\ ~hist.renameFailed => Gapless(disk', x)
      <4> SUFFICES ASSUME Gapless(disk, hist.printed), NEW a \in LinesOf(disk'), NEW b \in a..x
                   PROVE  b \in LinesOf(disk')
        BY <1>15 DEF DiskOK, Gapless
      <4>1. CASE b = x
        BY <2>2, <4>1
      <4>2. CASE b # x
        <5>1. a \in LinesOf(disk) /\ a \in Nat
          BY <1>16, <2>0, <2>2, <4>2
        <5>2. b \in a..hist.printed
          BY <1>2, <2>0, <4>2, <5>1
        <5> QED
          BY <2>2, <5>1, <5>2 DEF Gapless
      <4> QED
        BY <4>1, <4>2
    <3>5. cyc.type = "periodic" => (hist.since + 1)..x \subseteq LinesOf(disk')
      BY <1>2, <1>15, <2>0, <2>2 DEF DiskOK
    <3>6. DiskOK(cyc'.type, disk', hist')
      BY <1>6, <1>10, <2>3, <3>2, <3>3, <3>4, <3>5 DEF DiskOK
    <3>7. DOMAIN disk' \subseteq FileNumbers'
      BY <1>11, <1>12, <1>15
    <3> QED
      BY <3>6, <3>7, NewestIsNext
  <2>5. PeriodsOK'
    <3> SUFFICES ASSUME cyc.type = "periodic" PROVE PeriodsOK'
      BY <1>6 DEF PeriodsOK
    <3>1. \A n : IsStart(n)' <=> IsStart(n)
      BY DEF IsStart
    <3>2. \A n \in DOMAIN disk' \cup {cyc'.period_start} : n <= clock' /\ IsStart(n)'
      BY <1>1, <1>6, <1>11, <3>1 DEF IInv, PeriodsOK
    <3>3. ASSUME NEW n \in DOMAIN disk', NEW j \in DOMAIN disk'[n], disk'[n][j] > hist'.since
          PROVE  n <= cyc'.period_start
      <4>1. f = cyc.period_start
        BY <1>3, <1>4 DEF IInv, FileOK
      <4> QED
        BY <1>6, <1>11, <1>17, <4>1
    <3> QED
      BY <1>3, <1>4, <1>6, <1>11, <1>17, <3>2, <3>3 DEF PeriodsOK
  <2>6. TypeOK'
    BY <1>1, <1>6, <1>7, <1>9, <1>10, <2>1, <2>2 DEF IInv, TypeOK, CycRecord, IsFiles
  <2> QED
    BY <1>7, <1>13, <1>14, <2>4, <2>5, <2>6 DEF IInv
<1> QED
  BY <1>5, <1>18, <1>19

-----------------------------------------------------------------------------
(* The theorems *)

LEMMA InitInv == Init => IInv
<1> SUFFICES ASSUME Init PROVE IInv
  OBVIOUS
<1>1. PICK type \in {"filesize", "periodic"} : \E n \in Nat : cyc = Closed(type, n)
  BY Naturals DEF Init
<1>2. PICK n \in Nat : cyc = Closed(type, n)
  BY <1>1
<1>3. cyc = [type |-> type, nbackups |-> n, up |-> FALSE, file |-> NULL, size |-> 0,
             period_start |-> 0, flock |-> FALSE]
  BY <1>2 DEF Closed
<1>4. cyc \in CycRecord
  BY <1>3 DEF CycRecord
<1>5. cyc.file = NULL /\ cyc.period_start = 0 /\ cyc.type = type /\ ~cyc.up
  BY <1>3
<1>6. DOMAIN disk = {} /\ disk = [k \in DOMAIN disk |-> disk[k]]
  BY DEF Init
<1>7. /\ hist \in [printed : Nat, since : Nat, renameFailed : BOOLEAN] /\ ~hist.renameFailed
      /\ hist.printed = 0 /\ hist.since = 0
  BY DEF Init
<1>8. clock = 0 /\ clock \in 0..MaxTime
  BY Naturals DEF Init
<1>9. TypeOK
  <2>1. pc \in [Threads -> Locations] /\ local \in [i : Int, now : Nat]
    BY DEF Init, NoLocals, Locations
  <2>2. used \in [calls : Nat, faults : Nat, starts : Nat, cancels : Nat]
    BY DEF Init
  <2> QED
    BY <1>4, <1>6, <1>7, <1>8, <2>1, <2>2 DEF Init, TypeOK, CycRecord
<1>10. \A t \in Threads : pc[t] = "idle"
  BY DEF Init
<1>11. MutexOK
  BY <1>10, Naturals DEF Init, MutexOK, InMutex
<1>12. FileOK
  BY <1>5, <1>10 DEF FileOK
<1>13. RotationOK
  BY <1>5, <1>6, <1>7 DEF RotationOK
<1>14. PeriodsOK
  <2>1. IsStart(0)
    BY Naturals DEF IsStart
  <2> QED
    BY <1>5, <1>6, <1>8, <2>1 DEF PeriodsOK
<1>15. KeepsTheNewest
  <2>1. LinesOf(disk) = {}
    BY <1>6, InLines
  <2> QED
    BY <1>6, <1>7, <2>1 DEF KeepsTheNewest
<1> QED
  BY <1>9, <1>11, <1>12, <1>13, <1>14, <1>15 DEF IInv

LEMMA NextInv == IInv /\ [Next]_vars => IInv'
<1> SUFFICES ASSUME IInv, [Next]_vars PROVE IInv'
  OBVIOUS
<1>1. CASE log_init
  BY <1>1, InitKeeps
<1>2. CASE log_destroy \/ Crash
  BY <1>2, DestroyKeeps
<1>3. CASE Tick
  BY <1>3, TickKeeps
<1>4. ASSUME NEW t \in Threads,
             Begin(t, "print") \/ Begin(t, "flush") \/ (lock # t /\ Begin(t, "filelock")) \/ InCall(t) \/ Cancel(t)
      PROVE  IInv'
  <2>1. CASE Begin(t, "print") \/ Begin(t, "flush") \/ Begin(t, "filelock")
    BY <2>1, BeginKeeps
  <2>2. CASE Cancel(t)
    BY <2>2, CancelKeeps
  <2>3. CASE cyc_printf(t) \/ Leave(t) \/ cyc_flush(t)
    BY <2>3, PrintKeeps, LeaveKeeps, FlushKeeps
  <2>4. CASE cyc_check_open_file(t)
    BY <2>4, CheckKeeps
  <2>5. CASE Rotate(t) \/ OpenFilesize(t) \/ cyc_open_periodic(t)
    BY <2>5, RotateKeeps, OpenFilesizeKeeps, OpenPeriodicKeeps
  <2>6. CASE Fputs(t)
    BY <2>6, FputsKeeps
  <2>7. CASE cyc_file_lock(t) \/ BeginUnlock(t) \/ Unlock(t)
    BY <2>7, LockKeeps
  <2>8. CASE SetFlag(t, "setflag", TRUE, "idle") \/ cyc_file_unlock(t)
    BY <2>8, FlagKeeps DEF cyc_file_unlock
  <2> QED
    BY <1>4, <2>1, <2>2, <2>3, <2>4, <2>5, <2>6, <2>7, <2>8 DEF InCall
<1>5. CASE UNCHANGED vars
  BY <1>5 DEF vars, IInv, TypeOK, MutexOK, FileOK, FirstIndex, RotationOK, PeriodsOK, IsStart,
              KeepsTheNewest, FileNumbers, Older
<1> QED
  BY <1>1, <1>2, <1>3, <1>4, <1>5 DEF Next

\* The inductive invariant, whatever fails, crashes or is cancelled.
THEOREM Invariance == Spec => []IInv
<1> QED
  BY InitInv, NextInv, PTL DEF Spec

\* Whatever cyc_open_filesize and cyc_open_periodic run into, the files hold the
\* newest lines, in order and, as long as rename works, without a gap.
THEOREM NewestAreKept == Spec => []KeepsTheNewest
<1>1. IInv => KeepsTheNewest
  BY DEF IInv
<1> QED
  BY <1>1, Invariance, PTL

\* The steps that change the files or the line count.
LEMMA WhoWrites ==
  ASSUME Next, disk' # disk \/ hist'.printed # hist.printed, IInv
  PROVE  \E t \in Threads : Rotate(t) \/ OpenFilesize(t) \/ cyc_open_periodic(t) \/ Fputs(t)
<1>1. hist \in [printed : Nat, since : Nat, renameFailed : BOOLEAN]
  BY DEF IInv, TypeOK
<1>2. CASE log_init
  <2>1. hist' = [hist EXCEPT !.since = hist.printed] /\ disk' = disk
    BY <1>2 DEF log_init
  <2> QED
    BY <1>1, <2>1
<1>3. CASE log_destroy \/ Crash \/ Tick
  BY <1>3 DEF log_destroy, Crash, Tick
<1>4. ASSUME NEW t \in Threads,
             Begin(t, "print") \/ Begin(t, "flush") \/ (lock # t /\ Begin(t, "filelock")) \/ InCall(t) \/ Cancel(t)
      PROVE  Rotate(t) \/ OpenFilesize(t) \/ cyc_open_periodic(t) \/ Fputs(t)
  BY <1>4 DEF Begin, Cancel, InCall, cyc_printf, cyc_check_open_file, Leave, cyc_flush, cyc_file_lock,
              SetFlag, BeginUnlock, cyc_file_unlock, Unlock
<1> QED
  BY <1>2, <1>3, <1>4 DEF Next

\* A renamed file takes the place of the last one, or a number that is free, and
\* the first file is truncated only if there is no other.
LEMMA StepDrops ==
  ASSUME IInv, [Next]_vars, cyc.type = "filesize", NEW x \in LinesOf(disk), x \notin LinesOf(disk'),
         used.faults = 0, used.starts <= 1
  PROVE  DOMAIN disk = FileNumbers
<1>1. disk' # disk
  OBVIOUS
<1>2. PICK t \in Threads : Rotate(t) \/ OpenFilesize(t) \/ cyc_open_periodic(t) \/ Fputs(t)
  BY <1>1, WhoWrites DEF vars
<1>3. ~hist.renameFailed /\ IsFiles(disk) /\ cyc.nbackups \in Nat /\ local.i \in Int
  BY DEF IInv, TypeOK, RotationOK, IsFiles
<1>4. pc[t] \in {"rotate", "open", "write"}
  BY <1>2 DEF Rotate, OpenFilesize, cyc_open_periodic, Fputs
<1>5. cyc.up /\ \A u \in Threads \ {t} : pc[u] # "rotate"
  BY <1>4, OneHolder DEF IInv, InMutex
<1>6. FirstIndex = cyc.nbackups - 2 /\ FileNumbers = 0..(IF cyc.nbackups = 0 THEN 0 ELSE cyc.nbackups - 1)
  BY DEF FirstIndex, FileNumbers
<1>7. DOMAIN disk \subseteq FileNumbers
  BY DEF IInv, KeepsTheNewest
<1>8. Falling(disk)
  BY NewestIs DEF IInv, DiskOK
<1>9. CASE Rotate(t)
  <2>1. PICK i \in Nat : i = local.i
    BY <1>3, <1>9 DEF Rotate, LoopGoesOn
  <2>2. pc[t] = "rotate" /\ i <= FirstIndex
    BY <1>9, <2>1 DEF Rotate, IInv, FileOK
  <2>3. i \in DOMAIN disk /\ disk' = Renamed(i)
    BY <1>1, <1>9, <2>1 DEF Rotate
  <2>4. i + 1 \in DOMAIN disk
    <3>1. /\ DOMAIN disk' = (DOMAIN disk \ {i}) \cup {i + 1}
          /\ \A n \in DOMAIN disk' : disk'[n] = IF n = i + 1 THEN disk[i] ELSE disk[n]
      BY <2>3 DEF Renamed
    <3>2. i + 1 \notin DOMAIN disk => LinesOf(disk') = LinesOf(disk)
      BY <1>3, <1>8, <2>3, <3>1, RenamedLines
    <3> QED
      BY <3>2
  <2>5. i = FirstIndex
    <3>1. ~(i < FirstIndex)
      BY <1>3, <2>1, <2>2, <2>4 DEF IInv, RotationOK
    <3> QED
      BY <1>3, <1>6, <2>2, <3>1
  <2>6. \A k \in 0..i : k \in DOMAIN disk
    <3>1. \A k \in 0..((i + 1) - 1) : k \in DOMAIN disk \/ \E u \in Threads : pc[u] = "rotate" /\ k = i + 1
      BY <1>5, <2>1, <2>4 DEF IInv, RotationOK
    <3> QED
      BY <3>1
  <2>7. FileNumbers = 0..(i + 1)
    <3>1. PICK nb \in Nat : nb = cyc.nbackups
      BY <1>3
    <3>2. nb - 2 = i /\ nb # 0
      BY <1>6, <2>5, <3>1
    <3>3. FileNumbers = 0..(nb - 1)
      BY <1>6, <3>1, <3>2
    <3> QED
      BY <3>2, <3>3
  <2>8. \A k \in 0..(i + 1) : k \in DOMAIN disk
    BY <2>4, <2>6
  <2> QED
    BY <1>7, <2>7, <2>8
<1>10. CASE OpenFilesize(t)
  <2>1. pc[t] = "rotate" /\ ~(local.i >= 0) /\ Fopen(t, 0, 0)
    BY <1>10 DEF OpenFilesize, LoopGoesOn
  <2>2. disk' = [k \in DOMAIN disk \cup {0} |-> IF k = 0 THEN << >> ELSE disk[k]]
    BY <1>1, <2>1 DEF Fopen
  <2>3. 0 \in DOMAIN disk
    <3>1. /\ DOMAIN disk' = DOMAIN disk \cup {0}
          /\ \A k \in DOMAIN disk' : disk'[k] = IF k = 0 THEN << >> ELSE disk[k]
      BY <2>2
    <3>2. 0 \notin DOMAIN disk => LinesOf(disk') = LinesOf(disk)
      <4>1. IsFiles(disk) /\ 0 \in Nat
        BY <1>3
      <4> QED
        BY <3>1, <4>1, TruncatedLines, Zenon
    <3> QED
      BY <3>2
  <2>4. local.i >= -2 /\ local.i <= FirstIndex /\ (local.i < -1 => local.i = FirstIndex)
    BY <2>1 DEF IInv, FileOK
  <2>5. local.i = FirstIndex
    <3>1. local.i < FirstIndex => local.i + 1 \notin DOMAIN disk
      BY <1>3, <2>1 DEF IInv, RotationOK
    <3>2. local.i = -1 => ~(local.i < FirstIndex)
      BY <2>3, <3>1
    <3> QED
      BY <1>3, <1>6, <2>1, <2>4, <3>2
  <2>6. FileNumbers = {0}
    BY <1>3, <1>6, <2>1, <2>5
  <2> QED
    BY <1>7, <2>3, <2>6
<1>11. CASE cyc_open_periodic(t)
  BY <1>11 DEF cyc_open_periodic, IInv, FileOK
<1>12. CASE Fputs(t)
  <2>1. pc[t] = "write" /\ cyc.file \in DOMAIN disk
    BY <1>12 DEF Fputs, IInv, FileOK
  <2>2. disk' = [disk EXCEPT ![cyc.file] = Append(@, hist.printed + 1)] /\ hist.printed + 1 \in Nat
    <3>1. hist.printed + 1 \in Nat
      BY DEF IInv, TypeOK
    <3> QED
      BY <1>1, <1>12, <3>1 DEF Fputs
  <2>3. PICK n \in DOMAIN disk : \E j \in DOMAIN disk[n] : disk[n][j] = x
    BY InLines
  <2>4. PICK j \in DOMAIN disk[n] : disk[n][j] = x
    BY <2>3
  <2>5. disk[n] \in Seq(Nat) /\ Len(disk[n]) \in Nat /\ j \in 1..Len(disk[n])
    <3>1. disk[n] \in Seq(Nat)
      BY <1>3 DEF IsFiles
    <3>2. Len(disk[n]) \in Nat /\ DOMAIN disk[n] = 1..Len(disk[n])
      BY <3>1
    <3> QED
      BY <3>1, <3>2
  <2>6. \/ disk'[n] = disk[n]
        \/ disk'[n] = Append(disk[n], hist.printed + 1)
    BY <2>1, <2>2
  <2>7. n \in DOMAIN disk' /\ j \in DOMAIN disk'[n] /\ disk'[n][j] = x
    <3>1. n \in DOMAIN disk'
      BY <2>2
    <3>2. CASE disk'[n] = disk[n]
      BY <2>4, <3>1, <3>2
    <3>3. CASE disk'[n] = Append(disk[n], hist.printed + 1)
      <4>1. /\ j \in 1..Len(Append(disk[n], hist.printed + 1))
            /\ Append(disk[n], hist.printed + 1)[j] = disk[n][j]
        BY <2>2, <2>5
      <4> QED
        BY <2>2, <2>4, <2>5, <3>1, <3>3, <4>1
    <3> QED
      BY <2>6, <3>2, <3>3
  <2> QED
    BY <2>7, InLines
<1> QED
  BY <1>2, <1>9, <1>10, <1>11, <1>12

\* Without a failure or a restart, the loop of cyc_open_filesize drops no line
\* before there are nbackups files.
THEOREM DropsWhenFull == Spec => DropsOnlyWhenFull
<1>1. ASSUME IInv, [Next]_vars
      PROVE  [cyc.type = "filesize" /\ ~(LinesOf(disk) \subseteq LinesOf(disk')) =>
                used.faults > 0 \/ used.starts > 1 \/ DOMAIN disk = FileNumbers]_vars
  <2>1. used.faults \in Nat /\ used.starts \in Nat
    BY <1>1 DEF IInv, TypeOK
  <2> QED
    BY <1>1, <2>1, StepDrops
<1> QED
  BY <1>1, Invariance, PTL DEF Spec, DropsOnlyWhenFull

\* cyc_check_open_file lets cyc_vprintf print only to a file that has room, or to
\* that of the period of the call, unless the file is locked.
THEOREM RightFile == Spec => LinesGoToTheRightFile
<1>1. ASSUME IInv, [Next]_vars
      PROVE  [hist'.printed # hist.printed /\ ~cyc.flock =>
                /\ cyc.type = "filesize" => cyc.size <= MaxSize
                /\ cyc.type = "periodic" => cyc.file <= clock /\ local.now <= cyc.file + Period]_vars
  <2> SUFFICES ASSUME hist'.printed # hist.printed, ~cyc.flock
               PROVE  /\ cyc.type = "filesize" => cyc.size <= MaxSize
                      /\ cyc.type = "periodic" => cyc.file <= clock /\ local.now <= cyc.file + Period
    OBVIOUS
  <2>1. PICK t \in Threads : Rotate(t) \/ OpenFilesize(t) \/ cyc_open_periodic(t) \/ Fputs(t)
    BY <1>1, WhoWrites DEF vars
  <2>2. hist \in [printed : Nat, since : Nat, renameFailed : BOOLEAN]
    BY <1>1 DEF IInv, TypeOK
  <2>3. ~Rotate(t)
    BY <2>2 DEF Rotate
  <2>4. pc[t] = "write"
    BY <2>1, <2>3 DEF OpenFilesize, cyc_open_periodic, Fputs
  <2> QED
    BY <1>1, <2>4 DEF IInv, FileOK
<1> QED
  BY <1>1, Invariance, PTL DEF Spec, LinesGoToTheRightFile

LEMMA AppendIsPrefix ==
  ASSUME NEW s \in Seq(Nat), NEW x \in Nat
  PROVE  IsPrefix(s, s) /\ IsPrefix(s, Append(s, x))
<1>1. Len(s) \in Nat /\ Append(s, x) \in Seq(Nat) /\ Len(Append(s, x)) = Len(s) + 1
  OBVIOUS
<1>2. \A j \in 1..Len(s) : Append(s, x)[j] = s[j]
  OBVIOUS
<1>3. /\ SubSeq(s, 1, Len(s)) = [j \in 1..Len(s) |-> s[j]]
      /\ SubSeq(Append(s, x), 1, Len(s)) = [j \in 1..Len(s) |-> Append(s, x)[j]]
  BY <1>1
<1> QED
  BY <1>1, <1>2, <1>3 DEF IsPrefix

\* What the locked file is kept from.
LEMMA StepKeepsFile ==
  ASSUME IInv, [Next]_vars, cyc.flock, cyc'.flock, cyc.file # NULL
  PROVE  /\ cyc'.file = cyc.file
         /\ DOMAIN disk' = DOMAIN disk
         /\ \A n \in DOMAIN disk : IsPrefix(disk[n], disk'[n])
<1>1. cyc \in CycRecord /\ IsFiles(disk) /\ \A n \in DOMAIN disk : IsPrefix(disk[n], disk[n])
  BY AppendIsPrefix DEF IInv, TypeOK, CycRecord, IsFiles
<1>2. CASE UNCHANGED vars
  BY <1>1, <1>2 DEF vars
<1>3. ~log_init /\ ~log_destroy /\ ~Crash
  BY DEF log_init, log_destroy, Crash, Closed
<1>4. CASE Tick
  BY <1>1, <1>4 DEF Tick
<1>5. ASSUME NEW t \in Threads,
             Begin(t, "print") \/ Begin(t, "flush") \/ (lock # t /\ Begin(t, "filelock")) \/ InCall(t) \/ Cancel(t)
      PROVE  /\ cyc'.file = cyc.file
             /\ DOMAIN disk' = DOMAIN disk
             /\ \A n \in DOMAIN disk : IsPrefix(disk[n], disk'[n])
  <2>1. ~Rotate(t) /\ ~OpenFilesize(t) /\ ~cyc_open_periodic(t)
    BY DEF Rotate, OpenFilesize, cyc_open_periodic, IInv, FileOK
  <2>2. CASE cyc_check_open_file(t)
    <3>1. ~IsDue
      BY DEF IsDue
    <3>2. UNCHANGED <<cyc, disk>>
      BY <2>2, <3>1 DEF cyc_check_open_file
    <3> QED
      BY <1>1, <3>2
  <2>3. CASE Fputs(t)
    <3>1. cyc.file \in DOMAIN disk /\ hist.printed + 1 \in Nat
      BY <2>3 DEF Fputs, IInv, TypeOK, FileOK
    <3>2. cyc'.file = cyc.file
      BY <1>1, <2>3 DEF Fputs, CycRecord
    <3>3. disk' = disk \/ disk' = [disk EXCEPT ![cyc.file] = Append(@, hist.printed + 1)]
      BY <2>3 DEF Fputs
    <3>4. ASSUME NEW n \in DOMAIN disk
          PROVE  disk'[n] = disk[n] \/ disk'[n] = Append(disk[n], hist.printed + 1)
      BY <3>3
    <3>5. ASSUME NEW n \in DOMAIN disk PROVE IsPrefix(disk[n], disk'[n])
      <4>1. disk[n] \in Seq(Nat)
        BY <1>1 DEF IsFiles
      <4>2. IsPrefix(disk[n], disk[n]) /\ IsPrefix(disk[n], Append(disk[n], hist.printed + 1))
        BY <3>1, <4>1, AppendIsPrefix
      <4> QED
        BY <3>4, <4>2
    <3> QED
      BY <3>2, <3>3, <3>5
  <2>4. CASE SetFlag(t, "setflag", TRUE, "idle") \/ cyc_file_unlock(t)
    <3>1. disk' = disk /\ \E b \in BOOLEAN : cyc' = [cyc EXCEPT !.flock = b]
      BY <2>4 DEF SetFlag, cyc_file_unlock
    <3> QED
      BY <1>1, <3>1, FlagSet
  <2>5. CASE \/ Begin(t, "print") \/ Begin(t, "flush") \/ Begin(t, "filelock") \/ Cancel(t)
             \/ cyc_printf(t) \/ Leave(t) \/ cyc_flush(t) \/ cyc_file_lock(t) \/ BeginUnlock(t) \/ Unlock(t)
    <3>1. UNCHANGED <<cyc, disk>>
      BY <2>5 DEF Begin, Cancel, cyc_printf, Leave, cyc_flush, cyc_file_lock, BeginUnlock, Unlock
    <3> QED
      BY <1>1, <3>1
  <2> QED
    BY <1>5, <2>1, <2>2, <2>3, <2>4, <2>5 DEF InCall
<1> QED
  BY <1>2, <1>3, <1>4, <1>5 DEF Next

\* Between cyc_file_lock and cyc_file_unlock nothing happens to the files, but that
\* lines are appended to the current one.
THEOREM FileStays == Spec => CurrentFileStays
<1>1. ASSUME IInv, [Next]_vars
      PROVE  [cyc.flock /\ cyc.flock' /\ cyc.file # NULL =>
                /\ cyc'.file = cyc.file
                /\ DOMAIN disk' = DOMAIN disk
                /\ \A n \in DOMAIN disk : IsPrefix(disk[n], disk'[n])]_vars
  BY <1>1, StepKeepsFile
<1> QED
  BY <1>1, Invariance, PTL DEF Spec, CurrentFileStays
=============================================================================
