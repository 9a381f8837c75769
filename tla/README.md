# Verification of the DCC605 assignments

TLA+ modules, TLC runs and TLAPS proofs for the operating-systems assignments in
this repository. The core is `TP2/mempager-assignment` (a user-level pager: frames,
swap blocks, a server with one thread per client, and a client library that turns
SIGSEGV into requests) and `TP2/dcc605fs-assignment` (a file system in an image
file). `TP1` holds a shell and the interface of a thread library.

File names below are relative to those directories: `pager.c`, `mmu.c`, `uvm.c` to
`TP2/mempager-assignment/src`, `fs.c`, `fs.h` to `TP2/dcc605fs-assignment`.

## The system

### Pager (`pager.c`)

State: the frame table (`pid`, `page`, `accessed` of every frame, and the hand
`sec_chance_index`), the block table (`used`, `page` of every swap block), and one
list of `Page` records per process (`isvalid`, `frame_number`, `block_number`,
`dirty`). One mutex, `locker`, is held for the whole of every entry point:
`pager_create`, `pager_extend`, `pager_fault`, `pager_syslog`, `pager_destroy`.

Correct when: a frame holds one resident page and a resident page has one frame;
no two pages share a block; a process can only reach the frame of its own page; a
page that is dropped without a copy loses nothing; and therefore every page reads
as what its process last stored.

Hard: the state of a page is spread over four structures (`Page`, frame, block, and
the mapping in another process) that one fault updates for two pages at a time;
a frame is freed by its `pid` only and the stale rest stays; memory comes from
`malloc` and is partly never assigned.

### MMU server and client library (`mmu.c`, `uvm.c`, `mmuproto.h`)

The server accepts a socket per client and starts `mmu_client_thread` for it. That
thread peeks at the next message, serves the request by calling the pager, and
sends the reply. The pager's calls `mmu_resident`, `mmu_nonresident` and `mmu_chprot`
send a message to the *owner of the page*, which need not be the client being served,
and wait for its acknowledgement on a socket that the owner's own thread reads as
well. In a client the program waits on a condition variable for `uvm_thread`, which
handles replies and remapping.

Correct when: the pager never copies or fills a frame that some process can still
write; whatever a program reads while faults of other processes are half done is
right; every request is answered; the assertions on message types hold.

Hard: threads of two processes and two threads per socket; the holder of the lock
waits for another process; clients exit or are killed with a message under way;
condition variables may wake without a signal.

### File system (`fs.c`)

State: the superblock (`freelist`, `freeblks`), a linked list of `freepage` blocks,
and per entity a header inode, child inodes, a `nodeinfo` and, for files, data
blocks, all linked by block numbers. Calls: `fs_format`, `fs_open`, `fs_close`,
`fs_get_block`, `fs_put_block`, `fs_write_file`, `fs_read_file`, `fs_unlink`,
`fs_mkdir`, `fs_rmdir`, `fs_list_dir`. The image is locked by the one process that
opened it, so calls do not interleave; a crash can hit between two writes.

Correct when: every block is the superblock, free, or in one place of one entity;
the sizes agree with the links (the code asserts it); and the calls do to the tree
what their names say, with file contents read back as written.

Hard: long sequences of legal calls that reuse blocks, files that cross an inode
boundary, counters kept beside the links, and crashes.

### Doubly linked list (`dlist.c`, and a copy in `pager.c`)

State: `struct dlist` (`head`, `tail`, `count`) and `struct dnode` (`prev`, `next`,
`data`) on the heap. Calls: create, destroy, pop at either end, push at the right,
find and remove, get and set by an index that may be negative. Its callers keep one
thread at a time in a list.

Correct when: the pointers agree in both directions and with head, tail and count,
as the code asserts in part; no node leaks, is used after `free` or belongs to two
lists; and every call returns what a sequence would.

Hard: up to six pointers change in one removal, with cases for the first, the last
and the only node; `malloc` gives freed nodes back with stale pointers.

### Cyclic log files (`cyc.c`, `log.c`)

State: one `struct cyclic` per process, with the open file, two mutexes and a flag,
and the files on disk, which outlive the process. Every process of the pager logs
through it from several threads. Files rotate by size (`prefix.0` is renamed to
`prefix.1` and so on) or by time. `cyc_file_lock` keeps the current file from rotating.

Correct when: the files hold the newest lines in order without a gap, lines are only
dropped when all the files are there, a locked file stays, a line goes to a file with
room for it, and every call returns (`cyc.h` says so of cancelled threads).

Hard: a rotation is a sequence of renames, any of which may fail, or be the last
thing the process does; threads are cancelled; a flag is guarded by one mutex and
the right to set it by another.

### Shell (`sh.c`)

State: the shell, the processes it forks, their descriptors and pipes. The main loop
reads a line and forks a process that parses and runs it; `runcmd` forks two more for
every bar, moves descriptors about with `close` and `dup`, and waits twice.

Correct when: the parser accepts what it should and loses nothing; a program starts
with the descriptors that the line gives it and no others; no process is left over at
the prompt; and the prompt comes back once the programs have what they need to end.

Hard: pipes are inherited by every process forked later, and one copy of an end that
stays open keeps a pipeline from ending; `fork` and `pipe` may fail and the code goes on.

### The rest

Of the thread library only the header and the tests exist. See the last section.

## The modules

| module | models | state and actions |
|---|---|---|
| `PageMemory` | what `pager.h` and `uvm.h` promise | a private memory per process: `Attach`, `Grow`, `Store`, `Leave` |
| `Pager` | `pager.c` with the effect of its MMU calls | the tables of `pager.c`, the contents `pmem` and `disk`, the mappings `pte`; one action per entry point, `pager_fault` in its three cases |
| `PagerSyslog` | `pager_syslog` | a function of `Pager`'s state, since the code changes none |
| `SecondChance` | the loop of `second_chance` | one action per turn of the loop; `Pager` takes the whole loop as one step |
| `MmuSystem` | `mmu.c` and `uvm.c` over `Pager`'s tables | threads as program counters (`app`, `uvm`, `thr`), sockets as sequences, the lock, and the MMU calls still to be made |
| `FreeList` | `fs_get_block`, `fs_put_block`, `fs_format` | the list on disk, blocks held by callers, the two writes of `fs_put_block` apart, crashes |
| `DirectoryTree` | what `fs.h` promises | a function from paths to contents |
| `FileSystem` | the calls of `fs.h` on files and directories | the image as a record of blocks; a call is one step |
| `DataList` | what `dlist.h` promises | a sequence of data per list, and what each call returns |
| `Dlist` | `dlist.c`, and `dlist_destroy` of `pager.c` | nodes with pointers; a call without a loop is one step, a loop one step per iteration |
| `CycLog` | `cyc.c` and `log.c` | the struct, the files as sequences of lines, threads as program counters, the two mutexes; crash and restart |
| `ShellParser` | the parser of `sh.c` | the state of the descent as a record, one operator per turn of a loop; and what a line means |
| `Shell` | `main`, `runcmd` and `fork1` of `sh.c` | processes with descriptors; one action per system call or group of calls that only the process itself sees |
| `PagerProofs` (`PagerSyslog`, too), `MmuProofs`, `SecondChanceProofs`, `FreeListProofs`, `FileSystemProofs`, `DlistProofs`, `CycLogProofs`, `ShellProofs` | | the inductive invariants, and the theorems |
| `MCPager`, `MCMmuSystem`, `MCFileSystem`, `MCDlist`, `MCShell` | | constants, symmetry and view for TLC |

How they fit: `MmuSystem` extends `Pager` and uses the same table operators
(`ExtendTables`, `ValidTables`, `FreeFrameTables`, `EvictTables`), so a fault changes
the tables as in `Pager` and then makes its MMU calls one at a time. Both are shown
to implement `PageMemory`. `SecondChance` instantiates `Pager` to say that the loop
computes `Pager`'s step. `FreeList` is the allocator alone, with arbitrary callers and
crashes; `FileSystem` has its own copy of the two allocator operations because it
follows the callers block by block, and implements `DirectoryTree`. `Dlist` implements
`DataList`. `Dlist` and `CycLog` stand alone: the pager uses its lists as sequences, which
is what `DataList` says they are, and nothing depends on the log. `Shell` extends
`ShellParser`.

Choices a reader should know:

- **`Pager`: a call is one step.** Justified by `locker`, held from entry to return.
  That MMU calls in the middle of a fault involve other processes, which do not
  take the lock, is what `MmuSystem` is for.
- **Contents are values.** A page is one value, except in `MCPager`, where it is a
  function from two offsets to bytes so that `pager_syslog` can print part of it.
- **Unassigned memory.** `Unset` stands for a `malloc`ed field nobody wrote;
  `StaleBlocks` are blocks whose `page` pointer happened not to be null, which
  `get_new_block` then never gives out (the table is not zeroed).
- **`MmuSystem` changes the tables when the lock is taken.** Nobody else reads them
  while it is held, and the threads outside only see messages and memory.
- **`FileSystem` is restricted to the calls the code is written for.** `Reaches`: a path
  does not go through a file. `Creatable`: the directory exists (the code says
  "Assuming that the path is correct") and has room in its first inode. `RoomFor`:
  blocks for a new entity are there. `fs_write_file` and `fs_unlink` are not called for a
  directory, `fs_rmdir` not for the root. `Overwrites = FALSE`: a file that holds data is
  not written again. Each restriction is a place where the code has a defect, listed
  below; without them the image is damaged and no property survives.
- **The list is not called from two threads.** `Dlist` has one call at a time; its callers
  hold `locker` (the pager). Freed nodes keep a pointer to themselves, so that a use after
  free cannot go unnoticed.
- **`CycLog`: threads are cancelled where they can be.** At any of the file operations, which
  are cancellation points, if the code has not disabled cancellation, and between calls; not while they hold
  `cyc_file_lock`, which is the caller's to clean up after. `cyc_destroy` takes no mutex and is only called when no
  thread is in a call. A crash keeps the lines that were written, since every call
  flushes. The clock only moves forward: a `time(NULL)` that is
  set back is left out. `size` is counted in units of a short line up to `MaxSize + 1`.
- **`Shell`: a program reads its input to the end (`filter`), writes until nobody reads
  (`source`) or just ends.** That is all that the end of a pipeline depends on. A program may
  end earlier. A process is named for what it was forked for, `<<"left", k>>` or `<<"run", k>>` for
  the command left of the `k`-th bar or the rest of the line from the `k`-th command on. A tree of `pipecmd`s grows to
  the right only, so it is the sequence of its leaves; the process of a line takes one turn of
  the parser's loops per step. After a `pipe` that failed,
  the array `p` holds any of `Garbage`.
- **A history variable** in `FileSystem`, `tree`, is what a caller sees that looks up
  every path and reads every file; it is computed from the image by `get_inode_block`
  and `fs_read_file` as the code does them. In `FreeList`, `order` is the sequence of the free blocks
  as they are to be given out, with which `ListIsIntact` compares the pointers on disk.

## The runs

| run | checks | bounds | shows |
|---|---|---|---|
| `pager` | `TypeOK`, `FrameOwnership`, `BlockOwnership`, `MappedFrameIsOwn`, `CleanPageMatchesBacking`, `SyslogIsRight`, `ImplementsPageMemory` | 2 processes, 2 frames, 4 blocks (one stale), 2 pages each of 2 bytes | the pager is right through faults, evictions, write-back, exits; which bytes `pager_syslog` reads from the right place |
| `mmu_threads` | `SysTypeOK`, `TransfersAreExclusive`, `ReadsAreCorrect`, `AssertionsHold`, `FaultsGiveAccess`, `RunsWhenServed`, `SystemImplementsPageMemory`, no deadlock | 2 clients, 2 frames, 3 blocks, 2 pages each, 5 operations each | threads and messages keep every memory private and right, and a fault ends with its page mapped as the tables say |
| `mmu_faults` | `FaultsAreContained` (the three properties above in one), `RequestsAreServed` | 2 clients, 1 frame, 2 blocks; one client has 2 operations and may be killed, the other has 4, early wakeups and `uvm_syslog` among them | memory stays right as long as the server runs; every extension, `uvm_syslog` and fault of a client that lives ends, although the clients evict each other, unless the server is lost for one of three named reasons |
| `mmu_reclaim` | `DeadClientsAreReclaimed` (violated) | 1 frame | a client killed while its answer is awaited blocks the pager for ever |
| `second_chance` | `ComputesSecondChance`, `BoundedScan`, no deadlock | 4 frames | the loop ends in one round with the victim `Pager` takes |
| `free_list` | `TypeOK`, `AllocationIsExclusive`, `BlocksAreAccountedFor`, `ListIsIntact` | 8 blocks, 5 of them in the list | no block is given out twice, none is lost but in a crash, the list stays in one piece |
| `free_list_last` | `ZeroOnlyWhenNoneIsFree` (violated) | as `free_list` | the last free block is never given out |
| `file_system` | `TypeOK`, `BlocksArePartitioned`, `InodesAreLinked`, `ListsWhatIsThere`, `ImplementsTree` | 10 blocks of 2 bytes, 2 links per inode, 2 names, paths of up to 2 names, files of 0, 1 and 5 bytes | every sequence of calls keeps the image consistent and the tree right |
| `fs_overwrite` | `LinksAreDataBlocks` (violated) | one name | a file written again keeps links to blocks that are free |
| `dlist` | `TypeOK`, `LinksAgree`, `NodesAreAccountedFor`, `ImplementsDataList`, no deadlock | 2 lists, 4 nodes, 2 data, indices from -5 to 4 | the pointer program is a sequence, whatever the order of its calls |
| `cyc_log` | `KeepsTheNewest`, `DropsOnlyWhenFull`, `CurrentFileStays`, `LinesGoToTheRightFile`, `CallsReturn` | 2 threads, 4 calls, 0, 1 or 3 files or rotation by time, 1 failure, 1 cancellation, 1 restart (and a crash at any step) | the files hold the newest lines in order, through failures and restarts |
| `shell` | `ParserIsRight`, `DescriptorsAreRight`, `NothingIsLeftRunning`, `PromptReturns`, no deadlock | all lines of up to 4 tokens, pipelines of up to 3 programs, `MAXARGS` 3, 1 failure of `fork` or `pipe` per line | programs get the right descriptors and every pipeline ends |

Why the bounds are enough to meet the hard cases:

- Two frames and up to four pages mean that every fault past the second evicts; a
  frame 0 victim (for which the code first takes the rights of *all* resident pages
  away) and another one both occur, and a page can be written, evicted, reloaded,
  evicted clean and reloaded again. Two values per page tell a lost store from a kept
  one. Processes are interchangeable (`PidSymmetry`).
- With one frame the two clients of `mmu_faults` evict each other on every
  fault, which is the case in which the lock holder depends on the other process.
  `MaxOps` bounds the requests (a fault is one), stores and early wakeups of a program; exits are not counted. Two operations are an extension and a fault:
  the client that may be killed has a page in the frame, or is asking for it. The four of the other one are enough to
  fault, lose the page and fault again, to call `uvm_syslog` before its page is allocated, before it was touched, while
  it is in the frame and after it was evicted, and to wake early from an extension that is refused and then touch the page it did not get.
  `MaxPages` is `NBlocks`, so that an extension is refused only because there is no block.
- `RequestsAreServed` lets a client wait for ever in three cases only, each a fault of the code that is
  listed below: the server died in `pager_syslog` of a page that was never in a frame (`DiedInSyslog`, `pager.c:229`), a killed client ended
  the server or left a thread that waits for the locker it holds (`LostToDeath`, `mmu.c:513`), a client that
  woke early sent a request that the server cannot answer (`LostToWakeup`, `uvm.c:248`). Once one of them holds it stays so.
  In the behaviours without a kill and without an early wakeup only the first can hold.
- In `file_system`, a file of three blocks needs a second inode, two entities in one
  directory and a directory in a directory fit, and the image can be full, so that
  the free list is reordered by all of them. `VIEW Image` identifies states that differ
  only in the last call: calls depend on the image alone, and the step property
  is evaluated on every transition, also one into a known image.
- In `dlist` four nodes in two lists give removals at both ends, in the middle and of the only
  node, and reuse of every node in the other list; the indices are within, at and beyond
  both ends of the longest list.
- In `cyc_log` four lines of one or two units fill three files of more than one unit, so that
  a fourth one pushes the oldest out; with one restart and one failure anywhere, a rotation
  can stop at every step and be taken up by the next one. `Period` 2 and five times give three periods.
- In `shell` three commands nest two pipes, which is where descriptors of one pipe are
  inherited by the processes of the other; a longer pipeline repeats the step from the
  first to the second bar. Three arguments are one too many for `MAXARGS` 3, so the lines of four tokens
  have all cases of `parseexec`.
- Deadlock is checked in `mmu_threads`, `second_chance`, `file_system`, `dlist` and `shell`. It is off where the
  system may stop: in the pager runs when all processes have exited, in `free_list`
  when crashes have taken every block, in `cyc_log` when the calls and restarts are used up, in the runs with killed clients when the server is
  gone or blocked, and in `free_list_last` as in `free_list`.

Every property has a mutant: a plausible bug (a dropped guard, a missing reset, a
swapped order) that makes that property fail in that run. They stand in the modules
before the definition they change, marked "Mutant" or "A bug the code does not have".

### Fairness

`FairSpec` of `MmuSystem` has weak fairness for each client's returns from its waits
(`Returns`), for `uvm_thread` and for `mmu_client_thread`, per client. That is what the
operating system's scheduler gives to runnable threads. The programs themselves have
no fairness: a program may stop asking. The mutex needs none beyond that: with two
clients a thread that waits for `locker` is only passed over a bounded number of
times, since programs have `MaxOps` requests. (For programs that never stop asking,
liveness would need a fair mutex, which the code does not use.) 

`FairSpec` of `CycLog` has weak fairness for the steps of each thread within a call, and for
giving the file lock back, which its user must. The mutexes need none, for the same
reason as above (`MaxCalls`). `FairSpec` of `Shell` has weak fairness for any progress at all: that of the main loop, of
`runcmd`, and of a program that has come to the end of its input or that nobody reads.
The commands of one line are finitely many and each has finitely many steps, so nobody is
passed over for ever; a program that need not end gets no fairness, and `PromptReturns`
leaves out the lines in which a `source` writes to a `filter`, which do not end.

## What is proved

The proofs hold for every number of processes, threads, frames, blocks, pages, files and
calls. The assumptions are on the constants and named in the modules; TLC evaluates them in the runs:

| module | assumed | because |
|---|---|---|
| `Pager` | at least one frame, initial contents are values, stale blocks are blocks, markers such as `NULL` are not pages | `mmu.c:554` wants a frame; the rest are the markers of the model |
| `MmuSystem` | `NULL`, which is no page and the zero of a `uvm_syslog` that succeeded, is neither the number of a page nor -1 | `uvm->result` holds pointers and return codes alike, and no page is at address 0 |
| `SecondChance` | at least one frame | as above |
| `FreeList`, `FileSystem` | more than three blocks; blocks hold a byte and inodes a link | `fs.c:63` refuses an image with less |
| `FileSystem` | contents are sequences of bytes, the longest path is a number; `Dir`, which stands for a directory, is not the contents of a file | bounds and markers of the model |
| `Dlist` | `NULL` is no node, indices are integers | C |
| `CycLog` | sizes and the period are positive numbers; `NULL` is no thread and no file | `mmu.c:558` and `uvm.c:70` pass a megabyte |
| `ShellParser`, `Shell` | `MAXARGS` is positive; a line is a sequence of tokens | `sh.c:20`, and what `gettoken` makes of a line |

**`PagerProofs`.** `IInv` is `TypeOK`, `PhaseOK`, `FrameOwnership`, `BlockOwnership`,
`MappedFrameIsOwn` and `CleanPageMatchesBacking`. None of them is inductive alone: an
eviction takes the victim's page from the frame table and its block from the
`Page`, so it keeps block contents apart only because frames and pages, and pages and
blocks, point at each other; a clean page equals its block only because no other
process is mapped on its frame. `PhaseOK` (no pages before creation or after
destruction) is the strengthening that the runs do not name. There is one lemma per
action and a theorem per conjunct: `TypeCorrect`, `FramesAreExclusive`,
`BlocksAreExclusive`, `MappingsAreOwn`, `CleanPagesAreBacked`.

`Refinement`: `Pager` implements `PageMemory` under the mapping in
`Pager`, and the contents of an existing page change only in a store of its own
process. Every fault is a stutter of the abstract memory (`Content` follows the page
from frame to block and back), extension is `Grow`, an exit is `Leave`.

`SyslogCorrect` says how far `pager_syslog` is right. It refuses exactly the ranges with a byte
that was never allocated. Of an accepted range it takes a byte on a page in memory from where the process has it
(`PlaceOf`) exactly if the range starts at a page and the byte is on this first page, and then it prints what the process
would read, since a frame in its `Page` is its own. Of ranges that start within a page or go on into a second one the theorem
says that they are read from the wrong place, and of pages
that are not in memory it says nothing.

**`MmuProofs`.** The inductive invariant `SysIInv` of the server and its clients has two
halves. *Control*: who has `locker` is the one thread past `lock` (`LockerOK`); the MMU
calls still to be made are in the order of the code and agree with the tables,
which were changed when the lock was taken (`CallsOK`); a message of the pager, or the answer
to it, is on the sockets at most once, and only for the call whose answer
is awaited, and the answer is sent after the call took effect (`TokensOK`); a thread that peeked sees what the head
of the socket still is (`PeeksOK`). *Data* (`MemoryOK`): a page that its process can
reach is in its frame, or its `mmu_nonresident` is still to come; it cannot be reached
while its frame is filled; a page that is not dirty equals its block; one that is
evicted without a copy does, too. The second half needs the first one: a frame is filled
only after the old owner has answered, and an answer in the socket says so only because no other can be there.
The order of the calls (`Rank`) carries this from one call to the next.
From it, for any number of clients, also killed ones: `SysTypeCorrect`, `SysTablesOwn` (the tables keep the ownership
that `Pager` proves), `TransfersExclude`, `ReadsCorrect`, `PeeksAgree` (the assertions of
`mmu.c` on message types) and `DeathsAreContained`.

`FaultsEndWithAccess` needs one more invariant, `FaultOK`: of the calls that a fault still has to make, the last one is for its
own page and gives it the right that the tables say (`LastGives`), and once there is no call left, it has. A mapping changes only by a message
of a call under way, so nothing takes the right away again before the locker is released; with a thread that
did not wait for the answer (the mutant of this property) the list would be empty before the mapping is there.

`SystemRefinement`: the threads, sockets and the lock implement `PageMemory`
with the same contents as the pager alone. Each step either leaves every page of the
abstract memory where it is seen (`Seen`), or is a store, and that a store of one
process does not reach another's page is `MemoryOK`: two pages that can be reached are in different frames.
`Grow` is the call of `pager_extend` under the lock; that a client
starts with nothing, as `Attach` says, is `StartOK`: until the server has created it, it has sent one message. `RunsServed`: a program that goes on after
`uvm_extend`, `uvm_syslog` or a fault has been served. This is the invariant `RequestOK`: the request of a program that waits is
in one place, on the socket, in the thread or back as the answer. It has the hypothesis that `pthread_cond_wait`
does not return early (`MayWakeEarly = {}`), because `uvm.c` does not wait in a loop; without it
the property is false (see `uvm.c:248` below).

**`SecondChanceProofs`.** `IInv` says where the hand is after so many turns and which bits
are cleared. From it, for any number of frames: the loop computes `Pager`'s step, spares
accessed frames while one is not (`ReferencedFramesStay`, proved and not in the run, since it follows from the victim), and takes at most `NFrames + 1` turns.

**`FreeListProofs`.** `IInv` adds to the properties that the block being put back already
points at the head of the list, and that the list is one block longer than `freeblks`
(`CountIsOneLess`), without which a `fs_get_block` could take the zero at its end for a block. From it: the superblock and the pointers on disk always chain the free
blocks, each once, up to a zero (`ListIsIntact`), whatever holders write to
their blocks; no block is given out that somebody holds; only a crash loses one.

**`FileSystemProofs`.** `IInv` is `ImageOK` of the image and says of every block what it is and which one other block leads to it.
The blocks that are free are those on the list (`FreeOK`). A header but the root is linked by the directory it names as its parent,
the entries of a directory have different names and point back to it (`ParentsOK`, `EntriesOK`). A nodeinfo has one header (`MetasOK`), a child inode
is on the chain of the file that it names, behind a full one (`ChainsOK`), a data block is linked in one place (`DataOK`), sizes
agree with links (`SizesOK`); and a path leads to every header (`ReachOK`), without which a block could be lost in a
directory that nobody finds. The properties speak of chains of any length (`Nodes`, `LinksOf`, `FreeBlocks`), and what the loops
compute is proved by induction on the turn: a lemma says that the function of a loop exists,
and each turn keeps a predicate such as `Written` or `PutUpTo`. For every
block operation there is a predicate that says which blocks it leaves alone (`Taken`, `Put`, `Relinked`, `Created`,
`Extended`, `Emptied`, `Removal`), and a lemma that it keeps `ImageOK`: `CreationKeeps`, `GrowthKeeps`, `RemovalKeeps`. That `write_to_file` does not run out of
blocks is `RoomLeft`: `RoomFor` counts one child inode for every `MaxLinks` blocks after the first ones. From it, for images, blocks, inodes and
names of any number and size: `ImageIsAlwaysTyped`, `BlocksAreAlwaysPartitioned`, `InodesAreAlwaysLinked`,
`ListingIsAlwaysTheTree`. They have the hypothesis `~Overwrites`, under which the run checks them too: the run `fs_overwrite` shows that
`fs_write_file` breaks `DataOK` when it writes a file that holds data again.

`CallsDoWhatTheyAreFor` is the refinement: `FileSystem` implements `DirectoryTree` under the mapping in `FileSystem`. It adds `TreeOK`
to `IInv`: `tree` is what the paths of the image show, and every file `Holds` contents that were written, cut into `Chunks`
of a block along its chain. `ReadsBack` is the lemma under it: what `fs_read_file` puts together, by the links of the last inode
and the rest of the size, is what was cut; it is proved with `PiecesJoin` and an induction on the turn of the reading loop. Of a
call, `MoreEntries`, `FewerEntries` and `OnlyFile` say which path it adds, takes away or rewrites, and `FilesHoldAfter` that
the other files keep their inodes and links, and so their contents. `WriteDoes`, `MakeDoes`, `UnlinkDoes` and `RemoveDoes` put this together per
call; a call that fails leaves the image as it is, and is a stutter.

**`DlistProofs`.** `IInv` adds to the properties that a running loop stands at the node its
counter names and that a list that does not exist has no history. That is what the
removal needs: both pops and `dlist_find_remove` are shown to be one step, `TakesOut`,
which moves the pointers to a node past it; the other lists are untouched only because no
node is in two places, and the loop of `dlist_destroy` frees the list only when it holds
no node. From it, for any number of lists, nodes and data: `TypeCorrect`,
`PointersAgree`, `NoNodeLeaks`. `ListRefinement`: every step is a step of `DataList`. A call with a loop takes effect when the
loop ends, so one more invariant, `LoopCounts`, says what the loop has passed: no node before it has the
data that `dlist_find_remove` looks for, and as many nodes as the index of `dlist_get_index` and `dlist_set_index` has counted down.

**`CycLogProofs`.** `IInv` has `KeepsTheNewest` itself, which is not inductive, for two reasons. Rotation by size
overwrites `prefix.i+1` by `prefix.i`: `RotationOK` says that, whatever crashed or was cancelled
before, number `i + 1` is free in every iteration but the first, whose `i + 1` is the oldest file. It is true only as long as
no `rename` failed, and so is the absence of gaps. Rotation by time truncates the file of the
period: `PeriodsOK` says that this process has no line in it yet, also after an `fopen` that failed. `MutexOK`: a thread in `cyc_vprintf`
has the mutex and cannot be cancelled. From it, whatever fails, crashes or is cancelled: `NewestAreKept`, `DropsWhenFull`, `FileStays`,
`RightFile`. The arithmetic is that of `LastStart`: the period of the clock is the last one that has begun.

**`ShellProofs`.** The parser first. `ParserOK` says what it has read before the token it comes to (`ReadRight`): the
commands on its left and the one it is in have exactly the arguments and redirections of the line so far, each at its
place in the order (`Rank`, the number of such tokens up to it), and every arrow so far has its file. `TurnIsRight`: a turn
of any loop keeps it, and an error message is only given to a line that has the error; so at the end the parser has read what the
line means. Nothing is said of how long the line is. Then the processes: `IInv` says that the processes of a line are a
part of the one tree that its bars make, and that a process with a descendant waits, or is on the
way to it (`TreeOK`); that each has the commands of its part of the line, and of its redirections those that are still to be done
(`RunsItsPart`); and which descriptors it has at each point of `runcmd` (`FdsOK`): as long as `pipe` does not fail, 0 to 2
before it and 0 to 4 after it, so that `close` and `dup` put the end where it belongs. `DescriptorsAreRight`
needs the tree as well: a child is born with what its parent has between `pipe` and the two
calls of `close`. That the first redirection written is the one that counts is `OneMoreDone`: each `open` replaces what a later
one in the line has put there. From it, for lines of any length, any number of bars and every failure of `fork`,
`open`, `execvp` and the parser: `ParserIsAlwaysRight`, `DescriptorsAreAlwaysRight`, `NothingIsEverLeftRunning`.

Only model-checked:

- Liveness (`RequestsAreServed`, `CallsReturn`, `PromptReturns` and
  `DeadClientsAreReclaimed`): the prover does not handle fairness.

Five changes were made to the models for the proofs. `mmu_client_extend` of `MmuSystem` names its bound `MaxPages` on the pager's side as well as on the
program's, where it was the only guard. `KeepsTheNewest` and `DropsOnlyWhenFull` of `CycLog` speak of lines in files and no longer of
the concatenation of the files, which is the same and needs no induction. The parser of `ShellParser` has its state in a record
and takes one turn per step; as recursive operators, which it was before, it was out of the prover's reach. The loops of `FileSystem` are recursive functions, and no longer folds,
for the same reason. `fs_read_file` is an `IF` and no longer a `CASE`: its arms overlapped for an empty file, so the definition
did not say what is read there.

## Where code and documentation part

Three violation runs, with the lines they refute quoted in `PROJECT.json`:
`mmu_reclaim`, `free_list_last` and `fs_overwrite`.

Met while modelling, without a run, because the outcome follows from a line or two or
leaves the state of the model:

- `pager.c:245`: `pager_destroy` leaves `used` of the blocks set, so a new page on such a
  block shows the data of the dead process (`mmu.h:30` asks for zeroes).
- `pager.c:229`: three faults of one line, where `pager.h:43` promises a read access. The index of a page that was evicted is the
  frame it had, which now holds another page. The index of a page that was never in memory is not assigned
  (`pager.c:126`), so that the server may die of it; `mmu_client_syslog_wild` is this step, and `DiedInSyslog` in `RequestsAreServed` the
  service lost by it. And the offset counts from the start of the range, so that a range that starts within a page is read at the
  wrong place, and on a second page past the end of the frame: `SyslogIsRight` says exactly which bytes are read from
  the right place, and `SyslogCorrect` proves it.
- `uvm.c:248`: after a wakeup without a signal the access faults again, and its second
  request goes out ahead of the answer that the MMU peeks for, which is then never the
  first message: the locker is never released.
- `cyc.h`: `cyc_printf` returns what `fputs` returns, not "the number of bytes written"; `EOF`
  counts as success in `logd` (`log.c:51`).
- `cyc.c:241`: with `nbackups` 1 every rotation drops the whole log; a restart truncates the current
  file of a periodic log within its period (`cyc.c:212`).
- `sh.c:50`: `fork1` is said to exit when it fails, and goes on (`sh.c:175`).
- `sh.c:84`: of two redirections of one descriptor the first one written wins, since the
  outermost `redircmd` is run first and the inner ones after it.
- `mmu.c:376`: `send` to a client that is gone raises SIGPIPE and ends the server.
- `pager.c:147`: clearing the accessed bit does not take the access right away, so
  later accesses are not noticed.
- `mmu.c:267`: the printed process ids are eight bits wide.
- `uvm.c:136`: `uvm_extend` returns `NULL` without `errno`, which `uvm.h:20` promises.
- `fs.c:211`, `fs.c:679`: the space check does not count inodes, and `fs_get_block`'s zero
  is used as a block number.
- `fs.c:529`: the second inode of a directory is read at a byte, not a block;
  `fs.c:756`: block 0 is put back in place of an empty child inode.
- `fs.c:537`: a missing directory on a path is ignored; `fs.c:295`: directories are accepted
  by `fs_unlink` and `fs_write_file`; `fs.c:745`: `fs_rmdir("/")` fails an assertion;
  `fs.c:425`: listing an empty directory writes before the array; `fs.c:236`: `bufsz` is not
  used; `fs.c:255`: the read loop does not end when links are missing.

## Not modelled

- `dccthread`: only the header is in the repository.
- `fs_open`, `fs_close`: lock and check the image and change nothing in it.
- The shutdown of the server by SIGINT (`mmu.c:160`), the mapping of client memory itself (`mmap`, `mprotect` are taken to
  do what they are asked to).
- Reuse of a pid: the server would be handed the freed list of the old process, which
  has no defined outcome.
- Crashes inside the longer calls of the file system (see the plan).
- `cd` and the end of the input in `main` of `sh.c`, and the splitting of a line into
  tokens (`gettoken`, `mkcopy`); `sh_extra.c`, which is `sh.c` again.
- `shell.c`, `test.c`, `testPadronizado.c`, the tests and scripts: drivers. `utils.c` repeats helper
  functions of `fs.c` and is not compiled with it.

## Plan

Done: `PageMemory`, `Pager` and its proofs, `SecondChance` and its proofs, `PagerSyslog`,
`MmuSystem` and its proofs, `FreeList` and its proofs, `DirectoryTree`, `FileSystem` and its proofs, `DataList`, `Dlist` and its proofs,
`CycLog` and its proofs, `ShellParser`, `Shell` and their proofs. Every safety property and every refinement of the passing runs is a theorem.

Next, in this order:

1. `FsCrash`: the calls of `FileSystem` as sequences of block writes, a crash after any of
   them, and what the next opening finds: which crashes leak blocks and which leave an
   entry whose blocks are free.
2. The shutdown of the server in `MmuSystem`.
