------------------------------- MODULE Pager -------------------------------
(***************************************************************************)
(* The pager of TP2 (mempager-assignment/src/pager.c) and the page-table   *)
(* entries it controls in the client processes through mmu.c.              *)
(*                                                                         *)
(* Every pager_* function takes the mutex `locker' on entry and releases   *)
(* it on every return, so a call is one atomic step here; the MMU calls    *)
(* it makes (mmu_resident, mmu_chprot, ...) take effect before they        *)
(* return.  A page is one value: a client stores a whole page at a time.   *)
(***************************************************************************)
EXTENDS Integers

CONSTANTS
  Pids,         \* client processes; a pid is not used twice
  NFrames,      \* frames of physical memory (mmu's first argument)
  NBlocks,      \* blocks of the swap disk (mmu's second argument)
  MaxPages,     \* bound: pages one process may own
  Values,       \* contents of a page, a frame or a block
  Zero,         \* what mmu_zero_fill writes
  Junk,         \* contents of pmem and disk when the MMU starts
  StaleBlocks,  \* blocks whose malloc'ed `page' pointer is not NULL
  NoPid,        \* the pid -1 of a free frame
  NULL,         \* the null pointer
  Unset         \* a field of malloc'ed memory nobody assigned yet

Frames == 0..(NFrames - 1)
Blocks == 0..(NBlocks - 1)
PageIds == Pids \X (0..(MaxPages - 1))

ASSUME SizesAssumption ==
  /\ NFrames \in Nat \ {0}
  /\ NBlocks \in Nat
  /\ MaxPages \in Nat

ASSUME ValuesAssumption ==
  /\ Zero \in Values
  /\ Junk \in Values

ASSUME StaleAssumption == StaleBlocks \subseteq Blocks

ASSUME MarkersAssumption ==
  /\ NoPid \notin Pids
  /\ NULL \notin PageIds
  /\ Unset \notin PageIds
  /\ Unset # NULL
  /\ Unset \notin Nat

VARIABLES
  frames,            \* frame_table.frames
  sec_chance_index,  \* frame_table.sec_chance_index
  blocks,            \* block_table.blocks
  pages,             \* the Page records; <<p, i>> is the i-th page of p
  count,             \* count[p]: length of the page list of p
  pmem,              \* contents of the frames
  disk,              \* contents of the blocks
  pte,               \* mapping and protection of each page in its process
  client             \* "none", "live", "exiting" (EXIT_REQ sent), "dead"

tables == <<frames, sec_chance_index, blocks, pages>>
vars == <<frames, sec_chance_index, blocks, pages, count, pmem, disk, pte,
          client>>

FrameNode == [pid : Pids \cup {NoPid},
              page : PageIds \cup {Unset},
              accessed : {0, 1, Unset}]
BlockNode == [used : {0, 1}, page : PageIds \cup {NULL, Unset}]
Page == [isvalid : {0, 1},
         frame_number : Frames \cup {Unset},
         block_number : Blocks \cup {Unset},
         dirty : {0, 1, Unset}]
Pte == [frame : Frames \cup {Unset}, prot : {"NONE", "READ", "RW"}]

TypeOK ==
  /\ frames \in [Frames -> FrameNode]
  /\ sec_chance_index \in Frames
  /\ blocks \in [Blocks -> BlockNode]
  /\ pages \in [PageIds -> Page]
  /\ count \in [Pids -> 0..MaxPages]
  /\ pmem \in [Frames -> Values]
  /\ disk \in [Blocks -> Values]
  /\ pte \in [PageIds -> Pte]
  /\ client \in [Pids -> {"none", "live", "exiting", "dead"}]

-----------------------------------------------------------------------------
(* State functions *)

\* pg is in the page list of its process.
Listed(pg) == pg[2] < count[pg[1]]

\* The swap space's idea of page pg: its block once it was written out.
Backing(pg) ==
  IF blocks[pages[pg].block_number].used = 1
  THEN disk[pages[pg].block_number]
  ELSE Zero

\* What a client that reads page pg will find there.
Content(pg) ==
  IF pages[pg].isvalid = 1 THEN pmem[pages[pg].frame_number] ELSE Backing(pg)

-----------------------------------------------------------------------------
(* Initial state: pager_init after mmu_init *)

Init ==
  /\ frames = [f \in Frames |->
                 [pid |-> NoPid, page |-> Unset, accessed |-> Unset]]
  /\ sec_chance_index = 0
  /\ blocks = [b \in Blocks |->
                 [used |-> 0, page |-> IF b \in StaleBlocks THEN Unset ELSE NULL]]
  /\ pages = [pg \in PageIds |->
                [isvalid |-> 0, frame_number |-> Unset,
                 block_number |-> Unset, dirty |-> Unset]]
  /\ count = [p \in Pids |-> 0]
  /\ pmem = [f \in Frames |-> Junk]
  /\ disk = [b \in Blocks |-> Junk]
  /\ pte = [pg \in PageIds |-> [frame |-> Unset, prot |-> "NONE"]]
  /\ client = [p \in Pids |-> "none"]

-----------------------------------------------------------------------------
(* pager_create and pager_extend *)

pager_create(p) ==
  /\ client[p] = "none"
  /\ client' = [client EXCEPT ![p] = "live"]
  /\ UNCHANGED <<tables, count, pmem, disk, pte>>

\* Mutant: `used' is taken for the allocation flag of the block.
get_new_block_by_used(b) ==
  /\ blocks[b].used = 0
  /\ \A c \in Blocks : c < b => blocks[c].used # 0

\* get_new_block returns b: the first block no page holds.
get_new_block(b) ==
  /\ blocks[b].page = NULL
  /\ \A c \in Blocks : c < b => blocks[c].page # NULL

\* The Page pager_extend allocates: isvalid and block_number are assigned,
\* frame_number and dirty are what malloc left there.
NewPage(b) ==
  [isvalid |-> 0, frame_number |-> Unset, block_number |-> b, dirty |-> Unset]

\* The tables with a new page at the end of the list of p.
ExtendTables(p) ==
  /\ \E b \in Blocks :
       /\ get_new_block(b)
       /\ pages' = [pages EXCEPT ![<<p, count[p]>>] = NewPage(b)]
       /\ blocks' = [blocks EXCEPT ![b].page = <<p, count[p]>>]
  /\ count' = [count EXCEPT ![p] = @ + 1]
  /\ UNCHANGED <<frames, sec_chance_index>>

pager_extend(p) ==
  /\ client[p] = "live"
  /\ count[p] < MaxPages
  /\ ExtendTables(p)
  /\ UNCHANGED <<pmem, disk, pte, client>>

\* pager_extend without a free block: the client gets NULL.
pager_extend_fails(p) ==
  /\ client[p] = "live"
  /\ \A b \in Blocks : blocks[b].page # NULL
  /\ UNCHANGED vars

-----------------------------------------------------------------------------
(* pager_fault *)

\* Access to page i of p that its protection forbids: the client's SIGSEGV
\* handler sends SEGV_REQ and the client thread calls pager_fault.
Faults(p, i) ==
  /\ client[p] = "live"
  /\ i < count[p]
  /\ pte[<<p, i>>].prot # "RW"

\* The page is in memory: the access is taken for a write.
ValidTables(pg) ==
  /\ pages[pg].isvalid = 1
  /\ frames' = [frames EXCEPT ![pages[pg].frame_number].accessed = 1]
  /\ pages' = [pages EXCEPT ![pg].dirty = 1]
  /\ UNCHANGED <<sec_chance_index, blocks, count>>

pager_fault_valid(p, i) ==
  /\ Faults(p, i)
  /\ ValidTables(<<p, i>>)
  /\ pte' = [pte EXCEPT ![<<p, i>>].prot = "RW"]
  /\ UNCHANGED <<pmem, disk, client>>

\* get_new_frame returns f: the first frame without a pid.
get_new_frame(f) ==
  /\ frames[f].pid = NoPid
  /\ \A g \in Frames : g < f => frames[g].pid # NoPid

FrameFor(pg) == [pid |-> pg[1], page |-> pg, accessed |-> 1]

\* Page record of a page that was just given frame f.
Placed(page, f) ==
  [page EXCEPT !.isvalid = 1, !.frame_number = f, !.dirty = 0]

\* mmu_disk_read or mmu_zero_fill: what frame f is filled with for a page on
\* block b, from the block table bt and the disk dk.
Filled(b, bt, dk) == IF bt[b].used = 1 THEN dk[b] ELSE Zero

\* Mutant: the page is mapped for writing at once.
ResidentWritable(f) == [frame |-> f, prot |-> "RW"]

\* mmu_resident: the client maps page pg on frame f, read-only.
Resident(f) == [frame |-> f, prot |-> "READ"]

\* The tables with page pg in the free frame f.
FreeFrameTables(pg, f) ==
  /\ pages[pg].isvalid = 0
  /\ get_new_frame(f)
  /\ frames' = [frames EXCEPT ![f] = FrameFor(pg)]
  /\ pages' = [pages EXCEPT ![pg] = Placed(@, f)]
  /\ UNCHANGED <<sec_chance_index, blocks, count>>

pager_fault_free_frame(p, i) ==
  LET pg == <<p, i>> IN
  /\ Faults(p, i)
  /\ \E f \in Frames :
       /\ FreeFrameTables(pg, f)
       /\ pmem' = [pmem EXCEPT ![f] = Filled(pages[pg].block_number, blocks, disk)]
       /\ pte' = [pte EXCEPT ![pg] = Resident(f)]
  /\ UNCHANGED <<disk, client>>

\* The frame second_chance looks at in its (j+1)-st turn.
HandAt(j) == (sec_chance_index + j) % NFrames

\* Mutant: the hand is not wrapped around.
NextHandNoWrap(v) == v + 1

\* sec_chance_index once frame v was looked at.
NextHand(v) == (v + 1) % NFrames

\* second_chance passes over k frames and takes the next one.  Once it has
\* cleared every bit it is back where it began.
second_chance(k) ==
  /\ \A j \in 0..(k - 1) : frames[HandAt(j)].accessed # 0
  /\ k < NFrames => frames[HandAt(k)].accessed = 0

\* Frame table after second_chance passed over k frames.
Swept(k) ==
  [f \in Frames |-> IF \E j \in 0..(k - 1) : HandAt(j) = f
                    THEN [frames[f] EXCEPT !.accessed = 0] ELSE frames[f]]

\* Mutant: mmu_nonresident is only called for frame 0.
HiddenFrameZeroOnly(v) == IF v = 0 THEN {frames[f].page : f \in Frames} ELSE {}

\* Pages swap_out_page(v) makes inaccessible: the victim, and the page of
\* every frame when the victim is frame 0.
Hidden(v) ==
  IF v = 0 THEN {frames[f].page : f \in Frames} ELSE {frames[v].page}

\* Mutant: a page that has a copy on disk is never written again.
WriteBackOnce(v) ==
  /\ pages[frames[v].page].dirty = 1
  /\ blocks[pages[frames[v].page].block_number].used = 0

\* swap_out_page copies the victim to its block only when it is dirty.
WriteBack(v) == pages[frames[v].page].dirty = 1

\* The tables with page pg in the frame second_chance chose after passing over
\* k others.
EvictTables(pg, k) ==
  LET v == HandAt(k)
      old == frames[v].page
  IN
  /\ pages[pg].isvalid = 0
  /\ \A f \in Frames : frames[f].pid # NoPid
  /\ second_chance(k)
  /\ sec_chance_index' = NextHand(v)
  /\ frames' = [Swept(k) EXCEPT ![v] = FrameFor(pg)]
  /\ pages' = [pages EXCEPT ![old].isvalid = 0, ![pg] = Placed(@, v)]
  /\ blocks' = IF WriteBack(v) THEN [blocks EXCEPT ![pages[old].block_number].used = 1]
               ELSE blocks
  /\ UNCHANGED count

pager_fault_evict(p, i) ==
  LET pg == <<p, i>> IN
  /\ Faults(p, i)
  /\ \E k \in 0..NFrames :
       LET v == HandAt(k)
           home == pages[frames[v].page].block_number
       IN
       /\ EvictTables(pg, k)
       /\ disk' = IF WriteBack(v) THEN [disk EXCEPT ![home] = pmem[v]] ELSE disk
       /\ pmem' = [pmem EXCEPT
                     ![v] = Filled(pages[pg].block_number, blocks', disk')]
       /\ pte' = [q \in PageIds |->
                    IF q = pg THEN Resident(v)
                    ELSE IF q \in Hidden(v) THEN [pte[q] EXCEPT !.prot = "NONE"]
                    ELSE pte[q]]
  /\ UNCHANGED client

-----------------------------------------------------------------------------
(* The clients, and pager_destroy *)

\* The client stores v in its page i through its mapping.
Write(p, i, v) ==
  /\ client[p] = "live"
  /\ i < count[p]
  /\ pte[<<p, i>>].prot = "RW"
  /\ pmem' = [pmem EXCEPT ![pte[<<p, i>>].frame] = v]
  /\ UNCHANGED <<tables, count, disk, pte, client>>

\* The client calls exit: it stops using its memory before the pager knows.
\* (A client that dies with a request under way is in MmuSystem.)
ClientExit(p) ==
  /\ client[p] = "live"
  /\ client' = [client EXCEPT ![p] = "exiting"]
  /\ UNCHANGED <<tables, count, pmem, disk, pte>>

\* Mutant: isvalid is not tested, and a page that was swapped out keeps the
\* number of the frame it had.
ReleasedFramesOfAllPages(p) ==
  [f \in Frames |->
     IF \E i \in 0..(count[p] - 1) : pages[<<p, i>>].frame_number = f
     THEN [frames[f] EXCEPT !.pid = NoPid] ELSE frames[f]]

\* The frames of the resident pages of p lose their pid, nothing else.
ReleasedFrames(p) ==
  [f \in Frames |->
     IF \E i \in 0..(count[p] - 1) :
          pages[<<p, i>>].isvalid = 1 /\ pages[<<p, i>>].frame_number = f
     THEN [frames[f] EXCEPT !.pid = NoPid] ELSE frames[f]]

\* The blocks of p lose their page; `used' keeps its value.
ReleasedBlocks(p) ==
  [b \in Blocks |->
     IF \E i \in 0..(count[p] - 1) : pages[<<p, i>>].block_number = b
     THEN [blocks[b] EXCEPT !.page = NULL] ELSE blocks[b]]

pager_destroy(p) ==
  /\ client[p] = "exiting"
  /\ client' = [client EXCEPT ![p] = "dead"]
  /\ frames' = ReleasedFrames(p)
  /\ blocks' = ReleasedBlocks(p)
  /\ count' = [count EXCEPT ![p] = 0]
  /\ UNCHANGED <<sec_chance_index, pages, pmem, disk, pte>>

-----------------------------------------------------------------------------
pager_fault(p, i) ==
  \/ pager_fault_valid(p, i)
  \/ pager_fault_free_frame(p, i)
  \/ pager_fault_evict(p, i)

Next ==
  \E p \in Pids :
    \/ pager_create(p)
    \/ pager_extend(p)
    \/ pager_extend_fails(p)
    \/ \E i \in 0..(MaxPages - 1) : pager_fault(p, i)
    \/ \E i \in 0..(MaxPages - 1), v \in Values : Write(p, i, v)
    \/ ClientExit(p)
    \/ pager_destroy(p)

Spec == Init /\ [][Next]_vars

-----------------------------------------------------------------------------
(* Correctness properties *)

\* Frames and resident pages point at each other: a frame with a pid holds a
\* resident page of that process with its accessed bit assigned, and every
\* resident page of a process has its frame to itself (pager_fault,
\* swap_out_page and pager_destroy each update both tables).
FrameOwnership ==
  /\ \A f \in Frames : frames[f].pid # NoPid =>
       /\ frames[f].page \in PageIds
       /\ frames[f].page[1] = frames[f].pid
       /\ Listed(frames[f].page)
       /\ pages[frames[f].page].isvalid = 1
       /\ pages[frames[f].page].frame_number = f
       /\ frames[f].accessed # Unset
  /\ \A pg \in PageIds : Listed(pg) /\ pages[pg].isvalid = 1 =>
       /\ pages[pg].frame_number \in Frames
       /\ pages[pg].dirty # Unset
       /\ frames[pages[pg].frame_number].pid = pg[1]
       /\ frames[pages[pg].frame_number].page = pg

\* Blocks and pages point at each other: a block is taken exactly while a
\* listed page names it, so no two pages share a block and none is lost when
\* its process is destroyed; only a block malloc gave a non-null page to
\* stays out of use.
BlockOwnership ==
  /\ \A pg \in PageIds : Listed(pg) =>
       /\ pages[pg].block_number \in Blocks
       /\ blocks[pages[pg].block_number].page = pg
  /\ \A b \in Blocks :
       \/ blocks[b].page = NULL
       \/ blocks[b].page = Unset /\ b \in StaleBlocks
       \/ /\ blocks[b].page \in PageIds
          /\ Listed(blocks[b].page)
          /\ pages[blocks[b].page].block_number = b

\* A process reaches physical memory only through the frame the pager gave to
\* that very page: eviction takes the access of the old page away before the
\* frame serves another one (swap_out_page, mmu_resident).
MappedFrameIsOwn ==
  \A pg \in PageIds :
    /\ client[pg[1]] \in {"none", "live"} /\ pte[pg].prot # "NONE" =>
         Listed(pg) /\ pages[pg].isvalid = 1
    /\ Listed(pg) /\ pages[pg].isvalid = 1 =>
         pte[pg].frame = pages[pg].frame_number

\* A resident page whose dirty bit is clear can be dropped without a copy: its
\* frame holds what a later fault will load, and no write can change it
\* unnoticed (swap_out_page skips mmu_disk_write for it).
CleanPageMatchesBacking ==
  \A pg \in PageIds :
    Listed(pg) /\ pages[pg].isvalid = 1 /\ pages[pg].dirty = 0 =>
      /\ pte[pg].prot # "RW"
      /\ pmem[pages[pg].frame_number] = Backing(pg)

\* A process whose page list is empty by its phase.
PhaseOK ==
  \A p \in Pids : client[p] \in {"none", "dead"} => count[p] = 0

\* The inductive invariant.
IInv ==
  /\ TypeOK
  /\ PhaseOK
  /\ FrameOwnership
  /\ BlockOwnership
  /\ MappedFrameIsOwn
  /\ CleanPageMatchesBacking

-----------------------------------------------------------------------------
(* The memory the clients see: the abstract specification *)

absStatus ==
  [p \in Pids |-> CASE client[p] = "none" -> "none"
                   [] client[p] = "live" -> "live"
                   [] OTHER -> "gone"]
absSize == [p \in Pids |-> IF client[p] = "live" THEN count[p] ELSE 0]
absMem ==
  [pg \in PageIds |-> IF client[pg[1]] = "live" /\ Listed(pg)
                      THEN Content(pg) ELSE Unset]

PM == INSTANCE PageMemory
        WITH InitialContents <- Values, NoContents <- Unset,
             status <- absStatus, size <- absSize, mem <- absMem

\* The contents of a page that exists change only when its own process stores
\* to it, and then to the value stored.
OnlyWritesChange ==
  \A pg \in PageIds :
    absMem[pg] # Unset /\ absMem'[pg] \notin {Unset, absMem[pg]} =>
      \E v \in Values : Write(pg[1], pg[2], v) /\ absMem'[pg] = v

\* The pager implements a private memory per process in which every page
\* holds the last value stored, across eviction, write-back and reload, and
\* the Store steps of that memory are the stores of the programs.
ImplementsPageMemory == PM!Spec /\ [][OnlyWritesChange]_vars
=============================================================================
