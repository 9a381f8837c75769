------------------------------ MODULE FreeList ------------------------------
(***************************************************************************)
(* The list of free blocks of dcc605fs (fs.c): the superblock points at    *)
(* the first free block, every free block holds a freepage that points at  *)
(* the next one.  fs_get_block and fs_put_block are called by the rest of  *)
(* fs.c, which overwrites the blocks it holds with inodes and data.  The   *)
(* program may crash between the two writes of fs_put_block.               *)
(***************************************************************************)
EXTENDS Integers, Sequences

CONSTANT NBlocks  \* sb->blks

ASSUME NBlocksAssumption == NBlocks \in Nat /\ NBlocks > 3

DataBlocks == 3..(NBlocks - 1)

VARIABLES
  freelist,  \* sb->freelist, in memory and, saved, in block 0
  freeblks,  \* sb->freeblks
  next,      \* next[b]: the first word of block b, freepage.next in a free block
  held,      \* blocks that the callers got and did not put back
  putting,   \* block that fs_put_block is putting back, or 0
  lost,      \* blocks a crash took out of use
  order      \* history: the free blocks, the next one to be given out first

vars == <<freelist, freeblks, next, held, putting, lost, order>>

TypeOK ==
  /\ freelist \in DataBlocks
  /\ freeblks \in Nat
  /\ next \in [DataBlocks -> DataBlocks \cup {0}]
  /\ held \subseteq DataBlocks
  /\ putting \in DataBlocks \cup {0}
  /\ lost \subseteq DataBlocks
  /\ order \in Seq(DataBlocks)

\* fs_format: the blocks after the root directory, in their order.
Init ==
  /\ freelist = 3
  /\ freeblks = NBlocks - 4
  /\ next = [b \in DataBlocks |-> IF b + 1 = NBlocks THEN 0 ELSE b + 1]
  /\ held = {}
  /\ putting = 0
  /\ lost = {}
  /\ order = [i \in 1..(NBlocks - 3) |-> i + 2]

\* Mutant: the test for an empty list is off by one.
BlockLeftByCount == freeblks + 1 # 0

\* fs_get_block does not return zero.
BlockLeft == freeblks # 0

fs_get_block ==
  /\ putting = 0
  /\ BlockLeft
  /\ held' = held \cup {freelist}
  /\ freelist' = next[freelist]
  /\ freeblks' = freeblks - 1
  /\ order' = Tail(order)
  /\ UNCHANGED <<next, putting, lost>>

\* Its caller writes what it likes to a block it holds.
Overwrite(b, n) ==
  /\ putting = 0
  /\ b \in held
  /\ next' = [next EXCEPT ![b] = n]
  /\ UNCHANGED <<freelist, freeblks, held, putting, lost, order>>

\* Mutant: the freepage is left as it is.
PageOfFormat(b) == next

\* The freepages once block b got its own.
PageTo(b) == [next EXCEPT ![b] = freelist]

\* fs_put_block writes the freepage of the block,
fs_put_block_page(b) ==
  /\ putting = 0
  /\ b \in held
  /\ next' = PageTo(b)
  /\ putting' = b
  /\ held' = held \ {b}
  /\ UNCHANGED <<freelist, freeblks, lost, order>>

\* Mutant: the superblock in memory is not changed before it is saved.
SavedHeadOld == freelist

\* The head of the list that is saved.
SavedHead == putting

\* and then the superblock.
fs_put_block_super ==
  /\ putting # 0
  /\ freelist' = SavedHead
  /\ freeblks' = freeblks + 1
  /\ putting' = 0
  /\ order' = <<putting>> \o order
  /\ UNCHANGED <<next, held, lost>>

\* The program dies and the image is opened again.
Crash ==
  /\ putting # 0
  /\ putting' = 0
  /\ lost' = lost \cup {putting}
  /\ UNCHANGED <<freelist, freeblks, next, held, order>>

Next ==
  \/ fs_get_block
  \/ \E b \in DataBlocks :
       fs_put_block_page(b) \/ \E n \in DataBlocks \cup {0} : Overwrite(b, n)
  \/ fs_put_block_super
  \/ Crash

Spec == Init /\ [][Next]_vars

-----------------------------------------------------------------------------
(* Correctness properties *)

Listed == {order[i] : i \in 1..Len(order)}

\* No block is handed out twice: the block that fs_get_block would return is
\* nobody's, whatever the holders of other blocks wrote to theirs and whenever
\* the program crashed.
AllocationIsExclusive ==
  BlockLeft => freelist \in DataBlocks \ (held \cup {putting})

\* No block leaks but in a crash, and none is in two places.
BlocksAreAccountedFor ==
  /\ held \cup Listed \cup lost \cup ({putting} \ {0}) = DataBlocks
  /\ held \cap Listed = {}
  /\ putting \notin held \cup Listed
  /\ lost \cap (held \cup Listed \cup {putting}) = {}

\* The block at place i of the list, and the zero at its end.
Nth(i) == IF i <= Len(order) THEN order[i] ELSE 0

\* The superblock and the freepages on disk chain the free blocks, each once and in
\* their order, up to a zero, whatever the holders of other blocks wrote to theirs and
\* whenever the program crashed.
ListIsIntact ==
  /\ freelist = Nth(1)
  /\ \A i \in 1..Len(order) : next[order[i]] = Nth(i + 1)
  /\ \A i, j \in 1..Len(order) : order[i] = order[j] => i = j

\* The block that is being put back already points at the head of the list.
PageIsWritten == putting # 0 => next[putting] = freelist

\* freeblks is one less than the length of the list, which is therefore never empty.
CountIsOneLess == Len(order) = freeblks + 1

\* The inductive invariant.
IInv ==
  /\ TypeOK
  /\ PageIsWritten
  /\ CountIsOneLess
  /\ ListIsIntact
  /\ BlocksAreAccountedFor

-----------------------------------------------------------------------------
(* A statement of the sources that the code does not meet *)

\* fs.h of fs_get_block: "If there are no free blocks, zero is returned".  It is
\* returned while a block is still in the list of free blocks.
ZeroOnlyWhenNoneIsFree == ~ BlockLeft => Listed = {}
=============================================================================
