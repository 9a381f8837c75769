--------------------------- MODULE FreeListProofs ---------------------------
(***************************************************************************)
(* Proofs about FreeList, for every number of blocks: no block is handed   *)
(* out twice or in two places, and the list on disk keeps its order.       *)
(***************************************************************************)
EXTENDS FreeList, SequenceTheorems, TLAPS

LEMMA BlocksFacts ==
  /\ 3 \in DataBlocks
  /\ 0 \notin DataBlocks
  /\ DataBlocks \subseteq Nat
BY NBlocksAssumption DEF DataBlocks

LEMMA InitInv == Init => IInv
<1> SUFFICES ASSUME Init PROVE IInv
  OBVIOUS
<1>1. /\ order \in Seq(DataBlocks) /\ Len(order) = NBlocks - 3
      /\ \A i \in 1..Len(order) : order[i] = i + 2
  <2>1. PICK n \in Nat : n = NBlocks - 3
    BY NBlocksAssumption
  <2>2. order = [i \in 1..n |-> i + 2]
    BY <2>1 DEF Init
  <2>3. \A i \in 1..n : i + 2 \in DataBlocks
    BY <2>1, NBlocksAssumption DEF DataBlocks
  <2>4. order \in [1..n -> DataBlocks]
    BY <2>2, <2>3
  <2>5. order \in Seq(DataBlocks) /\ Len(order) = n
    BY <2>4, SeqDef
  <2> QED
    BY <2>1, <2>2, <2>5
<1>2. TypeOK
  <2>1. next \in [DataBlocks -> DataBlocks \cup {0}]
    BY NBlocksAssumption DEF Init, DataBlocks
  <2>2. freeblks \in Nat
    BY NBlocksAssumption DEF Init
  <2> QED
    BY <1>1, <2>1, <2>2, BlocksFacts DEF Init, TypeOK
<1>3. CountIsOneLess
  <2>1. freeblks = NBlocks - 4 /\ Len(order) = NBlocks - 3
    BY <1>1 DEF Init
  <2> QED
    BY <2>1, NBlocksAssumption DEF CountIsOneLess
<1>4. ListIsIntact
  <2>1. freelist = Nth(1)
    <3>1. freelist = 3
      BY DEF Init
    <3>2. 1 \in 1..Len(order) /\ order[1] = 3
      BY <1>1, NBlocksAssumption
    <3> QED
      BY <1>1, <3>1, <3>2, NBlocksAssumption DEF Nth
  <2>2. \A i \in 1..Len(order) : next[order[i]] = Nth(i + 1)
    <3> SUFFICES ASSUME NEW i \in 1..Len(order) PROVE next[order[i]] = Nth(i + 1)
      OBVIOUS
    <3>1. order[i] = i + 2 /\ i + 2 \in DataBlocks /\ i \in Nat
      BY <1>1, NBlocksAssumption DEF DataBlocks
    <3>2. next[i + 2] = IF i + 3 = NBlocks THEN 0 ELSE i + 3
      BY <3>1 DEF Init
    <3>3. i + 3 = NBlocks <=> ~ (i + 1 <= Len(order))
      BY <1>1, <3>1, NBlocksAssumption
    <3>4. i + 1 <= Len(order) => order[i + 1] = i + 3
      BY <1>1, <3>1
    <3> QED
      BY <3>1, <3>2, <3>3, <3>4 DEF Nth
  <2> QED
    BY <1>1, <2>1, <2>2 DEF ListIsIntact
<1>5. BlocksAreAccountedFor
  <2>1. Listed = DataBlocks
    <3>1. ASSUME NEW b \in DataBlocks PROVE b \in Listed
      <4>1. b - 2 \in 1..Len(order) /\ order[b - 2] = b
        BY <1>1, NBlocksAssumption DEF DataBlocks
      <4> QED
        BY <4>1 DEF Listed
    <3>2. Listed \subseteq DataBlocks
      BY <1>1, ElementOfSeq DEF Listed
    <3> QED
      BY <3>1, <3>2
  <2> QED
    BY <2>1, BlocksFacts DEF Init, BlocksAreAccountedFor
<1> QED
  BY <1>2, <1>3, <1>4, <1>5 DEF IInv, Init, PageIsWritten

-----------------------------------------------------------------------------
(* fs_get_block takes the first block of the list *)

\* The list is not empty and has data blocks at its places.
LEMMA ListFacts ==
  ASSUME IInv
  PROVE  /\ freeblks \in Nat /\ Len(order) \in Nat /\ Len(order) > 0 /\ order # << >>
         /\ \A i \in 1..Len(order) : order[i] \in DataBlocks /\ order[i] \in Listed
         /\ Listed \subseteq DataBlocks
         /\ freelist = order[1]
<1>1. order \in Seq(DataBlocks) /\ freeblks \in Nat /\ Len(order) = freeblks + 1
  BY DEF IInv, TypeOK, CountIsOneLess
<1>2. order # << >>
  BY <1>1, EmptySeq
<1>3. \A i \in 1..Len(order) : order[i] \in DataBlocks
  BY <1>1, ElementOfSeq
<1> QED
  BY <1>1, <1>2, <1>3 DEF Listed, IInv, ListIsIntact, Nth

LEMMA GetInv ==
  ASSUME IInv, fs_get_block
  PROVE  IInv'
<1> USE DEF IInv
<1>1. freeblks \in Nat /\ freeblks # 0 /\ freeblks - 1 \in Nat
  BY DEF fs_get_block, BlockLeft, TypeOK
<1>2. /\ order \in Seq(DataBlocks) /\ Len(order) = freeblks + 1 /\ order # << >>
      /\ freelist = order[1] /\ freelist \in Listed
      /\ \A i \in 1..Len(order) : order[i] \in DataBlocks
  BY <1>1, ListFacts DEF TypeOK, CountIsOneLess
<1>3. /\ order' \in Seq(DataBlocks) /\ Len(order') = freeblks
      /\ \A i \in 1..freeblks : order'[i] = order[i + 1] /\ i + 1 \in 1..Len(order)
  <2>1. order' = Tail(order)
    BY DEF fs_get_block
  <2>2. /\ Tail(order) \in Seq(DataBlocks)
        /\ Len(Tail(order)) = Len(order) - 1
        /\ \A i \in 1..Len(Tail(order)) : Tail(order)[i] = order[i + 1]
    BY <1>2, HeadTailProperties
  <2> QED
    BY <1>1, <1>2, <2>1, <2>2
<1>4. \A i \in 1..freeblks : Nth(i)' = Nth(i + 1)
  BY <1>1, <1>2, <1>3 DEF Nth
<1>5. \A i \in 1..freeblks : i = freeblks => Nth(i + 1)' = 0 /\ Nth((i + 1) + 1) = 0
  BY <1>1, <1>2, <1>3 DEF Nth
<1>6. next[freelist] = Nth(2) /\ Nth(2) = order[2] /\ order[2] \in DataBlocks
  <2>1. 1 \in 1..Len(order) /\ 2 \in 1..Len(order) /\ 1 + 1 = 2
    BY <1>1, <1>2
  <2> QED
    BY <1>2, <2>1 DEF ListIsIntact, Nth
<1>7. TypeOK'
  BY <1>1, <1>2, <1>3, <1>6 DEF fs_get_block, TypeOK
<1>8. CountIsOneLess'
  BY <1>1, <1>3 DEF CountIsOneLess, fs_get_block
<1>9. ListIsIntact'
  <2>1. freelist' = Nth(1)'
    BY <1>1, <1>4, <1>6 DEF fs_get_block
  <2>2. \A i \in 1..Len(order') : next'[order'[i]] = Nth(i + 1)'
    <3> SUFFICES ASSUME NEW i \in 1..freeblks PROVE next'[order'[i]] = Nth(i + 1)'
      BY <1>3
    <3>1. order'[i] = order[i + 1] /\ next[order[i + 1]] = Nth((i + 1) + 1) /\ next' = next
      BY <1>3 DEF ListIsIntact, fs_get_block
    <3>2. CASE i = freeblks
      BY <1>1, <1>5, <3>1, <3>2
    <3>3. CASE i # freeblks
      <4>1. i + 1 \in 1..freeblks
        BY <1>1, <3>3
      <4> QED
        BY <1>4, <3>1, <4>1
    <3> QED
      BY <3>2, <3>3
  <2>3. \A i, j \in 1..Len(order') : order'[i] = order'[j] => i = j
    <3> SUFFICES ASSUME NEW i \in 1..freeblks, NEW j \in 1..freeblks, order'[i] = order'[j]
                 PROVE  i = j
      BY <1>3
    <3>1. order[i + 1] = order[j + 1] /\ i + 1 \in 1..Len(order) /\ j + 1 \in 1..Len(order)
      BY <1>3
    <3>2. i + 1 = j + 1
      BY <3>1 DEF ListIsIntact
    <3> QED
      BY <3>2
  <2> QED
    BY <2>1, <2>2, <2>3 DEF ListIsIntact
<1>10. Listed' = Listed \ {freelist}
  <2>1. ASSUME NEW b \in Listed' PROVE b \in Listed /\ b # freelist
    <3>1. PICK i \in 1..freeblks : b = order[i + 1] /\ i + 1 \in 1..Len(order)
      BY <1>3 DEF Listed
    <3>2. 1 \in 1..Len(order) /\ i + 1 # 1
      BY <1>1, <1>2
    <3>3. b # order[1]
      BY <3>1, <3>2 DEF ListIsIntact
    <3> QED
      BY <1>2, <3>1, <3>3 DEF Listed
  <2>2. ASSUME NEW b \in Listed, b # freelist PROVE b \in Listed'
    <3>1. PICK i \in 1..Len(order) : b = order[i]
      BY DEF Listed
    <3>2. i # 1
      BY <1>2, <2>2, <3>1
    <3>3. i - 1 \in 1..freeblks /\ (i - 1) + 1 = i
      BY <1>1, <1>2, <3>1, <3>2
    <3>4. order'[i - 1] = b /\ i - 1 \in 1..Len(order')
      BY <1>3, <3>1, <3>3
    <3> QED
      BY <3>4 DEF Listed
  <2> QED
    BY <2>1, <2>2
<1>11. BlocksAreAccountedFor'
  <2>1. freelist \in Listed /\ freelist \in DataBlocks
    BY <1>2 DEF TypeOK
  <2>2. /\ putting = 0 /\ putting' = putting /\ lost' = lost
        /\ held' = held \cup {freelist}
    BY DEF fs_get_block
  <2> QED
    BY <1>10, <2>1, <2>2, BlocksFacts DEF BlocksAreAccountedFor
<1> QED
  BY <1>7, <1>8, <1>9, <1>11 DEF fs_get_block, PageIsWritten

-----------------------------------------------------------------------------
(* Writes to blocks that are not in the list leave it as it is *)

\* next changes at a held block only.
LEMMA WriteKeepsList ==
  ASSUME IInv, NEW b \in held,
         UNCHANGED <<freelist, freeblks, order>>,
         next' \in [DataBlocks -> DataBlocks \cup {0}],
         \A c \in DataBlocks \ {b} : next'[c] = next[c]
  PROVE  ListIsIntact' /\ CountIsOneLess' /\ Listed' = Listed
<1> USE DEF IInv
<1>1. b \notin Listed
  BY DEF BlocksAreAccountedFor
<1>2. \A i \in 1..Len(order) : next'[order[i]] = next[order[i]]
  BY <1>1, ListFacts
<1>3. \A i : Nth(i)' = Nth(i)
  BY DEF Nth
<1>4. ListIsIntact'
  BY <1>2, <1>3 DEF ListIsIntact
<1> QED
  BY <1>4 DEF Listed, CountIsOneLess

LEMMA OverwriteInv ==
  ASSUME IInv, NEW b \in DataBlocks, NEW n \in DataBlocks \cup {0}, Overwrite(b, n)
  PROVE  IInv'
<1>1. /\ next' \in [DataBlocks -> DataBlocks \cup {0}]
      /\ \A c \in DataBlocks \ {b} : next'[c] = next[c]
      /\ b \in held
  BY DEF Overwrite, IInv, TypeOK
<1>2. ListIsIntact' /\ CountIsOneLess' /\ Listed' = Listed
  BY <1>1, WriteKeepsList DEF Overwrite
<1>3. TypeOK'
  BY <1>1 DEF Overwrite, IInv, TypeOK
<1>4. BlocksAreAccountedFor'
  BY <1>2 DEF Overwrite, IInv, BlocksAreAccountedFor
<1> QED
  BY <1>2, <1>3, <1>4 DEF IInv, Overwrite, PageIsWritten

LEMMA PutPageInv ==
  ASSUME IInv, NEW b \in DataBlocks, fs_put_block_page(b)
  PROVE  IInv'
<1>1. /\ next' \in [DataBlocks -> DataBlocks \cup {0}]
      /\ \A c \in DataBlocks \ {b} : next'[c] = next[c]
      /\ b \in held
  BY DEF fs_put_block_page, PageTo, IInv, TypeOK
<1>2. ListIsIntact' /\ CountIsOneLess' /\ Listed' = Listed
  BY <1>1, WriteKeepsList DEF fs_put_block_page
<1>3. TypeOK'
  BY <1>1 DEF fs_put_block_page, IInv, TypeOK
<1>4. BlocksAreAccountedFor'
  BY <1>1, <1>2, BlocksFacts DEF fs_put_block_page, IInv, BlocksAreAccountedFor, TypeOK
<1>5. PageIsWritten'
  BY DEF fs_put_block_page, PageTo, IInv, TypeOK, PageIsWritten
<1> QED
  BY <1>2, <1>3, <1>4, <1>5 DEF IInv
-----------------------------------------------------------------------------
(* The second write of fs_put_block, and a crash before it *)

LEMMA PutSuperInv ==
  ASSUME IInv, fs_put_block_super
  PROVE  IInv'
<1> USE DEF IInv
<1>1. putting \in DataBlocks /\ putting # 0 /\ freeblks \in Nat
  BY DEF fs_put_block_super, TypeOK
<1>2. /\ order \in Seq(DataBlocks) /\ Len(order) \in Nat /\ Len(order) > 0
      /\ freelist = order[1] /\ Listed \subseteq DataBlocks
      /\ \A i \in 1..Len(order) : order[i] \in Listed
  BY ListFacts DEF TypeOK
<1>3. /\ order' \in Seq(DataBlocks) /\ Len(order') = Len(order) + 1
      /\ order'[1] = putting
      /\ \A i \in 1..Len(order) : i + 1 \in 1..Len(order') /\ order'[i + 1] = order[i]
  <2>1. order' = <<putting>> \o order
    BY DEF fs_put_block_super
  <2>2. <<putting>> \in Seq(DataBlocks) /\ Len(<<putting>>) = 1 /\ <<putting>>[1] = putting
    BY <1>1
  <2>3. /\ <<putting>> \o order \in Seq(DataBlocks)
        /\ Len(<<putting>> \o order) = Len(<<putting>>) + Len(order)
        /\ \A i \in 1..(Len(<<putting>>) + Len(order)) :
             (<<putting>> \o order)[i] =
               IF i <= Len(<<putting>>) THEN <<putting>>[i] ELSE order[i - Len(<<putting>>)]
    BY <1>2, <2>2, ConcatProperties
  <2>4. Len(order') = Len(order) + 1
    BY <1>2, <2>1, <2>2, <2>3
  <2>5. order'[1] = putting
    BY <1>2, <2>1, <2>2, <2>3
  <2>6. ASSUME NEW i \in 1..Len(order)
        PROVE  i + 1 \in 1..Len(order') /\ order'[i + 1] = order[i]
    <3>1. i + 1 \in 1..(1 + Len(order)) /\ ~ (i + 1 <= 1) /\ (i + 1) - 1 = i
      BY <1>2
    <3> QED
      BY <1>2, <2>1, <2>2, <2>3, <2>4, <3>1
  <2> QED
    BY <2>1, <2>3, <2>4, <2>5, <2>6
<1>4. ASSUME NEW i \in 1..Len(order'), i # 1
      PROVE  \E k \in 1..Len(order) : i = k + 1
  <2>1. i - 1 \in 1..Len(order) /\ i = (i - 1) + 1
    BY <1>2, <1>3, <1>4
  <2> QED
    BY <2>1
<1>5. Listed' = Listed \cup {putting}
  <2>1. ASSUME NEW b \in Listed' PROVE b \in Listed \cup {putting}
    <3>1. PICK i \in 1..Len(order') : b = order'[i]
      BY DEF Listed
    <3>2. CASE i = 1
      BY <1>3, <3>1, <3>2
    <3>3. CASE i # 1
      BY <1>2, <1>3, <1>4, <3>1, <3>3
    <3> QED
      BY <3>2, <3>3
  <2>2. ASSUME NEW b \in Listed PROVE b \in Listed'
    BY <1>3 DEF Listed
  <2>3. putting \in Listed'
    <3>1. 1 \in 1..Len(order')
      BY <1>2, <1>3
    <3> QED
      BY <1>3, <3>1 DEF Listed
  <2> QED
    BY <2>1, <2>2, <2>3
<1>6. TypeOK' /\ CountIsOneLess'
  BY <1>1, <1>2, <1>3 DEF fs_put_block_super, SavedHead, TypeOK, CountIsOneLess
<1>7. ListIsIntact'
  <2>1. freelist' = Nth(1)'
    BY <1>2, <1>3 DEF fs_put_block_super, SavedHead, Nth
  <2>2. \A k \in 1..(Len(order) + 1) : Nth(k + 1)' = Nth(k)
    <3> SUFFICES ASSUME NEW k \in 1..(Len(order) + 1) PROVE Nth(k + 1)' = Nth(k)
      OBVIOUS
    <3>1. k + 1 <= Len(order') <=> k <= Len(order)
      BY <1>2, <1>3
    <3>2. k <= Len(order) => order'[k + 1] = order[k]
      BY <1>2, <1>3
    <3> QED
      BY <3>1, <3>2 DEF Nth
  <2>3. next' = next /\ next[putting] = freelist
    BY <1>1 DEF fs_put_block_super, PageIsWritten
  <2>4. \A i \in 1..Len(order') : next'[order'[i]] = Nth(i + 1)'
    <3> SUFFICES ASSUME NEW i \in 1..Len(order') PROVE next'[order'[i]] = Nth(i + 1)'
      OBVIOUS
    <3>1. i \in 1..(Len(order) + 1)
      BY <1>2, <1>3
    <3>2. CASE i = 1
      BY <1>3, <2>2, <2>3, <3>1, <3>2 DEF ListIsIntact
    <3>3. CASE i # 1
      <4>1. PICK k \in 1..Len(order) : i = k + 1
        BY <1>4, <3>3
      <4>2. next[order[k]] = Nth(i)
        BY <4>1 DEF ListIsIntact
      <4> QED
        BY <1>3, <2>2, <2>3, <3>1, <4>1, <4>2
    <3> QED
      BY <3>2, <3>3
  <2>5. \A i, j \in 1..Len(order') : order'[i] = order'[j] => i = j
    <3>1. putting \notin Listed
      BY DEF BlocksAreAccountedFor
    <3>2. ASSUME NEW k \in 1..Len(order) PROVE order'[k + 1] # putting
      BY <1>2, <1>3, <3>1
    <3>3. ASSUME NEW k \in 1..Len(order), NEW l \in 1..Len(order),
                 order'[k + 1] = order'[l + 1]
          PROVE  k = l
      BY <1>3, <3>3 DEF ListIsIntact
    <3> QED
      BY <1>3, <1>4, <3>2, <3>3
  <2> QED
    BY <2>1, <2>4, <2>5 DEF ListIsIntact
<1>8. BlocksAreAccountedFor'
  BY <1>1, <1>5, BlocksFacts DEF BlocksAreAccountedFor, fs_put_block_super, TypeOK
<1> QED
  BY <1>6, <1>7, <1>8 DEF fs_put_block_super, PageIsWritten

LEMMA CrashInv ==
  ASSUME IInv, Crash
  PROVE  IInv'
<1>1. ListIsIntact' /\ CountIsOneLess' /\ Listed' = Listed
  BY DEF Crash, IInv, ListIsIntact, Nth, CountIsOneLess, Listed
<1>2. TypeOK' /\ PageIsWritten'
  BY DEF Crash, IInv, TypeOK, PageIsWritten
<1>3. BlocksAreAccountedFor'
  BY <1>1, BlocksFacts DEF Crash, IInv, BlocksAreAccountedFor, TypeOK
<1> QED
  BY <1>1, <1>2, <1>3 DEF IInv

-----------------------------------------------------------------------------
(* The theorems *)

LEMMA StepInv == IInv /\ [Next]_vars => IInv'
<1> SUFFICES ASSUME IInv, [Next]_vars PROVE IInv'
  OBVIOUS
<1>1. CASE fs_get_block
  BY <1>1, GetInv
<1>2. CASE \E b \in DataBlocks : fs_put_block_page(b)
  BY <1>2, PutPageInv
<1>3. CASE \E b \in DataBlocks, n \in DataBlocks \cup {0} : Overwrite(b, n)
  BY <1>3, OverwriteInv
<1>4. CASE fs_put_block_super
  BY <1>4, PutSuperInv
<1>5. CASE Crash
  BY <1>5, CrashInv
<1>6. CASE UNCHANGED vars
  BY <1>6 DEF vars, IInv, TypeOK, PageIsWritten, CountIsOneLess, ListIsIntact, Nth,
              BlocksAreAccountedFor, Listed
<1> QED
  BY <1>1, <1>2, <1>3, <1>4, <1>5, <1>6 DEF Next

\* The inductive invariant holds in every reachable state.
THEOREM Invariance == Spec => []IInv
BY InitInv, StepInv, PTL DEF Spec

\* Head, count and freepages of the list keep their types: no zero is followed.
THEOREM TypeCorrect == Spec => []TypeOK
<1>1. IInv => TypeOK
  BY DEF IInv
<1> QED
  BY <1>1, Invariance, PTL

\* Every block is held, free, on its way back or lost in a crash, and only one
\* of these.
THEOREM NothingLeaks == Spec => []BlocksAreAccountedFor
<1>1. IInv => BlocksAreAccountedFor
  BY DEF IInv
<1> QED
  BY <1>1, Invariance, PTL

\* The superblock and the freepages on disk chain the free blocks in one list, each
\* once, in the order in which fs_get_block gives them out.
THEOREM ListStaysIntact == Spec => []ListIsIntact
<1>1. IInv => ListIsIntact
  BY DEF IInv
<1> QED
  BY <1>1, Invariance, PTL

\* fs_get_block never hands out a block that somebody has.
THEOREM NoDoubleAllocation == Spec => []AllocationIsExclusive
<1>1. IInv => AllocationIsExclusive
  <2> SUFFICES ASSUME IInv PROVE freelist \in DataBlocks \ (held \cup {putting})
    BY DEF AllocationIsExclusive
  <2>1. 1 \in 1..Len(order) /\ freelist = order[1]
    BY ListFacts
  <2>2. freelist \in Listed
    BY <2>1 DEF Listed
  <2> QED
    BY <2>2 DEF IInv, TypeOK, BlocksAreAccountedFor
<1> QED
  BY <1>1, Invariance, PTL
=============================================================================
