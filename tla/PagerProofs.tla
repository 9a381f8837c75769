---------------------------- MODULE PagerProofs ----------------------------
(***************************************************************************)
(* Proofs about Pager for every number of processes, frames, blocks and    *)
(* pages: IInv is an invariant, so each of its conjuncts is, and Pager     *)
(* implements PageMemory.  What pager_syslog prints is what clients see.   *)
(***************************************************************************)
EXTENDS Pager, PagerSyslog, TLAPS

USE ValuesAssumption, MarkersAssumption

-----------------------------------------------------------------------------
(* Indices: frames under the clock hand, pages as pairs *)

LEMMA ModInFrames ==
  ASSUME NEW n \in Nat
  PROVE  n % NFrames \in Frames
BY SizesAssumption DEF Frames

LEMMA HandInFrames ==
  ASSUME sec_chance_index \in Frames, NEW j \in Nat
  PROVE  HandAt(j) \in Frames
<1>1. sec_chance_index + j \in Nat
  BY SizesAssumption DEF Frames
<1> QED
  BY <1>1, ModInFrames DEF HandAt

LEMMA NextHandInFrames ==
  ASSUME NEW v \in Frames
  PROVE  NextHand(v) \in Frames
<1>1. v + 1 \in Nat
  BY SizesAssumption DEF Frames
<1> QED
  BY <1>1, ModInFrames DEF NextHand

LEMMA FramesFacts == 0 \in Frames /\ Frames \subseteq Nat
BY SizesAssumption DEF Frames

LEMMA PageIdParts ==
  ASSUME NEW pg \in PageIds
  PROVE  /\ pg[1] \in Pids
         /\ pg[2] \in Nat
         /\ pg[2] < MaxPages
         /\ pg = <<pg[1], pg[2]>>
BY SizesAssumption DEF PageIds

LEMMA PageIdOf ==
  ASSUME NEW p \in Pids, NEW i \in Nat, i < MaxPages
  PROVE  <<p, i>> \in PageIds
BY SizesAssumption DEF PageIds

-----------------------------------------------------------------------------
(* The tables: what pager_* calls do to them, whatever the clients can see.  *)
(* MmuSystem uses these lemmas too, where the other effects of a call come   *)
(* later than the change of the tables.                                      *)

TableTypes ==
  /\ frames \in [Frames -> FrameNode]
  /\ sec_chance_index \in Frames
  /\ blocks \in [Blocks -> BlockNode]
  /\ pages \in [PageIds -> Page]
  /\ count \in [Pids -> 0..MaxPages]

Tables == TableTypes /\ FrameOwnership /\ BlockOwnership

LEMMA SameTables ==
  ASSUME Tables, UNCHANGED <<frames, sec_chance_index, blocks, pages, count>>
  PROVE  Tables'
BY DEF Tables, TableTypes, FrameOwnership, BlockOwnership, Listed

\* What is known of a listed page, of a resident one and of a taken frame.
LEMMA ListedFacts ==
  ASSUME Tables, NEW pg \in PageIds, Listed(pg)
  PROVE  /\ pages[pg].block_number \in Blocks
         /\ blocks[pages[pg].block_number].page = pg
         /\ pages[pg].isvalid = 1 =>
              /\ pages[pg].frame_number \in Frames
              /\ pages[pg].dirty \in {0, 1}
              /\ frames[pages[pg].frame_number].pid # NoPid
              /\ frames[pages[pg].frame_number].page = pg
<1>1. pages[pg] \in Page /\ pg[1] \in Pids
  BY PageIdParts DEF Tables, TableTypes
<1> QED
  BY <1>1 DEF Tables, FrameOwnership, BlockOwnership, Page

\* Two listed pages have different blocks, two resident ones different frames.
LEMMA OwnBlock ==
  ASSUME Tables, NEW pg \in PageIds, NEW q \in PageIds, Listed(pg), Listed(q),
         pages[pg].block_number = pages[q].block_number
  PROVE  pg = q
BY ListedFacts

LEMMA OwnFrame ==
  ASSUME Tables, NEW pg \in PageIds, NEW q \in PageIds, Listed(pg), Listed(q),
         pages[pg].isvalid = 1, pages[q].isvalid = 1,
         pages[pg].frame_number = pages[q].frame_number
  PROVE  pg = q
BY ListedFacts

\* ExtendTables(p): p gets a page on the free block b.
Extends(p, b) ==
  LET new == <<p, count[p]>> IN
  /\ new \in PageIds
  /\ ~ Listed(new)
  /\ blocks[b].page = NULL
  /\ pages'[new] = NewPage(b)
  /\ \A pg \in PageIds : pg # new => pages'[pg] = pages[pg]
  /\ \A pg \in PageIds : Listed(pg)' <=> Listed(pg) \/ pg = new
  /\ \A c \in Blocks : blocks'[c].used = blocks[c].used
  /\ blocks'[b].page = new
  /\ \A c \in Blocks : c # b => blocks'[c] = blocks[c]
  /\ count' = [count EXCEPT ![p] = @ + 1]
  /\ UNCHANGED <<frames, sec_chance_index>>

LEMMA ExtendTablesExtends ==
  ASSUME Tables, NEW p \in Pids, count[p] < MaxPages, ExtendTables(p)
  PROVE  TableTypes' /\ \E b \in Blocks : Extends(p, b)
<1> USE DEF Tables, TableTypes
<1> DEFINE new == <<p, count[p]>>
<1>1. PICK b \in Blocks :
        /\ get_new_block(b)
        /\ pages' = [pages EXCEPT ![new] = NewPage(b)]
        /\ blocks' = [blocks EXCEPT ![b].page = new]
  BY DEF ExtendTables
<1>2. /\ count' = [count EXCEPT ![p] = @ + 1]
      /\ UNCHANGED <<frames, sec_chance_index>>
  BY DEF ExtendTables
<1>3. new \in PageIds /\ ~Listed(new) /\ count[p] \in Nat
  BY PageIdOf, SizesAssumption DEF Listed
<1>4. blocks[b].page = NULL
  BY <1>1 DEF get_new_block
<1>5. \A pg \in PageIds : Listed(pg)' <=> Listed(pg) \/ pg = new
  BY <1>2, <1>3, PageIdParts DEF Listed
<1>6. /\ pages'[new] = NewPage(b)
      /\ \A pg \in PageIds : pg # new => pages'[pg] = pages[pg]
  BY <1>1, <1>3
<1>7. /\ blocks'[b].used = blocks[b].used
      /\ blocks'[b].page = new
      /\ \A c \in Blocks : c # b => blocks'[c] = blocks[c]
  BY <1>1, <1>3 DEF BlockNode
<1>8. pages' \in [PageIds -> Page]
  BY <1>1, <1>3 DEF NewPage, Page
<1>9. blocks' \in [Blocks -> BlockNode]
  BY <1>1, <1>3 DEF BlockNode
<1>10. count' \in [Pids -> 0..MaxPages]
  BY <1>2, <1>3, SizesAssumption
<1>11. Extends(p, b)
  BY <1>2, <1>3, <1>4, <1>5, <1>6, <1>7 DEF Extends
<1> QED
  BY <1>2, <1>8, <1>9, <1>10, <1>11

LEMMA ExtendsTables ==
  ASSUME Tables, TableTypes', NEW p \in Pids, NEW b \in Blocks, Extends(p, b)
  PROVE  Tables'
<1> USE DEF Tables
<1>1. PICK new \in PageIds : new = <<p, count[p]>> /\ ~Listed(new)
  BY DEF Extends
<1>2. FrameOwnership'
  BY <1>1 DEF Extends, FrameOwnership, NewPage
<1>3. ASSUME NEW pg \in PageIds, Listed(pg)'
      PROVE  /\ pages'[pg].block_number \in Blocks
             /\ blocks'[pages'[pg].block_number].page = pg
  BY <1>1, <1>3 DEF Extends, BlockOwnership, NewPage
<1>4. ASSUME NEW c \in Blocks
      PROVE  \/ blocks'[c].page = NULL
             \/ blocks'[c].page = Unset /\ c \in StaleBlocks
             \/ /\ blocks'[c].page \in PageIds
                /\ Listed(blocks[c].page)'
                /\ pages'[blocks'[c].page].block_number = c
  <2>1. CASE c = b
    BY <1>1, <2>1 DEF Extends, NewPage
  <2>2. CASE c # b
    BY <1>1, <2>2 DEF Extends, BlockOwnership
  <2> QED
    BY <2>1, <2>2
<1> QED
  BY <1>2, <1>3, <1>4 DEF BlockOwnership

\* ValidTables(pg): only the accessed bit of its frame and its dirty bit change.
LEMMA ValidTablesKeep ==
  ASSUME Tables, NEW pg \in PageIds, Listed(pg), ValidTables(pg)
  PROVE  /\ Tables'
         /\ \A q \in PageIds : Listed(q)' <=> Listed(q)
         /\ pages'[pg].isvalid = 1
         /\ pages'[pg].frame_number = pages[pg].frame_number
         /\ pages'[pg].block_number = pages[pg].block_number
         /\ pages'[pg].dirty = 1
         /\ \A q \in PageIds : q # pg => pages'[q] = pages[q]
         /\ UNCHANGED <<sec_chance_index, blocks, count>>
<1> USE DEF Tables, TableTypes
<1> DEFINE f == pages[pg].frame_number
<1>1. /\ pages[pg].isvalid = 1
      /\ frames' = [frames EXCEPT ![f].accessed = 1]
      /\ pages' = [pages EXCEPT ![pg].dirty = 1]
      /\ UNCHANGED <<sec_chance_index, blocks, count>>
  BY DEF ValidTables
<1>2. f \in Frames
  BY <1>1 DEF FrameOwnership
<1> HIDE DEF f
<1>3. /\ pages'[pg].isvalid = 1
      /\ pages'[pg].frame_number = f
      /\ pages'[pg].block_number = pages[pg].block_number
      /\ pages'[pg].dirty = 1
      /\ \A q \in PageIds : q # pg => pages'[q] = pages[q]
  BY <1>1 DEF Page, f
<1>4. /\ frames'[f].pid = frames[f].pid
      /\ frames'[f].page = frames[f].page
      /\ frames'[f].accessed = 1
      /\ \A g \in Frames : g # f => frames'[g] = frames[g]
  BY <1>1, <1>2 DEF FrameNode
<1>5. \A q : Listed(q)' <=> Listed(q)
  BY <1>1 DEF Listed
<1>6. TableTypes'
  <2>1. [pages[pg] EXCEPT !.dirty = 1] \in Page
    <3>1. pages[pg] \in Page
      OBVIOUS
    <3> QED
      BY <3>1 DEF Page
  <2>2. pages' \in [PageIds -> Page]
    BY <1>1, <2>1
  <2>3. [frames[f] EXCEPT !.accessed = 1] \in FrameNode
    <3>1. frames[f] \in FrameNode
      BY <1>2
    <3> QED
      BY <3>1 DEF FrameNode
  <2>4. frames' \in [Frames -> FrameNode]
    BY <1>1, <1>2, <2>3
  <2> QED
    BY <1>1, <2>2, <2>4
<1>7. FrameOwnership'
  <2>1. frames[f].pid = pg[1] /\ frames[f].page = pg /\ pages[pg].dirty # Unset
    BY <1>1 DEF FrameOwnership, f
  <2>2. ASSUME NEW g \in Frames, frames'[g].pid # NoPid
        PROVE  /\ frames'[g].page \in PageIds
               /\ frames'[g].page[1] = frames'[g].pid
               /\ Listed(frames[g].page)'
               /\ pages'[frames'[g].page].isvalid = 1
               /\ pages'[frames'[g].page].frame_number = g
               /\ frames'[g].accessed # Unset
    <3>1. CASE g = f
      BY <1>3, <1>4, <1>5, <2>1, <3>1, PageIdParts
    <3>2. CASE g # f
      <4>1. frames'[g] = frames[g]
        BY <1>4, <3>2
      <4>2. frames[g].page # pg
        BY <2>2, <4>1, <3>2 DEF FrameOwnership, f
      <4> QED
        BY <1>3, <1>5, <2>2, <4>1, <4>2 DEF FrameOwnership
    <3> QED
      BY <3>1, <3>2
  <2>3. ASSUME NEW q \in PageIds, Listed(q)', pages'[q].isvalid = 1
        PROVE  /\ pages'[q].frame_number \in Frames
               /\ pages'[q].dirty # Unset
               /\ frames'[pages'[q].frame_number].pid = q[1]
               /\ frames'[pages'[q].frame_number].page = q
    <3>1. CASE q = pg
      BY <1>2, <1>3, <1>4, <2>1, <3>1
    <3>2. CASE q # pg
      BY <1>3, <1>4, <1>5, <2>1, <2>3, <3>2 DEF FrameOwnership
    <3> QED
      BY <3>1, <3>2
  <2> QED
    BY <2>2, <2>3 DEF FrameOwnership
<1>8. BlockOwnership'
  BY <1>1, <1>3, <1>5 DEF BlockOwnership
<1> QED
  BY <1>1, <1>3, <1>5, <1>6, <1>7, <1>8 DEF f

\* The page frame f holds before the fault, if any.
Evicted(f, q) == frames[f].pid # NoPid /\ q = frames[f].page

\* What both branches of pager_fault that bring page pg into frame f do to the
\* tables: every other page keeps its place, except that the page evicted from
\* f, if there is one, is no longer resident and, if it is dirty, has a copy.
LoadsTables(pg, f) ==
  /\ frames'[f] = FrameFor(pg)
  /\ \A g \in Frames : g # f =>
       /\ frames'[g].pid = frames[g].pid
       /\ frames'[g].page = frames[g].page
       /\ frames'[g].accessed \in {0, frames[g].accessed}
  /\ pages'[pg] = Placed(pages[pg], f)
  /\ \A q \in PageIds : q # pg =>
       /\ pages'[q].frame_number = pages[q].frame_number
       /\ pages'[q].block_number = pages[q].block_number
       /\ pages'[q].dirty = pages[q].dirty
       /\ pages'[q].isvalid = IF Evicted(f, q) THEN 0 ELSE pages[q].isvalid
  /\ \A b \in Blocks : blocks'[b].page = blocks[b].page
  /\ \A q \in PageIds : Listed(q) =>
       blocks'[pages[q].block_number].used =
         IF Evicted(f, q) /\ pages[q].dirty = 1 THEN 1
         ELSE blocks[pages[q].block_number].used
  /\ UNCHANGED count

\* The page record, and what stays resident, once pg is in frame f.
LEMMA LoadsFacts ==
  ASSUME Tables, NEW pg \in PageIds, NEW f \in Frames,
         Listed(pg), pages[pg].isvalid = 0, LoadsTables(pg, f)
  PROVE  /\ \A q : Listed(q)' <=> Listed(q)
         /\ pages'[pg].isvalid = 1
         /\ pages'[pg].frame_number = f
         /\ pages'[pg].block_number = pages[pg].block_number
         /\ pages'[pg].dirty = 0
         /\ ~ Evicted(f, pg)
         /\ \A q \in PageIds : Listed(q) /\ q # pg /\ pages'[q].isvalid = 1 =>
              /\ pages[q].isvalid = 1
              /\ ~Evicted(f, q)
              /\ pages[q].frame_number \in Frames \ {f}
<1> USE DEF Tables, TableTypes
<1>1. \A q : Listed(q)' <=> Listed(q)
  BY DEF LoadsTables, Listed
<1>2. /\ pages'[pg].isvalid = 1
      /\ pages'[pg].frame_number = f
      /\ pages'[pg].block_number = pages[pg].block_number
      /\ pages'[pg].dirty = 0
  BY DEF LoadsTables, Placed, Page
<1>3. ~ Evicted(f, pg)
  BY DEF Evicted, FrameOwnership
<1>4. ASSUME NEW q \in PageIds, Listed(q), q # pg, pages'[q].isvalid = 1
      PROVE  /\ pages[q].isvalid = 1
             /\ ~Evicted(f, q)
             /\ pages[q].frame_number \in Frames \ {f}
  <2>1. pages[q].isvalid = 1 /\ ~Evicted(f, q)
    BY <1>4 DEF LoadsTables
  <2>2. /\ pages[q].frame_number \in Frames
        /\ frames[pages[q].frame_number].pid # NoPid
        /\ frames[pages[q].frame_number].page = q
    BY <1>4, <2>1, ListedFacts
  <2> QED
    BY <2>1, <2>2 DEF Evicted
<1> QED
  BY <1>1, <1>2, <1>3, <1>4

LEMMA LoadsTablesKeep ==
  ASSUME Tables, TableTypes', NEW pg \in PageIds, NEW f \in Frames,
         Listed(pg), pages[pg].isvalid = 0, LoadsTables(pg, f)
  PROVE  Tables'
<1> USE DEF Tables
<1>1. \A q : Listed(q)' <=> Listed(q)
  BY LoadsFacts
<1>2. /\ pages'[pg].isvalid = 1
      /\ pages'[pg].frame_number = f
      /\ pages'[pg].block_number = pages[pg].block_number
      /\ pages'[pg].dirty = 0
  BY LoadsFacts
<1>3. /\ frames'[f].pid = pg[1]
      /\ frames'[f].page = pg
      /\ frames'[f].accessed = 1
  BY DEF LoadsTables, FrameFor
<1>4. ASSUME NEW g \in Frames, frames'[g].pid # NoPid
      PROVE  /\ frames'[g].page \in PageIds
             /\ frames'[g].page[1] = frames'[g].pid
             /\ Listed(frames[g].page)'
             /\ pages'[frames'[g].page].isvalid = 1
             /\ pages'[frames'[g].page].frame_number = g
             /\ frames'[g].accessed # Unset
  <2>1. CASE g = f
    BY <1>1, <1>2, <1>3, <2>1
  <2>2. CASE g # f
    <3>1. /\ frames'[g].pid = frames[g].pid
          /\ frames'[g].page = frames[g].page
          /\ frames'[g].accessed \in {0, frames[g].accessed}
      BY <2>2 DEF LoadsTables
    <3>2. /\ frames[g].page \in PageIds
          /\ frames[g].page[1] = frames[g].pid
          /\ Listed(frames[g].page)
          /\ pages[frames[g].page].isvalid = 1
          /\ pages[frames[g].page].frame_number = g
          /\ frames[g].accessed # Unset
      BY <1>4, <3>1 DEF FrameOwnership
    <3>3. frames[g].page # pg
      BY <3>2
    <3>4. ~Evicted(f, frames[g].page)
      BY <2>2, <3>2 DEF Evicted, FrameOwnership
    <3>5. /\ pages'[frames[g].page].isvalid = 1
          /\ pages'[frames[g].page].frame_number = g
      BY <3>2, <3>3, <3>4 DEF LoadsTables
    <3> QED
      BY <1>1, <3>1, <3>2, <3>5
  <2> QED
    BY <2>1, <2>2
<1>5. ASSUME NEW q \in PageIds, Listed(q)', pages'[q].isvalid = 1
      PROVE  /\ pages'[q].frame_number \in Frames
             /\ pages'[q].dirty # Unset
             /\ frames'[pages'[q].frame_number].pid = q[1]
             /\ frames'[pages'[q].frame_number].page = q
  <2>1. CASE q = pg
    BY <1>2, <1>3, <2>1
  <2>2. CASE q # pg
    <3>1. /\ pages[q].isvalid = 1
          /\ pages[q].frame_number \in Frames \ {f}
      BY <1>1, <1>5, <2>2, LoadsFacts
    <3>2. /\ pages'[q].frame_number = pages[q].frame_number
          /\ pages'[q].dirty = pages[q].dirty
      BY <2>2 DEF LoadsTables
    <3>3. /\ frames'[pages[q].frame_number].pid = frames[pages[q].frame_number].pid
          /\ frames'[pages[q].frame_number].page = frames[pages[q].frame_number].page
      BY <3>1 DEF LoadsTables
    <3> QED
      BY <1>1, <1>5, <3>1, <3>2, <3>3 DEF FrameOwnership
  <2> QED
    BY <2>1, <2>2
<1>6. FrameOwnership'
  BY <1>4, <1>5 DEF FrameOwnership
<1>7. \A q \in PageIds : pages'[q].block_number = pages[q].block_number
  BY <1>2 DEF LoadsTables
<1>8. \A b \in Blocks : blocks'[b].page = blocks[b].page
  BY DEF LoadsTables
<1>9. BlockOwnership'
  BY <1>1, <1>7, <1>8 DEF BlockOwnership
<1> QED
  BY <1>6, <1>9

\* The frame and the page record of a page that is being loaded.
LEMMA LoadTypes ==
  ASSUME TableTypes, NEW pg \in PageIds, NEW f \in Frames
  PROVE  /\ FrameFor(pg) \in FrameNode
         /\ Placed(pages[pg], f) \in Page
         /\ Resident(f) \in Pte
<1>1. FrameFor(pg) \in FrameNode
  BY PageIdParts DEF FrameFor, FrameNode
<1>2. pages[pg] \in Page
  BY DEF TableTypes
<1>3. Placed(pages[pg], f) \in Page
  BY <1>2 DEF Placed, Page
<1>4. Resident(f) \in Pte
  BY DEF Resident, Pte
<1> QED
  BY <1>1, <1>3, <1>4

LEMMA FreeFrameLoadsTables ==
  ASSUME Tables, NEW pg \in PageIds, Listed(pg), NEW f \in Frames,
         FreeFrameTables(pg, f)
  PROVE  /\ TableTypes'
         /\ LoadsTables(pg, f)
         /\ \A q : ~Evicted(f, q)
         /\ UNCHANGED blocks
<1> USE DEF Tables
<1>1. /\ get_new_frame(f)
      /\ frames' = [frames EXCEPT ![f] = FrameFor(pg)]
      /\ pages' = [pages EXCEPT ![pg] = Placed(@, f)]
      /\ UNCHANGED <<sec_chance_index, blocks, count>>
  BY DEF FreeFrameTables
<1>2. \A q : ~Evicted(f, q)
  BY <1>1 DEF get_new_frame, Evicted
<1>3. TableTypes'
  BY <1>1, LoadTypes DEF TableTypes
<1>4. /\ frames'[f] = FrameFor(pg)
      /\ \A g \in Frames : g # f => frames'[g] = frames[g]
  BY <1>1 DEF TableTypes
<1>5. /\ pages'[pg] = Placed(pages[pg], f)
      /\ \A q \in PageIds : q # pg => pages'[q] = pages[q]
  BY <1>1 DEF TableTypes
<1> QED
  BY <1>1, <1>2, <1>3, <1>4, <1>5 DEF LoadsTables

\* The victim of second_chance.
LEMMA VictimFacts ==
  ASSUME Tables, NEW pg \in PageIds, Listed(pg), NEW k \in 0..NFrames,
         EvictTables(pg, k)
  PROVE  /\ HandAt(k) \in Frames
         /\ frames[HandAt(k)].pid # NoPid
         /\ frames[HandAt(k)].page \in PageIds \ {pg}
         /\ Listed(frames[HandAt(k)].page)
         /\ pages[frames[HandAt(k)].page].isvalid = 1
         /\ pages[frames[HandAt(k)].page].frame_number = HandAt(k)
         /\ pages[frames[HandAt(k)].page].dirty \in {0, 1}
         /\ pages[frames[HandAt(k)].page].block_number \in Blocks
<1>1. HandAt(k) \in Frames
  BY HandInFrames, SizesAssumption DEF Tables, TableTypes
<1>2. PICK v \in Frames : v = HandAt(k)
  BY <1>1
<1>3. pages[pg].isvalid = 0 /\ frames[v].pid # NoPid
  BY <1>2 DEF EvictTables
<1>4. /\ frames[v].page \in PageIds
      /\ Listed(frames[v].page)
      /\ pages[frames[v].page].isvalid = 1
      /\ pages[frames[v].page].frame_number = v
  BY <1>3 DEF Tables, FrameOwnership
<1>5. pages[frames[v].page].dirty \in {0, 1} /\ pages[frames[v].page].block_number \in Blocks
  BY <1>4, ListedFacts
<1> QED
  BY <1>2, <1>3, <1>4, <1>5

LEMMA EvictLoadsTables ==
  ASSUME Tables, NEW pg \in PageIds, Listed(pg), NEW k \in 0..NFrames,
         EvictTables(pg, k)
  PROVE  TableTypes' /\ LoadsTables(pg, HandAt(k))
<1> USE DEF Tables, TableTypes
<1>1. PICK v \in Frames : v = HandAt(k)
  BY VictimFacts
<1>2. PICK old \in PageIds : old = frames[v].page
  BY <1>1, VictimFacts
<1>3. /\ frames[v].pid # NoPid
      /\ old # pg
      /\ Listed(old)
      /\ pages[old].dirty \in {0, 1}
      /\ pages[old].block_number \in Blocks
  BY <1>1, <1>2, VictimFacts
<1> DEFINE home == pages[old].block_number
<1>4. /\ sec_chance_index' = NextHand(v)
      /\ frames' = [Swept(k) EXCEPT ![v] = FrameFor(pg)]
      /\ pages' = [pages EXCEPT ![old].isvalid = 0, ![pg] = Placed(@, v)]
      /\ blocks' = IF pages[old].dirty = 1 THEN [blocks EXCEPT ![home].used = 1] ELSE blocks
      /\ UNCHANGED count
  BY <1>1, <1>2 DEF EvictTables, WriteBack
<1> HIDE DEF home
<1>5. /\ pages'[pg] = Placed(pages[pg], v)
      /\ pages'[old] = [pages[old] EXCEPT !.isvalid = 0]
      /\ \A q \in PageIds : q # pg /\ q # old => pages'[q] = pages[q]
  BY <1>3, <1>4
<1>6. \A f \in Frames : /\ Swept(k)[f].pid = frames[f].pid
                        /\ Swept(k)[f].page = frames[f].page
                        /\ Swept(k)[f].accessed \in {0, frames[f].accessed}
                        /\ Swept(k)[f] \in FrameNode
  <2> SUFFICES ASSUME NEW f \in Frames
               PROVE  /\ Swept(k)[f].pid = frames[f].pid
                      /\ Swept(k)[f].page = frames[f].page
                      /\ Swept(k)[f].accessed \in {0, frames[f].accessed}
                      /\ Swept(k)[f] \in FrameNode
    OBVIOUS
  <2>1. frames[f] \in FrameNode
    OBVIOUS
  <2>2. Swept(k)[f] \in {frames[f], [frames[f] EXCEPT !.accessed = 0]}
    BY DEF Swept
  <2> QED
    BY <2>1, <2>2 DEF FrameNode
<1>7. Swept(k) \in [Frames -> FrameNode]
  BY <1>6 DEF Swept
<1>8. /\ frames'[v] = FrameFor(pg)
      /\ \A f \in Frames : f # v => frames'[f] = Swept(k)[f]
  BY <1>4, <1>7
<1>9. /\ blocks' \in [Blocks -> BlockNode]
      /\ \A b \in Blocks : blocks'[b].page = blocks[b].page
      /\ \A b \in Blocks : b # home => blocks'[b] = blocks[b]
      /\ pages[old].dirty = 1 => blocks'[home].used = 1
      /\ pages[old].dirty # 1 => blocks' = blocks
  <2>1. blocks[home] \in BlockNode /\ home \in Blocks
    BY <1>3 DEF home
  <2>2. [blocks[home] EXCEPT !.used = 1] \in BlockNode
    BY <2>1 DEF BlockNode
  <2>3. CASE pages[old].dirty = 1
    <3>1. blocks'[home] = [blocks[home] EXCEPT !.used = 1]
      BY <1>4, <2>1, <2>3
    <3>2. blocks'[home].page = blocks[home].page /\ blocks'[home].used = 1
      BY <2>1, <3>1 DEF BlockNode
    <3> QED
      BY <1>4, <2>1, <2>2, <2>3, <3>2
  <2>4. CASE pages[old].dirty # 1
    BY <1>4, <2>4
  <2> QED
    BY <2>3, <2>4
<1>10. TableTypes'
  <2>1. frames' \in [Frames -> FrameNode]
    BY <1>4, <1>7, LoadTypes
  <2>2. [pages[old] EXCEPT !.isvalid = 0] \in Page
    <3>1. pages[old] \in Page
      OBVIOUS
    <3> QED
      BY <3>1 DEF Page
  <2>3. pages' \in [PageIds -> Page]
    BY <1>4, <2>2, LoadTypes
  <2>4. sec_chance_index' \in Frames
    BY <1>4, NextHandInFrames
  <2> QED
    BY <1>4, <1>9, <2>1, <2>3, <2>4
<1>11. \A q : Evicted(v, q) <=> q = old
  BY <1>2, <1>3 DEF Evicted
<1>12. \A f \in Frames : f # v =>
         /\ frames'[f].pid = frames[f].pid
         /\ frames'[f].page = frames[f].page
         /\ frames'[f].accessed \in {0, frames[f].accessed}
  BY <1>6, <1>8
<1>13. \A q \in PageIds : q # pg =>
         /\ pages'[q].frame_number = pages[q].frame_number
         /\ pages'[q].block_number = pages[q].block_number
         /\ pages'[q].dirty = pages[q].dirty
         /\ pages'[q].isvalid = IF Evicted(v, q) THEN 0 ELSE pages[q].isvalid
  <2>1. /\ pages'[old].frame_number = pages[old].frame_number
        /\ pages'[old].block_number = pages[old].block_number
        /\ pages'[old].dirty = pages[old].dirty
        /\ pages'[old].isvalid = 0
    BY <1>5 DEF Page
  <2> QED
    BY <1>5, <1>11, <2>1
<1>14. ASSUME NEW q \in PageIds, Listed(q)
       PROVE  blocks'[pages[q].block_number].used =
                IF q = old /\ pages[q].dirty = 1 THEN 1
                ELSE blocks[pages[q].block_number].used
  <2>1. CASE q = old
    BY <1>9, <2>1 DEF home
  <2>2. CASE q # old
    <3>1. pages[q].block_number \in Blocks /\ pages[q].block_number # home
      BY <1>3, <1>14, <2>2, ListedFacts, OwnBlock DEF home
    <3> QED
      BY <1>9, <2>2, <3>1
  <2> QED
    BY <2>1, <2>2
<1>15. LoadsTables(pg, v)
  BY <1>4, <1>5, <1>8, <1>9, <1>11, <1>12, <1>13, <1>14 DEF LoadsTables
<1> QED
  BY <1>1, <1>10, <1>15

\* The tables of pager_destroy(p).
LEMMA DestroyTables ==
  ASSUME Tables, NEW p \in Pids,
         frames' = ReleasedFrames(p), blocks' = ReleasedBlocks(p),
         count' = [count EXCEPT ![p] = 0], UNCHANGED <<sec_chance_index, pages>>
  PROVE  /\ Tables'
         /\ \A q \in PageIds : Listed(q)' <=> Listed(q) /\ q[1] # p
         /\ \A q \in PageIds : Listed(q) /\ q[1] # p =>
              blocks'[pages[q].block_number] = blocks[pages[q].block_number]
<1> USE DEF Tables, TableTypes
<1>1. /\ frames' = ReleasedFrames(p)
      /\ blocks' = ReleasedBlocks(p)
      /\ count' = [count EXCEPT ![p] = 0]
      /\ UNCHANGED <<sec_chance_index, pages>>
  OBVIOUS
<1>2. \A q \in PageIds : Listed(q)' <=> Listed(q) /\ q[1] # p
  BY <1>1, PageIdParts DEF Listed
<1>3. \A f \in Frames :
        /\ frames'[f] \in FrameNode
        /\ frames'[f].page = frames[f].page
        /\ frames'[f].accessed = frames[f].accessed
        /\ frames'[f].pid \in {NoPid, frames[f].pid}
  <2> SUFFICES ASSUME NEW f \in Frames
               PROVE  /\ frames'[f] \in FrameNode
                      /\ frames'[f].page = frames[f].page
                      /\ frames'[f].accessed = frames[f].accessed
                      /\ frames'[f].pid \in {NoPid, frames[f].pid}
    OBVIOUS
  <2>1. frames[f] \in FrameNode
    OBVIOUS
  <2>2. frames'[f] \in {frames[f], [frames[f] EXCEPT !.pid = NoPid]}
    BY <1>1 DEF ReleasedFrames
  <2> QED
    BY <2>1, <2>2 DEF FrameNode
<1>4. \A b \in Blocks :
        /\ blocks'[b] \in BlockNode
        /\ blocks'[b].used = blocks[b].used
        /\ blocks'[b].page \in {NULL, blocks[b].page}
  <2> SUFFICES ASSUME NEW b \in Blocks
               PROVE  /\ blocks'[b] \in BlockNode
                      /\ blocks'[b].used = blocks[b].used
                      /\ blocks'[b].page \in {NULL, blocks[b].page}
    OBVIOUS
  <2>1. blocks[b] \in BlockNode
    OBVIOUS
  <2>2. blocks'[b] \in {blocks[b], [blocks[b] EXCEPT !.page = NULL]}
    BY <1>1 DEF ReleasedBlocks
  <2> QED
    BY <2>1, <2>2 DEF BlockNode
\* The page p holds in a frame or on a block is <<p, i>> for a listed i.
<1>5. ASSUME NEW q \in PageIds, Listed(q), q[1] = p
      PROVE  q[2] \in 0..(count[p] - 1) /\ q = <<p, q[2]>>
  BY <1>5, PageIdParts DEF Listed
<1>6. ASSUME NEW i \in 0..(count[p] - 1)
      PROVE  <<p, i>> \in PageIds /\ Listed(<<p, i>>)
  BY PageIdOf, SizesAssumption DEF Listed
<1>7. TableTypes'
  <2>1. frames' \in [Frames -> FrameNode]
    BY <1>1, <1>3 DEF ReleasedFrames
  <2>2. blocks' \in [Blocks -> BlockNode]
    BY <1>1, <1>4 DEF ReleasedBlocks
  <2>3. count' \in [Pids -> 0..MaxPages]
    BY <1>1, SizesAssumption
  <2> QED
    BY <1>1, <2>1, <2>2, <2>3
<1>9. FrameOwnership'
  <2>1. ASSUME NEW f \in Frames, frames'[f].pid # NoPid
        PROVE  /\ frames'[f].page \in PageIds
               /\ frames'[f].page[1] = frames'[f].pid
               /\ Listed(frames[f].page)'
               /\ pages'[frames'[f].page].isvalid = 1
               /\ pages'[frames'[f].page].frame_number = f
               /\ frames'[f].accessed # Unset
    <3> DEFINE q == frames[f].page
    <3>1. frames'[f].pid = frames[f].pid /\ frames'[f].page = q
      BY <1>3, <2>1
    <3>2. /\ q \in PageIds
          /\ q[1] = frames[f].pid
          /\ Listed(q)
          /\ pages[q].isvalid = 1
          /\ pages[q].frame_number = f
          /\ frames[f].accessed # Unset
      BY <2>1, <3>1 DEF FrameOwnership
    <3>3. q[1] # p
      <4> SUFFICES ASSUME q[1] = p PROVE FALSE
        OBVIOUS
      <4>1. /\ q[2] \in 0..(count[p] - 1)
            /\ pages[<<p, q[2]>>].isvalid = 1
            /\ pages[<<p, q[2]>>].frame_number = f
        BY <1>5, <3>2
      <4>2. frames'[f] = [frames[f] EXCEPT !.pid = NoPid]
        BY <1>1, <4>1 DEF ReleasedFrames
      <4>3. frames[f] \in FrameNode
        OBVIOUS
      <4> QED
        BY <2>1, <4>2, <4>3 DEF FrameNode
    <3>4. Listed(frames[f].page)'
      <4>1. frames'[f].page = q /\ q[1] \in Pids
        BY <3>1, <3>2, PageIdParts
      <4> QED
        BY <1>1, <3>2, <3>3, <4>1 DEF Listed
    <3> QED
      BY <1>1, <1>3, <3>1, <3>2, <3>4
  <2>2. ASSUME NEW q \in PageIds, Listed(q)', pages'[q].isvalid = 1
        PROVE  /\ pages'[q].frame_number \in Frames
               /\ pages'[q].dirty # Unset
               /\ frames'[pages'[q].frame_number].pid = q[1]
               /\ frames'[pages'[q].frame_number].page = q
    <3>1. Listed(q) /\ q[1] # p /\ pages[q].isvalid = 1
      BY <1>1, <1>2, <2>2
    <3>2. /\ pages[q].frame_number \in Frames
          /\ pages[q].dirty # Unset
          /\ frames[pages[q].frame_number].pid = q[1]
          /\ frames[pages[q].frame_number].page = q
      BY <3>1 DEF FrameOwnership
    <3>3. frames'[pages[q].frame_number] = frames[pages[q].frame_number]
      <4> SUFFICES ASSUME NEW i \in 0..(count[p] - 1), pages[<<p, i>>].isvalid = 1,
                          pages[<<p, i>>].frame_number = pages[q].frame_number
                   PROVE  FALSE
        BY <1>1, <3>2 DEF ReleasedFrames
      <4>1. frames[pages[q].frame_number].page = <<p, i>>
        BY <1>6 DEF FrameOwnership
      <4> QED
        BY <3>1, <3>2, <4>1
    <3> QED
      BY <1>1, <3>2, <3>3
  <2> QED
    BY <2>1, <2>2 DEF FrameOwnership
<1>10. ASSUME NEW q \in PageIds, Listed(q), q[1] # p
       PROVE  blocks'[pages[q].block_number] = blocks[pages[q].block_number]
  <2>1. pages[q].block_number \in Blocks /\ blocks[pages[q].block_number].page = q
    BY <1>10 DEF BlockOwnership
  <2> SUFFICES ASSUME NEW i \in 0..(count[p] - 1),
                      pages[<<p, i>>].block_number = pages[q].block_number
               PROVE  FALSE
    BY <1>1, <2>1 DEF ReleasedBlocks
  <2>2. blocks[pages[q].block_number].page = <<p, i>>
    BY <1>6 DEF BlockOwnership
  <2> QED
    BY <1>10, <2>1, <2>2
<1>11. BlockOwnership'
  <2>1. ASSUME NEW q \in PageIds, Listed(q)'
        PROVE  /\ pages'[q].block_number \in Blocks
               /\ blocks'[pages'[q].block_number].page = q
    BY <1>1, <1>2, <1>10, <2>1 DEF BlockOwnership
  <2>2. ASSUME NEW b \in Blocks, blocks'[b].page # NULL
        PROVE  \/ blocks'[b].page = Unset /\ b \in StaleBlocks
               \/ /\ blocks'[b].page \in PageIds
                  /\ Listed(blocks[b].page)'
                  /\ pages'[blocks'[b].page].block_number = b
    <3> DEFINE q == blocks[b].page
    <3>1. blocks'[b].page = q
      BY <1>4, <2>2
    <3>2. CASE q = Unset /\ b \in StaleBlocks
      BY <3>1, <3>2
    <3>3. CASE q \in PageIds /\ Listed(q) /\ pages[q].block_number = b
      <4>1. q[1] # p
        <5> SUFFICES ASSUME q[1] = p PROVE FALSE
          OBVIOUS
        <5>1. q[2] \in 0..(count[p] - 1) /\ pages[<<p, q[2]>>].block_number = b
          BY <1>5, <3>3
        <5>2. blocks'[b] = [blocks[b] EXCEPT !.page = NULL]
          <6>1. \E i \in 0..(count[p] - 1) : pages[<<p, i>>].block_number = b
            BY <5>1
          <6> QED
            BY <1>1, <6>1, Zenon DEF ReleasedBlocks
        <5>3. blocks[b] \in BlockNode
          OBVIOUS
        <5> QED
          BY <2>2, <5>2, <5>3 DEF BlockNode
      <4>2. q[1] \in Pids
        BY <3>3, PageIdParts
      <4>3. Listed(blocks[b].page)'
        BY <1>1, <3>1, <3>3, <4>1, <4>2 DEF Listed
      <4> QED
        BY <1>1, <3>1, <3>3, <4>3
    <3> QED
      BY <2>2, <3>1, <3>2, <3>3 DEF BlockOwnership
  <2> QED
    BY <2>1, <2>2 DEF BlockOwnership
<1> QED
  BY <1>2, <1>7, <1>9, <1>10, <1>11

-----------------------------------------------------------------------------
(* The initial state *)

LEMMA InitIInv == Init => IInv
<1> SUFFICES ASSUME Init PROVE IInv
  OBVIOUS
<1>1. TypeOK
  BY FramesFacts, SizesAssumption DEF Init, TypeOK, FrameNode, BlockNode, Page, Pte
<1>2. PhaseOK
  BY DEF Init, PhaseOK
<1>3. FrameOwnership
  BY DEF Init, FrameOwnership, Listed
<1>4. BlockOwnership
  BY PageIdParts DEF Init, BlockOwnership, Listed
<1>5. MappedFrameIsOwn
  BY DEF Init, MappedFrameIsOwn
<1>6. CleanPageMatchesBacking
  BY DEF Init, CleanPageMatchesBacking, Listed
<1> QED
  BY <1>1, <1>2, <1>3, <1>4, <1>5, <1>6 DEF IInv

-----------------------------------------------------------------------------
(* pager_create *)

LEMMA CreateIInv ==
  ASSUME IInv, NEW p \in Pids, pager_create(p)
  PROVE  IInv'
<1> USE DEF pager_create, IInv
<1>1. TypeOK'
  BY DEF TypeOK, tables
<1>2. PhaseOK'
  BY DEF TypeOK, PhaseOK, tables
<1>3. FrameOwnership'
  BY DEF FrameOwnership, Listed, tables
<1>4. BlockOwnership'
  BY DEF BlockOwnership, Listed, tables
<1>5. MappedFrameIsOwn'
  BY PageIdParts DEF TypeOK, PhaseOK, MappedFrameIsOwn, Listed, tables
<1>6. CleanPageMatchesBacking'
  BY DEF CleanPageMatchesBacking, Listed, Backing, tables
<1> QED
  BY <1>1, <1>2, <1>3, <1>4, <1>5, <1>6

LEMMA IInvTables == IInv => Tables
BY DEF IInv, TypeOK, Tables, TableTypes

(* pager_extend *)

LEMMA ExtendIInv ==
  ASSUME IInv, NEW p \in Pids, pager_extend(p)
  PROVE  IInv'
<1> USE DEF IInv
<1>1. /\ client[p] = "live"
      /\ count[p] < MaxPages
      /\ ExtendTables(p)
      /\ UNCHANGED <<pmem, disk, pte, client>>
  BY DEF pager_extend
<1>2. TableTypes' /\ \E b \in Blocks : Extends(p, b)
  BY <1>1, IInvTables, ExtendTablesExtends
<1>3. PICK b \in Blocks : Extends(p, b)
  BY <1>2
<1>4. Tables'
  BY <1>2, <1>3, IInvTables, ExtendsTables
<1>5. PICK new \in PageIds : new = <<p, count[p]>> /\ ~Listed(new)
  BY <1>3 DEF Extends
<1>6. /\ pages'[new] = NewPage(b)
      /\ \A pg \in PageIds : pg # new => pages'[pg] = pages[pg]
      /\ \A pg \in PageIds : Listed(pg)' <=> Listed(pg) \/ pg = new
      /\ blocks[b].page = NULL
      /\ \A c \in Blocks : c # b => blocks'[c] = blocks[c]
  BY <1>3, <1>5 DEF Extends
<1>7. TypeOK' /\ FrameOwnership' /\ BlockOwnership'
  BY <1>1, <1>4 DEF TypeOK, Tables, TableTypes
<1>8. PhaseOK'
  BY <1>1, <1>3 DEF TypeOK, PhaseOK, Extends
<1>9. MappedFrameIsOwn'
  BY <1>1, <1>5, <1>6 DEF MappedFrameIsOwn, NewPage
<1>10. CleanPageMatchesBacking'
  <2> SUFFICES ASSUME NEW pg \in PageIds,
                      Listed(pg)', pages'[pg].isvalid = 1, pages'[pg].dirty = 0
               PROVE  /\ pte[pg].prot # "RW"
                      /\ pmem[pages'[pg].frame_number] = Backing(pg)'
    BY <1>1 DEF CleanPageMatchesBacking
  <2>1. pg # new /\ Listed(pg)
    BY <1>6 DEF NewPage
  <2>2. pages[pg].block_number \in Blocks /\ blocks[pages[pg].block_number].page = pg
    BY <2>1 DEF BlockOwnership
  <2>3. Backing(pg)' = Backing(pg)
    BY <1>1, <1>6, <2>1, <2>2, MarkersAssumption DEF Backing
  <2> QED
    BY <1>6, <2>1, <2>3 DEF CleanPageMatchesBacking
<1> QED
  BY <1>7, <1>8, <1>9, <1>10

-----------------------------------------------------------------------------
(* pager_fault on a resident page *)

\* The page of a fault is listed and has a block to itself.
LEMMA FaultFacts ==
  ASSUME IInv, NEW p \in Pids, NEW i \in 0..(MaxPages - 1), Faults(p, i)
  PROVE  /\ <<p, i>> \in PageIds
         /\ Listed(<<p, i>>)
         /\ pages[<<p, i>>].block_number \in Blocks
         /\ client[p] = "live"
         /\ pte[<<p, i>>].prot # "RW"
<1>1. <<p, i>> \in PageIds
  BY SizesAssumption, PageIdOf
<1>2. Listed(<<p, i>>)
  BY DEF Faults, Listed
<1>3. pages[<<p, i>>].block_number \in Blocks
  BY <1>1, <1>2 DEF IInv, BlockOwnership
<1> QED
  BY <1>1, <1>2, <1>3 DEF Faults

LEMMA FaultValidIInv ==
  ASSUME IInv, NEW p \in Pids, NEW i \in 0..(MaxPages - 1),
         pager_fault_valid(p, i)
  PROVE  IInv'
<1> USE DEF IInv
<1>1. PICK pg \in PageIds : pg = <<p, i>> /\ Listed(pg) /\ client[p] = "live"
  BY FaultFacts DEF pager_fault_valid
<1>2. /\ ValidTables(pg)
      /\ pages[pg].isvalid = 1
      /\ pte' = [pte EXCEPT ![pg].prot = "RW"]
      /\ UNCHANGED <<pmem, disk, client>>
  BY <1>1 DEF pager_fault_valid, ValidTables
<1>3. /\ Tables'
      /\ \A q \in PageIds : Listed(q)' <=> Listed(q)
      /\ pages'[pg].isvalid = 1
      /\ pages'[pg].frame_number = pages[pg].frame_number
      /\ pages'[pg].block_number = pages[pg].block_number
      /\ pages'[pg].dirty = 1
      /\ \A q \in PageIds : q # pg => pages'[q] = pages[q]
      /\ UNCHANGED <<sec_chance_index, blocks, count>>
  BY <1>1, <1>2, IInvTables, ValidTablesKeep
<1>4. /\ pte'[pg].frame = pte[pg].frame
      /\ pte'[pg].prot = "RW"
      /\ \A q \in PageIds : q # pg => pte'[q] = pte[q]
  BY <1>1, <1>2 DEF TypeOK, Pte
<1>5. TypeOK' /\ FrameOwnership' /\ BlockOwnership'
  <2>1. pte' \in [PageIds -> Pte]
    BY <1>1, <1>2 DEF TypeOK, Pte
  <2> QED
    BY <1>2, <1>3, <2>1 DEF TypeOK, Tables, TableTypes
<1>6. PhaseOK'
  BY <1>2, <1>3 DEF PhaseOK
<1>7. MappedFrameIsOwn'
  BY <1>1, <1>2, <1>3, <1>4 DEF MappedFrameIsOwn
<1>8. CleanPageMatchesBacking'
  <2>1. \A q \in PageIds : Backing(q)' = Backing(q)
    BY <1>2, <1>3 DEF Backing
  <2> QED
    BY <1>2, <1>3, <1>4, <2>1 DEF CleanPageMatchesBacking
<1> QED
  BY <1>5, <1>6, <1>7, <1>8

-----------------------------------------------------------------------------
(* pager_fault on a page that is not resident *)

\* What both branches of pager_fault that bring page pg into frame f do: every
\* other page keeps what it would be loaded with, except that the page evicted
\* from f, if there is one, is loaded with what f held.
Loads(pg, f) ==
  /\ LoadsTables(pg, f)
  /\ pte'[pg] = Resident(f)
  /\ \A q \in PageIds : q # pg =>
       /\ pte'[q].frame = pte[q].frame
       /\ pte'[q].prot \in {"NONE", pte[q].prot}
       /\ Evicted(f, q) => pte'[q].prot = "NONE"
  /\ \A q \in PageIds : Listed(q) /\ ~Evicted(f, q) => Backing(q)' = Backing(q)
  /\ \A q \in PageIds : Listed(q) /\ Evicted(f, q) => Backing(q)' = pmem[f]
  /\ pmem'[f] = Backing(pg)'
  /\ \A g \in Frames : g # f => pmem'[g] = pmem[g]
  /\ UNCHANGED client

LEMMA LoadIInv ==
  ASSUME IInv, TypeOK', NEW pg \in PageIds, NEW f \in Frames,
         Listed(pg), client[pg[1]] = "live", pages[pg].isvalid = 0,
         Loads(pg, f)
  PROVE  IInv'
<1> USE DEF IInv
<1>1. Tables /\ TableTypes' /\ LoadsTables(pg, f)
  BY IInvTables DEF TypeOK, TableTypes, Loads
<1>2. FrameOwnership' /\ BlockOwnership'
  <2>1. Tables'
    BY <1>1, LoadsTablesKeep
  <2> QED
    BY <2>1 DEF Tables
<1>3. /\ \A q : Listed(q)' <=> Listed(q)
      /\ pages'[pg].isvalid = 1
      /\ pages'[pg].frame_number = f
      /\ pages'[pg].dirty = 0
      /\ \A q \in PageIds : Listed(q) /\ q # pg /\ pages'[q].isvalid = 1 =>
           /\ pages[q].isvalid = 1
           /\ ~Evicted(f, q)
           /\ pages[q].frame_number \in Frames \ {f}
  BY <1>1, LoadsFacts
<1>4. /\ pte'[pg].frame = f
      /\ pte'[pg].prot = "READ"
  BY DEF Loads, Resident
<1>5. PhaseOK'
  BY <1>1 DEF PhaseOK, Loads, LoadsTables
<1>6. MappedFrameIsOwn'
  <2> SUFFICES ASSUME NEW q \in PageIds
               PROVE  /\ client'[q[1]] \in {"none", "live"} /\ pte'[q].prot # "NONE" =>
                           Listed(q)' /\ pages'[q].isvalid = 1
                      /\ Listed(q)' /\ pages'[q].isvalid = 1 =>
                           pte'[q].frame = pages'[q].frame_number
    BY DEF MappedFrameIsOwn
  <2>1. CASE q = pg
    BY <1>3, <1>4, <2>1
  <2>2. CASE q # pg
    <3>1. /\ pages'[q].frame_number = pages[q].frame_number
          /\ pages'[q].isvalid = IF Evicted(f, q) THEN 0 ELSE pages[q].isvalid
      BY <1>1, <2>2 DEF LoadsTables
    <3>2. /\ pte'[q].frame = pte[q].frame
          /\ pte'[q].prot \in {"NONE", pte[q].prot}
          /\ Evicted(f, q) => pte'[q].prot = "NONE"
          /\ client' = client
      BY <2>2 DEF Loads
    <3> QED
      BY <1>3, <2>2, <3>1, <3>2 DEF MappedFrameIsOwn
  <2> QED
    BY <2>1, <2>2
<1>7. CleanPageMatchesBacking'
  <2> SUFFICES ASSUME NEW q \in PageIds,
                      Listed(q)', pages'[q].isvalid = 1, pages'[q].dirty = 0
               PROVE  /\ pte'[q].prot # "RW"
                      /\ pmem'[pages'[q].frame_number] = Backing(q)'
    BY DEF CleanPageMatchesBacking
  <2>1. CASE q = pg
    BY <1>3, <1>4, <2>1 DEF Loads
  <2>2. CASE q # pg
    <3>1. /\ Listed(q)
          /\ pages[q].isvalid = 1
          /\ ~Evicted(f, q)
          /\ pages[q].frame_number \in Frames \ {f}
      BY <1>3, <2>2
    <3>2. /\ pages'[q].frame_number = pages[q].frame_number
          /\ pages[q].dirty = 0
      BY <1>1, <2>2 DEF LoadsTables
    <3>3. /\ pte'[q].prot \in {"NONE", pte[q].prot}
          /\ Backing(q)' = Backing(q)
          /\ pmem'[pages[q].frame_number] = pmem[pages[q].frame_number]
      BY <2>2, <3>1 DEF Loads
    <3> QED
      BY <3>1, <3>2, <3>3 DEF CleanPageMatchesBacking
  <2> QED
    BY <2>1, <2>2
<1> QED
  BY <1>2, <1>5, <1>6, <1>7

LEMMA FreeFrameLoads ==
  ASSUME IInv, NEW p \in Pids, NEW i \in 0..(MaxPages - 1),
         pager_fault_free_frame(p, i)
  PROVE  TypeOK' /\ \E f \in Frames : Loads(<<p, i>>, f)
<1> USE DEF IInv
<1>1. PICK pg \in PageIds : pg = <<p, i>> /\ Listed(pg)
  BY FaultFacts DEF pager_fault_free_frame
<1> DEFINE bn == pages[pg].block_number
<1>2. PICK f \in Frames :
        /\ FreeFrameTables(pg, f)
        /\ pmem' = [pmem EXCEPT ![f] = Filled(bn, blocks, disk)]
        /\ pte' = [pte EXCEPT ![pg] = Resident(f)]
  BY <1>1 DEF pager_fault_free_frame
<1>3. UNCHANGED <<disk, client>>
  BY DEF pager_fault_free_frame
<1>4. /\ TableTypes'
      /\ LoadsTables(pg, f)
      /\ \A q : ~Evicted(f, q)
      /\ UNCHANGED blocks
  BY <1>1, <1>2, IInvTables, FreeFrameLoadsTables
<1>5. \A q \in PageIds : pages'[q].block_number = pages[q].block_number
  <2>1. pages'[pg].block_number = pages[pg].block_number
    BY <1>1, <1>2, <1>4, IInvTables, LoadsFacts DEF FreeFrameTables
  <2> QED
    BY <1>4, <2>1 DEF LoadsTables
<1>6. \A q \in PageIds : Backing(q)' = Backing(q)
  BY <1>3, <1>4, <1>5 DEF Backing
<1>7. bn \in Blocks
  BY <1>1, IInvTables, ListedFacts
<1>8. Filled(bn, blocks, disk) = Backing(pg) /\ Filled(bn, blocks, disk) \in Values
  BY <1>7 DEF Filled, Backing, TypeOK
<1>9. TypeOK'
  <2>1. pte' \in [PageIds -> Pte]
    BY <1>2, IInvTables, LoadTypes DEF TypeOK, Tables
  <2>2. pmem' \in [Frames -> Values]
    BY <1>2, <1>8 DEF TypeOK
  <2> QED
    BY <1>3, <1>4, <2>1, <2>2 DEF TypeOK, TableTypes
<1>10. pte'[pg] = Resident(f) /\ \A q \in PageIds : q # pg => pte'[q] = pte[q]
  BY <1>2 DEF TypeOK
<1>11. pmem'[f] = Backing(pg)' /\ \A g \in Frames : g # f => pmem'[g] = pmem[g]
  BY <1>2, <1>6, <1>8 DEF TypeOK
<1>12. Loads(pg, f)
  BY <1>3, <1>4, <1>6, <1>10, <1>11 DEF Loads
<1> QED
  BY <1>1, <1>9, <1>12

LEMMA EvictLoads ==
  ASSUME IInv, NEW p \in Pids, NEW i \in 0..(MaxPages - 1),
         pager_fault_evict(p, i)
  PROVE  TypeOK' /\ \E f \in Frames : Loads(<<p, i>>, f)
<1> USE DEF IInv
<1>1. PICK pg \in PageIds : pg = <<p, i>> /\ Listed(pg)
  BY FaultFacts DEF pager_fault_evict
<1> DEFINE bn == pages[pg].block_number
<1>2. PICK k \in 0..NFrames :
        LET v == HandAt(k)
            home == pages[frames[v].page].block_number
        IN
        /\ EvictTables(pg, k)
        /\ disk' = IF WriteBack(v) THEN [disk EXCEPT ![home] = pmem[v]] ELSE disk
        /\ pmem' = [pmem EXCEPT ![v] = Filled(bn, blocks', disk')]
        /\ pte' = [q \in PageIds |->
                     IF q = pg THEN Resident(v)
                     ELSE IF q \in Hidden(v) THEN [pte[q] EXCEPT !.prot = "NONE"]
                     ELSE pte[q]]
  BY <1>1 DEF pager_fault_evict
<1>3. EvictTables(pg, k) /\ pages[pg].isvalid = 0 /\ UNCHANGED client
  BY <1>2 DEF EvictTables, pager_fault_evict
<1>4. PICK v \in Frames : v = HandAt(k)
  BY <1>1, <1>3, IInvTables, VictimFacts
<1>5. PICK old \in PageIds : old = frames[v].page
  BY <1>1, <1>3, <1>4, IInvTables, VictimFacts
<1> DEFINE home == pages[old].block_number
<1>6. /\ frames[v].pid # NoPid
      /\ old # pg
      /\ Listed(old)
      /\ pages[old].isvalid = 1
      /\ pages[old].frame_number = v
      /\ pages[old].dirty \in {0, 1}
      /\ home \in Blocks
  BY <1>1, <1>3, <1>4, <1>5, IInvTables, VictimFacts
<1>7. TableTypes' /\ LoadsTables(pg, v)
  BY <1>1, <1>3, <1>4, IInvTables, EvictLoadsTables
<1>8. bn \in Blocks
  BY <1>1, IInvTables, ListedFacts
<1> HIDE DEF home, bn
<1>9. /\ disk' = IF pages[old].dirty = 1 THEN [disk EXCEPT ![home] = pmem[v]] ELSE disk
      /\ pmem' = [pmem EXCEPT ![v] = Filled(bn, blocks', disk')]
      /\ pte' = [q \in PageIds |->
                   IF q = pg THEN Resident(v)
                   ELSE IF q \in Hidden(v) THEN [pte[q] EXCEPT !.prot = "NONE"]
                   ELSE pte[q]]
  BY <1>2, <1>4, <1>5 DEF home, bn, WriteBack
<1>10. \A q \in PageIds : pages'[q].block_number = pages[q].block_number
  <2>1. pages'[pg].block_number = pages[pg].block_number
    BY <1>1, <1>3, <1>7, IInvTables, LoadsFacts
  <2> QED
    BY <1>7, <2>1 DEF LoadsTables
<1>11. /\ disk' \in [Blocks -> Values]
       /\ \A b \in Blocks : b # home => disk'[b] = disk[b]
       /\ pages[old].dirty = 1 => disk'[home] = pmem[v]
       /\ pages[old].dirty # 1 => disk' = disk
  BY <1>6, <1>9 DEF TypeOK
<1>12. Filled(bn, blocks', disk') = Backing(pg)' /\ Filled(bn, blocks', disk') \in Values
  BY <1>8, <1>10, <1>11 DEF Filled, Backing, bn
<1>13. TypeOK'
  <2>1. pte' \in [PageIds -> Pte]
    <3>1. \A q \in PageIds : [pte[q] EXCEPT !.prot = "NONE"] \in Pte
      BY DEF TypeOK, Pte
    <3> QED
      BY <1>9, <3>1, IInvTables, LoadTypes DEF TypeOK, Tables
  <2>2. pmem' \in [Frames -> Values]
    BY <1>9, <1>12 DEF TypeOK
  <2> QED
    BY <1>3, <1>7, <1>11, <2>1, <2>2 DEF TypeOK, TableTypes
<1>14. \A q : Evicted(v, q) <=> q = old
  BY <1>5, <1>6 DEF Evicted
<1>15. ASSUME NEW q \in PageIds, Listed(q), q # old
       PROVE  Backing(q)' = Backing(q)
  <2>1. pages[q].block_number \in Blocks /\ pages[q].block_number # home
    BY <1>6, <1>15, IInvTables, ListedFacts, OwnBlock DEF home
  <2>2. blocks'[pages[q].block_number].used = blocks[pages[q].block_number].used
    BY <1>7, <1>14, <1>15 DEF LoadsTables
  <2> QED
    BY <1>10, <1>11, <2>1, <2>2 DEF Backing
<1>16. Backing(old)' = pmem[v]
  <2>1. blocks'[home].used = IF pages[old].dirty = 1 THEN 1 ELSE blocks[home].used
    BY <1>6, <1>7, <1>14 DEF LoadsTables, home
  <2>2. CASE pages[old].dirty = 1
    BY <1>10, <1>11, <2>1, <2>2 DEF Backing, home
  <2>3. CASE pages[old].dirty # 1
    <3>1. pmem[v] = Backing(old)
      BY <1>6, <2>3 DEF CleanPageMatchesBacking
    <3> QED
      BY <1>10, <1>11, <2>1, <2>3, <3>1 DEF Backing, home
  <2> QED
    BY <2>2, <2>3
<1>17. \A q \in PageIds : q # pg =>
         /\ pte'[q].frame = pte[q].frame
         /\ pte'[q].prot \in {"NONE", pte[q].prot}
         /\ Evicted(v, q) => pte'[q].prot = "NONE"
  <2> SUFFICES ASSUME NEW q \in PageIds, q # pg
               PROVE  /\ pte'[q].frame = pte[q].frame
                      /\ pte'[q].prot \in {"NONE", pte[q].prot}
                      /\ Evicted(v, q) => pte'[q].prot = "NONE"
    OBVIOUS
  <2>1. old \in Hidden(v)
    BY <1>5 DEF Hidden
  <2>2. pte'[q] = IF q \in Hidden(v) THEN [pte[q] EXCEPT !.prot = "NONE"] ELSE pte[q]
    BY <1>9
  <2>3. pte[q] \in Pte
    BY DEF TypeOK
  <2> QED
    BY <1>14, <2>1, <2>2, <2>3 DEF Pte
<1>18. pte'[pg] = Resident(v)
  BY <1>9
<1>19. pmem'[v] = Backing(pg)' /\ \A f \in Frames : f # v => pmem'[f] = pmem[f]
  BY <1>9, <1>12 DEF TypeOK
<1>20. Loads(pg, v)
  BY <1>3, <1>7, <1>14, <1>15, <1>16, <1>17, <1>18, <1>19 DEF Loads
<1> QED
  BY <1>1, <1>13, <1>20

LEMMA FaultLoadIInv ==
  ASSUME IInv, NEW p \in Pids, NEW i \in 0..(MaxPages - 1),
         pager_fault_free_frame(p, i) \/ pager_fault_evict(p, i)
  PROVE  IInv' /\ \E f \in Frames : Loads(<<p, i>>, f)
<1>1. Faults(p, i) /\ pages[<<p, i>>].isvalid = 0
  BY DEF pager_fault_free_frame, pager_fault_evict, FreeFrameTables, EvictTables
<1>2. TypeOK' /\ \E f \in Frames : Loads(<<p, i>>, f)
  BY FreeFrameLoads, EvictLoads
<1>3. /\ <<p, i>> \in PageIds
      /\ Listed(<<p, i>>)
      /\ client[p] = "live"
  BY <1>1, FaultFacts
<1> QED
  BY <1>1, <1>2, <1>3, LoadIInv

-----------------------------------------------------------------------------
(* The clients *)

\* A page a process can write is resident, dirty, and mapped on its own frame.
LEMMA WriteFacts ==
  ASSUME IInv, NEW p \in Pids, NEW i \in 0..(MaxPages - 1), NEW v \in Values,
         Write(p, i, v)
  PROVE  /\ <<p, i>> \in PageIds
         /\ Listed(<<p, i>>)
         /\ pages[<<p, i>>].isvalid = 1
         /\ pages[<<p, i>>].dirty # 0
         /\ pages[<<p, i>>].frame_number \in Frames
         /\ pmem' = [pmem EXCEPT ![pages[<<p, i>>].frame_number] = v]
<1> DEFINE pg == <<p, i>>
<1>1. pg \in PageIds
  BY SizesAssumption, PageIdOf
<1>2. client[pg[1]] = "live" /\ pte[pg].prot = "RW"
  BY DEF Write
<1>3. Listed(pg) /\ pages[pg].isvalid = 1 /\ pte[pg].frame = pages[pg].frame_number
  BY <1>1, <1>2 DEF IInv, MappedFrameIsOwn
<1>4. pages[pg].frame_number \in Frames
  BY <1>1, <1>3 DEF IInv, FrameOwnership
<1>5. pages[pg].dirty # 0
  BY <1>1, <1>2, <1>3 DEF IInv, CleanPageMatchesBacking
<1> QED
  BY <1>1, <1>3, <1>4, <1>5 DEF Write

LEMMA WriteIInv ==
  ASSUME IInv, NEW p \in Pids, NEW i \in 0..(MaxPages - 1), NEW v \in Values,
         Write(p, i, v)
  PROVE  IInv'
<1> USE DEF IInv
<1> DEFINE pg == <<p, i>>
           f == pages[pg].frame_number
<1>1. /\ pg \in PageIds /\ Listed(pg) /\ pages[pg].isvalid = 1
      /\ pages[pg].dirty # 0
      /\ f \in Frames
      /\ pmem' = [pmem EXCEPT ![f] = v]
  BY WriteFacts
<1>2. UNCHANGED <<frames, sec_chance_index, blocks, pages, count, disk, pte, client>>
  BY DEF Write, tables
<1> HIDE DEF pg, f
<1>3. TypeOK'
  BY <1>1, <1>2 DEF TypeOK
<1>4. PhaseOK' /\ FrameOwnership' /\ BlockOwnership' /\ MappedFrameIsOwn'
  BY <1>2 DEF PhaseOK, FrameOwnership, BlockOwnership, MappedFrameIsOwn, Listed
<1>5. CleanPageMatchesBacking'
  <2> SUFFICES ASSUME NEW q \in PageIds, Listed(q), pages[q].isvalid = 1,
                      pages[q].dirty = 0
               PROVE  /\ pte[q].prot # "RW"
                      /\ pmem'[pages[q].frame_number] = Backing(q)
    BY <1>2 DEF CleanPageMatchesBacking, Listed, Backing
  <2>1. pages[q].frame_number \in Frames /\ frames[pages[q].frame_number].page = q
    BY DEF FrameOwnership
  <2>2. frames[f].page = pg /\ q # pg
    BY <1>1 DEF FrameOwnership, f
  <2>3. pmem'[pages[q].frame_number] = pmem[pages[q].frame_number]
    BY <1>1, <2>1, <2>2 DEF TypeOK
  <2> QED
    BY <2>3 DEF CleanPageMatchesBacking
<1> QED
  BY <1>3, <1>4, <1>5

LEMMA ExitIInv ==
  ASSUME IInv, NEW p \in Pids, ClientExit(p)
  PROVE  IInv'
<1> USE DEF IInv
<1>1. /\ client[p] = "live"
      /\ client' = [client EXCEPT ![p] = "exiting"]
      /\ UNCHANGED <<frames, sec_chance_index, blocks, pages, count, pmem, disk, pte>>
  BY DEF ClientExit, tables
<1>2. TypeOK'
  BY <1>1 DEF TypeOK
<1>3. PhaseOK'
  BY <1>1 DEF PhaseOK, TypeOK
<1>4. FrameOwnership' /\ BlockOwnership' /\ CleanPageMatchesBacking'
  BY <1>1 DEF FrameOwnership, BlockOwnership, CleanPageMatchesBacking, Listed, Backing
<1>5. MappedFrameIsOwn'
  <2>1. \A q \in Pids : client'[q] \in {"none", "live"} => client'[q] = client[q]
    BY <1>1 DEF TypeOK
  <2> QED
    BY <1>1, <2>1, PageIdParts DEF MappedFrameIsOwn, Listed
<1> QED
  BY <1>2, <1>3, <1>4, <1>5

(* pager_destroy *)

LEMMA DestroyIInv ==
  ASSUME IInv, NEW p \in Pids, pager_destroy(p)
  PROVE  IInv'
<1> USE DEF IInv
<1>1. /\ client[p] = "exiting"
      /\ client' = [client EXCEPT ![p] = "dead"]
      /\ count' = [count EXCEPT ![p] = 0]
      /\ UNCHANGED <<pages, pmem, disk, pte>>
  BY DEF pager_destroy
<1>2. /\ Tables'
      /\ \A q \in PageIds : Listed(q)' <=> Listed(q) /\ q[1] # p
      /\ \A q \in PageIds : Listed(q) /\ q[1] # p =>
           blocks'[pages[q].block_number] = blocks[pages[q].block_number]
  BY IInvTables, DestroyTables DEF pager_destroy
<1>3. TypeOK' /\ FrameOwnership' /\ BlockOwnership'
  BY <1>1, <1>2 DEF TypeOK, Tables, TableTypes
<1>4. PhaseOK'
  BY <1>1 DEF PhaseOK, TypeOK
<1>5. MappedFrameIsOwn'
  <2>1. \A q \in Pids : client'[q] \in {"none", "live"} => q # p /\ client'[q] = client[q]
    BY <1>1 DEF TypeOK
  <2> QED
    BY <1>1, <1>2, <2>1, PageIdParts DEF MappedFrameIsOwn
<1>6. CleanPageMatchesBacking'
  <2> SUFFICES ASSUME NEW q \in PageIds, Listed(q)', pages[q].isvalid = 1,
                      pages[q].dirty = 0
               PROVE  pte[q].prot # "RW" /\ pmem[pages[q].frame_number] = Backing(q)'
    BY <1>1 DEF CleanPageMatchesBacking
  <2>1. Listed(q) /\ q[1] # p
    BY <1>2
  <2>2. Backing(q)' = Backing(q)
    BY <1>1, <1>2, <2>1 DEF Backing
  <2> QED
    BY <2>1, <2>2 DEF CleanPageMatchesBacking
<1> QED
  BY <1>3, <1>4, <1>5, <1>6

-----------------------------------------------------------------------------
(* The invariants *)

LEMMA NextIInv == IInv /\ [Next]_vars => IInv'
<1> SUFFICES ASSUME IInv, [Next]_vars PROVE IInv'
  OBVIOUS
<1>1. CASE UNCHANGED vars
  BY <1>1 DEF vars, IInv, TypeOK, PhaseOK, FrameOwnership, BlockOwnership,
              MappedFrameIsOwn, CleanPageMatchesBacking, Listed, Backing
<1>2. ASSUME NEW p \in Pids, pager_create(p) PROVE IInv'
  BY <1>2, CreateIInv
<1>3. ASSUME NEW p \in Pids, pager_extend(p) PROVE IInv'
  BY <1>3, ExtendIInv
<1>4. ASSUME NEW p \in Pids, pager_extend_fails(p) PROVE IInv'
  BY <1>1, <1>4 DEF pager_extend_fails
<1>5. ASSUME NEW p \in Pids, NEW i \in 0..(MaxPages - 1), pager_fault(p, i)
      PROVE  IInv'
  BY <1>5, FaultValidIInv, FaultLoadIInv DEF pager_fault
<1>6. ASSUME NEW p \in Pids, NEW i \in 0..(MaxPages - 1), NEW v \in Values,
             Write(p, i, v)
      PROVE  IInv'
  BY <1>6, WriteIInv
<1>7. ASSUME NEW p \in Pids, ClientExit(p) PROVE IInv'
  BY <1>7, ExitIInv
<1>8. ASSUME NEW p \in Pids, pager_destroy(p) PROVE IInv'
  BY <1>8, DestroyIInv
<1> QED
  BY <1>1, <1>2, <1>3, <1>4, <1>5, <1>6, <1>7, <1>8 DEF Next

\* The strengthened invariant of the pager holds in every reachable state.
THEOREM Invariance == Spec => []IInv
BY InitIInv, NextIInv, PTL DEF Spec

\* The tables of the pager keep the types of their C declarations.
THEOREM TypeCorrect == Spec => []TypeOK
<1>1. IInv => TypeOK
  BY DEF IInv
<1> QED
  BY <1>1, Invariance, PTL

\* Frames and resident pages stay in one-to-one correspondence through faults,
\* evictions and the destruction of processes.
THEOREM FramesAreExclusive == Spec => []FrameOwnership
<1>1. IInv => FrameOwnership
  BY DEF IInv
<1> QED
  BY <1>1, Invariance, PTL

\* No two pages share a block and no block is lost.
THEOREM BlocksAreExclusive == Spec => []BlockOwnership
<1>1. IInv => BlockOwnership
  BY DEF IInv
<1> QED
  BY <1>1, Invariance, PTL

\* No process reaches a frame that holds the page of another one.
THEOREM MappingsAreOwn == Spec => []MappedFrameIsOwn
<1>1. IInv => MappedFrameIsOwn
  BY DEF IInv
<1> QED
  BY <1>1, Invariance, PTL

\* A page that is not dirty can be evicted without a copy.
THEOREM CleanPagesAreBacked == Spec => []CleanPageMatchesBacking
<1>1. IInv => CleanPageMatchesBacking
  BY DEF IInv
<1> QED
  BY <1>1, Invariance, PTL

-----------------------------------------------------------------------------
(* The refinement: every step of the pager or of a client is a step of the *)
(* private memories, or leaves what the clients see as it was.  Faults,    *)
(* evictions, write-backs and reloads are of the second kind.              *)

\* Pages of processes that are running keep their contents.
SameContents ==
  \A pg \in PageIds :
    client[pg[1]] = "live" /\ Listed(pg) => Content(pg)' = Content(pg)

\* A step that keeps the processes, their page lists and the contents of
\* their pages is invisible to them.
LEMMA Invisible ==
  ASSUME SameContents, UNCHANGED <<client, count>>
  PROVE  UNCHANGED PM!memVars
<1>1. absStatus' = absStatus /\ absSize' = absSize
  BY DEF absStatus, absSize
<1>2. \A pg \in PageIds : Listed(pg)' <=> Listed(pg)
  BY DEF Listed
<1>3. absMem' = absMem
  BY <1>2 DEF absMem, SameContents
<1> QED
  BY <1>1, <1>3 DEF PM!memVars

LEMMA ContentType ==
  ASSUME IInv, NEW pg \in PageIds, Listed(pg)
  PROVE  Content(pg) \in Values
<1>1. pages[pg].block_number \in Blocks
  BY DEF IInv, BlockOwnership
<1>2. Backing(pg) \in Values
  BY <1>1 DEF IInv, TypeOK, Backing
<1>3. pages[pg].isvalid = 1 => pmem[pages[pg].frame_number] \in Values
  BY DEF IInv, TypeOK, FrameOwnership
<1> QED
  BY <1>2, <1>3 DEF Content

LEMMA PMPageIds == PM!PageIds = PageIds
BY DEF PM!PageIds, PageIds

-----------------------------------------------------------------------------
LEMMA InitRefines == Init => PM!Init
<1> SUFFICES ASSUME Init PROVE PM!Init
  OBVIOUS
<1>1. absStatus = [p \in Pids |-> "none"]
  BY DEF Init, absStatus
<1>2. absSize = [p \in Pids |-> 0]
  BY DEF Init, absSize
<1>3. absMem = [pg \in PageIds |-> Unset]
  BY PageIdParts DEF Init, absMem
<1> QED
  BY <1>1, <1>2, <1>3, PMPageIds DEF PM!Init

LEMMA CreateRefines ==
  ASSUME IInv, NEW p \in Pids, pager_create(p)
  PROVE  PM!Attach(p)
<1>1. /\ client[p] = "none"
      /\ client' = [client EXCEPT ![p] = "live"]
      /\ UNCHANGED <<frames, sec_chance_index, blocks, pages, count, pmem, disk, pte>>
  BY DEF pager_create, tables
<1>2. count[p] = 0
  BY <1>1 DEF IInv, PhaseOK
<1>3. absStatus[p] = "none" /\ absStatus' = [absStatus EXCEPT ![p] = "live"]
  BY <1>1 DEF absStatus, IInv, TypeOK
<1>4. absSize' = absSize
  BY <1>1, <1>2 DEF absSize, IInv, TypeOK
<1>5. absMem' = absMem
  <2>1. ASSUME NEW pg \in PageIds
        PROVE  (client'[pg[1]] = "live" /\ Listed(pg)') <=>
                 (client[pg[1]] = "live" /\ Listed(pg))
    <3>1. pg[1] \in Pids /\ pg[2] \in Nat
      BY PageIdParts
    <3> QED
      BY <1>1, <1>2, <3>1 DEF Listed, IInv, TypeOK
  <2>2. \A pg \in PageIds : Content(pg)' = Content(pg)
    BY <1>1 DEF Content, Backing
  <2> QED
    BY <2>1, <2>2 DEF absMem
<1> QED
  BY <1>3, <1>4, <1>5 DEF PM!Attach

LEMMA ExtendRefines ==
  ASSUME IInv, NEW p \in Pids, pager_extend(p)
  PROVE  PM!Grow(p)
<1>1. /\ client[p] = "live"
      /\ count[p] < MaxPages
      /\ count' = [count EXCEPT ![p] = @ + 1]
      /\ UNCHANGED <<frames, sec_chance_index, pmem, disk, pte, client>>
  BY DEF pager_extend, ExtendTables
<1>2. PICK new \in PageIds : new = <<p, count[p]>> /\ ~Listed(new)
  <2>1. count[p] \in Nat
    BY SizesAssumption DEF IInv, TypeOK
  <2>2. <<p, count[p]>> \in PageIds
    BY <1>1, <2>1, PageIdOf
  <2>3. ~Listed(<<p, count[p]>>)
    BY <2>1 DEF Listed
  <2> QED
    BY <2>2, <2>3
<1>3. PICK b \in Blocks :
        /\ get_new_block(b)
        /\ pages' = [pages EXCEPT ![new] = NewPage(b)]
        /\ blocks' = [blocks EXCEPT ![b].page = new]
  BY <1>2 DEF pager_extend, ExtendTables
<1>4. \A pg \in PageIds : Listed(pg)' <=> Listed(pg) \/ pg = new
  BY <1>1, <1>2, PageIdParts DEF IInv, TypeOK, Listed
<1>5. /\ pages'[new] = NewPage(b)
      /\ \A pg \in PageIds : pg # new => pages'[pg] = pages[pg]
  BY <1>3, <1>2 DEF IInv, TypeOK
<1>6. \A c \in Blocks : blocks'[c].used = blocks[c].used
  BY <1>3 DEF IInv, TypeOK, BlockNode
<1>7. ASSUME NEW pg \in PageIds, Listed(pg)
      PROVE  Content(pg)' = Content(pg)
  <2>1. pages[pg].block_number \in Blocks
    BY <1>7 DEF IInv, BlockOwnership
  <2>2. pages'[pg] = pages[pg]
    BY <1>2, <1>5, <1>7
  <2> QED
    BY <1>1, <1>6, <2>1, <2>2 DEF Content, Backing
<1>8. PICK v \in Values : v = Content(new)'
  <2>3. pages'[new].block_number = b /\ pages'[new].isvalid = 0
    BY <1>5 DEF NewPage
  <2>4. (IF blocks'[b].used = 1 THEN disk'[b] ELSE Zero) \in Values
    BY <1>1 DEF IInv, TypeOK
  <2> QED
    BY <1>1, <2>3, <2>4 DEF Content, Backing
<1>9. absStatus' = absStatus /\ absStatus[p] = "live"
  BY <1>1 DEF absStatus
<1>10. /\ absSize[p] = count[p]
       /\ absSize' = [absSize EXCEPT ![p] = @ + 1]
  BY <1>1 DEF absSize, IInv, TypeOK
<1>11. absMem' = [absMem EXCEPT ![new] = v]
  <2>1. ASSUME NEW pg \in PageIds, pg # new
        PROVE  absMem'[pg] = absMem[pg]
    BY <1>1, <1>4, <1>7, <2>1 DEF absMem
  <2>2. absMem'[new] = v
    BY <1>1, <1>2, <1>4, <1>8 DEF absMem
  <2>3. DOMAIN absMem' = PageIds /\ absMem' = [pg \in PageIds |-> absMem'[pg]]
    BY DEF absMem
  <2>4. absMem = [pg \in PageIds |-> absMem[pg]]
    BY DEF absMem
  <2> QED
    BY <1>2, <2>1, <2>2, <2>3, <2>4
<1> QED
  BY <1>1, <1>2, <1>8, <1>9, <1>10, <1>11 DEF PM!Grow

LEMMA FaultValidRefines ==
  ASSUME IInv, NEW p \in Pids, NEW i \in 0..(MaxPages - 1),
         pager_fault_valid(p, i)
  PROVE  UNCHANGED PM!memVars
<1>1. /\ Faults(p, i)
      /\ pages' = [pages EXCEPT ![<<p, i>>].dirty = 1]
      /\ UNCHANGED <<blocks, count, pmem, disk, client>>
  BY DEF pager_fault_valid, ValidTables
<1>2. ASSUME NEW q \in PageIds
      PROVE  /\ pages'[q].isvalid = pages[q].isvalid
             /\ pages'[q].frame_number = pages[q].frame_number
             /\ pages'[q].block_number = pages[q].block_number
  <2>1. pages[q] \in Page
    BY DEF IInv, TypeOK
  <2>2. pages'[q] \in {pages[q], [pages[q] EXCEPT !.dirty = 1]}
    BY <1>1 DEF IInv, TypeOK
  <2> QED
    BY <2>1, <2>2 DEF Page
<1>3. SameContents
  BY <1>1, <1>2 DEF SameContents, Content, Backing
<1> QED
  BY <1>1, <1>3, Invisible

LEMMA LoadRefines ==
  ASSUME IInv, NEW p \in Pids, NEW i \in 0..(MaxPages - 1),
         pager_fault_free_frame(p, i) \/ pager_fault_evict(p, i)
  PROVE  UNCHANGED PM!memVars
<1>1. PICK pg \in PageIds : pg = <<p, i>> /\ Listed(pg) /\ pages[pg].isvalid = 0
  BY FaultFacts DEF pager_fault_free_frame, pager_fault_evict, FreeFrameTables, EvictTables
<1>2. PICK f \in Frames : Loads(pg, f)
  BY <1>1, FaultLoadIInv
<1>3. ASSUME NEW q \in PageIds, Listed(q)
      PROVE  Content(q)' = Content(q)
  <2>1. CASE q = pg
    <3>1. pages'[pg].isvalid = 1 /\ pages'[pg].frame_number = f
      BY <1>2 DEF Loads, LoadsTables, Placed, IInv, TypeOK, Page
    <3>2. ~Evicted(f, pg)
      BY <1>1, <1>2 DEF Evicted, IInv, FrameOwnership
    <3>3. pmem'[f] = Backing(pg)
      BY <1>1, <1>2, <3>2 DEF Loads, LoadsTables
    <3> QED
      BY <1>1, <2>1, <3>1, <3>3 DEF Content
  <2>2. CASE q # pg /\ Evicted(f, q)
    <3>1. pages'[q].isvalid = 0 /\ Backing(q)' = pmem[f]
      BY <1>2, <1>3, <2>2 DEF Loads, LoadsTables
    <3>2. pages[q].isvalid = 1 /\ pages[q].frame_number = f
      BY <2>2 DEF Evicted, IInv, FrameOwnership
    <3> QED
      BY <3>1, <3>2 DEF Content
  <2>3. CASE q # pg /\ ~Evicted(f, q)
    <3>1. /\ pages'[q].isvalid = pages[q].isvalid
          /\ pages'[q].frame_number = pages[q].frame_number
          /\ Backing(q)' = Backing(q)
          /\ \A g \in Frames : g # f => pmem'[g] = pmem[g]
      BY <1>2, <1>3, <2>3 DEF Loads, LoadsTables
    <3>2. CASE pages[q].isvalid = 1
      <4>1. /\ pages[q].frame_number \in Frames
            /\ frames[pages[q].frame_number].pid = q[1]
            /\ frames[pages[q].frame_number].page = q
        BY <1>3, <3>2 DEF IInv, FrameOwnership
      <4>2. pages[q].frame_number # f
        BY <2>3, <4>1, PageIdParts DEF Evicted
      <4> QED
        BY <3>1, <3>2, <4>1, <4>2 DEF Content
    <3>3. CASE pages[q].isvalid # 1
      BY <3>1, <3>3 DEF Content
    <3> QED
      BY <3>2, <3>3
  <2> QED
    BY <2>1, <2>2, <2>3
<1>4. SameContents
  BY <1>3 DEF SameContents
<1>5. UNCHANGED <<client, count>>
  BY <1>2 DEF Loads, LoadsTables
<1> QED
  BY <1>4, <1>5, Invisible

LEMMA WriteRefines ==
  ASSUME IInv, NEW p \in Pids, NEW i \in 0..(MaxPages - 1), NEW v \in Values,
         Write(p, i, v)
  PROVE  PM!Store(p, i, v)
<1>1. PICK pg \in PageIds : pg = <<p, i>>
  BY WriteFacts
<1>2. PICK f \in Frames : f = pages[pg].frame_number
  BY <1>1, WriteFacts
<1>3. /\ Listed(pg)
      /\ pages[pg].isvalid = 1
      /\ pmem' = [pmem EXCEPT ![f] = v]
  BY <1>1, <1>2, WriteFacts
<1>4. /\ client[p] = "live"
      /\ i < count[p]
      /\ UNCHANGED <<frames, sec_chance_index, blocks, pages, count, disk, pte, client>>
  BY DEF Write, tables
<1>5. Content(pg)' = v
  BY <1>2, <1>3, <1>4 DEF Content, IInv, TypeOK
<1>6. ASSUME NEW q \in PageIds, Listed(q), q # pg
      PROVE  Content(q)' = Content(q)
  <2>1. frames[f].page = pg
    BY <1>2, <1>3 DEF IInv, FrameOwnership
  <2>2. pages[q].isvalid = 1 =>
          pages[q].frame_number \in Frames /\ frames[pages[q].frame_number].page = q
    BY <1>6 DEF IInv, FrameOwnership
  <2>3. pages[q].isvalid = 1 => pmem'[pages[q].frame_number] = pmem[pages[q].frame_number]
    BY <1>3, <1>6, <2>1, <2>2 DEF IInv, TypeOK
  <2> QED
    BY <1>4, <2>3 DEF Content, Backing
<1>7. absStatus' = absStatus /\ absStatus[p] = "live" /\ absSize' = absSize /\ i < absSize[p]
  BY <1>4 DEF absStatus, absSize
<1>8. absMem' = [absMem EXCEPT ![pg] = v]
  <2>1. \A q \in PageIds : Listed(q)' <=> Listed(q)
    BY <1>4 DEF Listed
  <2>2. \A q \in PageIds : q # pg => absMem'[q] = absMem[q]
    BY <1>4, <1>6, <2>1 DEF absMem
  <2>3. absMem'[pg] = v
    BY <1>1, <1>3, <1>4, <1>5, <2>1 DEF absMem
  <2>4. absMem' = [q \in PageIds |-> absMem'[q]] /\ absMem = [q \in PageIds |-> absMem[q]]
    BY DEF absMem
  <2> QED
    BY <2>2, <2>3, <2>4
<1> QED
  BY <1>1, <1>7, <1>8 DEF PM!Store

LEMMA ExitRefines ==
  ASSUME IInv, NEW p \in Pids, ClientExit(p)
  PROVE  PM!Leave(p)
<1>1. /\ client[p] = "live"
      /\ client' = [client EXCEPT ![p] = "exiting"]
      /\ UNCHANGED <<frames, sec_chance_index, blocks, pages, count, pmem, disk, pte>>
  BY DEF ClientExit, tables
<1>2. client'[p] = "exiting" /\ \A q \in Pids : q # p => client'[q] = client[q]
  BY <1>1 DEF IInv, TypeOK
<1>3. absStatus[p] = "live" /\ absStatus' = [absStatus EXCEPT ![p] = "gone"]
  BY <1>1, <1>2 DEF absStatus
<1>4. absSize' = [absSize EXCEPT ![p] = 0]
  BY <1>1, <1>2 DEF absSize
<1>5. absMem' = [pg \in PageIds |-> IF pg[1] = p THEN Unset ELSE absMem[pg]]
  <2>1. \A pg \in PageIds : Content(pg)' = Content(pg) /\ (Listed(pg)' <=> Listed(pg))
    BY <1>1 DEF Content, Backing, Listed
  <2> QED
    BY <1>2, <2>1, PageIdParts DEF absMem
<1> QED
  BY <1>3, <1>4, <1>5, PMPageIds DEF PM!Leave

LEMMA DestroyRefines ==
  ASSUME IInv, NEW p \in Pids, pager_destroy(p)
  PROVE  UNCHANGED PM!memVars
<1>1. /\ client[p] = "exiting"
      /\ client' = [client EXCEPT ![p] = "dead"]
      /\ blocks' = ReleasedBlocks(p)
      /\ count' = [count EXCEPT ![p] = 0]
      /\ UNCHANGED <<sec_chance_index, pages, pmem, disk, pte>>
  BY DEF pager_destroy
<1>2. /\ client'[p] = "dead"
      /\ \A q \in Pids : q # p => client'[q] = client[q] /\ count'[q] = count[q]
  BY <1>1 DEF IInv, TypeOK
<1>3. absStatus' = absStatus /\ absSize' = absSize
  BY <1>1, <1>2 DEF absStatus, absSize
<1>4. \A b \in Blocks : blocks'[b].used = blocks[b].used
  BY <1>1 DEF ReleasedBlocks, IInv, TypeOK, BlockNode
<1>5. ASSUME NEW pg \in PageIds, Listed(pg)
      PROVE  Content(pg)' = Content(pg)
  <2>1. pages[pg].block_number \in Blocks
    BY <1>5 DEF IInv, BlockOwnership
  <2> QED
    BY <1>1, <1>4, <2>1 DEF Content, Backing
<1>6. absMem' = absMem
  <2>1. ASSUME NEW pg \in PageIds
        PROVE  /\ (client'[pg[1]] = "live" /\ Listed(pg)') <=>
                    (client[pg[1]] = "live" /\ Listed(pg))
               /\ Listed(pg) => Content(pg)' = Content(pg)
    <3>1. pg[1] \in Pids
      BY PageIdParts
    <3> QED
      BY <1>1, <1>2, <1>5, <3>1 DEF Listed
  <2> QED
    BY <2>1 DEF absMem
<1> QED
  BY <1>3, <1>6 DEF PM!memVars

-----------------------------------------------------------------------------
LEMMA NextRefines == IInv /\ [Next]_vars => [PM!Next]_(PM!memVars)
<1> SUFFICES ASSUME IInv, [Next]_vars PROVE PM!Next \/ UNCHANGED PM!memVars
  OBVIOUS
<1>1. CASE UNCHANGED vars
  <2>1. SameContents
    BY <1>1 DEF vars, SameContents, Content, Backing
  <2> QED
    BY <1>1, <2>1, Invisible DEF vars
<1>2. ASSUME NEW p \in Pids, pager_create(p) PROVE PM!Next
  BY <1>2, CreateRefines DEF PM!Next
<1>3. ASSUME NEW p \in Pids, pager_extend(p) PROVE PM!Next
  BY <1>3, ExtendRefines DEF PM!Next
<1>4. ASSUME NEW p \in Pids, pager_extend_fails(p)
      PROVE  PM!Next \/ UNCHANGED PM!memVars
  BY <1>1, <1>4 DEF pager_extend_fails
<1>5. ASSUME NEW p \in Pids, NEW i \in 0..(MaxPages - 1), pager_fault(p, i)
      PROVE  UNCHANGED PM!memVars
  BY <1>5, FaultValidRefines, LoadRefines DEF pager_fault
<1>6. ASSUME NEW p \in Pids, NEW i \in 0..(MaxPages - 1), NEW v \in Values,
             Write(p, i, v)
      PROVE  PM!Next
  BY <1>6, WriteRefines DEF PM!Next
<1>7. ASSUME NEW p \in Pids, ClientExit(p) PROVE PM!Next
  BY <1>7, ExitRefines DEF PM!Next
<1>8. ASSUME NEW p \in Pids, pager_destroy(p) PROVE UNCHANGED PM!memVars
  BY <1>8, DestroyRefines
<1> QED
  BY <1>1, <1>2, <1>3, <1>4, <1>5, <1>6, <1>7, <1>8 DEF Next

\* Nothing but the store of a process changes a page that exists.
LEMMA NextWrites == IInv /\ [Next]_vars => [OnlyWritesChange]_vars
<1> SUFFICES ASSUME IInv, Next PROVE OnlyWritesChange
  OBVIOUS
<1>1. ASSUME UNCHANGED absMem PROVE OnlyWritesChange
  BY <1>1 DEF OnlyWritesChange
<1>2. ASSUME NEW p \in Pids, pager_create(p) PROVE UNCHANGED absMem
  BY <1>2, CreateRefines DEF PM!Attach
<1>3. ASSUME NEW p \in Pids, pager_extend(p) PROVE OnlyWritesChange
  <2>1. PICK v : absMem' = [absMem EXCEPT ![<<p, absSize[p]>>] = v]
    BY <1>3, ExtendRefines DEF PM!Grow
  <2>2. absSize[p] = count[p]
    BY <1>3, ExtendRefines DEF PM!Grow, absStatus, absSize
  <2>3. ASSUME NEW pg \in PageIds, absMem[pg] # Unset
        PROVE  pg # <<p, absSize[p]>>
    <3>1. pg[2] < count[pg[1]] /\ count[pg[1]] \in Nat /\ pg[1] \in Pids
      BY <2>3, PageIdParts DEF absMem, Listed, IInv, TypeOK
    <3> QED
      BY <2>2, <3>1
  <2>4. ASSUME NEW pg \in PageIds, absMem[pg] # Unset
        PROVE  absMem'[pg] = absMem[pg]
    BY <2>1, <2>3, <2>4
  <2> QED
    BY <2>4 DEF OnlyWritesChange
<1>4. ASSUME NEW p \in Pids, pager_extend_fails(p) PROVE UNCHANGED absMem
  <2>1. SameContents /\ UNCHANGED <<client, count>>
    BY <1>4 DEF pager_extend_fails, vars, SameContents, Content, Backing
  <2> QED
    BY <2>1, Invisible DEF PM!memVars
<1>5. ASSUME NEW p \in Pids, NEW i \in 0..(MaxPages - 1), pager_fault(p, i)
      PROVE  UNCHANGED absMem
  BY <1>5, FaultValidRefines, LoadRefines DEF pager_fault, PM!memVars
<1>6. ASSUME NEW p \in Pids, NEW i \in 0..(MaxPages - 1), NEW v \in Values,
             Write(p, i, v)
      PROVE  OnlyWritesChange
  <2>1. absMem' = [absMem EXCEPT ![<<p, i>>] = v]
    BY <1>6, WriteRefines DEF PM!Store
  <2>2. ASSUME NEW pg \in PageIds, absMem[pg] # Unset, absMem'[pg] # absMem[pg]
        PROVE  Write(pg[1], pg[2], v) /\ absMem'[pg] = v
    <3>1. pg = <<p, i>> /\ pg \in DOMAIN absMem
      BY <2>1, <2>2 DEF absMem
    <3> QED
      BY <1>6, <2>1, <3>1
  <2> QED
    BY <2>2 DEF OnlyWritesChange
<1>7. ASSUME NEW p \in Pids, ClientExit(p) PROVE OnlyWritesChange
  <2>1. \A pg \in PageIds : absMem'[pg] \in {Unset, absMem[pg]}
    BY <1>7, ExitRefines, PMPageIds DEF PM!Leave
  <2> QED
    BY <2>1 DEF OnlyWritesChange
<1>8. ASSUME NEW p \in Pids, pager_destroy(p) PROVE UNCHANGED absMem
  BY <1>8, DestroyRefines DEF PM!memVars
<1> QED
  BY <1>1, <1>2, <1>3, <1>4, <1>5, <1>6, <1>7, <1>8 DEF Next

\* The pager, for any number of processes, frames, blocks and pages, gives
\* every process a private memory that returns the last value stored in it, and
\* changes that memory in no other step.
THEOREM Refinement == Spec => ImplementsPageMemory
<1>1. Spec => PM!Init /\ [][PM!Next]_(PM!memVars)
  BY Invariance, InitRefines, NextRefines, PTL DEF Spec
<1>2. Spec => [][OnlyWritesChange]_vars
  BY Invariance, NextWrites, PTL DEF Spec
<1> QED
  BY <1>1, <1>2 DEF ImplementsPageMemory, PM!Spec
-----------------------------------------------------------------------------
(* Division: the page of an address and the frame of a byte *)

LEMMA DivMod ==
  ASSUME NEW m \in Nat \ {0}, NEW n \in Nat
  PROVE  /\ n \div m \in Nat
         /\ n % m \in 0..(m - 1)
         /\ n = (m * (n \div m)) + (n % m)
OBVIOUS

LEMMA TimesLess ==
  ASSUME NEW m \in Nat \ {0}, NEW x \in Nat, NEW y \in Nat, x < y
  PROVE  (m * x) + m <= m * y
<1>1. PICK d \in Nat : y = x + 1 + d
  <2>1. y - x - 1 \in Nat /\ y = x + 1 + (y - x - 1)
    OBVIOUS
  <2> QED
    BY <2>1
<1>2. m * y = (m * x) + m + (m * d)
  BY <1>1
<1>3. m * d \in Nat /\ m * x \in Nat
  OBVIOUS
<1> QED
  BY <1>2, <1>3

LEMMA DivUnique ==
  ASSUME NEW m \in Nat \ {0}, NEW q \in Nat, NEW r \in 0..(m - 1),
         NEW n, n = (m * q) + r
  PROVE  n \in Nat /\ n \div m = q /\ n % m = r
<1>1. n \in Nat /\ m * q \in Nat
  OBVIOUS
<1>2. PICK x \in Nat, y \in 0..(m - 1) :
        x = n \div m /\ y = n % m /\ n = (m * x) + y
  BY <1>1, DivMod
<1>3. m * x \in Nat
  BY <1>2
<1>4. ~ (x < q)
  <2> SUFFICES ASSUME x < q
               PROVE  FALSE
    OBVIOUS
  <2>1. (m * x) + m <= m * q
    BY TimesLess
  <2> QED
    BY <1>1, <1>2, <1>3, <2>1
<1>5. ~ (q < x)
  <2> SUFFICES ASSUME q < x
               PROVE  FALSE
    OBVIOUS
  <2>1. (m * q) + m <= m * x
    BY TimesLess
  <2> QED
    BY <1>1, <1>2, <1>3, <2>1
<1>6. x = q
  BY <1>4, <1>5
<1>7. y = r
  BY <1>1, <1>2, <1>6
<1> QED
  BY <1>1, <1>2, <1>6, <1>7

-----------------------------------------------------------------------------
(* pager_syslog *)

\* get_page finds the page an address is in, if it was allocated.
LEMMA GetPage ==
  ASSUME IInv, NEW p \in Pids, NEW n \in Nat
  PROVE  /\ count[p] \in Nat /\ PageSize * count[p] \in Nat
         /\ n < PageSize * count[p] =>
              /\ get_page(p, n) = <<p, n \div PageSize>> /\ get_page(p, n) # NULL
              /\ <<p, n \div PageSize>> \in PageIds /\ Listed(<<p, n \div PageSize>>)
         /\ ~ (n < PageSize * count[p]) => get_page(p, n) = NULL
<1>1. count[p] \in Nat /\ count[p] <= MaxPages /\ PageSize \in Nat \ {0}
  BY SizesAssumption, PageSizeAssumption DEF IInv, TypeOK
<1>2. PageSize * count[p] \in Nat
  BY <1>1
<1>3. ASSUME n < PageSize * count[p]
      PROVE  <<p, n \div PageSize>> \in PageIds /\ Listed(<<p, n \div PageSize>>)
  <2>1. PICK q \in Nat, r \in 0..(PageSize - 1) :
          q = n \div PageSize /\ n = (PageSize * q) + r
    BY <1>1, DivMod
  <2>2. q < count[p]
    <3> SUFFICES ASSUME ~ (q < count[p])
                 PROVE  FALSE
      OBVIOUS
    <3>1. count[p] = q \/ count[p] < q
      BY <1>1
    <3>2. PageSize * count[p] <= PageSize * q
      <4>1. CASE count[p] = q
        BY <1>2, <4>1
      <4>2. CASE count[p] < q
        <5>1. (PageSize * count[p]) + PageSize <= PageSize * q
          BY <1>1, <4>2, TimesLess
        <5> QED
          BY <1>1, <1>2, <5>1
      <4> QED
        BY <3>1, <4>1, <4>2
    <3>3. PageSize * q \in Nat
      BY <1>1
    <3> QED
      BY <1>2, <1>3, <2>1, <3>2, <3>3
  <2> QED
    BY <1>1, <2>1, <2>2, SizesAssumption, PageIdOf DEF Listed
<1> QED
  BY <1>1, <1>2, <1>3, MarkersAssumption DEF get_page

\* The loop meets an address without a page when the range ends past the last one.
LEMMA RejectsPastEnd ==
  ASSUME IInv, NEW p \in Pids, NEW addr \in Nat, NEW len \in Nat
  PROVE  Rejects(p, addr, len) <=> len > 0 /\ addr + len > PageSize * count[p]
<1>1. PICK end \in Nat : end = PageSize * count[p]
  BY GetPage
<1>2. \A i \in 0..(len - 1) : get_page(p, addr + i) = NULL <=> ~ (addr + i < end)
  <2> SUFFICES ASSUME NEW i \in 0..(len - 1)
               PROVE  get_page(p, addr + i) = NULL <=> ~ (addr + i < end)
    OBVIOUS
  <2>1. addr + i \in Nat
    OBVIOUS
  <2> QED
    BY <1>1, <2>1, GetPage
<1>3. ASSUME len > 0, addr + len > end
      PROVE  Rejects(p, addr, len)
  <2>1. len - 1 \in 0..(len - 1) /\ ~ (addr + (len - 1) < end)
    BY <1>3
  <2> QED
    BY <1>2, <2>1 DEF Rejects
<1>4. ASSUME Rejects(p, addr, len)
      PROVE  len > 0 /\ addr + len > end
  <2>1. PICK i \in 0..(len - 1) : ~ (addr + i < end)
    BY <1>2, <1>4 DEF Rejects
  <2> QED
    BY <2>1
<1> QED
  BY <1>1, <1>3, <1>4

\* The bytes of the start of a resident page.
LEMMA ByteOfPage ==
  ASSUME IInv, NEW p \in Pids, NEW q \in Nat, Listed(<<p, q>>), <<p, q>> \in PageIds,
         pages[<<p, q>>].isvalid = 1, NEW i \in 0..(PageSize - 1),
         NEW addr, addr = PageSize * q
  PROVE  Byte(p, addr, i) = ReadByte(p, addr + i)
<1>1. PICK pg \in PageIds, f \in Nat : /\ pg = <<p, q>>
                                       /\ f = pages[pg].frame_number
                                       /\ f \in Frames /\ f # Unset
  <2>1. PICK pg \in PageIds : pg = <<p, q>>
    OBVIOUS
  <2>2. pages[pg].frame_number \in Frames
    BY <2>1 DEF IInv, FrameOwnership
  <2>3. pages[pg].frame_number \in Nat
    BY <2>2, FramesFacts
  <2>4. pages[pg].frame_number # Unset
    BY <2>3, MarkersAssumption
  <2> QED
    BY <2>1, <2>2, <2>3, <2>4
<1>2. PageSize \in Nat \ {0} /\ i \in Nat
  BY PageSizeAssumption
<1>3. /\ addr + i \in Nat
      /\ (addr + i) \div PageSize = q
      /\ (addr + i) % PageSize = i
  <2>1. PICK n : n = (PageSize * q) + i
    OBVIOUS
  <2> QED
    BY <1>2, <2>1, DivUnique
<1>4. addr + i < PageSize * count[p]
  <2>1. q < count[p] /\ count[p] \in Nat /\ PageSize * count[p] \in Nat
    BY <1>3, GetPage DEF Listed
  <2>2. (PageSize * q) + PageSize <= PageSize * count[p]
    BY <1>2, <2>1, TimesLess
  <2>3. PageSize * q \in Nat
    BY <1>2
  <2> QED
    BY <1>2, <2>1, <2>2, <2>3
<1>5. get_page(p, addr + i) = pg
  BY <1>1, <1>3, <1>4, GetPage
<1>6. /\ (f * PageSize + i) \div PageSize = f
      /\ (f * PageSize + i) % PageSize = i
  <2>1. PICK n \in Nat : n = (PageSize * f) + i
    BY <1>1, <1>2
  <2>2. n \div PageSize = f /\ n % PageSize = i
    BY <1>2, <2>1, DivUnique
  <2>3. n = f * PageSize + i
    BY <1>1, <1>2, <2>1
  <2> QED
    BY <2>2, <2>3
<1>7. Byte(p, addr, i) = pmem[f][i]
  BY <1>1, <1>5, <1>6 DEF Byte, PmemByte, PhysicalAddress
<1> QED
  BY <1>1, <1>3, <1>7 DEF ReadByte, Content

\* The index of pager_syslog is the place of the byte on the first page of a range
\* that starts at a page, and nowhere else.
LEMMA IndexIsPlace ==
  ASSUME IInv, NEW p \in Pids, NEW addr \in Nat, NEW i \in Nat,
         get_page(p, addr + i) # NULL,
         pages[<<p, (addr + i) \div PageSize>>].isvalid = 1
  PROVE  (PhysicalAddress(p, addr, i) = PlaceOf(p, addr + i))
           <=> (addr % PageSize = 0 /\ i < PageSize)
<1>1. PageSize \in Nat \ {0} /\ addr + i \in Nat
  BY PageSizeAssumption
<1>2. PICK k \in Nat, o \in 0..(PageSize - 1) :
        /\ k = (addr + i) \div PageSize
        /\ o = (addr + i) % PageSize
        /\ addr + i = (PageSize * k) + o
  BY <1>1, DivMod
<1>3. PICK pg \in PageIds : pg = <<p, k>> /\ get_page(p, addr + i) = pg /\ Listed(pg)
  BY <1>1, <1>2, GetPage
<1>4. PICK f \in Nat : f = pages[pg].frame_number
  <2>1. pages[pg].frame_number \in Frames
    BY <1>2, <1>3 DEF IInv, FrameOwnership
  <2> QED
    BY <2>1, FramesFacts
<1>5. PICK base \in Nat : base = f * PageSize
  BY <1>1, <1>4
<1>6. PhysicalAddress(p, addr, i) = base + i
  BY <1>3, <1>4, <1>5 DEF PhysicalAddress
<1>7. PlaceOf(p, addr + i) = base + o
  BY <1>2, <1>3, <1>4, <1>5 DEF PlaceOf
<1>8. (PhysicalAddress(p, addr, i) = PlaceOf(p, addr + i)) <=> i = o
  BY <1>6, <1>7
<1>9. ASSUME i = o
      PROVE  addr % PageSize = 0 /\ i < PageSize
  <2>1. PageSize * k \in Nat
    BY <1>1
  <2>2. addr = (PageSize * k) + 0
    BY <1>2, <1>9, <2>1
  <2>3. 0 \in 0..(PageSize - 1)
    BY <1>1
  <2>4. addr % PageSize = 0
    BY <1>1, <2>2, <2>3, DivUnique
  <2> QED
    BY <1>1, <1>9, <2>4
<1>10. ASSUME addr % PageSize = 0, i < PageSize
       PROVE  i = o
  <2>1. PICK q \in Nat, r \in 0..(PageSize - 1) :
          r = addr % PageSize /\ addr = (PageSize * q) + r
    BY <1>1, DivMod
  <2>2. i \in 0..(PageSize - 1) /\ PageSize * q \in Nat
    BY <1>1, <1>10
  <2>3. addr + i = (PageSize * q) + i
    BY <1>10, <2>1, <2>2
  <2>4. (addr + i) % PageSize = i
    BY <1>1, <2>2, <2>3, DivUnique
  <2> QED
    BY <1>2, <2>4
<1> QED
  BY <1>8, <1>9, <1>10

LEMMA InvSyslog == IInv => SyslogIsRight
<1> SUFFICES ASSUME IInv, NEW p \in Pids, NEW addr \in Addresses, NEW len \in Lengths
             PROVE  LET r == pager_syslog(p, addr, len) IN
                    /\ r.status = -1 <=> len > 0 /\ addr + len > PageSize * count[p]
                    /\ r.status = -1 => r.line = <<>>
                    /\ r.status = 0 => \A i \in 0..(len - 1) :
                         pages[<<p, (addr + i) \div PageSize>>].isvalid = 1 =>
                           /\ (PhysicalAddress(p, addr, i) = PlaceOf(p, addr + i))
                                <=> (addr % PageSize = 0 /\ i < PageSize)
                           /\ addr % PageSize = 0 /\ i < PageSize =>
                                r.line[i + 1] = ReadByte(p, addr + i)
  BY DEF SyslogIsRight
<1>1. addr \in Nat /\ len \in Nat /\ PageSize \in Nat \ {0}
  BY PageSizeAssumption, SizesAssumption DEF Addresses, Lengths
<1>2. PICK r : r = pager_syslog(p, addr, len)
  OBVIOUS
<1>3. r.status = -1 <=> Rejects(p, addr, len)
  BY <1>2 DEF pager_syslog
<1>4. r.status = -1 => r.line = <<>>
  BY <1>2 DEF pager_syslog
<1>5. ASSUME r.status = 0, NEW i \in 0..(len - 1),
             pages[<<p, (addr + i) \div PageSize>>].isvalid = 1
      PROVE  /\ (PhysicalAddress(p, addr, i) = PlaceOf(p, addr + i))
                  <=> (addr % PageSize = 0 /\ i < PageSize)
             /\ addr % PageSize = 0 /\ i < PageSize => r.line[i + 1] = ReadByte(p, addr + i)
  <2>1. i \in Nat /\ addr + i \in Nat
    BY <1>1
  <2>2. ~ Rejects(p, addr, len)
    BY <1>3, <1>5
  <2>3. get_page(p, addr + i) # NULL
    BY <2>2 DEF Rejects
  <2>4. (PhysicalAddress(p, addr, i) = PlaceOf(p, addr + i))
          <=> (addr % PageSize = 0 /\ i < PageSize)
    BY <1>1, <1>5, <2>1, <2>3, IndexIsPlace
  <2>5. ASSUME addr % PageSize = 0, i < PageSize
        PROVE  r.line[i + 1] = ReadByte(p, addr + i)
    <3>1. PICK q \in Nat : addr = PageSize * q
      <4>1. PICK q \in Nat : addr = (PageSize * q) + (addr % PageSize)
        BY <1>1, DivMod
      <4>2. PageSize * q \in Nat
        BY <1>1
      <4> QED
        BY <2>5, <4>1, <4>2
    <3>2. PICK n \in 0..(PageSize - 1) : n = i
      BY <1>1, <2>1, <2>5
    <3>3. (addr + n) \div PageSize = q
      <4>1. PICK m : m = (PageSize * q) + n
        OBVIOUS
      <4> QED
        BY <1>1, <3>1, <4>1, DivUnique
    <3>4. Listed(<<p, q>>) /\ <<p, q>> \in PageIds
      <4>1. q = (addr + i) \div PageSize
        BY <3>2, <3>3
      <4> QED
        BY <2>1, <2>3, <4>1, GetPage
    <3>5. pages[<<p, q>>].isvalid = 1
      BY <1>5, <3>2, <3>3
    <3>6. Byte(p, addr, n) = ReadByte(p, addr + n)
      BY <3>1, <3>4, <3>5, ByteOfPage
    <3>7. r.line = [j \in 1..len |-> Byte(p, addr, j - 1)]
      BY <1>2, <2>2 DEF pager_syslog
    <3>8. i + 1 \in 1..len /\ (i + 1) - 1 = i
      BY <1>1
    <3>9. r.line[i + 1] = Byte(p, addr, i)
      BY <3>7, <3>8
    <3> QED
      BY <3>2, <3>6, <3>9
  <2> QED
    BY <2>4, <2>5
<1> QED
  BY <1>1, <1>2, <1>3, <1>4, <1>5, RejectsPastEnd

\* pager_syslog refuses a range exactly when a byte of it was never allocated and
\* prints nothing then.  Of any other range it reads a byte in memory where its
\* process has it exactly when the range starts at a page and the byte is on this
\* first page, and prints then the byte the process reads.
THEOREM SyslogCorrect == Spec => []SyslogIsRight
BY InvSyslog, Invariance, PTL
=============================================================================
