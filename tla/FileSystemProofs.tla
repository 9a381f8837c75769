------------------------- MODULE FileSystemProofs -------------------------
(***************************************************************************)
(* Safety of FileSystem for every size of image, every set of names and    *)
(* every sequence of calls.  The calls are loops over blocks; what their   *)
(* turns leave of the image is stated block by block, and the inductive    *)
(* invariant says of every block what it is and which one other block      *)
(* leads to it.                                                            *)
(*                                                                         *)
(* The invariant assumes ~Overwrites: LinksAreDataBlocks does not hold of  *)
(* files that are written again.                                           *)
(***************************************************************************)
EXTENDS FileSystem, SequenceTheorems, FiniteSetTheorems, WellFoundedInduction, TLAPS

-----------------------------------------------------------------------------
(* Recursive functions *)

LEMMA NatSetInduction ==
  ASSUME NEW I, 0 \in I, \A n \in Nat : n \in I => n + 1 \in I
  PROVE  \A n \in Nat : n \in I
<1> DEFINE B == Nat \ I
<1>1. SUFFICES ASSUME B # {} PROVE FALSE
  OBVIOUS
<1>2. IsWellFoundedOn(OpToRel(<, Nat), Nat)
  BY NatLessThanWellFounded
<1>3. PICK x \in B : \A y \in B : ~(<<y, x>> \in OpToRel(<, Nat))
  BY <1>1, <1>2, WFMin
<1>4. x \in Nat /\ x \notin I /\ x # 0
  BY <1>3
<1>5. x - 1 \in Nat /\ x - 1 + 1 = x /\ x - 1 < x
  BY <1>4
<1>6. x - 1 \notin I
  BY <1>4, <1>5
<1>7. <<x - 1, x>> \in OpToRel(<, Nat)
  BY <1>4, <1>5 DEF OpToRel
<1> QED
  BY <1>3, <1>5, <1>6, <1>7

\* get_inode_block: where the search starts.
Start == [block |-> root, full_match |-> TRUE, left_over |-> "/"]

\* What get_inode_block has after every name.
Lookups(f, n, S, path) ==
  f = [k \in 0..n |-> IF k = 0 THEN Start ELSE Descend(S, f[k - 1], path[k])]

LEMMA LookupsExists ==
  ASSUME NEW S, NEW path, NEW n \in Nat
  PROVE  \E f : Lookups(f, n, S, path)
<1> DEFINE I == {m \in Nat : \E f : Lookups(f, m, S, path)}
<1>1. 0 \in I
  <2> DEFINE f == [k \in 0..0 |-> Start]
  <2>1. f = [k \in 0..0 |-> IF k = 0 THEN Start ELSE Descend(S, f[k - 1], path[k])]
    OBVIOUS
  <2>2. Lookups(f, 0, S, path)
    BY <2>1 DEF Lookups
  <2> QED
    BY <2>2
<1>2. ASSUME NEW m \in Nat, m \in I
      PROVE  m + 1 \in I
  <2>1. PICK f : Lookups(f, m, S, path)
    BY <1>2
  <2> DEFINE g == [k \in 0..(m + 1) |-> IF k = m + 1 THEN Descend(S, f[m], path[m + 1]) ELSE f[k]]
  <2>2. \A k \in 0..m : g[k] = f[k]
    OBVIOUS
  <2>3. ASSUME NEW k \in 0..(m + 1)
        PROVE  g[k] = IF k = 0 THEN Start ELSE Descend(S, g[k - 1], path[k])
    <3>1. CASE k = m + 1
      <4>1. k # 0 /\ k - 1 = m /\ m \in 0..m /\ g[k] = Descend(S, f[m], path[m + 1])
        BY <3>1
      <4>2. g[m] = f[m]
        BY <2>2, <4>1
      <4> QED
        BY <3>1, <4>1, <4>2
    <3>2. CASE k # m + 1
      <4>1. k \in 0..m /\ g[k] = f[k]
        BY <3>2
      <4>2. f[k] = IF k = 0 THEN Start ELSE Descend(S, f[k - 1], path[k])
        BY <2>1, <4>1 DEF Lookups
      <4>3. k # 0 => g[k - 1] = f[k - 1]
        BY <2>2, <4>1
      <4> QED
        BY <4>1, <4>2, <4>3
    <3> QED
      BY <3>1, <3>2
  <2>4. Lookups(g, m + 1, S, path)
    BY <2>3 DEF Lookups
  <2> HIDE DEF g
  <2> QED
    BY <2>4
<1>3. n \in I
  BY <1>1, <1>2, NatSetInduction
<1> QED
  BY <1>3

LEMMA LookupsReturned ==
  ASSUME NEW S, NEW path, Len(path) \in Nat
  PROVE  \E f : Lookups(f, Len(path), S, path) /\ get_inode_block(S, path) = f[Len(path)]
<1> DEFINE r == CHOOSE f : Lookups(f, Len(path), S, path)
<1>1. \E f : Lookups(f, Len(path), S, path)
  BY LookupsExists
<1>2. get_inode_block(S, path) = r[Len(path)]
  BY DEF get_inode_block, Lookups, Start
<1> QED
  BY <1>1, <1>2

\* The images that PutBlocks goes through.
Puts(f, n, S, blocks) ==
  f = [k \in 0..n |-> IF k = 0 THEN S ELSE fs_put_block(f[k - 1], blocks[k])]

LEMMA PutsExists ==
  ASSUME NEW S, NEW blocks, NEW n \in Nat
  PROVE  \E f : Puts(f, n, S, blocks)
<1> DEFINE I == {m \in Nat : \E f : Puts(f, m, S, blocks)}
<1>1. 0 \in I
  <2> DEFINE f == [k \in 0..0 |-> S]
  <2>1. f = [k \in 0..0 |-> IF k = 0 THEN S ELSE fs_put_block(f[k - 1], blocks[k])]
    OBVIOUS
  <2>2. Puts(f, 0, S, blocks)
    BY <2>1 DEF Puts
  <2> QED
    BY <2>2
<1>2. ASSUME NEW m \in Nat, m \in I
      PROVE  m + 1 \in I
  <2>1. PICK f : Puts(f, m, S, blocks)
    BY <1>2
  <2> DEFINE g == [k \in 0..(m + 1) |-> IF k = m + 1 THEN fs_put_block(f[m], blocks[m + 1]) ELSE f[k]]
  <2>2. \A k \in 0..m : g[k] = f[k]
    OBVIOUS
  <2>3. ASSUME NEW k \in 0..(m + 1)
        PROVE  g[k] = IF k = 0 THEN S ELSE fs_put_block(g[k - 1], blocks[k])
    <3>1. CASE k = m + 1
      <4>1. k # 0 /\ k - 1 = m /\ m \in 0..m /\ g[k] = fs_put_block(f[m], blocks[m + 1])
        BY <3>1
      <4>2. g[m] = f[m]
        BY <2>2, <4>1
      <4> QED
        BY <3>1, <4>1, <4>2
    <3>2. CASE k # m + 1
      <4>1. k \in 0..m /\ g[k] = f[k]
        BY <3>2
      <4>2. f[k] = IF k = 0 THEN S ELSE fs_put_block(f[k - 1], blocks[k])
        BY <2>1, <4>1 DEF Puts
      <4>3. k # 0 => g[k - 1] = f[k - 1]
        BY <2>2, <4>1
      <4> QED
        BY <4>1, <4>2, <4>3
    <3> QED
      BY <3>1, <3>2
  <2>4. Puts(g, m + 1, S, blocks)
    BY <2>3 DEF Puts
  <2> HIDE DEF g
  <2> QED
    BY <2>4
<1>3. n \in I
  BY <1>1, <1>2, NatSetInduction
<1> QED
  BY <1>3

LEMMA PutsReturned ==
  ASSUME NEW S, NEW blocks, Len(blocks) \in Nat
  PROVE  \E f : Puts(f, Len(blocks), S, blocks) /\ PutBlocks(S, blocks) = f[Len(blocks)]
<1> DEFINE r == CHOOSE f : Puts(f, Len(blocks), S, blocks)
<1>1. \E f : Puts(f, Len(blocks), S, blocks)
  BY PutsExists
<1>2. PutBlocks(S, blocks) = r[Len(blocks)]
  BY DEF PutBlocks, Puts
<1> QED
  BY <1>1, <1>2

\* The images that write_to_file goes through.
Writes(f, n, S, file, c) ==
  f = [k \in 0..n |-> IF k = 0 THEN S ELSE WriteChunk(f[k - 1], file, Chunks(c)[k])]

LEMMA WritesExists ==
  ASSUME NEW S, NEW file, NEW c, NEW n \in Nat
  PROVE  \E f : Writes(f, n, S, file, c)
<1> DEFINE I == {m \in Nat : \E f : Writes(f, m, S, file, c)}
<1>1. 0 \in I
  <2> DEFINE f == [k \in 0..0 |-> S]
  <2>1. f = [k \in 0..0 |-> IF k = 0 THEN S ELSE WriteChunk(f[k - 1], file, Chunks(c)[k])]
    OBVIOUS
  <2>2. Writes(f, 0, S, file, c)
    BY <2>1 DEF Writes
  <2> QED
    BY <2>2
<1>2. ASSUME NEW m \in Nat, m \in I
      PROVE  m + 1 \in I
  <2>1. PICK f : Writes(f, m, S, file, c)
    BY <1>2
  <2> DEFINE g == [k \in 0..(m + 1) |-> IF k = m + 1 THEN WriteChunk(f[m], file, Chunks(c)[m + 1]) ELSE f[k]]
  <2>2. \A k \in 0..m : g[k] = f[k]
    OBVIOUS
  <2>3. ASSUME NEW k \in 0..(m + 1)
        PROVE  g[k] = IF k = 0 THEN S ELSE WriteChunk(g[k - 1], file, Chunks(c)[k])
    <3>1. CASE k = m + 1
      <4>1. k # 0 /\ k - 1 = m /\ m \in 0..m /\ g[k] = WriteChunk(f[m], file, Chunks(c)[m + 1])
        BY <3>1
      <4>2. g[m] = f[m]
        BY <2>2, <4>1
      <4> QED
        BY <3>1, <4>1, <4>2
    <3>2. CASE k # m + 1
      <4>1. k \in 0..m /\ g[k] = f[k]
        BY <3>2
      <4>2. f[k] = IF k = 0 THEN S ELSE WriteChunk(f[k - 1], file, Chunks(c)[k])
        BY <2>1, <4>1 DEF Writes
      <4>3. k # 0 => g[k - 1] = f[k - 1]
        BY <2>2, <4>1
      <4> QED
        BY <4>1, <4>2, <4>3
    <3> QED
      BY <3>1, <3>2
  <2>4. Writes(g, m + 1, S, file, c)
    BY <2>3 DEF Writes
  <2> HIDE DEF g
  <2> QED
    BY <2>4
<1>3. n \in I
  BY <1>1, <1>2, NatSetInduction
<1> QED
  BY <1>3

LEMMA WritesReturned ==
  ASSUME NEW S, NEW file, NEW c, Len(Chunks(c)) \in Nat
  PROVE  \E f : Writes(f, Len(Chunks(c)), S, file, c) /\ write_to_file(S, file, c) = f[Len(Chunks(c))]
<1> DEFINE r == CHOOSE f : Writes(f, Len(Chunks(c)), S, file, c)
<1>1. \E f : Writes(f, Len(Chunks(c)), S, file, c)
  BY WritesExists
<1>2. write_to_file(S, file, c) = r[Len(Chunks(c))]
  BY DEF write_to_file, Writes
<1> QED
  BY <1>1, <1>2

\* The sums of Bytes.
Sums(f, n, S, links) ==
  f = [k \in 0..n |-> IF k = 0 THEN 0 ELSE f[k - 1] + Len(S.disk[links[k]].bytes)]

LEMMA SumsExists ==
  ASSUME NEW S, NEW links, NEW n \in Nat
  PROVE  \E f : Sums(f, n, S, links)
<1> DEFINE I == {m \in Nat : \E f : Sums(f, m, S, links)}
<1>1. 0 \in I
  <2> DEFINE f == [k \in 0..0 |-> 0]
  <2>1. f = [k \in 0..0 |-> IF k = 0 THEN 0 ELSE f[k - 1] + Len(S.disk[links[k]].bytes)]
    OBVIOUS
  <2>2. Sums(f, 0, S, links)
    BY <2>1 DEF Sums
  <2> QED
    BY <2>2
<1>2. ASSUME NEW m \in Nat, m \in I
      PROVE  m + 1 \in I
  <2>1. PICK f : Sums(f, m, S, links)
    BY <1>2
  <2> DEFINE g == [k \in 0..(m + 1) |-> IF k = m + 1 THEN f[m] + Len(S.disk[links[m + 1]].bytes) ELSE f[k]]
  <2>2. \A k \in 0..m : g[k] = f[k]
    OBVIOUS
  <2>3. ASSUME NEW k \in 0..(m + 1)
        PROVE  g[k] = IF k = 0 THEN 0 ELSE g[k - 1] + Len(S.disk[links[k]].bytes)
    <3>1. CASE k = m + 1
      <4>1. k # 0 /\ k - 1 = m /\ m \in 0..m /\ g[k] = f[m] + Len(S.disk[links[m + 1]].bytes)
        BY <3>1
      <4>2. g[m] = f[m]
        BY <2>2, <4>1
      <4> QED
        BY <3>1, <4>1, <4>2
    <3>2. CASE k # m + 1
      <4>1. k \in 0..m /\ g[k] = f[k]
        BY <3>2
      <4>2. f[k] = IF k = 0 THEN 0 ELSE f[k - 1] + Len(S.disk[links[k]].bytes)
        BY <2>1, <4>1 DEF Sums
      <4>3. k # 0 => g[k - 1] = f[k - 1]
        BY <2>2, <4>1
      <4> QED
        BY <4>1, <4>2, <4>3
    <3> QED
      BY <3>1, <3>2
  <2>4. Sums(g, m + 1, S, links)
    BY <2>3 DEF Sums
  <2> HIDE DEF g
  <2> QED
    BY <2>4
<1>3. n \in I
  BY <1>1, <1>2, NatSetInduction
<1> QED
  BY <1>3

LEMMA SumsReturned ==
  ASSUME NEW S, NEW links, Len(links) \in Nat
  PROVE  \E f : Sums(f, Len(links), S, links) /\ Bytes(S, links) = f[Len(links)]
<1> DEFINE r == CHOOSE f : Sums(f, Len(links), S, links)
<1>1. \E f : Sums(f, Len(links), S, links)
  BY SumsExists
<1>2. Bytes(S, links) = r[Len(links)]
  BY DEF Bytes, Sums
<1> QED
  BY <1>1, <1>2

\* The blocks behind a block, following next.
Hops(f, n, S, header) ==
  f = [k \in 0..n |-> IF k = 0 THEN header ELSE S.disk[f[k - 1]].next]

LEMMA HopsExists ==
  ASSUME NEW S, NEW header, NEW n \in Nat
  PROVE  \E f : Hops(f, n, S, header)
<1> DEFINE I == {m \in Nat : \E f : Hops(f, m, S, header)}
<1>1. 0 \in I
  <2> DEFINE f == [k \in 0..0 |-> header]
  <2>1. f = [k \in 0..0 |-> IF k = 0 THEN header ELSE S.disk[f[k - 1]].next]
    OBVIOUS
  <2>2. Hops(f, 0, S, header)
    BY <2>1 DEF Hops
  <2> QED
    BY <2>2
<1>2. ASSUME NEW m \in Nat, m \in I
      PROVE  m + 1 \in I
  <2>1. PICK f : Hops(f, m, S, header)
    BY <1>2
  <2> DEFINE g == [k \in 0..(m + 1) |-> IF k = m + 1 THEN S.disk[f[m]].next ELSE f[k]]
  <2>2. \A k \in 0..m : g[k] = f[k]
    OBVIOUS
  <2>3. ASSUME NEW k \in 0..(m + 1)
        PROVE  g[k] = IF k = 0 THEN header ELSE S.disk[g[k - 1]].next
    <3>1. CASE k = m + 1
      <4>1. k # 0 /\ k - 1 = m /\ m \in 0..m /\ g[k] = S.disk[f[m]].next
        BY <3>1
      <4>2. g[m] = f[m]
        BY <2>2, <4>1
      <4> QED
        BY <3>1, <4>1, <4>2
    <3>2. CASE k # m + 1
      <4>1. k \in 0..m /\ g[k] = f[k]
        BY <3>2
      <4>2. f[k] = IF k = 0 THEN header ELSE S.disk[f[k - 1]].next
        BY <2>1, <4>1 DEF Hops
      <4>3. k # 0 => g[k - 1] = f[k - 1]
        BY <2>2, <4>1
      <4> QED
        BY <4>1, <4>2, <4>3
    <3> QED
      BY <3>1, <3>2
  <2>4. Hops(g, m + 1, S, header)
    BY <2>3 DEF Hops
  <2> HIDE DEF g
  <2> QED
    BY <2>4
<1>3. n \in I
  BY <1>1, <1>2, NatSetInduction
<1> QED
  BY <1>3

-----------------------------------------------------------------------------
(* Sequences *)

LEMMA MinIsLeast ==
  ASSUME NEW I \in SUBSET Nat, I # {}
  PROVE  Min(I) \in I /\ \A y \in I : Min(I) <= y
<1>1. IsWellFoundedOn(OpToRel(<, Nat), Nat)
  BY NatLessThanWellFounded
<1>2. PICK x \in I : \A y \in I : ~(<<y, x>> \in OpToRel(<, Nat))
  BY <1>1, WFMin
<1>3. \A y \in I : x <= y
  <2> TAKE y \in I
  <2>1. x \in Nat /\ y \in Nat
    OBVIOUS
  <2>2. y < x => <<y, x>> \in OpToRel(<, Nat)
    BY <2>1 DEF OpToRel
  <2>3. ~(y < x)
    BY <1>2, <2>2
  <2> QED
    BY <2>1, <2>3
<1> QED
  BY <1>2, <1>3 DEF Min

\* A sequence without repetition.
Distinct(s) == \A i, j \in 1..Len(s) : s[i] = s[j] => i = j

LEMMA DistinctIsInjective ==
  ASSUME NEW A, NEW s \in Seq(A)
  PROVE  IsInjective(s) <=> Distinct(s)
BY LenProperties DEF IsInjective, Distinct

LEMMA RangeIs ==
  ASSUME NEW A, NEW s \in Seq(A)
  PROVE  /\ \A x : x \in Range(s) <=> \E i \in 1..Len(s) : s[i] = x
         /\ Range(s) \subseteq A
BY LenProperties, ElementOfSeq DEF Range

LEMMA DistinctConcat ==
  ASSUME NEW A, NEW s \in Seq(A), NEW t \in Seq(A), Distinct(s), Distinct(t),
         Range(s) \cap Range(t) = {}
  PROVE  Distinct(s \o t)
<1>1. /\ Len(s \o t) = Len(s) + Len(t) /\ Len(s) \in Nat /\ Len(t) \in Nat
      /\ \A i \in 1..(Len(s) + Len(t)) : (s \o t)[i] = IF i <= Len(s) THEN s[i] ELSE t[i - Len(s)]
  BY ConcatProperties, LenProperties
<1>2. ASSUME NEW i \in 1..(Len(s) + Len(t)), NEW j \in 1..(Len(s) + Len(t)),
             (s \o t)[i] = (s \o t)[j]
      PROVE  i = j
  <2>1. \A k \in 1..Len(s) : s[k] \in Range(s)
    BY RangeIs
  <2>2. \A k \in 1..Len(t) : t[k] \in Range(t)
    BY RangeIs
  <2>3. CASE i <= Len(s) /\ j <= Len(s)
    BY <1>1, <1>2, <2>3 DEF Distinct
  <2>4. CASE ~(i <= Len(s)) /\ ~(j <= Len(s))
    <3>1. i - Len(s) \in 1..Len(t) /\ j - Len(s) \in 1..Len(t) /\ t[i - Len(s)] = t[j - Len(s)]
      BY <1>1, <1>2, <2>4
    <3>2. i - Len(s) = j - Len(s)
      BY <3>1 DEF Distinct
    <3> QED
      BY <1>1, <3>2
  <2>5. CASE i <= Len(s) /\ ~(j <= Len(s))
    <3>1. i \in 1..Len(s) /\ j - Len(s) \in 1..Len(t) /\ s[i] = t[j - Len(s)]
      BY <1>1, <1>2, <2>5
    <3> QED
      BY <2>1, <2>2, <3>1
  <2>6. CASE ~(i <= Len(s)) /\ j <= Len(s)
    <3>1. j \in 1..Len(s) /\ i - Len(s) \in 1..Len(t) /\ s[j] = t[i - Len(s)]
      BY <1>1, <1>2, <2>6
    <3> QED
      BY <2>1, <2>2, <3>1
  <2> QED
    BY <2>3, <2>4, <2>5, <2>6
<1> QED
  BY <1>1, <1>2 DEF Distinct

LEMMA DistinctFits ==
  ASSUME NEW s \in Seq(Blocks), Distinct(s)
  PROVE  Len(s) <= NBlocks
<1>1. s \in [1..Len(s) -> Blocks] /\ Len(s) \in Nat
  BY LenProperties
<1>2. s \in Injection(1..Len(s), Blocks)
  BY <1>1 DEF Injection, IsInjective, Distinct
<1>3. NBlocks \in Nat /\ NBlocks > 3
  BY FormatAssumption
<1>4. IsFiniteSet(Blocks) /\ Cardinality(Blocks) = NBlocks
  <2>1. /\ IsFiniteSet(0..(NBlocks - 1))
        /\ Cardinality(0..(NBlocks - 1)) = IF 0 > NBlocks - 1 THEN 0 ELSE NBlocks - 1 - 0 + 1
    BY <1>3, FS_Interval
  <2> QED
    BY <1>3, <2>1 DEF Blocks
<1>5. Cardinality(1..Len(s)) = Len(s)
  <2>1. Cardinality(1..Len(s)) = IF 1 > Len(s) THEN 0 ELSE Len(s) - 1 + 1
    BY <1>1, FS_Interval
  <2> QED
    BY <1>1, <2>1
<1>6. Cardinality(1..Len(s)) <= Cardinality(Blocks)
  BY <1>2, <1>4, FS_Injection
<1> QED
  BY <1>4, <1>5, <1>6

\* A list linked by next, from its head h.
Linking(S, h, ns) ==
  /\ ns \in Seq(Blocks) /\ Len(ns) >= 1 /\ ns[1] = h
  /\ Distinct(ns)
  /\ \A k \in 1..(Len(ns) - 1) : S.disk[ns[k]].next = ns[k + 1] /\ ns[k + 1] # 0
  /\ S.disk[ns[Len(ns)]].next = 0

LEMMA NodesOfLinking ==
  ASSUME NEW S, NEW h, NEW ns, Linking(S, h, ns)
  PROVE  Nodes(S, h) = ns
<1> DEFINE r == CHOOSE f : Hops(f, NBlocks, S, h)
           Ends(n) == S.disk[r[n - 1]].next = 0
           len == CHOOSE n \in 1..NBlocks : Ends(n) /\ \A k \in 1..(n - 1) : ~Ends(k)
<1>1. Nodes(S, h) = [k \in 1..len |-> r[k - 1]]
  BY DEF Nodes, Hops
<1>2. NBlocks \in Nat
  BY FormatAssumption
<1>3. Hops(r, NBlocks, S, h)
  BY <1>2, HopsExists
<1>4. Len(ns) \in 1..NBlocks /\ ns = [k \in 1..Len(ns) |-> ns[k]]
  BY DistinctFits, LenProperties, <1>2 DEF Linking
<1> HIDE DEF r
<1>5. \A k \in 1..Len(ns) : r[k - 1] = ns[k]
  <2> DEFINE I == {n \in Nat : n + 1 \in 1..Len(ns) => r[n] = ns[n + 1]}
  <2>1. 0 \in I
    BY <1>3, <1>2 DEF Hops, Linking
  <2>2. ASSUME NEW n \in Nat, n \in I
        PROVE  n + 1 \in I
    <3> SUFFICES ASSUME n + 1 + 1 \in 1..Len(ns)
                 PROVE  r[n + 1] = ns[n + 1 + 1]
      OBVIOUS
    <3>1. r[n] = ns[n + 1] /\ n + 1 \in 1..(Len(ns) - 1) /\ n + 1 \in 0..NBlocks
      BY <1>2, <1>4, <2>2
    <3>2. r[n + 1] = S.disk[r[n + 1 - 1]].next /\ n + 1 - 1 = n
      BY <1>2, <1>3, <3>1 DEF Hops
    <3> QED
      BY <3>1, <3>2 DEF Linking
  <2>3. \A n \in Nat : n \in I
    BY <2>1, <2>2, NatSetInduction
  <2> QED
    BY <1>2, <2>3, <1>4
<1>6. Ends(Len(ns)) /\ \A k \in 1..(Len(ns) - 1) : ~Ends(k)
  <2>1. Ends(Len(ns))
    BY <1>2, <1>4, <1>5 DEF Linking
  <2>2. ASSUME NEW k \in 1..(Len(ns) - 1)
        PROVE  ~Ends(k)
    <3>1. k \in 1..Len(ns)
      BY <1>2, <1>4
    <3>2. S.disk[ns[k]].next = ns[k + 1] /\ ns[k + 1] # 0
      BY DEF Linking
    <3>3. r[k - 1] = ns[k]
      BY <1>5, <3>1
    <3> QED
      BY <3>2, <3>3
  <2> QED
    BY <2>1, <2>2
<1>7. len = Len(ns)
  <2>1. \A n \in 1..NBlocks : (Ends(n) /\ \A k \in 1..(n - 1) : ~Ends(k)) => n = Len(ns)
    BY <1>4, <1>6
  <2> HIDE DEF Ends
  <2> QED
    BY <1>4, <1>6, <2>1
<1> QED
  BY <1>1, <1>4, <1>5, <1>7

LEMMA FlattenNone == FlattenSeq(<<>>) = <<>>
BY DEF FlattenSeq

\* The partial results of FlattenSeq.
Flattened(f, n, seqs) ==
  f = [i \in 1..n |-> IF i = 1 THEN seqs[i] ELSE f[i - 1] \o seqs[i]]

LEMMA FlattenExists ==
  ASSUME NEW seqs, NEW n \in Nat
  PROVE  \E f : Flattened(f, n, seqs)
<1> DEFINE I == {m \in Nat : \E f : Flattened(f, m, seqs)}
<1>1. 0 \in I
  <2> DEFINE f == [i \in 1..0 |-> 0]
  <2>1. Flattened(f, 0, seqs)
    BY DEF Flattened
  <2> QED
    BY <2>1
<1>2. ASSUME NEW m \in Nat, m \in I
      PROVE  m + 1 \in I
  <2>1. PICK f : Flattened(f, m, seqs)
    BY <1>2
  <2> DEFINE last == IF m = 0 THEN seqs[1] ELSE f[m] \o seqs[m + 1]
             g == [i \in 1..(m + 1) |-> IF i = m + 1 THEN last ELSE f[i]]
  <2> HIDE DEF last
  <2>2. \A i \in 1..m : g[i] = f[i]
    OBVIOUS
  <2>3. g[m + 1] = last
    OBVIOUS
  <2>4. ASSUME NEW i \in 1..(m + 1)
        PROVE  g[i] = IF i = 1 THEN seqs[i] ELSE g[i - 1] \o seqs[i]
    <3>1. CASE i = m + 1
      <4>1. CASE m = 0
        BY <2>3, <3>1, <4>1 DEF last
      <4>2. CASE m # 0
        <5>1. g[m] = f[m] /\ i # 1 /\ i - 1 = m
          BY <2>2, <3>1, <4>2
        <5>2. last = f[m] \o seqs[m + 1]
          BY <4>2 DEF last
        <5> QED
          BY <2>3, <3>1, <5>1, <5>2
      <4> QED
        BY <4>1, <4>2
    <3>2. CASE i # m + 1
      <4>1. i \in 1..m /\ g[i] = f[i]
        BY <2>2, <3>2
      <4>2. f[i] = IF i = 1 THEN seqs[i] ELSE f[i - 1] \o seqs[i]
        BY <2>1, <4>1 DEF Flattened
      <4>3. i # 1 => g[i - 1] = f[i - 1]
        BY <2>2, <4>1
      <4> QED
        BY <4>1, <4>2, <4>3
    <3> QED
      BY <3>1, <3>2
  <2>5. Flattened(g, m + 1, seqs)
    BY <2>4 DEF Flattened
  <2> HIDE DEF g
  <2> QED
    BY <2>5
<1>3. n \in I
  BY <1>1, <1>2, NatSetInduction
<1> QED
  BY <1>3

LEMMA FlattenedAt ==
  ASSUME NEW f, NEW n \in Nat, NEW seqs, Flattened(f, n, seqs), NEW i \in Nat, i + 1 \in 1..n
  PROVE  f[i + 1] = IF i = 0 THEN seqs[i + 1] ELSE f[i] \o seqs[i + 1]
<1>1. \A j \in 1..n : f[j] = IF j = 1 THEN seqs[j] ELSE f[j - 1] \o seqs[j]
  BY DEF Flattened
<1>2. i + 1 - 1 = i /\ (i + 1 = 1 <=> i = 0)
  OBVIOUS
<1> DEFINE j == i + 1
<1>3. j - 1 = i /\ (j = 1 <=> i = 0) /\ j \in 1..n
  BY <1>2
<1> HIDE DEF j
<1>4. f[j] = IF i = 0 THEN seqs[j] ELSE f[i] \o seqs[j]
  BY <1>1, <1>3
<1> QED
  BY <1>4 DEF j

LEMMA FlattenReturned ==
  ASSUME NEW seqs, Len(seqs) \in Nat, Len(seqs) # 0
  PROVE  \E f : Flattened(f, Len(seqs), seqs) /\ FlattenSeq(seqs) = f[Len(seqs)]
<1> DEFINE r == CHOOSE f : Flattened(f, Len(seqs), seqs)
<1>1. \E f : Flattened(f, Len(seqs), seqs)
  BY FlattenExists
<1>2. FlattenSeq(seqs) = r[Len(seqs)]
  BY DEF FlattenSeq, Flattened
<1> QED
  BY <1>1, <1>2

\* FlattenSeq of one more sequence.
LEMMA FlattenAppend ==
  ASSUME NEW A, NEW seqs \in Seq(Seq(A)), NEW s \in Seq(A)
  PROVE  FlattenSeq(Append(seqs, s)) = FlattenSeq(seqs) \o s
<1> DEFINE t == Append(seqs, s)
           n == Len(seqs)
<1>1. /\ t \in Seq(Seq(A)) /\ Len(t) = n + 1 /\ n \in Nat
      /\ \A i \in 1..n : t[i] = seqs[i]
      /\ t[n + 1] = s
  BY AppendProperties, LenProperties
<1> HIDE DEF t
<1>2. PICK f : Flattened(f, n + 1, t) /\ FlattenSeq(t) = f[n + 1]
  BY <1>1, FlattenReturned
<1>3. CASE n = 0
  <2>1. seqs = <<>>
    BY <1>1, <1>3, EmptySeq
  <2>2. FlattenSeq(t) = s
    BY <1>1, <1>2, <1>3 DEF Flattened
  <2>3. <<>> \o s = s
    BY ConcatEmptySeq
  <2> QED
    BY <2>1, <2>2, <2>3, FlattenNone DEF t
<1>4. CASE n # 0
  <2>1. PICK g : Flattened(g, n, seqs) /\ FlattenSeq(seqs) = g[n]
    BY <1>1, <1>4, FlattenReturned
  <2>2. \A i \in 1..n : f[i] = g[i]
    <3> DEFINE I == {m \in Nat : m \in 1..n => f[m] = g[m]}
    <3>1. 0 \in I
      OBVIOUS
    <3>2. ASSUME NEW m \in Nat, m \in I
          PROVE  m + 1 \in I
      <4> SUFFICES ASSUME m + 1 \in 1..n
                   PROVE  f[m + 1] = g[m + 1]
        OBVIOUS
      <4>1. m + 1 \in 1..(n + 1) /\ n + 1 \in Nat /\ t[m + 1] = seqs[m + 1]
        BY <1>1
      <4>2. f[m + 1] = IF m = 0 THEN t[m + 1] ELSE f[m] \o t[m + 1]
        BY <1>2, <4>1, FlattenedAt
      <4>3. g[m + 1] = IF m = 0 THEN seqs[m + 1] ELSE g[m] \o seqs[m + 1]
        BY <1>1, <2>1, FlattenedAt, SMTT(30)
      <4>4. m # 0 => f[m] = g[m]
        BY <1>1, <3>2
      <4> QED
        BY <4>1, <4>2, <4>3, <4>4
    <3>3. \A m \in Nat : m \in I
      BY <3>1, <3>2, NatSetInduction
    <3> QED
      BY <3>3
  <2>3. f[n + 1] = f[n] \o t[n + 1]
    <3>1. n + 1 \in 1..(n + 1) /\ n + 1 \in Nat
      BY <1>1
    <3> QED
      BY <1>1, <1>2, <1>4, <3>1, FlattenedAt
  <2>4. f[n] = g[n]
    BY <1>1, <1>4, <2>2
  <2> QED
    BY <1>1, <1>2, <2>1, <2>3, <2>4 DEF t
<1> QED
  BY <1>3, <1>4

\* What FlattenSeq makes of a sequence of sequences.
Flat(A, seqs) ==
  /\ FlattenSeq(seqs) \in Seq(A)
  /\ \A x : x \in Range(FlattenSeq(seqs)) <=> \E k \in 1..Len(seqs) : x \in Range(seqs[k])
  /\ (/\ \A k \in 1..Len(seqs) : Distinct(seqs[k])
      /\ \A k, l \in 1..Len(seqs) : k # l => Range(seqs[k]) \cap Range(seqs[l]) = {})
     => Distinct(FlattenSeq(seqs))

LEMMA FlattenIsFlat ==
  ASSUME NEW A, NEW seqs \in Seq(Seq(A))
  PROVE  Flat(A, seqs)
<1> DEFINE I == {n \in Nat : \A s \in Seq(Seq(A)) : Len(s) = n => Flat(A, s)}
<1>1. 0 \in I
  <2> SUFFICES ASSUME NEW s \in Seq(Seq(A)), Len(s) = 0
               PROVE  Flat(A, s)
    OBVIOUS
  <2>1. s = <<>> /\ FlattenSeq(s) = <<>>
    BY EmptySeq, FlattenNone
  <2>2. <<>> \in Seq(A) /\ Len(<<>>) = 0
    BY EmptySeq
  <2>3. \A x : x \notin Range(<<>>)
    BY DEF Range
  <2> QED
    <3>1. \A k \in 1..Len(s) : FALSE
      OBVIOUS
    <3>2. \A i, j \in 1..Len(FlattenSeq(s)) : i = j
      BY <2>1, <2>2
    <3>3. Distinct(FlattenSeq(s))
      BY <3>2 DEF Distinct
    <3>4. FlattenSeq(s) \in Seq(A)
      BY <2>1, <2>2
    <3>5. \A x : x \notin Range(FlattenSeq(s))
      BY <2>1, <2>3
    <3> QED
      BY <3>1, <3>3, <3>4, <3>5 DEF Flat
<1>2. ASSUME NEW n \in Nat, n \in I
      PROVE  n + 1 \in I
  <2> SUFFICES ASSUME NEW t \in Seq(Seq(A)), Len(t) = n + 1
               PROVE  Flat(A, t)
    OBVIOUS
  <2>1. PICK s \in Seq(Seq(A)), e \in Seq(A) : t = Append(s, e)
    <3>1. t # <<>>
      BY EmptySeq
    <3> DEFINE B == Seq(A)
    <3> HIDE DEF B
    <3>2. t \in Seq(B)
      BY DEF B
    <3>3. \E s \in Seq(B), e \in B : t = Append(s, e)
      BY <3>1, <3>2, SequenceEmptyOrAppend
    <3> QED
      BY <3>3 DEF B
  <2>2. /\ Len(t) = Len(s) + 1 /\ Len(s) \in Nat
        /\ \A i \in 1..Len(s) : t[i] = s[i]
        /\ t[Len(s) + 1] = e
    BY <2>1, AppendProperties, LenProperties
  <2>3. Flat(A, s)
    BY <1>2, <2>2
  <2>4. FlattenSeq(t) = FlattenSeq(s) \o e
    BY <2>1, FlattenAppend
  <2>5. FlattenSeq(s) \in Seq(A)
    BY <2>3 DEF Flat
  <2>6. FlattenSeq(t) \in Seq(A) /\ Range(FlattenSeq(t)) = Range(FlattenSeq(s)) \cup Range(e)
    BY <2>4, <2>5, ConcatProperties, RangeConcatenation
  <2>7. \A x : x \in Range(FlattenSeq(t)) <=> \E k \in 1..Len(t) : x \in Range(t[k])
    <3> TAKE x
    <3>1. x \in Range(FlattenSeq(s)) <=> \E k \in 1..Len(s) : x \in Range(s[k])
      BY <2>3 DEF Flat
    <3>2. (\E k \in 1..Len(t) : x \in Range(t[k]))
          <=> (\E k \in 1..Len(s) : x \in Range(s[k])) \/ x \in Range(e)
      <4>1. \A k \in 1..Len(t) : k \in 1..Len(s) \/ k = Len(s) + 1
        BY <2>2
      <4>2. \A k \in 1..Len(s) : k \in 1..Len(t)
        BY <2>2
      <4>3. Len(s) + 1 \in 1..Len(t)
        BY <2>2
      <4> QED
        BY <2>2, <4>1, <4>2, <4>3
    <3> QED
      BY <2>6, <3>1, <3>2
  <2>8. ASSUME \A k \in 1..Len(t) : Distinct(t[k]),
               \A k, l \in 1..Len(t) : k # l => Range(t[k]) \cap Range(t[l]) = {}
        PROVE  Distinct(FlattenSeq(t))
    <3>1. \A k \in 1..Len(s) : k \in 1..Len(t) /\ t[k] = s[k]
      BY <2>2
    <3>2. Distinct(FlattenSeq(s))
      <4>1. \A k \in 1..Len(s) : Distinct(s[k])
        BY <2>8, <3>1
      <4>2. \A k, l \in 1..Len(s) : k # l => Range(s[k]) \cap Range(s[l]) = {}
        BY <2>8, <3>1
      <4> QED
        BY <2>3, <4>1, <4>2 DEF Flat
    <3>3. Range(FlattenSeq(s)) \cap Range(e) = {}
      <4> SUFFICES ASSUME NEW x, x \in Range(FlattenSeq(s)), x \in Range(e)
                   PROVE  FALSE
        OBVIOUS
      <4>1. PICK k \in 1..Len(s) : x \in Range(s[k])
        BY <2>3 DEF Flat
      <4>2. k # Len(s) + 1 /\ Len(s) + 1 \in 1..Len(t)
        BY <2>2
      <4> QED
        BY <2>2, <2>8, <3>1, <4>1, <4>2
    <3>4. Distinct(e)
      BY <2>2, <2>8
    <3> QED
      BY <2>4, <2>5, <3>2, <3>3, <3>4, DistinctConcat
  <2> QED
    BY <2>6, <2>7, <2>8 DEF Flat
<1>3. \A n \in Nat : n \in I
  BY <1>1, <1>2, NatSetInduction
<1> QED
  BY <1>3, LenProperties

LEMMA LengthBehind ==
  ASSUME NEW n \in Nat, NEW i \in 1..n
  PROVE  (IF i + 1 <= n THEN n - (i + 1) + 1 ELSE 0) = n - i
OBVIOUS

LEMMA RemoveFirstIs ==
  ASSUME NEW A, NEW s \in Seq(A), Distinct(s), NEW i \in 1..Len(s)
  PROVE  LET r == RemoveFirst(s, s[i]) IN
         /\ r \in Seq(A) /\ Len(r) = Len(s) - 1
         /\ \A j \in 1..(Len(s) - 1) : r[j] = IF j < i THEN s[j] ELSE s[j + 1]
<1> DEFINE I == {j \in 1..Len(s) : s[j] = s[i]}
           u == SubSeq(s, 1, i - 1)
           v == SubSeq(s, i + 1, Len(s))
<1>1. Len(s) \in Nat /\ s \in [1..Len(s) -> A]
  BY LenProperties
<1>2. I = {i}
  BY DEF Distinct
<1>3. Min(I) = i
  <2>1. I \in SUBSET Nat /\ I # {}
    BY <1>1, <1>2
  <2>2. Min(I) \in I
    BY <2>1, MinIsLeast
  <2> QED
    BY <1>2, <2>2
<1>4. RemoveFirst(s, s[i]) = u \o v
  <2>1. SelectInSeq(s, LAMBDA x : x = s[i]) = i
    BY <1>2, <1>3 DEF SelectInSeq
  <2> QED
    BY <2>1 DEF RemoveFirst, RemoveAt
<1>5. u \in Seq(A) /\ Len(u) = i - 1 /\ \A j \in 1..(i - 1) : u[j] = s[j]
  <2>1. \A j \in 1..(i - 1) : s[j] \in A
    BY <1>1
  <2>2. /\ u \in Seq(A)
        /\ Len(u) = IF 1 <= i - 1 THEN i - 1 - 1 + 1 ELSE 0
        /\ \A j \in 1..(i - 1 - 1 + 1) : u[j] = s[1 + j - 1]
    BY <1>1, <2>1, SubSeqProperties
  <2>3. \A j \in 1..(i - 1) : 1 + j - 1 = j /\ j \in 1..(i - 1 - 1 + 1)
    BY <1>1
  <2> QED
    BY <1>1, <2>2, <2>3
<1>6. v \in Seq(A) /\ Len(v) = Len(s) - i /\ \A j \in 1..(Len(s) - i) : v[j] = s[i + j]
  <2>1. \A j \in (i + 1)..Len(s) : s[j] \in A
    BY <1>1
  <2>2. /\ v \in Seq(A)
        /\ Len(v) = IF i + 1 <= Len(s) THEN Len(s) - (i + 1) + 1 ELSE 0
        /\ \A j \in 1..(Len(s) - (i + 1) + 1) : v[j] = s[i + 1 + j - 1]
    BY <1>1, <2>1, SubSeqProperties
  <2>3. \A j \in 1..(Len(s) - i) : i + 1 + j - 1 = i + j /\ j \in 1..(Len(s) - (i + 1) + 1)
    BY <1>1
  <2> HIDE DEF v
  <2>4. Len(v) = Len(s) - i
    BY <1>1, <2>2, LengthBehind, Zenon
  <2> QED
    BY <1>1, <2>2, <2>3, <2>4, Zenon
<1> HIDE DEF u, v, I
<1>7. /\ u \o v \in Seq(A) /\ Len(u \o v) = Len(s) - 1
      /\ \A j \in 1..(Len(s) - 1) : (u \o v)[j] = IF j <= i - 1 THEN u[j] ELSE v[j - (i - 1)]
  <2>1. i - 1 + (Len(s) - i) = Len(s) - 1
    BY <1>1
  <2> QED
    <3>1. /\ u \o v \in Seq(A) /\ Len(u \o v) = Len(u) + Len(v)
          /\ \A j \in 1..(Len(u) + Len(v)) :
               (u \o v)[j] = IF j <= Len(u) THEN u[j] ELSE v[j - Len(u)]
      BY <1>5, <1>6, ConcatProperties
    <3>2. Len(u) + Len(v) = Len(s) - 1
      BY <1>5, <1>6, <2>1
    <3> QED
      BY <1>5, <3>1, <3>2
<1>8. ASSUME NEW j \in 1..(Len(s) - 1)
      PROVE  (u \o v)[j] = IF j < i THEN s[j] ELSE s[j + 1]
  <2>1. CASE j < i
    <3>1. j <= i - 1 /\ j \in 1..(i - 1)
      BY <1>1, <2>1
    <3> QED
      BY <1>5, <1>7, <2>1, <3>1
  <2>2. CASE ~(j < i)
    <3>1. ~(j <= i - 1) /\ j - (i - 1) \in 1..(Len(s) - i) /\ i + (j - (i - 1)) = j + 1
      BY <1>1, <2>2
    <3>2. v[j - (i - 1)] = s[j + 1]
      BY <1>6, <3>1
    <3> QED
      BY <1>7, <2>2, <3>1, <3>2
  <2> QED
    BY <2>1, <2>2
<1> QED
  BY <1>4, <1>7, <1>8

\* RemoveFirst takes out one element and leaves the others.
LEMMA RemoveFirstLeaves ==
  ASSUME NEW A, NEW s \in Seq(A), Distinct(s), NEW e \in Range(s)
  PROVE  LET r == RemoveFirst(s, e) IN
         /\ r \in Seq(A) /\ Len(r) = Len(s) - 1
         /\ Distinct(r)
         /\ \A x : x \in Range(r) <=> (x \in Range(s) /\ x # e)
<1> DEFINE r == RemoveFirst(s, e)
<1>1. PICK i \in 1..Len(s) : s[i] = e
  BY RangeIs
<1>2. Len(s) \in Nat /\ s \in [1..Len(s) -> A]
  BY LenProperties
<1>3. /\ r \in Seq(A) /\ Len(r) = Len(s) - 1
      /\ \A j \in 1..(Len(s) - 1) : r[j] = IF j < i THEN s[j] ELSE s[j + 1]
  BY <1>1, RemoveFirstIs
<1> HIDE DEF r
<1>4. Distinct(r)
  <2> SUFFICES ASSUME NEW j \in 1..(Len(s) - 1), NEW k \in 1..(Len(s) - 1), r[j] = r[k]
               PROVE  j = k
    BY <1>3 DEF Distinct
  <2>1. j \in 1..Len(s) /\ k \in 1..Len(s) /\ j + 1 \in 1..Len(s) /\ k + 1 \in 1..Len(s)
    BY <1>2
  <2>2. (IF j < i THEN j ELSE j + 1) = (IF k < i THEN k ELSE k + 1)
    BY <1>3, <2>1 DEF Distinct
  <2> QED
    BY <1>2, <2>1, <2>2
<1>5. ASSUME NEW x
      PROVE  x \in Range(r) <=> (x \in Range(s) /\ x # e)
  <2>1. ASSUME x \in Range(r)
        PROVE  x \in Range(s) /\ x # e
    <3>1. PICK j \in 1..(Len(s) - 1) : r[j] = x
      BY <1>3, <2>1, RangeIs
    <3>2. j \in 1..Len(s) /\ j + 1 \in 1..Len(s) /\ (j < i => j # i) /\ (~(j < i) => j + 1 # i)
      BY <1>2
    <3>3. PICK l \in 1..Len(s) : l # i /\ s[l] = x
      BY <1>3, <3>1, <3>2
    <3>4. x # e
      BY <1>1, <3>3 DEF Distinct
    <3> QED
      BY <3>3, <3>4, RangeIs
  <2>2. ASSUME x \in Range(s), x # e
        PROVE  x \in Range(r)
    <3>1. PICK l \in 1..Len(s) : s[l] = x
      BY <2>2, RangeIs
    <3>2. l # i
      BY <1>1, <2>2, <3>1
    <3>3. CASE l < i
      <4>1. l \in 1..(Len(s) - 1)
        BY <1>2, <3>3
      <4>2. r[l] = x
        BY <1>3, <3>1, <3>3, <4>1
      <4> QED
        BY <1>3, <4>1, <4>2, RangeIs
    <3>4. CASE ~(l < i)
      <4>1. l - 1 \in 1..(Len(s) - 1) /\ ~(l - 1 < i) /\ l - 1 + 1 = l
        BY <1>2, <3>2, <3>4
      <4>2. r[l - 1] = x
        BY <1>3, <3>1, <4>1
      <4> QED
        BY <1>3, <4>1, <4>2, RangeIs
    <3> QED
      BY <3>3, <3>4
  <2> QED
    BY <2>1, <2>2
<1> QED
  BY <1>3, <1>4, <1>5 DEF r

-----------------------------------------------------------------------------
(* Images *)

\* The bytes that callers write.
Byte == UNION {Range(c) : c \in Contents}

Pages == [kind : {"free"}, next : Blocks]
Infos == [kind : {"info"}, size : Nat, name : Names \cup {"/"}]
Datas == [kind : {"data"}, bytes : Seq(Byte)]
INodes ==
  [kind : {"inode"}, mode : {"DIR", "REG", "CHILD"}, parent : Blocks, meta : Blocks,
   next : Blocks, links : Seq(Blocks)]
Structs == {Super} \cup Pages \cup Infos \cup Datas \cup INodes

Images == [freelist : Blocks, freeblks : Nat, disk : [Blocks -> Structs]]

\* Block 0 holds the superblock, and no other block does.
SuperOK(S) ==
  /\ S.disk[0] = Super
  /\ \A b \in Blocks \ {0} : S.disk[b].kind # "super"

LEMMA StructIs ==
  ASSUME NEW x \in Structs
  PROVE  /\ x.kind = "free" => x \in Pages
         /\ x.kind = "info" => x \in Infos
         /\ x.kind = "data" => x \in Datas
         /\ x.kind = "inode" => x \in INodes
         /\ x.kind = "super" => x = Super
         /\ x.kind \in {"super", "free", "info", "data", "inode"}
BY DEF Structs, Pages, Infos, Datas, INodes, Super

LEMMA SaveImage ==
  ASSUME NEW S \in Images, NEW b \in Blocks, NEW x \in Structs
  PROVE  /\ Save(S, b, x) \in Images
         /\ Save(S, b, x).freelist = S.freelist /\ Save(S, b, x).freeblks = S.freeblks
         /\ \A a \in Blocks : Save(S, b, x).disk[a] = IF a = b THEN x ELSE S.disk[a]
BY DEF Save, Images

LEMMA GetImage ==
  ASSUME NEW S \in Images, SuperOK(S), S.freeblks # 0, S.disk[S.freelist].kind = "free"
  PROVE  /\ fs_get_block(S) \in Images
         /\ fs_get_block(S).freelist = S.disk[S.freelist].next
         /\ fs_get_block(S).freeblks = S.freeblks - 1
         /\ \A a \in Blocks : fs_get_block(S).disk[a] = S.disk[a]
<1>1. 0 \in Blocks /\ S.freelist \in Blocks
  BY FormatAssumption DEF Images, Blocks
<1>2. S.disk[S.freelist] \in Pages
  BY <1>1, StructIs DEF Images
<1>3. S.disk[S.freelist].next \in Blocks
  BY <1>2 DEF Pages
<1>4. Super \in Structs
  BY DEF Structs
<1>5. S.freeblks - 1 \in Nat
  BY DEF Images
<1> QED
  BY <1>1, <1>3, <1>4, <1>5 DEF fs_get_block, Images, SuperOK

LEMMA PutImage ==
  ASSUME NEW S \in Images, SuperOK(S), NEW b \in Blocks \ {0}
  PROVE  /\ fs_put_block(S, b) \in Images
         /\ fs_put_block(S, b).freelist = b
         /\ fs_put_block(S, b).freeblks = S.freeblks + 1
         /\ \A a \in Blocks : fs_put_block(S, b).disk[a] =
                                IF a = b THEN FreePage(S.freelist) ELSE S.disk[a]
<1>1. 0 \in Blocks
  BY FormatAssumption DEF Blocks
<1>2. FreePage(S.freelist) \in Structs /\ Super \in Structs
  BY DEF FreePage, Structs, Pages, Images
<1> DEFINE T == Save(S, b, FreePage(S.freelist))
           U == Save(T, 0, Super)
<1>3. /\ T \in Images /\ T.freelist = S.freelist /\ T.freeblks = S.freeblks
      /\ \A a \in Blocks : T.disk[a] = IF a = b THEN FreePage(S.freelist) ELSE S.disk[a]
  BY <1>2, SaveImage
<1> HIDE DEF T
<1>4. /\ U \in Images /\ U.freelist = S.freelist /\ U.freeblks = S.freeblks
      /\ \A a \in Blocks : U.disk[a] = IF a = 0 THEN Super ELSE T.disk[a]
  BY <1>1, <1>2, <1>3, SaveImage
<1>5. fs_put_block(S, b) = [U EXCEPT !.freelist = b, !.freeblks = @ + 1]
  BY DEF fs_put_block, T
<1> HIDE DEF U
<1>6. /\ fs_put_block(S, b) \in Images /\ fs_put_block(S, b).freelist = b
      /\ fs_put_block(S, b).freeblks = S.freeblks + 1 /\ fs_put_block(S, b).disk = U.disk
  <2>1. U \in Images /\ b \in Blocks
    BY <1>4
  <2> DEFINE V == fs_put_block(S, b)
  <2>2. V = [U EXCEPT !.freelist = b, !.freeblks = @ + 1]
    BY <1>5
  <2> HIDE DEF V
  <2>3. V \in Images /\ V.freelist = b /\ V.freeblks = U.freeblks + 1 /\ V.disk = U.disk
    <3>1. U.freeblks + 1 \in Nat
      BY <2>1 DEF Images
    <3> QED
      BY <2>1, <2>2, <3>1 DEF Images
  <2> QED
    BY <1>4, <2>3 DEF V
<1> QED
  BY <1>3, <1>4, <1>6 DEF SuperOK

-----------------------------------------------------------------------------
(* The inductive invariant, of an image S *)

Dirs(S) == {b \in Blocks : S.disk[b].kind = "inode" /\ S.disk[b].mode = "DIR"}
Files(S) == {b \in Blocks : S.disk[b].kind = "inode" /\ S.disk[b].mode = "REG"}
Children(S) == {b \in Blocks : S.disk[b].kind = "inode" /\ S.disk[b].mode = "CHILD"}
FreeOnes(S) == {b \in Blocks : S.disk[b].kind = "free"}
InfoBlocks(S) == {b \in Blocks : S.disk[b].kind = "info"}
DataBlocks(S) == {b \in Blocks : S.disk[b].kind = "data"}

Headers(S) == Dirs(S) \cup Files(S)

\* The inodes that link blocks of data.
Holders(S) == Files(S) \cup Children(S)

NameOf(S, e) == InfoOf(S, e).name

\* Every block holds a struct, of the size that fits.
TypesOK(S) ==
  /\ S \in Images /\ SuperOK(S)
  /\ \A b \in DataBlocks(S) : Len(S.disk[b].bytes) \in 1..BlkSz
  /\ \A b \in Headers(S) \cup Children(S) : Len(S.disk[b].links) <= MaxLinks

\* The free blocks are a list, one longer than freeblks.
FreeChain(S, fl) ==
  /\ Linking(S, S.freelist, fl)
  /\ Len(fl) = S.freeblks + 1
  /\ \A b : b \in Range(fl) <=> b \in FreeOnes(S)

FreeOK(S) == \E fl : FreeChain(S, fl)

\* Headers other than the root are linked by the directory they point up to.
ParentsOK(S) ==
  /\ root \in Dirs(S) /\ S.disk[root].parent = root
  /\ \A e \in Headers(S) \ {root} :
       /\ S.disk[e].parent \in Dirs(S)
       /\ e \in Range(S.disk[S.disk[e].parent].links)

\* A directory is one inode, and links headers with different names.
EntriesOK(S) ==
  \A d \in Dirs(S) :
    /\ S.disk[d].next = 0
    /\ \A i \in 1..Len(S.disk[d].links) :
         /\ S.disk[d].links[i] \in Headers(S) \ {root}
         /\ S.disk[S.disk[d].links[i]].parent = d
         /\ NameOf(S, S.disk[d].links[i]) \in Names
         /\ \A j \in 1..Len(S.disk[d].links) :
              NameOf(S, S.disk[d].links[i]) = NameOf(S, S.disk[d].links[j]) => i = j

\* Every header has a nodeinfo of its own, and there are no others.
MetasOK(S) ==
  /\ \A e \in Headers(S) : S.disk[e].meta \in InfoBlocks(S)
  /\ \A e, f \in Headers(S) : S.disk[e].meta = S.disk[f].meta => e = f
  /\ \A b \in InfoBlocks(S) : \E e \in Headers(S) : S.disk[e].meta = b

\* Every header is found.
ReachOK(S) ==
  \A e \in Headers(S) : \E p \in Paths :
    get_inode_block(S, p).full_match /\ get_inode_block(S, p).block = e

\* The inodes of a file: all but the last one are full, and none but the
\* header is empty.
Chained(S, f, ns) ==
  /\ Linking(S, f, ns)
  /\ \A k \in 2..Len(ns) :
       /\ ns[k] \in Children(S) /\ S.disk[ns[k]].parent = f /\ S.disk[ns[k]].meta = ns[k - 1]
       /\ S.disk[ns[k]].links # <<>>
       /\ Len(S.disk[ns[k - 1]].links) = MaxLinks

ChainsOK(S) ==
  /\ \A f \in Files(S) : Chained(S, f, Nodes(S, f))
  /\ \A c \in Children(S) :
       S.disk[c].parent \in Files(S) /\ c \in Range(Nodes(S, S.disk[c].parent))

\* Every block of data is linked in exactly one place.
DataOK(S) ==
  /\ \A n \in Holders(S) : \A i \in 1..Len(S.disk[n].links) :
       /\ S.disk[n].links[i] \in DataBlocks(S)
       /\ \A m \in Holders(S) : \A j \in 1..Len(S.disk[m].links) :
            S.disk[n].links[i] = S.disk[m].links[j] => n = m /\ i = j
  /\ \A b \in DataBlocks(S) : \E n \in Holders(S) : b \in Range(S.disk[n].links)

SizesOK(S) ==
  /\ \A d \in Dirs(S) : InfoOf(S, d).size = Len(S.disk[d].links)
  /\ \A f \in Files(S) : InfoOf(S, f).size = Bytes(S, LinksOf(S, Nodes(S, f)))

ImageOK(S) ==
  /\ TypesOK(S) /\ FreeOK(S)
  /\ ParentsOK(S) /\ EntriesOK(S) /\ MetasOK(S) /\ ReachOK(S)
  /\ ChainsOK(S) /\ DataOK(S) /\ SizesOK(S)

IInv == ImageOK(fs)

-----------------------------------------------------------------------------
(* The blocks of an image *)

LEMMA BlockIs ==
  ASSUME NEW S, S \in Images
  PROVE  /\ \A b \in Blocks : S.disk[b] \in Structs
         /\ \A b \in Headers(S) \cup Children(S) : b \in Blocks /\ S.disk[b] \in INodes
         /\ \A b \in FreeOnes(S) : b \in Blocks /\ S.disk[b] \in Pages
         /\ \A b \in InfoBlocks(S) : b \in Blocks /\ S.disk[b] \in Infos
         /\ \A b \in DataBlocks(S) : b \in Blocks /\ S.disk[b] \in Datas
<1>1. \A b \in Blocks : S.disk[b] \in Structs
  BY DEF Images
<1> QED
  BY <1>1, StructIs DEF Headers, Dirs, Files, Children, FreeOnes, InfoBlocks, DataBlocks

LEMMA HeadIsFree ==
  ASSUME NEW S, S \in Images, SuperOK(S), NEW fl, FreeChain(S, fl)
  PROVE  /\ fl \in Seq(Blocks) /\ Len(fl) \in Nat \ {0} /\ Distinct(fl)
         /\ S.freelist = fl[1] /\ S.freelist \in FreeOnes(S)
         /\ \A k \in 1..Len(fl) : fl[k] \in FreeOnes(S) /\ fl[k] # 0
<1>1. fl \in Seq(Blocks) /\ Len(fl) \in Nat \ {0} /\ Distinct(fl) /\ S.freelist = fl[1]
  BY LenProperties DEF FreeChain, Linking
<1>2. \A k \in 1..Len(fl) : fl[k] \in FreeOnes(S)
  BY <1>1, RangeIs DEF FreeChain
<1>3. \A b \in FreeOnes(S) : b # 0
  BY DEF FreeOnes, SuperOK, Super
<1>4. 1 \in 1..Len(fl)
  BY <1>1
<1> QED
  BY <1>1, <1>2, <1>3, <1>4

\* The list of free blocks is what is in the free blocks.
LEMMA FreeFrame ==
  ASSUME NEW S, NEW T, NEW fl, FreeChain(S, fl),
         T.freelist = S.freelist, T.freeblks = S.freeblks, FreeOnes(T) = FreeOnes(S),
         \A b \in FreeOnes(S) : T.disk[b] = S.disk[b]
  PROVE  FreeChain(T, fl)
<1>1. fl \in Seq(Blocks) /\ Len(fl) \in Nat /\ Len(fl) >= 1
  BY LenProperties DEF FreeChain, Linking
<1>2. \A k \in 1..Len(fl) : T.disk[fl[k]] = S.disk[fl[k]]
  BY <1>1, RangeIs DEF FreeChain
<1>3. \A k \in 1..(Len(fl) - 1) : k \in 1..Len(fl)
  BY <1>1
<1>4. Len(fl) \in 1..Len(fl)
  BY <1>1
<1>5. Linking(T, T.freelist, fl)
  BY <1>2, <1>3, <1>4 DEF FreeChain, Linking
<1> QED
  BY <1>5 DEF FreeChain

\* T is S with x in block b, which was free.
Taken(S, T, b, x) ==
  /\ T \in Images /\ SuperOK(T) /\ FreeOK(T)
  /\ b \in FreeOnes(S) /\ b # 0
  /\ T.freeblks = S.freeblks - 1
  /\ \A a \in Blocks : T.disk[a] = IF a = b THEN x ELSE S.disk[a]

LEMMA TakeBlock ==
  ASSUME NEW S, S \in Images, SuperOK(S), FreeOK(S), S.freeblks # 0,
         NEW x \in Structs, x.kind \notin {"free", "super"}
  PROVE  Taken(S, Save(fs_get_block(S), NewBlock(S), x), NewBlock(S), x)
<1> DEFINE b == NewBlock(S)
           T == Save(fs_get_block(S), b, x)
<1>1. PICK fl : FreeChain(S, fl)
  BY DEF FreeOK
<1>2. /\ fl \in Seq(Blocks) /\ Len(fl) \in Nat \ {0} /\ Distinct(fl)
      /\ S.freelist = fl[1] /\ S.freelist \in FreeOnes(S)
      /\ \A k \in 1..Len(fl) : fl[k] \in FreeOnes(S) /\ fl[k] # 0
  BY <1>1, HeadIsFree
<1>3. b = fl[1] /\ b \in FreeOnes(S) /\ b # 0 /\ b \in Blocks
  <2>1. 1 \in 1..Len(fl)
    BY <1>2
  <2> QED
    BY <1>2, <2>1 DEF NewBlock, FreeOnes
<1>4. /\ fs_get_block(S) \in Images
      /\ fs_get_block(S).freelist = S.disk[S.freelist].next
      /\ fs_get_block(S).freeblks = S.freeblks - 1
      /\ \A a \in Blocks : fs_get_block(S).disk[a] = S.disk[a]
  BY <1>2, GetImage DEF FreeOnes
<1> HIDE DEF b
<1>5. /\ T \in Images /\ T.freelist = S.disk[fl[1]].next /\ T.freeblks = S.freeblks - 1
      /\ \A a \in Blocks : T.disk[a] = IF a = b THEN x ELSE S.disk[a]
  BY <1>2, <1>3, <1>4, SaveImage
<1> HIDE DEF T
<1>6. SuperOK(T)
  <2>1. 0 \in Blocks
    BY FormatAssumption DEF Blocks
  <2> QED
    BY <1>3, <1>5, <2>1 DEF SuperOK
<1>7. \A a : a \in FreeOnes(T) <=> (a \in FreeOnes(S) /\ a # b)
  BY <1>5 DEF FreeOnes
<1>8. Len(fl) = S.freeblks + 1 /\ S.freeblks \in Nat /\ Len(fl) >= 2
  BY <1>1 DEF FreeChain, Images
<1> DEFINE tl == SubSeq(fl, 2, Len(fl))
<1>9. /\ tl \in Seq(Blocks) /\ Len(tl) = Len(fl) - 1
      /\ \A k \in 1..(Len(fl) - 1) : tl[k] = fl[k + 1]
  <2>1. \A k \in 2..Len(fl) : fl[k] \in Blocks
    BY <1>2, ElementOfSeq
  <2>2. /\ tl \in Seq(Blocks)
        /\ Len(tl) = IF 2 <= Len(fl) THEN Len(fl) - 2 + 1 ELSE 0
        /\ \A k \in 1..(Len(fl) - 2 + 1) : tl[k] = fl[2 + k - 1]
    BY <1>2, <2>1, SubSeqProperties
  <2> HIDE DEF tl
  <2>3. \A k \in 1..(Len(fl) - 1) : 2 + k - 1 = k + 1 /\ k \in 1..(Len(fl) - 2 + 1)
    BY <1>8
  <2>4. Len(tl) = Len(fl) - 1
    BY <1>8, <2>2
  <2> QED
    BY <2>2, <2>3, <2>4
<1> HIDE DEF tl
<1>10. FreeChain(T, tl)
  <2>1. \A k \in 1..Len(tl) : k + 1 \in 1..Len(fl) /\ tl[k] = fl[k + 1] /\ k + 1 # 1
    BY <1>8, <1>9
  <2>2. Distinct(tl)
    <3> SUFFICES ASSUME NEW i \in 1..Len(tl), NEW j \in 1..Len(tl), tl[i] = tl[j]
                 PROVE  i = j
      BY DEF Distinct
    <3>1. i + 1 = j + 1
      BY <1>2, <2>1 DEF Distinct
    <3> QED
      BY <1>8, <1>9, <3>1
  <2>3. \A a : a \in Range(tl) <=> a \in FreeOnes(T)
    <3> TAKE a
    <3>1. ASSUME a \in Range(tl)
          PROVE  a \in FreeOnes(T)
      <4>1. PICK k \in 1..Len(tl) : tl[k] = a
        BY <1>9, <3>1, RangeIs
      <4>2. a # b
        <5>1. 1 \in 1..Len(fl)
          BY <1>8
        <5> QED
          BY <1>2, <1>3, <2>1, <4>1, <5>1 DEF Distinct
      <4> QED
        BY <1>2, <1>7, <2>1, <4>1, <4>2
    <3>2. ASSUME a \in FreeOnes(T)
          PROVE  a \in Range(tl)
      <4>1. PICK k \in 1..Len(fl) : fl[k] = a
        BY <1>1, <1>2, <1>7, <3>2, RangeIs DEF FreeChain
      <4>2. k # 1
        BY <1>3, <1>7, <3>2, <4>1
      <4>3. k - 1 \in 1..Len(tl) /\ k - 1 + 1 = k
        BY <1>8, <1>9, <4>2
      <4>4. tl[k - 1] = a
        BY <2>1, <4>1, <4>3
      <4> QED
        BY <1>9, <4>3, <4>4, RangeIs
    <3> QED
      BY <3>1, <3>2
  <2>4. \A k \in 1..Len(tl) : T.disk[tl[k]] = S.disk[fl[k + 1]]
    <3> TAKE k \in 1..Len(tl)
    <3>1. tl[k] \in FreeOnes(T)
      BY <1>9, <2>3, RangeIs
    <3> QED
      BY <1>5, <1>7, <2>1, <3>1 DEF FreeOnes
  <2>5. /\ \A k \in 1..(Len(fl) - 1) : S.disk[fl[k]].next = fl[k + 1] /\ fl[k + 1] # 0
        /\ S.disk[fl[Len(fl)]].next = 0
    BY <1>1 DEF FreeChain, Linking
  <2>6. 1 \in 1..(Len(fl) - 1) /\ 1 \in 1..Len(tl) /\ Len(tl) >= 1
    BY <1>8, <1>9
  <2>7. T.freelist = tl[1]
    <3>1. S.disk[fl[1]].next = fl[1 + 1]
      BY <2>5, <2>6
    <3> QED
      BY <1>5, <2>1, <2>6, <3>1
  <2>8. \A k \in 1..(Len(tl) - 1) : T.disk[tl[k]].next = tl[k + 1] /\ tl[k + 1] # 0
    <3> TAKE k \in 1..(Len(tl) - 1)
    <3>1. k \in 1..Len(tl) /\ k + 1 \in 1..Len(tl) /\ k + 1 \in 1..(Len(fl) - 1)
      BY <1>8, <1>9
    <3> QED
      BY <2>1, <2>4, <2>5, <3>1
  <2>9. T.disk[tl[Len(tl)]].next = 0
    <3>1. Len(tl) \in 1..Len(tl) /\ Len(tl) + 1 = Len(fl)
      BY <1>8, <1>9
    <3> QED
      BY <2>4, <2>5, <3>1
  <2>10. Linking(T, T.freelist, tl)
    BY <1>9, <2>2, <2>6, <2>7, <2>8, <2>9 DEF Linking
  <2>11. Len(tl) = T.freeblks + 1
    BY <1>5, <1>8, <1>9
  <2> QED
    BY <2>3, <2>10, <2>11 DEF FreeChain
<1> QED
  BY <1>3, <1>5, <1>6, <1>10 DEF Taken, FreeOK, T, b

\* T is S with block b put back.
Put(S, T, b) ==
  /\ T \in Images /\ SuperOK(T) /\ FreeOK(T)
  /\ T.freeblks = S.freeblks + 1
  /\ \A a \in Blocks \ {b} : T.disk[a] = S.disk[a]
  /\ T.disk[b].kind = "free"

LEMMA PutBlock ==
  ASSUME NEW S, S \in Images, SuperOK(S), FreeOK(S),
         NEW b \in Blocks \ {0}, b \notin FreeOnes(S)
  PROVE  Put(S, fs_put_block(S, b), b)
<1> DEFINE T == fs_put_block(S, b)
<1>1. PICK fl : FreeChain(S, fl)
  BY DEF FreeOK
<1>2. /\ fl \in Seq(Blocks) /\ Len(fl) \in Nat \ {0} /\ Distinct(fl)
      /\ S.freelist = fl[1] /\ S.freelist \in FreeOnes(S)
      /\ \A k \in 1..Len(fl) : fl[k] \in FreeOnes(S) /\ fl[k] # 0
  BY <1>1, HeadIsFree
<1>3. /\ T \in Images /\ T.freelist = b /\ T.freeblks = S.freeblks + 1
      /\ \A a \in Blocks : T.disk[a] = IF a = b THEN FreePage(S.freelist) ELSE S.disk[a]
  BY PutImage
<1> HIDE DEF T
<1>4. T.disk[b].kind = "free" /\ T.disk[b].next = fl[1]
  BY <1>2, <1>3 DEF FreePage
<1>5. SuperOK(T)
  <2>1. 0 \in Blocks
    BY FormatAssumption DEF Blocks
  <2> QED
    BY <1>3, <1>4, <2>1 DEF SuperOK
<1>6. \A a : a \in FreeOnes(T) <=> (a \in FreeOnes(S) \/ a = b)
  BY <1>3, <1>4 DEF FreeOnes
<1> DEFINE nl == <<b>> \o fl
<1>7. /\ nl \in Seq(Blocks) /\ Len(nl) = Len(fl) + 1 /\ nl[1] = b
      /\ \A k \in 1..Len(fl) : nl[k + 1] = fl[k]
  <2>1. <<b>> \in Seq(Blocks) /\ Len(<<b>>) = 1 /\ <<b>>[1] = b
    OBVIOUS
  <2>2. /\ nl \in Seq(Blocks) /\ Len(nl) = 1 + Len(fl)
        /\ \A i \in 1..(1 + Len(fl)) : nl[i] = IF i <= 1 THEN <<b>>[i] ELSE fl[i - 1]
    BY <1>2, <2>1, ConcatProperties
  <2> HIDE DEF nl
  <2>3. \A k \in 1..Len(fl) : k + 1 \in 1..(1 + Len(fl)) /\ ~(k + 1 <= 1) /\ k + 1 - 1 = k
    BY <1>2
  <2>4. 1 \in 1..(1 + Len(fl)) /\ 1 <= 1
    BY <1>2
  <2>5. nl[1] = b
    BY <2>1, <2>2, <2>4
  <2>6. Len(nl) = Len(fl) + 1
    BY <1>2, <2>2
  <2> QED
    BY <2>2, <2>3, <2>5, <2>6
<1> HIDE DEF nl
<1>8. FreeChain(T, nl)
  <2>1. \A k \in 1..Len(nl) : k = 1 \/ (k - 1 \in 1..Len(fl) /\ nl[k] = fl[k - 1])
    <3> TAKE k \in 1..Len(nl)
    <3>1. CASE k # 1
      <4>1. k - 1 \in 1..Len(fl) /\ k - 1 + 1 = k
        BY <1>2, <1>7, <3>1
      <4> QED
        BY <1>7, <4>1
    <3> QED
      BY <3>1
  <2>2. \A k \in 1..Len(fl) : fl[k] # b
    BY <1>2
  <2>3. Distinct(nl)
    <3> SUFFICES ASSUME NEW i \in 1..Len(nl), NEW j \in 1..Len(nl), nl[i] = nl[j]
                 PROVE  i = j
      BY DEF Distinct
    <3>1. CASE i = 1 \/ j = 1
      BY <1>7, <2>1, <2>2, <3>1
    <3>2. CASE i # 1 /\ j # 1
      <4>1. i - 1 = j - 1
        BY <1>2, <2>1, <3>2 DEF Distinct
      <4> QED
        BY <1>2, <1>7, <4>1
    <3> QED
      BY <3>1, <3>2
  <2>4. \A a : a \in Range(nl) <=> a \in FreeOnes(T)
    <3> TAKE a
    <3>1. a \in Range(nl) <=> (a = b \/ a \in Range(fl))
      <4>1. a \in Range(nl) <=> \E k \in 1..Len(nl) : nl[k] = a
        BY <1>7, RangeIs
      <4>2. a \in Range(fl) <=> \E k \in 1..Len(fl) : fl[k] = a
        BY <1>2, RangeIs
      <4>3. 1 \in 1..Len(nl) /\ \A k \in 1..Len(fl) : k + 1 \in 1..Len(nl)
        BY <1>2, <1>7
      <4> QED
        BY <1>7, <2>1, <4>1, <4>2, <4>3
    <3> QED
      BY <1>1, <1>6, <3>1 DEF FreeChain
  <2>5. /\ \A k \in 1..(Len(fl) - 1) : S.disk[fl[k]].next = fl[k + 1] /\ fl[k + 1] # 0
        /\ S.disk[fl[Len(fl)]].next = 0
    BY <1>1 DEF FreeChain, Linking
  <2>6. \A k \in 1..Len(fl) : T.disk[nl[k + 1]] = S.disk[fl[k]]
    BY <1>2, <1>3, <1>7, <2>2 DEF FreeOnes
  <2>7. \A k \in 1..(Len(nl) - 1) : T.disk[nl[k]].next = nl[k + 1] /\ nl[k + 1] # 0
    <3> TAKE k \in 1..(Len(nl) - 1)
    <3>1. k \in 1..Len(fl)
      BY <1>2, <1>7
    <3>2. CASE k = 1
      BY <1>2, <1>4, <1>7, <3>1, <3>2
    <3>3. CASE k # 1
      <4>1. k - 1 \in 1..Len(fl) /\ k - 1 \in 1..(Len(fl) - 1) /\ k - 1 + 1 = k
        BY <1>2, <3>1, <3>3
      <4>2. T.disk[nl[k]] = S.disk[fl[k - 1]]
        BY <2>6, <4>1
      <4> QED
        BY <1>7, <2>5, <3>1, <4>1, <4>2
    <3> QED
      BY <3>2, <3>3
  <2>8. T.disk[nl[Len(nl)]].next = 0
    <3>1. Len(fl) \in 1..Len(fl)
      BY <1>2
    <3> QED
      BY <1>7, <2>5, <2>6, <3>1
  <2>9. Linking(T, T.freelist, nl)
    BY <1>2, <1>3, <1>7, <2>3, <2>7, <2>8 DEF Linking
  <2>10. Len(nl) = T.freeblks + 1
    BY <1>1, <1>3, <1>7 DEF FreeChain
  <2> QED
    BY <2>4, <2>9, <2>10 DEF FreeChain
<1> QED
  BY <1>3, <1>4, <1>5, <1>8 DEF Put, FreeOK, T

-----------------------------------------------------------------------------
(* Looking up paths *)

LEMMA PathInduction ==
  ASSUME NEW A, NEW J, <<>> \in J,
         \A p \in Seq(A), n \in A : p \in J => Append(p, n) \in J
  PROVE  \A p \in Seq(A) : p \in J
<1> DEFINE I == {k \in Nat : \A p \in Seq(A) : Len(p) = k => p \in J}
<1>1. 0 \in I
  BY EmptySeq
<1>2. ASSUME NEW k \in Nat, k \in I
      PROVE  k + 1 \in I
  <2> SUFFICES ASSUME NEW p \in Seq(A), Len(p) = k + 1
               PROVE  p \in J
    OBVIOUS
  <2>1. p # <<>>
    BY EmptySeq
  <2>2. PICK q \in Seq(A), n \in A : p = Append(q, n)
    BY <2>1, SequenceEmptyOrAppend
  <2>3. Len(p) = Len(q) + 1 /\ Len(q) \in Nat
    BY <2>2, AppendProperties, LenProperties
  <2>4. Len(q) = k
    BY <2>3
  <2> QED
    BY <1>2, <2>2, <2>4
<1>3. \A k \in Nat : k \in I
  BY <1>1, <1>2, NatSetInduction
<1> QED
  BY <1>3, LenProperties

LEMMA LookupNone ==
  ASSUME NEW S
  PROVE  get_inode_block(S, <<>>) = Start
<1>1. \A p : Len(p) = 0 => get_inode_block(S, p) = Start
  <2> SUFFICES ASSUME NEW p, Len(p) = 0
               PROVE  get_inode_block(S, p) = Start
    OBVIOUS
  <2>1. PICK f : Lookups(f, Len(p), S, p) /\ get_inode_block(S, p) = f[Len(p)]
    BY LookupsReturned
  <2> QED
    BY <2>1 DEF Lookups
<1>2. Len(<<>>) = 0
  OBVIOUS
<1> QED
  BY <1>1, <1>2

LEMMA LookupsAt ==
  ASSUME NEW f, NEW n \in Nat, NEW S, NEW path, Lookups(f, n, S, path)
  PROVE  /\ f[0] = Start
         /\ \A k \in Nat : k + 1 \in 0..n => f[k + 1] = Descend(S, f[k], path[k + 1])
<1>1. f[0] = Start
  BY DEF Lookups
<1>2. ASSUME NEW k \in Nat, k + 1 \in 0..n
      PROVE  f[k + 1] = Descend(S, f[k], path[k + 1])
  <2> DEFINE j == k + 1
  <2>1. j \in 0..n /\ j # 0 /\ j - 1 = k
    BY <1>2
  <2> HIDE DEF j
  <2>2. f[j] = Descend(S, f[k], path[j])
    BY <2>1 DEF Lookups
  <2> QED
    BY <2>2 DEF j
<1> QED
  BY <1>1, <1>2

\* One more name is one more step down.
LEMMA LookupAppend ==
  ASSUME NEW S, NEW A, NEW p \in Seq(A), NEW n \in A
  PROVE  get_inode_block(S, Append(p, n)) = Descend(S, get_inode_block(S, p), n)
<1> DEFINE q == Append(p, n)
           len == Len(p)
<1>1. len \in Nat /\ Len(q) = len + 1 /\ q[len + 1] = n /\ \A k \in 1..len : q[k] = p[k]
  BY LenProperties, AppendProperties
<1> HIDE DEF q, len
<1>2. PICK f : Lookups(f, len + 1, S, q) /\ get_inode_block(S, q) = f[len + 1]
  <2>1. Len(q) \in Nat
    BY <1>1
  <2>2. \E f : Lookups(f, Len(q), S, q) /\ get_inode_block(S, q) = f[Len(q)]
    BY <2>1, LookupsReturned
  <2> QED
    BY <1>1, <2>2
<1>3. PICK g : Lookups(g, len, S, p) /\ get_inode_block(S, p) = g[len]
  BY <1>1, LookupsReturned DEF len
<1>4. /\ f[0] = Start
      /\ \A k \in Nat : k + 1 \in 0..(len + 1) => f[k + 1] = Descend(S, f[k], q[k + 1])
  BY <1>1, <1>2, LookupsAt
<1>5. /\ g[0] = Start
      /\ \A k \in Nat : k + 1 \in 0..len => g[k + 1] = Descend(S, g[k], p[k + 1])
  BY <1>1, <1>3, LookupsAt
<1>6. \A k \in Nat : k \in 0..len => f[k] = g[k]
  <2> DEFINE I == {k \in Nat : k \in 0..len => f[k] = g[k]}
  <2>1. 0 \in I
    BY <1>4, <1>5
  <2>2. ASSUME NEW k \in Nat, k \in I
        PROVE  k + 1 \in I
    <3> SUFFICES ASSUME k + 1 \in 0..len
                 PROVE  f[k + 1] = g[k + 1]
      OBVIOUS
    <3>1. k + 1 \in 0..(len + 1) /\ k + 1 \in 1..len /\ k \in 0..len
      BY <1>1
    <3>2. f[k + 1] = Descend(S, f[k], q[k + 1])
      BY <1>4, <3>1
    <3>3. g[k + 1] = Descend(S, g[k], p[k + 1])
      BY <1>5
    <3> QED
      BY <1>1, <2>2, <3>1, <3>2, <3>3
  <2>3. \A k \in Nat : k \in I
    BY <2>1, <2>2, NatSetInduction
  <2> QED
    BY <2>3
<1>7. f[len] = g[len]
  BY <1>1, <1>6
<1>8. len + 1 \in 0..(len + 1)
  BY <1>1
<1>9. f[len + 1] = Descend(S, f[len], q[len + 1])
  BY <1>1, <1>4, <1>8
<1> QED
  BY <1>1, <1>2, <1>3, <1>7, <1>9 DEF q

Ats == [block : Blocks, full_match : BOOLEAN, left_over : Names \cup {"/"}]

\* An entry of the directory d with the name n.
IsEntry(S, d, n, e) ==
  d \in Dirs(S) /\ e \in Range(S.disk[d].links) /\ NameOf(S, e) = n

LEMMA EntryIs ==
  ASSUME NEW S, S \in Images, EntriesOK(S), NEW d, NEW n, NEW e, IsEntry(S, d, n, e)
  PROVE  /\ e \in Headers(S) \ {root} /\ S.disk[e].parent = d
         /\ n \in Names
         /\ \A f : IsEntry(S, d, n, f) => f = e
<1>1. S.disk[d].links \in Seq(Blocks) /\ d \in Dirs(S)
  BY BlockIs DEF IsEntry, Headers, INodes
<1>2. PICK i \in 1..Len(S.disk[d].links) : S.disk[d].links[i] = e
  BY <1>1, RangeIs DEF IsEntry
<1>3. ASSUME NEW f, IsEntry(S, d, n, f)
      PROVE  f = e
  <2>1. PICK j \in 1..Len(S.disk[d].links) : S.disk[d].links[j] = f
    BY <1>1, <1>3, RangeIs DEF IsEntry
  <2> QED
    BY <1>1, <1>2, <1>3, <2>1 DEF EntriesOK, IsEntry
<1> QED
  BY <1>1, <1>2, <1>3 DEF EntriesOK, IsEntry

\* A step down a path: to the entry, if there is one, or no further.
LEMMA DescendIs ==
  ASSUME NEW S, S \in Images, EntriesOK(S),
         NEW at \in Ats, at.block \in Headers(S), NEW n \in Names
  PROVE  LET r == Descend(S, at, n) IN
         /\ r \in Ats /\ r.block \in Headers(S)
         /\ ~at.full_match => r = at
         /\ r.full_match => at.full_match /\ IsEntry(S, at.block, n, r.block)
         /\ at.full_match /\ ~r.full_match =>
              r.block = at.block /\ r.left_over = n /\ \A e : ~IsEntry(S, at.block, n, e)
<1> DEFINE links == S.disk[at.block].links
           I == {i \in 1..Len(links) : InfoOf(S, links[i]).name = n}
           k == SelectInSeq(links, LAMBDA e : InfoOf(S, e).name = n)
<1>1. links \in Seq(Blocks) /\ Len(links) \in Nat /\ at.block \in Blocks /\ S.disk[at.block] \in INodes
  BY BlockIs, LenProperties DEF INodes
<1>2. k = IF I # {} THEN Min(I) ELSE 0
  BY DEF SelectInSeq
<1>3. I # {} => k \in I
  <2>1. I \in SUBSET Nat
    BY <1>1
  <2> QED
    BY <1>2, <2>1, MinIsLeast
<1>4. S.disk[at.block].kind = "inode"
  BY DEF Headers, Dirs, Files
<1>5. (at.block \in Dirs(S)) <=> (S.disk[at.block].mode = "DIR")
  BY <1>1, <1>4 DEF Dirs
<1>6. \A e : IsEntry(S, at.block, n, e) => I # {}
  <2> SUFFICES ASSUME NEW e, IsEntry(S, at.block, n, e)
               PROVE  I # {}
    OBVIOUS
  <2>1. PICK i \in 1..Len(links) : links[i] = e
    BY <1>1, RangeIs DEF IsEntry
  <2> QED
    BY <2>1 DEF IsEntry, NameOf
<1>7. Descend(S, at, n) =
        CASE ~at.full_match -> at
          [] at.full_match /\ (S.disk[at.block].mode # "DIR" \/ k = 0) ->
               [at EXCEPT !.full_match = FALSE, !.left_over = n]
          [] OTHER -> [at EXCEPT !.block = links[k]]
  BY DEF Descend
<1> HIDE DEF k, links
<1>8. CASE ~at.full_match
  BY <1>7, <1>8
<1>9. CASE at.full_match /\ (S.disk[at.block].mode # "DIR" \/ k = 0)
  <2> DEFINE r == Descend(S, at, n)
  <2>1. r = [at EXCEPT !.full_match = FALSE, !.left_over = n]
    BY <1>7, <1>9
  <2> HIDE DEF r
  <2>2. r \in Ats /\ r.block = at.block /\ r.full_match = FALSE /\ r.left_over = n
    BY <2>1 DEF Ats
  <2>3. \A e : ~IsEntry(S, at.block, n, e)
    <3>1. CASE S.disk[at.block].mode # "DIR"
      BY <1>5, <3>1 DEF IsEntry
    <3>2. CASE k = 0
      <4>1. 0 \notin I
        OBVIOUS
      <4> QED
        BY <1>3, <1>6, <3>2, <4>1
    <3> QED
      BY <1>9, <3>1, <3>2
  <2> QED
    BY <1>9, <2>2, <2>3 DEF r
<1>10. CASE at.full_match /\ S.disk[at.block].mode = "DIR" /\ k # 0
  <2> DEFINE r == Descend(S, at, n)
  <2>1. r = [at EXCEPT !.block = links[k]]
    BY <1>7, <1>10
  <2> HIDE DEF r
  <2>2. k \in 1..Len(links) /\ InfoOf(S, links[k]).name = n
    BY <1>2, <1>3, <1>10
  <2>3. links[k] \in Headers(S)
    BY <1>5, <1>10, <2>2 DEF EntriesOK, links
  <2>4. links[k] \in Blocks
    BY <1>1, <2>2, ElementOfSeq
  <2>5. r \in Ats /\ r.block = links[k] /\ r.full_match = at.full_match
    BY <2>1, <2>4 DEF Ats
  <2>6. links[k] \in Range(links)
    BY <1>1, <2>2, RangeIs
  <2>7. IsEntry(S, at.block, n, links[k])
    BY <1>5, <1>10, <2>2, <2>6 DEF IsEntry, NameOf, links
  <2> QED
    BY <1>10, <2>3, <2>5, <2>7 DEF r
<1>11. at.full_match \in BOOLEAN
  BY DEF Ats
<1> QED
  BY <1>8, <1>9, <1>10, <1>11

\* What a lookup says.
LEMMA LookupIs ==
  ASSUME NEW S, S \in Images, EntriesOK(S), ParentsOK(S)
  PROVE  \A p \in Seq(Names) :
           get_inode_block(S, p) \in Ats /\ get_inode_block(S, p).block \in Headers(S)
<1> DEFINE J == {p \in Seq(Names) : get_inode_block(S, p) \in Ats
                                     /\ get_inode_block(S, p).block \in Headers(S)}
<1>1. <<>> \in J
  <2>1. root \in Headers(S) /\ root \in Blocks
    BY DEF ParentsOK, Headers, Dirs
  <2>2. Start \in Ats /\ Start.block = root
    BY <2>1 DEF Start, Ats
  <2>3. get_inode_block(S, <<>>) = Start
    BY LookupNone
  <2>4. <<>> \in Seq(Names)
    BY EmptySeq
  <2> QED
    BY <2>1, <2>2, <2>3, <2>4
<1>2. ASSUME NEW p \in Seq(Names), NEW n \in Names, p \in J
      PROVE  Append(p, n) \in J
  <2>1. get_inode_block(S, Append(p, n)) = Descend(S, get_inode_block(S, p), n)
    BY LookupAppend
  <2> DEFINE at == get_inode_block(S, p)
  <2>2. at \in Ats /\ at.block \in Headers(S)
    BY <1>2
  <2> HIDE DEF at
  <2>3. Descend(S, at, n) \in Ats /\ Descend(S, at, n).block \in Headers(S)
    BY <2>2, DescendIs
  <2>4. Append(p, n) \in Seq(Names)
    BY AppendProperties
  <2> QED
    BY <2>1, <2>3, <2>4 DEF at
<1> HIDE DEF J
<1>3. \A p \in Seq(Names) : p \in J
  BY <1>1, <1>2, PathInduction
<1> QED
  BY <1>3 DEF J

\* Entries that stay, with their names, are found as before: T is a later image,
\* and gone is a set of headers that link nothing.
LEMMA LookupStays ==
  ASSUME NEW S, S \in Images, EntriesOK(S), ParentsOK(S),
         NEW T, T \in Images, EntriesOK(T), ParentsOK(T), NEW gone,
         \A d, n, e : IsEntry(S, d, n, e) /\ d \notin gone /\ e \notin gone => IsEntry(T, d, n, e),
         \A d, n, e : ~(d \in gone /\ IsEntry(S, d, n, e))
  PROVE  \A p \in Seq(Names) :
           /\ get_inode_block(S, p).full_match
           /\ get_inode_block(S, p).block \notin gone
           => /\ get_inode_block(T, p).full_match
              /\ get_inode_block(T, p).block = get_inode_block(S, p).block
<1> DEFINE Stays(p) == /\ get_inode_block(S, p).full_match
                       /\ get_inode_block(S, p).block \notin gone
                       => /\ get_inode_block(T, p).full_match
                          /\ get_inode_block(T, p).block = get_inode_block(S, p).block
           J == {p \in Seq(Names) : Stays(p)}
<1>1. <<>> \in J
  BY LookupNone, EmptySeq
<1>2. ASSUME NEW p \in Seq(Names), NEW n \in Names, p \in J
      PROVE  Append(p, n) \in J
  <2> DEFINE s == get_inode_block(S, p)
             t == get_inode_block(T, p)
             s1 == Descend(S, s, n)
             t1 == Descend(T, t, n)
  <2>1. get_inode_block(S, Append(p, n)) = s1 /\ get_inode_block(T, Append(p, n)) = t1
    BY LookupAppend
  <2>2. s \in Ats /\ s.block \in Headers(S) /\ t \in Ats /\ t.block \in Headers(T)
    BY LookupIs
  <2>3. s.full_match /\ s.block \notin gone => t.full_match /\ t.block = s.block
    BY <1>2
  <2> HIDE DEF s, t
  <2>4. ASSUME s1.full_match, s1.block \notin gone
        PROVE  t1.full_match /\ t1.block = s1.block
    <3>1. s.full_match /\ IsEntry(S, s.block, n, s1.block)
      BY <2>2, <2>4, DescendIs
    <3>2. s.block \notin gone
      BY <3>1
    <3>3. t.full_match /\ t.block = s.block
      BY <2>3, <3>1, <3>2
    <3>4. IsEntry(T, t.block, n, s1.block)
      BY <2>4, <3>1, <3>2, <3>3
    <3>5. t1 \in Ats /\ (t.full_match /\ ~t1.full_match => \A e : ~IsEntry(T, t.block, n, e))
      BY <2>2, DescendIs
    <3>6. t1.full_match
      BY <3>3, <3>4, <3>5 DEF Ats
    <3>7. IsEntry(T, t.block, n, t1.block)
      BY <2>2, <3>6, DescendIs
    <3> QED
      BY <3>4, <3>6, <3>7, EntryIs
  <2>5. Append(p, n) \in Seq(Names)
    BY AppendProperties
  <2> QED
    BY <2>1, <2>4, <2>5
<1> HIDE DEF J
<1>3. \A p \in Seq(Names) : p \in J
  BY <1>1, <1>2, PathInduction
<1> QED
  BY <1>3 DEF J

LEMMA LookupGrows ==
  ASSUME NEW S, S \in Images, EntriesOK(S), ParentsOK(S),
         NEW T, T \in Images, EntriesOK(T), ParentsOK(T),
         \A d, n, e : IsEntry(S, d, n, e) => IsEntry(T, d, n, e)
  PROVE  \A p \in Seq(Names) : get_inode_block(S, p).full_match =>
           /\ get_inode_block(T, p).full_match
           /\ get_inode_block(T, p).block = get_inode_block(S, p).block
<1> DEFINE gone == {}
<1>1. \A x : x \notin gone
  OBVIOUS
<1> HIDE DEF gone
<1>2. \A d, n, e : IsEntry(S, d, n, e) /\ d \notin gone /\ e \notin gone => IsEntry(T, d, n, e)
  OBVIOUS
<1>3. \A d, n, e : ~(d \in gone /\ IsEntry(S, d, n, e))
  BY <1>1
<1>4. \A p \in Seq(Names) :
        /\ get_inode_block(S, p).full_match
        /\ get_inode_block(S, p).block \notin gone
        => /\ get_inode_block(T, p).full_match
           /\ get_inode_block(T, p).block = get_inode_block(S, p).block
  BY <1>2, <1>3, LookupStays
<1> QED
  BY <1>1, <1>4

LEMMA PathsAre ==
  /\ \A p : p \in Paths <=> (p \in Seq(Names) /\ Len(p) <= MaxDepth)
  /\ <<>> \in Paths
<1>1. MaxDepth \in Nat
  BY CallersAssumption
<1>2. ASSUME NEW p, p \in Paths
      PROVE  p \in Seq(Names) /\ Len(p) <= MaxDepth
  <2>1. PICK n \in 0..MaxDepth : p \in [1..n -> Names]
    BY <1>2 DEF Paths
  <2>2. n \in Nat /\ n <= MaxDepth
    BY <1>1
  <2>3. p \in Seq(Names)
    BY <2>1, <2>2, SeqDef
  <2>4. Len(p) = n
    BY <2>1, <2>2, <2>3, LenProperties
  <2> QED
    BY <2>2, <2>3, <2>4
<1>3. ASSUME NEW p \in Seq(Names), Len(p) <= MaxDepth
      PROVE  p \in Paths
  <2>1. p \in [1..Len(p) -> Names] /\ Len(p) \in 0..MaxDepth
    BY <1>1, <1>3, LenProperties
  <2> QED
    BY <2>1 DEF Paths
<1>4. <<>> \in Seq(Names) /\ Len(<<>>) <= MaxDepth
  BY <1>1, EmptySeq
<1> QED
  BY <1>2, <1>3, <1>4

-----------------------------------------------------------------------------
(* Paths and what they lead to *)

\* The path p leads to block b.
Leads(S, p, b) ==
  get_inode_block(S, p).full_match /\ get_inode_block(S, p).block = b

\* The root by no name, every other one by one name more than its directory.
LEMMA LeadsIs ==
  ASSUME NEW S, ImageOK(S)
  PROVE  /\ \A b : Leads(S, <<>>, b) <=> b = root
         /\ \A p \in Seq(Names), n \in Names : \A b :
              Leads(S, Append(p, n), b) <=> \E d : Leads(S, p, d) /\ IsEntry(S, d, n, b)
         /\ \A p \in Seq(Names) : \A b : Leads(S, p, b) => b \in Headers(S)
<1>1. S \in Images /\ EntriesOK(S) /\ ParentsOK(S)
  BY DEF ImageOK, TypesOK
<1>2. \A b : Leads(S, <<>>, b) <=> b = root
  BY LookupNone DEF Leads, Start
<1>3. \A p \in Seq(Names) : \A b : Leads(S, p, b) => b \in Headers(S)
  BY <1>1, LookupIs DEF Leads
<1>4. ASSUME NEW p \in Seq(Names), NEW n \in Names, NEW b
      PROVE  Leads(S, Append(p, n), b) <=> \E d : Leads(S, p, d) /\ IsEntry(S, d, n, b)
  <2> DEFINE at == get_inode_block(S, p)
             r == Descend(S, at, n)
  <2>1. get_inode_block(S, Append(p, n)) = r
    BY LookupAppend
  <2>2. at \in Ats /\ at.block \in Headers(S)
    BY <1>1, LookupIs
  <2>3. Leads(S, Append(p, n), b) <=> r.full_match /\ r.block = b
    BY <2>1 DEF Leads
  <2>4. \A d : Leads(S, p, d) <=> at.full_match /\ at.block = d
    BY DEF Leads
  <2> HIDE DEF at
  <2>5. /\ r \in Ats
        /\ r.full_match => at.full_match /\ IsEntry(S, at.block, n, r.block)
        /\ at.full_match /\ ~r.full_match => \A e : ~IsEntry(S, at.block, n, e)
    BY <1>1, <2>2, DescendIs
  <2> HIDE DEF r
  <2>6. ASSUME r.full_match, r.block = b
        PROVE  \E d : Leads(S, p, d) /\ IsEntry(S, d, n, b)
    BY <2>4, <2>5, <2>6
  <2>7. ASSUME NEW d, Leads(S, p, d), IsEntry(S, d, n, b)
        PROVE  r.full_match /\ r.block = b
    <3>1. at.full_match /\ at.block = d
      BY <2>4, <2>7
    <3>2. r.full_match
      BY <2>5, <2>7, <3>1 DEF Ats
    <3>3. IsEntry(S, d, n, r.block)
      BY <2>5, <3>1, <3>2
    <3> QED
      BY <1>1, <2>7, <3>2, <3>3, EntryIs
  <2> QED
    BY <2>3, <2>6, <2>7
<1> QED
  BY <1>2, <1>3, <1>4

\* One path leads to a block, and one block is what a path leads to.
LEMMA PathsAreUnique ==
  ASSUME NEW S, ImageOK(S), NEW p \in Seq(Names), NEW q \in Seq(Names), NEW b,
         Leads(S, p, b), Leads(S, q, b)
  PROVE  p = q
<1> DEFINE J == {r \in Seq(Names) : \A s \in Seq(Names) : \A x :
                   Leads(S, r, x) /\ Leads(S, s, x) => r = s}
<1>1. S \in Images /\ EntriesOK(S)
  BY DEF ImageOK, TypesOK
<1>2. /\ \A x : Leads(S, <<>>, x) <=> x = root
      /\ \A r \in Seq(Names), n \in Names : \A x :
           Leads(S, Append(r, n), x) => \E d : Leads(S, r, d) /\ IsEntry(S, d, n, x)
  BY LeadsIs
<1>3. \A d, n, x : IsEntry(S, d, n, x) => x # root /\ S.disk[x].parent = d /\ NameOf(S, x) = n
  BY <1>1, EntryIs DEF IsEntry
<1>4. \A s \in Seq(Names) : s = <<>> \/ \E r \in Seq(Names), n \in Names : s = Append(r, n)
  BY SequenceEmptyOrAppend
<1>5. <<>> \in J
  <2>1. <<>> \in Seq(Names)
    OBVIOUS
  <2>2. ASSUME NEW s \in Seq(Names), NEW x, Leads(S, <<>>, x), Leads(S, s, x)
        PROVE  <<>> = s
    <3>1. x = root
      BY <1>2, <2>2
    <3>2. ASSUME s # <<>>
          PROVE  FALSE
      <4>1. PICK t \in Seq(Names), m \in Names : s = Append(t, m)
        BY <1>4, <3>2
      <4>2. PICK d : IsEntry(S, d, m, x)
        BY <1>2, <2>2, <4>1
      <4> QED
        BY <1>3, <3>1, <4>2
    <3> QED
      BY <3>2
  <2> QED
    BY <2>1, <2>2
<1>6. ASSUME NEW r \in Seq(Names), NEW n \in Names, r \in J
      PROVE  Append(r, n) \in J
  <2>1. Append(r, n) \in Seq(Names)
    BY AppendProperties
  <2>2. ASSUME NEW s \in Seq(Names), NEW x, Leads(S, Append(r, n), x), Leads(S, s, x)
        PROVE  Append(r, n) = s
    <3>1. PICK d : Leads(S, r, d) /\ IsEntry(S, d, n, x)
      BY <1>2, <2>2
    <3>2. s # <<>>
      BY <1>2, <1>3, <2>2, <3>1
    <3>3. PICK t \in Seq(Names), m \in Names : s = Append(t, m)
      BY <1>4, <3>2
    <3>4. PICK c : Leads(S, t, c) /\ IsEntry(S, c, m, x)
      BY <1>2, <2>2, <3>3
    <3>5. c = d /\ m = n
      BY <1>3, <3>1, <3>4, SMTT(30)
    <3>6. r = t
      BY <1>6, <3>1, <3>4, <3>5
    <3> QED
      BY <3>3, <3>5, <3>6
  <2> QED
    BY <2>1, <2>2
<1> HIDE DEF J
<1>7. p \in J
  BY <1>5, <1>6, PathInduction
<1> QED
  BY <1>7 DEF J

\* What a change leaves of the entries of S: all of them; those and the new
\* entry e, with the name n in d; or those but e, which links nothing.
SameEntries(S, T) == \A x, y, z : IsEntry(T, x, y, z) <=> IsEntry(S, x, y, z)
MoreEntries(S, T, d, n, e) ==
  /\ e \notin Headers(S)
  /\ \A x, y, z : IsEntry(T, x, y, z) <=> (IsEntry(S, x, y, z) \/ (x = d /\ y = n /\ z = e))
FewerEntries(S, T, e) ==
  /\ e # root /\ \A y, z : ~IsEntry(S, e, y, z)
  /\ \A x, y, z : IsEntry(T, x, y, z) <=> (IsEntry(S, x, y, z) /\ z # e)

LEMMA LeadsAsBefore ==
  ASSUME NEW S, ImageOK(S), NEW T, ImageOK(T), SameEntries(S, T)
  PROVE  \A p \in Seq(Names) : \A b : Leads(T, p, b) <=> Leads(S, p, b)
<1> DEFINE J == {p \in Seq(Names) : \A b : Leads(T, p, b) <=> Leads(S, p, b)}
<1>1. <<>> \in J
  <2>1. <<>> \in Seq(Names)
    OBVIOUS
  <2> QED
    BY <2>1, LeadsIs
<1>2. ASSUME NEW p \in Seq(Names), NEW n \in Names, p \in J
      PROVE  Append(p, n) \in J
  <2>1. Append(p, n) \in Seq(Names)
    BY AppendProperties
  <2>2. \A b : Leads(S, Append(p, n), b) <=> \E d : Leads(S, p, d) /\ IsEntry(S, d, n, b)
    BY LeadsIs
  <2>3. \A b : Leads(T, Append(p, n), b) <=> \E d : Leads(T, p, d) /\ IsEntry(T, d, n, b)
    BY LeadsIs
  <2>4. \A b : Leads(T, p, b) <=> Leads(S, p, b)
    BY <1>2
  <2>5. \A b : Leads(T, Append(p, n), b) <=> Leads(S, Append(p, n), b)
    BY <2>2, <2>3, <2>4 DEF SameEntries
  <2> QED
    BY <2>1, <2>5
<1> HIDE DEF J
<1>3. \A p \in Seq(Names) : p \in J
  BY <1>1, <1>2, PathInduction
<1> QED
  BY <1>3 DEF J

LEMMA LeadsToMore ==
  ASSUME NEW S, ImageOK(S), NEW T, ImageOK(T), NEW d, NEW n \in Names, NEW e,
         MoreEntries(S, T, d, n, e), NEW q \in Seq(Names), Leads(S, q, d)
  PROVE  \A p \in Seq(Names) : \A b :
           Leads(T, p, b) <=> (Leads(S, p, b) \/ (p = Append(q, n) /\ b = e))
<1> DEFINE New(p, b) == p = Append(q, n) /\ b = e
           J == {p \in Seq(Names) : \A b : Leads(T, p, b) <=> (Leads(S, p, b) \/ New(p, b))}
<1>1. S \in Images /\ EntriesOK(S) /\ root \in Headers(S)
  BY DEF ImageOK, TypesOK, ParentsOK, Headers
<1>2. /\ \A y, z : ~IsEntry(S, e, y, z)
      /\ \A p \in Seq(Names) : ~Leads(S, p, e)
      /\ d # e
  <2>1. \A y, z : ~IsEntry(S, e, y, z)
    BY DEF MoreEntries, IsEntry, Headers
  <2> QED
    BY <2>1, LeadsIs DEF MoreEntries
<1>3. <<>> \in J
  <2>1. <<>> \in Seq(Names)
    OBVIOUS
  <2>2. <<>> # Append(q, n)
    BY AppendProperties
  <2> QED
    BY <2>1, <2>2, LeadsIs
<1>4. ASSUME NEW p \in Seq(Names), NEW m \in Names, p \in J
      PROVE  Append(p, m) \in J
  <2>1. Append(p, m) \in Seq(Names)
    BY AppendProperties
  <2>2. \A b : Leads(S, Append(p, m), b) <=> \E x : Leads(S, p, x) /\ IsEntry(S, x, m, b)
    BY LeadsIs
  <2>3. \A b : Leads(T, Append(p, m), b) <=> \E x : Leads(T, p, x) /\ IsEntry(T, x, m, b)
    BY LeadsIs
  <2>4. \A b : Leads(T, p, b) <=> (Leads(S, p, b) \/ New(p, b))
    BY <1>4
  <2>5. \A x, b : IsEntry(T, x, m, b) <=> (IsEntry(S, x, m, b) \/ (x = d /\ m = n /\ b = e))
    BY DEF MoreEntries
  <2>6. ASSUME NEW b, Leads(T, Append(p, m), b)
        PROVE  Leads(S, Append(p, m), b) \/ New(Append(p, m), b)
    <3>1. PICK x : Leads(T, p, x) /\ IsEntry(T, x, m, b)
      BY <2>3, <2>6
    <3>2. x # e
      BY <1>2, <2>5, <3>1
    <3>3. Leads(S, p, x)
      BY <2>4, <3>1, <3>2
    <3>4. CASE IsEntry(S, x, m, b)
      BY <2>2, <3>3, <3>4
    <3>5. CASE x = d /\ m = n /\ b = e
      <4>1. p = q
        BY <3>3, <3>5, PathsAreUnique
      <4> QED
        BY <3>5, <4>1
    <3> QED
      BY <2>5, <3>1, <3>4, <3>5
  <2>7. ASSUME NEW b, Leads(S, Append(p, m), b)
        PROVE  Leads(T, Append(p, m), b)
    BY <2>2, <2>3, <2>4, <2>5, <2>7
  <2>8. ASSUME NEW b, New(Append(p, m), b)
        PROVE  Leads(T, Append(p, m), b)
    <3>1. p = q /\ m = n
      <4> DEFINE i == Len(p)
                 j == Len(q)
      <4>1. i \in Nat /\ j \in Nat /\ Len(Append(p, m)) = i + 1 /\ Len(Append(q, n)) = j + 1
        BY AppendProperties, LenProperties
      <4>2. i = j
        BY <2>8, <4>1
      <4>3. Append(p, m)[i + 1] = m /\ Append(q, n)[j + 1] = n
        BY AppendProperties
      <4>4. (\A k \in 1..i : Append(p, m)[k] = p[k]) /\ (\A k \in 1..j : Append(q, n)[k] = q[k])
        BY AppendProperties
      <4>5. \A k \in 1..i : p[k] = q[k]
        BY <2>8, <4>2, <4>4
      <4> QED
        BY <2>8, <4>2, <4>3, <4>5, SeqEqual
    <3>2. Leads(T, p, d) /\ IsEntry(T, d, m, b)
      BY <2>4, <2>5, <2>8, <3>1
    <3> QED
      BY <2>3, <3>2
  <2> HIDE DEF New
  <2> QED
    BY <2>1, <2>6, <2>7, <2>8
<1> HIDE DEF J
<1>5. \A p \in Seq(Names) : p \in J
  BY <1>3, <1>4, PathInduction
<1> QED
  BY <1>5 DEF J

LEMMA LeadsToFewer ==
  ASSUME NEW S, ImageOK(S), NEW T, ImageOK(T), NEW e, FewerEntries(S, T, e)
  PROVE  \A p \in Seq(Names) : \A b : Leads(T, p, b) <=> (Leads(S, p, b) /\ b # e)
<1> DEFINE J == {p \in Seq(Names) : \A b : Leads(T, p, b) <=> (Leads(S, p, b) /\ b # e)}
<1>1. <<>> \in J
  <2>1. <<>> \in Seq(Names)
    OBVIOUS
  <2> QED
    BY <2>1, LeadsIs DEF FewerEntries
<1>2. ASSUME NEW p \in Seq(Names), NEW m \in Names, p \in J
      PROVE  Append(p, m) \in J
  <2>1. Append(p, m) \in Seq(Names)
    BY AppendProperties
  <2>2. \A b : Leads(S, Append(p, m), b) <=> \E x : Leads(S, p, x) /\ IsEntry(S, x, m, b)
    BY LeadsIs
  <2>3. \A b : Leads(T, Append(p, m), b) <=> \E x : Leads(T, p, x) /\ IsEntry(T, x, m, b)
    BY LeadsIs
  <2>4. \A b : Leads(T, p, b) <=> (Leads(S, p, b) /\ b # e)
    BY <1>2
  <2>5. \A x, b : IsEntry(T, x, m, b) <=> (IsEntry(S, x, m, b) /\ b # e)
    BY DEF FewerEntries
  <2>6. \A b : ~IsEntry(S, e, m, b)
    BY DEF FewerEntries
  <2>7. \A b : Leads(T, Append(p, m), b) <=> (Leads(S, Append(p, m), b) /\ b # e)
    BY <2>2, <2>3, <2>4, <2>5, <2>6
  <2> QED
    BY <2>1, <2>7
<1> HIDE DEF J
<1>3. \A p \in Seq(Names) : p \in J
  BY <1>1, <1>2, PathInduction
<1> QED
  BY <1>3 DEF J

\* The file f links the same blocks of data, and they hold the same.
Stays(S, T, f) ==
  /\ LinksOf(T, Nodes(T, f)) = LinksOf(S, Nodes(S, f))
  /\ \A x \in Range(LinksOf(S, Nodes(S, f))) : T.disk[x] = S.disk[x]
  /\ InfoOf(T, f).size = InfoOf(S, f).size

\* What a caller sees of create_entity,
TreeGrows(S, T, d, n, mode, e) ==
  /\ MoreEntries(S, T, d, n, e)
  /\ \A a : a \in Dirs(T) <=> (a \in Dirs(S) \/ (a = e /\ mode = "DIR"))
  /\ \A a : a \in Files(T) <=> (a \in Files(S) \/ (a = e /\ mode = "REG"))
  /\ \A f \in Files(S) : Stays(S, T, f)

\* of fs_unlink and fs_rmdir,
TreeShrinks(S, T, e) ==
  /\ FewerEntries(S, T, e)
  /\ \A a : a \in Dirs(T) <=> (a \in Dirs(S) /\ a # e)
  /\ \A a : a \in Files(T) <=> (a \in Files(S) /\ a # e)
  /\ \A f \in Files(T) : Stays(S, T, f)

\* and of write_to_file, which changes file f.
OnlyFile(S, T, f) ==
  /\ SameEntries(S, T)
  /\ Dirs(T) = Dirs(S) /\ Files(T) = Files(S)
  /\ \A g \in Files(S) : g # f => Stays(S, T, g)

\* The file f links one more block, and it holds chunk.
OneChunkMore(S, T, f, chunk) ==
  /\ \E b \in Blocks :
       LinksOf(T, Nodes(T, f)) = Append(LinksOf(S, Nodes(S, f)), b) /\ T.disk[b] = Data(chunk)
  /\ \A x \in Range(LinksOf(S, Nodes(S, f))) : T.disk[x] = S.disk[x]
  /\ InfoOf(T, f).size = InfoOf(S, f).size + Len(chunk)

-----------------------------------------------------------------------------
(* The blocks of an entity *)

LEMMA SameInterval ==
  ASSUME NEW m \in Nat, NEW n \in Nat, 1..m = 1..n
  PROVE  m = n
<1>1. m # 0 => m \in 1..n
  BY m # 0 => m \in 1..m
<1>2. n # 0 => n \in 1..m
  BY n # 0 => n \in 1..n
<1> QED
  BY <1>1, <1>2

\* The links of some inodes, one after the other.
LEMMA LinksOfIs ==
  ASSUME NEW S, NEW ns \in Seq(Blocks),
         \A k \in 1..Len(ns) : S.disk[ns[k]].links \in Seq(Blocks)
  PROVE  /\ LinksOf(S, ns) \in Seq(Blocks)
         /\ \A x : x \in Range(LinksOf(S, ns)) <=>
                     \E k \in 1..Len(ns) : x \in Range(S.disk[ns[k]].links)
         /\ (/\ \A k \in 1..Len(ns) : Distinct(S.disk[ns[k]].links)
             /\ \A k, l \in 1..Len(ns) : k # l =>
                  Range(S.disk[ns[k]].links) \cap Range(S.disk[ns[l]].links) = {})
            => Distinct(LinksOf(S, ns))
<1> DEFINE seqs == [k \in DOMAIN ns |-> S.disk[ns[k]].links]
           B == Seq(Blocks)
<1>1. DOMAIN ns = 1..Len(ns) /\ Len(ns) \in Nat
  BY LenProperties
<1>2. seqs \in [1..Len(ns) -> B]
  BY <1>1
<1>3. seqs \in Seq(B)
  BY <1>1, <1>2, SeqDef
<1>4. Len(seqs) = Len(ns) /\ \A k \in 1..Len(ns) : seqs[k] = S.disk[ns[k]].links
  <2>1. DOMAIN seqs = 1..Len(seqs) /\ Len(seqs) \in Nat
    BY <1>3, LenProperties
  <2>2. DOMAIN seqs = 1..Len(ns)
    BY <1>1
  <2>3. Len(seqs) = Len(ns)
    <3> HIDE DEF seqs
    <3> QED
      BY <1>1, <2>1, <2>2, SameInterval, Zenon
  <2> QED
    BY <1>1, <2>3
<1>5. LinksOf(S, ns) = FlattenSeq(seqs)
  BY DEF LinksOf
<1> HIDE DEF seqs
<1>6. Flat(Blocks, seqs)
  BY <1>3, FlattenIsFlat
<1> DEFINE all == FlattenSeq(seqs)
<1>7. /\ all \in Seq(Blocks)
      /\ \A x : x \in Range(all) <=> \E k \in 1..Len(seqs) : x \in Range(seqs[k])
  BY <1>6 DEF Flat
<1>8. (/\ \A k \in 1..Len(seqs) : Distinct(seqs[k])
       /\ \A k, l \in 1..Len(seqs) : k # l => Range(seqs[k]) \cap Range(seqs[l]) = {})
      => Distinct(all)
  BY <1>6 DEF Flat
<1> HIDE DEF all
<1>9. \A x : x \in Range(all) <=> \E k \in 1..Len(ns) : x \in Range(S.disk[ns[k]].links)
  BY <1>4, <1>7
<1>10. (/\ \A k \in 1..Len(ns) : Distinct(S.disk[ns[k]].links)
        /\ \A k, l \in 1..Len(ns) : k # l =>
             Range(S.disk[ns[k]].links) \cap Range(S.disk[ns[l]].links) = {})
       => Distinct(all)
  BY <1>4, <1>8
<1>11. LinksOf(S, ns) = all
  BY <1>5 DEF all
<1> QED
  BY <1>7, <1>9, <1>10, <1>11

\* The inodes of a directory and of a file.
LEMMA NodesAre ==
  ASSUME NEW S, ImageOK(S), NEW e \in Headers(S)
  PROVE  /\ Linking(S, e, Nodes(S, e))
         /\ e \in Dirs(S) => Nodes(S, e) = <<e>>
         /\ e \in Files(S) => Chained(S, e, Nodes(S, e))
         /\ \A k \in 1..Len(Nodes(S, e)) :
              /\ Nodes(S, e)[k] \in Headers(S) \cup Children(S)
              /\ k # 1 => Nodes(S, e)[k] \in Children(S) /\ S.disk[Nodes(S, e)[k]].parent = e
<1>1. CASE e \in Dirs(S)
  <2>1. e \in Blocks /\ S.disk[e].next = 0
    BY <1>1 DEF ImageOK, EntriesOK, Dirs
  <2>2. Len(<<e>>) = 1 /\ <<e>>[1] = e /\ <<e>> \in Seq(Blocks)
    BY <2>1
  <2>3. Distinct(<<e>>)
    BY <2>2 DEF Distinct
  <2>4. Linking(S, e, <<e>>)
    BY <2>1, <2>2, <2>3 DEF Linking
  <2>5. Nodes(S, e) = <<e>>
    BY <2>4, NodesOfLinking
  <2>6. e \notin Files(S)
    BY <1>1 DEF Dirs, Files
  <2> QED
    BY <2>2, <2>4, <2>5, <2>6
<1>2. CASE e \in Files(S)
  <2>1. Chained(S, e, Nodes(S, e))
    BY <1>2 DEF ImageOK, ChainsOK
  <2>2. e \notin Dirs(S)
    BY <1>2 DEF Dirs, Files
  <2>3. Linking(S, e, Nodes(S, e)) /\ Nodes(S, e)[1] = e /\ Len(Nodes(S, e)) \in Nat
    BY <2>1, LenProperties DEF Chained, Linking
  <2>4. ASSUME NEW k \in 1..Len(Nodes(S, e))
        PROVE  /\ Nodes(S, e)[k] \in Headers(S) \cup Children(S)
               /\ k # 1 => Nodes(S, e)[k] \in Children(S) /\ S.disk[Nodes(S, e)[k]].parent = e
    <3>1. CASE k = 1
      BY <2>3, <3>1
    <3>2. CASE k # 1
      <4>1. k \in 2..Len(Nodes(S, e))
        BY <2>3, <3>2
      <4> QED
        BY <2>1, <4>1 DEF Chained
    <3> QED
      BY <3>1, <3>2
  <2> QED
    BY <2>1, <2>2, <2>3, <2>4
<1> QED
  BY <1>1, <1>2 DEF Headers

\* The inodes of a file, with what they link.
LEMMA FileIs ==
  ASSUME NEW S, ImageOK(S), NEW f \in Files(S)
  PROVE  LET ns == Nodes(S, f) IN
         /\ ns \in Seq(Blocks) /\ Len(ns) \in Nat /\ Len(ns) >= 1 /\ ns[1] = f /\ Distinct(ns)
         /\ \A k \in 1..Len(ns) : ns[k] \in Holders(S) /\ S.disk[ns[k]].links \in Seq(Blocks)
         /\ LinksOf(S, ns) \in Seq(Blocks) /\ Distinct(LinksOf(S, ns))
         /\ \A x : x \in Range(LinksOf(S, ns)) <=>
                     \E k \in 1..Len(ns) : x \in Range(S.disk[ns[k]].links)
         /\ \A x \in Range(LinksOf(S, ns)) : x \in DataBlocks(S)
<1> DEFINE ns == Nodes(S, f)
<1>0. S \in Images /\ f \in Headers(S)
  BY DEF ImageOK, TypesOK, Headers
<1>1. Linking(S, f, ns)
  BY <1>0, NodesAre
<1>2. ns \in Seq(Blocks) /\ Len(ns) \in Nat /\ Len(ns) >= 1 /\ ns[1] = f /\ Distinct(ns)
  BY <1>1, LenProperties DEF Linking
<1>3. \A k \in 1..Len(ns) : ns[k] \in Holders(S)
  <2> TAKE k \in 1..Len(ns)
  <2>1. CASE k = 1
    BY <1>2, <2>1 DEF Holders
  <2>2. CASE k # 1
    BY <1>0, <2>2, NodesAre DEF Holders
  <2> QED
    BY <2>1, <2>2
<1>4. \A n \in Holders(S) : S.disk[n].links \in Seq(Blocks)
  BY <1>0, BlockIs DEF Holders, Headers, INodes
<1>5. \A n \in Holders(S) : Distinct(S.disk[n].links)
  <2> TAKE n \in Holders(S)
  <2> SUFFICES ASSUME NEW i \in 1..Len(S.disk[n].links), NEW j \in 1..Len(S.disk[n].links),
                      S.disk[n].links[i] = S.disk[n].links[j]
               PROVE  i = j
    BY DEF Distinct
  <2> QED
    BY DEF ImageOK, DataOK
<1>6. \A n \in Holders(S) : \A x : x \in Range(S.disk[n].links) =>
        x \in DataBlocks(S) /\ \A m \in Holders(S) : x \in Range(S.disk[m].links) => m = n
  <2> SUFFICES ASSUME NEW n \in Holders(S), NEW x, x \in Range(S.disk[n].links)
               PROVE  /\ x \in DataBlocks(S)
                      /\ \A m \in Holders(S) : x \in Range(S.disk[m].links) => m = n
    OBVIOUS
  <2>1. PICK i \in 1..Len(S.disk[n].links) : S.disk[n].links[i] = x
    BY <1>4, RangeIs
  <2>2. ASSUME NEW m \in Holders(S), x \in Range(S.disk[m].links)
        PROVE  m = n
    <3>1. PICK j \in 1..Len(S.disk[m].links) : S.disk[m].links[j] = x
      BY <1>4, <2>2, RangeIs
    <3> QED
      BY <2>1, <3>1 DEF ImageOK, DataOK
  <2> QED
    BY <2>1, <2>2 DEF ImageOK, DataOK
<1> HIDE DEF ns
<1>7. /\ LinksOf(S, ns) \in Seq(Blocks)
      /\ \A x : x \in Range(LinksOf(S, ns)) <=>
                  \E k \in 1..Len(ns) : x \in Range(S.disk[ns[k]].links)
  BY <1>2, <1>3, <1>4, LinksOfIs
<1>8. Distinct(LinksOf(S, ns))
  <2>1. \A k, l \in 1..Len(ns) : k # l =>
          Range(S.disk[ns[k]].links) \cap Range(S.disk[ns[l]].links) = {}
    <3> SUFFICES ASSUME NEW k \in 1..Len(ns), NEW l \in 1..Len(ns), k # l,
                        NEW x, x \in Range(S.disk[ns[k]].links), x \in Range(S.disk[ns[l]].links)
                 PROVE  FALSE
      OBVIOUS
    <3>1. ns[k] = ns[l]
      BY <1>3, <1>6
    <3> QED
      BY <1>2, <3>1 DEF Distinct
  <2>2. \A k \in 1..Len(ns) : Distinct(S.disk[ns[k]].links)
    BY <1>3, <1>5
  <2> QED
    BY <1>2, <1>3, <1>4, <2>1, <2>2, LinksOfIs
<1>9. \A x \in Range(LinksOf(S, ns)) : x \in DataBlocks(S)
  BY <1>3, <1>6, <1>7
<1> QED
  BY <1>2, <1>3, <1>4, <1>7, <1>8, <1>9 DEF ns

\* A block of data is linked by one inode.
LEMMA OneHolder ==
  ASSUME NEW S, ImageOK(S), NEW n \in Holders(S), NEW x, x \in Range(S.disk[n].links)
  PROVE  /\ x \in DataBlocks(S)
         /\ \A m \in Holders(S) : x \in Range(S.disk[m].links) => m = n
<1>1. \A m \in Holders(S) : S.disk[m].links \in Seq(Blocks)
  BY BlockIs DEF ImageOK, TypesOK, Holders, Headers, INodes
<1>2. PICK i \in 1..Len(S.disk[n].links) : S.disk[n].links[i] = x
  BY <1>1, RangeIs
<1>3. ASSUME NEW m \in Holders(S), x \in Range(S.disk[m].links)
      PROVE  m = n
  <2>1. PICK j \in 1..Len(S.disk[m].links) : S.disk[m].links[j] = x
    BY <1>1, <1>3, RangeIs
  <2> QED
    BY <1>2, <2>1 DEF ImageOK, DataOK
<1> QED
  BY <1>2, <1>3 DEF ImageOK, DataOK

\* An inode of a file belongs to that file.
LEMMA OneFile ==
  ASSUME NEW S, ImageOK(S), NEW e \in Files(S), NEW f \in Files(S),
         NEW n, n \in Range(Nodes(S, e)), n \in Range(Nodes(S, f))
  PROVE  e = f
<1>1. /\ Nodes(S, e) \in Seq(Blocks) /\ Nodes(S, f) \in Seq(Blocks)
      /\ e = Nodes(S, e)[1] /\ f = Nodes(S, f)[1]
  BY FileIs
<1>2. e \in Headers(S) /\ f \in Headers(S) /\ Headers(S) \cap Children(S) = {}
  BY DEF Headers, Dirs, Files, Children
<1>3. PICK k \in 1..Len(Nodes(S, e)) : Nodes(S, e)[k] = n
  BY <1>1, RangeIs
<1>4. PICK l \in 1..Len(Nodes(S, f)) : Nodes(S, f)[l] = n
  BY <1>1, RangeIs
<1>5. k # 1 => n \in Children(S) /\ S.disk[n].parent = e
  BY <1>2, <1>3, NodesAre
<1>6. l # 1 => n \in Children(S) /\ S.disk[n].parent = f
  BY <1>2, <1>4, NodesAre
<1> QED
  BY <1>1, <1>2, <1>3, <1>4, <1>5, <1>6

\* The blocks of the entity e.
BlocksIn(S, e) ==
  Range(Nodes(S, e)) \cup {S.disk[e].meta}
    \cup (IF e \in Files(S) THEN Range(LinksOf(S, Nodes(S, e))) ELSE {})

LEMMA BlocksInAre ==
  ASSUME NEW S, ImageOK(S), NEW e \in Headers(S), NEW x, x \in BlocksIn(S, e)
  PROVE  /\ x \in Blocks /\ x # 0 /\ x \notin FreeOnes(S)
         /\ \/ x \in InfoBlocks(S) /\ x = S.disk[e].meta
            \/ x \in DataBlocks(S) /\ e \in Files(S)
               /\ \E n \in Range(Nodes(S, e)) : n \in Holders(S) /\ x \in Range(S.disk[n].links)
            \/ x \in Headers(S) \cup Children(S) /\ x \in Range(Nodes(S, e))
<1>1. Linking(S, e, Nodes(S, e)) /\ Nodes(S, e) \in Seq(Blocks)
  BY NodesAre DEF Linking
<1>2. CASE x \in Range(Nodes(S, e))
  <2>1. x \in Headers(S) \cup Children(S)
    BY <1>1, <1>2, RangeIs, NodesAre
  <2> QED
    BY <1>2, <2>1 DEF Headers, Dirs, Files, Children, FreeOnes, ImageOK, TypesOK, SuperOK, Super
<1>3. CASE x = S.disk[e].meta
  <2>1. x \in InfoBlocks(S)
    BY <1>3 DEF ImageOK, MetasOK
  <2> QED
    BY <1>3, <2>1 DEF InfoBlocks, FreeOnes, ImageOK, TypesOK, SuperOK, Super
<1>4. CASE e \in Files(S) /\ x \in Range(LinksOf(S, Nodes(S, e)))
  <2>1. x \in DataBlocks(S)
    BY <1>4, FileIs
  <2>2. PICK k \in 1..Len(Nodes(S, e)) : x \in Range(S.disk[Nodes(S, e)[k]].links)
    BY <1>4, FileIs
  <2>3. Nodes(S, e)[k] \in Holders(S) /\ Nodes(S, e)[k] \in Range(Nodes(S, e))
    BY <1>1, <1>4, FileIs, RangeIs
  <2>4. x \in Blocks /\ x # 0 /\ x \notin FreeOnes(S)
    BY <2>1 DEF DataBlocks, FreeOnes, ImageOK, TypesOK, SuperOK, Super
  <2> QED
    BY <1>4, <2>1, <2>2, <2>3, <2>4
<1> QED
  BY <1>2, <1>3, <1>4 DEF BlocksIn

LEMMA BlocksInAreOwn ==
  ASSUME NEW S, ImageOK(S), NEW e \in Headers(S), NEW f \in Headers(S),
         NEW x, x \in BlocksIn(S, e), x \in BlocksIn(S, f)
  PROVE  e = f
<1>1. /\ InfoBlocks(S) \cap DataBlocks(S) = {}
      /\ InfoBlocks(S) \cap (Headers(S) \cup Children(S)) = {}
      /\ DataBlocks(S) \cap (Headers(S) \cup Children(S)) = {}
      /\ Headers(S) \cap Children(S) = {} /\ Dirs(S) \cap Files(S) = {}
  BY DEF InfoBlocks, DataBlocks, Headers, Dirs, Files, Children
<1>2. CASE x \in InfoBlocks(S)
  <2>1. x = S.disk[e].meta /\ x = S.disk[f].meta
    BY <1>1, <1>2, BlocksInAre
  <2> QED
    BY <2>1 DEF ImageOK, MetasOK
<1>3. CASE x \in DataBlocks(S)
  <2>1. PICK n \in Range(Nodes(S, e)) : n \in Holders(S) /\ x \in Range(S.disk[n].links)
    BY <1>1, <1>3, BlocksInAre
  <2>2. PICK m \in Range(Nodes(S, f)) : m \in Holders(S) /\ x \in Range(S.disk[m].links)
    BY <1>1, <1>3, BlocksInAre
  <2>3. n = m
    BY <2>1, <2>2, OneHolder
  <2>4. e \in Files(S) /\ f \in Files(S)
    BY <1>1, <1>3, BlocksInAre
  <2> QED
    BY <2>3, <2>4, OneFile
<1>4. CASE x \in Headers(S) \cup Children(S)
  <2>1. x \in Range(Nodes(S, e)) /\ x \in Range(Nodes(S, f))
    BY <1>1, <1>4, BlocksInAre
  <2>2. \A g \in Headers(S) : x \in Range(Nodes(S, g)) => x = g \/ (x \in Children(S) /\ S.disk[x].parent = g)
    <3> TAKE g \in Headers(S)
    <3> SUFFICES ASSUME x \in Range(Nodes(S, g))
                 PROVE  x = g \/ (x \in Children(S) /\ S.disk[x].parent = g)
      OBVIOUS
    <3>1. Nodes(S, g) \in Seq(Blocks) /\ Nodes(S, g)[1] = g
      BY NodesAre DEF Linking
    <3>2. PICK k \in 1..Len(Nodes(S, g)) : Nodes(S, g)[k] = x
      BY <3>1, RangeIs
    <3> QED
      BY <3>1, <3>2, NodesAre
  <2> QED
    BY <1>1, <2>1, <2>2
<1> QED
  BY <1>2, <1>3, <1>4, BlocksInAre

\* Every block is the superblock, free, or of an entity.
LEMMA BlocksInAreAll ==
  ASSUME NEW S, ImageOK(S), NEW b \in Blocks, b # 0, b \notin FreeOnes(S)
  PROVE  \E e \in Headers(S) : b \in BlocksIn(S, e)
<1>0. S \in Images /\ SuperOK(S)
  BY DEF ImageOK, TypesOK
<1>1. b \in Headers(S) \/ b \in Children(S) \/ b \in InfoBlocks(S) \/ b \in DataBlocks(S)
  <2>1. S.disk[b] \in Structs
    BY <1>0, BlockIs
  <2>2. S.disk[b].kind \in {"info", "data", "inode"}
    BY <1>0, <2>1, StructIs DEF SuperOK, FreeOnes
  <2>3. S.disk[b].kind = "inode" => S.disk[b].mode \in {"DIR", "REG", "CHILD"}
    BY <2>1, StructIs DEF INodes
  <2> QED
    BY <2>2, <2>3 DEF Headers, Dirs, Files, Children, InfoBlocks, DataBlocks
<1>2. CASE b \in Headers(S)
  <2>1. Nodes(S, b) \in Seq(Blocks) /\ Nodes(S, b)[1] = b /\ 1 \in 1..Len(Nodes(S, b))
    BY <1>2, NodesAre, LenProperties DEF Linking
  <2> QED
    BY <1>2, <2>1, RangeIs DEF BlocksIn
<1>3. \A c \in Children(S) : \E e \in Files(S) : c \in Range(Nodes(S, e))
  BY DEF ImageOK, ChainsOK
<1>4. CASE b \in Children(S)
  BY <1>3, <1>4 DEF BlocksIn, Headers
<1>5. CASE b \in InfoBlocks(S)
  BY <1>5 DEF ImageOK, MetasOK, BlocksIn
<1>6. CASE b \in DataBlocks(S)
  <2>1. PICK n \in Holders(S) : b \in Range(S.disk[n].links)
    BY <1>6 DEF ImageOK, DataOK
  <2>2. PICK e \in Files(S) : n \in Range(Nodes(S, e))
    <3>1. CASE n \in Files(S)
      <4>1. Nodes(S, n) \in Seq(Blocks) /\ Nodes(S, n)[1] = n /\ 1 \in 1..Len(Nodes(S, n))
        BY <3>1, FileIs
      <4> QED
        BY <3>1, <4>1, RangeIs
    <3>2. CASE n \in Children(S)
      BY <1>3, <3>2
    <3> QED
      BY <3>1, <3>2 DEF Holders
  <2>3. PICK k \in 1..Len(Nodes(S, e)) : Nodes(S, e)[k] = n
    BY <2>2, FileIs, RangeIs
  <2>4. b \in Range(LinksOf(S, Nodes(S, e)))
    BY <2>1, <2>3, FileIs
  <2> QED
    BY <2>4 DEF BlocksIn, Headers
<1> QED
  BY <1>1, <1>2, <1>4, <1>5, <1>6

\* The entities are the headers.
LEMMA EntitiesAre ==
  ASSUME IInv
  PROVE  /\ Entities = Headers(fs)
         /\ \A p \in Found : p \in Seq(Names) /\ At(p) \in Ats /\ At(p).block \in Headers(fs)
<1>1. fs \in Images /\ EntriesOK(fs) /\ ParentsOK(fs) /\ ReachOK(fs)
  BY DEF IInv, ImageOK, TypesOK
<1>2. \A p \in Paths : p \in Seq(Names)
  BY PathsAre
<1>3. \A p \in Found : p \in Seq(Names) /\ At(p) \in Ats /\ At(p).block \in Headers(fs)
  BY <1>1, <1>2, LookupIs DEF Found, At
<1>4. \A e \in Headers(fs) : e \in Entities
  BY <1>1 DEF ReachOK, Entities, Found, At
<1> QED
  BY <1>3, <1>4 DEF Entities

LEMMA FreeBlocksAre ==
  ASSUME NEW S, ImageOK(S)
  PROVE  /\ Nodes(S, S.freelist) \in Seq(Blocks)
         /\ Len(Nodes(S, S.freelist)) = S.freeblks + 1
         /\ S.freeblks + 1 <= NBlocks
         /\ \A b : b \in Range(Nodes(S, S.freelist)) <=> b \in FreeOnes(S)
<1>1. PICK fl : FreeChain(S, fl)
  BY DEF ImageOK, FreeOK
<1>2. Nodes(S, S.freelist) = fl
  BY <1>1, NodesOfLinking DEF FreeChain
<1>3. Len(fl) <= NBlocks
  BY <1>1, DistinctFits DEF FreeChain, Linking
<1> QED
  BY <1>1, <1>2, <1>3 DEF FreeChain, Linking

\* BlocksOf, of an entity, is BlocksIn without repetition.
LEMMA BlocksOfIs ==
  ASSUME IInv, NEW e \in Headers(fs)
  PROVE  /\ IsInjective(BlocksOf(e))
         /\ \A b : b \in Range(BlocksOf(e)) <=> b \in BlocksIn(fs, e)
<1> DEFINE ns == Nodes(fs, e)
           m == fs.disk[e].meta
           data == IF IsRegular(e) THEN LinksOf(fs, ns) ELSE <<>>
<1>1. ImageOK(fs) /\ fs \in Images
  BY DEF IInv, ImageOK, TypesOK
<1>2. IsRegular(e) <=> e \in Files(fs)
  BY DEF IsRegular, Headers, Dirs, Files
<1>3. ns \in Seq(Blocks) /\ Distinct(ns)
  BY <1>1, NodesAre DEF Linking
<1>4. m \in Blocks /\ m \in InfoBlocks(fs)
  BY <1>1 DEF ImageOK, MetasOK, InfoBlocks
<1> DEFINE own == <<m>>
<1>5. own \in Seq(Blocks) /\ Distinct(own) /\ \A x : x \in Range(own) <=> x = m
  <2>1. own \in Seq(Blocks) /\ Len(own) = 1 /\ own[1] = m
    BY <1>4
  <2> HIDE DEF own
  <2>2. \A x : x \in Range(own) <=> \E i \in 1..Len(own) : own[i] = x
    BY <2>1, RangeIs
  <2> QED
    BY <2>1, <2>2 DEF Distinct
<1>6. /\ data \in Seq(Blocks) /\ Distinct(data)
      /\ \A x : x \in Range(data) <=> (e \in Files(fs) /\ x \in Range(LinksOf(fs, ns)))
  <2>1. CASE e \in Files(fs)
    <3>1. data = LinksOf(fs, ns)
      BY <1>2, <2>1
    <3>2. LinksOf(fs, ns) \in Seq(Blocks) /\ Distinct(LinksOf(fs, ns))
      BY <1>1, <2>1, FileIs
    <3> QED
      BY <2>1, <3>1, <3>2
  <2>2. CASE e \notin Files(fs)
    <3>1. data = <<>>
      BY <1>2, <2>2
    <3>2. <<>> \in Seq(Blocks) /\ Len(<<>>) = 0
      BY EmptySeq
    <3>3. \A x : x \notin Range(<<>>)
      BY DEF Range
    <3>4. Distinct(<<>>)
      BY <3>2 DEF Distinct
    <3> QED
      BY <2>2, <3>1, <3>2, <3>3, <3>4
  <2> QED
    BY <2>1, <2>2
<1>7. BlocksOf(e) = (ns \o own) \o data
  BY DEF BlocksOf
<1>8. \A x \in Range(ns) : x \in Headers(fs) \cup Children(fs)
  BY <1>1, <1>3, RangeIs, NodesAre
<1>9. \A x \in Range(data) : x \in DataBlocks(fs)
  BY <1>1, <1>6, FileIs
<1>10. /\ InfoBlocks(fs) \cap DataBlocks(fs) = {}
       /\ InfoBlocks(fs) \cap (Headers(fs) \cup Children(fs)) = {}
       /\ DataBlocks(fs) \cap (Headers(fs) \cup Children(fs)) = {}
  BY DEF InfoBlocks, DataBlocks, Headers, Dirs, Files, Children
<1> HIDE DEF ns, m, own, data
<1>11. /\ ns \o own \in Seq(Blocks) /\ Distinct(ns \o own)
       /\ Range(ns \o own) = Range(ns) \cup Range(own)
  <2>1. Range(ns) \cap Range(own) = {}
    BY <1>4, <1>5, <1>8, <1>10
  <2>2. Distinct(ns \o own)
    BY <1>3, <1>5, <2>1, DistinctConcat
  <2>3. ns \o own \in Seq(Blocks)
    BY <1>3, <1>5, ConcatProperties
  <2>4. Range(ns \o own) = Range(ns) \cup Range(own)
    BY <1>3, <1>5, RangeConcatenation
  <2> QED
    BY <2>2, <2>3, <2>4
<1>12. /\ BlocksOf(e) \in Seq(Blocks) /\ Distinct(BlocksOf(e))
       /\ Range(BlocksOf(e)) = Range(ns \o own) \cup Range(data)
  <2>1. Range(ns \o own) \cap Range(data) = {}
    BY <1>4, <1>5, <1>8, <1>9, <1>10, <1>11
  <2> DEFINE s == ns \o own
  <2>2. s \in Seq(Blocks) /\ Distinct(s) /\ Range(s) \cap Range(data) = {} /\ BlocksOf(e) = s \o data
    BY <1>7, <1>11, <2>1
  <2> HIDE DEF s
  <2>3. Distinct(s \o data)
    BY <1>6, <2>2, DistinctConcat
  <2>4. s \o data \in Seq(Blocks)
    BY <1>6, <2>2, ConcatProperties
  <2>5. Range(s \o data) = Range(s) \cup Range(data)
    BY <1>6, <2>2, RangeConcatenation
  <2> QED
    BY <2>2, <2>3, <2>4, <2>5 DEF s
<1>13. IsInjective(BlocksOf(e))
  BY <1>12, DistinctIsInjective
<1>14. \A b : b \in Range(BlocksOf(e)) <=> b \in BlocksIn(fs, e)
  BY <1>5, <1>6, <1>11, <1>12 DEF BlocksIn, ns, m
<1> QED
  BY <1>13, <1>14

LEMMA IInvPartitions == IInv => BlocksArePartitioned
<1> SUFFICES ASSUME IInv PROVE BlocksArePartitioned
  OBVIOUS
<1>1. ImageOK(fs) /\ Entities = Headers(fs)
  BY EntitiesAre DEF IInv
<1>2. \A b : b \in Range(FreeBlocks) <=> b \in FreeOnes(fs)
  BY <1>1, FreeBlocksAre DEF FreeBlocks
<1>3. \A e \in Entities : IsInjective(BlocksOf(e))
  BY <1>1, BlocksOfIs
<1>4. \A e \in Entities : \A b : b \in Range(BlocksOf(e)) <=> b \in BlocksIn(fs, e)
  BY <1>1, BlocksOfIs
<1>5. \A e, f \in Entities : e # f => Range(BlocksOf(e)) \cap Range(BlocksOf(f)) = {}
  BY <1>1, <1>4, BlocksInAreOwn
<1>6. \A e \in Entities : Range(BlocksOf(e)) \cap Range(FreeBlocks) = {}
  BY <1>1, <1>2, <1>4, BlocksInAre
<1>7. Blocks = {0} \cup Range(FreeBlocks) \cup UNION {Range(BlocksOf(e)) : e \in Entities}
  <2>1. 0 \in Blocks
    BY FormatAssumption DEF Blocks
  <2>2. \A b \in Range(FreeBlocks) : b \in Blocks
    BY <1>2 DEF FreeOnes
  <2>3. \A e \in Entities : \A b \in Range(BlocksOf(e)) : b \in Blocks
    BY <1>1, <1>4, BlocksInAre
  <2>4. \A b \in Blocks : b = 0 \/ b \in Range(FreeBlocks)
                          \/ \E e \in Entities : b \in Range(BlocksOf(e))
    BY <1>1, <1>2, <1>4, BlocksInAreAll
  <2> QED
    BY <2>1, <2>2, <2>3, <2>4
<1> QED
  BY <1>3, <1>5, <1>6, <1>7 DEF BlocksArePartitioned

LEMMA IInvTypes == IInv => TypeOK
<1> SUFFICES ASSUME IInv PROVE TypeOK
  OBVIOUS
<1>1. ImageOK(fs) /\ TypesOK(fs) /\ fs \in Images /\ SuperOK(fs)
  BY DEF IInv, ImageOK, TypesOK
<1>2. fs.freelist \in Blocks /\ fs.freeblks \in 0..NBlocks /\ DOMAIN fs.disk = Blocks /\ fs.disk[0] = Super
  <2>1. fs.freeblks \in Nat /\ fs.freeblks + 1 <= NBlocks /\ NBlocks \in Nat
    BY <1>1, FreeBlocksAre, FormatAssumption DEF Images
  <2> QED
    BY <1>1, <2>1 DEF Images, SuperOK
<1>3. ASSUME NEW b \in Blocks \ {0}
      PROVE  \/ fs.disk[b] \in [kind : {"free"}, next : Blocks]
             \/ fs.disk[b].kind = "info" /\ fs.disk[b].size \in Nat /\ fs.disk[b].name \in Names \cup {"/"}
             \/ fs.disk[b].kind = "data" /\ Len(fs.disk[b].bytes) \in 1..BlkSz
             \/ /\ fs.disk[b].kind = "inode" /\ fs.disk[b].mode \in {"DIR", "REG", "CHILD"}
                /\ {fs.disk[b].parent, fs.disk[b].meta, fs.disk[b].next} \cup Range(fs.disk[b].links)
                     \subseteq Blocks
                /\ Len(fs.disk[b].links) <= MaxLinks
  <2>1. fs.disk[b] \in Structs /\ fs.disk[b].kind \in {"free", "info", "data", "inode"}
    BY <1>1, BlockIs, StructIs DEF SuperOK
  <2>2. CASE fs.disk[b].kind = "free"
    BY <2>1, <2>2, StructIs DEF Pages
  <2>3. CASE fs.disk[b].kind = "info"
    BY <2>1, <2>3, StructIs DEF Infos
  <2>4. CASE fs.disk[b].kind = "data"
    BY <1>1, <2>4 DEF TypesOK, DataBlocks
  <2>5. CASE fs.disk[b].kind = "inode"
    <3>1. fs.disk[b] \in INodes
      BY <2>1, <2>5, StructIs
    <3>2. b \in Headers(fs) \cup Children(fs)
      BY <2>5, <3>1 DEF Headers, Dirs, Files, Children, INodes
    <3>3. fs.disk[b].links \in Seq(Blocks)
      BY <3>1 DEF INodes
    <3>4. Range(fs.disk[b].links) \subseteq Blocks
      BY <3>3, RangeIs
    <3> QED
      BY <1>1, <2>5, <3>1, <3>2, <3>4 DEF TypesOK, INodes
  <2> QED
    BY <2>1, <2>2, <2>3, <2>4, <2>5
<1> QED
  BY <1>2, <1>3 DEF TypeOK

LEMMA DirLinks ==
  ASSUME NEW S, ImageOK(S), NEW d \in Dirs(S)
  PROVE  /\ LinksOf(S, Nodes(S, d)) = S.disk[d].links
         /\ S.disk[d].links \in Seq(Blocks)
<1>1. Nodes(S, d) = <<d>> /\ d \in Headers(S)
  BY NodesAre DEF Headers
<1>2. [k \in DOMAIN <<d>> |-> S.disk[<<d>>[k]].links] = <<S.disk[d].links>>
  OBVIOUS
<1>3. S.disk[d].links \in Seq(Blocks)
  BY <1>1, BlockIs DEF ImageOK, TypesOK, INodes
<1>4. <<S.disk[d].links>> = Append(<<>>, S.disk[d].links) /\ <<>> \in Seq(Seq(Blocks))
  OBVIOUS
<1>5. FlattenSeq(<<S.disk[d].links>>) = <<>> \o S.disk[d].links
  BY <1>3, <1>4, FlattenAppend, FlattenNone
<1>6. <<>> \o S.disk[d].links = S.disk[d].links
  BY <1>3, ConcatEmptySeq
<1> QED
  BY <1>1, <1>2, <1>3, <1>5, <1>6 DEF LinksOf

LEMMA IInvLinks == IInv => InodesAreLinked
<1> SUFFICES ASSUME IInv, NEW e \in Headers(fs)
             PROVE  LET nodes == Nodes(fs, e)
                        links == LinksOf(fs, nodes)
                    IN
                    /\ e \in Range(fs.disk[fs.disk[e].parent].links) \/ e = root
                    /\ \A k \in 2..Len(nodes) :
                         /\ fs.disk[nodes[k]].mode = "CHILD"
                         /\ fs.disk[nodes[k]].parent = e
                         /\ fs.disk[nodes[k]].meta = nodes[k - 1]
                         /\ Len(fs.disk[nodes[k - 1]].links) = MaxLinks
                         /\ fs.disk[nodes[k]].links # <<>>
                    /\ InfoOf(fs, e).size =
                         IF IsRegular(e) THEN Bytes(fs, links) ELSE Len(links)
  BY EntitiesAre DEF InodesAreLinked
<1>1. ImageOK(fs)
  BY DEF IInv
<1>2. e \in Range(fs.disk[fs.disk[e].parent].links) \/ e = root
  BY <1>1 DEF ImageOK, ParentsOK
<1>3. CASE e \in Files(fs)
  <2>1. Chained(fs, e, Nodes(fs, e)) /\ IsRegular(e)
    BY <1>1, <1>3 DEF ImageOK, ChainsOK, Files, IsRegular
  <2>2. InfoOf(fs, e).size = Bytes(fs, LinksOf(fs, Nodes(fs, e)))
    BY <1>1, <1>3 DEF ImageOK, SizesOK
  <2> QED
    BY <1>2, <2>1, <2>2 DEF Chained, Children
<1>4. CASE e \in Dirs(fs)
  <2>1. Nodes(fs, e) = <<e>> /\ ~IsRegular(e)
    BY <1>1, <1>4, NodesAre DEF Dirs, IsRegular
  <2>2. Len(<<e>>) = 1 /\ <<e>>[1] = e
    OBVIOUS
  <2>3. LinksOf(fs, Nodes(fs, e)) = fs.disk[e].links
    BY <1>1, <1>4, DirLinks
  <2>4. InfoOf(fs, e).size = Len(fs.disk[e].links)
    BY <1>1, <1>4 DEF ImageOK, SizesOK
  <2> QED
    BY <1>2, <2>1, <2>2, <2>3, <2>4
<1> QED
  BY <1>3, <1>4 DEF Headers

LEMMA IInvLists == IInv => ListsWhatIsThere
<1> SUFFICES ASSUME IInv, NEW p \in Found, IsDir(p)
             PROVE  LET list == fs_list_dir(fs, At(p).block) IN
                    /\ IsInjective(list)
                    /\ Len(p) < MaxDepth =>
                         Range(list) = {<<n, IsDir(Append(p, n))>> :
                                          n \in {m \in Names : Append(p, m) \in Found}}
  BY DEF ListsWhatIsThere
<1> DEFINE d == At(p).block
           links == fs.disk[d].links
           list == fs_list_dir(fs, d)
<1>1. ImageOK(fs) /\ EntriesOK(fs) /\ ParentsOK(fs) /\ fs \in Images
  BY DEF IInv, ImageOK, TypesOK
<1>2. p \in Seq(Names) /\ At(p) \in Ats /\ d \in Headers(fs) /\ At(p).full_match
  BY EntitiesAre DEF IsDir
<1>3. \A e \in Headers(fs) : e \in Dirs(fs) <=> fs.disk[e].mode = "DIR"
  BY DEF Headers, Dirs, Files
<1>4. d \in Dirs(fs)
  BY <1>2, <1>3 DEF IsDir
<1>5. LinksOf(fs, Nodes(fs, d)) = links /\ links \in Seq(Blocks) /\ DOMAIN links = 1..Len(links)
  BY <1>1, <1>4, DirLinks, LenProperties
<1>6. list = [i \in 1..Len(links) |-> <<NameOf(fs, links[i]), fs.disk[links[i]].mode = "DIR">>]
  BY <1>5 DEF fs_list_dir, NameOf
<1> HIDE DEF list
<1>7. \A i \in 1..Len(links) :
        /\ links[i] \in Headers(fs) /\ NameOf(fs, links[i]) \in Names
        /\ IsEntry(fs, d, NameOf(fs, links[i]), links[i])
        /\ \A j \in 1..Len(links) : NameOf(fs, links[i]) = NameOf(fs, links[j]) => i = j
  <2> TAKE i \in 1..Len(links)
  <2>1. links[i] \in Range(links)
    BY <1>5, RangeIs
  <2> QED
    BY <1>1, <1>4, <2>1 DEF EntriesOK, IsEntry
<1>8. IsInjective(list)
  <2> SUFFICES ASSUME NEW i \in 1..Len(links), NEW j \in 1..Len(links), list[i] = list[j]
               PROVE  i = j
    BY <1>6, ZenonT(40) DEF IsInjective
  <2>1. NameOf(fs, links[i]) = NameOf(fs, links[j])
    BY <1>6, Zenon
  <2> QED
    BY <1>7, <2>1
<1>9. \A n \in Names : /\ At(Append(p, n)) = Descend(fs, At(p), n)
                       /\ Append(p, n) \in Seq(Names) /\ Len(Append(p, n)) = Len(p) + 1
  BY <1>2, LookupAppend, AppendProperties DEF At
<1>10. ASSUME Len(p) < MaxDepth
       PROVE  Range(list) = {<<n, IsDir(Append(p, n))>> :
                               n \in {m \in Names : Append(p, m) \in Found}}
  <2>1. \A n \in Names : Append(p, n) \in Paths
    <3> TAKE n \in Names
    <3> DEFINE q == Append(p, n)
    <3>1. Len(p) \in Nat /\ MaxDepth \in Nat
      BY <1>2, LenProperties, CallersAssumption
    <3>2. q \in Seq(Names) /\ Len(q) = Len(p) + 1
      BY <1>9
    <3> HIDE DEF q
    <3>3. Len(q) <= MaxDepth
      BY <1>10, <3>1, <3>2
    <3>4. q \in Paths
      BY <3>2, <3>3, PathsAre
    <3> QED
      BY <3>4 DEF q
  <2>2. ASSUME NEW i \in 1..Len(links)
        PROVE  LET n == NameOf(fs, links[i]) IN
               /\ n \in Names /\ Append(p, n) \in Found
               /\ IsDir(Append(p, n)) = (fs.disk[links[i]].mode = "DIR")
    <3> DEFINE n == NameOf(fs, links[i])
               r == At(Append(p, n))
    <3>1. n \in Names /\ IsEntry(fs, d, n, links[i])
      BY <1>7
    <3>2. r = Descend(fs, At(p), n)
      BY <1>9, <3>1
    <3> HIDE DEF r
    <3>3. r \in Ats
      BY <1>1, <1>2, <3>1, <3>2, DescendIs
    <3>9. At(p).full_match /\ ~r.full_match => \A e : ~IsEntry(fs, d, n, e)
      BY <1>1, <1>2, <3>1, <3>2, DescendIs
    <3>4. r.full_match
      BY <1>2, <3>1, <3>3, <3>9 DEF Ats
    <3>5. IsEntry(fs, d, n, r.block)
      BY <1>1, <1>2, <3>1, <3>2, <3>4, DescendIs
    <3>6. r.block = links[i]
      BY <1>1, <3>1, <3>5, EntryIs
    <3>7. Append(p, n) \in Found
      BY <2>1, <3>1, <3>4 DEF Found, r
    <3>8. IsDir(Append(p, n)) = (fs.disk[links[i]].mode = "DIR")
      BY <3>4, <3>6 DEF IsDir, r
    <3> QED
      BY <3>1, <3>7, <3>8
  <2>3. ASSUME NEW n \in Names, Append(p, n) \in Found
        PROVE  \E i \in 1..Len(links) : list[i] = <<n, IsDir(Append(p, n))>>
    <3>1. At(Append(p, n)).full_match
      BY <2>3 DEF Found
    <3>2. IsEntry(fs, d, n, At(Append(p, n)).block)
      BY <1>1, <1>2, <1>9, <3>1, DescendIs
    <3>3. PICK i \in 1..Len(links) : links[i] = At(Append(p, n)).block
      BY <1>5, <3>2, RangeIs DEF IsEntry
    <3>4. NameOf(fs, links[i]) = n
      BY <3>2, <3>3 DEF IsEntry
    <3>5. IsDir(Append(p, n)) = (fs.disk[links[i]].mode = "DIR")
      BY <3>1, <3>3 DEF IsDir
    <3>6. list[i] = <<NameOf(fs, links[i]), fs.disk[links[i]].mode = "DIR">>
      BY <1>6, ZenonT(40)
    <3> QED
      BY <3>4, <3>5, <3>6, Zenon
  <2>4. \A x : x \in Range(list) <=> \E i \in 1..Len(links) : list[i] = x
    BY <1>6, Zenon DEF Range
  <2>5. \A i \in 1..Len(links) :
          list[i] = <<NameOf(fs, links[i]), IsDir(Append(p, NameOf(fs, links[i])))>>
    <3> TAKE i \in 1..Len(links)
    <3>1. list[i] = <<NameOf(fs, links[i]), fs.disk[links[i]].mode = "DIR">>
      BY <1>6, Zenon
    <3>2. IsDir(Append(p, NameOf(fs, links[i]))) = (fs.disk[links[i]].mode = "DIR")
      BY <2>2
    <3> QED
      BY <3>1, <3>2
  <2> DEFINE R == {<<n, IsDir(Append(p, n))>> : n \in {m \in Names : Append(p, m) \in Found}}
  <2>6. \A x \in Range(list) : x \in R
    <3> TAKE x \in Range(list)
    <3>1. PICK i \in 1..Len(links) : list[i] = x
      BY <2>4
    <3> DEFINE n == NameOf(fs, links[i])
    <3>2. n \in Names /\ Append(p, n) \in Found /\ x = <<n, IsDir(Append(p, n))>>
      BY <2>2, <2>5, <3>1
    <3> HIDE DEF n
    <3> QED
      BY <3>2
  <2>7. \A x \in R : x \in Range(list)
    BY <2>3, <2>4
  <2> QED
    BY <2>6, <2>7
<1> QED
  BY <1>8, <1>10 DEF list

-----------------------------------------------------------------------------
(* fs_format *)

LEMMA InitKeeps == Init => IInv
<1> SUFFICES ASSUME Init PROVE ImageOK(fs)
  BY DEF IInv
<1> DEFINE Later == 3..(NBlocks - 1)
<1>1. NBlocks \in Nat /\ NBlocks > 3 /\ BlkSz \in Nat \ {0} /\ MaxLinks \in Nat \ {0}
  BY FormatAssumption
<1>2. /\ Blocks = {0, 1, 2} \cup Later /\ 0 \in Blocks /\ 1 \in Blocks /\ 2 \in Blocks
      /\ 0 \notin Later /\ 1 \notin Later /\ 2 \notin Later /\ 3 \in Later /\ 3 \in Blocks
      /\ Later \subseteq Nat
  BY <1>1 DEF Blocks
<1>3. /\ fs.freelist = 3 /\ fs.freeblks = NBlocks - 4
      /\ fs = [freelist |-> fs.freelist, freeblks |-> fs.freeblks, disk |-> fs.disk]
      /\ fs.disk = [b \in Blocks |->
             CASE b = 0 -> Super
               [] b = root -> INode("DIR", root, 2, <<>>)
               [] b = 2 -> NodeInfo(0, "/")
               [] OTHER -> FreePage(IF b + 1 = NBlocks THEN 0 ELSE b + 1)]
  BY DEF Init
<1>4. /\ fs.disk[0] = Super
      /\ fs.disk[1] = INode("DIR", 1, 2, <<>>)
      /\ fs.disk[2] = NodeInfo(0, "/")
      /\ \A b \in Later : fs.disk[b] = FreePage(IF b + 1 = NBlocks THEN 0 ELSE b + 1)
  BY <1>2, <1>3 DEF root
<1>5. \A b \in Later : (IF b + 1 = NBlocks THEN 0 ELSE b + 1) \in Blocks
  BY <1>1 DEF Blocks
<1>6. /\ fs.disk[0].kind = "super"
      /\ fs.disk[1] \in INodes /\ fs.disk[1].kind = "inode" /\ fs.disk[1].mode = "DIR"
      /\ fs.disk[1].parent = 1 /\ fs.disk[1].meta = 2 /\ fs.disk[1].next = 0 /\ fs.disk[1].links = <<>>
      /\ fs.disk[2] \in Infos /\ fs.disk[2].kind = "info" /\ fs.disk[2].size = 0
      /\ \A b \in Later : fs.disk[b] \in Pages /\ fs.disk[b].kind = "free"
      /\ \A b \in Later : fs.disk[b].next = IF b + 1 = NBlocks THEN 0 ELSE b + 1
  <2>1. <<>> \in Seq(Blocks)
    BY EmptySeq
  <2>2. /\ fs.disk[1] \in INodes /\ fs.disk[1].kind = "inode" /\ fs.disk[1].mode = "DIR"
        /\ fs.disk[1].parent = 1 /\ fs.disk[1].meta = 2 /\ fs.disk[1].next = 0 /\ fs.disk[1].links = <<>>
    BY <1>2, <1>4, <2>1 DEF INode, INodes
  <2>3. fs.disk[2] \in Infos /\ fs.disk[2].kind = "info" /\ fs.disk[2].size = 0
    BY <1>4 DEF NodeInfo, Infos
  <2>4. ASSUME NEW b \in Later
        PROVE  /\ fs.disk[b] \in Pages /\ fs.disk[b].kind = "free"
               /\ fs.disk[b].next = IF b + 1 = NBlocks THEN 0 ELSE b + 1
    <3> DEFINE nx == IF b + 1 = NBlocks THEN 0 ELSE b + 1
    <3>1. nx \in Blocks /\ fs.disk[b] = FreePage(nx)
      BY <1>4, <1>5
    <3> HIDE DEF nx
    <3>2. fs.disk[b] \in Pages /\ fs.disk[b].kind = "free" /\ fs.disk[b].next = nx
      BY <3>1 DEF FreePage, Pages
    <3> QED
      BY <3>2 DEF nx
  <2>5. fs.disk[0].kind = "super"
    BY <1>4 DEF Super
  <2> QED
    BY <2>2, <2>3, <2>4, <2>5
<1>7. /\ Dirs(fs) = {1} /\ Files(fs) = {} /\ Children(fs) = {} /\ Headers(fs) = {1} /\ Holders(fs) = {}
      /\ InfoBlocks(fs) = {2} /\ DataBlocks(fs) = {} /\ FreeOnes(fs) = Later
  BY <1>2, <1>6 DEF Dirs, Files, Children, Headers, Holders, InfoBlocks, DataBlocks, FreeOnes
<1>8. Len(<<>>) = 0 /\ \A i \in 1..0 : FALSE
  OBVIOUS
<1>9. TypesOK(fs)
  <2>1. fs.disk \in [Blocks -> Structs]
    BY <1>2, <1>3, <1>4, <1>6 DEF Structs
  <2>2. fs \in Images
    <3>1. fs.freeblks \in Nat
      BY <1>1, <1>3
    <3> QED
      BY <1>2, <1>3, <2>1, <3>1 DEF Images
  <2>3. SuperOK(fs)
    BY <1>2, <1>4, <1>6 DEF SuperOK
  <2> QED
    BY <1>1, <1>6, <1>7, <1>8, <2>2, <2>3 DEF TypesOK
<1>10. FreeOK(fs)
  <2> DEFINE fl == [k \in 1..(NBlocks - 3) |-> k + 2]
  <2>1. \A k \in 1..(NBlocks - 3) : k + 2 \in Later /\ k + 2 \in Blocks
    BY <1>1 DEF Blocks
  <2>2. fl \in [1..(NBlocks - 3) -> Blocks] /\ NBlocks - 3 \in Nat
    BY <1>1, <2>1
  <2>3. fl \in Seq(Blocks)
    BY <2>2, SeqDef
  <2>4. \A k \in 1..(NBlocks - 3) : fl[k] = k + 2
    OBVIOUS
  <2> HIDE DEF fl
  <2>5. Len(fl) = NBlocks - 3
    BY <2>2, <2>3, LenProperties, SameInterval
  <2>6. Distinct(fl)
    <3> SUFFICES ASSUME NEW i \in 1..(NBlocks - 3), NEW j \in 1..(NBlocks - 3), fl[i] = fl[j]
                 PROVE  i = j
      BY <2>5 DEF Distinct
    <3>1. i + 2 = j + 2
      BY <2>4
    <3> QED
      BY <1>1, <3>1
  <2>7. \A k \in 1..(NBlocks - 3) : fs.disk[fl[k]].next = IF k + 2 + 1 = NBlocks THEN 0 ELSE k + 2 + 1
    BY <1>6, <2>1, <2>4
  <2>8. \A k \in 1..(NBlocks - 3 - 1) : fs.disk[fl[k]].next = fl[k + 1] /\ fl[k + 1] # 0
    <3> TAKE k \in 1..(NBlocks - 3 - 1)
    <3>1. /\ k \in 1..(NBlocks - 3) /\ k + 1 \in 1..(NBlocks - 3) /\ k + 2 + 1 # NBlocks
          /\ k + 1 + 2 = k + 2 + 1 /\ k + 1 + 2 # 0
      BY <1>1
    <3> QED
      BY <2>4, <2>7, <3>1
  <2>9. fs.disk[fl[NBlocks - 3]].next = 0
    <3>1. NBlocks - 3 \in 1..(NBlocks - 3) /\ NBlocks - 3 + 2 + 1 = NBlocks
      BY <1>1
    <3> QED
      BY <2>7, <3>1
  <2>10. fl[1] = 3
    <3>1. 1 \in 1..(NBlocks - 3)
      BY <1>1
    <3> QED
      BY <2>4, <3>1
  <2>11. \A b : b \in Range(fl) <=> b \in Later
    <3> TAKE b
    <3>1. b \in Range(fl) <=> \E k \in 1..(NBlocks - 3) : fl[k] = b
      BY <2>3, <2>5, RangeIs
    <3>2. b \in Later => b - 2 \in 1..(NBlocks - 3) /\ b - 2 + 2 = b
      BY <1>1
    <3> QED
      BY <2>1, <2>4, <3>1, <3>2
  <2>12. NBlocks - 3 >= 1 /\ NBlocks - 3 = NBlocks - 4 + 1
    BY <1>1
  <2>13. Linking(fs, 3, fl)
    BY <2>3, <2>5, <2>6, <2>8, <2>9, <2>10, <2>12 DEF Linking
  <2>14. FreeChain(fs, fl)
    BY <1>3, <1>7, <2>5, <2>11, <2>12, <2>13 DEF FreeChain
  <2> QED
    BY <2>14 DEF FreeOK
<1>11. ParentsOK(fs) /\ EntriesOK(fs) /\ MetasOK(fs)
  BY <1>6, <1>7, <1>8 DEF ParentsOK, EntriesOK, MetasOK, root
<1>12. ReachOK(fs)
  <2>1. <<>> \in Paths /\ get_inode_block(fs, <<>>) = Start
    BY PathsAre, LookupNone
  <2> QED
    BY <1>7, <2>1 DEF ReachOK, Start, root
<1>13. ChainsOK(fs) /\ DataOK(fs)
  BY <1>7 DEF ChainsOK, DataOK
<1>14. SizesOK(fs)
  BY <1>6, <1>7, <1>8 DEF SizesOK, InfoOf
<1> QED
  BY <1>9, <1>10, <1>11, <1>12, <1>13, <1>14 DEF ImageOK

-----------------------------------------------------------------------------
(* Bytes *)

LEMMA BytesAt ==
  ASSUME NEW f, NEW n \in Nat, NEW S, NEW links, Sums(f, n, S, links)
  PROVE  /\ f[0] = 0
         /\ \A k \in Nat : k + 1 \in 0..n =>
              f[k + 1] = f[k] + Len(S.disk[links[k + 1]].bytes)
<1>1. f[0] = 0
  BY DEF Sums
<1>2. ASSUME NEW k \in Nat, k + 1 \in 0..n
      PROVE  f[k + 1] = f[k] + Len(S.disk[links[k + 1]].bytes)
  <2> DEFINE j == k + 1
  <2>1. j \in 0..n /\ j # 0 /\ j - 1 = k
    BY <1>2
  <2> HIDE DEF j
  <2>2. f[j] = f[k] + Len(S.disk[links[j]].bytes)
    BY <2>1 DEF Sums
  <2> QED
    BY <2>2 DEF j
<1> QED
  BY <1>1, <1>2

\* r begins with l, and T has the data of S in those blocks.
Begins(S, l, T, r) ==
  /\ Len(l) \in Nat /\ Len(r) \in Nat /\ Len(l) <= Len(r)
  /\ \A k \in 1..Len(l) : r[k] = l[k] /\ T.disk[l[k]] = S.disk[l[k]]

LEMMA BytesBegin ==
  ASSUME NEW S, NEW T, NEW l, NEW r, Begins(S, l, T, r),
         NEW f, Sums(f, Len(l), S, l), NEW g, Sums(g, Len(r), T, r)
  PROVE  g[Len(l)] = f[Len(l)]
<1>1. Len(l) \in Nat /\ Len(r) \in Nat /\ Len(l) <= Len(r)
  BY DEF Begins
<1> DEFINE n == Len(l)
           I == {k \in Nat : k \in 0..n => g[k] = f[k]}
<1>2. 0 \in I
  BY <1>1, BytesAt
<1>3. ASSUME NEW k \in Nat, k \in I
      PROVE  k + 1 \in I
  <2> SUFFICES ASSUME k + 1 \in 0..n
               PROVE  g[k + 1] = f[k + 1]
    OBVIOUS
  <2>1. k + 1 \in 1..n /\ k \in 0..n /\ k + 1 \in 0..Len(r)
    BY <1>1
  <2>2. f[k + 1] = f[k] + Len(S.disk[l[k + 1]].bytes)
    BY <1>1, BytesAt
  <2>3. g[k + 1] = g[k] + Len(T.disk[r[k + 1]].bytes)
    BY <1>1, <2>1, BytesAt
  <2>4. g[k] = f[k]
    BY <1>3, <2>1
  <2> QED
    BY <2>1, <2>2, <2>3, <2>4 DEF Begins
<1>4. \A k \in Nat : k \in I
  <2> HIDE DEF I
  <2> QED
    BY <1>2, <1>3, NatSetInduction
<1> QED
  BY <1>1, <1>4

LEMMA BytesFrame ==
  ASSUME NEW S, NEW T, NEW A, NEW l \in Seq(A),
         \A k \in 1..Len(l) : T.disk[l[k]] = S.disk[l[k]]
  PROVE  Bytes(T, l) = Bytes(S, l)
<1>1. Len(l) \in Nat /\ Len(l) <= Len(l)
  BY LenProperties
<1>2. PICK f : Sums(f, Len(l), S, l) /\ Bytes(S, l) = f[Len(l)]
  BY <1>1, SumsReturned
<1>3. PICK g : Sums(g, Len(l), T, l) /\ Bytes(T, l) = g[Len(l)]
  BY <1>1, SumsReturned
<1>4. Begins(S, l, T, l)
  BY <1>1 DEF Begins
<1>5. g[Len(l)] = f[Len(l)]
  BY <1>2, <1>3, <1>4, BytesBegin
<1> QED
  BY <1>2, <1>3, <1>5

LEMMA BytesNone ==
  ASSUME NEW S, NEW l, Len(l) = 0
  PROVE  Bytes(S, l) = 0
<1>1. PICK f : Sums(f, Len(l), S, l) /\ Bytes(S, l) = f[Len(l)]
  BY SumsReturned
<1> QED
  BY <1>1 DEF Sums

\* One more block of data.
LEMMA BytesAppend ==
  ASSUME NEW S, NEW T, NEW A, NEW l \in Seq(A), NEW b \in A, Begins(S, l, T, l)
  PROVE  Bytes(T, Append(l, b)) = Bytes(S, l) + Len(T.disk[b].bytes)
<1> DEFINE r == Append(l, b)
           n == Len(l)
<1>1. n \in Nat /\ r \in Seq(A) /\ Len(r) = n + 1 /\ r[n + 1] = b /\ \A k \in 1..n : r[k] = l[k]
  BY LenProperties, AppendProperties
<1> HIDE DEF r
<1>2. PICK f : Sums(f, n, S, l) /\ Bytes(S, l) = f[n]
  BY <1>1, SumsReturned
<1>3. PICK g : Sums(g, Len(r), T, r) /\ Bytes(T, r) = g[Len(r)]
  <2>1. Len(r) \in Nat
    BY <1>1
  <2> QED
    BY <2>1, SumsReturned
<1>4. g[n] = f[n]
  <2>1. Begins(S, l, T, r)
    <3>1. n <= Len(r) /\ Len(r) \in Nat
      BY <1>1
    <3> QED
      BY <1>1, <3>1 DEF Begins
  <2> QED
    BY <1>2, <1>3, <2>1, BytesBegin
<1>5. g[n + 1] = g[n] + Len(T.disk[r[n + 1]].bytes)
  <2>1. Len(r) \in Nat /\ n + 1 \in 0..Len(r)
    BY <1>1
  <2> QED
    BY <1>1, <1>3, <2>1, BytesAt
<1> QED
  BY <1>1, <1>2, <1>3, <1>4, <1>5 DEF r

-----------------------------------------------------------------------------
(* Changes of one field of a struct *)

SetLinks(S, n, links) == [S EXCEPT !.disk[n].links = links]
SetNext(S, n, next) == [S EXCEPT !.disk[n].next = next]
SetSize(S, m, size) == [S EXCEPT !.disk[m].size = size]

\* y is x with these links, this next, this size.
WithLinks(x, links, y) ==
  /\ y \in INodes /\ y.mode = x.mode /\ y.parent = x.parent /\ y.meta = x.meta /\ y.next = x.next
  /\ y.links = links
WithNext(x, next, y) ==
  /\ y \in INodes /\ y.mode = x.mode /\ y.parent = x.parent /\ y.meta = x.meta /\ y.links = x.links
  /\ y.next = next
WithSize(x, size, y) == y \in Infos /\ y.name = x.name /\ y.size = size

\* T is S but for block b.
But(S, T, b) ==
  /\ T \in Images /\ T.freelist = S.freelist /\ T.freeblks = S.freeblks
  /\ \A a \in Blocks : a # b => T.disk[a] = S.disk[a]

LEMMA SetLinksIs ==
  ASSUME NEW S \in Images, NEW n \in Blocks, S.disk[n] \in INodes, NEW l \in Seq(Blocks)
  PROVE  But(S, SetLinks(S, n, l), n) /\ WithLinks(S.disk[n], l, SetLinks(S, n, l).disk[n])
<1> DEFINE x == [S.disk[n] EXCEPT !.links = l]
<1>1. SetLinks(S, n, l) = Save(S, n, x)
  BY DEF SetLinks, Save
<1>2. WithLinks(S.disk[n], l, x)
  BY DEF INodes, WithLinks
<1> HIDE DEF x
<1>3. x \in Structs
  BY <1>2 DEF WithLinks, Structs
<1> QED
  BY <1>1, <1>2, <1>3, SaveImage DEF But

LEMMA SetNextIs ==
  ASSUME NEW S \in Images, NEW n \in Blocks, S.disk[n] \in INodes, NEW next \in Blocks
  PROVE  But(S, SetNext(S, n, next), n) /\ WithNext(S.disk[n], next, SetNext(S, n, next).disk[n])
<1> DEFINE x == [S.disk[n] EXCEPT !.next = next]
<1>1. SetNext(S, n, next) = Save(S, n, x)
  BY DEF SetNext, Save
<1>2. WithNext(S.disk[n], next, x)
  BY DEF INodes, WithNext
<1> HIDE DEF x
<1>3. x \in Structs
  BY <1>2 DEF WithNext, Structs
<1> QED
  BY <1>1, <1>2, <1>3, SaveImage DEF But

LEMMA SetSizeIs ==
  ASSUME NEW S \in Images, NEW m \in Blocks, S.disk[m] \in Infos, NEW size \in Nat
  PROVE  But(S, SetSize(S, m, size), m) /\ WithSize(S.disk[m], size, SetSize(S, m, size).disk[m])
<1> DEFINE x == [S.disk[m] EXCEPT !.size = size]
<1>1. SetSize(S, m, size) = Save(S, m, x)
  BY DEF SetSize, Save
<1>2. WithSize(S.disk[m], size, x)
  BY DEF Infos, WithSize
<1> HIDE DEF x
<1>3. x \in Structs
  BY <1>2 DEF WithSize, Structs
<1> QED
  BY <1>1, <1>2, <1>3, SaveImage DEF But

LEMMA KindsWith ==
  ASSUME NEW x, NEW y, NEW v
  PROVE  /\ WithLinks(x, v, y) => y.kind = "inode"
         /\ WithNext(x, v, y) => y.kind = "inode"
         /\ WithSize(x, v, y) => y.kind = "info"
BY DEF WithLinks, WithNext, WithSize, INodes, Infos

\* What does not touch a free block or the superblock leaves them in order.
LEMMA FreeStays ==
  ASSUME NEW S, S \in Images, SuperOK(S), FreeOK(S), NEW T, T \in Images,
         T.freelist = S.freelist, T.freeblks = S.freeblks,
         \A a \in Blocks : \/ T.disk[a] = S.disk[a]
                           \/ /\ T.disk[a].kind = S.disk[a].kind
                              /\ S.disk[a].kind \notin {"free", "super"}
  PROVE  SuperOK(T) /\ FreeOK(T)
<1>1. PICK fl : FreeChain(S, fl)
  BY DEF FreeOK
<1>2. FreeOnes(T) = FreeOnes(S)
  BY DEF FreeOnes
<1>3. \A b \in FreeOnes(S) : T.disk[b] = S.disk[b]
  BY DEF FreeOnes
<1>4. FreeChain(T, fl)
  BY <1>1, <1>2, <1>3, FreeFrame
<1>5. SuperOK(T)
  <2>1. 0 \in Blocks
    BY FormatAssumption DEF Blocks
  <2>2. S.disk[0].kind = "super"
    BY DEF SuperOK, Super
  <2> QED
    BY <2>1, <2>2 DEF SuperOK
<1> QED
  BY <1>4, <1>5 DEF FreeOK

\* T is S with links l in inode n and size in nodeinfo m.
Relinked(S, T, n, l, m, size) ==
  /\ T \in Images /\ SuperOK(T) /\ FreeOK(T) /\ T.freeblks = S.freeblks
  /\ \A a \in Blocks : a # n /\ a # m => T.disk[a] = S.disk[a]
  /\ WithLinks(S.disk[n], l, T.disk[n])
  /\ WithSize(S.disk[m], size, T.disk[m])

LEMMA LinksAndSize ==
  ASSUME NEW S, S \in Images, SuperOK(S), FreeOK(S),
         NEW n \in Blocks, S.disk[n] \in INodes, NEW l \in Seq(Blocks),
         NEW m \in Blocks, S.disk[m] \in Infos, NEW size \in Nat
  PROVE  Relinked(S, SetSize(SetLinks(S, n, l), m, size), n, l, m, size)
<1> DEFINE S1 == SetLinks(S, n, l)
           T == SetSize(S1, m, size)
<1>1. But(S, S1, n) /\ WithLinks(S.disk[n], l, S1.disk[n])
  BY SetLinksIs
<1>2. S.disk[n].kind = "inode" /\ S.disk[m].kind = "info" /\ n # m
  BY DEF INodes, Infos
<1> HIDE DEF S1
<1>3. S1.disk[m] = S.disk[m] /\ S1 \in Images
  BY <1>1, <1>2 DEF But
<1>4. But(S1, T, m) /\ WithSize(S1.disk[m], size, T.disk[m])
  BY <1>3, SetSizeIs
<1> HIDE DEF T
<1>5. /\ T \in Images /\ T.freelist = S.freelist /\ T.freeblks = S.freeblks
      /\ T.disk[n] = S1.disk[n]
      /\ \A a \in Blocks : a # n /\ a # m => T.disk[a] = S.disk[a]
  BY <1>1, <1>2, <1>4 DEF But
<1>6. WithLinks(S.disk[n], l, T.disk[n]) /\ WithSize(S.disk[m], size, T.disk[m])
  BY <1>1, <1>3, <1>4, <1>5
<1>7. T.disk[n].kind = "inode" /\ T.disk[m].kind = "info"
  BY <1>6 DEF WithLinks, WithSize, INodes, Infos
<1>8. SuperOK(T) /\ FreeOK(T)
  BY <1>2, <1>5, <1>7, FreeStays
<1> QED
  BY <1>5, <1>6, <1>8 DEF Relinked, S1, T

\* link_node_to_nodelist in a directory whose inode has space: one more link,
\* and one more in size.
LEMMA LinkInDir ==
  ASSUME NEW S, S \in Images, SuperOK(S), FreeOK(S),
         NEW d, d \in Dirs(S), S.disk[d].next = 0, S.disk[d].meta \in InfoBlocks(S),
         Len(S.disk[d].links) < MaxLinks, NEW b \in Blocks, b # 0, NEW nbytes,
         NEW T, T = link_node_to_nodelist(S, d, b, nbytes), NEW m, m = S.disk[d].meta
  PROVE  /\ T \in Images /\ SuperOK(T) /\ FreeOK(T) /\ T.freeblks = S.freeblks
         /\ \A a \in Blocks : a # d /\ a # m => T.disk[a] = S.disk[a]
         /\ WithLinks(S.disk[d], Append(S.disk[d].links, b), T.disk[d])
         /\ WithSize(S.disk[m], S.disk[m].size + 1, T.disk[m])
<1> DEFINE l == Append(S.disk[d].links, b)
<1>1. /\ d \in Blocks /\ S.disk[d] \in INodes /\ S.disk[d].kind = "inode" /\ S.disk[d].mode = "DIR"
      /\ m \in Blocks /\ S.disk[m] \in Infos /\ S.disk[m].kind = "info" /\ m # d
  BY BlockIs DEF Headers, Dirs, InfoBlocks
<1>2. l \in Seq(Blocks) /\ S.disk[m].size + 1 \in Nat
  BY <1>1, AppendProperties DEF INodes, Infos
<1>3. Nodes(S, d) = <<d>>
  <2>1. Len(<<d>>) = 1 /\ <<d>>[1] = d /\ <<d>> \in Seq(Blocks)
    BY <1>1
  <2>2. Linking(S, d, <<d>>)
    BY <2>1 DEF Linking, Distinct
  <2> QED
    BY <2>2, NodesOfLinking
<1> DEFINE nodes == Nodes(S, d)
           I == {i \in 1..Len(nodes) : Len(S.disk[nodes[i]].links) < MaxLinks}
           k == SelectInSeq(nodes, LAMBDA n : Len(S.disk[n].links) < MaxLinks)
           new == NewBlock(S)
           R == IF k # 0
                THEN [S EXCEPT !.disk[nodes[k]].links = Linked(@, b)]
                ELSE Save([fs_get_block(S) EXCEPT !.disk[Last(nodes)].next = new],
                          new, INode("CHILD", d, Last(nodes), Linked(<<>>, b)))
           grown == IF S.disk[d].mode = "DIR" THEN 1 ELSE nbytes
<1>4. T = [R EXCEPT !.disk[m].size = @ + grown]
  BY Zenon DEF link_node_to_nodelist
<1>5. k = IF I # {} THEN Min(I) ELSE 0
  BY DEF SelectInSeq
<1>6. I = {1}
  BY <1>1, <1>3
<1> HIDE DEF I, k
<1>7. k = 1
  <2>1. I \in SUBSET Nat /\ I # {}
    BY <1>6
  <2>2. Min(I) \in I
    BY <2>1, MinIsLeast
  <2> QED
    BY <1>5, <1>6, <2>1, <2>2
<1>8. R = SetLinks(S, d, l)
  BY <1>3, <1>7 DEF SetLinks, Linked
<1> HIDE DEF R
<1>9. T = SetSize(SetLinks(S, d, l), m, SetLinks(S, d, l).disk[m].size + 1)
  BY <1>1, <1>4, <1>8, Zenon DEF SetSize
<1> DEFINE size == S.disk[m].size + 1
           U == SetSize(SetLinks(S, d, l), m, size)
<1>10. Relinked(S, U, d, l, m, size)
  <2> HIDE DEF l
  <2>1. size \in Nat
    BY <1>2
  <2> HIDE DEF size
  <2> QED
    BY <1>1, <1>2, <2>1, LinksAndSize
<1>11. T = U
  <2>1. But(S, SetLinks(S, d, l), d)
    BY <1>1, <1>2, SetLinksIs
  <2>2. SetLinks(S, d, l).disk[m] = S.disk[m]
    BY <1>1, <2>1 DEF But
  <2> QED
    BY <1>9, <2>2
<1> HIDE DEF U
<1> QED
  BY <1>10, <1>11 DEF Relinked

\* A file whose blocks stay as they are.
LEMMA FileFrame ==
  ASSUME NEW S, ImageOK(S), NEW f \in Files(S), NEW T,
         \A n \in Range(Nodes(S, f)) : T.disk[n] = S.disk[n],
         \A x \in Range(LinksOf(S, Nodes(S, f))) : T.disk[x] = S.disk[x]
  PROVE  /\ Nodes(T, f) = Nodes(S, f)
         /\ Chained(T, f, Nodes(T, f))
         /\ LinksOf(T, Nodes(T, f)) = LinksOf(S, Nodes(S, f))
         /\ Bytes(T, LinksOf(T, Nodes(T, f))) = Bytes(S, LinksOf(S, Nodes(S, f)))
<1> DEFINE ns == Nodes(S, f)
           ls == LinksOf(S, ns)
<1>1. Chained(S, f, ns) /\ Linking(S, f, ns)
  BY DEF ImageOK, ChainsOK, Chained
<1>2. /\ ns \in Seq(Blocks) /\ Len(ns) \in Nat /\ Len(ns) >= 1 /\ DOMAIN ns = 1..Len(ns)
      /\ ls \in Seq(Blocks)
  BY FileIs, LenProperties
<1>3. \A k \in 1..Len(ns) : T.disk[ns[k]] = S.disk[ns[k]]
  BY <1>2, RangeIs
<1>4. \A k \in 1..Len(ls) : T.disk[ls[k]] = S.disk[ls[k]]
  BY <1>2, RangeIs
<1> HIDE DEF ns, ls
<1>5. Linking(T, f, ns)
  <2>1. /\ Len(ns) \in 1..Len(ns)
        /\ \A k \in 1..(Len(ns) - 1) : k \in 1..Len(ns)
    BY <1>2
  <2> QED
    BY <1>1, <1>3, <2>1 DEF Linking
<1>6. Nodes(T, f) = ns
  BY <1>5, NodesOfLinking
<1>7. Chained(T, f, ns)
  <2>1. \A k \in 2..Len(ns) : k \in 1..Len(ns) /\ k - 1 \in 1..Len(ns)
    BY <1>2
  <2> QED
    BY <1>1, <1>3, <1>5, <2>1 DEF Chained, Children
<1>8. LinksOf(T, ns) = ls
  <2>1. [k \in DOMAIN ns |-> T.disk[ns[k]].links] = [k \in DOMAIN ns |-> S.disk[ns[k]].links]
    BY <1>2, <1>3
  <2> QED
    BY <2>1 DEF LinksOf, ls
<1>9. Bytes(T, ls) = Bytes(S, ls)
  BY <1>2, <1>4, BytesFrame
<1> QED
  BY <1>6, <1>7, <1>8, <1>9 DEF ns, ls

-----------------------------------------------------------------------------
(* create_entity *)

\* An inode without links is the only one of its list.
LEMMA EmptyInode ==
  ASSUME NEW S, NEW e \in Blocks, S.disk[e].next = 0, S.disk[e].links = <<>>
  PROVE  /\ Nodes(S, e) = <<e>> /\ Chained(S, e, <<e>>)
         /\ LinksOf(S, <<e>>) = <<>> /\ Bytes(S, LinksOf(S, <<e>>)) = 0
<1>1. Len(<<e>>) = 1 /\ <<e>>[1] = e /\ <<e>> \in Seq(Blocks)
  OBVIOUS
<1>2. Linking(S, e, <<e>>)
  BY <1>1 DEF Linking, Distinct
<1>3. Chained(S, e, <<e>>)
  BY <1>1, <1>2 DEF Chained
<1>4. [k \in DOMAIN <<e>> |-> S.disk[<<e>>[k]].links] = <<<<>>>>
  OBVIOUS
<1>5. LinksOf(S, <<e>>) = <<>>
  <2>1. <<<<>>>> = Append(<<>>, <<>>) /\ <<>> \in Seq(Blocks) /\ <<>> \in Seq(Seq(Blocks))
    OBVIOUS
  <2>2. FlattenSeq(<<<<>>>>) = <<>> \o <<>>
    BY <2>1, FlattenAppend, FlattenNone
  <2>3. <<>> \o <<>> = <<>>
    BY <2>1, ConcatEmptySeq
  <2> QED
    BY <1>4, <2>2, <2>3 DEF LinksOf
<1>6. Bytes(S, <<>>) = 0
  BY BytesNone
<1> QED
  BY <1>2, <1>3, <1>5, <1>6, NodesOfLinking

\* T is S with an entity, in blocks i and e that were free, of the directory d.
Created(S, T, d, n, mode, i, e) ==
  /\ T \in Images /\ SuperOK(T) /\ FreeOK(T)
  /\ i \in FreeOnes(S) /\ e \in FreeOnes(S) /\ i # e
  /\ T.disk[i] = NodeInfo(0, n)
  /\ T.disk[e] = INode(mode, d, i, <<>>)
  /\ WithLinks(S.disk[d], Append(S.disk[d].links, e), T.disk[d])
  /\ WithSize(S.disk[S.disk[d].meta], S.disk[S.disk[d].meta].size + 1, T.disk[S.disk[d].meta])
  /\ \A a \in Blocks : a # i /\ a # e /\ a # d /\ a # S.disk[d].meta => T.disk[a] = S.disk[a]

LEMMA CreationKeeps ==
  ASSUME NEW S, ImageOK(S), NEW T, NEW d, d \in Dirs(S), Len(S.disk[d].links) < MaxLinks,
         NEW n \in Names, \A x : ~IsEntry(S, d, n, x), NEW mode \in {"DIR", "REG"},
         NEW i, NEW e, Created(S, T, d, n, mode, i, e),
         NEW p \in Seq(Names), Append(p, n) \in Paths,
         get_inode_block(S, p).full_match, get_inode_block(S, p).block = d
  PROVE  ImageOK(T) /\ TreeGrows(S, T, d, n, mode, e)
<1> DEFINE m == S.disk[d].meta
           links == S.disk[d].links
<1>1. /\ S \in Images /\ T \in Images /\ SuperOK(T) /\ FreeOK(T)
      /\ TypesOK(S) /\ ParentsOK(S) /\ EntriesOK(S) /\ MetasOK(S) /\ ReachOK(S)
      /\ ChainsOK(S) /\ DataOK(S) /\ SizesOK(S)
  BY DEF ImageOK, TypesOK, Created
<1>2. /\ d \in Blocks /\ S.disk[d] \in INodes /\ S.disk[d].kind = "inode" /\ S.disk[d].mode = "DIR"
      /\ d \in Headers(S) /\ links \in Seq(Blocks) /\ Len(links) \in Nat
      /\ m \in InfoBlocks(S) /\ m \in Blocks /\ S.disk[m].kind = "info" /\ S.disk[m].size \in Nat
      /\ i \in Blocks /\ S.disk[i].kind = "free" /\ e \in Blocks /\ S.disk[e].kind = "free"
  <2>1. d \in Headers(S)
    BY DEF Headers
  <2>2. m \in InfoBlocks(S)
    BY <1>1, <2>1 DEF MetasOK
  <2>3. S.disk[d] \in INodes /\ S.disk[m] \in Infos
    BY <1>1, <2>1, <2>2, BlockIs
  <2> QED
    BY <2>1, <2>2, <2>3, LenProperties DEF Dirs, InfoBlocks, FreeOnes, Created, INodes, Infos
<1>3. i # e /\ i # d /\ i # m /\ e # d /\ e # m /\ d # m
  BY <1>2 DEF Created
<1>4. /\ T.disk[e].kind = "inode" /\ T.disk[e].mode = mode /\ T.disk[e].parent = d
      /\ T.disk[e].meta = i /\ T.disk[e].next = 0 /\ T.disk[e].links = <<>>
      /\ T.disk[i].kind = "info" /\ T.disk[i].size = 0 /\ T.disk[i].name = n
  BY DEF Created, INode, NodeInfo
<1>5. /\ T.disk[d].kind = "inode" /\ T.disk[d].mode = "DIR" /\ T.disk[d].parent = S.disk[d].parent
      /\ T.disk[d].meta = m /\ T.disk[d].next = S.disk[d].next /\ T.disk[d].links = Append(links, e)
      /\ T.disk[m].kind = "info" /\ T.disk[m].size = S.disk[m].size + 1
      /\ T.disk[m].name = S.disk[m].name
  BY <1>2 DEF Created, WithLinks, WithSize, INodes, Infos
<1>6. \A a \in Blocks : a # i /\ a # e /\ a # d /\ a # m => T.disk[a] = S.disk[a]
  BY DEF Created
<1> HIDE DEF m, links
<1>7. /\ \A a : a \in Dirs(T) <=> (a \in Dirs(S) \/ (a = e /\ mode = "DIR"))
      /\ \A a : a \in Files(T) <=> (a \in Files(S) \/ (a = e /\ mode = "REG"))
      /\ \A a : a \in Children(T) <=> a \in Children(S)
      /\ \A a : a \in InfoBlocks(T) <=> (a \in InfoBlocks(S) \/ a = i)
      /\ \A a : a \in DataBlocks(T) <=> a \in DataBlocks(S)
  <2>1. \A a : a \in Dirs(T) <=> (a \in Dirs(S) \/ (a = e /\ mode = "DIR"))
    BY <1>2, <1>3, <1>4, <1>5, <1>6, SMTT(30) DEF Dirs
  <2>2. \A a : a \in Files(T) <=> (a \in Files(S) \/ (a = e /\ mode = "REG"))
    BY <1>2, <1>3, <1>4, <1>5, <1>6 DEF Files
  <2>3. \A a : a \in Children(T) <=> a \in Children(S)
    BY <1>2, <1>3, <1>4, <1>5, <1>6 DEF Children
  <2>4. \A a : a \in InfoBlocks(T) <=> (a \in InfoBlocks(S) \/ a = i)
    BY <1>2, <1>3, <1>4, <1>5, <1>6 DEF InfoBlocks
  <2>5. \A a : a \in DataBlocks(T) <=> a \in DataBlocks(S)
    BY <1>2, <1>3, <1>4, <1>5, <1>6 DEF DataBlocks
  <2> QED
    BY <2>1, <2>2, <2>3, <2>4, <2>5
<1>8. /\ \A a : a \in Headers(T) <=> (a \in Headers(S) \/ a = e)
      /\ \A a : a \in Holders(T) <=> (a \in Holders(S) \/ (a = e /\ mode = "REG"))
  BY <1>7 DEF Headers, Holders
<1>9. /\ e \notin Headers(S) /\ e \notin Holders(S) /\ i \notin InfoBlocks(S) /\ d \notin Holders(S)
      /\ root \in Headers(S)
  BY <1>1, <1>2 DEF Headers, Holders, Dirs, Files, Children, InfoBlocks, ParentsOK
<1>10. /\ \A a \in Headers(S) \cup Children(S) : a # d => T.disk[a] = S.disk[a]
       /\ \A a \in DataBlocks(S) : T.disk[a] = S.disk[a]
       /\ \A a \in InfoBlocks(S) : T.disk[a].name = S.disk[a].name /\ (a # m => T.disk[a] = S.disk[a])
  BY <1>2, <1>5, <1>6 DEF Headers, Dirs, Files, Children, DataBlocks, InfoBlocks
<1>11. \A a \in Headers(S) : /\ T.disk[a].meta = S.disk[a].meta /\ T.disk[a].parent = S.disk[a].parent
                             /\ T.disk[a].next = S.disk[a].next
  BY <1>5, <1>10 DEF m
<1>12. /\ \A a \in Headers(S) : NameOf(T, a) = NameOf(S, a)
       /\ \A a \in Headers(S) : a # d => InfoOf(T, a).size = InfoOf(S, a).size
       /\ NameOf(T, e) = n
  BY <1>1, <1>2, <1>4, <1>10, <1>11 DEF NameOf, InfoOf, MetasOK, m
<1>13. TypesOK(T)
  <2>1. \A b \in DataBlocks(T) : Len(T.disk[b].bytes) \in 1..BlkSz
    BY <1>1, <1>7, <1>10 DEF TypesOK
  <2>2. \A b \in Headers(T) \cup Children(T) : Len(T.disk[b].links) <= MaxLinks
    <3> TAKE b \in Headers(T) \cup Children(T)
    <3>1. CASE b = e
      BY <1>4, <3>1, FormatAssumption
    <3>2. CASE b = d
      <4>1. Len(Append(links, e)) = Len(links) + 1
        BY <1>2, AppendProperties DEF links
      <4>2. Len(links) < MaxLinks /\ Len(links) \in Nat
        BY <1>2 DEF links
      <4> QED
        BY <1>5, <3>2, <4>1, <4>2, FormatAssumption
    <3>3. CASE b # e /\ b # d
      BY <1>1, <1>7, <1>8, <1>10, <3>3 DEF TypesOK
    <3> QED
      BY <3>1, <3>2, <3>3
  <2> QED
    BY <1>1, <2>1, <2>2 DEF TypesOK
<1>14. \A x : x \in Range(T.disk[d].links) <=> (x \in Range(links) \/ x = e)
  <2>1. /\ Append(links, e) \in Seq(Blocks)
        /\ Len(Append(links, e)) = Len(links) + 1
        /\ \A j \in 1..Len(links) : Append(links, e)[j] = links[j]
        /\ Append(links, e)[Len(links) + 1] = e
    <3>1. links \in Seq(Blocks) /\ e \in Blocks
      BY <1>2 DEF links
    <3> QED
      BY <3>1, AppendProperties, SMTT(30)
  <2> DEFINE r == Append(links, e)
  <2> HIDE DEF r
  <2>2. \A x : x \in Range(r) <=> \E j \in 1..Len(r) : r[j] = x
    BY <2>1, RangeIs DEF r
  <2>3. \A x : x \in Range(links) <=> \E j \in 1..Len(links) : links[j] = x
    BY <1>2, RangeIs DEF links
  <2>4. Len(links) \in Nat
    BY <1>2 DEF links
  <2>5. \A j : j \in 1..(Len(links) + 1) <=> (j \in 1..Len(links) \/ j = Len(links) + 1)
    BY <2>4
  <2> QED
    BY <1>5, <2>1, <2>2, <2>3, <2>5 DEF r
<1>15. ParentsOK(T)
  <2>1. root \in Dirs(T) /\ T.disk[root].parent = root
    BY <1>1, <1>7, <1>9, <1>11 DEF ParentsOK
  <2>2. ASSUME NEW a \in Headers(T) \ {root}
        PROVE  T.disk[a].parent \in Dirs(T) /\ a \in Range(T.disk[T.disk[a].parent].links)
    <3>1. CASE a = e
      BY <1>4, <1>7, <1>14, <3>1
    <3>2. CASE a # e
      <4>1. a \in Headers(S) \ {root}
        BY <1>8, <3>2
      <4> DEFINE q == S.disk[a].parent
      <4>2. q \in Dirs(S) /\ a \in Range(S.disk[q].links) /\ T.disk[a].parent = q
        BY <1>1, <1>11, <4>1 DEF ParentsOK
      <4> HIDE DEF q
      <4>3. q \in Dirs(T)
        BY <1>7, <4>2
      <4>4. CASE q = d
        BY <1>14, <4>2, <4>3, <4>4 DEF links
      <4>5. CASE q # d
        BY <1>10, <4>2, <4>3, <4>5 DEF Headers
      <4> QED
        BY <4>4, <4>5
    <3> QED
      BY <3>1, <3>2
  <2> QED
    BY <2>1, <2>2 DEF ParentsOK
<1>16. EntriesOK(T)
  <2> SUFFICES ASSUME NEW a \in Dirs(T)
               PROVE  /\ T.disk[a].next = 0
                      /\ \A j \in 1..Len(T.disk[a].links) :
                           /\ T.disk[a].links[j] \in Headers(T) \ {root}
                           /\ T.disk[T.disk[a].links[j]].parent = a
                           /\ NameOf(T, T.disk[a].links[j]) \in Names
                           /\ \A k \in 1..Len(T.disk[a].links) :
                                NameOf(T, T.disk[a].links[j]) = NameOf(T, T.disk[a].links[k]) => j = k
    BY DEF EntriesOK
  <2>1. CASE a = e
    BY <1>4, <2>1
  <2>2. CASE a # e /\ a # d
    <3>1. a \in Dirs(S) /\ a \in Headers(S) /\ T.disk[a] = S.disk[a]
      BY <1>7, <1>10, <2>2 DEF Headers
    <3>2. S.disk[a].next = 0
      BY <1>1, <3>1 DEF EntriesOK
    <3>3. \A j \in 1..Len(S.disk[a].links) :
            /\ S.disk[a].links[j] \in Headers(S) \ {root}
            /\ S.disk[S.disk[a].links[j]].parent = a
            /\ NameOf(S, S.disk[a].links[j]) \in Names
            /\ \A k \in 1..Len(S.disk[a].links) :
                 NameOf(S, S.disk[a].links[j]) = NameOf(S, S.disk[a].links[k]) => j = k
      BY <1>1, <3>1 DEF EntriesOK
    <3> QED
      BY <1>8, <1>11, <1>12, <3>1, <3>2, <3>3, SMTT(30)
  <2>3. CASE a = d
    <3> DEFINE r == T.disk[d].links
               len == Len(links)
    <3>1. S.disk[d].next = 0
      BY <1>1 DEF EntriesOK
    <3>2. \A j \in 1..len :
            /\ links[j] \in Headers(S) \ {root}
            /\ S.disk[links[j]].parent = d
            /\ NameOf(S, links[j]) \in Names
            /\ \A k \in 1..len : NameOf(S, links[j]) = NameOf(S, links[k]) => j = k
      BY <1>1 DEF EntriesOK, links
    <3>3. len \in Nat /\ Len(r) = len + 1 /\ r[len + 1] = e /\ \A j \in 1..len : r[j] = links[j]
      BY <1>2, <1>5, AppendProperties, SMTT(30) DEF links
    <3>4. \A j \in 1..len : NameOf(S, links[j]) # n
      <4> TAKE j \in 1..len
      <4>1. links[j] \in Range(links)
        BY <1>2, RangeIs DEF links
      <4> QED
        BY <4>1 DEF IsEntry, links
    <3> HIDE DEF r, len
    <3>5. \A j \in 1..(len + 1) : j \in 1..len \/ j = len + 1
      BY <3>3
    <3>6. \A j \in 1..len : /\ r[j] \in Headers(T) \ {root} /\ T.disk[r[j]].parent = d
                            /\ NameOf(T, r[j]) \in Names /\ NameOf(T, r[j]) = NameOf(S, links[j])
                            /\ NameOf(T, r[j]) # n
      BY <1>8, <1>11, <1>12, <3>2, <3>3, <3>4
    <3>7. /\ r[len + 1] \in Headers(T) \ {root} /\ T.disk[r[len + 1]].parent = d
          /\ NameOf(T, r[len + 1]) = n
      BY <1>4, <1>8, <1>9, <1>12, <3>3
    <3>8. \A j \in 1..(len + 1) : /\ r[j] \in Headers(T) \ {root} /\ T.disk[r[j]].parent = d
                                  /\ NameOf(T, r[j]) \in Names
      BY <3>5, <3>6, <3>7
    <3>9. \A j, k \in 1..(len + 1) : NameOf(T, r[j]) = NameOf(T, r[k]) => j = k
      BY <3>2, <3>5, <3>6, <3>7
    <3>10. T.disk[d].next = 0
      BY <1>5, <3>1
    <3> QED
      BY <2>3, <3>3, <3>8, <3>9, <3>10 DEF r
  <2> QED
    BY <2>1, <2>2, <2>3
<1>17. MetasOK(T)
  <2>1. \A a \in Headers(T) : T.disk[a].meta \in InfoBlocks(T)
    BY <1>1, <1>4, <1>7, <1>8, <1>11 DEF MetasOK
  <2>2. \A a, b \in Headers(T) : T.disk[a].meta = T.disk[b].meta => a = b
    <3> TAKE a, b \in Headers(T)
    <3>1. \A x \in Headers(S) : T.disk[x].meta # i
      BY <1>1, <1>9, <1>11 DEF MetasOK
    <3> QED
      BY <1>1, <1>4, <1>8, <1>11, <3>1 DEF MetasOK
  <2>3. \A b \in InfoBlocks(T) : \E a \in Headers(T) : T.disk[a].meta = b
    <3> TAKE b \in InfoBlocks(T)
    <3>1. CASE b = i
      BY <1>4, <1>8, <3>1
    <3>2. CASE b # i
      <4>1. PICK a \in Headers(S) : S.disk[a].meta = b
        BY <1>1, <1>7, <3>2 DEF MetasOK
      <4> QED
        BY <1>8, <1>11, <4>1
    <3> QED
      BY <3>1, <3>2
  <2> QED
    BY <2>1, <2>2, <2>3 DEF MetasOK
<1>18. ReachOK(T)
  <2>1. ASSUME NEW x, NEW y, NEW z, IsEntry(S, x, y, z)
        PROVE  IsEntry(T, x, y, z)
    <3>1. x \in Dirs(S) /\ z \in Range(S.disk[x].links) /\ NameOf(S, z) = y /\ z \in Headers(S)
      BY <1>1, <2>1, EntryIs DEF IsEntry
    <3>2. z \in Range(T.disk[x].links)
      <4>1. CASE x = d
        BY <1>14, <3>1, <4>1 DEF links
      <4>2. CASE x # d
        BY <1>10, <3>1, <4>2 DEF Headers
      <4> QED
        BY <4>1, <4>2
    <3> QED
      BY <1>7, <1>12, <3>1, <3>2 DEF IsEntry
  <2>2. \A q \in Seq(Names) : get_inode_block(S, q).full_match =>
          /\ get_inode_block(T, q).full_match
          /\ get_inode_block(T, q).block = get_inode_block(S, q).block
    BY <1>1, <1>15, <1>16, <2>1, LookupGrows
  <2>3. ASSUME NEW a \in Headers(T)
        PROVE  \E q \in Paths : get_inode_block(T, q).full_match /\ get_inode_block(T, q).block = a
    <3>1. CASE a # e
      <4>1. PICK q \in Paths : get_inode_block(S, q).full_match /\ get_inode_block(S, q).block = a
        BY <1>1, <1>8, <2>3, <3>1 DEF ReachOK
      <4>2. q \in Seq(Names)
        BY PathsAre
      <4> QED
        BY <2>2, <4>1, <4>2
    <3>2. CASE a = e
      <4> DEFINE at == get_inode_block(T, p)
                 r == Descend(T, at, n)
      <4>1. at.full_match /\ at.block = d
        BY <2>2
      <4>2. at \in Ats /\ at.block \in Headers(T)
        BY <1>1, <1>15, <1>16, LookupIs
      <4>3. get_inode_block(T, Append(p, n)) = r
        BY LookupAppend
      <4>4. IsEntry(T, d, n, e)
        BY <1>7, <1>12, <1>14 DEF IsEntry
      <4> HIDE DEF at
      <4>5. r \in Ats /\ (at.full_match /\ ~r.full_match => \A x : ~IsEntry(T, at.block, n, x))
        BY <1>1, <1>16, <4>2, DescendIs
      <4>6. r.full_match
        BY <4>1, <4>4, <4>5 DEF Ats
      <4>7. IsEntry(T, at.block, n, r.block)
        BY <1>1, <1>16, <4>2, <4>6, DescendIs
      <4>8. r.block = e
        BY <1>1, <1>16, <4>1, <4>4, <4>7, EntryIs
      <4> QED
        BY <3>2, <4>3, <4>6, <4>8
    <3> QED
      BY <3>1, <3>2
  <2> QED
    BY <2>3 DEF ReachOK
<1>19. \A f \in Files(S) :
         /\ Nodes(T, f) = Nodes(S, f) /\ Chained(T, f, Nodes(T, f))
         /\ Bytes(T, LinksOf(T, Nodes(T, f))) = Bytes(S, LinksOf(S, Nodes(S, f)))
         /\ LinksOf(T, Nodes(T, f)) = LinksOf(S, Nodes(S, f))
         /\ \A x \in Range(LinksOf(S, Nodes(S, f))) : T.disk[x] = S.disk[x]
  <2> TAKE f \in Files(S)
  <2>1. /\ Nodes(S, f) \in Seq(Blocks)
        /\ \A k \in 1..Len(Nodes(S, f)) : Nodes(S, f)[k] \in Holders(S)
        /\ \A x \in Range(LinksOf(S, Nodes(S, f))) : x \in DataBlocks(S)
    BY FileIs
  <2>2. \A a \in Range(Nodes(S, f)) : a \in Holders(S)
    BY <2>1, RangeIs
  <2>3. \A a \in Range(Nodes(S, f)) : T.disk[a] = S.disk[a]
    BY <1>9, <1>10, <2>2 DEF Headers, Holders
  <2>4. \A x \in Range(LinksOf(S, Nodes(S, f))) : T.disk[x] = S.disk[x]
    BY <1>10, <2>1
  <2> QED
    BY <2>3, <2>4, FileFrame
<1>20. /\ Nodes(T, e) = <<e>> /\ Chained(T, e, Nodes(T, e))
       /\ Bytes(T, LinksOf(T, Nodes(T, e))) = 0
  BY <1>2, <1>4, EmptyInode, ZenonT(40)
<1>21. ChainsOK(T)
  <2>1. \A f \in Files(T) : Chained(T, f, Nodes(T, f))
    BY <1>7, <1>19, <1>20
  <2>2. ASSUME NEW c \in Children(T)
        PROVE  T.disk[c].parent \in Files(T) /\ c \in Range(Nodes(T, T.disk[c].parent))
    <3>1. c \in Children(S) /\ c # d
      BY <1>2, <1>7 DEF Children
    <3>2. T.disk[c] = S.disk[c]
      BY <1>10, <3>1
    <3>3. S.disk[c].parent \in Files(S) /\ c \in Range(Nodes(S, S.disk[c].parent))
      BY <1>1, <3>1 DEF ChainsOK
    <3> QED
      BY <1>7, <1>19, <3>2, <3>3
  <2> QED
    BY <2>1, <2>2 DEF ChainsOK
<1>22. DataOK(T)
  <2>1. \A a \in Holders(S) : a \in Holders(T) /\ T.disk[a] = S.disk[a]
    BY <1>8, <1>9, <1>10 DEF Holders, Headers
  <2>2. \A a \in Holders(T) : \A j \in 1..Len(T.disk[a].links) : a \in Holders(S)
    BY <1>4, <1>8
  <2>3. ASSUME NEW a \in Holders(T), NEW j \in 1..Len(T.disk[a].links)
        PROVE  /\ T.disk[a].links[j] \in DataBlocks(T)
               /\ \A b \in Holders(T) : \A k \in 1..Len(T.disk[b].links) :
                    T.disk[a].links[j] = T.disk[b].links[k] => a = b /\ j = k
    <3>1. a \in Holders(S) /\ j \in 1..Len(S.disk[a].links) /\ T.disk[a] = S.disk[a]
      BY <2>1, <2>2
    <3>2. S.disk[a].links[j] \in DataBlocks(S)
      BY <1>1, <3>1 DEF DataOK
    <3>3. ASSUME NEW b \in Holders(T), NEW k \in 1..Len(T.disk[b].links),
                 T.disk[a].links[j] = T.disk[b].links[k]
          PROVE  a = b /\ j = k
      <4>1. b \in Holders(S) /\ k \in 1..Len(S.disk[b].links) /\ T.disk[b] = S.disk[b]
        BY <2>1, <2>2
      <4> QED
        BY <1>1, <3>1, <3>3, <4>1 DEF DataOK
    <3> QED
      BY <1>7, <3>1, <3>2, <3>3
  <2>4. ASSUME NEW b \in DataBlocks(T)
        PROVE  \E a \in Holders(T) : b \in Range(T.disk[a].links)
    <3>1. PICK a \in Holders(S) : b \in Range(S.disk[a].links)
      BY <1>1, <1>7 DEF DataOK
    <3> QED
      BY <2>1, <3>1
  <2> QED
    BY <2>3, <2>4 DEF DataOK
<1>23. SizesOK(T)
  <2>1. ASSUME NEW a \in Dirs(T)
        PROVE  InfoOf(T, a).size = Len(T.disk[a].links)
    <3>1. CASE a = e
      BY <1>4, <3>1 DEF InfoOf
    <3>2. CASE a = d
      <4>1. Len(T.disk[d].links) = Len(links) + 1
        BY <1>2, <1>5, AppendProperties DEF links
      <4>2. S.disk[m].size = Len(links)
        BY <1>1 DEF SizesOK, InfoOf, m, links
      <4> QED
        BY <1>5, <3>2, <4>1, <4>2 DEF InfoOf
    <3>3. CASE a # e /\ a # d
      <4>1. a \in Dirs(S) /\ a \in Headers(S)
        BY <1>7, <3>3 DEF Headers
      <4> QED
        BY <1>1, <1>10, <1>12, <3>3, <4>1 DEF SizesOK
    <3> QED
      BY <3>1, <3>2, <3>3
  <2>2. ASSUME NEW f \in Files(T)
        PROVE  InfoOf(T, f).size = Bytes(T, LinksOf(T, Nodes(T, f)))
    <3>1. CASE f = e
      BY <1>4, <1>20, <3>1 DEF InfoOf
    <3>2. CASE f # e
      <4>1. f \in Files(S) /\ f \in Headers(S) /\ f # d
        BY <1>2, <1>7, <3>2 DEF Headers, Files
      <4> QED
        BY <1>1, <1>12, <1>19, <4>1 DEF SizesOK
    <3> QED
      BY <3>1, <3>2
  <2> QED
    BY <2>1, <2>2 DEF SizesOK
<1>24. MoreEntries(S, T, d, n, e)
  <2>1. ASSUME NEW x, NEW y, NEW z, IsEntry(S, x, y, z)
        PROVE  IsEntry(T, x, y, z)
    <3>1. x \in Dirs(S) /\ z \in Range(S.disk[x].links) /\ NameOf(S, z) = y /\ z \in Headers(S)
      BY <1>1, <2>1, EntryIs DEF IsEntry
    <3>2. z \in Range(T.disk[x].links)
      BY <1>10, <1>14, <3>1 DEF Headers, links
    <3> QED
      BY <1>7, <1>12, <3>1, <3>2 DEF IsEntry
  <2>2. IsEntry(T, d, n, e)
    BY <1>7, <1>12, <1>14 DEF IsEntry
  <2>3. ASSUME NEW x, NEW y, NEW z, IsEntry(T, x, y, z)
        PROVE  IsEntry(S, x, y, z) \/ (x = d /\ y = n /\ z = e)
    <3>1. x \in Dirs(T) /\ z \in Range(T.disk[x].links) /\ NameOf(T, z) = y /\ z \in Headers(T)
      BY <1>1, <1>16, <2>3, EntryIs DEF IsEntry
    <3>2. x # e
      <4>1. Range(<<>>) = {}
        BY DEF Range
      <4> QED
        BY <1>4, <3>1, <4>1
    <3>3. x \in Dirs(S) /\ x \in Headers(S)
      BY <1>7, <3>1, <3>2 DEF Headers
    <3>4. CASE z = e /\ x = d
      BY <1>12, <3>1, <3>4
    <3>5. CASE z = e /\ x # d
      <4>1. T.disk[x].links = S.disk[x].links
        BY <1>10, <3>3, <3>5
      <4>2. \A f \in Headers(S) : f # e
        BY <1>9
      <4>3. IsEntry(S, x, NameOf(S, z), z)
        BY <3>1, <3>3, <4>1 DEF IsEntry
      <4> QED
        BY <1>1, <3>5, <4>2, <4>3, EntryIs
    <3>6. CASE z # e
      <4>1. z \in Headers(S)
        BY <1>8, <3>1, <3>6
      <4>2. z \in Range(S.disk[x].links)
        BY <1>10, <1>14, <3>1, <3>3, <3>6 DEF links
      <4> QED
        BY <1>12, <3>1, <3>3, <4>1, <4>2 DEF IsEntry
    <3> QED
      BY <3>4, <3>5, <3>6
  <2> QED
    BY <1>9, <2>1, <2>2, <2>3 DEF MoreEntries
<1>25. \A f \in Files(S) : Stays(S, T, f)
  <2>1. \A f \in Files(S) : f \in Headers(S) /\ f # d
    BY <1>2 DEF Headers, Files
  <2> QED
    BY <1>12, <1>19, <2>1 DEF Stays
<1>26. TreeGrows(S, T, d, n, mode, e)
  BY <1>7, <1>24, <1>25 DEF TreeGrows
<1> QED
  BY <1>1, <1>13, <1>15, <1>16, <1>17, <1>18, <1>21, <1>22, <1>23, <1>26 DEF ImageOK

LEMMA CreateKeeps ==
  ASSUME NEW S, ImageOK(S), NEW d, d \in Dirs(S), Len(S.disk[d].links) < MaxLinks,
         NEW n \in Names, \A x : ~IsEntry(S, d, n, x), NEW mode \in {"DIR", "REG"},
         NEW p \in Seq(Names), Append(p, n) \in Paths,
         get_inode_block(S, p).full_match, get_inode_block(S, p).block = d,
         S.freeblks >= 2
  PROVE  LET T == create_entity(S, d, n, mode)
             e == CreatedBlock(S) IN
         /\ ImageOK(T) /\ T.freeblks = S.freeblks - 2
         /\ mode = "REG" => e \in Files(T) /\ T.disk[e].links = <<>>
         /\ TreeGrows(S, T, d, n, mode, e)
<1> DEFINE i == NewBlock(S)
           S1 == Save(fs_get_block(S), i, NodeInfo(0, n))
           e == NewBlock(S1)
           S2 == Save(fs_get_block(S1), e, INode(mode, d, i, <<>>))
           T == link_node_to_nodelist(S2, d, e, 0)
<1>1. S \in Images /\ SuperOK(S) /\ FreeOK(S) /\ EntriesOK(S) /\ MetasOK(S) /\ S.freeblks \in Nat
  BY DEF ImageOK, TypesOK, Images
<1>2. NodeInfo(0, n) \in Structs /\ NodeInfo(0, n).kind \notin {"free", "super"}
  BY DEF NodeInfo, Structs, Infos
<1>3. Taken(S, S1, i, NodeInfo(0, n))
  BY <1>1, <1>2, TakeBlock
<1>4. e = CreatedBlock(S)
  <2>1. fs_get_block(S) \in Images
    <3>1. PICK fl : FreeChain(S, fl)
      BY <1>1 DEF FreeOK
    <3>2. S.freelist \in FreeOnes(S)
      BY <1>1, <3>1, HeadIsFree
    <3> QED
      BY <1>1, <3>2, GetImage DEF FreeOnes
  <2>2. i \in Blocks
    BY <1>3 DEF Taken, FreeOnes
  <2> DEFINE G == fs_get_block(S)
  <2> HIDE DEF G, i
  <2>3. /\ Save(G, i, NodeInfo(0, n)).freelist = G.freelist
        /\ Save(G, i, NodeInfo(0, n)).freeblks = G.freeblks
    BY <1>2, <2>1, <2>2, SaveImage DEF G
  <2>4. NewBlock(Save(G, i, NodeInfo(0, n))) = NewBlock(G)
    BY <2>3 DEF NewBlock
  <2> QED
    BY <2>4 DEF G, CreatedBlock
<1>5. create_entity(S, d, n, mode) = T
  BY DEF create_entity
<1> HIDE DEF i, S1
<1>6. /\ S1 \in Images /\ SuperOK(S1) /\ FreeOK(S1) /\ S1.freeblks = S.freeblks - 1
      /\ i \in FreeOnes(S) /\ i # 0 /\ i \in Blocks
      /\ \A a \in Blocks : S1.disk[a] = IF a = i THEN NodeInfo(0, n) ELSE S.disk[a]
  BY <1>3 DEF Taken, FreeOnes
<1>7. INode(mode, d, i, <<>>) \in Structs /\ INode(mode, d, i, <<>>).kind \notin {"free", "super"}
  <2>1. d \in Blocks /\ 0 \in Blocks /\ <<>> \in Seq(Blocks)
    BY FormatAssumption DEF Dirs, Blocks
  <2> QED
    BY <1>6, <2>1 DEF INode, Structs, INodes
<1>8. Taken(S1, S2, e, INode(mode, d, i, <<>>))
  <2>1. S1.freeblks # 0
    BY <1>1, <1>6
  <2> QED
    BY <1>6, <1>7, <2>1, TakeBlock
<1> HIDE DEF e, S2
<1>9. /\ S2 \in Images /\ SuperOK(S2) /\ FreeOK(S2) /\ S2.freeblks = S.freeblks - 2
      /\ e \in FreeOnes(S1) /\ e # 0 /\ e \in Blocks
      /\ \A a \in Blocks : S2.disk[a] = IF a = e THEN INode(mode, d, i, <<>>) ELSE S1.disk[a]
  BY <1>1, <1>6, <1>8 DEF Taken, FreeOnes
<1>10. e \in FreeOnes(S) /\ e # i
  BY <1>6, <1>9 DEF FreeOnes, NodeInfo
<1> DEFINE m == S.disk[d].meta
<1>11. d \in Blocks /\ d # i /\ d # e /\ m \in InfoBlocks(S) /\ m \in Blocks /\ m # i /\ m # e
  BY <1>1, <1>6, <1>10 DEF Dirs, FreeOnes, Headers, MetasOK, InfoBlocks
<1>12. S2.disk[d] = S.disk[d] /\ S2.disk[m] = S.disk[m] /\ d \in Dirs(S2) /\ m \in InfoBlocks(S2)
  BY <1>6, <1>9, <1>11 DEF Dirs, InfoBlocks
<1>13. S.disk[d].next = 0
  BY <1>1 DEF EntriesOK
<1> HIDE DEF m
<1>14. /\ T \in Images /\ SuperOK(T) /\ FreeOK(T) /\ T.freeblks = S2.freeblks
       /\ \A a \in Blocks : a # d /\ a # m => T.disk[a] = S2.disk[a]
       /\ WithLinks(S.disk[d], Append(S.disk[d].links, e), T.disk[d])
       /\ WithSize(S.disk[m], S.disk[m].size + 1, T.disk[m])
  <2>1. S2.disk[d].meta = m /\ S2.disk[d].next = 0 /\ Len(S2.disk[d].links) < MaxLinks
    BY <1>12, <1>13 DEF m
  <2>2. /\ T \in Images /\ SuperOK(T) /\ FreeOK(T) /\ T.freeblks = S2.freeblks
        /\ \A a \in Blocks : a # d /\ a # S2.disk[d].meta => T.disk[a] = S2.disk[a]
        /\ WithLinks(S2.disk[d], Append(S2.disk[d].links, e), T.disk[d])
        /\ WithSize(S2.disk[S2.disk[d].meta], S2.disk[S2.disk[d].meta].size + 1, T.disk[S2.disk[d].meta])
    BY <1>9, <1>12, <2>1, LinkInDir DEF T
  <2> QED
    BY <1>12, <2>1, <2>2
<1> HIDE DEF T
<1>15. Created(S, T, d, n, mode, i, e)
  <2>1. T.disk[i] = NodeInfo(0, n) /\ T.disk[e] = INode(mode, d, i, <<>>)
    BY <1>6, <1>9, <1>10, <1>11, <1>14
  <2>2. \A a \in Blocks : a # i /\ a # e /\ a # d /\ a # m => T.disk[a] = S.disk[a]
    BY <1>6, <1>9, <1>14
  <2> QED
    BY <1>6, <1>10, <1>14, <2>1, <2>2 DEF Created, m
<1>16. ImageOK(T) /\ TreeGrows(S, T, d, n, mode, e)
  BY <1>15, CreationKeeps
<1>17. mode = "REG" => e \in Files(T) /\ T.disk[e].links = <<>>
  BY <1>9, <1>15 DEF Created, Files, INode
<1> QED
  BY <1>4, <1>5, <1>9, <1>14, <1>16, <1>17

-----------------------------------------------------------------------------
(* write_to_file *)

\* The inodes of ns have links, the same in S and in T.
HaveLinks(S, ns) == \A k \in 1..Len(ns) : S.disk[ns[k]].links \in Seq(Blocks)
SameLinks(S, T, ns) == \A k \in 1..Len(ns) : T.disk[ns[k]].links = S.disk[ns[k]].links

LEMMA LinksOfFrame ==
  ASSUME NEW S, NEW T, NEW ns \in Seq(Blocks), SameLinks(S, T, ns)
  PROVE  LinksOf(T, ns) = LinksOf(S, ns)
<1>1. DOMAIN ns = 1..Len(ns)
  BY LenProperties
<1>2. [k \in DOMAIN ns |-> T.disk[ns[k]].links] = [k \in DOMAIN ns |-> S.disk[ns[k]].links]
  BY <1>1 DEF SameLinks
<1> QED
  BY <1>2 DEF LinksOf

LEMMA LinksOfAppend ==
  ASSUME NEW S, NEW ns \in Seq(Blocks), NEW n \in Blocks, HaveLinks(S, ns),
         S.disk[n].links \in Seq(Blocks)
  PROVE  LinksOf(S, Append(ns, n)) = LinksOf(S, ns) \o S.disk[n].links
<1> DEFINE r == Append(ns, n)
           s == [k \in DOMAIN ns |-> S.disk[ns[k]].links]
           t == [k \in DOMAIN r |-> S.disk[r[k]].links]
           len == Len(ns)
<1>1. /\ len \in Nat /\ DOMAIN ns = 1..len
      /\ r \in Seq(Blocks) /\ Len(r) = len + 1 /\ DOMAIN r = 1..(len + 1)
      /\ r[len + 1] = n /\ \A k \in 1..len : r[k] = ns[k]
  BY LenProperties, AppendProperties
<1> HIDE DEF r
<1>2. s \in [1..len -> Seq(Blocks)]
  BY <1>1 DEF HaveLinks
<1>3. s \in Seq(Seq(Blocks))
  BY <1>1, <1>2, SeqDef
<1>4. Len(s) = len
  BY <1>1, <1>2, <1>3, LenProperties, SameInterval
<1>5. t = Append(s, S.disk[n].links)
  <2> DEFINE u == Append(s, S.disk[n].links)
  <2> HIDE DEF s
  <2>1. u \in Seq(Seq(Blocks)) /\ Len(u) = len + 1 /\ u[len + 1] = S.disk[n].links
        /\ \A k \in 1..len : u[k] = s[k]
    BY <1>3, <1>4, AppendProperties
  <2> HIDE DEF u
  <2>2. DOMAIN u = 1..(len + 1) /\ u = [k \in 1..(len + 1) |-> u[k]]
    BY <2>1, LenProperties, SeqDef
  <2>3. \A k \in 1..(len + 1) : k \in 1..len \/ k = len + 1
    BY <1>1
  <2>4. \A k \in 1..(len + 1) : S.disk[r[k]].links = u[k]
    <3> TAKE k \in 1..(len + 1)
    <3>1. CASE k \in 1..len
      BY <1>1, <2>1, <3>1 DEF s
    <3>2. CASE k = len + 1
      BY <1>1, <2>1, <3>2
    <3> QED
      BY <2>3, <3>1, <3>2
  <2>5. t = [k \in 1..(len + 1) |-> S.disk[r[k]].links]
    BY <1>1
  <2> HIDE DEF t
  <2> QED
    BY <2>2, <2>4, <2>5 DEF u
<1> HIDE DEF s
<1>6. FlattenSeq(Append(s, S.disk[n].links)) = FlattenSeq(s) \o S.disk[n].links
  BY <1>3, FlattenAppend
<1>7. LinksOf(S, r) = FlattenSeq(t)
  BY DEF LinksOf
<1>8. LinksOf(S, ns) = FlattenSeq(s)
  BY DEF LinksOf, s
<1> HIDE DEF t
<1> QED
  BY <1>5, <1>6, <1>7, <1>8 DEF r

LEMMA ConcatAppend ==
  ASSUME NEW A, NEW s \in Seq(A), NEW t \in Seq(A), NEW e \in A
  PROVE  s \o Append(t, e) = Append(s \o t, e)
<1>1. <<e>> \in Seq(A) /\ s \o t \in Seq(A)
  BY ConcatProperties
<1>2. Append(t, e) = t \o <<e>>
  BY AppendIsConcat
<1>3. Append(s \o t, e) = (s \o t) \o <<e>>
  BY <1>1, AppendIsConcat
<1> QED
  BY <1>1, <1>2, <1>3, ConcatAssociative

\* The directories stay as they are.
LEMMA TreeStays ==
  ASSUME NEW S, ImageOK(S), NEW T, T \in Images,
         Dirs(T) = Dirs(S), Files(T) = Files(S), InfoBlocks(T) = InfoBlocks(S),
         \A a \in Dirs(S) : T.disk[a] = S.disk[a],
         \A a \in Headers(S) : T.disk[a].meta = S.disk[a].meta /\ T.disk[a].parent = S.disk[a].parent,
         \A a \in InfoBlocks(S) : T.disk[a].name = S.disk[a].name
  PROVE  ParentsOK(T) /\ EntriesOK(T) /\ MetasOK(T) /\ ReachOK(T)
<1>1. /\ S \in Images /\ ParentsOK(S) /\ EntriesOK(S) /\ MetasOK(S) /\ ReachOK(S)
  BY DEF ImageOK, TypesOK
<1>2. Headers(T) = Headers(S)
  BY DEF Headers
<1>3. \A a \in Headers(S) : NameOf(T, a) = NameOf(S, a)
  BY <1>1 DEF NameOf, InfoOf, MetasOK
<1>4. ParentsOK(T)
  <2>1. root \in Dirs(S) /\ root \in Headers(S)
    BY <1>1 DEF ParentsOK, Headers
  <2> QED
    BY <1>1, <1>2, <2>1 DEF ParentsOK
<1>5. EntriesOK(T)
  <2> SUFFICES ASSUME NEW a \in Dirs(S)
               PROVE  /\ S.disk[a].next = 0
                      /\ \A j \in 1..Len(S.disk[a].links) :
                           /\ S.disk[a].links[j] \in Headers(S) \ {root}
                           /\ T.disk[S.disk[a].links[j]].parent = a
                           /\ NameOf(T, S.disk[a].links[j]) \in Names
                           /\ \A k \in 1..Len(S.disk[a].links) :
                                NameOf(T, S.disk[a].links[j]) = NameOf(T, S.disk[a].links[k]) => j = k
    BY <1>2, SMTT(30) DEF EntriesOK
  <2>1. /\ S.disk[a].next = 0
        /\ \A j \in 1..Len(S.disk[a].links) :
                           /\ S.disk[a].links[j] \in Headers(S) \ {root}
                           /\ S.disk[S.disk[a].links[j]].parent = a
                           /\ NameOf(S, S.disk[a].links[j]) \in Names
                           /\ \A k \in 1..Len(S.disk[a].links) :
                                NameOf(S, S.disk[a].links[j]) = NameOf(S, S.disk[a].links[k]) => j = k
    BY <1>1 DEF EntriesOK
  <2> QED
    BY <1>3, <2>1
<1>6. MetasOK(T)
  BY <1>1, <1>2 DEF MetasOK
<1>7. ReachOK(T)
  <2>1. ASSUME NEW x, NEW y, NEW z, IsEntry(S, x, y, z)
        PROVE  IsEntry(T, x, y, z)
    <3>1. x \in Dirs(S) /\ z \in Range(S.disk[x].links) /\ NameOf(S, z) = y /\ z \in Headers(S)
      BY <1>1, <2>1, EntryIs DEF IsEntry
    <3> QED
      BY <1>3, <3>1 DEF IsEntry
  <2>2. \A q \in Seq(Names) : get_inode_block(S, q).full_match =>
          /\ get_inode_block(T, q).full_match
          /\ get_inode_block(T, q).block = get_inode_block(S, q).block
    BY <1>1, <1>4, <1>5, <2>1, LookupGrows
  <2> QED
    BY <1>1, <1>2, <2>2, PathsAre DEF ReachOK
<1> QED
  BY <1>4, <1>5, <1>6, <1>7

\* One more link, behind the links l of inode n, to one more block of data.
OneMore(S, T, n, l, b) ==
  /\ b \notin DataBlocks(S) /\ b \in Blocks /\ l \in Seq(Blocks)
  /\ \/ n \in Holders(S) /\ l = S.disk[n].links
     \/ n \notin Holders(S) /\ l = <<>>
  /\ \A a : a \in Holders(T) <=> (a \in Holders(S) \/ a = n)
  /\ \A a : a \in DataBlocks(T) <=> (a \in DataBlocks(S) \/ a = b)
  /\ T.disk[n].links = Append(l, b)
  /\ \A a \in Holders(S) : a # n => T.disk[a].links = S.disk[a].links

LEMMA DataGrows ==
  ASSUME NEW S, ImageOK(S), NEW T, NEW n, NEW l, NEW b, OneMore(S, T, n, l, b)
  PROVE  DataOK(T)
<1>0. /\ DataOK(S) /\ b \notin DataBlocks(S) /\ b \in Blocks /\ l \in Seq(Blocks)
      /\ \/ n \in Holders(S) /\ l = S.disk[n].links
         \/ n \notin Holders(S) /\ l = <<>>
  BY DEF ImageOK, OneMore
<1>1. /\ \A a : a \in Holders(T) <=> (a \in Holders(S) \/ a = n)
      /\ \A a : a \in DataBlocks(T) <=> (a \in DataBlocks(S) \/ a = b)
      /\ T.disk[n].links = Append(l, b)
      /\ \A a \in Holders(S) : a # n => T.disk[a].links = S.disk[a].links
  BY DEF OneMore
<1> DEFINE r == T.disk[n].links
           len == Len(l)
<1>2. /\ len \in Nat /\ Len(r) = len + 1 /\ r[len + 1] = b /\ \A k \in 1..len : r[k] = l[k]
      /\ r \in Seq(Blocks) /\ Len(r) \in Nat
  BY <1>0, <1>1, LenProperties, AppendProperties
<1>3. \A k \in 1..len : n \in Holders(S) /\ k \in 1..Len(S.disk[n].links) /\ l[k] = S.disk[n].links[k]
  BY <1>0
<1> HIDE DEF r, len
<1>4. \A k \in 1..Len(r) : k \in 1..len \/ k = len + 1
  BY <1>2
\* Of every link, which one of S it was, or the new one.
<1>5. \A a \in Holders(T) : \A k \in 1..Len(T.disk[a].links) :
        \/ a \in Holders(S) /\ k \in 1..Len(S.disk[a].links) /\ T.disk[a].links[k] = S.disk[a].links[k]
        \/ a = n /\ k = len + 1 /\ T.disk[a].links[k] = b
  <2> TAKE a \in Holders(T)
  <2> TAKE k \in 1..Len(T.disk[a].links)
  <2>1. CASE a = n
    BY <1>2, <1>3, <1>4, <2>1 DEF r
  <2>2. CASE a # n
    BY <1>1, <2>2
  <2> QED
    BY <2>1, <2>2
<1>6. \A a \in Holders(S) : \A k \in 1..Len(S.disk[a].links) :
        /\ S.disk[a].links[k] \in DataBlocks(S) /\ S.disk[a].links[k] # b
        /\ \A c \in Holders(S) : \A j \in 1..Len(S.disk[c].links) :
             S.disk[a].links[k] = S.disk[c].links[j] => a = c /\ k = j
  BY <1>0 DEF DataOK
<1>7. ASSUME NEW a \in Holders(T), NEW k \in 1..Len(T.disk[a].links)
      PROVE  /\ T.disk[a].links[k] \in DataBlocks(T)
             /\ \A c \in Holders(T) : \A j \in 1..Len(T.disk[c].links) :
                  T.disk[a].links[k] = T.disk[c].links[j] => a = c /\ k = j
  <2>1. T.disk[a].links[k] \in DataBlocks(T)
    BY <1>1, <1>5, <1>6
  <2>2. ASSUME NEW c \in Holders(T), NEW j \in 1..Len(T.disk[c].links),
               T.disk[a].links[k] = T.disk[c].links[j]
        PROVE  a = c /\ k = j
    <3>1. CASE T.disk[a].links[k] = b
      <4>1. a = n /\ k = len + 1
        BY <1>5, <1>6, <3>1
      <4>2. T.disk[c].links[j] = b
        BY <2>2, <3>1
      <4>3. c = n /\ j = len + 1
        BY <1>5, <1>6, <4>2
      <4> QED
        BY <4>1, <4>3
    <3>2. CASE T.disk[a].links[k] # b
      <4>1. a \in Holders(S) /\ k \in 1..Len(S.disk[a].links) /\ T.disk[a].links[k] = S.disk[a].links[k]
        BY <1>5, <3>2
      <4>2. c \in Holders(S) /\ j \in 1..Len(S.disk[c].links) /\ T.disk[c].links[j] = S.disk[c].links[j]
        BY <1>5, <2>2, <3>2
      <4>3. S.disk[a].links[k] = S.disk[c].links[j]
        BY <2>2, <4>1, <4>2
      <4> QED
        BY <1>6, <4>1, <4>2, <4>3
    <3> QED
      BY <3>1, <3>2
  <2> QED
    BY <2>1, <2>2
<1>8. ASSUME NEW x \in DataBlocks(T)
      PROVE  \E a \in Holders(T) : x \in Range(T.disk[a].links)
  <2>1. \A y : y \in Range(r) <=> \E k \in 1..Len(r) : r[k] = y
    BY <1>2, RangeIs
  <2>2. CASE x = b
    <3>1. len + 1 \in 1..Len(r)
      BY <1>2
    <3>2. b \in Range(r)
      BY <1>2, <2>1, <3>1
    <3> QED
      BY <1>1, <2>2, <3>2 DEF r
  <2>3. CASE x # b
    <3>1. PICK a \in Holders(S) : x \in Range(S.disk[a].links)
      BY <1>0, <1>1, <2>3 DEF DataOK
    <3>2. CASE a = n
      <4>1. x \in Range(l)
        BY <1>0, <3>1, <3>2
      <4>2. PICK k \in 1..len : l[k] = x
        BY <1>0, <4>1, RangeIs DEF len
      <4>3. k \in 1..Len(r)
        BY <1>2
      <4>4. x \in Range(r)
        BY <1>2, <2>1, <4>2, <4>3
      <4> QED
        BY <1>1, <3>2, <4>4 DEF r
    <3>3. CASE a # n
      BY <1>1, <3>1, <3>3
    <3> QED
      BY <3>2, <3>3
  <2> QED
    BY <2>2, <2>3
<1> QED
  BY <1>7, <1>8 DEF DataOK

\* T is S with one more block of data, b, linked from inode n of file f: n is
\* the last inode l of f in S, or new and behind l.  old are the links of n in S.
Extended(S, T, f, b, chunk, l, n, old) ==
  /\ T \in Images /\ SuperOK(T) /\ FreeOK(T)
  /\ b \in FreeOnes(S) /\ T.disk[b] = Data(chunk)
  /\ l \in Range(Nodes(S, f))
  /\ \/ n = l /\ old = S.disk[l].links
     \/ n \in FreeOnes(S) /\ n # b /\ old = <<>> /\ T.disk[n].mode = "CHILD" /\ T.disk[n].parent = f
  /\ old \in Seq(Blocks) /\ Len(old) < MaxLinks
  /\ T.disk[n] \in INodes /\ T.disk[n].links = Append(old, b)
  /\ T.disk[l] \in INodes /\ T.disk[l].mode = S.disk[l].mode
  /\ T.disk[l].parent = S.disk[l].parent /\ T.disk[l].meta = S.disk[l].meta
  /\ n # l => T.disk[l].links = S.disk[l].links
  /\ WithSize(S.disk[S.disk[f].meta], S.disk[S.disk[f].meta].size + Len(chunk), T.disk[S.disk[f].meta])
  /\ \A a \in Blocks : a # b /\ a # n /\ a # l /\ a # S.disk[f].meta => T.disk[a] = S.disk[a]
  /\ Chained(T, f, Nodes(T, f))
  /\ \A x : x \in Range(Nodes(T, f)) <=> (x \in Range(Nodes(S, f)) \/ x = n)
  /\ LinksOf(T, Nodes(T, f)) = Append(LinksOf(S, Nodes(S, f)), b)

LEMMA GrowthKeeps ==
  ASSUME NEW S, ImageOK(S), NEW f \in Files(S), NEW T, NEW chunk, Len(chunk) \in 1..BlkSz,
         NEW b, NEW l, NEW n, NEW old, Extended(S, T, f, b, chunk, l, n, old)
  PROVE  ImageOK(T) /\ OnlyFile(S, T, f) /\ OneChunkMore(S, T, f, chunk)
<1> DEFINE m == S.disk[f].meta
<1>1. /\ S \in Images /\ T \in Images /\ SuperOK(T) /\ FreeOK(T) /\ TypesOK(S)
      /\ MetasOK(S) /\ ChainsOK(S) /\ SizesOK(S)
  BY DEF ImageOK, TypesOK, Extended
<1>2. /\ f \in Headers(S) /\ f \in Holders(S) /\ l \in Holders(S) /\ m \in InfoBlocks(S)
      /\ \A x \in Range(Nodes(S, f)) : x \in Holders(S)
  <2>1. Nodes(S, f) \in Seq(Blocks) /\ \A k \in 1..Len(Nodes(S, f)) : Nodes(S, f)[k] \in Holders(S)
    BY FileIs
  <2>2. \A x \in Range(Nodes(S, f)) : x \in Holders(S)
    BY <2>1, RangeIs
  <2>3. f \in Headers(S) /\ f \in Holders(S)
    BY DEF Headers, Holders
  <2> QED
    BY <1>1, <2>2, <2>3 DEF Extended, MetasOK
<1>3. /\ \A a \in Holders(S) : a \in Blocks /\ S.disk[a].kind = "inode" /\ S.disk[a] \in INodes
                               /\ S.disk[a].mode \in {"REG", "CHILD"}
      /\ m \in Blocks /\ S.disk[m].kind = "info" /\ S.disk[m].size \in Nat
      /\ b \in Blocks /\ S.disk[b].kind = "free"
      /\ n \in Blocks /\ (n = l \/ (S.disk[n].kind = "free" /\ n # b /\ T.disk[n].mode = "CHILD"))
  <2>1. S.disk[m] \in Infos /\ \A a \in Holders(S) : S.disk[a] \in INodes
    BY <1>1, <1>2, BlockIs DEF Headers, Holders
  <2>2. \A a \in Holders(S) : a \in Blocks /\ S.disk[a].kind = "inode"
                               /\ S.disk[a].mode \in {"REG", "CHILD"}
    BY DEF Holders, Files, Children
  <2>3. b \in Blocks /\ S.disk[b].kind = "free" /\ m \in Blocks /\ S.disk[m].kind = "info"
    BY <1>2 DEF Extended, FreeOnes, InfoBlocks
  <2>4. n \in Blocks /\ (n = l \/ (S.disk[n].kind = "free" /\ n # b /\ T.disk[n].mode = "CHILD"))
    BY <1>2, <2>2 DEF Extended, FreeOnes
  <2> QED
    BY <2>1, <2>2, <2>3, <2>4 DEF Infos
<1>4. /\ T.disk[b].kind = "data" /\ T.disk[b].bytes = chunk
      /\ T.disk[n].kind = "inode" /\ T.disk[n].links = Append(old, b)
      /\ T.disk[l].kind = "inode" /\ T.disk[l].mode = S.disk[l].mode
      /\ T.disk[l].parent = S.disk[l].parent /\ T.disk[l].meta = S.disk[l].meta
      /\ T.disk[m].kind = "info" /\ T.disk[m].name = S.disk[m].name
      /\ T.disk[m].size = S.disk[m].size + Len(chunk)
  BY DEF Extended, Data, INodes, WithSize, Infos
<1>5. \A a \in Blocks : a # b /\ a # n /\ a # l /\ a # m => T.disk[a] = S.disk[a]
  BY DEF Extended
<1>6. n # l => T.disk[l].links = S.disk[l].links /\ T.disk[n].parent = f
  BY DEF Extended
<1> HIDE DEF m
<1>7. /\ b # m /\ b # l /\ b # n /\ m # l /\ m # n /\ l \in Blocks
  BY <1>2, <1>3
<1>8. /\ \A a : a \in Dirs(T) <=> a \in Dirs(S)
      /\ \A a : a \in Files(T) <=> a \in Files(S)
      /\ \A a : a \in Children(T) <=> (a \in Children(S) \/ (a = n /\ n # l))
      /\ \A a : a \in InfoBlocks(T) <=> a \in InfoBlocks(S)
      /\ \A a : a \in DataBlocks(T) <=> (a \in DataBlocks(S) \/ a = b)
  <2>1. \A a : a \in Dirs(T) <=> a \in Dirs(S)
    <3>1. T.disk[n].mode # "DIR" /\ T.disk[l].mode # "DIR" /\ S.disk[l].mode # "DIR"
      BY <1>2, <1>3, <1>4
    <3>2. \A a : a \in {n, l} => a \notin Dirs(S) /\ a \notin Dirs(T)
      BY <1>3, <1>7, <3>1, <1>2 DEF Dirs
    <3>3. \A a : a \in {b, m} => a \notin Dirs(S) /\ a \notin Dirs(T)
      BY <1>3, <1>4, <1>7 DEF Dirs
    <3>4. \A a : a \notin {b, m, n, l} => (a \in Dirs(T) <=> a \in Dirs(S))
      BY <1>5, <1>7 DEF Dirs
    <3> QED
      BY <3>2, <3>3, <3>4
  <2>2. \A a : a \in Files(T) <=> a \in Files(S)
    <3>1. l \in Files(T) <=> l \in Files(S)
      BY <1>2, <1>3, <1>4 DEF Files
    <3>2. n # l => n \notin Files(S) /\ n \notin Files(T)
      BY <1>3 DEF Files
    <3>3. \A a : a \in {b, m} => a \notin Files(S) /\ a \notin Files(T)
      BY <1>3, <1>4, <1>7 DEF Files
    <3>4. \A a : a \notin {b, m, n, l} => (a \in Files(T) <=> a \in Files(S))
      BY <1>5, <1>7 DEF Files
    <3> QED
      BY <3>1, <3>2, <3>3, <3>4
  <2>3. \A a : a \in Children(T) <=> (a \in Children(S) \/ (a = n /\ n # l))
    BY <1>2, <1>3, <1>4, <1>5, <1>7 DEF Children
  <2>4. \A a : a \in InfoBlocks(T) <=> a \in InfoBlocks(S)
    BY <1>2, <1>3, <1>4, <1>5, <1>7 DEF InfoBlocks
  <2>5. \A a : a \in DataBlocks(T) <=> (a \in DataBlocks(S) \/ a = b)
    BY <1>2, <1>3, <1>4, <1>5, <1>7 DEF DataBlocks
  <2> QED
    BY <2>1, <2>2, <2>3, <2>4, <2>5
<1>9. /\ Dirs(T) = Dirs(S) /\ Files(T) = Files(S) /\ InfoBlocks(T) = InfoBlocks(S)
      /\ Headers(T) = Headers(S)
      /\ \A a : a \in Holders(T) <=> (a \in Holders(S) \/ a = n)
  BY <1>2, <1>8 DEF Headers, Holders
<1>10. /\ \A a \in Dirs(S) : T.disk[a] = S.disk[a]
       /\ \A a \in DataBlocks(S) : T.disk[a] = S.disk[a]
       /\ \A a \in Holders(S) : a # l => T.disk[a] = S.disk[a]
       /\ \A a \in InfoBlocks(S) : T.disk[a].name = S.disk[a].name /\ (a # m => T.disk[a] = S.disk[a])
  BY <1>2, <1>3, <1>4, <1>5, <1>7, SMTT(30) DEF Dirs, DataBlocks, InfoBlocks
<1>11. \A a \in Headers(S) : T.disk[a].meta = S.disk[a].meta /\ T.disk[a].parent = S.disk[a].parent
  BY <1>4, <1>10 DEF Headers, Holders
<1>12. ParentsOK(T) /\ EntriesOK(T) /\ MetasOK(T) /\ ReachOK(T)
  BY <1>1, <1>9, <1>10, <1>11, TreeStays
<1>13. TypesOK(T)
  <2>1. \A a \in DataBlocks(T) : Len(T.disk[a].bytes) \in 1..BlkSz
    BY <1>1, <1>4, <1>8, <1>10 DEF TypesOK
  <2>2. \A a \in Headers(T) \cup Children(T) : Len(T.disk[a].links) <= MaxLinks
    <3> TAKE a \in Headers(T) \cup Children(T)
    <3>1. CASE a = n
      <4>1. Len(Append(old, b)) = Len(old) + 1 /\ Len(old) \in Nat /\ Len(old) < MaxLinks
        BY <1>3, AppendProperties, LenProperties DEF Extended
      <4> QED
        BY <1>4, <3>1, <4>1, FormatAssumption
    <3>2. CASE a # n
      <4>1. a \in Headers(S) \cup Children(S)
        BY <1>8, <1>9, <3>2
      <4>2. T.disk[a].links = S.disk[a].links
        BY <1>6, <1>10, <3>2, <4>1 DEF Headers, Holders
      <4> QED
        BY <1>1, <4>1, <4>2 DEF TypesOK
    <3> QED
      BY <3>1, <3>2
  <2> QED
    BY <1>1, <2>1, <2>2 DEF TypesOK
<1>14. DataOK(T)
  <2>1. b \notin DataBlocks(S) /\ old \in Seq(Blocks)
    BY <1>3 DEF DataBlocks, Extended
  <2>2. \/ n \in Holders(S) /\ old = S.disk[n].links
        \/ n \notin Holders(S) /\ old = <<>>
    BY <1>2, <1>3 DEF Extended, FreeOnes
  <2>3. \A a \in Holders(S) : a # n => T.disk[a].links = S.disk[a].links
    BY <1>6, <1>10
  <2>4. OneMore(S, T, n, old, b)
    BY <1>3, <1>4, <1>8, <1>9, <2>1, <2>2, <2>3 DEF OneMore
  <2> QED
    BY <2>4, DataGrows
<1>15. \A g \in Files(S) : g # f =>
         /\ Nodes(T, g) = Nodes(S, g) /\ Chained(T, g, Nodes(T, g))
         /\ Bytes(T, LinksOf(T, Nodes(T, g))) = Bytes(S, LinksOf(S, Nodes(S, g)))
         /\ LinksOf(T, Nodes(T, g)) = LinksOf(S, Nodes(S, g))
         /\ \A x \in Range(LinksOf(S, Nodes(S, g))) : T.disk[x] = S.disk[x]
  <2> SUFFICES ASSUME NEW g \in Files(S), g # f
               PROVE  /\ Nodes(T, g) = Nodes(S, g) /\ Chained(T, g, Nodes(T, g))
                      /\ Bytes(T, LinksOf(T, Nodes(T, g))) = Bytes(S, LinksOf(S, Nodes(S, g)))
                      /\ LinksOf(T, Nodes(T, g)) = LinksOf(S, Nodes(S, g))
                      /\ \A x \in Range(LinksOf(S, Nodes(S, g))) : T.disk[x] = S.disk[x]
    OBVIOUS
  <2>1. /\ Nodes(S, g) \in Seq(Blocks)
        /\ \A k \in 1..Len(Nodes(S, g)) : Nodes(S, g)[k] \in Holders(S)
        /\ \A x \in Range(LinksOf(S, Nodes(S, g))) : x \in DataBlocks(S)
    BY FileIs
  <2>2. \A a \in Range(Nodes(S, g)) : a \in Holders(S)
    BY <2>1, RangeIs
  <2>3. l \notin Range(Nodes(S, g))
    BY OneFile DEF Extended
  <2>4. \A a \in Range(Nodes(S, g)) : T.disk[a] = S.disk[a]
    BY <1>10, <2>2, <2>3
  <2>5. \A x \in Range(LinksOf(S, Nodes(S, g))) : T.disk[x] = S.disk[x]
    BY <1>10, <2>1
  <2> QED
    BY <2>4, <2>5, FileFrame
<1>16. ChainsOK(T)
  <2>1. \A g \in Files(T) : Chained(T, g, Nodes(T, g))
    BY <1>9, <1>15 DEF Extended
  <2>2. ASSUME NEW c \in Children(T)
        PROVE  T.disk[c].parent \in Files(T) /\ c \in Range(Nodes(T, T.disk[c].parent))
    <3>1. CASE c = n /\ n # l
      BY <1>6, <1>9, <3>1 DEF Extended
    <3>2. CASE ~(c = n /\ n # l)
      <4>1. c \in Children(S) /\ c \in Holders(S)
        BY <1>8, <3>2 DEF Holders
      <4> DEFINE g == S.disk[c].parent
      <4>2. g \in Files(S) /\ c \in Range(Nodes(S, g))
        BY <1>1, <4>1 DEF ChainsOK
      <4>3. T.disk[c].parent = g
        BY <1>4, <1>10, <4>1
      <4> HIDE DEF g
      <4>4. c \in Range(Nodes(T, g))
        <5>1. CASE g = f
          BY <4>2, <5>1 DEF Extended
        <5>2. CASE g # f
          BY <1>15, <4>2, <5>2
        <5> QED
          BY <5>1, <5>2
      <4> QED
        BY <1>9, <4>2, <4>3, <4>4
    <3> QED
      BY <3>1, <3>2
  <2> QED
    BY <2>1, <2>2 DEF ChainsOK
<1>17. SizesOK(T)
  <2>1. \A a \in Headers(S) : a # f => InfoOf(T, a).size = InfoOf(S, a).size
    BY <1>1, <1>2, <1>10, <1>11 DEF InfoOf, MetasOK, m
  <2>2. \A a \in Dirs(T) : InfoOf(T, a).size = Len(T.disk[a].links)
    <3> TAKE a \in Dirs(T)
    <3>1. a \in Dirs(S) /\ a \in Headers(S) /\ a # f
      BY <1>9 DEF Headers, Dirs, Files
    <3> QED
      BY <1>1, <1>10, <2>1, <3>1 DEF SizesOK
  <2>3. ASSUME NEW g \in Files(T)
        PROVE  InfoOf(T, g).size = Bytes(T, LinksOf(T, Nodes(T, g)))
    <3>1. CASE g # f
      <4>1. g \in Files(S) /\ g \in Headers(S)
        BY <1>9 DEF Headers
      <4> QED
        BY <1>1, <1>15, <2>1, <3>1, <4>1 DEF SizesOK
    <3>2. CASE g = f
      <4> DEFINE ls == LinksOf(S, Nodes(S, f))
      <4>1. InfoOf(T, f).size = S.disk[m].size + Len(chunk)
        BY <1>2, <1>4, <1>11 DEF InfoOf, m
      <4>2. S.disk[m].size = Bytes(S, ls)
        BY <1>1 DEF SizesOK, InfoOf, m
      <4>3. ls \in Seq(Blocks) /\ \A x \in Range(ls) : x \in DataBlocks(S)
        BY FileIs
      <4>4. LinksOf(T, Nodes(T, f)) = Append(ls, b)
        BY DEF Extended
      <4> HIDE DEF ls
      <4>5. \A k \in 1..Len(ls) : T.disk[ls[k]] = S.disk[ls[k]]
        BY <1>10, <4>3, RangeIs
      <4>6. Begins(S, ls, T, ls)
        BY <4>3, <4>5, LenProperties DEF Begins
      <4>7. Bytes(T, Append(ls, b)) = Bytes(S, ls) + Len(T.disk[b].bytes)
        BY <1>3, <4>3, <4>6, BytesAppend
      <4> QED
        BY <1>4, <3>2, <4>1, <4>2, <4>4, <4>7
    <3> QED
      BY <3>1, <3>2
  <2> QED
    BY <2>2, <2>3 DEF SizesOK
<1>18. SameEntries(S, T)
  <2>1. \A a \in Headers(S) : NameOf(T, a) = NameOf(S, a)
    BY <1>1, <1>10, <1>11 DEF NameOf, InfoOf, MetasOK
  <2>2. ASSUME NEW x, NEW y, NEW z, IsEntry(S, x, y, z)
        PROVE  IsEntry(T, x, y, z)
    <3>1. z \in Headers(S)
      BY <1>1, <2>2, EntryIs DEF ImageOK
    <3> QED
      BY <1>9, <1>10, <2>1, <2>2, <3>1 DEF IsEntry
  <2>3. ASSUME NEW x, NEW y, NEW z, IsEntry(T, x, y, z)
        PROVE  IsEntry(S, x, y, z)
    <3>1. z \in Headers(S)
      BY <1>1, <1>9, <1>12, <2>3, EntryIs
    <3> QED
      BY <1>9, <1>10, <2>1, <2>3, <3>1 DEF IsEntry
  <2> QED
    BY <2>2, <2>3 DEF SameEntries
<1>19. \A a \in Headers(S) : a # f => InfoOf(T, a).size = InfoOf(S, a).size
  BY <1>1, <1>2, <1>10, <1>11 DEF InfoOf, MetasOK, m
<1>20. OnlyFile(S, T, f)
  <2>1. \A g \in Files(S) : g # f => Stays(S, T, g)
    BY <1>15, <1>19 DEF Stays, Headers
  <2> QED
    BY <1>9, <1>18, <2>1 DEF OnlyFile
<1>21. OneChunkMore(S, T, f, chunk)
  <2>1. InfoOf(T, f).size = InfoOf(S, f).size + Len(chunk)
    BY <1>2, <1>4, <1>11 DEF InfoOf, m
  <2>2. \A x \in Range(LinksOf(S, Nodes(S, f))) : x \in DataBlocks(S)
    BY FileIs
  <2>3. LinksOf(T, Nodes(T, f)) = Append(LinksOf(S, Nodes(S, f)), b) /\ T.disk[b] = Data(chunk)
    BY DEF Extended
  <2> QED
    BY <1>3, <1>10, <2>1, <2>2, <2>3 DEF OneChunkMore
<1> QED
  BY <1>1, <1>12, <1>13, <1>14, <1>16, <1>17, <1>20, <1>21 DEF ImageOK

\* The inodes of a file: the last one, and those before it.
LEMMA LastIs ==
  ASSUME NEW S, ImageOK(S), NEW f \in Files(S)
  PROVE  LET ns == Nodes(S, f)
             len == Len(ns)
             l == ns[len] IN
         /\ ns \in Seq(Blocks) /\ len \in Nat /\ len >= 1 /\ l \in Range(ns) /\ l \in Blocks
         /\ Len(S.disk[l].links) \in 0..MaxLinks
         /\ \A k \in 1..(len - 1) : Len(S.disk[ns[k]].links) = MaxLinks /\ ns[k] # l
         /\ \A x \in Range(ns) : x \in Holders(S) /\ S.disk[x] \in INodes /\ S.disk[x].kind = "inode"
         /\ \E nf \in Seq(Blocks) : ns = Append(nf, l) /\ Len(nf) = len - 1
<1> DEFINE ns == Nodes(S, f)
           len == Len(ns)
           l == ns[len]
<1>1. /\ ns \in Seq(Blocks) /\ len \in Nat /\ len >= 1 /\ Distinct(ns)
      /\ \A k \in 1..len : ns[k] \in Holders(S)
  BY FileIs
<1>2. Chained(S, f, ns)
  BY DEF ImageOK, ChainsOK
<1> HIDE DEF ns
<1>3. len \in 1..len
  BY <1>1
<1>4. l \in Range(ns) /\ l \in Blocks /\ l \in Holders(S)
  BY <1>1, <1>3, RangeIs, ElementOfSeq
<1>5. \A x \in Range(ns) : x \in Holders(S) /\ S.disk[x] \in INodes /\ S.disk[x].kind = "inode"
  <2>1. \A x \in Range(ns) : x \in Holders(S)
    BY <1>1, RangeIs
  <2> QED
    BY <2>1, BlockIs DEF ImageOK, TypesOK, Holders, Headers, Files, Children
<1>6. Len(S.disk[l].links) \in 0..MaxLinks
  <2>1. S.disk[l].links \in Seq(Blocks)
    BY <1>4, <1>5 DEF INodes
  <2>2. Len(S.disk[l].links) <= MaxLinks
    BY <1>4 DEF ImageOK, TypesOK, Holders, Headers
  <2> QED
    BY <2>1, <2>2, LenProperties, FormatAssumption
<1>7. ASSUME NEW k \in 1..(len - 1)
      PROVE  Len(S.disk[ns[k]].links) = MaxLinks /\ ns[k] # l
  <2>1. k + 1 \in 2..len /\ k + 1 - 1 = k /\ k \in 1..len /\ k # len
    BY <1>1
  <2>2. ns[k] # l
    BY <1>1, <1>3, <2>1 DEF Distinct
  <2> QED
    BY <1>2, <2>1, <2>2 DEF Chained
<1>8. \E nf \in Seq(Blocks) : ns = Append(nf, l) /\ Len(nf) = len - 1
  <2>1. ns # <<>>
    BY <1>1, EmptySeq
  <2>2. PICK nf \in Seq(Blocks), e \in Blocks : ns = Append(nf, e)
    BY <1>1, <2>1, SequenceEmptyOrAppend
  <2>3. len = Len(nf) + 1 /\ ns[Len(nf) + 1] = e /\ Len(nf) \in Nat
    BY <2>2, AppendProperties, LenProperties
  <2> QED
    BY <2>2, <2>3
<1> QED
  BY <1>1, <1>4, <1>5, <1>6, <1>7, <1>8 DEF ns

\* The inodes of a file after one more block is linked from the last one.
LEMMA LinkedInLast ==
  ASSUME NEW S, ImageOK(S), NEW f \in Files(S), NEW ns, ns = Nodes(S, f),
         NEW l, l = ns[Len(ns)], NEW old, old = S.disk[l].links, NEW b \in Blocks,
         NEW T,
         WithLinks(S.disk[l], Append(old, b), T.disk[l]),
         \A x \in Range(ns) : x # l => T.disk[x] = S.disk[x]
  PROVE  /\ Nodes(T, f) = ns /\ Chained(T, f, ns)
         /\ LinksOf(T, ns) = Append(LinksOf(S, ns), b)
<1> DEFINE len == Len(ns)
<1>1. /\ ns \in Seq(Blocks) /\ len \in Nat /\ len >= 1 /\ l \in Range(ns) /\ l \in Blocks
      /\ \A k \in 1..(len - 1) : ns[k] # l
      /\ \A x \in Range(ns) : S.disk[x] \in INodes /\ S.disk[x].kind = "inode"
  BY LastIs
<1>2. Chained(S, f, ns) /\ Linking(S, f, ns)
  BY DEF ImageOK, ChainsOK, Chained
<1>3. \A k \in 1..len : ns[k] \in Range(ns) /\ ns[k] \in Blocks
  BY <1>1, RangeIs
<1>4. old \in Seq(Blocks) /\ Append(old, b) \in Seq(Blocks) /\ Append(old, b) # <<>>
  <2>1. old \in Seq(Blocks)
    BY <1>1 DEF INodes
  <2> QED
    BY <2>1, AppendProperties
<1>5. /\ T.disk[l].next = S.disk[l].next /\ T.disk[l].kind = "inode" /\ T.disk[l].mode = S.disk[l].mode
      /\ T.disk[l].parent = S.disk[l].parent /\ T.disk[l].meta = S.disk[l].meta
      /\ T.disk[l].links = Append(old, b)
  BY DEF WithLinks, INodes
<1>6. \A k \in 1..len : /\ T.disk[ns[k]].next = S.disk[ns[k]].next
                        /\ T.disk[ns[k]].kind = S.disk[ns[k]].kind
                        /\ T.disk[ns[k]].mode = S.disk[ns[k]].mode
                        /\ T.disk[ns[k]].parent = S.disk[ns[k]].parent
                        /\ T.disk[ns[k]].meta = S.disk[ns[k]].meta
                        /\ T.disk[ns[k]].links = <<>> => S.disk[ns[k]].links = <<>>
  BY <1>1, <1>3, <1>4, <1>5, ZenonT(40)
<1>7. Linking(T, f, ns)
  <2>1. /\ len \in 1..len
        /\ \A k \in 1..(len - 1) : k \in 1..len
    BY <1>1
  <2> QED
    BY <1>2, <1>6, <2>1 DEF Linking
<1>8. Chained(T, f, ns)
  <2>1. \A k \in 2..len : k \in 1..len /\ k - 1 \in 1..len /\ k - 1 \in 1..(len - 1)
    BY <1>1
  <2>2. \A k \in 1..(len - 1) : T.disk[ns[k]] = S.disk[ns[k]]
    BY <1>1, <1>3
  <2>3. \A k \in 2..len :
          /\ ns[k] \in Children(S) /\ S.disk[ns[k]].parent = f /\ S.disk[ns[k]].meta = ns[k - 1]
          /\ S.disk[ns[k]].links # <<>> /\ Len(S.disk[ns[k - 1]].links) = MaxLinks
    BY <1>2 DEF Chained
  <2>4. \A k \in 2..len : ns[k] \in Children(T)
    BY <1>6, <2>1, <2>3 DEF Children
  <2> QED
    BY <1>6, <1>7, <2>1, <2>2, <2>3, <2>4, SMTT(30) DEF Chained
<1>9. LinksOf(T, ns) = Append(LinksOf(S, ns), b)
  <2>1. PICK nf \in Seq(Blocks) : ns = Append(nf, l) /\ Len(nf) = len - 1
    BY LastIs
  <2>2. \A k \in 1..Len(nf) : ns[k] = nf[k] /\ k \in 1..(len - 1) /\ k \in 1..len
    BY <1>1, <2>1, AppendProperties
  <2>3. \A k \in 1..Len(nf) : T.disk[nf[k]] = S.disk[nf[k]] /\ S.disk[nf[k]].links \in Seq(Blocks)
    BY <1>1, <1>3, <2>2 DEF INodes
  <2>4. HaveLinks(S, nf) /\ HaveLinks(T, nf) /\ SameLinks(S, T, nf)
    BY <2>3 DEF HaveLinks, SameLinks
  <2> DEFINE p == LinksOf(S, nf)
  <2>5. p \in Seq(Blocks)
    BY <2>3, LinksOfIs
  <2>6. LinksOf(T, nf) = p
    BY <2>4, LinksOfFrame
  <2>7. LinksOf(S, Append(nf, l)) = p \o old
    BY <1>1, <1>4, <2>4, LinksOfAppend, ZenonT(40)
  <2>8. LinksOf(T, Append(nf, l)) = LinksOf(T, nf) \o Append(old, b)
    <3> DEFINE new == Append(old, b)
    <3>1. T.disk[l].links = new /\ new \in Seq(Blocks)
      BY <1>4, <1>5, Zenon
    <3> HIDE DEF new
    <3>2. LinksOf(T, Append(nf, l)) = LinksOf(T, nf) \o T.disk[l].links
      BY <1>1, <2>4, <3>1, LinksOfAppend, Zenon
    <3> QED
      BY <3>1, <3>2, Zenon DEF new
  <2> HIDE DEF p
  <2>9. p \o Append(old, b) = Append(p \o old, b)
    <3>1. \A u, v \in Seq(Blocks), w \in Blocks : u \o Append(v, w) = Append(u \o v, w)
      BY ConcatAppend
    <3> QED
      BY <1>4, <2>5, <3>1, ZenonT(40)
  <2> QED
    BY <2>1, <2>6, <2>7, <2>8, <2>9, Zenon
<1> QED
  BY <1>7, <1>8, <1>9, NodesOfLinking

\* The same when it is linked from a new inode.
LEMMA LinkedInNew ==
  ASSUME NEW S, ImageOK(S), NEW f \in Files(S), NEW ns, ns = Nodes(S, f),
         NEW l, l = ns[Len(ns)], Len(S.disk[l].links) = MaxLinks,
         NEW b \in Blocks, NEW n \in Blocks, n # 0, n \in FreeOnes(S),
         NEW T, T.disk[n] = INode("CHILD", f, l, <<b>>),
         WithNext(S.disk[l], n, T.disk[l]),
         \A x \in Range(ns) : x # l => T.disk[x] = S.disk[x]
  PROVE  /\ Nodes(T, f) = Append(ns, n) /\ Chained(T, f, Append(ns, n))
         /\ LinksOf(T, Append(ns, n)) = Append(LinksOf(S, ns), b)
<1> DEFINE len == Len(ns)
           r == Append(ns, n)
<1>1. /\ ns \in Seq(Blocks) /\ len \in Nat /\ len >= 1 /\ l \in Range(ns) /\ l \in Blocks
      /\ \A k \in 1..(len - 1) : ns[k] # l
      /\ \A x \in Range(ns) : S.disk[x] \in INodes /\ S.disk[x].kind = "inode"
  BY LastIs
<1>2. Chained(S, f, ns) /\ Linking(S, f, ns)
  BY DEF ImageOK, ChainsOK, Chained
<1>3. \A k \in 1..len : ns[k] \in Range(ns) /\ ns[k] \in Blocks
  BY <1>1, RangeIs
<1>4. /\ T.disk[n].kind = "inode" /\ T.disk[n].mode = "CHILD" /\ T.disk[n].parent = f
      /\ T.disk[n].meta = l /\ T.disk[n].next = 0 /\ T.disk[n].links = <<b>>
  BY DEF INode
<1>5. /\ T.disk[l].next = n /\ T.disk[l].kind = "inode" /\ T.disk[l].mode = S.disk[l].mode
      /\ T.disk[l].parent = S.disk[l].parent /\ T.disk[l].meta = S.disk[l].meta
      /\ T.disk[l].links = S.disk[l].links
  BY DEF WithNext, INodes
<1>6. \A k \in 1..len : /\ k # len => T.disk[ns[k]].next = S.disk[ns[k]].next
                        /\ T.disk[ns[k]].kind = S.disk[ns[k]].kind
                        /\ T.disk[ns[k]].mode = S.disk[ns[k]].mode
                        /\ T.disk[ns[k]].parent = S.disk[ns[k]].parent
                        /\ T.disk[ns[k]].meta = S.disk[ns[k]].meta
                        /\ T.disk[ns[k]].links = S.disk[ns[k]].links
                        /\ ns[k] # n
  <2>1. \A k \in 1..len : k # len => k \in 1..(len - 1)
    BY <1>1
  <2>2. \A x \in Range(ns) : x # n
    BY <1>1 DEF FreeOnes
  <2> TAKE k \in 1..len
  <2>3. ns[k] \in Range(ns) /\ ns[k] # n
    BY <1>3, <2>2
  <2>4. CASE k = len
    BY <1>1, <1>5, <2>3, <2>4
  <2>5. CASE k # len
    BY <1>1, <2>1, <2>3, <2>5
  <2> QED
    BY <2>4, <2>5
<1>7. /\ r \in Seq(Blocks) /\ Len(r) = len + 1 /\ r[len + 1] = n /\ \A k \in 1..len : r[k] = ns[k]
  BY <1>1, AppendProperties
<1> HIDE DEF r
<1>8. \A k \in 1..(len + 1) : k \in 1..len \/ k = len + 1
  BY <1>1
<1>9. Linking(T, f, r)
  <2>1. Distinct(r)
    <3> SUFFICES ASSUME NEW i \in 1..(len + 1), NEW j \in 1..(len + 1), r[i] = r[j]
                 PROVE  i = j
      BY <1>7 DEF Distinct
    <3>1. Distinct(ns)
      BY <1>2 DEF Linking
    <3>2. CASE i \in 1..len /\ j \in 1..len
      BY <1>7, <3>1, <3>2 DEF Distinct
    <3>3. CASE i = len + 1 \/ j = len + 1
      BY <1>6, <1>7, <1>8, <3>3
    <3> QED
      BY <1>8, <3>2, <3>3
  <2>2. r[1] = f
    <3>1. 1 \in 1..len
      BY <1>1
    <3> QED
      BY <1>2, <1>7, <3>1 DEF Linking
  <2>3. ASSUME NEW k \in 1..len
        PROVE  T.disk[r[k]].next = r[k + 1] /\ r[k + 1] # 0
    <3>1. CASE k = len
      BY <1>5, <1>7, <3>1
    <3>2. CASE k # len
      <4>1. k \in 1..(len - 1) /\ k + 1 \in 1..len
        BY <1>1, <3>2
      <4> QED
        BY <1>2, <1>6, <1>7, <3>2, <4>1 DEF Linking
    <3> QED
      BY <3>1, <3>2
  <2>4. len + 1 - 1 = len /\ len + 1 >= 1
    BY <1>1
  <2> QED
    BY <1>4, <1>7, <2>1, <2>2, <2>3, <2>4 DEF Linking
<1>10. Chained(T, f, r)
  <2> SUFFICES ASSUME NEW k \in 2..(len + 1)
               PROVE  /\ r[k] \in Children(T) /\ T.disk[r[k]].parent = f /\ T.disk[r[k]].meta = r[k - 1]
                      /\ T.disk[r[k]].links # <<>>
                      /\ Len(T.disk[r[k - 1]].links) = MaxLinks
    BY <1>7, <1>9 DEF Chained
  <2>1. CASE k = len + 1
    <3>1. k - 1 = len /\ len \in 1..len /\ r[k - 1] = l
      BY <1>1, <1>7, <2>1
    <3>2. r[k] = n /\ n \in Children(T)
      BY <1>4, <1>7, <2>1 DEF Children
    <3>3. T.disk[n].links # <<>>
      <4>1. <<b>> # <<>>
        OBVIOUS
      <4> QED
        BY <1>4, <4>1
    <3> QED
      BY <1>4, <1>5, <3>1, <3>2, <3>3
  <2>2. CASE k # len + 1
    <3>1. k \in 2..len /\ k \in 1..len /\ k - 1 \in 1..len
      BY <1>1, <2>2
    <3>2. /\ ns[k] \in Children(S) /\ S.disk[ns[k]].parent = f /\ S.disk[ns[k]].meta = ns[k - 1]
          /\ S.disk[ns[k]].links # <<>> /\ Len(S.disk[ns[k - 1]].links) = MaxLinks
      BY <1>2, <3>1 DEF Chained
    <3>3. r[k] = ns[k] /\ r[k - 1] = ns[k - 1]
      BY <1>7, <3>1
    <3> QED
      BY <1>6, <3>1, <3>2, <3>3 DEF Children
  <2> QED
    BY <2>1, <2>2
<1>11. LinksOf(T, r) = Append(LinksOf(S, ns), b)
  <2>1. \A k \in 1..len : T.disk[ns[k]].links = S.disk[ns[k]].links /\ S.disk[ns[k]].links \in Seq(Blocks)
    BY <1>1, <1>3, <1>6 DEF INodes
  <2>2. HaveLinks(S, ns) /\ HaveLinks(T, ns) /\ SameLinks(S, T, ns)
    BY <2>1 DEF HaveLinks, SameLinks
  <2> DEFINE p == LinksOf(S, ns)
             q == <<b>>
  <2>3. p \in Seq(Blocks)
    BY <1>1, <2>1, LinksOfIs
  <2>4. LinksOf(T, ns) = p
    BY <1>1, <2>2, LinksOfFrame
  <2>5. LinksOf(T, r) = LinksOf(T, ns) \o q
    <3>1. T.disk[n].links = q /\ q \in Seq(Blocks)
      BY <1>4
    <3> HIDE DEF q
    <3>2. LinksOf(T, Append(ns, n)) = LinksOf(T, ns) \o T.disk[n].links
      BY <1>1, <2>2, <3>1, LinksOfAppend
    <3> QED
      BY <3>1, <3>2 DEF r
  <2> HIDE DEF p
  <2>6. p \o <<b>> = Append(p, b)
    BY <2>3, AppendIsConcat
  <2> QED
    BY <2>4, <2>5, <2>6 DEF p
<1> QED
  BY <1>9, <1>10, <1>11, NodesOfLinking DEF r

\* link_node_to_nodelist in a file.
LinkIn(S, f, b, nbytes, nodes, k, new) ==
  IF k # 0 THEN SetLinks(S, nodes[k], Append(S.disk[nodes[k]].links, b))
  ELSE Save(SetNext(fs_get_block(S), Last(nodes), new), new, INode("CHILD", f, Last(nodes), <<b>>))

\* ns are the inodes of f, and only the last one has space.
FullButLast(S, f, ns) ==
  /\ ns \in Seq(Blocks) /\ Nodes(S, f) = ns /\ Len(ns) \in Nat /\ Len(ns) >= 1
  /\ \A k \in 1..(Len(ns) - 1) : Len(S.disk[ns[k]].links) = MaxLinks
  /\ Len(S.disk[ns[Len(ns)]].links) \in 0..MaxLinks

\* T is link_node_to_nodelist of b in f, from the last of the inodes ns or from new.
LinkedFrom(S, T, f, b, nbytes, ns, k, m) ==
  LET R == LinkIn(S, f, b, nbytes, ns, k, NewBlock(S))
  IN T = SetSize(R, m, R.disk[m].size + nbytes)

LEMMA LinkInFile ==
  ASSUME NEW S, NEW f \in Files(S), NEW b, b # 0, NEW nbytes, NEW ns, FullButLast(S, f, ns)
  PROVE  LinkedFrom(S, link_node_to_nodelist(S, f, b, nbytes), f, b, nbytes, ns,
                    IF Len(S.disk[ns[Len(ns)]].links) < MaxLinks THEN Len(ns) ELSE 0,
                    S.disk[f].meta)
<1>0. /\ ns \in Seq(Blocks) /\ Nodes(S, f) = ns /\ Len(ns) \in Nat /\ Len(ns) >= 1
      /\ \A k \in 1..(Len(ns) - 1) : Len(S.disk[ns[k]].links) = MaxLinks
      /\ Len(S.disk[ns[Len(ns)]].links) \in 0..MaxLinks
  BY DEF FullButLast
<1> DEFINE nodes == Nodes(S, f)
           I == {i \in 1..Len(nodes) : Len(S.disk[nodes[i]].links) < MaxLinks}
           k == SelectInSeq(nodes, LAMBDA n : Len(S.disk[n].links) < MaxLinks)
           new == NewBlock(S)
           m == S.disk[f].meta
           R == IF k # 0
                THEN [S EXCEPT !.disk[nodes[k]].links = Linked(@, b)]
                ELSE Save([fs_get_block(S) EXCEPT !.disk[Last(nodes)].next = new],
                          new, INode("CHILD", f, Last(nodes), Linked(<<>>, b)))
           grown == IF S.disk[f].mode = "DIR" THEN 1 ELSE nbytes
           T == link_node_to_nodelist(S, f, b, nbytes)
<1>1. T = [R EXCEPT !.disk[m].size = @ + grown]
  BY DEF link_node_to_nodelist
<1>2. k = IF I # {} THEN Min(I) ELSE 0
  BY DEF SelectInSeq
<1>3. I = {i \in 1..Len(ns) : Len(S.disk[ns[i]].links) < MaxLinks}
  BY <1>0
<1> HIDE DEF I, k
<1>4. \A i \in 1..Len(ns) : i \in 1..(Len(ns) - 1) \/ i = Len(ns)
  BY <1>0
<1>5. MaxLinks \in Nat /\ Len(ns) \in 1..Len(ns)
  BY <1>0, FormatAssumption
<1>6. \A i \in I : i = Len(ns)
  BY <1>0, <1>3, <1>4, <1>5
<1>7. k = IF Len(S.disk[ns[Len(ns)]].links) < MaxLinks THEN Len(ns) ELSE 0
  <2>1. CASE Len(S.disk[ns[Len(ns)]].links) < MaxLinks
    <3>1. I \in SUBSET Nat /\ I # {}
      BY <1>3, <1>5, <2>1
    <3>2. Min(I) \in I
      BY <3>1, MinIsLeast
    <3> QED
      BY <1>2, <1>6, <2>1, <3>1, <3>2
  <2>2. CASE ~(Len(S.disk[ns[Len(ns)]].links) < MaxLinks)
    <3>1. I = {}
      BY <1>3, <1>6, <2>2
    <3> QED
      BY <1>2, <2>2, <3>1
  <2> QED
    BY <2>1, <2>2
<1>8. grown = nbytes
  BY DEF Files
<1> HIDE DEF T, grown
<1>9. R = LinkIn(S, f, b, nbytes, ns, k, new)
  <2>1. Linked(<<>>, b) = <<b>> /\ \A x : Linked(x, b) = Append(x, b)
    BY DEF Linked
  <2>2. CASE k # 0
    BY <1>0, <2>1, <2>2 DEF LinkIn, SetLinks
  <2>3. CASE k = 0
    BY <1>0, <2>1, <2>3 DEF LinkIn, SetNext
  <2> QED
    BY <2>2, <2>3
<1> HIDE DEF R
<1>10. T = SetSize(R, m, R.disk[m].size + nbytes)
  BY <1>1, <1>8, Zenon DEF SetSize
<1> QED
  BY <1>7, <1>9, <1>10 DEF T, LinkedFrom

\* One turn of the loop of write_to_file: where it leaves the file, and what it
\* takes from the free blocks.
TurnDone(S, f, T) ==
  LET len == Len(Nodes(S, f))
      n == Len(S.disk[Nodes(S, f)[len]].links)
      last == Nodes(T, f)[Len(Nodes(T, f))]
  IN IF n < MaxLinks
     THEN /\ Len(Nodes(T, f)) = len /\ Len(T.disk[last].links) = n + 1
          /\ T.freeblks = S.freeblks - 1
     ELSE /\ Len(Nodes(T, f)) = len + 1 /\ Len(T.disk[last].links) = 1
          /\ T.freeblks = S.freeblks - 2

LEMMA TurnKeeps ==
  ASSUME NEW S, ImageOK(S), NEW f \in Files(S),
         NEW chunk \in Seq(Byte), Len(chunk) \in 1..BlkSz, S.freeblks >= 1,
         Len(S.disk[Nodes(S, f)[Len(Nodes(S, f))]].links) = MaxLinks => S.freeblks >= 2
  PROVE  LET T == WriteChunk(S, f, chunk) IN
         /\ ImageOK(T) /\ f \in Files(T) /\ TurnDone(S, f, T)
         /\ OnlyFile(S, T, f) /\ OneChunkMore(S, T, f, chunk)
<1> DEFINE T == WriteChunk(S, f, chunk)
           b == NewBlock(S)
           S1 == Save(fs_get_block(S), b, Data(chunk))
           ns == Nodes(S, f)
           len == Len(ns)
           l == ns[len]
           old == S.disk[l].links
           m == S.disk[f].meta
<1>1. /\ S \in Images /\ SuperOK(S) /\ FreeOK(S) /\ MetasOK(S) /\ S.freeblks \in Nat
      /\ 0 \in Blocks /\ MaxLinks \in Nat /\ MaxLinks # 0
  BY FormatAssumption DEF ImageOK, TypesOK, Images, Blocks
<1>2. Taken(S, S1, b, Data(chunk))
  <2>1. Data(chunk) \in Structs /\ Data(chunk).kind \notin {"free", "super"}
    BY DEF Data, Structs, Datas
  <2> QED
    BY <1>1, <2>1, TakeBlock
<1>3. T = link_node_to_nodelist(S1, f, b, Len(chunk))
  BY DEF WriteChunk
<1> HIDE DEF T, b, S1
<1>4. /\ S1 \in Images /\ SuperOK(S1) /\ FreeOK(S1) /\ S1.freeblks = S.freeblks - 1
      /\ b \in FreeOnes(S) /\ b # 0 /\ b \in Blocks /\ S.disk[b].kind = "free"
      /\ \A a \in Blocks : S1.disk[a] = IF a = b THEN Data(chunk) ELSE S.disk[a]
  BY <1>2 DEF Taken, FreeOnes
<1>5. /\ ns \in Seq(Blocks) /\ len \in Nat /\ len >= 1 /\ l \in Range(ns) /\ l \in Blocks
      /\ Len(old) \in 0..MaxLinks
      /\ \A k \in 1..(len - 1) : Len(S.disk[ns[k]].links) = MaxLinks /\ ns[k] # l
      /\ \A x \in Range(ns) : x \in Holders(S) /\ S.disk[x] \in INodes /\ S.disk[x].kind = "inode"
  BY LastIs
<1>6. \A x : x \in Range(ns) => x \in Blocks
  BY <1>5, RangeIs
<1>7. /\ m \in InfoBlocks(S) /\ m \in Blocks /\ S.disk[m] \in Infos /\ S.disk[m].kind = "info"
      /\ S.disk[m].size + Len(chunk) \in Nat
      /\ f \in Blocks /\ S.disk[f].kind = "inode"
  <2>1. f \in Headers(S)
    BY DEF Headers
  <2>2. m \in InfoBlocks(S)
    BY <1>1, <2>1 DEF MetasOK
  <2>3. S.disk[m] \in Infos
    BY <1>1, <2>2, BlockIs
  <2> QED
    BY <2>2, <2>3 DEF InfoBlocks, Infos, Files
<1>8. /\ \A x \in Range(ns) : x # b /\ x # m /\ S1.disk[x] = S.disk[x]
      /\ m # b /\ S1.disk[m] = S.disk[m] /\ f # b /\ S1.disk[f] = S.disk[f]
  BY <1>4, <1>5, <1>6, <1>7
<1>9. Nodes(S1, f) = ns /\ f \in Files(S1)
  <2>1. \A x \in Range(LinksOf(S, ns)) : x \in DataBlocks(S)
    BY FileIs
  <2>2. \A x \in Range(LinksOf(S, ns)) : S1.disk[x] = S.disk[x]
    BY <1>4, <2>1 DEF DataBlocks
  <2>3. \A x \in Range(Nodes(S, f)) : S1.disk[x] = S.disk[x]
    BY <1>8
  <2>4. Nodes(S1, f) = ns
    BY <2>2, <2>3, FileFrame
  <2> QED
    BY <1>8, <2>4 DEF Files
<1> DEFINE k == IF Len(old) < MaxLinks THEN len ELSE 0
           new == NewBlock(S1)
           R == LinkIn(S1, f, b, Len(chunk), ns, k, new)
<1>10. T = SetSize(R, m, R.disk[m].size + Len(chunk))
  <2>1. \A j \in 1..len : ns[j] \in Range(ns)
    BY <1>5, RangeIs
  <2>2. \A j \in 1..(len - 1) : j \in 1..len
    BY <1>5
  <2>3. \A j \in 1..(len - 1) : Len(S1.disk[ns[j]].links) = MaxLinks
    BY <1>5, <1>8, <2>1, <2>2
  <2>4. S1.disk[l] = S.disk[l]
    BY <1>5, <1>8
  <2>5. Len(S1.disk[l].links) \in 0..MaxLinks
    BY <1>5, <2>4
  <2>6. FullButLast(S1, f, ns)
    BY <1>5, <1>9, <2>3, <2>5 DEF FullButLast
  <2> DEFINE s == ns
  <2>7. FullButLast(S1, f, s) /\ S1.disk[s[Len(s)]] = S.disk[l]
    BY <2>4, <2>6
  <2> HIDE DEF s, R
  <2>8. LinkedFrom(S1, link_node_to_nodelist(S1, f, b, Len(chunk)), f, b, Len(chunk), s,
                    IF Len(S1.disk[s[Len(s)]].links) < MaxLinks THEN Len(s) ELSE 0,
                    S1.disk[f].meta)
    BY <1>4, <1>9, <2>7, LinkInFile
  <2>9. LinkedFrom(S1, T, f, b, Len(chunk), s, k, m)
    BY <1>3, <1>8, <2>7, <2>8 DEF s
  <2> QED
    BY <2>9 DEF LinkedFrom, R, s
<1>11. CASE Len(old) < MaxLinks
  <2> DEFINE L == Append(old, b)
  <2>1. R = SetLinks(S1, l, L)
    <3>1. k = len /\ k # 0
      BY <1>5, <1>11
    <3> QED
      BY <1>5, <1>8, <3>1 DEF LinkIn
  <2>2. old \in Seq(Blocks) /\ L \in Seq(Blocks) /\ Len(L) = Len(old) + 1
    <3>1. old \in Seq(Blocks)
      BY <1>5 DEF INodes
    <3> QED
      BY <1>4, <3>1, AppendProperties
  <2> HIDE DEF R, L
  <2> DEFINE size == S.disk[m].size + Len(chunk)
             U == SetSize(SetLinks(S1, l, L), m, size)
  <2>3. S1.disk[l] = S.disk[l] /\ S1.disk[l] \in INodes /\ S1.disk[m] \in Infos /\ l # m
    BY <1>5, <1>7, <1>8
  <2>4. Relinked(S1, U, l, L, m, size)
    <3>1. size \in Nat
      BY <1>7
    <3> HIDE DEF size, l, m
    <3>2. l \in Blocks /\ m \in Blocks
      BY <1>5, <1>7
    <3> QED
      BY <1>4, <2>2, <2>3, <3>1, <3>2, LinksAndSize
  <2>5. T = U
    <3>1. But(S1, SetLinks(S1, l, L), l)
      BY <1>4, <1>5, <2>2, <2>3, SetLinksIs
    <3>2. R.disk[m] = S.disk[m]
      BY <1>7, <1>8, <2>1, <2>3, <3>1 DEF But
    <3> QED
      BY <1>10, <2>1, <3>2
  <2> HIDE DEF U
  <2>6. /\ T \in Images /\ T.freeblks = S1.freeblks
        /\ \A a \in Blocks : a # l /\ a # m => T.disk[a] = S1.disk[a]
        /\ WithSize(S.disk[m], size, T.disk[m])
    BY <1>8, <2>4, <2>5 DEF Relinked
  <2>7. WithLinks(S.disk[l], L, T.disk[l])
    BY <2>3, <2>4, <2>5 DEF Relinked
  <2>8. /\ T.disk[l].kind = "inode" /\ T.disk[m].kind = "info"
        /\ T.disk[l] \in INodes /\ T.disk[l].mode = S.disk[l].mode
        /\ T.disk[l].parent = S.disk[l].parent /\ T.disk[l].meta = S.disk[l].meta
        /\ T.disk[l].links = L
    BY <2>6, <2>7 DEF WithLinks, WithSize, INodes, Infos
  <2>9. SuperOK(T) /\ FreeOK(T)
    BY <2>4, <2>5 DEF Relinked
  <2>10. \A a \in Blocks : a # b /\ a # l /\ a # m => T.disk[a] = S.disk[a]
    BY <1>4, <2>6
  <2>11. T.disk[b] = Data(chunk)
    BY <1>4, <1>5, <1>8, <2>6
  <2>12. /\ Nodes(T, f) = ns /\ Chained(T, f, ns)
         /\ LinksOf(T, ns) = Append(LinksOf(S, ns), b)
    <3>1. \A x \in Range(ns) : x # l => T.disk[x] = S.disk[x]
      BY <1>6, <1>8, <2>10
    <3> DEFINE s == ns
    <3>2. s = Nodes(S, f) /\ l = s[Len(s)]
      OBVIOUS
    <3> HIDE DEF l, old, s
    <3>3. old = S.disk[l].links
      BY DEF old
    <3>4. WithLinks(S.disk[l], Append(old, b), T.disk[l])
      BY <2>7 DEF L
    <3>5. \A x \in Range(s) : x # l => T.disk[x] = S.disk[x]
      BY <3>1 DEF s
    <3>6. /\ Nodes(T, f) = s /\ Chained(T, f, s)
          /\ LinksOf(T, s) = Append(LinksOf(S, s), b)
      BY <1>4, <3>2, <3>3, <3>4, <3>5, LinkedInLast
    <3> QED
      BY <3>6 DEF s
  <2>13. Extended(S, T, f, b, chunk, l, l, old)
    BY <1>4, <1>5, <1>11, <2>2, <2>6, <2>8, <2>9, <2>10, <2>11, <2>12, Zenon DEF Extended, L
  <2>14. ImageOK(T) /\ OnlyFile(S, T, f) /\ OneChunkMore(S, T, f, chunk)
    BY <2>13, GrowthKeeps
  <2>15. f \in Files(T)
    <3>1. T.disk[f].kind = "inode" /\ T.disk[f].mode = S.disk[f].mode
      <4>1. CASE f = l
        BY <2>8, <4>1
      <4>2. CASE f # l
        BY <1>7, <1>8, <2>10, <4>2
      <4> QED
        BY <4>1, <4>2
    <3> QED
      BY <1>7, <3>1 DEF Files
  <2>16. TurnDone(S, f, T)
    BY <1>4, <1>11, <2>2, <2>6, <2>8, <2>12 DEF TurnDone
  <2> QED
    BY <2>14, <2>15, <2>16 DEF T
<1>12. CASE Len(old) = MaxLinks
  <2> DEFINE G == fs_get_block(S1)
             x == INode("CHILD", f, l, <<b>>)
             S2 == Save(G, new, x)
             N == SetNext(G, l, new)
  <2>1. R = Save(N, new, x)
    <3>1. k = 0
      BY <1>1, <1>12
    <3>2. Last(ns) = l
      BY DEF Last
    <3> QED
      BY <3>1, <3>2 DEF LinkIn
  <2>2. x \in Structs /\ x.kind \notin {"free", "super"} /\ x.kind = "inode"
    <3>1. <<b>> \in Seq(Blocks)
      BY <1>4
    <3> QED
      BY <1>1, <1>5, <1>7, <3>1 DEF INode, Structs, INodes
  <2>3. S1.freeblks # 0
    BY <1>1, <1>4, <1>12
  <2>4. Taken(S1, S2, new, x)
    <3> HIDE DEF x
    <3> QED
      BY <1>4, <2>2, <2>3, TakeBlock
  <2>5. G \in Images /\ \A a \in Blocks : G.disk[a] = S1.disk[a]
    <3>1. PICK fl : FreeChain(S1, fl)
      BY <1>4 DEF FreeOK
    <3>2. S1.freelist \in FreeOnes(S1)
      BY <1>4, <3>1, HeadIsFree
    <3> QED
      BY <1>4, <2>3, <3>2, GetImage DEF FreeOnes
  <2> HIDE DEF G, x, new, R
  <2>6. S2.freelist = G.freelist /\ S2.freeblks = G.freeblks
    <3>1. new \in Blocks
      BY <2>4 DEF Taken, FreeOnes
    <3> QED
      BY <2>2, <2>5, <3>1, SaveImage
  <2> HIDE DEF S2
  <2>7. /\ S2 \in Images /\ SuperOK(S2) /\ FreeOK(S2) /\ S2.freeblks = S.freeblks - 2
        /\ new \in FreeOnes(S1) /\ new # 0 /\ new \in Blocks
        /\ \A a \in Blocks : S2.disk[a] = IF a = new THEN x ELSE S1.disk[a]
    BY <1>1, <1>4, <2>4 DEF Taken, FreeOnes
  <2>8. new \in FreeOnes(S) /\ new # b /\ S.disk[new].kind = "free"
    BY <1>4, <2>7 DEF FreeOnes, Data
  <2>9. /\ new # m /\ new # f /\ \A a \in Range(ns) : a # new
    BY <1>5, <1>7, <2>8
  <2>10. But(G, N, l) /\ WithNext(S.disk[l], new, N.disk[l])
    <3>1. G.disk[l] = S.disk[l] /\ G.disk[l] \in INodes
      BY <1>5, <1>8, <2>5
    <3> QED
      BY <1>5, <2>5, <2>7, <3>1, SetNextIs
  <2> HIDE DEF N
  <2>11. /\ R \in Images /\ R.freelist = G.freelist /\ R.freeblks = G.freeblks
         /\ \A a \in Blocks : R.disk[a] = IF a = new THEN x ELSE N.disk[a]
    BY <2>1, <2>2, <2>7, <2>10, SaveImage DEF But
  <2>12. l # m /\ l # new /\ R.disk[m] = S.disk[m]
    BY <1>5, <1>7, <1>8, <2>5, <2>9, <2>10, <2>11 DEF But
  <2>13. But(R, T, m) /\ WithSize(S.disk[m], S.disk[m].size + Len(chunk), T.disk[m])
    <3> DEFINE size == S.disk[m].size + Len(chunk)
    <3>1. size \in Nat /\ R.disk[m] \in Infos /\ m \in Blocks /\ R \in Images
      BY <1>7, <2>11, <2>12
    <3>2. T = SetSize(R, m, size)
      BY <1>10, <2>12
    <3> HIDE DEF size, m
    <3>3. But(R, SetSize(R, m, size), m) /\ WithSize(R.disk[m], size, SetSize(R, m, size).disk[m])
      BY <3>1, SetSizeIs
    <3> QED
      BY <2>12, <3>2, <3>3 DEF size
  <2>14. /\ T \in Images /\ T.freelist = S2.freelist /\ T.freeblks = S2.freeblks
         /\ T.disk[new] = x /\ WithNext(S.disk[l], new, T.disk[l])
         /\ \A a \in Blocks : a # l /\ a # m /\ a # new => T.disk[a] = S1.disk[a]
    <3>1. T \in Images /\ T.freelist = S2.freelist /\ T.freeblks = S2.freeblks
      BY <2>6, <2>11, <2>13 DEF But
    <3>2. T.disk[new] = x
      BY <2>7, <2>9, <2>11, <2>13 DEF But
    <3>3. T.disk[l] = N.disk[l]
      BY <1>5, <2>11, <2>12, <2>13 DEF But
    <3>4. \A a \in Blocks : a # l /\ a # m /\ a # new => T.disk[a] = S1.disk[a]
      BY <2>5, <2>10, <2>11, <2>13 DEF But
    <3> QED
      BY <2>10, <3>1, <3>2, <3>3, <3>4
  <2>15. /\ T.disk[l].kind = "inode" /\ T.disk[m].kind = "info"
         /\ T.disk[l] \in INodes /\ T.disk[l].mode = S.disk[l].mode
         /\ T.disk[l].parent = S.disk[l].parent /\ T.disk[l].meta = S.disk[l].meta
         /\ T.disk[l].links = S.disk[l].links
    BY <2>13, <2>14 DEF WithNext, WithSize, INodes, Infos
  <2>16. SuperOK(T) /\ FreeOK(T)
    <3>1. S2.disk[l].kind = "inode" /\ S2.disk[m].kind = "info"
      BY <1>5, <1>7, <1>8, <2>7, <2>9, <2>12
    <3>2. \A a \in Blocks : a # l /\ a # m => T.disk[a] = S2.disk[a]
      BY <2>7, <2>14
    <3> QED
      BY <2>7, <2>14, <2>15, <3>1, <3>2, FreeStays, SMTT(30)
  <2>17. \A a \in Blocks : a # b /\ a # new /\ a # l /\ a # m => T.disk[a] = S.disk[a]
    BY <1>4, <2>14
  <2>18. T.disk[b] = Data(chunk)
    BY <1>4, <1>5, <1>8, <2>8, <2>14
  <2>19. /\ Nodes(T, f) = Append(ns, new) /\ Chained(T, f, Append(ns, new))
         /\ LinksOf(T, Append(ns, new)) = Append(LinksOf(S, ns), b)
    <3>1. \A a \in Range(ns) : a # l => T.disk[a] = S.disk[a]
      BY <1>6, <1>8, <2>9, <2>17
    <3> DEFINE s == ns
    <3>2. s = Nodes(S, f) /\ l = s[Len(s)] /\ Len(S.disk[l].links) = MaxLinks
      BY <1>12
    <3> HIDE DEF l, old, s
    <3>3. T.disk[new] = INode("CHILD", f, l, <<b>>)
      BY <2>14 DEF x
    <3>4. \A a \in Range(s) : a # l => T.disk[a] = S.disk[a]
      BY <3>1 DEF s
    <3>5. /\ Nodes(T, f) = Append(s, new) /\ Chained(T, f, Append(s, new))
          /\ LinksOf(T, Append(s, new)) = Append(LinksOf(S, s), b)
      BY <1>4, <2>7, <2>8, <2>14, <3>2, <3>3, <3>4, LinkedInNew
    <3> QED
      BY <3>5 DEF s
  <2>20. /\ Append(ns, new) \in Seq(Blocks) /\ Len(Append(ns, new)) = len + 1
         /\ Append(ns, new)[len + 1] = new
         /\ \A y : y \in Range(Append(ns, new)) <=> (y \in Range(ns) \/ y = new)
    <3> DEFINE r == Append(ns, new)
    <3>1. /\ r \in Seq(Blocks) /\ Len(r) = len + 1 /\ r[len + 1] = new
          /\ \A j \in 1..len : r[j] = ns[j]
      BY <1>5, <2>7, AppendProperties
    <3> HIDE DEF r
    <3>2. \A y : y \in Range(r) <=> \E j \in 1..Len(r) : r[j] = y
      BY <3>1, RangeIs
    <3>3. \A y : y \in Range(ns) <=> \E j \in 1..len : ns[j] = y
      BY <1>5, RangeIs
    <3>4. \A j : j \in 1..Len(r) <=> (j \in 1..len \/ j = len + 1)
      BY <1>5, <3>1
    <3>5. \A y : y \in Range(r) <=> (y \in Range(ns) \/ y = new)
      BY <3>1, <3>2, <3>3, <3>4
    <3> QED
      BY <3>1, <3>5 DEF r
  <2>21. /\ T.disk[new] \in INodes /\ T.disk[new].links = <<b>> /\ T.disk[new].mode = "CHILD"
         /\ T.disk[new].parent = f /\ T.disk[new].kind = "inode"
    <3>1. T.disk[new] \in INodes
      BY <2>2, <2>14, StructIs
    <3> QED
      BY <2>14, <3>1 DEF x, INode
  <2>22. Extended(S, T, f, b, chunk, l, new, <<>>)
    <3>1. <<>> \in Seq(Blocks) /\ Len(<<>>) < MaxLinks /\ Append(<<>>, b) = <<b>>
      BY <1>1
    <3> HIDE DEF ns, l, m, len
    <3>2. ns = Nodes(S, f) /\ l \in Range(ns) /\ m = S.disk[f].meta
      BY <1>5 DEF ns, m
    <3>3. T.disk[new].links = Append(<<>>, b)
      BY <2>21, <3>1
    <3>4. LinksOf(T, Nodes(T, f)) = Append(LinksOf(S, Nodes(S, f)), b) /\ Chained(T, f, Nodes(T, f))
      BY <2>19, <3>2
    <3>5. \A y : y \in Range(Nodes(T, f)) <=> (y \in Range(Nodes(S, f)) \/ y = new)
      BY <2>19, <2>20, <3>2
    <3> QED
      BY <1>4, <2>8, <2>13, <2>14, <2>15, <2>16, <2>17, <2>18, <2>21, <3>1, <3>2, <3>3, <3>4, <3>5
      DEF Extended
  <2>23. ImageOK(T) /\ OnlyFile(S, T, f) /\ OneChunkMore(S, T, f, chunk)
    BY <2>22, GrowthKeeps
  <2>24. f \in Files(T)
    <3>1. T.disk[f].kind = "inode" /\ T.disk[f].mode = S.disk[f].mode
      <4>1. CASE f = l
        BY <2>15, <4>1
      <4>2. CASE f # l
        BY <1>7, <1>8, <2>9, <2>17, <4>2
      <4> QED
        BY <4>1, <4>2
    <3> QED
      BY <1>7, <3>1 DEF Files
  <2>25. TurnDone(S, f, T)
    <3>1. Nodes(T, f)[Len(Nodes(T, f))] = new /\ Len(Nodes(T, f)) = len + 1 /\ Len(T.disk[new].links) = 1
      BY <2>19, <2>20, <2>21
    <3>2. ~(Len(old) < MaxLinks)
      BY <1>1, <1>12
    <3> QED
      BY <2>7, <2>14, <3>1, <3>2 DEF TurnDone
  <2> QED
    BY <2>23, <2>24, <2>25 DEF T
<1>13. Len(old) < MaxLinks \/ Len(old) = MaxLinks
  BY <1>1, <1>5
<1> QED
  BY <1>11, <1>12, <1>13

\* Division by a positive number.
LEMMA DivIs ==
  ASSUME NEW x \in Nat, NEW m \in Nat, m > 0
  PROVE  /\ x \div m \in Nat
         /\ (x \div m) * m <= x
         /\ x < (x \div m) * m + m
OBVIOUS

LEMMA TimesGrows ==
  ASSUME NEW a \in Nat, NEW b \in Nat, NEW m \in Nat, a <= b
  PROVE  a * m <= b * m
<1>1. (b - a) * m \in Nat
  OBVIOUS
<1>2. (b - a) * m = b * m - a * m
  OBVIOUS
<1> QED
  BY <1>1, <1>2

LEMMA DivFits ==
  ASSUME NEW x \in Nat, NEW m \in Nat, m > 0, NEW a \in Nat, a * m <= x
  PROVE  a <= x \div m
<1> DEFINE q == x \div m
<1>1. q \in Nat /\ q * m <= x /\ x < q * m + m
  BY DivIs
<1> HIDE DEF q
<1>2. SUFFICES ASSUME q + 1 <= a
               PROVE  FALSE
  BY <1>1
<1>3. (q + 1) * m <= a * m
  BY <1>1, <1>2, TimesGrows
<1>4. (q + 1) * m = q * m + m
  BY <1>1
<1> QED
  BY <1>1, <1>3, <1>4

\* Piece i of n of len bytes, of at most m bytes each, ends where the next
\* begins or with the bytes, and is not empty.
LEMMA PieceIs ==
  ASSUME NEW len \in Nat, NEW m \in Nat, m > 0, NEW i \in Nat, i >= 1, i <= (len + m - 1) \div m
  PROVE  LET from == (i - 1) * m + 1
             to == IF i * m < len THEN i * m ELSE len
         IN /\ from \in Nat /\ to \in Nat /\ from >= 1 /\ from <= to /\ to <= len
            /\ to - from + 1 \in 1..m
<1> DEFINE x == len + m - 1
           q == x \div m
<1>1. x \in Nat
  OBVIOUS
<1>2. q \in Nat /\ q * m <= x
  BY <1>1, DivIs
<1>3. i * m <= q * m
  BY <1>2, TimesGrows
<1> HIDE DEF q
<1> DEFINE p == (i - 1) * m
<1>4. p \in Nat /\ i * m = p + m /\ p + m <= len + m - 1
  <2>1. i * m = p + m
    OBVIOUS
  <2>2. i - 1 \in Nat
    OBVIOUS
  <2>3. p \in Nat
    BY <2>2
  <2> QED
    BY <1>2, <1>3, <2>1, <2>3
<1> HIDE DEF p
<1>5. p + 1 <= len
  BY <1>4
<1> QED
  BY <1>4, <1>5 DEF p

\* Where piece i of c ends.
EndOf(c, i) == IF i * BlkSz < Len(c) THEN i * BlkSz ELSE Len(c)

LEMMA ChunksAre ==
  ASSUME NEW c \in Contents
  PROVE  /\ c \in Seq(Byte) /\ Len(c) \in Nat /\ \A i \in 1..Len(c) : c[i] \in Byte
         /\ Len(Chunks(c)) \in Nat /\ Len(Chunks(c)) = (Len(c) + BlkSz - 1) \div BlkSz
         /\ \A i \in 1..Len(Chunks(c)) : Chunks(c)[i] \in Seq(Byte) /\ Len(Chunks(c)[i]) \in 1..BlkSz
         /\ \A i \in 1..Len(Chunks(c)) :
              /\ Chunks(c)[i] = SubSeq(c, (i - 1) * BlkSz + 1, EndOf(c, i))
              /\ Len(Chunks(c)[i]) = EndOf(c, i) - ((i - 1) * BlkSz + 1) + 1
<1> DEFINE n == (Len(c) + BlkSz - 1) \div BlkSz
           From(i) == (i - 1) * BlkSz + 1
           To(i) == EndOf(c, i)
<1>1. c \in Seq(Byte)
  <2>1. c \in Seq(Range(c)) /\ Range(c) \subseteq Byte
    BY CallersAssumption DEF Byte
  <2>2. \A i \in 1..Len(c) : c[i] \in Byte
    BY <2>1, ElementOfSeq
  <2> QED
    BY <2>1, <2>2, LenProperties, SeqDef
<1>2. Len(c) \in Nat /\ \A i \in 1..Len(c) : c[i] \in Byte
  BY <1>1, LenProperties, ElementOfSeq
<1>3. BlkSz \in Nat /\ BlkSz > 0
  BY FormatAssumption
<1>4. n \in Nat
  <2>1. Len(c) + BlkSz - 1 \in Nat
    BY <1>2, <1>3
  <2> QED
    BY <1>3, <2>1, DivIs
<1>5. Chunks(c) = [i \in 1..n |-> SubSeq(c, From(i), To(i))]
  BY DEF Chunks, EndOf
<1>6. ASSUME NEW i \in 1..n
      PROVE  /\ SubSeq(c, From(i), To(i)) \in Seq(Byte) /\ Len(SubSeq(c, From(i), To(i))) \in 1..BlkSz
             /\ Len(SubSeq(c, From(i), To(i))) = To(i) - From(i) + 1
  <2> DEFINE from == From(i)
             to == To(i)
  <2>1. /\ from \in Nat /\ to \in Nat /\ from >= 1 /\ from <= to /\ to <= Len(c)
        /\ to - from + 1 \in 1..BlkSz
    <3>1. i \in Nat /\ i >= 1 /\ i <= n
      BY <1>4
    <3> QED
      BY <1>2, <1>3, <3>1, PieceIs DEF EndOf
  <2> HIDE DEF from, to
  <2>2. \A k \in from..to : c[k] \in Byte
    BY <1>2, <2>1
  <2>3. SubSeq(c, from, to) \in Seq(Byte) /\ Len(SubSeq(c, from, to)) = to - from + 1
    BY <2>1, <2>2, SubSeqProperties
  <2> QED
    BY <2>1, <2>3 DEF from, to
<1> HIDE DEF n, From, To
<1>7. Chunks(c) \in [1..n -> Seq(Byte)]
  BY <1>5, <1>6
<1>8. Chunks(c) \in Seq(Seq(Byte))
  BY <1>4, <1>7, SeqDef
<1>9. Len(Chunks(c)) = n
  BY <1>4, <1>7, <1>8, LenProperties, SameInterval
<1>10. \A i \in 1..n : Chunks(c)[i] = SubSeq(c, From(i), To(i))
  BY <1>5
<1>11. \A i \in 1..n : /\ Chunks(c)[i] \in Seq(Byte) /\ Len(Chunks(c)[i]) \in 1..BlkSz
                        /\ Len(Chunks(c)[i]) = To(i) - From(i) + 1
  BY <1>6, <1>10
<1> QED
  BY <1>1, <1>2, <1>4, <1>9, <1>10, <1>11 DEF n, From, To

\* How many pieces of m bytes len bytes have: a last one, behind the whole ones.
LEMMA PiecesAre ==
  ASSUME NEW len \in Nat, NEW m \in Nat, m > 0, NEW n, n = (len + m - 1) \div m
  PROVE  /\ n \in Nat
         /\ len = 0 => n = 0
         /\ len > 0 => n >= 1 /\ (len - 1) \div m = n - 1
         /\ len <= n * m
<1> DEFINE x == len + m - 1
<1>1. x \in Nat
  OBVIOUS
<1>2. n \in Nat /\ n * m <= x /\ x < n * m + m
  BY <1>1, DivIs
<1>3. len <= n * m
  <2> DEFINE p == n * m
  <2>1. p \in Nat /\ x < p + m
    BY <1>2
  <2> HIDE DEF p
  <2>2. len <= p
    BY <2>1
  <2> QED
    BY <2>2 DEF p
<1>4. ASSUME len = 0
      PROVE  n = 0
  <2>1. ASSUME n >= 1
        PROVE  FALSE
    <3>1. 1 * m <= n * m
      BY <1>2, <2>1, TimesGrows
    <3> DEFINE p == n * m
    <3>2. p \in Nat /\ m <= p /\ p <= m - 1
      BY <1>2, <1>4, <3>1
    <3> HIDE DEF p
    <3> QED
      BY <3>2
  <2> QED
    BY <1>2, <2>1
<1>5. ASSUME len > 0
      PROVE  n >= 1 /\ (len - 1) \div m = n - 1
  <2> DEFINE y == len - 1
             q == y \div m
  <2>1. y \in Nat
    BY <1>5
  <2>2. q \in Nat /\ q * m <= y /\ y < q * m + m
    BY <2>1, DivIs
  <2> HIDE DEF q
  <2>3. q + 1 <= n
    <3> DEFINE p == q * m
    <3>1. p \in Nat /\ p <= y /\ (q + 1) * m = p + m /\ q + 1 \in Nat
      BY <2>2
    <3> HIDE DEF p
    <3>2. p + m <= x
      BY <2>1, <3>1
    <3>3. (q + 1) * m <= x
      BY <3>1, <3>2
    <3> QED
      BY <1>1, <3>1, <3>3, DivFits
  <2>4. n - 1 <= q
    <3> DEFINE p == (n - 1) * m
    <3>1. n - 1 \in Nat
      BY <1>2, <2>2, <2>3
    <3>2. p \in Nat /\ n * m = p + m
      BY <1>2, <3>1
    <3>3. p + m <= x
      BY <1>2, <3>2
    <3> HIDE DEF p
    <3>4. p <= y
      BY <2>1, <3>2, <3>3
    <3> QED
      BY <2>1, <3>1, <3>4, DivFits DEF p, q
  <2>5. q = n - 1 /\ n >= 1
    BY <1>2, <2>2, <2>3, <2>4
  <2> QED
    BY <2>5 DEF q
<1> QED
  BY <1>2, <1>3, <1>4, <1>5

\* The file f holds the first i pieces of c; all of c.
HoldsUpTo(S, f, c, i) ==
  LET links == LinksOf(S, Nodes(S, f)) IN
  /\ links \in Seq(Blocks) /\ Len(links) = i
  /\ \A k \in 1..i : S.disk[links[k]] = Data(Chunks(c)[k])
  /\ InfoOf(S, f).size = EndOf(c, i)
Holds(S, f, c) == HoldsUpTo(S, f, c, Len(Chunks(c)))

\* One more piece.
LEMMA OneMoreHeld ==
  ASSUME NEW S, NEW T, NEW f, NEW c \in Contents, NEW i \in Nat, i + 1 <= Len(Chunks(c)),
         HoldsUpTo(S, f, c, i), OneChunkMore(S, T, f, Chunks(c)[i + 1])
  PROVE  HoldsUpTo(T, f, c, i + 1)
<1> DEFINE links == LinksOf(S, Nodes(S, f))
           more == LinksOf(T, Nodes(T, f))
           chunk == Chunks(c)[i + 1]
<1>1. /\ links \in Seq(Blocks) /\ Len(links) = i
      /\ \A k \in 1..i : S.disk[links[k]] = Data(Chunks(c)[k])
      /\ InfoOf(S, f).size = EndOf(c, i)
  BY DEF HoldsUpTo
<1>2. PICK b \in Blocks : more = Append(links, b) /\ T.disk[b] = Data(chunk)
  BY DEF OneChunkMore
<1>3. /\ \A x \in Range(links) : T.disk[x] = S.disk[x]
      /\ InfoOf(T, f).size = InfoOf(S, f).size + Len(chunk)
  BY DEF OneChunkMore
<1>4. Len(c) \in Nat /\ Len(Chunks(c)) \in Nat /\ BlkSz \in Nat
      /\ Len(Chunks(c)[i + 1]) = EndOf(c, i + 1) - ((i + 1 - 1) * BlkSz + 1) + 1
      /\ Len(Chunks(c)[i + 1]) \in 1..BlkSz
  <2> DEFINE n == Len(Chunks(c))
  <2>1. /\ n \in Nat
        /\ \A j \in 1..n : /\ Len(Chunks(c)[j]) = EndOf(c, j) - ((j - 1) * BlkSz + 1) + 1
                          /\ Len(Chunks(c)[j]) \in 1..BlkSz
    BY ChunksAre
  <2>2. Len(c) \in Nat /\ BlkSz \in Nat
    BY ChunksAre, FormatAssumption
  <2>3. i + 1 <= n
    OBVIOUS
  <2> HIDE DEF n
  <2>4. i + 1 \in 1..n
    BY <2>1, <2>3
  <2>5. /\ Len(Chunks(c)[i + 1]) = EndOf(c, i + 1) - ((i + 1 - 1) * BlkSz + 1) + 1
        /\ Len(Chunks(c)[i + 1]) \in 1..BlkSz
    BY <2>1, <2>4
  <2> QED
    BY <2>1, <2>2, <2>5 DEF n
<1> HIDE DEF links, more, chunk
<1>5. more \in Seq(Blocks) /\ Len(more) = i + 1 /\ more[i + 1] = b
      /\ \A k \in 1..i : more[k] = links[k]
  BY <1>1, <1>2, AppendProperties
<1>6. \A k \in 1..i : T.disk[links[k]] = S.disk[links[k]]
  BY <1>1, <1>3, RangeIs
<1>7. \A k \in 1..(i + 1) : T.disk[more[k]] = Data(Chunks(c)[k])
  <2>1. \A k \in 1..(i + 1) : k \in 1..i \/ k = i + 1
    OBVIOUS
  <2> QED
    BY <1>1, <1>2, <1>5, <1>6, <2>1 DEF chunk
<1>8. EndOf(c, i) + Len(chunk) = EndOf(c, i + 1)
  <2> DEFINE p == i * BlkSz
             end == EndOf(c, i + 1)
             len == Len(chunk)
  <2>1. p \in Nat /\ i + 1 - 1 = i
    BY <1>4
  <2>2. len = end - (p + 1) + 1 /\ len \in 1..BlkSz
    BY <1>4, <2>1 DEF chunk
  <2>3. (i + 1) * BlkSz = p + BlkSz
    BY <1>4
  <2>4. (IF p + BlkSz < Len(c) THEN p + BlkSz ELSE Len(c)) = end
    BY <2>3 DEF EndOf
  <2>5. EndOf(c, i) = IF p < Len(c) THEN p ELSE Len(c)
    BY DEF EndOf
  <2> HIDE DEF p, end, len
  <2>6. end \in Nat /\ p < Len(c)
    BY <1>4, <2>1, <2>2, <2>4, SMTT(30)
  <2>7. EndOf(c, i) + len = end
    BY <1>4, <2>1, <2>2, <2>5, <2>6
  <2> QED
    BY <2>7 DEF len, end
<1>9. InfoOf(T, f).size = EndOf(c, i + 1)
  BY <1>1, <1>3, <1>8
<1> QED
  BY <1>5, <1>7, <1>9 DEF HoldsUpTo, more

LEMMA OnlyThisFile ==
  ASSUME NEW S, NEW R, NEW T, NEW f, OnlyFile(S, R, f), OnlyFile(R, T, f)
  PROVE  OnlyFile(S, T, f)
<1>1. SameEntries(S, T)
  BY DEF OnlyFile, SameEntries
<1>2. Dirs(T) = Dirs(S) /\ Files(T) = Files(S) /\ Files(R) = Files(S)
  BY DEF OnlyFile
<1>3. ASSUME NEW g \in Files(S), g # f
      PROVE  Stays(S, T, g)
  <2>1. Stays(S, R, g) /\ Stays(R, T, g)
    BY <1>2, <1>3 DEF OnlyFile
  <2> QED
    BY <2>1 DEF Stays
<1> QED
  BY <1>1, <1>2, <1>3 DEF OnlyFile

\* Blocks for n blocks of data and the inodes behind the first one.
Needed(n) == n + (IF n = 0 THEN 0 ELSE (n - 1) \div MaxLinks)

\* After i turns in a file that was empty, of which room blocks were free.
Written(S, f, room, i) ==
  /\ ImageOK(S) /\ f \in Files(S)
  /\ \E len, w \in Nat :
       /\ len = Len(Nodes(S, f)) /\ w = Len(S.disk[Nodes(S, f)[len]].links)
       /\ len >= 1 /\ w <= MaxLinks
       /\ i = (len - 1) * MaxLinks + w
       /\ S.freeblks = room - i - (len - 1)

LEMMA RoomLeft ==
  ASSUME NEW len \in Nat, NEW w \in Nat, NEW m \in Nat, m > 0, len >= 1, w <= m,
         NEW i, i = (len - 1) * m + w, NEW n \in Nat, i + 1 <= n,
         NEW room \in Nat, n + (n - 1) \div m <= room
  PROVE  /\ room - i - (len - 1) >= 1
         /\ w = m => room - i - (len - 1) >= 2 /\ i + 1 = len * m + 1
<1> DEFINE q == (n - 1) \div m
           p == (len - 1) * m
<1>1. p \in Nat /\ len * m = p + m
  <2>1. len - 1 \in Nat
    OBVIOUS
  <2> QED
    BY <2>1
<1>2. i \in Nat /\ n - 1 \in Nat
  BY <1>1
<1>3. q \in Nat
  BY <1>2, DivIs
<1>4. len - 1 <= q
  <2>1. len - 1 \in Nat /\ (len - 1) * m <= n - 1
    BY <1>1, <1>2
  <2> QED
    BY <1>2, <2>1, DivFits
<1>5. w = m => len <= q
  <2>1. w = m => len * m <= n - 1
    BY <1>1, <1>2
  <2> QED
    BY <1>2, <2>1, DivFits
<1> HIDE DEF q, p
<1>6. n + q <= room
  BY DEF q
<1>7. w = m => i + 1 = len * m + 1
  BY <1>1 DEF p
<1> QED
  BY <1>2, <1>3, <1>4, <1>5, <1>6, <1>7

LEMMA TurnWrites ==
  ASSUME NEW S, NEW f, NEW room \in Nat, NEW i \in Nat, Written(S, f, room, i),
         NEW n \in Nat, i + 1 <= n, Needed(n) <= room,
         NEW chunk \in Seq(Byte), Len(chunk) \in 1..BlkSz
  PROVE  LET T == WriteChunk(S, f, chunk) IN
         /\ Written(T, f, room, i + 1)
         /\ OnlyFile(S, T, f) /\ OneChunkMore(S, T, f, chunk)
<1> DEFINE T == WriteChunk(S, f, chunk)
<1>1. ImageOK(S) /\ f \in Files(S)
  BY DEF Written
<1>2. PICK len, w \in Nat :
        /\ len = Len(Nodes(S, f)) /\ w = Len(S.disk[Nodes(S, f)[len]].links)
        /\ len >= 1 /\ w <= MaxLinks
        /\ i = (len - 1) * MaxLinks + w
        /\ S.freeblks = room - i - (len - 1)
  BY DEF Written
<1>3. MaxLinks \in Nat /\ MaxLinks > 0
  BY FormatAssumption
<1>4. n + (n - 1) \div MaxLinks <= room
  BY DEF Needed
<1>5. S.freeblks >= 1 /\ (w = MaxLinks => S.freeblks >= 2 /\ i + 1 = len * MaxLinks + 1)
  <2>1. len >= 1 /\ w <= MaxLinks /\ i = (len - 1) * MaxLinks + w
    BY <1>2
  <2>2. /\ room - i - (len - 1) >= 1
        /\ w = MaxLinks => room - i - (len - 1) >= 2 /\ i + 1 = len * MaxLinks + 1
    BY <1>3, <1>4, <2>1, RoomLeft
  <2> QED
    BY <1>2, <2>2
<1>6. /\ ImageOK(T) /\ f \in Files(T) /\ TurnDone(S, f, T)
      /\ OnlyFile(S, T, f) /\ OneChunkMore(S, T, f, chunk)
  BY <1>1, <1>2, <1>5, TurnKeeps
<1> HIDE DEF T
<1> DEFINE last == Nodes(T, f)[Len(Nodes(T, f))]
<1>7. ASSUME w < MaxLinks
      PROVE  Written(T, f, room, i + 1)
  <2>1. Len(Nodes(T, f)) = len /\ Len(T.disk[last].links) = w + 1 /\ T.freeblks = S.freeblks - 1
    BY <1>2, <1>6, <1>7 DEF TurnDone
  <2>2. w + 1 \in Nat /\ w + 1 <= MaxLinks /\ i + 1 = (len - 1) * MaxLinks + (w + 1)
        /\ T.freeblks = room - (i + 1) - (len - 1)
    <3> DEFINE p == (len - 1) * MaxLinks
    <3>1. len - 1 \in Nat
      BY <1>2
    <3>2. p \in Nat
      BY <1>3, <3>1
    <3>3. i = p + w
      BY <1>2
    <3> HIDE DEF p
    <3>4. i + 1 = p + (w + 1)
      BY <3>2, <3>3
    <3>5. w + 1 \in Nat /\ w + 1 <= MaxLinks
      BY <1>3, <1>7
    <3>6. T.freeblks = room - (i + 1) - (len - 1)
      BY <1>2, <2>1
    <3> QED
      BY <3>4, <3>5, <3>6 DEF p
  <2> QED
    BY <1>2, <1>6, <2>1, <2>2 DEF Written
<1>8. ASSUME w = MaxLinks
      PROVE  Written(T, f, room, i + 1)
  <2>1. /\ Len(Nodes(T, f)) = len + 1 /\ Len(T.disk[last].links) = 1
        /\ T.freeblks = S.freeblks - 2
    BY <1>2, <1>3, <1>6, <1>8 DEF TurnDone
  <2>2. /\ len + 1 \in Nat /\ 1 \in Nat /\ len + 1 >= 1 /\ 1 <= MaxLinks /\ len + 1 - 1 = len
        /\ T.freeblks = room - (i + 1) - len
    BY <1>2, <1>3, <2>1
  <2>3. i + 1 = (len + 1 - 1) * MaxLinks + 1 /\ T.freeblks = room - (i + 1) - (len + 1 - 1)
    BY <1>5, <1>8, <2>2
  <2>4. \E a, b \in Nat :
          /\ a = Len(Nodes(T, f)) /\ b = Len(T.disk[Nodes(T, f)[a]].links)
          /\ a >= 1 /\ b <= MaxLinks
          /\ i + 1 = (a - 1) * MaxLinks + b
          /\ T.freeblks = room - (i + 1) - (a - 1)
    <3> WITNESS len + 1 \in Nat, 1 \in Nat
    <3> QED
      BY <2>1, <2>2, <2>3
  <2> QED
    BY <1>6, <2>4 DEF Written
<1>9. w < MaxLinks \/ w = MaxLinks
  <2>1. w <= MaxLinks
    BY <1>2
  <2> QED
    BY <1>3, <2>1
<1> QED
  BY <1>6, <1>7, <1>8, <1>9 DEF T

\* A file without data is one inode.
LEMMA EmptyFile ==
  ASSUME NEW S, ImageOK(S), NEW f \in Files(S), S.disk[f].links = <<>>
  PROVE  /\ Nodes(S, f) = <<f>> /\ S.disk[f].next = 0
         /\ InfoOf(S, f).size = 0
<1> DEFINE ns == Nodes(S, f)
<1>1. ns \in Seq(Blocks) /\ Len(ns) \in Nat /\ Len(ns) >= 1 /\ ns[1] = f
  BY FileIs
<1>2. Chained(S, f, ns) /\ Linking(S, f, ns)
  BY DEF ImageOK, ChainsOK, Chained
<1> HIDE DEF ns
<1>3. Len(ns) = 1
  <2>1. MaxLinks # 0 /\ Len(<<>>) = 0
    BY FormatAssumption
  <2>2. ASSUME Len(ns) >= 2
        PROVE  FALSE
    <3>1. 2 \in 2..Len(ns) /\ 2 - 1 = 1
      BY <1>1, <2>2
    <3>2. Len(S.disk[ns[2 - 1]].links) = MaxLinks
      BY <1>2, <3>1 DEF Chained
    <3> QED
      BY <1>1, <2>1, <3>1, <3>2
  <2> DEFINE len == Len(ns)
  <2>3. len \in Nat /\ len >= 1 /\ ~(len >= 2)
    BY <1>1, <2>2
  <2> HIDE DEF len
  <2>4. len = 1
    BY <2>3
  <2> QED
    BY <2>4 DEF len
<1>4. S.disk[f].next = 0
  BY <1>1, <1>2, <1>3 DEF Linking
<1>5. f \in Blocks
  BY DEF Files
<1>6. Nodes(S, f) = <<f>> /\ Bytes(S, LinksOf(S, <<f>>)) = 0
  BY <1>4, <1>5, EmptyInode
<1>7. InfoOf(S, f).size = Bytes(S, LinksOf(S, Nodes(S, f)))
  BY DEF ImageOK, SizesOK
<1> QED
  BY <1>4, <1>6, <1>7

LEMMA WriteKeeps ==
  ASSUME NEW S, ImageOK(S), NEW f \in Files(S), S.disk[f].links = <<>>,
         NEW c \in Contents, Needed(Len(Chunks(c))) <= S.freeblks
  PROVE  LET T == write_to_file(S, f, c) IN
         ImageOK(T) /\ OnlyFile(S, T, f) /\ Holds(T, f, c)
<1> DEFINE n == Len(Chunks(c))
           room == S.freeblks
<1>1. n \in Nat /\ \A i \in 1..n : Chunks(c)[i] \in Seq(Byte) /\ Len(Chunks(c)[i]) \in 1..BlkSz
  BY ChunksAre
<1>2. room \in Nat
  BY DEF ImageOK, TypesOK, Images
<1>3. PICK g : Writes(g, n, S, f, c) /\ write_to_file(S, f, c) = g[n]
  BY <1>1, WritesReturned
<1> DEFINE Turned(R, i) == Written(R, f, room, i) /\ OnlyFile(S, R, f) /\ HoldsUpTo(R, f, c, i)
           I == {i \in Nat : i <= n => Turned(g[i], i)}
<1>4. 0 \in I
  <2>1. g[0] = S
    BY <1>1, <1>3 DEF Writes
  <2>2. Nodes(S, f) = <<f>>
    BY EmptyFile
  <2>3. Len(<<f>>) = 1 /\ <<f>>[1] = f /\ Len(<<>>) = 0 /\ 1 \in Nat /\ 0 \in Nat
    OBVIOUS
  <2>4. 0 <= MaxLinks /\ 0 = (1 - 1) * MaxLinks + 0 /\ room = room - 0 - (1 - 1)
    BY <1>2, FormatAssumption
  <2>5. Len(S.disk[Nodes(S, f)[1]].links) = 0 /\ Len(Nodes(S, f)) = 1
    BY <2>2, <2>3
  <2>6. \E len, w \in Nat :
       /\ len = Len(Nodes(S, f)) /\ w = Len(S.disk[Nodes(S, f)[len]].links)
       /\ len >= 1 /\ w <= MaxLinks
       /\ 0 = (len - 1) * MaxLinks + w
       /\ S.freeblks = room - 0 - (len - 1)
    <3> WITNESS 1 \in Nat, 0 \in Nat
    <3> QED
      BY <2>4, <2>5
  <2>7. Written(S, f, room, 0)
    BY <2>6 DEF Written
  <2>8. OnlyFile(S, S, f)
    BY DEF OnlyFile, SameEntries, Stays
  <2>9. HoldsUpTo(S, f, c, 0)
    <3>1. LinksOf(S, <<f>>) = <<>> /\ InfoOf(S, f).size = 0
      BY EmptyFile, EmptyInode DEF Files
    <3>2. <<>> \in Seq(Blocks) /\ Len(<<>>) = 0 /\ 1..0 = {}
      OBVIOUS
    <3>3. EndOf(c, 0) = 0
      <4>1. 0 * BlkSz = 0 /\ Len(c) \in Nat
        BY FormatAssumption, ChunksAre
      <4> QED
        BY <4>1 DEF EndOf
    <3> QED
      BY <2>2, <3>1, <3>2, <3>3 DEF HoldsUpTo
  <2> QED
    BY <2>1, <2>7, <2>8, <2>9
<1>5. ASSUME NEW i \in Nat, i \in I
      PROVE  i + 1 \in I
  <2> SUFFICES ASSUME i + 1 <= n
               PROVE  Turned(g[i + 1], i + 1)
    OBVIOUS
  <2>1. Turned(g[i], i)
    BY <1>1, <1>5
  <2>2. i + 1 \in 0..n /\ i + 1 \in 1..n /\ i + 1 - 1 = i /\ i + 1 # 0
    BY <1>1
  <2>3. g[i + 1] = WriteChunk(g[i], f, Chunks(c)[i + 1])
    BY <1>3, <2>2 DEF Writes
  <2> DEFINE chunk == Chunks(c)[i + 1]
             R == g[i]
             T == WriteChunk(R, f, chunk)
  <2>4. chunk \in Seq(Byte) /\ Len(chunk) \in 1..BlkSz
    BY <1>1, <2>2
  <2> HIDE DEF chunk, R, n, room
  <2>5. Needed(n) <= room
    BY DEF n, room
  <2>6. Written(R, f, room, i) /\ OnlyFile(S, R, f) /\ HoldsUpTo(R, f, c, i)
    BY <2>1 DEF R
  <2>7. Written(T, f, room, i + 1) /\ OnlyFile(R, T, f) /\ OneChunkMore(R, T, f, chunk)
    BY <1>1, <1>2, <2>4, <2>5, <2>6, TurnWrites
  <2> HIDE DEF T
  <2>8. OnlyFile(S, T, f)
    BY <2>6, <2>7, OnlyThisFile
  <2>9. HoldsUpTo(T, f, c, i + 1)
    BY <2>6, <2>7, OneMoreHeld DEF n, chunk
  <2>10. g[i + 1] = T
    BY <2>3 DEF R, T, chunk
  <2> QED
    BY <2>7, <2>8, <2>9, <2>10
<1>6. n \in I
  BY <1>1, <1>4, <1>5, NatSetInduction
<1> QED
  BY <1>1, <1>3, <1>6 DEF Written, Holds

-----------------------------------------------------------------------------
(* free_file_data_blocks *)

\* T is S with the blocks of X put back.
PutAll(S, T, X) ==
  /\ T \in Images /\ SuperOK(T) /\ FreeOK(T)
  /\ \A a \in Blocks : a \notin X => T.disk[a] = S.disk[a]
  /\ \A a \in X : T.disk[a].kind = "free"

\* After the first i blocks of bs.
PutUpTo(S, T, bs, i) ==
  /\ T \in Images /\ SuperOK(T) /\ FreeOK(T)
  /\ \A a \in Blocks : (\A k \in 1..i : bs[k] # a) => T.disk[a] = S.disk[a]
  /\ \A k \in 1..i : T.disk[bs[k]].kind = "free"

LEMMA PutNext ==
  ASSUME NEW S, NEW bs \in Seq(Blocks), Distinct(bs),
         NEW i \in Nat, i + 1 \in 1..Len(bs), bs[i + 1] # 0, bs[i + 1] \notin FreeOnes(S),
         NEW R, PutUpTo(S, R, bs, i)
  PROVE  PutUpTo(S, fs_put_block(R, bs[i + 1]), bs, i + 1)
<1> DEFINE b == bs[i + 1]
           T == fs_put_block(R, b)
<1>1. b \in Blocks /\ Len(bs) \in Nat
  BY ElementOfSeq, LenProperties
<1>2. \A k \in 1..i : k \in 1..Len(bs) /\ k # i + 1
  BY <1>1
<1>3. \A k \in 1..i : bs[k] # b
  BY <1>2 DEF Distinct
<1>4. /\ R \in Images /\ SuperOK(R) /\ FreeOK(R)
      /\ \A a \in Blocks : (\A k \in 1..i : bs[k] # a) => R.disk[a] = S.disk[a]
      /\ \A k \in 1..i : R.disk[bs[k]].kind = "free"
  BY DEF PutUpTo
<1>5. b \notin FreeOnes(R) /\ b # 0
  BY <1>1, <1>3, <1>4 DEF FreeOnes
<1> HIDE DEF b
<1>6. Put(R, T, b)
  BY <1>1, <1>4, <1>5, PutBlock
<1> HIDE DEF T
<1>7. \A k \in 1..(i + 1) : k \in 1..i \/ k = i + 1
  OBVIOUS
<1>8. \A k \in 1..i : k \in 1..(i + 1) /\ bs[k] \in Blocks
  BY <1>2, ElementOfSeq
<1>9. ASSUME NEW a \in Blocks, \A k \in 1..(i + 1) : bs[k] # a
      PROVE  T.disk[a] = S.disk[a]
  <2>1. i + 1 \in 1..(i + 1)
    OBVIOUS
  <2>2. a # b
    BY <1>9, <2>1 DEF b
  <2>3. R.disk[a] = S.disk[a]
    BY <1>4, <1>8, <1>9
  <2> QED
    BY <1>6, <2>2, <2>3 DEF Put
<1>10. ASSUME NEW k \in 1..(i + 1)
       PROVE  T.disk[bs[k]].kind = "free"
  <2>1. CASE k = i + 1
    BY <1>6, <2>1 DEF Put, b
  <2>2. CASE k # i + 1
    <3>1. k \in 1..i
      BY <1>7, <2>2
    <3> QED
      BY <1>3, <1>4, <1>6, <1>8, <3>1 DEF Put
  <2> QED
    BY <2>1, <2>2
<1> QED
  BY <1>6, <1>9, <1>10 DEF PutUpTo, Put, T, b

LEMMA PutBlocksIs ==
  ASSUME NEW S, S \in Images, SuperOK(S), FreeOK(S),
         NEW bs \in Seq(Blocks), Distinct(bs),
         \A x \in Range(bs) : x # 0 /\ x \notin FreeOnes(S)
  PROVE  PutAll(S, PutBlocks(S, bs), Range(bs))
<1> DEFINE n == Len(bs)
<1>1. n \in Nat
  BY LenProperties
<1>2. PICK f : Puts(f, n, S, bs) /\ PutBlocks(S, bs) = f[n]
  BY <1>1, PutsReturned
<1> DEFINE I == {i \in Nat : i <= n => PutUpTo(S, f[i], bs, i)}
<1>3. 0 \in I
  <2>1. f[0] = S
    BY <1>1, <1>2 DEF Puts
  <2>2. PutUpTo(S, S, bs, 0)
    BY DEF PutUpTo
  <2> QED
    BY <2>1, <2>2
<1>4. ASSUME NEW i \in Nat, i \in I
      PROVE  i + 1 \in I
  <2> SUFFICES ASSUME i + 1 <= n
               PROVE  PutUpTo(S, f[i + 1], bs, i + 1)
    OBVIOUS
  <2>1. PutUpTo(S, f[i], bs, i)
    BY <1>1, <1>4
  <2>2. i + 1 \in 0..n /\ i + 1 \in 1..n /\ i + 1 - 1 = i /\ i + 1 # 0
    BY <1>1
  <2>3. f[i + 1] = fs_put_block(f[i], bs[i + 1])
    BY <1>2, <2>2 DEF Puts
  <2>4. bs[i + 1] \in Range(bs)
    BY <2>2, RangeIs
  <2> DEFINE R == f[i]
  <2>5. PutUpTo(S, R, bs, i)
    BY <2>1
  <2> HIDE DEF R
  <2>6. PutUpTo(S, fs_put_block(R, bs[i + 1]), bs, i + 1)
    BY <2>2, <2>4, <2>5, PutNext
  <2> QED
    BY <2>3, <2>6 DEF R
<1>5. n \in I
  BY <1>1, <1>3, <1>4, NatSetInduction
<1> DEFINE T == f[n]
<1>6. PutUpTo(S, T, bs, n)
  BY <1>1, <1>5
<1> HIDE DEF T
<1>7. \A x : x \in Range(bs) <=> \E k \in 1..n : bs[k] = x
  BY RangeIs
<1>8. PutAll(S, T, Range(bs))
  BY <1>6, <1>7 DEF PutUpTo, PutAll
<1> QED
  BY <1>2, <1>8 DEF T

\* One more element of a sequence.
LEMMA RangeAppend ==
  ASSUME NEW A, NEW s \in Seq(A), NEW e \in A
  PROVE  /\ \A x : x \in Range(Append(s, e)) <=> (x \in Range(s) \/ x = e)
         /\ Distinct(s) /\ e \notin Range(s) => Distinct(Append(s, e))
<1> DEFINE r == Append(s, e)
           n == Len(s)
<1>1. /\ n \in Nat /\ r \in Seq(A) /\ Len(r) = n + 1 /\ r[n + 1] = e
      /\ \A j \in 1..n : r[j] = s[j]
  BY LenProperties, AppendProperties
<1> HIDE DEF r, n
<1>2. \A y : y \in Range(r) <=> \E j \in 1..(n + 1) : r[j] = y
  BY <1>1, RangeIs
<1>3. \A y : y \in Range(s) <=> \E j \in 1..n : s[j] = y
  BY RangeIs DEF n
<1>4. \A j : j \in 1..(n + 1) <=> (j \in 1..n \/ j = n + 1)
  BY <1>1
<1>5. \A y : y \in Range(r) <=> (y \in Range(s) \/ y = e)
  BY <1>1, <1>2, <1>3, <1>4
<1>6. ASSUME Distinct(s), e \notin Range(s), NEW i \in 1..(n + 1), NEW j \in 1..(n + 1), r[i] = r[j]
      PROVE  i = j
  <2>1. CASE i \in 1..n /\ j \in 1..n
    BY <1>1, <1>6, <2>1 DEF Distinct, n
  <2>2. CASE i = n + 1 \/ j = n + 1
    BY <1>1, <1>3, <1>4, <1>6, <2>2
  <2> QED
    BY <1>4, <2>1, <2>2
<1>7. Distinct(s) /\ e \notin Range(s) => Distinct(r)
  BY <1>1, <1>6 DEF Distinct
<1> QED
  BY <1>5, <1>7 DEF r

\* Behind the header of a file: what is put back of inode k.
LEMMA ChildBlocksAre ==
  ASSUME NEW S, ImageOK(S), NEW f \in Files(S), NEW ns, ns = Nodes(S, f), NEW k \in 2..Len(ns)
  PROVE  LET n == ns[k]
             s == Append(S.disk[n].links, n) IN
         /\ n \in Children(S) /\ n \in Blocks /\ n \in Range(ns) /\ n # f
         /\ s \in Seq(Blocks) /\ Distinct(s)
         /\ \A x : x \in Range(s) <=> (x \in Range(S.disk[n].links) \/ x = n)
         /\ \A x \in Range(S.disk[n].links) : x \in DataBlocks(S)
<1> DEFINE n == ns[k]
           s == Append(S.disk[n].links, n)
<1>1. /\ ns \in Seq(Blocks) /\ Len(ns) \in Nat /\ Len(ns) >= 1 /\ ns[1] = f /\ Distinct(ns)
      /\ \A j \in 1..Len(ns) : ns[j] \in Holders(S) /\ S.disk[ns[j]].links \in Seq(Blocks)
  BY FileIs
<1>2. k \in 1..Len(ns) /\ 1 \in 1..Len(ns) /\ k # 1
  BY <1>1
<1>3. n \in Holders(S) /\ S.disk[n].links \in Seq(Blocks) /\ n \in Range(ns) /\ n # f
  BY <1>1, <1>2, RangeIs DEF Distinct
<1>4. n \in Children(S)
  BY DEF ImageOK, ChainsOK, Chained
<1>5. n \in Blocks /\ S.disk[n].kind = "inode"
  BY <1>4 DEF Children
<1> HIDE DEF n
<1>6. \A x \in Range(S.disk[n].links) : x \in DataBlocks(S)
  BY <1>3, OneHolder
<1>7. n \notin Range(S.disk[n].links)
  BY <1>5, <1>6 DEF DataBlocks
<1>8. Distinct(S.disk[n].links)
  BY <1>3 DEF ImageOK, DataOK, Distinct
<1> DEFINE l == S.disk[n].links
<1>9. l \in Seq(Blocks) /\ Distinct(l) /\ n \notin Range(l)
  BY <1>3, <1>7, <1>8
<1> HIDE DEF l
<1>10. Append(l, n) \in Seq(Blocks)
  BY <1>5, <1>9, AppendProperties
<1>11. /\ \A x : x \in Range(Append(l, n)) <=> (x \in Range(l) \/ x = n)
       /\ Distinct(Append(l, n))
  BY <1>5, <1>9, RangeAppend
<1> QED
  BY <1>3, <1>4, <1>5, <1>6, <1>10, <1>11 DEF l, n

LEMMA BlocksOfFileAre ==
  ASSUME NEW S, ImageOK(S), NEW f \in Files(S)
  PROVE  LET bs == BlocksOfFile(S, f) IN
         /\ bs \in Seq(Blocks) /\ Distinct(bs)
         /\ \A x : x \in Range(bs) <=> (x \in BlocksIn(S, f) /\ x # f /\ x # S.disk[f].meta)
<1> DEFINE ns == Nodes(S, f)
           len == Len(ns)
           Of(n) == Append(S.disk[n].links, n)
           seqs == [k \in 1..(len - 1) |-> Of(ns[k + 1])]
           own == S.disk[f].links
           bs == BlocksOfFile(S, f)
           ls == LinksOf(S, ns)
<1>1. bs = own \o FlattenSeq(seqs)
  BY DEF BlocksOfFile
<1>2. /\ ns \in Seq(Blocks) /\ len \in Nat /\ len >= 1 /\ ns[1] = f /\ Distinct(ns)
      /\ \A j \in 1..len : ns[j] \in Holders(S) /\ S.disk[ns[j]].links \in Seq(Blocks)
      /\ \A x : x \in Range(ls) <=> \E k \in 1..len : x \in Range(S.disk[ns[k]].links)
      /\ \A x \in Range(ls) : x \in DataBlocks(S)
  BY FileIs
<1>3. ASSUME NEW k \in 2..len
      PROVE  /\ ns[k] \in Children(S) /\ ns[k] \in Blocks /\ ns[k] \in Range(ns) /\ ns[k] # f
             /\ Of(ns[k]) \in Seq(Blocks) /\ Distinct(Of(ns[k]))
             /\ \A x : x \in Range(Of(ns[k])) <=> (x \in Range(S.disk[ns[k]].links) \/ x = ns[k])
             /\ \A x \in Range(S.disk[ns[k]].links) : x \in DataBlocks(S)
  BY ChildBlocksAre
<1>4. /\ own \in Seq(Blocks) /\ Distinct(own) /\ \A x \in Range(own) : x \in DataBlocks(S)
      /\ f \in Holders(S)
  <2>1. f \in Holders(S) /\ 1 \in 1..len
    BY <1>2 DEF Holders
  <2>2. own \in Seq(Blocks)
    BY <1>2, <2>1
  <2>3. Distinct(own)
    BY <2>1 DEF ImageOK, DataOK, Distinct
  <2>4. \A x \in Range(own) : x \in DataBlocks(S)
    BY <2>1, OneHolder
  <2> QED
    BY <2>1, <2>2, <2>3, <2>4
<1>5. bs = BlocksOfFile(S, f) /\ BlocksIn(S, f) = Range(ns) \cup {S.disk[f].meta} \cup Range(ls)
  BY DEF BlocksIn
<1>6. \A x : x \in DataBlocks(S) => x # f /\ x # S.disk[f].meta /\ x \notin Children(S)
  <2>1. S.disk[f].meta \in InfoBlocks(S)
    BY DEF ImageOK, MetasOK, Headers
  <2> QED
    BY <2>1 DEF DataBlocks, InfoBlocks, Children, Files
<1>7. \A x : x \in Children(S) => x # S.disk[f].meta
  BY DEF ImageOK, MetasOK, Headers, Children, InfoBlocks
<1>8. \A k, l \in 1..len : k # l => Range(S.disk[ns[k]].links) \cap Range(S.disk[ns[l]].links) = {}
  <2> SUFFICES ASSUME NEW k \in 1..len, NEW l \in 1..len, k # l,
                      NEW x, x \in Range(S.disk[ns[k]].links), x \in Range(S.disk[ns[l]].links)
               PROVE  FALSE
    OBVIOUS
  <2>1. ns[k] = ns[l]
    BY <1>2, OneHolder
  <2> QED
    BY <1>2, <2>1 DEF Distinct
<1> HIDE DEF ns, ls, bs
<1>9. seqs \in Seq(Seq(Blocks)) /\ Len(seqs) = len - 1
  <2>1. len - 1 \in Nat /\ \A k \in 1..(len - 1) : k + 1 \in 2..len
    BY <1>2
  <2>2. seqs \in [1..(len - 1) -> Seq(Blocks)]
    BY <1>3, <2>1
  <2> HIDE DEF seqs
  <2>3. seqs \in Seq(Seq(Blocks))
    BY <2>1, <2>2, SeqDef
  <2>4. Len(seqs) \in Nat /\ 1..Len(seqs) = 1..(len - 1)
    BY <2>2, <2>3, LenProperties
  <2>5. Len(seqs) = len - 1
    BY <2>1, <2>4, SameInterval
  <2> QED
    BY <2>3, <2>5
<1>10. \A k \in 1..(len - 1) : k + 1 \in 2..len /\ k + 1 \in 1..len /\ seqs[k] = Of(ns[k + 1])
  <2>1. \A k \in 1..(len - 1) : k + 1 \in 2..len /\ k + 1 \in 1..len
    BY <1>2
  <2>2. \A k \in 1..(len - 1) : seqs[k] = Of(ns[k + 1])
    <3> HIDE DEF Of
    <3> QED
      OBVIOUS
  <2> QED
    BY <2>1, <2>2
<1>11. \A k \in 2..len : k - 1 \in 1..(len - 1) /\ k - 1 + 1 = k
  BY <1>2
<1> HIDE DEF seqs
<1>12. Flat(Blocks, seqs)
  BY <1>9, FlattenIsFlat
<1> DEFINE flat == FlattenSeq(seqs)
<1>13. flat \in Seq(Blocks)
  BY <1>12 DEF Flat
<1>14. \A x : x \in Range(flat) <=>
          \E k \in 2..len : x \in Range(S.disk[ns[k]].links) \/ x = ns[k]
  <2>1. \A x : x \in Range(flat) <=> \E k \in 1..(len - 1) : x \in Range(seqs[k])
    BY <1>9, <1>12 DEF Flat
  <2>2. \A x : (\E k \in 1..(len - 1) : x \in Range(seqs[k])) <=> \E k \in 2..len : x \in Range(Of(ns[k]))
    <3> HIDE DEF Of
    <3> QED
      BY <1>10, <1>11
  <2>3. \A x : (\E k \in 2..len : x \in Range(Of(ns[k])))
               <=> \E k \in 2..len : x \in Range(S.disk[ns[k]].links) \/ x = ns[k]
    <3> HIDE DEF Of
    <3> QED
      BY <1>3
  <2> QED
    BY <2>1, <2>2, <2>3
<1>15. Distinct(flat)
  <2>1. \A k \in 1..(len - 1) : Distinct(seqs[k])
    BY <1>3, <1>10
  <2>2. \A k, l \in 1..(len - 1) : k # l => Range(seqs[k]) \cap Range(seqs[l]) = {}
    <3> SUFFICES ASSUME NEW k \in 1..(len - 1), NEW l \in 1..(len - 1), k # l,
                        NEW x, x \in Range(seqs[k]), x \in Range(seqs[l])
                 PROVE  FALSE
      OBVIOUS
    <3> DEFINE i == k + 1
               j == l + 1
    <3>1. i \in 2..len /\ j \in 2..len /\ i \in 1..len /\ j \in 1..len /\ i # j
      BY <1>10
    <3>2. x \in Range(Of(ns[i])) /\ x \in Range(Of(ns[j]))
      BY <1>10
    <3> HIDE DEF i, j, Of
    <3>3. /\ x \in Range(S.disk[ns[i]].links) \/ x = ns[i]
          /\ x \in Range(S.disk[ns[j]].links) \/ x = ns[j]
      BY <1>3, <3>1, <3>2
    <3>4. ns[i] # ns[j] /\ ns[i] \in Children(S) /\ ns[j] \in Children(S)
      BY <1>2, <1>3, <3>1 DEF Distinct
    <3>5. x \in Range(S.disk[ns[i]].links) => x \notin Range(S.disk[ns[j]].links)
      BY <1>8, <3>1
    <3> QED
      BY <1>3, <1>6, <3>1, <3>3, <3>4, <3>5
  <2> QED
    BY <1>9, <1>12, <2>1, <2>2 DEF Flat
<1> HIDE DEF flat
<1>16. Range(own) \cap Range(flat) = {}
  <2> SUFFICES ASSUME NEW x, x \in Range(own), x \in Range(flat)
               PROVE  FALSE
    OBVIOUS
  <2>1. PICK k \in 2..len : x \in Range(S.disk[ns[k]].links) \/ x = ns[k]
    BY <1>14
  <2>2. k \in 1..len /\ 1 \in 1..len /\ k # 1
    BY <1>2
  <2>3. x \notin Range(S.disk[ns[k]].links)
    BY <1>2, <1>8, <2>2
  <2> QED
    BY <1>3, <1>4, <1>6, <2>1, <2>3
<1>17. bs \in Seq(Blocks) /\ Distinct(bs) /\ Range(bs) = Range(own) \cup Range(flat)
  <2> HIDE DEF own
  <2>1. Distinct(own \o flat)
    BY <1>4, <1>13, <1>15, <1>16, DistinctConcat
  <2>2. own \o flat \in Seq(Blocks)
    BY <1>4, <1>13, ConcatProperties
  <2>3. Range(own \o flat) = Range(own) \cup Range(flat)
    BY <1>4, <1>13, RangeConcatenation
  <2> QED
    BY <1>1, <2>1, <2>2, <2>3 DEF flat
<1>18. \A k \in 1..len : k = 1 \/ k \in 2..len
  BY <1>2
<1>19. \A x : x \in Range(ls) <=>
         (x \in Range(own) \/ \E k \in 2..len : x \in Range(S.disk[ns[k]].links))
  <2>1. 1 \in 1..len /\ \A k \in 2..len : k \in 1..len
    BY <1>2
  <2> QED
    BY <1>2, <1>18, <2>1
<1>20. \A x : x \in Range(ns) <=> (x = f \/ \E k \in 2..len : x = ns[k])
  <2>1. \A x : x \in Range(ns) <=> \E k \in 1..len : ns[k] = x
    BY <1>2, RangeIs
  <2>2. 1 \in 1..len /\ \A k \in 2..len : k \in 1..len
    BY <1>2
  <2> QED
    BY <1>2, <1>18, <2>1, <2>2
<1>21. ASSUME NEW x
       PROVE  x \in Range(bs) <=> (x \in BlocksIn(S, f) /\ x # f /\ x # S.disk[f].meta)
  <2>1. ASSUME x \in Range(bs)
        PROVE  x \in BlocksIn(S, f) /\ x # f /\ x # S.disk[f].meta
    <3>1. CASE x \in Range(ls)
      BY <1>2, <1>5, <1>6, <3>1
    <3>2. CASE \E k \in 2..len : x = ns[k]
      BY <1>3, <1>5, <1>7, <3>2
    <3> QED
      BY <1>14, <1>17, <1>19, <2>1, <3>1, <3>2
  <2>2. ASSUME x \in BlocksIn(S, f), x # f, x # S.disk[f].meta
        PROVE  x \in Range(bs)
    BY <1>5, <1>14, <1>17, <1>19, <1>20, <2>2
  <2> QED
    BY <2>1, <2>2
<1> QED
  BY <1>17, <1>21 DEF bs

-----------------------------------------------------------------------------
(* Taking an entity out of its directory *)

\* F is S with the blocks of e free, but its inode and nodeinfo.
Emptied(S, F, e) ==
  /\ F \in Images /\ SuperOK(F) /\ FreeOK(F)
  /\ F.disk[e].kind = "inode" /\ F.disk[e].parent = S.disk[e].parent
  /\ F.disk[e].meta = S.disk[e].meta /\ F.disk[S.disk[e].meta].kind = "info"
  /\ \A a \in BlocksIn(S, e) : a # e /\ a # S.disk[e].meta => F.disk[a].kind = "free"
  /\ \A a \in Blocks : a \notin BlocksIn(S, e) => F.disk[a] = S.disk[a]

LEMMA EmptiedDir ==
  ASSUME NEW S, ImageOK(S), NEW e \in Dirs(S)
  PROVE  Emptied(S, S, e)
<1>1. e \in Headers(S) /\ Nodes(S, e) = <<e>> /\ e \notin Files(S)
  BY NodesAre DEF Headers, Dirs, Files
<1>2. S.disk[e].meta \in InfoBlocks(S)
  BY <1>1 DEF ImageOK, MetasOK
<1>3. Range(<<e>>) = {e}
  BY DEF Range
<1>4. BlocksIn(S, e) = {e, S.disk[e].meta}
  BY <1>1, <1>3 DEF BlocksIn
<1> QED
  BY <1>2, <1>4 DEF Emptied, ImageOK, TypesOK, Dirs, InfoBlocks

LEMMA EmptiedFile ==
  ASSUME NEW S, ImageOK(S), NEW e \in Files(S)
  PROVE  Emptied(S, free_file_data_blocks(S, e), e)
<1> DEFINE bs == BlocksOfFile(S, e)
           P == PutBlocks(S, bs)
           m == S.disk[e].meta
           x == [S.disk[e] EXCEPT !.next = 0]
           P1 == Save(P, e, x)
           F == SetSize(P1, m, 0)
<1>1. free_file_data_blocks(S, e) = F
  BY DEF free_file_data_blocks, SetSize
<1>2. /\ S \in Images /\ SuperOK(S) /\ FreeOK(S)
      /\ e \in Headers(S) /\ e \in Blocks /\ S.disk[e].kind = "inode"
      /\ m \in InfoBlocks(S) /\ m \in Blocks /\ S.disk[m].kind = "info"
      /\ S.disk[e] \in INodes /\ S.disk[m] \in Infos
  <2>1. S \in Images /\ SuperOK(S) /\ FreeOK(S) /\ e \in Headers(S)
    BY DEF ImageOK, TypesOK, Headers
  <2>2. m \in InfoBlocks(S)
    BY <2>1 DEF ImageOK, MetasOK
  <2>3. S.disk[e] \in INodes /\ S.disk[m] \in Infos
    BY <2>1, <2>2, BlockIs
  <2> QED
    BY <2>1, <2>2, <2>3 DEF Files, InfoBlocks
<1>3. /\ bs \in Seq(Blocks) /\ Distinct(bs)
      /\ \A a : a \in Range(bs) <=> (a \in BlocksIn(S, e) /\ a # e /\ a # m)
  BY BlocksOfFileAre
<1> HIDE DEF bs
<1>4. \A a \in Range(bs) : a # 0 /\ a \notin FreeOnes(S)
  BY <1>2, <1>3, BlocksInAre
<1>5. PutAll(S, P, Range(bs))
  BY <1>2, <1>3, <1>4, PutBlocksIs
<1> HIDE DEF P, m
<1>6. e # m /\ P \in Images /\ P.disk[e] = S.disk[e] /\ P.disk[m] = S.disk[m]
      /\ SuperOK(P) /\ FreeOK(P)
  BY <1>2, <1>3, <1>5 DEF PutAll
<1>7. WithNext(S.disk[e], 0, x)
  <2>1. 0 \in Blocks
    BY FormatAssumption DEF Blocks
  <2> QED
    BY <1>2, <2>1 DEF INodes, WithNext
<1> HIDE DEF x
<1>8. /\ P1 \in Images /\ P1.freelist = P.freelist /\ P1.freeblks = P.freeblks
      /\ \A a \in Blocks : P1.disk[a] = IF a = e THEN x ELSE P.disk[a]
  <2>1. x \in Structs
    BY <1>7 DEF WithNext, Structs
  <2> QED
    BY <1>2, <1>6, <2>1, SaveImage
<1> HIDE DEF P1
<1>9. But(P1, F, m) /\ WithSize(S.disk[m], 0, F.disk[m])
  <2>1. P1.disk[m] = S.disk[m] /\ 0 \in Nat
    BY <1>2, <1>6, <1>8
  <2>2. But(P1, F, m) /\ WithSize(P1.disk[m], 0, F.disk[m])
    BY <1>2, <1>8, <2>1, SetSizeIs
  <2> QED
    BY <2>1, <2>2
<1> HIDE DEF F
<1>10. /\ F \in Images /\ F.freelist = P.freelist /\ F.freeblks = P.freeblks
       /\ F.disk[e] = x
       /\ \A a \in Blocks : a # e /\ a # m => F.disk[a] = P.disk[a]
  BY <1>2, <1>6, <1>8, <1>9 DEF But
<1>11. /\ x.kind = "inode" /\ x.parent = S.disk[e].parent /\ x.meta = m
       /\ F.disk[m].kind = "info"
  BY <1>7, <1>9 DEF WithNext, WithSize, INodes, Infos, m
<1>12. SuperOK(F) /\ FreeOK(F)
  BY <1>2, <1>6, <1>10, <1>11, FreeStays
<1>13. \A a \in BlocksIn(S, e) : a # e /\ a # m => F.disk[a].kind = "free"
  <2>1. \A a \in BlocksIn(S, e) : a \in Blocks
    BY <1>2, BlocksInAre
  <2> QED
    BY <1>3, <1>5, <1>10, <2>1 DEF PutAll
<1>14. e \in BlocksIn(S, e) /\ m \in BlocksIn(S, e)
  <2>1. Nodes(S, e) \in Seq(Blocks) /\ Len(Nodes(S, e)) \in Nat /\ Len(Nodes(S, e)) >= 1
        /\ Nodes(S, e)[1] = e
    BY FileIs
  <2>2. e \in Range(Nodes(S, e))
    BY <2>1, RangeIs
  <2> QED
    BY <2>2 DEF BlocksIn, m
<1>15. \A a \in Blocks : a \notin BlocksIn(S, e) => F.disk[a] = S.disk[a]
  BY <1>3, <1>5, <1>10, <1>14 DEF PutAll
<1> QED
  BY <1>1, <1>10, <1>11, <1>12, <1>13, <1>15 DEF Emptied, m

\* unlink_node in a directory, which is one inode: one link less, and one less
\* in size.
LEMMA UnlinkIs ==
  ASSUME NEW S, S \in Images, SuperOK(S), FreeOK(S),
         NEW d \in Dirs(S), S.disk[d].next = 0, S.disk[d].meta \in InfoBlocks(S),
         Distinct(S.disk[d].links), NEW b, b \in Range(S.disk[d].links),
         S.disk[S.disk[d].meta].size = Len(S.disk[d].links)
  PROVE  Relinked(S, unlink_node(S, d, b), d, RemoveFirst(S.disk[d].links, b),
                  S.disk[d].meta, S.disk[S.disk[d].meta].size - 1)
<1> DEFINE m == S.disk[d].meta
           l == RemoveFirst(S.disk[d].links, b)
           size == S.disk[m].size - 1
           nodes == Nodes(S, d)
           I == {i \in 1..Len(nodes) : Contains(S.disk[nodes[i]].links, b)}
           k == SelectInSeq(nodes, LAMBDA n : Contains(S.disk[n].links, b))
           n == nodes[k]
           links == RemoveFirst(S.disk[n].links, b)
           S1 == [S EXCEPT !.disk[n].links = links]
           S2 == IF links = <<>> /\ S.disk[n].mode = "CHILD"
                 THEN fs_put_block([S1 EXCEPT !.disk[S.disk[n].meta].next = 0], 0)
                 ELSE S1
           T == unlink_node(S, d, b)
<1>1. T = [S2 EXCEPT !.disk[m].size = @ - 1]
  BY DEF unlink_node
<1>2. k = IF I # {} THEN Min(I) ELSE 0
  BY DEF SelectInSeq
<1>3. /\ d \in Blocks /\ S.disk[d] \in INodes /\ S.disk[d].kind = "inode" /\ S.disk[d].mode = "DIR"
      /\ m \in Blocks /\ S.disk[m] \in Infos /\ S.disk[m].kind = "info"
      /\ S.disk[d].links \in Seq(Blocks)
  <2>1. d \in Headers(S)
    BY DEF Headers
  <2>2. S.disk[d] \in INodes /\ S.disk[m] \in Infos
    BY <2>1, BlockIs
  <2> QED
    BY <2>2 DEF Dirs, InfoBlocks, INodes
<1>4. nodes = <<d>>
  <2>1. Len(<<d>>) = 1 /\ <<d>>[1] = d /\ <<d>> \in Seq(Blocks)
    BY <1>3
  <2>2. Linking(S, d, <<d>>)
    BY <2>1 DEF Linking, Distinct
  <2> QED
    BY <2>2, NodesOfLinking
<1>5. I = {1}
  <2>1. Contains(S.disk[d].links, b)
    BY <1>3, RangeIs DEF Contains
  <2> QED
    BY <1>4, <2>1
<1> HIDE DEF I, k
<1>6. k = 1
  <2>1. I \in SUBSET Nat /\ I # {}
    BY <1>5
  <2>2. Min(I) \in I
    BY <2>1, MinIsLeast
  <2> QED
    BY <1>2, <1>5, <2>1, <2>2
<1>7. n = d
  BY <1>4, <1>6
<1> HIDE DEF n, nodes
<1>8. S2 = SetLinks(S, d, l)
  <2>1. links = l
    BY <1>7
  <2>2. S1 = SetLinks(S, d, l)
    BY <1>7, <2>1 DEF SetLinks
  <2>3. S2 = S1
    BY <1>3, <1>7
  <2> QED
    BY <2>2, <2>3
<1> HIDE DEF S2
<1>9. T = SetSize(SetLinks(S, d, l), m, SetLinks(S, d, l).disk[m].size - 1)
  BY <1>1, <1>8, Zenon DEF SetSize
<1>10. l \in Seq(Blocks)
  BY <1>3, RemoveFirstLeaves
<1>11. size \in Nat
  <2> DEFINE s == S.disk[d].links
  <2>1. s \in Seq(Blocks) /\ b \in Range(s) /\ S.disk[m].size = Len(s)
    BY <1>3
  <2> HIDE DEF s, m
  <2>2. PICK i \in 1..Len(s) : s[i] = b
    BY <2>1, RangeIs
  <2>3. Len(s) \in Nat
    BY <2>1, LenProperties
  <2> QED
    BY <2>1, <2>2, <2>3
<1> HIDE DEF l
<1>12. Relinked(S, SetSize(SetLinks(S, d, l), m, size), d, l, m, size)
  <2> HIDE DEF size
  <2> QED
    BY <1>3, <1>10, <1>11, LinksAndSize
<1>13. SetLinks(S, d, l).disk[m] = S.disk[m]
  <2>1. But(S, SetLinks(S, d, l), d)
    BY <1>3, <1>10, SetLinksIs
  <2> QED
    BY <1>3, <2>1 DEF But
<1> QED
  BY <1>9, <1>12, <1>13 DEF l

\* An entity, not the root, that links no other.
Leaf(S, e) == e \in Headers(S) \ {root} /\ (e \in Dirs(S) => S.disk[e].links = <<>>)

LEMMA LeafIs ==
  ASSUME NEW S, ImageOK(S), NEW e, Leaf(S, e)
  PROVE  LET d == S.disk[e].parent
             m == S.disk[d].meta IN
         /\ d \in Dirs(S) /\ d # e /\ e \in Range(S.disk[d].links)
         /\ m \in InfoBlocks(S) /\ m # S.disk[e].meta
         /\ d \notin BlocksIn(S, e) /\ m \notin BlocksIn(S, e)
         /\ e \in BlocksIn(S, e) /\ S.disk[e].meta \in BlocksIn(S, e)
         /\ S.disk[d].next = 0 /\ S.disk[d].links \in Seq(Blocks) /\ Distinct(S.disk[d].links)
         /\ S.disk[m].size = Len(S.disk[d].links)
<1> DEFINE d == S.disk[e].parent
           m == S.disk[d].meta
<1>1. e \in Headers(S) \ {root} /\ d \in Dirs(S) /\ e \in Range(S.disk[d].links)
  BY DEF Leaf, ImageOK, ParentsOK
<1>2. d \in Headers(S)
  BY <1>1 DEF Headers
<1>3. d # e
  <2>1. CASE e \in Dirs(S)
    <3>1. Range(<<>>) = {}
      BY DEF Range
    <3> QED
      BY <1>1, <2>1, <3>1 DEF Leaf
  <2>2. CASE e \notin Dirs(S)
    BY <1>1, <2>2
  <2> QED
    BY <2>1, <2>2
<1>4. m \in InfoBlocks(S) /\ m # S.disk[e].meta
  BY <1>1, <1>2, <1>3 DEF ImageOK, MetasOK
<1>5. \A g \in Headers(S) : g \in BlocksIn(S, g) /\ S.disk[g].meta \in BlocksIn(S, g)
  <2> TAKE g \in Headers(S)
  <2>1. Linking(S, g, Nodes(S, g))
    BY NodesAre
  <2> DEFINE ns == Nodes(S, g)
  <2>2. ns \in Seq(Blocks) /\ Len(ns) \in Nat /\ Len(ns) >= 1 /\ ns[1] = g
    BY <2>1, LenProperties DEF Linking
  <2> HIDE DEF ns
  <2>3. 1 \in 1..Len(ns)
    BY <2>2
  <2>4. g \in Range(ns)
    BY <2>2, <2>3, RangeIs
  <2> QED
    BY <2>4 DEF BlocksIn, ns
<1>6. d \notin BlocksIn(S, e) /\ m \notin BlocksIn(S, e)
  BY <1>1, <1>2, <1>3, <1>5, BlocksInAreOwn
<1>7. S.disk[d].links \in Seq(Blocks)
  BY <1>1, DirLinks
<1>8. S.disk[d].next = 0
  BY <1>1 DEF ImageOK, EntriesOK
<1>9. Distinct(S.disk[d].links)
  BY <1>1 DEF ImageOK, EntriesOK, Distinct
<1>10. S.disk[m].size = Len(S.disk[d].links)
  BY <1>1 DEF ImageOK, SizesOK, InfoOf
<1> QED
  BY <1>1, <1>3, <1>4, <1>5, <1>6, <1>7, <1>8, <1>9, <1>10

\* T is S without e.
Removal(S, T, e, d, m) ==
  /\ T \in Images /\ SuperOK(T) /\ FreeOK(T)
  /\ d = S.disk[e].parent /\ m = S.disk[d].meta
  /\ \A a \in BlocksIn(S, e) : T.disk[a].kind = "free"
  /\ WithLinks(S.disk[d], RemoveFirst(S.disk[d].links, e), T.disk[d])
  /\ WithSize(S.disk[m], S.disk[m].size - 1, T.disk[m])
  /\ \A a \in Blocks : a \notin BlocksIn(S, e) /\ a # d /\ a # m => T.disk[a] = S.disk[a]

LEMMA RemovedIs ==
  ASSUME NEW S, ImageOK(S), NEW e, Leaf(S, e), NEW F, Emptied(S, F, e)
  PROVE  Removal(S, Removed(F, e), e, S.disk[e].parent, S.disk[S.disk[e].parent].meta)
<1> DEFINE d == S.disk[e].parent
           m == S.disk[d].meta
           me == S.disk[e].meta
           l == RemoveFirst(S.disk[d].links, e)
           size == S.disk[m].size - 1
           U == unlink_node(F, d, e)
           V == fs_put_block(U, me)
           T == fs_put_block(V, e)
<1>1. /\ F \in Images /\ SuperOK(F) /\ FreeOK(F)
      /\ F.disk[e].kind = "inode" /\ F.disk[e].parent = d
      /\ F.disk[e].meta = me /\ F.disk[me].kind = "info"
      /\ \A a \in BlocksIn(S, e) : a # e /\ a # me => F.disk[a].kind = "free"
      /\ \A a \in Blocks : a \notin BlocksIn(S, e) => F.disk[a] = S.disk[a]
  BY DEF Emptied
<1>2. /\ d \in Dirs(S) /\ d # e /\ e \in Range(S.disk[d].links)
      /\ m \in InfoBlocks(S) /\ m # me
      /\ d \notin BlocksIn(S, e) /\ m \notin BlocksIn(S, e)
      /\ e \in BlocksIn(S, e) /\ me \in BlocksIn(S, e)
      /\ S.disk[d].next = 0 /\ S.disk[d].links \in Seq(Blocks) /\ Distinct(S.disk[d].links)
      /\ S.disk[m].size = Len(S.disk[d].links)
  BY LeafIs
<1>3. Removed(F, e) = T
  BY <1>1 DEF Removed
<1>4. \A a \in BlocksIn(S, e) : a \in Blocks /\ a # 0
  BY BlocksInAre DEF Leaf
<1>5. d \in Blocks /\ m \in Blocks /\ S.disk[d].kind = "inode" /\ S.disk[m].kind = "info"
  BY <1>2 DEF Dirs, InfoBlocks
<1>6. F.disk[d] = S.disk[d] /\ F.disk[m] = S.disk[m]
  BY <1>1, <1>2, <1>5
<1>7. Relinked(F, U, d, l, m, size)
  <2>1. d \in Dirs(F) /\ m \in InfoBlocks(F)
    BY <1>2, <1>5, <1>6, Zenon DEF Dirs, InfoBlocks
  <2> HIDE DEF d, m
  <2>2. F.disk[d].meta = m /\ S.disk[d].meta = m
    BY <1>6 DEF m
  <2>3. Relinked(F, unlink_node(F, d, e), d, RemoveFirst(F.disk[d].links, e), F.disk[d].meta,
                 F.disk[F.disk[d].meta].size - 1)
    BY <1>1, <1>2, <1>6, <2>1, <2>2, UnlinkIs
  <2> QED
    BY <1>6, <2>2, <2>3
<1> HIDE DEF U, l, size
<1>8. /\ U \in Images /\ SuperOK(U) /\ FreeOK(U)
      /\ \A a \in Blocks : a # d /\ a # m => U.disk[a] = F.disk[a]
      /\ WithLinks(S.disk[d], l, U.disk[d]) /\ WithSize(S.disk[m], size, U.disk[m])
  BY <1>6, <1>7, Zenon DEF Relinked
<1> HIDE DEF d, m, me
<1>9. Put(U, V, me)
  <2>1. U.disk[me].kind = "info" /\ me \in Blocks /\ me # 0
    BY <1>1, <1>2, <1>4, <1>8
  <2>2. me \notin FreeOnes(U)
    BY <2>1 DEF FreeOnes
  <2> QED
    BY <1>8, <2>1, <2>2, PutBlock
<1> HIDE DEF V
<1>10. e # me
  BY <1>1
<1>11. Put(V, T, e)
  <2>1. e \in Blocks /\ e # 0 /\ V.disk[e] = U.disk[e] /\ U.disk[e] = F.disk[e]
    BY <1>2, <1>4, <1>8, <1>9, <1>10 DEF Put
  <2>2. e \notin FreeOnes(V)
    BY <1>1, <2>1 DEF FreeOnes
  <2> QED
    BY <1>9, <2>1, <2>2, PutBlock DEF Put
<1> HIDE DEF T
<1>12. \A a \in Blocks : a # e /\ a # me => T.disk[a] = U.disk[a]
  BY <1>9, <1>11 DEF Put
<1>13. \A a \in BlocksIn(S, e) : T.disk[a].kind = "free"
  <2> TAKE a \in BlocksIn(S, e)
  <2>1. CASE a = e
    BY <1>11, <2>1 DEF Put
  <2>2. CASE a = me
    BY <1>2, <1>4, <1>9, <1>10, <1>11, <2>2 DEF Put
  <2>3. CASE a # e /\ a # me
    <3>1. a \in Blocks /\ a # d /\ a # m
      BY <1>2, <1>4
    <3> QED
      BY <1>1, <1>8, <1>12, <2>3, <3>1
  <2> QED
    BY <2>1, <2>2, <2>3
<1>14. T.disk[d] = U.disk[d] /\ T.disk[m] = U.disk[m]
  BY <1>2, <1>5, <1>12
<1>15. \A a \in Blocks : a \notin BlocksIn(S, e) /\ a # d /\ a # m => T.disk[a] = S.disk[a]
  BY <1>1, <1>2, <1>8, <1>12
<1>16. T \in Images /\ SuperOK(T) /\ FreeOK(T)
  BY <1>11 DEF Put
<1> QED
  BY <1>3, <1>8, <1>13, <1>14, <1>15, <1>16, Zenon DEF Removal, d, m, l, size

\* An inode of a file, and what it links, are blocks of that file.
LEMMA HolderIs ==
  ASSUME NEW S, ImageOK(S), NEW n \in Holders(S)
  PROVE  \E f \in Files(S) :
           /\ n \in Range(Nodes(S, f)) /\ n \in BlocksIn(S, f)
           /\ \A x \in Range(S.disk[n].links) : x \in BlocksIn(S, f)
<1> DEFINE f == IF n \in Files(S) THEN n ELSE S.disk[n].parent
           ns == Nodes(S, f)
<1>1. f \in Files(S)
  BY DEF Holders, ImageOK, ChainsOK
<1>2. /\ ns \in Seq(Blocks) /\ Len(ns) \in Nat /\ Len(ns) >= 1 /\ ns[1] = f
      /\ \A x : x \in Range(LinksOf(S, ns)) <=>
                  \E k \in 1..Len(ns) : x \in Range(S.disk[ns[k]].links)
  BY <1>1, FileIs
<1>3. n \in Range(ns)
  <2>1. CASE n \in Files(S)
    <3>1. 1 \in 1..Len(ns) /\ ns[1] = n
      BY <1>2, <2>1
    <3> QED
      BY <1>2, <3>1, RangeIs
  <2>2. CASE n \notin Files(S)
    BY <2>2 DEF Holders, ImageOK, ChainsOK
  <2> QED
    BY <2>1, <2>2
<1> HIDE DEF f
<1>4. PICK k \in 1..Len(ns) : ns[k] = n
  BY <1>2, <1>3, RangeIs
<1>5. \A x \in Range(S.disk[n].links) : x \in Range(LinksOf(S, ns))
  BY <1>2, <1>4
<1> QED
  BY <1>1, <1>3, <1>5 DEF BlocksIn

LEMMA RemovalKeeps ==
  ASSUME NEW S, ImageOK(S), NEW e, Leaf(S, e), NEW T, NEW d, NEW m, Removal(S, T, e, d, m)
  PROVE  ImageOK(T) /\ TreeShrinks(S, T, e)
<1> DEFINE links == S.disk[d].links
           l == RemoveFirst(links, e)
           B == BlocksIn(S, e)
<1>1. /\ S \in Images /\ T \in Images /\ SuperOK(T) /\ FreeOK(T)
      /\ TypesOK(S) /\ ParentsOK(S) /\ EntriesOK(S) /\ MetasOK(S) /\ ReachOK(S)
      /\ ChainsOK(S) /\ DataOK(S) /\ SizesOK(S)
  <2>1. S \in Images /\ ReachOK(S) /\ ChainsOK(S) /\ DataOK(S) /\ SizesOK(S)
        /\ TypesOK(S) /\ ParentsOK(S) /\ EntriesOK(S) /\ MetasOK(S)
    BY Zenon DEF ImageOK, TypesOK
  <2>2. T \in Images /\ SuperOK(T) /\ FreeOK(T)
    BY Zenon DEF Removal
  <2> QED
    BY <2>1, <2>2
<1>2. d = S.disk[e].parent /\ m = S.disk[d].meta
  BY Zenon DEF Removal
<1>freed. \A a \in B : T.disk[a].kind = "free"
  BY Zenon DEF Removal
<1>linked. WithLinks(S.disk[d], l, T.disk[d]) /\ WithSize(S.disk[m], S.disk[m].size - 1, T.disk[m])
  BY Zenon DEF Removal
<1>same. \A a \in Blocks : a \notin B /\ a # d /\ a # m => T.disk[a] = S.disk[a]
  BY Zenon DEF Removal
<1>3. /\ d \in Dirs(S) /\ d # e /\ e \in Range(links)
      /\ m \in InfoBlocks(S) /\ m # S.disk[e].meta
      /\ d \notin B /\ m \notin B
      /\ e \in B /\ S.disk[e].meta \in B
      /\ S.disk[d].next = 0 /\ links \in Seq(Blocks) /\ Distinct(links)
      /\ S.disk[m].size = Len(links)
  <2> DEFINE q == S.disk[e].parent
             mq == S.disk[q].meta
  <2>1. /\ q \in Dirs(S) /\ q # e /\ e \in Range(S.disk[q].links)
        /\ mq \in InfoBlocks(S) /\ mq # S.disk[e].meta
        /\ q \notin BlocksIn(S, e) /\ mq \notin BlocksIn(S, e)
        /\ e \in BlocksIn(S, e) /\ S.disk[e].meta \in BlocksIn(S, e)
        /\ S.disk[q].next = 0 /\ S.disk[q].links \in Seq(Blocks) /\ Distinct(S.disk[q].links)
        /\ S.disk[mq].size = Len(S.disk[q].links)
    BY LeafIs
  <2>2. q = d /\ mq = m
    BY <1>2
  <2> HIDE DEF q, mq
  <2> QED
    BY <2>1, <2>2
<1>4. /\ e \in Headers(S) /\ e # root /\ (e \in Dirs(S) => S.disk[e].links = <<>>)
      /\ d \in Headers(S) /\ d \notin Holders(S) /\ root \in Headers(S)
  <2>1. e \in Headers(S) /\ e # root /\ (e \in Dirs(S) => S.disk[e].links = <<>>)
    BY DEF Leaf
  <2>2. d \in Headers(S) /\ root \in Headers(S)
    BY <1>1, <1>3 DEF Headers, ParentsOK
  <2>3. d \notin Holders(S)
    BY <1>3 DEF Holders, Dirs, Files, Children
  <2> QED
    BY <2>1, <2>2, <2>3
<1>5. /\ l \in Seq(Blocks) /\ Len(l) = Len(links) - 1 /\ Distinct(l)
      /\ \A x : x \in Range(l) <=> (x \in Range(links) /\ x # e)
      /\ Len(links) \in Nat
  BY <1>3, RemoveFirstLeaves, LenProperties
<1>6. /\ d \in Blocks /\ S.disk[d].kind = "inode" /\ S.disk[d].mode = "DIR"
      /\ m \in Blocks /\ S.disk[m].kind = "info"
      /\ T.disk[d].kind = "inode" /\ T.disk[d].mode = "DIR" /\ T.disk[d].parent = S.disk[d].parent
      /\ T.disk[d].meta = m /\ T.disk[d].next = 0 /\ T.disk[d].links = l
      /\ T.disk[m].kind = "info" /\ T.disk[m].size = Len(links) - 1 /\ T.disk[m].name = S.disk[m].name
  <2> DEFINE x == T.disk[d]
             y == T.disk[m]
             size == S.disk[m].size - 1
  <2>1. WithLinks(S.disk[d], l, x) /\ WithSize(S.disk[m], size, y)
    BY <1>linked
  <2>2. size = Len(links) - 1
    BY <1>3
  <2> HIDE DEF x, y, size, l, links
  <2>3. d \in Blocks /\ S.disk[d].kind = "inode" /\ S.disk[d].mode = "DIR"
    BY <1>3 DEF Dirs
  <2>4. m \in Blocks /\ S.disk[m].kind = "info"
    BY <1>3 DEF InfoBlocks
  <2>5. /\ x.kind = "inode" /\ x.mode = "DIR" /\ x.parent = S.disk[d].parent
        /\ x.meta = m /\ x.next = 0 /\ x.links = l
    BY <1>2, <1>3, <2>1, <2>3, Zenon DEF WithLinks, INodes
  <2>6. y.kind = "info" /\ y.size = Len(links) - 1 /\ y.name = S.disk[m].name
    BY <2>1, <2>2 DEF WithSize, Infos
  <2> QED
    BY <2>3, <2>4, <2>5, <2>6 DEF x, y
<1>7. \A g \in Headers(S) : \A x : x \in B /\ x \in BlocksIn(S, g) => g = e
  BY <1>4, BlocksInAreOwn
<1>8. \A a \in Files(S) : \A x \in Range(LinksOf(S, Nodes(S, a))) : x \in BlocksIn(S, a)
  BY DEF BlocksIn
<1> HIDE DEF B, l, links
<1>9. \A a \in Headers(S) : a \in B => a = e
  <2> SUFFICES ASSUME NEW a \in Headers(S), a \in B
               PROVE  a = e
    OBVIOUS
  <2>1. Linking(S, a, Nodes(S, a))
    BY NodesAre
  <2> DEFINE ns == Nodes(S, a)
  <2>2. ns \in Seq(Blocks) /\ Len(ns) \in Nat /\ Len(ns) >= 1 /\ ns[1] = a
    BY <2>1, LenProperties DEF Linking
  <2> HIDE DEF ns
  <2>3. a \in Range(ns)
    <3>1. 1 \in 1..Len(ns)
      BY <2>2
    <3> QED
      BY <2>2, <3>1, RangeIs
  <2>4. a \in BlocksIn(S, a)
    BY <2>3 DEF BlocksIn, ns
  <2> QED
    BY <1>7, <2>4
<1>10. \A a \in Headers(S) : S.disk[a].meta \in B => a = e
  <2>1. \A a \in Headers(S) : S.disk[a].meta \in BlocksIn(S, a)
    BY DEF BlocksIn
  <2> QED
    BY <1>7, <2>1
\* What is where.
<1>11. \A a : a \in Dirs(T) <=> (a \in Dirs(S) /\ a # e)
  <2>1. \A a \in Dirs(S) : a \in Headers(S)
    BY DEF Headers
  <2>2. \A a \in Blocks : a \in B => a \notin Dirs(T)
    BY <1>freed DEF Dirs
  <2>3. \A a \in Blocks : a \notin B /\ a # d /\ a # m => (a \in Dirs(T) <=> a \in Dirs(S))
    BY <1>same DEF Dirs
  <2>4. d \in Dirs(T) /\ m \notin Dirs(T) /\ m \notin Dirs(S)
    BY <1>6 DEF Dirs
  <2>5. \A a : a \in Dirs(T) \/ a \in Dirs(S) => a \in Blocks
    BY DEF Dirs
  <2> QED
    BY <1>3, <1>9, <2>1, <2>2, <2>3, <2>4, <2>5
<1>12. \A a : a \in Files(T) <=> (a \in Files(S) /\ a # e)
  <2>1. \A a \in Files(S) : a \in Headers(S)
    BY DEF Headers
  <2>2. \A a \in Blocks : a \in B => a \notin Files(T)
    BY <1>freed DEF Files
  <2>3. \A a \in Blocks : a \notin B /\ a # d /\ a # m => (a \in Files(T) <=> a \in Files(S))
    BY <1>same DEF Files
  <2>4. d \notin Files(T) /\ d \notin Files(S) /\ m \notin Files(T) /\ m \notin Files(S)
    BY <1>6 DEF Files
  <2>5. \A a : a \in Files(T) \/ a \in Files(S) => a \in Blocks
    BY DEF Files
  <2> QED
    BY <1>3, <1>9, <2>1, <2>2, <2>3, <2>4, <2>5
<1>13. \A a : a \in Children(T) <=> (a \in Children(S) /\ a \notin B)
  <2>1. \A a \in Blocks : a \in B => a \notin Children(T)
    BY <1>freed DEF Children
  <2>2. \A a \in Blocks : a \notin B /\ a # d /\ a # m => (a \in Children(T) <=> a \in Children(S))
    BY <1>same DEF Children
  <2>3. d \notin Children(T) /\ d \notin Children(S) /\ m \notin Children(T) /\ m \notin Children(S)
    BY <1>6 DEF Children
  <2>4. \A a : a \in Children(T) \/ a \in Children(S) => a \in Blocks
    BY DEF Children
  <2> QED
    BY <2>1, <2>2, <2>3, <2>4
<1>14. \A a : a \in InfoBlocks(T) <=> (a \in InfoBlocks(S) /\ a \notin B)
  <2>1. \A a \in Blocks : a \in B => a \notin InfoBlocks(T)
    BY <1>freed DEF InfoBlocks
  <2>2. \A a \in Blocks : a \notin B /\ a # d /\ a # m => (a \in InfoBlocks(T) <=> a \in InfoBlocks(S))
    BY <1>same DEF InfoBlocks
  <2>3. d \notin InfoBlocks(T) /\ d \notin InfoBlocks(S) /\ m \in InfoBlocks(T)
    BY <1>6 DEF InfoBlocks
  <2>4. \A a : a \in InfoBlocks(T) \/ a \in InfoBlocks(S) => a \in Blocks
    BY DEF InfoBlocks
  <2> QED
    BY <1>3, <2>1, <2>2, <2>3, <2>4
<1>15. \A a : a \in DataBlocks(T) <=> (a \in DataBlocks(S) /\ a \notin B)
  <2>1. \A a \in Blocks : a \in B => a \notin DataBlocks(T)
    BY <1>freed DEF DataBlocks
  <2>2. \A a \in Blocks : a \notin B /\ a # d /\ a # m => (a \in DataBlocks(T) <=> a \in DataBlocks(S))
    BY <1>same DEF DataBlocks
  <2>3. d \notin DataBlocks(T) /\ d \notin DataBlocks(S) /\ m \notin DataBlocks(T) /\ m \notin DataBlocks(S)
    BY <1>6 DEF DataBlocks
  <2>4. \A a : a \in DataBlocks(T) \/ a \in DataBlocks(S) => a \in Blocks
    BY DEF DataBlocks
  <2> QED
    BY <2>1, <2>2, <2>3, <2>4
<1>16. \A a : a \in Headers(T) <=> (a \in Headers(S) /\ a # e)
  BY <1>11, <1>12 DEF Headers
<1>17. \A a : a \in Holders(T) <=> (a \in Holders(S) /\ a \notin B)
  <2>1. \A a : a \in Files(T) <=> (a \in Files(S) /\ a \notin B)
    BY <1>3, <1>9, <1>12 DEF Headers
  <2> QED
    BY <1>13, <2>1 DEF Holders
\* What has not changed.
<1>18. /\ \A a \in Headers(T) : a # d => T.disk[a] = S.disk[a]
       /\ \A a \in Holders(T) : T.disk[a] = S.disk[a]
       /\ \A a \in DataBlocks(T) : T.disk[a] = S.disk[a]
       /\ \A a \in InfoBlocks(T) : T.disk[a].name = S.disk[a].name /\ (a # m => T.disk[a] = S.disk[a])
  <2>1. \A a \in Headers(S) \cup Holders(S) \cup DataBlocks(S) : a \in Blocks /\ a # m
    BY <1>6 DEF Headers, Holders, Dirs, Files, Children, DataBlocks
  <2>2. \A a \in DataBlocks(S) : a # d
    BY <1>6 DEF DataBlocks
  <2>3. \A a \in InfoBlocks(S) : a \in Blocks /\ a # d
    BY <1>6 DEF InfoBlocks
  <2>4. \A a \in Headers(T) : a # d => T.disk[a] = S.disk[a]
    BY <1>same, <1>9, <1>16, <2>1
  <2>5. \A a \in Holders(T) : T.disk[a] = S.disk[a]
    BY <1>same, <1>4, <1>17, <2>1
  <2>6. \A a \in DataBlocks(T) : T.disk[a] = S.disk[a]
    BY <1>same, <1>15, <2>1, <2>2
  <2>7. \A a \in InfoBlocks(T) : T.disk[a].name = S.disk[a].name /\ (a # m => T.disk[a] = S.disk[a])
    BY <1>same, <1>6, <1>14, <2>3
  <2> QED
    BY <2>4, <2>5, <2>6, <2>7
<1>19. \A a \in Headers(T) : /\ T.disk[a].meta = S.disk[a].meta /\ T.disk[a].parent = S.disk[a].parent
                             /\ T.disk[a].next = S.disk[a].next
  BY <1>2, <1>3, <1>6, <1>18, ZenonT(40)
<1>20. \A a \in Headers(T) : S.disk[a].meta \in InfoBlocks(T)
  BY <1>1, <1>10, <1>14, <1>16 DEF MetasOK
<1>21. /\ \A a \in Headers(T) : NameOf(T, a) = NameOf(S, a)
       /\ \A a \in Headers(T) : a # d => InfoOf(T, a).size = InfoOf(S, a).size
  <2>1. \A a \in Headers(T) : a # d => S.disk[a].meta # m
    BY <1>1, <1>2, <1>4, <1>16 DEF MetasOK
  <2>2. \A a \in Headers(T) : NameOf(T, a) = NameOf(S, a)
    BY <1>18, <1>19, <1>20 DEF NameOf, InfoOf
  <2>3. \A a \in Headers(T) : a # d => InfoOf(T, a).size = InfoOf(S, a).size
    BY <1>18, <1>19, <1>20, <2>1 DEF InfoOf
  <2> QED
    BY <2>2, <2>3
<1>22. d \in Dirs(T) /\ d \in Headers(T) /\ root \in Dirs(T) /\ root \in Headers(T)
  BY <1>1, <1>3, <1>4, <1>11 DEF Headers, ParentsOK
\* What makes T correct, part by part.
<1>23. TypesOK(T)
  <2>1. \A b \in DataBlocks(T) : Len(T.disk[b].bytes) \in 1..BlkSz
    BY <1>1, <1>15, <1>18 DEF TypesOK
  <2>2. \A b \in Headers(T) \cup Children(T) : Len(T.disk[b].links) <= MaxLinks
    <3> TAKE b \in Headers(T) \cup Children(T)
    <3>1. CASE b = d
      <4>1. Len(links) <= MaxLinks
        BY <1>1, <1>4 DEF TypesOK, links
      <4>2. MaxLinks \in Nat
        BY FormatAssumption
      <4> QED
        BY <1>5, <1>6, <3>1, <4>1, <4>2
    <3>2. CASE b # d
      <4>1. b \in Headers(S) \cup Children(S)
        BY <1>13, <1>16
      <4>2. T.disk[b] = S.disk[b]
        BY <1>18, <3>2 DEF Holders
      <4> QED
        BY <1>1, <4>1, <4>2 DEF TypesOK
    <3> QED
      BY <3>1, <3>2
  <2> QED
    BY <1>1, <2>1, <2>2 DEF TypesOK
<1>24. ParentsOK(T)
  <2>1. root \in Dirs(T) /\ T.disk[root].parent = root
    BY <1>1, <1>19, <1>22 DEF ParentsOK
  <2>2. ASSUME NEW a \in Headers(T) \ {root}
        PROVE  T.disk[a].parent \in Dirs(T) /\ a \in Range(T.disk[T.disk[a].parent].links)
    <3> DEFINE q == S.disk[a].parent
    <3>1. a \in Headers(S) \ {root} /\ a # e
      BY <1>16
    <3>2. q \in Dirs(S) /\ a \in Range(S.disk[q].links) /\ T.disk[a].parent = q
      BY <1>1, <1>19, <3>1 DEF ParentsOK
    <3> HIDE DEF q
    <3>3. q # e
      <4>1. Range(<<>>) = {}
        BY DEF Range
      <4> QED
        BY <1>4, <3>2, <4>1
    <3>4. q \in Dirs(T) /\ q \in Headers(T)
      BY <1>11, <3>2, <3>3 DEF Headers
    <3>5. CASE q = d
      <4>1. a \in Range(l)
        BY <1>5, <3>1, <3>2, <3>5 DEF links
      <4> QED
        BY <1>6, <3>2, <3>4, <3>5, <4>1
    <3>6. CASE q # d
      BY <1>18, <3>2, <3>4, <3>6
    <3> QED
      BY <3>5, <3>6
  <2> QED
    BY <2>1, <2>2 DEF ParentsOK
<1>25. EntriesOK(T)
  <2> SUFFICES ASSUME NEW a \in Dirs(T)
               PROVE  /\ T.disk[a].next = 0
                      /\ \A j \in 1..Len(T.disk[a].links) :
                           /\ T.disk[a].links[j] \in Headers(T) \ {root}
                           /\ T.disk[T.disk[a].links[j]].parent = a
                           /\ NameOf(T, T.disk[a].links[j]) \in Names
                           /\ \A k \in 1..Len(T.disk[a].links) :
                                NameOf(T, T.disk[a].links[j]) = NameOf(T, T.disk[a].links[k]) => j = k
    BY DEF EntriesOK
  <2>0. a \in Dirs(S) /\ a \in Headers(T)
    BY <1>11 DEF Headers
  <2> DEFINE s == S.disk[a].links
             r == T.disk[a].links
  <2>1. S.disk[a].next = 0
    BY <1>1, <2>0 DEF EntriesOK
  <2>2. \A j \in 1..Len(s) :
          /\ s[j] \in Headers(S) \ {root}
          /\ S.disk[s[j]].parent = a
          /\ NameOf(S, s[j]) \in Names
          /\ \A k \in 1..Len(s) : NameOf(S, s[j]) = NameOf(S, s[k]) => j = k
    BY <1>1, <2>0 DEF EntriesOK
  <2>3. T.disk[a].next = 0
    BY <1>19, <2>0, <2>1
  <2>4. CASE a # d
    <3>1. r = s
      BY <1>18, <2>0, <2>4
    <3>2. \A j \in 1..Len(s) : s[j] # e
      BY <1>2, <2>2, <2>4
    <3> HIDE DEF r, s
    <3>3. \A j \in 1..Len(s) : s[j] \in Headers(T)
      BY <1>16, <2>2, <3>2
    <3>4. \A j \in 1..Len(s) : T.disk[s[j]].parent = a /\ NameOf(T, s[j]) = NameOf(S, s[j])
      BY <1>19, <1>21, <2>2, <3>3
    <3>5. \A j \in 1..Len(r) :
            /\ r[j] \in Headers(T) \ {root} /\ T.disk[r[j]].parent = a /\ NameOf(T, r[j]) \in Names
            /\ \A k \in 1..Len(r) : NameOf(T, r[j]) = NameOf(T, r[k]) => j = k
      BY <2>2, <3>1, <3>3, <3>4
    <3> QED
      BY <2>3, <3>5 DEF r
  <2>5. CASE a = d
    <3>1. r = l /\ s = links
      BY <1>6, <2>5 DEF links
    <3> HIDE DEF r, s
    <3>2. \A j \in 1..Len(l) : l[j] # e /\ \E i \in 1..Len(s) : s[i] = l[j]
      <4> TAKE j \in 1..Len(l)
      <4>1. l[j] \in Range(l)
        BY <1>5, RangeIs
      <4>2. l[j] \in Range(links) /\ l[j] # e
        BY <1>5, <4>1
      <4>3. \E i \in 1..Len(links) : links[i] = l[j]
        BY <1>3, <4>2, RangeIs
      <4> QED
        BY <3>1, <4>2, <4>3
    <3>3. \A j \in 1..Len(l) : /\ l[j] \in Headers(S) \ {root} /\ S.disk[l[j]].parent = a
                               /\ NameOf(S, l[j]) \in Names
      BY <2>2, <3>2
    <3>4. \A j \in 1..Len(l) : /\ l[j] \in Headers(T) \ {root} /\ T.disk[l[j]].parent = a
                               /\ NameOf(T, l[j]) \in Names /\ NameOf(T, l[j]) = NameOf(S, l[j])
      BY <1>16, <1>19, <1>21, <3>2, <3>3
    <3>5. \A i, j \in 1..Len(s) : NameOf(S, s[i]) = NameOf(S, s[j]) => s[i] = s[j]
      BY <2>2
    <3>6. \A j, k \in 1..Len(l) : NameOf(S, l[j]) = NameOf(S, l[k]) => l[j] = l[k]
      BY <3>2, <3>5
    <3>7. \A j, k \in 1..Len(l) : NameOf(T, l[j]) = NameOf(T, l[k]) => j = k
      BY <1>5, <3>4, <3>6 DEF Distinct
    <3> QED
      BY <2>3, <3>1, <3>4, <3>7 DEF r
  <2> QED
    BY <2>4, <2>5
<1>26. MetasOK(T)
  <2>1. \A a \in Headers(T) : T.disk[a].meta \in InfoBlocks(T)
    BY <1>19, <1>20
  <2>2. \A a, b \in Headers(T) : T.disk[a].meta = T.disk[b].meta => a = b
    BY <1>1, <1>16, <1>19 DEF MetasOK
  <2>3. ASSUME NEW b \in InfoBlocks(T)
        PROVE  \E a \in Headers(T) : T.disk[a].meta = b
    <3>1. b \in InfoBlocks(S) /\ b \notin B
      BY <1>14
    <3>2. PICK a \in Headers(S) : S.disk[a].meta = b
      BY <1>1, <3>1 DEF MetasOK
    <3>3. a \in Headers(T)
      BY <1>3, <1>16, <3>1, <3>2
    <3> QED
      BY <1>19, <3>2, <3>3
  <2> QED
    BY <2>1, <2>2, <2>3 DEF MetasOK
<1>27. ReachOK(T)
  <2> DEFINE gone == {e}
  <2>1. ASSUME NEW x, NEW y, NEW z, IsEntry(S, x, y, z), x \notin gone, z \notin gone
        PROVE  IsEntry(T, x, y, z)
    <3>1. x \in Dirs(S) /\ z \in Range(S.disk[x].links) /\ NameOf(S, z) = y /\ z \in Headers(S)
      BY <1>1, <2>1, EntryIs DEF IsEntry
    <3>2. x # e /\ z # e
      BY <2>1
    <3>3. x \in Dirs(T) /\ x \in Headers(T) /\ z \in Headers(T)
      BY <1>11, <1>16, <3>1, <3>2 DEF Headers
    <3>4. z \in Range(T.disk[x].links)
      <4>1. CASE x = d
        BY <1>5, <1>6, <3>1, <3>2, <4>1 DEF links
      <4>2. CASE x # d
        BY <1>18, <3>1, <3>3, <4>2
      <4> QED
        BY <4>1, <4>2
    <3> QED
      BY <1>21, <3>1, <3>3, <3>4 DEF IsEntry
  <2>2. \A x, y, z : ~(x \in gone /\ IsEntry(S, x, y, z))
    <3>1. Range(<<>>) = {}
      BY DEF Range
    <3> QED
      BY <1>4, <3>1 DEF IsEntry
  <2>3. \A a : a \in gone <=> a = e
    OBVIOUS
  <2> HIDE DEF gone
  <2>4. \A q \in Seq(Names) :
          /\ get_inode_block(S, q).full_match
          /\ get_inode_block(S, q).block \notin gone
          => /\ get_inode_block(T, q).full_match
             /\ get_inode_block(T, q).block = get_inode_block(S, q).block
    BY <1>1, <1>24, <1>25, <2>1, <2>2, LookupStays
  <2>5. ASSUME NEW a \in Headers(T)
        PROVE  \E q \in Paths : get_inode_block(T, q).full_match /\ get_inode_block(T, q).block = a
    <3>1. a \in Headers(S) /\ a \notin gone
      BY <1>16, <2>3
    <3>2. PICK q \in Paths : get_inode_block(S, q).full_match /\ get_inode_block(S, q).block = a
      BY <1>1, <3>1 DEF ReachOK
    <3>3. q \in Seq(Names)
      BY PathsAre
    <3> QED
      BY <2>4, <3>1, <3>2, <3>3
  <2> QED
    BY <2>5 DEF ReachOK
<1>28. \A f \in Files(T) :
         /\ Nodes(T, f) = Nodes(S, f) /\ Chained(T, f, Nodes(T, f))
         /\ Bytes(T, LinksOf(T, Nodes(T, f))) = Bytes(S, LinksOf(S, Nodes(S, f)))
         /\ LinksOf(T, Nodes(T, f)) = LinksOf(S, Nodes(S, f))
         /\ \A x \in Range(LinksOf(S, Nodes(S, f))) : T.disk[x] = S.disk[x]
  <2> TAKE f \in Files(T)
  <2>0. f \in Files(S) /\ f # e /\ f \in Headers(S)
    BY <1>12 DEF Headers
  <2>1. /\ Nodes(S, f) \in Seq(Blocks)
        /\ \A k \in 1..Len(Nodes(S, f)) : Nodes(S, f)[k] \in Holders(S)
        /\ \A x \in Range(LinksOf(S, Nodes(S, f))) : x \in DataBlocks(S)
    BY <2>0, FileIs
  <2>2. \A a \in Range(Nodes(S, f)) : a \in Holders(S) /\ a \in BlocksIn(S, f)
    BY <2>1, RangeIs DEF BlocksIn
  <2>3. \A a \in Range(Nodes(S, f)) : T.disk[a] = S.disk[a]
    BY <1>7, <1>17, <1>18, <2>0, <2>2
  <2>4. \A x \in Range(LinksOf(S, Nodes(S, f))) : T.disk[x] = S.disk[x]
    <3> TAKE x \in Range(LinksOf(S, Nodes(S, f)))
    <3>1. x \in DataBlocks(S) /\ x \in BlocksIn(S, f)
      BY <1>8, <2>0, <2>1
    <3> QED
      BY <1>7, <1>15, <1>18, <2>0, <3>1
  <2> QED
    BY <2>0, <2>3, <2>4, FileFrame
<1>29. ChainsOK(T)
  <2>1. \A f \in Files(T) : Chained(T, f, Nodes(T, f))
    BY <1>28
  <2>2. ASSUME NEW c \in Children(T)
        PROVE  T.disk[c].parent \in Files(T) /\ c \in Range(Nodes(T, T.disk[c].parent))
    <3> DEFINE q == S.disk[c].parent
    <3>1. c \in Children(S) /\ c \notin B /\ T.disk[c] = S.disk[c]
      BY <1>13, <1>18 DEF Holders
    <3>2. q \in Files(S) /\ c \in Range(Nodes(S, q))
      BY <1>1, <3>1 DEF ChainsOK
    <3> HIDE DEF q
    <3>3. q # e
      BY <3>1, <3>2 DEF B, BlocksIn
    <3>4. q \in Files(T)
      BY <1>12, <3>2, <3>3
    <3> QED
      BY <1>28, <3>1, <3>2, <3>4 DEF q
  <2> QED
    BY <2>1, <2>2 DEF ChainsOK
<1>30. \A n \in Holders(S) : \A x \in Range(S.disk[n].links) : n \in B <=> x \in B
  <2> TAKE n \in Holders(S)
  <2> TAKE x \in Range(S.disk[n].links)
  <2>1. PICK f \in Files(S) : n \in BlocksIn(S, f) /\ x \in BlocksIn(S, f)
    BY HolderIs
  <2>2. f \in Headers(S)
    BY DEF Headers
  <2> QED
    BY <1>7, <2>1, <2>2 DEF B
<1>31. DataOK(T)
  <2>1. \A a \in Holders(T) : a \in Holders(S) /\ a \notin B /\ T.disk[a] = S.disk[a]
    BY <1>17, <1>18
  <2>2. \A a \in Holders(S) : S.disk[a].links \in Seq(Blocks)
    <3>1. \A a \in Holders(S) : a \in Headers(S) \cup Children(S)
      BY DEF Holders, Headers
    <3> QED
      BY <1>1, <3>1, BlockIs DEF INodes
  <2>3. ASSUME NEW a \in Holders(T), NEW j \in 1..Len(T.disk[a].links)
        PROVE  /\ T.disk[a].links[j] \in DataBlocks(T)
               /\ \A b \in Holders(T) : \A k \in 1..Len(T.disk[b].links) :
                    T.disk[a].links[j] = T.disk[b].links[k] => a = b /\ j = k
    <3>1. a \in Holders(S) /\ a \notin B /\ j \in 1..Len(S.disk[a].links) /\ T.disk[a] = S.disk[a]
      BY <2>1
    <3>2. S.disk[a].links[j] \in DataBlocks(S)
      BY <1>1, <3>1 DEF DataOK
    <3>3. S.disk[a].links[j] \in Range(S.disk[a].links)
      BY <2>2, <3>1, RangeIs
    <3>4. S.disk[a].links[j] \in DataBlocks(T)
      BY <1>15, <1>30, <3>1, <3>2, <3>3
    <3>5. ASSUME NEW b \in Holders(T), NEW k \in 1..Len(T.disk[b].links),
                 T.disk[a].links[j] = T.disk[b].links[k]
          PROVE  a = b /\ j = k
      <4>1. b \in Holders(S) /\ k \in 1..Len(S.disk[b].links) /\ T.disk[b] = S.disk[b]
        BY <2>1
      <4> QED
        BY <1>1, <3>1, <3>5, <4>1 DEF DataOK
    <3> QED
      BY <3>1, <3>4, <3>5
  <2>4. ASSUME NEW b \in DataBlocks(T)
        PROVE  \E a \in Holders(T) : b \in Range(T.disk[a].links)
    <3>1. b \in DataBlocks(S) /\ b \notin B
      BY <1>15
    <3>2. PICK a \in Holders(S) : b \in Range(S.disk[a].links)
      BY <1>1, <3>1 DEF DataOK
    <3>3. a \in Holders(T)
      BY <1>17, <1>30, <3>1, <3>2
    <3> QED
      BY <2>1, <3>2, <3>3
  <2> QED
    BY <2>3, <2>4 DEF DataOK
<1>32. SizesOK(T)
  <2>1. ASSUME NEW a \in Dirs(T)
        PROVE  InfoOf(T, a).size = Len(T.disk[a].links)
    <3>1. a \in Dirs(S) /\ a \in Headers(T)
      BY <1>11 DEF Headers
    <3>2. CASE a = d
      BY <1>5, <1>6, <3>2 DEF InfoOf
    <3>3. CASE a # d
      BY <1>1, <1>18, <1>21, <3>1, <3>3 DEF SizesOK
    <3> QED
      BY <3>2, <3>3
  <2>2. ASSUME NEW f \in Files(T)
        PROVE  InfoOf(T, f).size = Bytes(T, LinksOf(T, Nodes(T, f)))
    <3>1. f \in Files(S) /\ f \in Headers(T) /\ f # d
      BY <1>6, <1>12 DEF Headers, Files
    <3> QED
      BY <1>1, <1>21, <1>28, <3>1 DEF SizesOK
  <2> QED
    BY <2>1, <2>2 DEF SizesOK
<1>33. FewerEntries(S, T, e)
  <2>1. \A y, z : ~IsEntry(S, e, y, z)
    <3>1. Range(<<>>) = {}
      BY DEF Range
    <3> QED
      BY <1>4, <3>1 DEF IsEntry
  <2>2. ASSUME NEW x, NEW y, NEW z, IsEntry(S, x, y, z), z # e
        PROVE  IsEntry(T, x, y, z)
    <3>1. x \in Dirs(S) /\ z \in Range(S.disk[x].links) /\ NameOf(S, z) = y /\ z \in Headers(S)
      BY <1>1, <2>2, EntryIs DEF IsEntry
    <3>2. x \in Dirs(T) /\ x \in Headers(T) /\ z \in Headers(T)
      BY <1>11, <1>16, <2>1, <2>2, <3>1 DEF Headers
    <3>3. z \in Range(T.disk[x].links)
      BY <1>5, <1>6, <1>18, <2>2, <3>1, <3>2 DEF links
    <3> QED
      BY <1>21, <3>1, <3>2, <3>3 DEF IsEntry
  <2>3. ASSUME NEW x, NEW y, NEW z, IsEntry(T, x, y, z)
        PROVE  IsEntry(S, x, y, z) /\ z # e
    <3>1. x \in Dirs(T) /\ z \in Range(T.disk[x].links) /\ NameOf(T, z) = y /\ z \in Headers(T)
      BY <1>1, <1>25, <1>24, <2>3, EntryIs DEF IsEntry
    <3>2. x \in Dirs(S) /\ x \in Headers(T) /\ z # e
      BY <1>11, <1>16, <3>1 DEF Headers
    <3>3. z \in Range(S.disk[x].links)
      BY <1>5, <1>6, <1>18, <3>1, <3>2 DEF links
    <3> QED
      BY <1>21, <3>1, <3>2, <3>3 DEF IsEntry
  <2> QED
    BY <1>4, <2>1, <2>2, <2>3 DEF FewerEntries
<1>34. TreeShrinks(S, T, e)
  <2>1. \A f \in Files(T) : f \in Headers(T) /\ f # d /\ f \in Files(S)
    BY <1>6, <1>12 DEF Headers, Files
  <2>2. \A f \in Files(T) : Stays(S, T, f)
    BY <1>21, <1>28, <2>1 DEF Stays
  <2> QED
    BY <1>11, <1>12, <1>33, <2>2 DEF TreeShrinks
<1> QED
  BY <1>1, <1>23, <1>24, <1>25, <1>26, <1>27, <1>29, <1>31, <1>32, <1>34 DEF ImageOK
-----------------------------------------------------------------------------
(* The calls *)

\* What free_file_data_blocks leaves of a file that has no data: all of it.
LEMMA NothingToFree ==
  ASSUME NEW S, ImageOK(S), NEW f \in Files(S), S.disk[f].links = <<>>
  PROVE  free_file_data_blocks(S, f) = S
<1> DEFINE m == S.disk[f].meta
           r == [k \in 1..(Len(Nodes(S, f)) - 1) |->
                   LET n == Nodes(S, f)[k + 1] IN Append(S.disk[n].links, n)]
<1>1. Nodes(S, f) = <<f>> /\ S.disk[f].next = 0 /\ InfoOf(S, f).size = 0
  BY EmptyFile
<1>2. /\ S \in Images /\ f \in Blocks /\ S.disk[f] \in INodes /\ m \in Blocks /\ S.disk[m] \in Infos
  <2>1. S \in Images /\ f \in Headers(S)
    BY DEF ImageOK, TypesOK, Headers
  <2>2. m \in InfoBlocks(S)
    BY <2>1 DEF ImageOK, MetasOK
  <2> QED
    BY <2>1, <2>2, BlockIs
<1>3. r = <<>>
  <2>1. Len(<<f>>) - 1 = 0
    OBVIOUS
  <2>2. 1..(Len(Nodes(S, f)) - 1) = {}
    BY <1>1, <2>1
  <2>3. r \in [1..0 -> {0}]
    BY <2>2
  <2> HIDE DEF r
  <2>4. r \in Seq({0}) /\ Len(r) = 0
    BY <2>3
  <2> QED
    BY <2>4, EmptySeq
<1>4. BlocksOfFile(S, f) = S.disk[f].links \o FlattenSeq(r)
  BY DEF BlocksOfFile
<1> HIDE DEF r
<1>5. BlocksOfFile(S, f) = <<>>
  BY <1>3, <1>4, FlattenNone
<1>6. PutBlocks(S, <<>>) = S
  <2>1. Len(<<>>) = 0
    OBVIOUS
  <2>2. PICK g : Puts(g, Len(<<>>), S, <<>>) /\ PutBlocks(S, <<>>) = g[Len(<<>>)]
    BY <2>1, PutsReturned
  <2> QED
    BY <2>1, <2>2 DEF Puts
<1>7. [S.disk[f] EXCEPT !.next = 0] = S.disk[f]
  BY <1>1, <1>2 DEF INodes
<1>8. Save(S, f, S.disk[f]) = S
  BY <1>2 DEF Save, Images
<1>9. [S EXCEPT !.disk[m].size = 0] = S
  <2>1. S.disk[m].size = 0
    BY <1>1 DEF InfoOf
  <2> HIDE DEF m
  <2>2. [S.disk[m] EXCEPT !.size = 0] = S.disk[m]
    BY <1>2, <2>1 DEF Infos
  <2>3. [S.disk EXCEPT ![m] = S.disk[m]] = S.disk
    BY <1>2 DEF Images
  <2>4. [S EXCEPT !.disk = S.disk] = S
    BY <1>2 DEF Images
  <2>5. [S EXCEPT !.disk[m].size = 0] = [S EXCEPT !.disk = [S.disk EXCEPT ![m] = [S.disk[m] EXCEPT !.size = 0]]]
    BY <1>2 DEF Images
  <2> QED
    BY <2>2, <2>3, <2>4, <2>5
<1>10. free_file_data_blocks(S, f) = [Save(S, f, S.disk[f]) EXCEPT !.disk[m].size = 0]
  BY <1>5, <1>6, <1>7 DEF free_file_data_blocks
<1> HIDE DEF m
<1> QED
  BY <1>8, <1>9, <1>10

\* A path that is not the root: its directory, and its name there.
LEMMA PathIs ==
  ASSUME NEW p \in Paths, p # <<>>
  PROVE  LET q == Front(p)
             n == p[Len(p)] IN
         q \in Seq(Names) /\ n \in Names /\ p = Append(q, n)
<1> DEFINE q == Front(p)
           n == p[Len(p)]
           len == Len(p)
<1>1. p \in Seq(Names) /\ len \in Nat /\ p = [i \in 1..len |-> p[i]]
  BY PathsAre, LenProperties
<1>2. len # 0
  BY <1>1, EmptySeq
<1>3. n \in Names
  BY <1>1, <1>2, ElementOfSeq
<1>4. q \in Seq(Names) /\ Len(q) = len - 1 /\ \A i \in 1..(len - 1) : q[i] = p[i]
  BY <1>1, <1>2, SubSeqProperties DEF Front
<1> HIDE DEF q, n
<1> DEFINE r == Append(q, n)
<1>5. /\ r \in Seq(Names) /\ Len(r) = len /\ r[len] = n
      /\ \A i \in 1..(len - 1) : r[i] = p[i]
  <2> DEFINE k == Len(q)
  <2>1. k = len - 1 /\ k + 1 = len
    BY <1>1, <1>4
  <2>2. r \in Seq(Names) /\ Len(r) = k + 1 /\ r[k + 1] = n /\ \A i \in 1..k : r[i] = q[i]
    BY <1>3, <1>4, AppendProperties
  <2> HIDE DEF k, r
  <2> QED
    BY <1>4, <2>1, <2>2
<1> HIDE DEF r
<1>6. \A i \in 1..len : r[i] = p[i]
  <2>1. \A i \in 1..len : i \in 1..(len - 1) \/ i = len
    BY <1>1
  <2>2. p[len] = n
    BY DEF n
  <2> QED
    BY <1>5, <2>1, <2>2
<1>7. p = r
  BY <1>1, <1>5, <1>6, SeqEqual
<1> QED
  BY <1>3, <1>4, <1>7 DEF q, n, r

\* What is there: a header, and not the root unless the path is empty.
LEMMA FoundIs ==
  ASSUME IInv, NEW p \in Paths, At(p).full_match
  PROVE  /\ At(p).block \in Headers(fs)
         /\ IsDir(p) => At(p).block \in Dirs(fs)
         /\ ~IsDir(p) => At(p).block \in Files(fs)
         /\ p # <<>> => At(p).block # root
<1>1. ImageOK(fs) /\ fs \in Images /\ EntriesOK(fs) /\ ParentsOK(fs)
  BY DEF IInv, ImageOK, TypesOK
<1>2. p \in Seq(Names)
  BY PathsAre
<1>3. At(p).block \in Headers(fs)
  BY <1>1, <1>2, LookupIs DEF At
<1>4. ASSUME p # <<>>
      PROVE  At(p).block # root
  <2> DEFINE q == Front(p)
             n == p[Len(p)]
             at == get_inode_block(fs, q)
  <2>1. q \in Seq(Names) /\ n \in Names /\ p = Append(q, n)
    BY <1>4, PathIs
  <2> HIDE DEF q, n
  <2>2. At(p) = Descend(fs, at, n)
    BY <2>1, LookupAppend DEF At
  <2>3. at \in Ats /\ at.block \in Headers(fs)
    BY <1>1, <2>1, LookupIs
  <2> HIDE DEF at
  <2>4. IsEntry(fs, at.block, n, At(p).block)
    BY <1>1, <2>1, <2>2, <2>3, DescendIs
  <2> QED
    BY <1>1, <2>4, EntryIs
<1>5. (IsDir(p) => At(p).block \in Dirs(fs)) /\ (~IsDir(p) => At(p).block \in Files(fs))
  BY <1>3 DEF IsDir, Headers, Dirs, Files
<1> QED
  BY <1>3, <1>4, <1>5

\* A new name in a directory.
NewIn(p, q, n, d) ==
  /\ q \in Seq(Names) /\ n \in Names /\ p = Append(q, n)
  /\ get_inode_block(fs, q).full_match /\ get_inode_block(fs, q).block = d
  /\ d \in Dirs(fs) /\ Len(fs.disk[d].links) < MaxLinks
  /\ \A e : ~IsEntry(fs, d, n, e)

LEMMA NotFoundIs ==
  ASSUME IInv, NEW p \in Paths, ~At(p).full_match, Creatable(p)
  PROVE  \E q : NewIn(p, q, At(p).left_over, At(p).block)
<1>1. ImageOK(fs) /\ fs \in Images /\ EntriesOK(fs) /\ ParentsOK(fs)
  BY DEF IInv, ImageOK, TypesOK
<1>2. p # <<>>
  BY LookupNone DEF At, Start
<1> DEFINE q == Front(p)
           n == p[Len(p)]
           at == get_inode_block(fs, q)
<1>3. q \in Seq(Names) /\ n \in Names /\ p = Append(q, n)
  BY <1>2, PathIs
<1>4. at.full_match /\ fs.disk[at.block].mode = "DIR" /\ Len(fs.disk[At(p).block].links) < MaxLinks
  BY DEF Creatable, IsDir, At
<1> HIDE DEF q, n
<1>5. At(p) = Descend(fs, at, n)
  BY <1>3, LookupAppend DEF At
<1>6. at \in Ats /\ at.block \in Headers(fs)
  BY <1>1, <1>3, LookupIs
<1>7. at.block \in Dirs(fs)
  BY <1>4, <1>6 DEF Headers, Dirs, Files
<1>8. At(p).block = at.block /\ At(p).left_over = n /\ \A e : ~IsEntry(fs, at.block, n, e)
  <2> HIDE DEF at
  <2> DEFINE r == Descend(fs, at, n)
  <2>1. at.full_match /\ ~r.full_match =>
          r.block = at.block /\ r.left_over = n /\ \A e : ~IsEntry(fs, at.block, n, e)
    BY <1>1, <1>3, <1>6, DescendIs
  <2> HIDE DEF r
  <2>2. At(p) = r
    BY <1>5 DEF r
  <2> QED
    BY <1>4, <2>1, <2>2
<1>9. NewIn(p, q, At(p).left_over, At(p).block)
  BY <1>3, <1>4, <1>7, <1>8 DEF NewIn
<1> QED
  BY <1>9

\* RoomFor, in the terms of WriteKeeps.
LEMMA RoomIs ==
  ASSUME IInv, NEW p, NEW c, RoomFor(p, c), Len(Chunks(c)) \in Nat
  PROVE  /\ fs.freeblks \in Nat
         /\ At(p).full_match => Needed(Len(Chunks(c))) <= fs.freeblks
         /\ ~At(p).full_match => /\ fs.freeblks >= 2
                                 /\ Needed(Len(Chunks(c))) <= fs.freeblks - 2
<1> DEFINE n == Len(Chunks(c))
           inodes == IF n = 0 THEN 0 ELSE (n - 1) \div MaxLinks
           entity == IF At(p).full_match THEN 0 ELSE 2
           room == fs.freeblks
<1>1. entity + inodes + n <= room
  BY DEF RoomFor
<1>2. n \in Nat
  OBVIOUS
<1>3. room \in Nat
  BY DEF IInv, ImageOK, TypesOK, Images
<1>4. Needed(n) = n + inodes
  BY DEF Needed
<1> HIDE DEF n
<1>5. inodes \in Nat
  <2>1. MaxLinks \in Nat /\ MaxLinks > 0
    BY FormatAssumption
  <2>2. n # 0 => n - 1 \in Nat
    BY <1>2
  <2> QED
    BY <2>1, <2>2, DivIs
<1> HIDE DEF inodes, room
<1>6. At(p).full_match => n + inodes <= room
  BY <1>1, <1>2, <1>3, <1>5
<1>7. ~At(p).full_match => room >= 2 /\ n + inodes <= room - 2
  BY <1>1, <1>2, <1>3, <1>5
<1> QED
  BY <1>3, <1>4, <1>6, <1>7 DEF n, room

LEMMA CallWrites ==
  ASSUME IInv, ~Overwrites, NEW p \in Paths, NEW c \in Contents, fs_write_file(p, c)
  PROVE  IInv'
<1>1. ImageOK(fs)
  BY DEF IInv
<1>2. SUFFICES ImageOK(fs')
  BY DEF IInv
<1>3. CASE fs' = fs
  BY <1>1, <1>3
<1>4. CASE fs' # fs
  <2> DEFINE file == IF At(p).full_match THEN At(p).block ELSE CreatedBlock(fs)
             S == IF At(p).full_match THEN free_file_data_blocks(fs, file)
                  ELSE create_entity(fs, At(p).block, At(p).left_over, "REG")
  <2>1. /\ Creatable(p) /\ ~IsDir(p) /\ RoomFor(p, c)
        /\ IsFile(p) => fs.disk[file].links = <<>>
        /\ fs' = write_to_file(S, file, c)
    BY <1>4 DEF fs_write_file, Return
  <2>2. /\ fs.freeblks \in Nat
        /\ At(p).full_match => Needed(Len(Chunks(c))) <= fs.freeblks
        /\ ~At(p).full_match => /\ fs.freeblks >= 2
                                /\ Needed(Len(Chunks(c))) <= fs.freeblks - 2
    <3>1. Len(Chunks(c)) \in Nat
      BY ChunksAre
    <3> QED
      BY <2>1, <3>1, RoomIs
  <2>3. CASE At(p).full_match
    <3>1. At(p).block \in Files(fs)
      BY <2>1, <2>3, FoundIs
    <3>2. IsFile(p)
      BY <2>3, <3>1 DEF IsFile, Files
    <3>3. file = At(p).block /\ fs.disk[file].links = <<>>
      BY <2>1, <2>3, <3>2
    <3>4. S = fs
      BY <1>1, <2>3, <3>1, <3>3, NothingToFree
    <3> HIDE DEF S, file
    <3> QED
      BY <1>1, <2>1, <2>2, <2>3, <3>1, <3>3, <3>4, WriteKeeps
  <2>4. CASE ~At(p).full_match
    <3> DEFINE d == At(p).block
               n == At(p).left_over
    <3>1. PICK q : NewIn(p, q, n, d)
      BY <2>1, <2>4, NotFoundIs
    <3>2. S = create_entity(fs, d, n, "REG") /\ file = CreatedBlock(fs)
      BY <2>4
    <3> HIDE DEF S, file, d, n
    <3>3. ImageOK(S) /\ S.freeblks = fs.freeblks - 2 /\ file \in Files(S) /\ S.disk[file].links = <<>>
      BY <1>1, <2>2, <2>4, <3>1, <3>2, CreateKeeps DEF NewIn
    <3> QED
      BY <2>1, <2>2, <2>4, <3>3, WriteKeeps
  <2> QED
    BY <2>3, <2>4
<1> QED
  BY <1>3, <1>4

LEMMA ChunksOfNothing == Len(Chunks(<<>>)) \in Nat
<1> DEFINE m == (0 + BlkSz - 1) \div BlkSz
           s == [i \in 1..m |->
                  SubSeq(<<>>, (i - 1) * BlkSz + 1, IF i * BlkSz < 0 THEN i * BlkSz ELSE 0)]
<1>1. Chunks(<<>>) = s
  <2>1. Len(<<>>) = 0
    OBVIOUS
  <2> QED
    BY <2>1 DEF Chunks
<1>2. m \in Nat
  <2>1. BlkSz \in Nat /\ BlkSz > 0 /\ 0 + BlkSz - 1 \in Nat
    BY FormatAssumption
  <2> QED
    BY <2>1, DivIs
<1> HIDE DEF m
<1>3. Len(s) = m
  BY <1>2
<1> QED
  BY <1>1, <1>2, <1>3

LEMMA CallMakes ==
  ASSUME IInv, NEW p \in Paths, fs_mkdir(p)
  PROVE  IInv'
<1>1. ImageOK(fs)
  BY DEF IInv
<1>2. SUFFICES ImageOK(fs')
  BY DEF IInv
<1>3. CASE fs' = fs
  BY <1>1, <1>3
<1>4. CASE fs' # fs
  <2> DEFINE d == At(p).block
             n == At(p).left_over
  <2>1. /\ ~At(p).full_match /\ Creatable(p) /\ RoomFor(p, <<>>)
        /\ fs' = create_entity(fs, d, n, "DIR")
    BY <1>4 DEF fs_mkdir, Return
  <2>3. fs.freeblks >= 2
    BY <2>1, ChunksOfNothing, RoomIs
  <2>4. PICK q : NewIn(p, q, n, d)
    BY <2>1, NotFoundIs
  <2> HIDE DEF d, n
  <2> QED
    BY <1>1, <2>1, <2>3, <2>4, CreateKeeps DEF NewIn
<1> QED
  BY <1>3, <1>4

LEMMA CallUnlinks ==
  ASSUME IInv, NEW p \in Paths, fs_unlink(p)
  PROVE  IInv'
<1>1. ImageOK(fs)
  BY DEF IInv
<1>2. SUFFICES ImageOK(fs')
  BY DEF IInv
<1>3. CASE fs' = fs
  BY <1>1, <1>3
<1>4. CASE fs' # fs
  <2> DEFINE e == At(p).block
             F == free_file_data_blocks(fs, e)
  <2>1. At(p).full_match /\ ~IsDir(p) /\ fs' = Removed(F, e)
    BY <1>4 DEF fs_unlink, Return
  <2>2. e \in Files(fs)
    BY <2>1, FoundIs
  <2> HIDE DEF e, F
  <2>3. Leaf(fs, e)
    <3>1. root \in Dirs(fs)
      BY <1>1 DEF ImageOK, ParentsOK
    <3> QED
      BY <2>2, <3>1 DEF Leaf, Headers, Files, Dirs
  <2>4. Emptied(fs, F, e)
    BY <1>1, <2>2, EmptiedFile DEF F
  <2>5. Removal(fs, Removed(F, e), e, fs.disk[e].parent, fs.disk[fs.disk[e].parent].meta)
    BY <1>1, <2>3, <2>4, RemovedIs
  <2> QED
    BY <1>1, <2>1, <2>3, <2>5, RemovalKeeps
<1> QED
  BY <1>3, <1>4

LEMMA CallRemoves ==
  ASSUME IInv, NEW p \in Paths, fs_rmdir(p)
  PROVE  IInv'
<1>1. ImageOK(fs)
  BY DEF IInv
<1>2. SUFFICES ImageOK(fs')
  BY DEF IInv
<1>3. CASE fs' = fs
  BY <1>1, <1>3
<1>4. CASE fs' # fs
  <2> DEFINE e == At(p).block
  <2>1. IsDir(p) /\ InfoOf(fs, e).size = 0 /\ p # <<>> /\ fs' = Removed(fs, e)
    BY <1>4 DEF fs_rmdir, Return
  <2>2. e \in Dirs(fs) /\ e \in Headers(fs) /\ e # root
    BY <2>1, FoundIs DEF IsDir
  <2> HIDE DEF e
  <2>3. fs.disk[e].links = <<>>
    <3>1. fs.disk[e].links \in Seq(Blocks)
      BY <1>1, <2>2, DirLinks
    <3>2. Len(fs.disk[e].links) = 0
      BY <1>1, <2>1, <2>2 DEF ImageOK, SizesOK
    <3> QED
      BY <3>1, <3>2, EmptySeq
  <2>4. Leaf(fs, e)
    BY <2>2, <2>3 DEF Leaf
  <2>5. Emptied(fs, fs, e)
    BY <1>1, <2>2, EmptiedDir
  <2>6. Removal(fs, Removed(fs, e), e, fs.disk[e].parent, fs.disk[fs.disk[e].parent].meta)
    BY <1>1, <2>4, <2>5, RemovedIs
  <2> QED
    BY <1>1, <2>1, <2>4, <2>6, RemovalKeeps
<1> QED
  BY <1>3, <1>4

-----------------------------------------------------------------------------
(* The theorems *)

LEMMA NextKeeps ==
  ASSUME IInv, ~Overwrites, [Next]_vars
  PROVE  IInv'
<1>1. CASE UNCHANGED vars
  BY <1>1 DEF vars, IInv
<1>2. CASE Next
  <2>1. PICK p \in Paths :
          \/ \E c \in Contents : fs_write_file(p, c)
          \/ fs_mkdir(p) \/ fs_unlink(p) \/ fs_rmdir(p)
    BY <1>2 DEF Next
  <2>2. CASE \E c \in Contents : fs_write_file(p, c)
    BY <2>2, CallWrites
  <2>3. CASE fs_mkdir(p)
    BY <2>3, CallMakes
  <2>4. CASE fs_unlink(p)
    BY <2>4, CallUnlinks
  <2>5. CASE fs_rmdir(p)
    BY <2>5, CallRemoves
  <2> QED
    BY <2>1, <2>2, <2>3, <2>4, <2>5
<1> QED
  BY <1>1, <1>2

\* Whatever is created, written and removed, the image stays one of fs.h: the
\* entities a tree with unique names, every block in its place, the children of
\* a file full but the last.  Files that hold data are not written again:
\* fs_write_file breaks this when they are (free_file_data_blocks keeps links).
THEOREM InductiveInvariant ==
  ASSUME ~Overwrites
  PROVE  Spec => []IInv
<1>1. Init => IInv
  BY InitKeeps
<1>2. IInv /\ [Next]_vars => IInv'
  BY NextKeeps
<1> QED
  BY <1>1, <1>2, PTL DEF Spec

\* Every block holds a struct of fs.h or at most a block of data, block 0 the
\* superblock, and no count of fs_get_block, fs_put_block or unlink_node goes
\* below zero.
THEOREM ImageIsAlwaysTyped ==
  ASSUME ~Overwrites
  PROVE  Spec => []TypeOK
<1>1. IInv => TypeOK
  BY IInvTypes
<1> QED
  BY <1>1, InductiveInvariant, PTL

\* Calls neither leak a block nor give it to two: fs_unlink and fs_rmdir put back
\* all that create_entity and write_to_file took.
THEOREM BlocksAreAlwaysPartitioned ==
  ASSUME ~Overwrites
  PROVE  Spec => []BlocksArePartitioned
<1>1. IInv => BlocksArePartitioned
  BY IInvPartitions
<1> QED
  BY <1>1, InductiveInvariant, PTL

\* parent, meta, next, links and size of all inodes fit together after every
\* link_node_to_nodelist and unlink_node.
THEOREM InodesAreAlwaysLinked ==
  ASSUME ~Overwrites
  PROVE  Spec => []InodesAreLinked
<1>1. IInv => InodesAreLinked
  BY IInvLinks
<1> QED
  BY <1>1, InductiveInvariant, PTL

\* fs_list_dir shows what get_inode_block finds, each name once.
THEOREM ListingIsAlwaysTheTree ==
  ASSUME ~Overwrites
  PROVE  Spec => []ListsWhatIsThere
<1>1. IInv => ListsWhatIsThere
  BY IInvLists
<1> QED
  BY <1>1, InductiveInvariant, PTL
-----------------------------------------------------------------------------
(* fs_read_file *)

\* The first a elements, and those up to b.
LEMMA SubSeqJoins ==
  ASSUME NEW A, NEW s \in Seq(A), NEW a \in Nat, NEW b \in Nat, a <= b, b <= Len(s)
  PROVE  SubSeq(s, 1, a) \o SubSeq(s, a + 1, b) = SubSeq(s, 1, b)
<1>1. Len(s) \in Nat
  BY LenProperties
<1>2. 1 \in 1..(Len(s) + 1) /\ a \in (1 - 1)..Len(s) /\ b \in a..Len(s)
  BY <1>1
<1> QED
  BY <1>2, ConcatAdjacentSubSeq

LEMMA FunctionIsSeq ==
  ASSUME NEW A, NEW k \in Nat, NEW s \in [1..k -> A]
  PROVE  s \in Seq(A) /\ Len(s) = k
<1>1. s \in Seq(A)
  OBVIOUS
<1>2. DOMAIN s = 1..k /\ DOMAIN s = 1..Len(s) /\ Len(s) \in Nat
  BY <1>1, LenProperties
<1> QED
  BY <1>1, <1>2, SameInterval

\* The pieces of c but the last are whole; all of them, one after the other,
\* are c.
LEMMA PiecesOf ==
  ASSUME NEW c \in Contents, NEW i \in Nat, i + 1 <= Len(Chunks(c))
  PROVE  /\ i * BlkSz < Len(c)
         /\ EndOf(c, i) = i * BlkSz /\ EndOf(c, i) \in Nat
         /\ EndOf(c, i) <= EndOf(c, i + 1) /\ EndOf(c, i + 1) <= Len(c) /\ EndOf(c, i + 1) \in Nat
<1> DEFINE n == Len(Chunks(c))
           len == Len(c)
           p == i * BlkSz
<1>1. len \in Nat /\ n = (len + BlkSz - 1) \div BlkSz /\ BlkSz \in Nat /\ BlkSz > 0
  BY ChunksAre, FormatAssumption
<1>2. /\ (i + 1 - 1) * BlkSz + 1 <= (IF (i + 1) * BlkSz < len THEN (i + 1) * BlkSz ELSE len)
      /\ (IF (i + 1) * BlkSz < len THEN (i + 1) * BlkSz ELSE len) <= len
  <2>1. i + 1 <= n
    OBVIOUS
  <2> HIDE DEF n, len
  <2>2. i + 1 \in Nat /\ i + 1 >= 1 /\ i + 1 <= (len + BlkSz - 1) \div BlkSz
    BY <1>1, <2>1
  <2> QED
    BY <1>1, <2>2, PieceIs
<1>3. p \in Nat /\ (i + 1) * BlkSz = p + BlkSz /\ i + 1 - 1 = i
  BY <1>1
<1>4. EndOf(c, i) = (IF p < len THEN p ELSE len)
      /\ EndOf(c, i + 1) = (IF p + BlkSz < len THEN p + BlkSz ELSE len)
  BY <1>3 DEF EndOf
<1>5. p + 1 <= (IF p + BlkSz < len THEN p + BlkSz ELSE len)
  BY <1>2, <1>3
<1> HIDE DEF p, len, n
<1>6. p < len
  BY <1>1, <1>3, <1>5
<1>7. /\ EndOf(c, i) = p /\ EndOf(c, i) \in Nat
      /\ EndOf(c, i) <= EndOf(c, i + 1) /\ EndOf(c, i + 1) <= len /\ EndOf(c, i + 1) \in Nat
  BY <1>1, <1>3, <1>4, <1>6
<1> QED
  BY <1>6, <1>7 DEF p, len

LEMMA PiecesJoin ==
  ASSUME NEW c \in Contents, NEW m \in Nat, m <= Len(Chunks(c))
  PROVE  FlattenSeq([i \in 1..m |-> Chunks(c)[i]]) = SubSeq(c, 1, EndOf(c, m))
<1> DEFINE n == Len(Chunks(c))
           First(k) == [i \in 1..k |-> Chunks(c)[i]]
           I == {k \in Nat : k <= n => FlattenSeq(First(k)) = SubSeq(c, 1, EndOf(c, k))}
<1>1. /\ c \in Seq(Byte) /\ Len(c) \in Nat /\ n \in Nat
      /\ \A i \in 1..n : /\ Chunks(c)[i] \in Seq(Byte)
                         /\ Chunks(c)[i] = SubSeq(c, (i - 1) * BlkSz + 1, EndOf(c, i))
  BY ChunksAre
<1>2. 0 \in I
  <2>1. First(0) = <<>>
    <3> DEFINE r == First(0)
    <3>1. r \in [1..0 -> {0}]
      OBVIOUS
    <3> HIDE DEF r
    <3>2. r \in Seq({0}) /\ Len(r) = 0
      BY <3>1
    <3>3. r = <<>>
      BY <3>2, EmptySeq
    <3> QED
      BY <3>3 DEF r
  <2>2. EndOf(c, 0) = 0
    <3>1. 0 * BlkSz = 0
      BY FormatAssumption
    <3> QED
      BY <1>1, <3>1 DEF EndOf
  <2>3. SubSeq(c, 1, 0) = <<>>
    BY SubSeqEmpty
  <2> HIDE DEF First
  <2> QED
    BY <2>1, <2>2, <2>3, FlattenNone
<1>3. ASSUME NEW k \in Nat, k \in I
      PROVE  k + 1 \in I
  <2> SUFFICES ASSUME k + 1 <= n
               PROVE  FlattenSeq(First(k + 1)) = SubSeq(c, 1, EndOf(c, k + 1))
    OBVIOUS
  <2>1. FlattenSeq(First(k)) = SubSeq(c, 1, EndOf(c, k))
    BY <1>1, <1>3
  <2>2. k + 1 \in 1..n /\ k + 1 - 1 = k /\ \A i \in 1..k : i \in 1..n
    BY <1>1
  <2> DEFINE s == First(k)
             x == Chunks(c)[k + 1]
             t == First(k + 1)
  <2>3. x \in Seq(Byte) /\ x = SubSeq(c, k * BlkSz + 1, EndOf(c, k + 1))
    BY <1>1, <2>2
  <2>4. s \in [1..k -> Seq(Byte)] /\ t \in [1..(k + 1) -> Seq(Byte)]
    BY <1>1
  <2>5. s \in Seq(Seq(Byte)) /\ t \in Seq(Seq(Byte)) /\ Len(s) = k /\ Len(t) = k + 1
    <3>1. k + 1 \in Nat
      OBVIOUS
    <3> HIDE DEF s, t
    <3> DEFINE B == Seq(Byte)
    <3> HIDE DEF B
    <3>2. s \in [1..k -> B] /\ t \in [1..(k + 1) -> B]
      BY <2>4 DEF B
    <3>3. s \in Seq(B) /\ Len(s) = k
      BY <3>2, FunctionIsSeq
    <3>4. t \in Seq(B) /\ Len(t) = k + 1
      BY <3>1, <3>2, FunctionIsSeq
    <3> QED
      BY <3>3, <3>4 DEF B
  <2>6. t = Append(s, x)
    <3>1. t[k + 1] = x /\ \A i \in 1..k : t[i] = s[i]
      OBVIOUS
    <3> HIDE DEF t, s, x
    <3> DEFINE u == Append(s, x)
    <3>2. u \in Seq(Seq(Byte)) /\ Len(u) = k + 1 /\ u[k + 1] = x /\ \A i \in 1..k : u[i] = s[i]
      <4> DEFINE B == Seq(Byte)
      <4>1. x \in B /\ s \in Seq(B)
        BY <2>3, <2>5 DEF x
      <4> HIDE DEF B
      <4>2. /\ Append(s, x) \in Seq(B) /\ Len(Append(s, x)) = Len(s) + 1
            /\ Append(s, x)[Len(s) + 1] = x /\ \A i \in 1..Len(s) : Append(s, x)[i] = s[i]
        BY <4>1, AppendProperties
      <4> QED
        BY <2>5, <4>2 DEF B
    <3>3. \A i \in 1..(k + 1) : i \in 1..k \/ i = k + 1
      OBVIOUS
    <3> HIDE DEF u
    <3>4. \A i \in 1..(k + 1) : t[i] = u[i]
      BY <3>1, <3>2, <3>3
    <3>5. t = u
      BY <2>5, <3>2, <3>4, SeqEqual
    <3> QED
      BY <3>5 DEF u
  <2> HIDE DEF s, t, x, n
  <2>7. FlattenSeq(t) = FlattenSeq(s) \o x
    BY <2>3, <2>5, <2>6, FlattenAppend
  <2>8. /\ EndOf(c, k) = k * BlkSz /\ EndOf(c, k) \in Nat
        /\ EndOf(c, k) <= EndOf(c, k + 1) /\ EndOf(c, k + 1) <= Len(c) /\ EndOf(c, k + 1) \in Nat
    BY PiecesOf DEF n
  <2>9. FlattenSeq(s) = SubSeq(c, 1, EndOf(c, k))
    BY <2>1 DEF s
  <2>10. x = SubSeq(c, EndOf(c, k) + 1, EndOf(c, k + 1))
    BY <2>3, <2>8
  <2> DEFINE a == EndOf(c, k)
             b == EndOf(c, k + 1)
  <2> HIDE DEF a, b
  <2>11. a \in Nat /\ b \in Nat /\ a <= b /\ b <= Len(c)
    BY <2>8 DEF a, b
  <2>12. SubSeq(c, 1, a) \o SubSeq(c, a + 1, b) = SubSeq(c, 1, b)
    BY <1>1, <2>11, SubSeqJoins
  <2>13. FlattenSeq(t) = SubSeq(c, 1, b)
    BY <2>7, <2>9, <2>10, <2>12 DEF a, b
  <2> QED
    BY <2>13 DEF t, b
<1>4. m \in I
  <2>1. \A k \in Nat : k \in I
    <3> HIDE DEF I
    <3> QED
      BY <1>2, <1>3, NatSetInduction
  <2> QED
    BY <2>1
<1> QED
  BY <1>4


\* The links of the first j inodes of ns.
UpTo(S, ns, j) == LinksOf(S, SubSeq(ns, 1, j))

\* l is the beginning of r.
Prefix(l, r) == Len(l) <= Len(r) /\ \A i \in 1..Len(l) : r[i] = l[i]

LEMMA UpToIs ==
  ASSUME NEW S, NEW ns \in Seq(Blocks), HaveLinks(S, ns)
  PROVE  /\ \A j \in 0..Len(ns) : UpTo(S, ns, j) \in Seq(Blocks)
         /\ \A j \in Nat : j + 1 <= Len(ns) =>
              UpTo(S, ns, j + 1) = UpTo(S, ns, j) \o S.disk[ns[j + 1]].links
         /\ UpTo(S, ns, Len(ns)) = LinksOf(S, ns)
<1>1. Len(ns) \in Nat /\ \A j \in 1..Len(ns) : ns[j] \in Blocks
  BY LenProperties, ElementOfSeq
<1>2. ASSUME NEW j \in 0..Len(ns)
      PROVE  /\ SubSeq(ns, 1, j) \in Seq(Blocks)
             /\ HaveLinks(S, SubSeq(ns, 1, j))
             /\ UpTo(S, ns, j) \in Seq(Blocks)
  <2> DEFINE s == SubSeq(ns, 1, j)
  <2>1. \A i \in 1..j : ns[i] \in Blocks
    BY <1>1
  <2>2. /\ s \in Seq(Blocks) /\ Len(s) = (IF 1 <= j THEN j - 1 + 1 ELSE 0)
        /\ \A i \in 1..(j - 1 + 1) : s[i] = ns[1 + i - 1]
    BY <1>1, <2>1, SubSeqProperties
  <2> HIDE DEF s
  <2>3. Len(s) = j /\ \A i \in 1..j : s[i] = ns[i]
    BY <1>1, <2>2
  <2>4. \A k \in 1..Len(s) : S.disk[s[k]].links \in Seq(Blocks)
    BY <1>1, <2>3 DEF HaveLinks
  <2>5. LinksOf(S, s) \in Seq(Blocks)
    BY <2>2, <2>4, LinksOfIs
  <2> QED
    BY <2>2, <2>4, <2>5 DEF s, UpTo, HaveLinks
<1>3. ASSUME NEW j \in Nat, j + 1 <= Len(ns)
      PROVE  UpTo(S, ns, j + 1) = UpTo(S, ns, j) \o S.disk[ns[j + 1]].links
  <2> DEFINE s == SubSeq(ns, 1, j)
             n == ns[j + 1]
  <2>1. j \in 0..Len(ns) /\ j + 1 \in 1..Len(ns) /\ j + 1 - 1 = j /\ 1 \in 1..Len(ns)
        /\ j + 1 \in 1..Len(ns)
    BY <1>1, <1>3
  <2>2. s \in Seq(Blocks) /\ HaveLinks(S, s)
    BY <1>2, <2>1
  <2>3. n \in Blocks /\ S.disk[n].links \in Seq(Blocks)
    BY <1>1, <2>1 DEF HaveLinks
  <2>4. SubSeq(ns, 1, j + 1) = s \o <<n>>
    BY <2>1, SubSeqRecursiveSecond
  <2> HIDE DEF s, n
  <2>5. Append(s, n) = s \o <<n>>
    BY <2>2, <2>3, AppendIsConcat
  <2>6. LinksOf(S, Append(s, n)) = LinksOf(S, s) \o S.disk[n].links
    BY <2>2, <2>3, LinksOfAppend
  <2> QED
    BY <2>4, <2>5, <2>6 DEF UpTo, s, n
<1>4. UpTo(S, ns, Len(ns)) = LinksOf(S, ns)
  BY SubSeqFull DEF UpTo
<1> QED
  BY <1>2, <1>3, <1>4

LEMMA ConcatBegins ==
  ASSUME NEW A, NEW s \in Seq(A), NEW t \in Seq(A)
  PROVE  Prefix(s, s \o t) /\ Len(s \o t) = Len(s) + Len(t)
<1>1. Len(s) \in Nat /\ Len(t) \in Nat
  BY LenProperties
<1>2. Len(s \o t) = Len(s) + Len(t)
      /\ \A i \in 1..(Len(s) + Len(t)) : (s \o t)[i] = IF i <= Len(s) THEN s[i] ELSE t[i - Len(s)]
  BY ConcatProperties
<1> QED
  BY <1>1, <1>2 DEF Prefix

\* What the first inodes link is where the links of all begin.
LEMMA UpToBegins ==
  ASSUME NEW S, NEW ns \in Seq(Blocks), HaveLinks(S, ns), NEW j \in 0..Len(ns)
  PROVE  Prefix(UpTo(S, ns, j), LinksOf(S, ns))
<1> DEFINE I == {k \in Nat : j + k <= Len(ns) => Prefix(UpTo(S, ns, j), UpTo(S, ns, j + k))}
<1>1. Len(ns) \in Nat /\ j \in Nat /\ Len(ns) - j \in Nat
  BY LenProperties
<1>2. 0 \in I
  <2>1. j + 0 = j
    BY <1>1
  <2>2. Len(UpTo(S, ns, j)) \in Nat
    BY UpToIs, LenProperties
  <2> QED
    BY <2>1, <2>2 DEF Prefix
<1>3. ASSUME NEW k \in Nat, k \in I
      PROVE  k + 1 \in I
  <2> SUFFICES ASSUME j + (k + 1) <= Len(ns)
               PROVE  Prefix(UpTo(S, ns, j), UpTo(S, ns, j + (k + 1)))
    OBVIOUS
  <2>1. /\ j + k \in Nat /\ j + k + 1 = j + (k + 1) /\ j + k <= Len(ns) /\ j + k + 1 <= Len(ns)
        /\ j + k \in 0..Len(ns) /\ j + k + 1 \in 1..Len(ns)
    BY <1>1
  <2> DEFINE s == UpTo(S, ns, j)
             t == UpTo(S, ns, j + k)
             x == S.disk[ns[j + k + 1]].links
             u == UpTo(S, ns, j + k + 1)
  <2>2. s \in Seq(Blocks) /\ t \in Seq(Blocks)
    BY <1>1, <2>1, UpToIs
  <2>3. x \in Seq(Blocks)
    BY <2>1 DEF HaveLinks
  <2>4. u = t \o x
    BY <2>1, UpToIs
  <2>5. Prefix(s, t)
    BY <1>3, <2>1
  <2> HIDE DEF s, t, x, u
  <2>6. Prefix(t, u)
    BY <2>2, <2>3, <2>4, ConcatBegins
  <2>7. Len(s) \in Nat /\ Len(t) \in Nat /\ Len(u) \in Nat
    BY <2>2, <2>3, <2>4, ConcatProperties, LenProperties
  <2>8. Prefix(s, u)
    BY <2>5, <2>6, <2>7 DEF Prefix
  <2> QED
    BY <2>1, <2>8 DEF s, u
<1>4. Len(ns) - j \in I
  <2> HIDE DEF I
  <2> QED
    BY <1>1, <1>2, <1>3, NatSetInduction
<1>5. j + (Len(ns) - j) = Len(ns)
  BY <1>1
<1>6. Prefix(UpTo(S, ns, j), UpTo(S, ns, Len(ns)))
  BY <1>1, <1>4, <1>5
<1> QED
  BY <1>6, UpToIs

\* From where fs_read_file takes the last block of data.
Rest(S, ns, full, k) ==
  IF full > 0 /\ k < Len(ns) THEN S.disk[ns[k + 1]].links
  ELSE SubSeq(UpTo(S, ns, k), full + 1, Len(UpTo(S, ns, k)))

\* k is the first inode up to which there are links for full blocks.
FirstWith(S, ns, full, k) ==
  /\ k \in DOMAIN ns
  /\ Len(UpTo(S, ns, k)) >= full
  /\ \A i \in 1..(k - 1) : Len(UpTo(S, ns, i)) < full

\* The whole blocks are the first ones of the file, the rest begins with the last.
LEMMA LastBlockIs ==
  ASSUME NEW S, ImageOK(S), NEW f \in Files(S), NEW ns, ns = Nodes(S, f),
         NEW full \in Nat, Len(LinksOf(S, ns)) = full + 1,
         NEW k, FirstWith(S, ns, full, k)
  PROVE  /\ Rest(S, ns, full, k) # <<>>
         /\ Rest(S, ns, full, k)[1] = LinksOf(S, ns)[full + 1]
         /\ \A i \in 1..full : UpTo(S, ns, k)[i] = LinksOf(S, ns)[i]
<1> DEFINE L == LinksOf(S, ns)
           N == Len(ns)
           P == UpTo(S, ns, k)
<1>1. /\ ns \in Seq(Blocks) /\ N \in Nat /\ N >= 1 /\ HaveLinks(S, ns) /\ L \in Seq(Blocks)
  BY FileIs DEF HaveLinks
<1>2. k \in 1..N /\ k \in 0..N
  BY <1>1, LenProperties DEF FirstWith
<1>3. /\ P \in Seq(Blocks) /\ Len(P) \in Nat /\ Prefix(P, L) /\ Len(P) >= full
      /\ Len(P) <= full + 1
  BY <1>1, <1>2, UpToIs, UpToBegins, LenProperties DEF Prefix, FirstWith
<1>4. \A i \in 1..full : P[i] = L[i]
  BY <1>3 DEF Prefix
<1>5. \A j \in 2..N : S.disk[ns[j]].links # <<>> /\ Len(S.disk[ns[j - 1]].links) = MaxLinks
  BY NodesAre DEF Chained, Headers
<1>6. CASE full > 0 /\ k < N
  <2> DEFINE x == S.disk[ns[k + 1]].links
             Q == UpTo(S, ns, k + 1)
  <2>1. k \in Nat /\ k + 1 <= N /\ k + 1 \in 2..N /\ k + 1 \in 1..N /\ k + 1 \in 0..N
    BY <1>1, <1>2, <1>6
  <2>2. x \in Seq(Blocks) /\ x # <<>>
    BY <1>1, <1>5, <2>1 DEF HaveLinks
  <2>3. Q = P \o x /\ Q \in Seq(Blocks) /\ Prefix(Q, L)
    BY <1>1, <2>1, UpToIs, UpToBegins
  <2>4. Rest(S, ns, full, k) = x
    BY <1>6 DEF Rest
  <2> HIDE DEF x, Q, P
  <2>5. Len(x) \in Nat /\ Len(x) >= 1
    BY <2>2, EmptySeq
  <2>6. /\ Len(Q) = Len(P) + Len(x)
        /\ \A i \in 1..(Len(P) + Len(x)) : Q[i] = IF i <= Len(P) THEN P[i] ELSE x[i - Len(P)]
    BY <1>3, <2>2, <2>3, ConcatProperties
  <2>7. Len(Q) <= full + 1
    BY <2>3 DEF Prefix
  <2>8. Len(P) = full /\ full + 1 \in 1..Len(Q) /\ full + 1 \in 1..(Len(P) + Len(x))
        /\ ~(full + 1 <= Len(P)) /\ full + 1 - Len(P) = 1
    BY <1>3, <2>5, <2>6, <2>7
  <2>9. Q[full + 1] = x[1] /\ Q[full + 1] = L[full + 1]
    <3>1. Q[full + 1] = x[1]
      BY <2>6, <2>8
    <3>2. Q[full + 1] = L[full + 1]
      BY <2>3, <2>8 DEF Prefix
    <3> QED
      BY <3>1, <3>2
  <2> QED
    BY <1>4, <2>2, <2>4, <2>9 DEF P
<1>7. CASE ~(full > 0 /\ k < N)
  <2>1. Len(P) = full + 1
    <3>1. CASE k = N
      BY <1>1, <3>1, UpToIs
    <3>2. CASE k # N
      <4>1. full = 0 /\ N > 1
        BY <1>1, <1>2, <1>7, <3>2
      <4>2. UpTo(S, ns, 1) = UpTo(S, ns, 0) \o S.disk[ns[1]].links
        <5>1. 0 \in Nat /\ 0 + 1 <= Len(ns) /\ 0 + 1 = 1
          BY <1>1
        <5>2. ns \in Seq(Blocks) /\ HaveLinks(S, ns)
          BY <1>1
        <5>3. \A j \in Nat : j + 1 <= Len(ns) =>
                UpTo(S, ns, j + 1) = UpTo(S, ns, j) \o S.disk[ns[j + 1]].links
          BY <5>2, UpToIs, Zenon
        <5>4. UpTo(S, ns, 0 + 1) = UpTo(S, ns, 0) \o S.disk[ns[0 + 1]].links
          BY <5>1, <5>3, Zenon
        <5> QED
          BY <5>4
      <4>3. Len(S.disk[ns[1]].links) = MaxLinks /\ MaxLinks >= 1 /\ MaxLinks \in Nat
        <5>1. 2 \in 2..N /\ 2 - 1 = 1
          BY <1>1, <4>1
        <5> QED
          BY <1>5, <5>1, FormatAssumption
      <4>4. 0 \in 0..N /\ 1 \in 1..N /\ 1 \in 0..N
        BY <1>1
      <4>5. UpTo(S, ns, 0) \in Seq(Blocks) /\ S.disk[ns[1]].links \in Seq(Blocks)
            /\ UpTo(S, ns, 1) \in Seq(Blocks)
        BY <1>1, <4>4, UpToIs DEF HaveLinks
      <4>6. Len(UpTo(S, ns, 1)) >= 1
        <5>1. Len(UpTo(S, ns, 1)) = Len(UpTo(S, ns, 0)) + Len(S.disk[ns[1]].links)
          BY <4>2, <4>5, ConcatProperties
        <5>2. Len(UpTo(S, ns, 0)) \in Nat
          BY <4>5, LenProperties
        <5> QED
          BY <4>3, <5>1, <5>2
      <4>7. k = 1
        <5>1. ASSUME k # 1
              PROVE  FALSE
          <6>1. 1 \in 1..(k - 1)
            BY <1>1, <1>2, <5>1
          <6>2. Len(UpTo(S, ns, 1)) < 0
            BY <4>1, <6>1 DEF FirstWith
          <6>3. Len(UpTo(S, ns, 1)) \in Nat
            BY <4>5, LenProperties
          <6> QED
            BY <6>2, <6>3
        <5> QED
          BY <5>1
      <4>8. Len(P) >= 1
        BY <4>6, <4>7
      <4>9. full = 0
        BY <4>1
      <4> DEFINE len == Len(P)
      <4>10. len \in Nat /\ len <= full + 1
        BY <1>3
      <4> HIDE DEF len
      <4>11. len >= 1
        BY <4>8 DEF len
      <4>12. len = full + 1
        BY <4>9, <4>10, <4>11
      <4> QED
        BY <4>12 DEF len
    <3> QED
      BY <3>1, <3>2
  <2> DEFINE r == SubSeq(P, full + 1, Len(P))
  <2>2. Rest(S, ns, full, k) = r
    BY <1>7 DEF Rest
  <2> HIDE DEF P
  <2>3. r = SubSeq(P, full + 1, full + 1)
    BY <2>1
  <2>4. \A i \in (full + 1)..(full + 1) : P[i] \in Blocks
    <3>1. \A i \in (full + 1)..(full + 1) : i \in 1..Len(P)
      BY <2>1
    <3>2. \A i \in 1..Len(P) : P[i] \in Blocks
      BY <1>3, ElementOfSeq
    <3> QED
      BY <3>1, <3>2
  <2>5. /\ r \in Seq(Blocks)
        /\ Len(r) = (IF full + 1 <= full + 1 THEN full + 1 - (full + 1) + 1 ELSE 0)
        /\ \A i \in 1..(full + 1 - (full + 1) + 1) : r[i] = P[full + 1 + i - 1]
    <3> DEFINE a == full + 1
    <3>1. a \in Int /\ \A i \in a..a : P[i] \in Blocks
      BY <2>4
    <3> HIDE DEF a
    <3>2. /\ SubSeq(P, a, a) \in Seq(Blocks)
          /\ Len(SubSeq(P, a, a)) = (IF a <= a THEN a - a + 1 ELSE 0)
          /\ \A i \in 1..(a - a + 1) : SubSeq(P, a, a)[i] = P[a + i - 1]
      BY <3>1, SubSeqProperties
    <3> HIDE DEF r
    <3>3. r = SubSeq(P, a, a)
      BY <2>3 DEF a
    <3>4. /\ r \in Seq(Blocks)
          /\ Len(r) = (IF a <= a THEN a - a + 1 ELSE 0)
          /\ \A i \in 1..(a - a + 1) : r[i] = P[a + i - 1]
      BY <3>2, <3>3
    <3> QED
      BY <3>4 DEF a
  <2> HIDE DEF r
  <2>6. Len(r) = 1 /\ r[1] = P[full + 1]
    BY <2>5
  <2>7. P[full + 1] = L[full + 1]
    <3>1. full + 1 \in 1..Len(P)
      BY <2>1
    <3> QED
      BY <1>3, <3>1 DEF Prefix
  <2>8. r # <<>>
    BY <2>6, EmptySeq
  <2> QED
    BY <1>4, <2>2, <2>6, <2>7, <2>8 DEF P
<1> QED
  BY <1>6, <1>7

LEMMA FirstWithIs ==
  ASSUME NEW S, NEW ns \in Seq(Blocks), Len(ns) >= 1,
         NEW full \in Nat, full <= Len(LinksOf(S, ns)), HaveLinks(S, ns)
  PROVE  \E k : FirstWith(S, ns, full, k)
<1> DEFINE K == {j \in 1..Len(ns) : Len(UpTo(S, ns, j)) >= full}
<1>1. Len(ns) \in Nat /\ DOMAIN ns = 1..Len(ns)
  BY LenProperties
<1>2. \A j \in 1..Len(ns) : Len(UpTo(S, ns, j)) \in Nat
  <2>1. \A j \in 1..Len(ns) : j \in 0..Len(ns)
    BY <1>1
  <2> QED
    BY <2>1, UpToIs, LenProperties
<1>3. Len(ns) \in K
  <2>1. UpTo(S, ns, Len(ns)) = LinksOf(S, ns)
    BY UpToIs
  <2>2. Len(ns) \in 1..Len(ns)
    BY <1>1
  <2>3. Len(LinksOf(S, ns)) \in Nat
    BY <1>2, <2>1, <2>2
  <2> QED
    BY <2>1, <2>2, <2>3
<1>4. K \in SUBSET Nat /\ K # {}
  BY <1>1, <1>3
<1> DEFINE k == Min(K)
<1>5. k \in K /\ \A y \in K : k <= y
  <2> HIDE DEF K
  <2> QED
    BY <1>4, MinIsLeast
<1> HIDE DEF k
<1>6. \A i \in 1..(k - 1) : Len(UpTo(S, ns, i)) < full
  <2> TAKE i \in 1..(k - 1)
  <2>1. i \in 1..Len(ns) /\ ~(k <= i)
    BY <1>1, <1>5
  <2>2. ~(Len(UpTo(S, ns, i)) >= full)
    BY <1>5, <2>1
  <2> QED
    BY <1>2, <2>1, <2>2
<1>7. FirstWith(S, ns, full, k)
  BY <1>1, <1>5, <1>6 DEF FirstWith
<1> QED
  BY <1>7

LEMMA ReadAll ==
  ASSUME NEW S, NEW b, NEW x \in Seq(Byte), S.disk[b] = Data(x)
  PROVE  Read(S, b, Len(x)) = x
<1>1. S.disk[b].kind = "data" /\ S.disk[b].bytes = x
  BY DEF Data
<1>2. Len(x) \in Nat /\ Len(x) <= Len(x)
  BY LenProperties
<1>3. SubSeq(x, 1, Len(x)) = x
  BY SubSeqFull
<1> QED
  BY <1>1, <1>2, <1>3 DEF Read

\* A file reads as what it holds.
LEMMA ReadsBack ==
  ASSUME NEW S, ImageOK(S), NEW f \in Files(S), NEW c \in Contents, Holds(S, f, c)
  PROVE  fs_read_file(S, f) = c
<1> DEFINE ns == Nodes(S, f)
           L == LinksOf(S, ns)
           n == Len(Chunks(c))
           size == InfoOf(S, f).size
           full == IF size = 0 THEN 0 ELSE (size - 1) \div BlkSz
           k == CHOOSE j \in DOMAIN ns :
             /\ Len(UpTo(S, ns, j)) >= full
             /\ \A i \in 1..(j - 1) : Len(UpTo(S, ns, i)) < full
           whole == [i \in 1..full |-> Read(S, UpTo(S, ns, k)[i], BlkSz)]
           last == Read(S, Rest(S, ns, full, k)[1], size - full * BlkSz)
<1>1. fs_read_file(S, f) =
        IF size = 0 THEN <<>>
        ELSE IF Len(L) < full \/ Rest(S, ns, full, k) = <<>> THEN <<Garbage>>
        ELSE FlattenSeq(whole) \o last
  BY DEF fs_read_file, UpTo, Rest
<1>2. ns \in Seq(Blocks) /\ Len(ns) >= 1 /\ HaveLinks(S, ns)
  BY FileIs DEF HaveLinks
<1>3. /\ L \in Seq(Blocks) /\ Len(L) = n /\ size = EndOf(c, n)
      /\ \A i \in 1..n : S.disk[L[i]] = Data(Chunks(c)[i])
  BY DEF Holds, HoldsUpTo
<1>4. /\ c \in Seq(Byte) /\ Len(c) \in Nat /\ n \in Nat /\ n = (Len(c) + BlkSz - 1) \div BlkSz
      /\ \A i \in 1..n : Chunks(c)[i] \in Seq(Byte)
  BY ChunksAre
<1>5. BlkSz \in Nat /\ BlkSz > 0
  BY FormatAssumption
<1> HIDE DEF n
<1>6. /\ Len(c) = 0 => n = 0
      /\ Len(c) > 0 => n >= 1 /\ (Len(c) - 1) \div BlkSz = n - 1
      /\ Len(c) <= n * BlkSz
  <2> DEFINE len == Len(c)
             b == BlkSz
  <2>1. len \in Nat /\ b \in Nat /\ b > 0 /\ n = (len + b - 1) \div b
    BY <1>4, <1>5
  <2> HIDE DEF len, b
  <2>2. len = 0 => n = 0
    BY <2>1, PiecesAre
  <2>3. len > 0 => n >= 1 /\ (len - 1) \div b = n - 1
    BY <2>1, PiecesAre
  <2>4. len <= n * b
    BY <2>1, PiecesAre
  <2> QED
    BY <2>2, <2>3, <2>4 DEF len, b
<1>7. size = Len(c)
  <2>1. n * BlkSz \in Nat
    BY <1>4, <1>5
  <2> QED
    BY <1>3, <1>4, <1>6, <2>1 DEF EndOf
<1>8. CASE Len(c) = 0
  <2>1. c = <<>>
    BY <1>4, <1>8, EmptySeq
  <2>2. size = 0
    BY <1>7, <1>8
  <2> HIDE DEF size, full, k, whole, last
  <2>3. fs_read_file(S, f) = <<>>
    BY <1>1, <2>2
  <2> QED
    BY <2>1, <2>3
<1>9. CASE Len(c) # 0
  <2>1. n >= 1 /\ full = n - 1 /\ full \in Nat /\ size # 0 /\ n = full + 1
    BY <1>4, <1>6, <1>7, <1>9
  <2> HIDE DEF full, size
  <2>2. FirstWith(S, ns, full, k)
    <3> HIDE DEF ns
    <3>1. full <= Len(LinksOf(S, ns))
      BY <1>3, <2>1
    <3>2. \E j : FirstWith(S, ns, full, j)
      BY <1>2, <2>1, <3>1, FirstWithIs
    <3>3. \E j \in DOMAIN ns :
            /\ Len(UpTo(S, ns, j)) >= full
            /\ \A i \in 1..(j - 1) : Len(UpTo(S, ns, i)) < full
      BY <3>2 DEF FirstWith
    <3> QED
      BY <3>3 DEF FirstWith
  <2> HIDE DEF k
  <2> DEFINE rest == Rest(S, ns, full, k)
             P == UpTo(S, ns, k)
  <2>3. rest # <<>> /\ rest[1] = L[full + 1] /\ \A i \in 1..full : P[i] = L[i]
    <3>1. Len(LinksOf(S, ns)) = full + 1
      BY <1>3, <2>1
    <3> QED
      BY <2>1, <2>2, <3>1, LastBlockIs
  <2>4. ~(Len(L) < full)
    BY <1>3, <2>1
  <2>5. fs_read_file(S, f) = FlattenSeq(whole) \o last
    BY <1>1, <2>1, <2>3, <2>4
  <2> HIDE DEF rest, P, L, ns
  <2> DEFINE w == [i \in 1..full |-> Chunks(c)[i]]
             m == full
  <2>6. whole = w
    <3>1. ASSUME NEW i \in 1..full
          PROVE  Read(S, P[i], BlkSz) = Chunks(c)[i]
      <4>1. i \in 1..n /\ i \in Nat /\ i - 1 \in Nat /\ i - 1 + 1 = i /\ i <= n /\ i + 1 <= n
        BY <2>1
      <4>2. S.disk[P[i]] = Data(Chunks(c)[i]) /\ Chunks(c)[i] \in Seq(Byte)
        BY <1>3, <1>4, <2>3, <4>1
      <4>3. Len(Chunks(c)[i]) = BlkSz
        <5>1. EndOf(c, i) = i * BlkSz
          BY <4>1, PiecesOf DEF n
        <5>2. Len(Chunks(c)[i]) = EndOf(c, i) - ((i - 1) * BlkSz + 1) + 1
          BY <4>1, ChunksAre DEF n
        <5>3. i * BlkSz = (i - 1) * BlkSz + BlkSz /\ (i - 1) * BlkSz \in Nat
          BY <1>5, <4>1
        <5> QED
          BY <1>5, <5>1, <5>2, <5>3
      <4> QED
        BY <4>2, <4>3, ReadAll
    <3> QED
      BY <3>1 DEF P
  <2>7. FlattenSeq(w) = SubSeq(c, 1, full * BlkSz)
    <3>1. full <= Len(Chunks(c)) /\ full + 1 <= Len(Chunks(c))
      BY <2>1 DEF n
    <3>2. FlattenSeq(w) = SubSeq(c, 1, EndOf(c, full))
      BY <2>1, <3>1, PiecesJoin
    <3>3. EndOf(c, full) = full * BlkSz
      BY <2>1, <3>1, PiecesOf
    <3> QED
      BY <3>2, <3>3
  <2>8. last = SubSeq(c, full * BlkSz + 1, Len(c))
    <3> DEFINE x == Chunks(c)[n]
    <3>1. n \in 1..n /\ n - 1 = full
      BY <1>4, <2>1
    <3>2. EndOf(c, n) = Len(c)
      BY <1>3, <1>7
    <3>3. x = SubSeq(c, full * BlkSz + 1, Len(c)) /\ x \in Seq(Byte)
          /\ Len(x) = Len(c) - (full * BlkSz + 1) + 1
      <4>1. /\ x \in Seq(Byte) /\ x = SubSeq(c, (n - 1) * BlkSz + 1, EndOf(c, n))
            /\ Len(x) = EndOf(c, n) - ((n - 1) * BlkSz + 1) + 1
        BY <3>1, ChunksAre DEF n
      <4> QED
        BY <3>1, <3>2, <4>1
    <3>4. full * BlkSz \in Nat
      BY <1>5, <2>1
    <3> HIDE DEF x
    <3>5. Len(x) = size - full * BlkSz
      BY <1>4, <1>7, <3>3, <3>4
    <3>6. S.disk[rest[1]] = Data(x)
      BY <1>3, <2>1, <2>3, <3>1 DEF x
    <3>7. Read(S, rest[1], Len(x)) = x
      BY <3>3, <3>6, ReadAll
    <3>8. last = Read(S, rest[1], size - full * BlkSz)
      BY DEF rest
    <3> QED
      BY <3>3, <3>5, <3>7, <3>8
  <2>9. SubSeq(c, 1, full * BlkSz) \o SubSeq(c, full * BlkSz + 1, Len(c)) = c
    <3> DEFINE a == full * BlkSz
    <3>1. a \in Nat /\ a <= Len(c)
      <4>1. full + 1 <= Len(Chunks(c))
        BY <2>1 DEF n
      <4>2. a < Len(c)
        BY <2>1, <4>1, PiecesOf
      <4>3. a \in Nat
        BY <1>5, <2>1
      <4> HIDE DEF a
      <4> QED
        BY <1>4, <4>2, <4>3
    <3> HIDE DEF a
    <3> DEFINE b == Len(c)
    <3>4. b \in Nat /\ a <= b /\ b <= Len(c)
      BY <1>4, <3>1
    <3> HIDE DEF b
    <3>5. SubSeq(c, 1, a) \o SubSeq(c, a + 1, b) = SubSeq(c, 1, b)
      BY <1>4, <3>1, <3>4, SubSeqJoins
    <3>2. SubSeq(c, 1, a) \o SubSeq(c, a + 1, Len(c)) = SubSeq(c, 1, Len(c))
      BY <3>5 DEF b
    <3>3. SubSeq(c, 1, Len(c)) = c
      BY <1>4, SubSeqFull
    <3> QED
      BY <3>2, <3>3 DEF a
  <2> HIDE DEF whole, w, last
  <2> QED
    BY <2>5, <2>6, <2>7, <2>8, <2>9
<1> QED
  BY <1>4, <1>8, <1>9
-----------------------------------------------------------------------------
(* What a caller sees: the tree *)

\* Every file holds something that was written.
FilesHold(S) == \A f \in Files(S) : \E c \in Contents : Holds(S, f, c)

\* The tree t is what a caller sees of S.
Shows(S, t) ==
  /\ t = [p \in DOMAIN t |-> t[p]]
  /\ \A p : p \in DOMAIN t <=> (p \in Paths /\ \E b : Leads(S, p, b))
  /\ \A p \in Paths : \A b : Leads(S, p, b) =>
       \/ b \in Dirs(S) /\ b \notin Files(S) /\ t[p] = Dir
       \/ b \in Files(S) /\ b \notin Dirs(S) /\ t[p] \in Contents /\ Holds(S, b, t[p])

LEMMA SeenIs ==
  ASSUME NEW S, ImageOK(S), FilesHold(S)
  PROVE  Shows(S, SeenTree(S))
<1> DEFINE found == {p \in Paths : get_inode_block(S, p).full_match}
           Value(b) == IF S.disk[b].mode = "DIR" THEN Dir ELSE fs_read_file(S, b)
           t == [p \in found |-> Value(get_inode_block(S, p).block)]
<1>1. SeenTree(S) = t
  BY DEF SeenTree
<1>2. DOMAIN t = found /\ t = [p \in DOMAIN t |-> t[p]]
  OBVIOUS
<1>3. \A p : p \in DOMAIN t <=> (p \in Paths /\ \E b : Leads(S, p, b))
  BY <1>2 DEF Leads
<1>4. ASSUME NEW p \in Paths, NEW b, Leads(S, p, b)
      PROVE  \/ b \in Dirs(S) /\ b \notin Files(S) /\ t[p] = Dir
             \/ b \in Files(S) /\ b \notin Dirs(S) /\ t[p] \in Contents /\ Holds(S, b, t[p])
  <2>1. p \in found /\ t[p] = Value(b)
    BY <1>4 DEF Leads
  <2>2. b \in Headers(S)
    BY <1>4, PathsAre, LeadsIs
  <2> HIDE DEF t
  <2>3. CASE b \in Dirs(S)
    BY <2>1, <2>3 DEF Dirs, Files
  <2>4. CASE b \in Files(S)
    <3>1. b \notin Dirs(S) /\ S.disk[b].mode # "DIR"
      BY <2>4 DEF Files, Dirs
    <3>2. PICK c \in Contents : Holds(S, b, c)
      BY <2>4 DEF FilesHold
    <3>3. fs_read_file(S, b) = c
      BY <2>4, <3>2, ReadsBack
    <3>4. t[p] = c
      BY <2>1, <3>1, <3>3
    <3> QED
      BY <2>4, <3>1, <3>2, <3>4
  <2> QED
    BY <2>2, <2>3, <2>4 DEF Headers
<1> HIDE DEF t
<1>5. Shows(S, t)
  BY <1>2, <1>3, <1>4 DEF Shows
<1> QED
  BY <1>1, <1>5

\* A file holds one sequence of bytes only.
LEMMA HoldsOne ==
  ASSUME NEW S, ImageOK(S), NEW f \in Files(S), NEW c \in Contents, NEW x \in Contents,
         Holds(S, f, c), Holds(S, f, x)
  PROVE  c = x
BY ReadsBack

LEMMA HoldsStays ==
  ASSUME NEW S, NEW T, NEW f, Stays(S, T, f), NEW c, Holds(S, f, c)
  PROVE  Holds(T, f, c)
<1> DEFINE n == Len(Chunks(c))
           l == LinksOf(S, Nodes(S, f))
           r == LinksOf(T, Nodes(T, f))
<1>1. /\ l \in Seq(Blocks) /\ Len(l) = n
      /\ \A k \in 1..n : S.disk[l[k]] = Data(Chunks(c)[k])
      /\ InfoOf(S, f).size = EndOf(c, n)
  BY DEF Holds, HoldsUpTo
<1>2. r = l /\ (\A x \in Range(l) : T.disk[x] = S.disk[x]) /\ InfoOf(T, f).size = InfoOf(S, f).size
  BY DEF Stays
<1> HIDE DEF l, r, n
<1>3. \A k \in 1..n : l[k] \in Range(l)
  BY <1>1, RangeIs
<1>4. \A k \in 1..n : T.disk[r[k]] = Data(Chunks(c)[k])
  BY <1>1, <1>2, <1>3
<1>5. HoldsUpTo(T, f, c, n)
  BY <1>1, <1>2, <1>4 DEF HoldsUpTo, r
<1> QED
  BY <1>5 DEF Holds, n

LEMMA StaysStays ==
  ASSUME NEW S, NEW R, NEW T, NEW f, Stays(S, R, f), Stays(R, T, f)
  PROVE  Stays(S, T, f)
<1>1. LinksOf(T, Nodes(T, f)) = LinksOf(S, Nodes(S, f))
  BY DEF Stays
<1>2. InfoOf(T, f).size = InfoOf(S, f).size
  BY DEF Stays
<1>3. \A x \in Range(LinksOf(S, Nodes(S, f))) : T.disk[x] = S.disk[x]
  <2> DEFINE l == LinksOf(S, Nodes(S, f))
             r == LinksOf(R, Nodes(R, f))
  <2>1. r = l /\ (\A x \in Range(l) : R.disk[x] = S.disk[x])
    BY DEF Stays
  <2>2. \A x \in Range(r) : T.disk[x] = R.disk[x]
    BY DEF Stays
  <2> HIDE DEF l, r
  <2>3. \A x \in Range(l) : T.disk[x] = S.disk[x]
    BY <2>1, <2>2
  <2> QED
    BY <2>3 DEF l
<1> QED
  BY <1>1, <1>2, <1>3 DEF Stays

\* t with x at p, and t without p.
PutAt(t, p, x) == [q \in DOMAIN t \cup {p} |-> IF q = p THEN x ELSE t[q]]
TakenOut(t, p) == [q \in DOMAIN t \ {p} |-> t[q]]

\* What a path leads to does not change, nor the file it is.
LEMMA SameShown ==
  ASSUME NEW S, ImageOK(S), NEW T, ImageOK(T), NEW t, NEW u, Shows(S, t), Shows(T, u),
         NEW p \in Paths, NEW b, Leads(S, p, b), Leads(T, p, b),
         b \in Dirs(S) => b \in Dirs(T),
         b \in Files(S) => b \in Files(T) /\ Stays(S, T, b)
  PROVE  u[p] = t[p]
<1>1. \/ b \in Dirs(S) /\ b \notin Files(S) /\ t[p] = Dir
      \/ b \in Files(S) /\ b \notin Dirs(S) /\ t[p] \in Contents /\ Holds(S, b, t[p])
  BY DEF Shows
<1>2. \/ b \in Dirs(T) /\ b \notin Files(T) /\ u[p] = Dir
      \/ b \in Files(T) /\ b \notin Dirs(T) /\ u[p] \in Contents /\ Holds(T, b, u[p])
  BY DEF Shows
<1>3. CASE b \in Dirs(S)
  BY <1>1, <1>2, <1>3
<1>4. CASE b \in Files(S)
  <2> DEFINE c == t[p]
             x == u[p]
  <2>1. c \in Contents /\ Holds(S, b, c) /\ x \in Contents /\ Holds(T, b, x) /\ b \in Files(T)
    BY <1>1, <1>2, <1>4
  <2> HIDE DEF c, x
  <2>2. Holds(T, b, c)
    BY <1>4, <2>1, HoldsStays
  <2>3. c = x
    BY <2>1, <2>2, HoldsOne
  <2> QED
    BY <2>3 DEF c, x
<1> QED
  BY <1>1, <1>3, <1>4

\* write_to_file in a file that is there.
LEMMA TreeWritten ==
  ASSUME NEW S, ImageOK(S), NEW T, ImageOK(T), NEW f \in Files(S), OnlyFile(S, T, f),
         NEW t, NEW u, Shows(S, t), Shows(T, u),
         NEW p \in Paths, Leads(S, p, f), NEW c \in Contents, Holds(T, f, c)
  PROVE  u = PutAt(t, p, c)
<1>1. \A q \in Paths : q \in Seq(Names)
  BY PathsAre
<1>2. \A q \in Paths : \A b : Leads(T, q, b) <=> Leads(S, q, b)
  BY <1>1, LeadsAsBefore DEF OnlyFile
<1>3. DOMAIN u = DOMAIN t \cup {p}
  <2>1. \A q : q \in DOMAIN u <=> (q \in Paths /\ \E b : Leads(T, q, b))
    BY DEF Shows
  <2>2. \A q : q \in DOMAIN t <=> (q \in Paths /\ \E b : Leads(S, q, b))
    BY DEF Shows
  <2>3. p \in DOMAIN t
    BY <2>2
  <2>4. \A q : q \in DOMAIN u <=> q \in DOMAIN t
    BY <1>2, <2>1, <2>2
  <2> QED
    BY <2>3, <2>4
<1>4. u[p] = c
  <2>1. f \in Files(T) /\ Leads(T, p, f)
    BY <1>2 DEF OnlyFile
  <2>2. u[p] \in Contents /\ Holds(T, f, u[p])
    BY <2>1 DEF Shows
  <2> QED
    BY <2>1, <2>2, HoldsOne
<1>5. ASSUME NEW q \in DOMAIN t, q # p
      PROVE  u[q] = t[q]
  <2>1. q \in Paths
    BY DEF Shows
  <2>2. PICK b : Leads(S, q, b)
    BY DEF Shows
  <2>3. b # f
    BY <1>1, <1>5, <2>1, <2>2, PathsAreUnique
  <2>4. Leads(T, q, b)
    BY <1>2, <2>1, <2>2
  <2>5. Dirs(T) = Dirs(S) /\ Files(T) = Files(S) /\ (b \in Files(S) => Stays(S, T, b))
    BY <2>3 DEF OnlyFile
  <2> QED
    BY <2>1, <2>2, <2>4, <2>5, SameShown
<1>6. u = [q \in DOMAIN u |-> u[q]]
  BY DEF Shows
<1> QED
  BY <1>3, <1>4, <1>5, <1>6 DEF PutAt

\* fs_mkdir, and fs_write_file of a file that was not there.
LEMMA TreeGrown ==
  ASSUME NEW S, ImageOK(S), NEW T, ImageOK(T), NEW d, NEW n \in Names, NEW mode, NEW e,
         TreeGrows(S, T, d, n, mode, e), NEW q \in Seq(Names), Leads(S, q, d),
         NEW t, NEW u, Shows(S, t), Shows(T, u),
         Append(q, n) \in Paths
  PROVE  LET p == Append(q, n) IN
         u = PutAt(t, p, u[p]) /\ p \notin DOMAIN t /\ Leads(T, p, e)
<1> DEFINE p == Append(q, n)
<1>1. \A r \in Paths : r \in Seq(Names)
  BY PathsAre
<1>2. \A r \in Paths : \A b : Leads(T, r, b) <=> (Leads(S, r, b) \/ (r = p /\ b = e))
  <2>1. MoreEntries(S, T, d, n, e)
    BY DEF TreeGrows
  <2>2. \A r \in Seq(Names) : \A b :
          Leads(T, r, b) <=> (Leads(S, r, b) \/ (r = Append(q, n) /\ b = e))
    BY <2>1, LeadsToMore
  <2> QED
    BY <1>1, <2>2
<1> p \in Paths
  OBVIOUS
<1> HIDE DEF p
<1>3. \A r : r \in DOMAIN t <=> (r \in Paths /\ \E b : Leads(S, r, b))
  BY DEF Shows
<1>4. \A r : r \in DOMAIN u <=> (r \in Paths /\ \E b : Leads(T, r, b))
  BY DEF Shows
<1>5. Leads(T, p, e)
  BY <1>2
<1>6. p \notin DOMAIN t
  <2>1. ASSUME p \in DOMAIN t
        PROVE  FALSE
    <3>1. PICK b : Leads(S, p, b)
      BY <1>3, <2>1
    <3>2. Leads(T, p, b)
      BY <1>2, <3>1
    <3>3. b = e
      BY <1>5, <3>2 DEF Leads
    <3>4. e \in Headers(S)
      BY <1>1, <3>1, <3>3, LeadsIs
    <3> QED
      BY <3>4 DEF TreeGrows, MoreEntries
  <2> QED
    BY <2>1
<1>7. DOMAIN u = DOMAIN t \cup {p}
  <2>1. \A r : r \in DOMAIN u <=> (r \in DOMAIN t \/ r = p)
    BY <1>2, <1>3, <1>4
  <2> QED
    BY <2>1
<1>8. ASSUME NEW r \in DOMAIN t, r # p
      PROVE  u[r] = t[r]
  <2>1. r \in Paths
    BY <1>3
  <2>2. PICK b : Leads(S, r, b)
    BY <1>3
  <2>3. Leads(T, r, b)
    BY <1>2, <2>1, <2>2
  <2>4. /\ b \in Dirs(S) => b \in Dirs(T)
        /\ b \in Files(S) => b \in Files(T) /\ Stays(S, T, b)
    BY DEF TreeGrows
  <2> QED
    BY <2>1, <2>2, <2>3, <2>4, SameShown
<1>9. u = [r \in DOMAIN u |-> u[r]]
  BY DEF Shows
<1>10. u = PutAt(t, p, u[p])
  BY <1>7, <1>8, <1>9 DEF PutAt
<1> QED
  BY <1>5, <1>6, <1>10 DEF p

\* fs_unlink and fs_rmdir.
LEMMA TreeShrunk ==
  ASSUME NEW S, ImageOK(S), NEW T, ImageOK(T), NEW e, TreeShrinks(S, T, e),
         NEW t, NEW u, Shows(S, t), Shows(T, u),
         NEW p \in Paths, Leads(S, p, e)
  PROVE  u = TakenOut(t, p)
<1>1. \A r \in Paths : r \in Seq(Names)
  BY PathsAre
<1>2. \A r \in Paths : \A b : Leads(T, r, b) <=> (Leads(S, r, b) /\ b # e)
  <2>1. FewerEntries(S, T, e)
    BY DEF TreeShrinks
  <2>2. \A r \in Seq(Names) : \A b : Leads(T, r, b) <=> (Leads(S, r, b) /\ b # e)
    BY <2>1, LeadsToFewer
  <2> QED
    BY <1>1, <2>2
<1>3. \A r : r \in DOMAIN t <=> (r \in Paths /\ \E b : Leads(S, r, b))
  BY DEF Shows
<1>4. \A r : r \in DOMAIN u <=> (r \in Paths /\ \E b : Leads(T, r, b))
  BY DEF Shows
<1>5. \A r \in Paths : \A b : Leads(S, r, b) => (r = p <=> b = e)
  <2> TAKE r \in Paths
  <2> TAKE b
  <2>1. r \in Seq(Names) /\ p \in Seq(Names)
    BY <1>1
  <2>2. Leads(S, r, b) /\ r = p => b = e
    BY DEF Leads
  <2>3. Leads(S, r, b) /\ b = e => r = p
    BY <2>1, PathsAreUnique
  <2> QED
    BY <2>2, <2>3
<1>6. DOMAIN u = DOMAIN t \ {p}
  <2>1. \A r : r \in DOMAIN u <=> (r \in DOMAIN t /\ r # p)
    BY <1>2, <1>3, <1>4, <1>5
  <2> QED
    BY <2>1
<1>7. ASSUME NEW r \in DOMAIN t, r # p
      PROVE  u[r] = t[r]
  <2>1. r \in Paths
    BY <1>3
  <2>2. PICK b : Leads(S, r, b)
    BY <1>3
  <2>3. Leads(T, r, b) /\ b # e
    BY <1>2, <1>5, <1>7, <2>1, <2>2
  <2>4. b \in Dirs(S) => b \in Dirs(T)
    BY <2>3 DEF TreeShrinks
  <2>5. b \in Files(S) => b \in Files(T) /\ Stays(S, T, b)
    BY <2>3 DEF TreeShrinks
  <2> QED
    BY <2>1, <2>2, <2>3, <2>4, <2>5, SameShown
<1>8. u = [r \in DOMAIN u |-> u[r]]
  BY DEF Shows
<1> QED
  BY <1>6, <1>7, <1>8 DEF TakenOut
-----------------------------------------------------------------------------
(* The calls implement DirectoryTree *)

TreeOK == tree = SeenTree(fs) /\ FilesHold(fs)

\* The tree and its paths, as DirectoryTree speaks of them.
LEMMA TreeIs ==
  ASSUME IInv, TreeOK, NEW p \in Paths
  PROVE  /\ DT!Exists(p) <=> \E b : Leads(fs, p, b)
         /\ \A b : Leads(fs, p, b) =>
              /\ b \in Headers(fs)
              /\ DT!IsDir(p) <=> b \in Dirs(fs)
              /\ DT!IsFile(p) <=> b \in Files(fs)
<1>1. ImageOK(fs)
  BY DEF IInv
<1>2. Shows(fs, tree)
  BY <1>1, SeenIs DEF TreeOK
<1>3. DT!Exists(p) <=> \E b : Leads(fs, p, b)
  BY <1>2 DEF Shows, DT!Exists
<1>4. ASSUME NEW b, Leads(fs, p, b)
      PROVE  /\ b \in Headers(fs)
             /\ DT!IsDir(p) <=> b \in Dirs(fs)
             /\ DT!IsFile(p) <=> b \in Files(fs)
  <2>1. \/ b \in Dirs(fs) /\ b \notin Files(fs) /\ tree[p] = Dir
        \/ b \in Files(fs) /\ b \notin Dirs(fs) /\ tree[p] \in Contents
    BY <1>2, <1>4 DEF Shows
  <2>2. DT!Exists(p)
    BY <1>3, <1>4
  <2> QED
    BY <2>1, <2>2, DirAssumption DEF DT!IsDir, DT!IsFile, Headers
<1> QED
  BY <1>3, <1>4

LEMMA ParentIs ==
  ASSUME NEW q \in Seq(Names), NEW n \in Names
  PROVE  /\ DT!ParentOf(Append(q, n)) = q
         /\ Append(q, n) # <<>>
         /\ Append(q, n) \in Paths => q \in Paths
<1> DEFINE p == Append(q, n)
           r == SubSeq(p, 1, Len(q))
<1>1. /\ p \in Seq(Names) /\ p # <<>> /\ Len(p) = Len(q) + 1 /\ Len(q) \in Nat
      /\ \A i \in 1..Len(q) : p[i] = q[i]
  BY AppendProperties, LenProperties
<1>2. DT!ParentOf(p) = r
  <2>1. Len(p) - 1 = Len(q)
    BY <1>1
  <2> HIDE DEF p
  <2> QED
    BY <2>1 DEF DT!ParentOf
<1> HIDE DEF p
<1>3. /\ r \in Seq(Names) /\ Len(r) = (IF 1 <= Len(q) THEN Len(q) - 1 + 1 ELSE 0)
      /\ \A i \in 1..(Len(q) - 1 + 1) : r[i] = p[1 + i - 1]
  <2>1. \A i \in 1..Len(q) : p[i] \in Names
    BY <1>1, ElementOfSeq
  <2>2. Len(q) \in Int
    BY <1>1
  <2> QED
    BY <2>1, <2>2, SubSeqProperties
<1> HIDE DEF r
<1>4. Len(r) = Len(q) /\ \A i \in 1..Len(r) : r[i] = q[i]
  BY <1>1, <1>3
<1>5. r = q
  BY <1>3, <1>4, SeqEqual
<1>6. p \in Paths => q \in Paths
  <2>1. MaxDepth \in Nat
    BY CallersAssumption
  <2> QED
    BY <1>1, <2>1, PathsAre
<1> QED
  BY <1>1, <1>2, <1>5, <1>6 DEF p

\* A path that leads somewhere, but to the root, is one name more than the path
\* of a directory.
LEMMA PlaceIs ==
  ASSUME IInv, NEW p \in Paths, p # <<>>, NEW b, Leads(fs, p, b)
  PROVE  \E q \in Seq(Names), n \in Names : \E d :
           p = Append(q, n) /\ Leads(fs, q, d) /\ IsEntry(fs, d, n, b)
<1>1. PICK q \in Seq(Names), n \in Names : p = Append(q, n)
  BY PathsAre, SequenceEmptyOrAppend
<1>2. \E d : Leads(fs, q, d) /\ IsEntry(fs, d, n, b)
  BY <1>1, LeadsIs DEF IInv
<1> QED
  BY <1>1, <1>2

\* The directory of what is there is there.
LEMMA ParentIsDir ==
  ASSUME IInv, TreeOK, NEW p \in Paths, NEW q \in Seq(Names), NEW n \in Names,
         p = Append(q, n), NEW d, Leads(fs, q, d), d \in Dirs(fs)
  PROVE  p # <<>> /\ DT!IsDir(DT!ParentOf(p))
<1>1. DT!ParentOf(p) = q /\ p # <<>> /\ q \in Paths
  BY ParentIs
<1>2. DT!IsDir(q)
  BY <1>1, TreeIs
<1> QED
  BY <1>1, <1>2

LEMMA TreeStarts == Init => TreeOK /\ DT!Init
<1> SUFFICES ASSUME Init
             PROVE  TreeOK /\ DT!Init
  OBVIOUS
<1>1. ImageOK(fs)
  BY InitKeeps DEF IInv
<1>2. tree = [p \in {<<>>} |-> Dir] /\ call = <<"format", <<>>, <<>>, "ok">>
  BY DEF Init
<1>3. root \in Dirs(fs)
  BY <1>1 DEF ImageOK, ParentsOK
<1>4. Files(fs) = {} /\ Headers(fs) \subseteq {root}
  <2>1. \A b \in Blocks : b # root => fs.disk[b].kind # "inode"
    BY DEF Init, Super, NodeInfo, FreePage, root
  <2>2. fs.disk[root].mode = "DIR"
    BY <1>3 DEF Dirs
  <2> QED
    BY <2>1, <2>2 DEF Files, Headers, Dirs
<1>5. FilesHold(fs)
  BY <1>4 DEF FilesHold
<1> DEFINE t == SeenTree(fs)
<1>6. Shows(fs, t)
  BY <1>1, <1>5, SeenIs
<1> HIDE DEF t
<1>7. Leads(fs, <<>>, root) /\ <<>> \in Paths /\ <<>> \in Seq(Names)
  BY <1>1, LeadsIs, PathsAre
<1>8. DOMAIN t = {<<>>}
  <2>1. ASSUME NEW p \in DOMAIN t
        PROVE  p = <<>>
    <3>1. p \in Paths
      BY <1>6 DEF Shows
    <3>2. PICK b : Leads(fs, p, b)
      BY <1>6 DEF Shows
    <3>3. p \in Seq(Names)
      BY <3>1, PathsAre
    <3>4. b = root
      BY <1>1, <1>4, <3>2, <3>3, LeadsIs
    <3> QED
      BY <1>1, <1>7, <3>2, <3>3, <3>4, PathsAreUnique
  <2>2. <<>> \in DOMAIN t
    BY <1>6, <1>7 DEF Shows
  <2> QED
    BY <2>1, <2>2
<1>9. t[<<>>] = Dir
  BY <1>3, <1>4, <1>6, <1>7 DEF Shows
<1>10. t = [p \in DOMAIN t |-> t[p]]
  BY <1>6 DEF Shows
<1>11. t = tree
  BY <1>2, <1>8, <1>9, <1>10
<1> QED
  BY <1>2, <1>5, <1>11 DEF TreeOK, DT!Init, t

\* Files that are there hold what they held, or what was written.
LEMMA FilesHoldAfter ==
  ASSUME NEW S, FilesHold(S), NEW T,
         \A f \in Files(T) : \/ f \in Files(S) /\ Stays(S, T, f)
                             \/ \E c \in Contents : Holds(T, f, c)
  PROVE  FilesHold(T)
BY HoldsStays DEF FilesHold

\* create_entity and then write_to_file in the new file.
LEMMA GrownAndWritten ==
  ASSUME NEW S, NEW R, NEW T, NEW d, NEW n, NEW e,
         TreeGrows(S, R, d, n, "REG", e), OnlyFile(R, T, e)
  PROVE  TreeGrows(S, T, d, n, "REG", e)
<1>1. MoreEntries(S, T, d, n, e)
  BY DEF TreeGrows, OnlyFile, MoreEntries, SameEntries
<1>2. /\ \A a : a \in Dirs(T) <=> (a \in Dirs(S) \/ (a = e /\ "REG" = "DIR"))
      /\ \A a : a \in Files(T) <=> (a \in Files(S) \/ (a = e /\ "REG" = "REG"))
  BY DEF TreeGrows, OnlyFile
<1>3. ASSUME NEW f \in Files(S)
      PROVE  Stays(S, T, f)
  <2>1. Stays(S, R, f) /\ f \in Files(R)
    BY DEF TreeGrows
  <2>2. f # e
    BY DEF TreeGrows, MoreEntries, Headers
  <2>3. Stays(R, T, f)
    BY <2>1, <2>2 DEF OnlyFile
  <2> QED
    BY <2>1, <2>3, StaysStays
<1> QED
  BY <1>1, <1>2, <1>3 DEF TreeGrows

\* A call that changes nothing.
LEMMA NothingDone ==
  ASSUME TreeOK, fs' = fs, tree' = SeenTree(fs')
  PROVE  TreeOK' /\ tree' = tree
<1>1. tree' = tree
  BY DEF TreeOK
<1>2. FilesHold(fs')
  BY DEF TreeOK
<1> QED
  BY <1>1, <1>2 DEF TreeOK

LEMMA WriteDoes ==
  ASSUME IInv, TreeOK, ~Overwrites, NEW p \in Paths, NEW c \in Contents, fs_write_file(p, c)
  PROVE  TreeOK' /\ DT!Next
<1>1. ImageOK(fs) /\ FilesHold(fs) /\ Shows(fs, tree)
  BY SeenIs DEF IInv, TreeOK
<1> DEFINE num_blocks == IF Len(c) < BlkSz THEN 1 ELSE Len(c) \div BlkSz
           file == IF At(p).full_match THEN At(p).block ELSE CreatedBlock(fs)
           S == IF At(p).full_match THEN free_file_data_blocks(fs, file)
                ELSE create_entity(fs, At(p).block, At(p).left_over, "REG")
<1>2. \/ num_blocks > fs.freeblks /\ Return("write", p, c, fs, "ENOSPC")
      \/ /\ num_blocks <= fs.freeblks
         /\ Reaches(p) /\ Creatable(p) /\ ~IsDir(p) /\ RoomFor(p, c)
         /\ IsFile(p) => (Overwrites \/ fs.disk[file].links = <<>>)
         /\ Return("write", p, c, write_to_file(S, file, c), "ok")
  BY DEF fs_write_file
<1>3. CASE Return("write", p, c, fs, "ENOSPC")
  <2>1. fs' = fs /\ tree' = SeenTree(fs') /\ call' = <<"write", p, c, "ENOSPC">>
    BY <1>3 DEF Return
  <2>2. TreeOK' /\ tree' = tree
    BY <2>1, NothingDone
  <2>3. DT!Fail(p)
    BY <2>1, <2>2 DEF DT!Fail
  <2> QED
    BY <2>2, <2>3 DEF DT!Next
<1>4. CASE /\ Creatable(p) /\ ~IsDir(p) /\ RoomFor(p, c)
           /\ IsFile(p) => fs.disk[file].links = <<>>
           /\ Return("write", p, c, write_to_file(S, file, c), "ok")
  <2>1. /\ fs' = write_to_file(S, file, c) /\ tree' = SeenTree(fs')
        /\ call' = <<"write", p, c, "ok">>
    BY <1>4 DEF Return
  <2>2. /\ fs.freeblks \in Nat
        /\ At(p).full_match => Needed(Len(Chunks(c))) <= fs.freeblks
        /\ ~At(p).full_match => /\ fs.freeblks >= 2
                                /\ Needed(Len(Chunks(c))) <= fs.freeblks - 2
    <3>1. Len(Chunks(c)) \in Nat
      BY ChunksAre
    <3> QED
      BY <1>4, <3>1, RoomIs
  <2>3. SUFFICES /\ FilesHold(fs') /\ tree' = PutAt(tree, p, c)
                 /\ p # <<>> /\ DT!IsDir(DT!ParentOf(p)) /\ ~DT!IsDir(p)
    <3>1. tree' = DT!With(p, c)
      BY <2>3 DEF PutAt, DT!With
    <3>2. DT!WriteFile(p, c)
      BY <2>1, <2>3, <3>1 DEF DT!WriteFile
    <3> QED
      BY <2>1, <2>3, <3>2 DEF DT!Next, TreeOK
  <2>4. CASE At(p).full_match
    <3> DEFINE f == At(p).block
    <3>1. f \in Files(fs)
      BY <1>4, <2>4, FoundIs
    <3>2. IsFile(p) /\ Leads(fs, p, f)
      BY <2>4, <3>1 DEF IsFile, Files, Leads, At
    <3>3. file = f /\ fs.disk[f].links = <<>>
      BY <1>4, <2>4, <3>2
    <3>4. S = fs
      BY <1>1, <2>4, <3>1, <3>3, NothingToFree
    <3> HIDE DEF S, file, f
    <3>5. fs' = write_to_file(fs, f, c)
      BY <2>1, <3>3, <3>4
    <3> DEFINE T == write_to_file(fs, f, c)
    <3>6. ImageOK(T) /\ OnlyFile(fs, T, f) /\ Holds(T, f, c)
      BY <1>1, <2>2, <2>4, <3>1, <3>3, WriteKeeps
    <3> HIDE DEF T
    <3>7. FilesHold(T)
      BY <1>1, <3>6, FilesHoldAfter DEF OnlyFile
    <3>8. Shows(T, SeenTree(T))
      BY <3>6, <3>7, SeenIs
    <3>9. SeenTree(T) = PutAt(tree, p, c)
      BY <1>1, <3>1, <3>2, <3>6, <3>8, TreeWritten
    <3>10. f \notin Dirs(fs)
      BY <3>1 DEF Files, Dirs
    <3>11. ~DT!IsDir(p)
      BY <3>2, <3>10, TreeIs
    <3>12. p # <<>>
      <4>1. p = <<>> => f = root
        BY <1>1, <3>2, LeadsIs
      <4>2. root \in Dirs(fs)
        BY <1>1 DEF ImageOK, ParentsOK
      <4> QED
        BY <3>10, <4>1, <4>2
    <3>13. DT!IsDir(DT!ParentOf(p))
      <4>1. PICK q \in Seq(Names), n \in Names : \E d :
              p = Append(q, n) /\ Leads(fs, q, d) /\ IsEntry(fs, d, n, f)
        BY <3>2, <3>12, PlaceIs
      <4>2. PICK d : p = Append(q, n) /\ Leads(fs, q, d) /\ IsEntry(fs, d, n, f)
        BY <4>1
      <4>3. d \in Dirs(fs)
        BY <4>2 DEF IsEntry
      <4> QED
        BY <4>2, <4>3, ParentIsDir
    <3> QED
      BY <2>1, <3>5, <3>7, <3>9, <3>11, <3>12, <3>13 DEF T
  <2>5. CASE ~At(p).full_match
    <3> DEFINE d == At(p).block
               n == At(p).left_over
               e == CreatedBlock(fs)
               R == create_entity(fs, d, n, "REG")
    <3>1. PICK q : NewIn(p, q, n, d)
      BY <1>4, <2>5, NotFoundIs
    <3>2. S = R /\ file = e
      BY <2>5
    <3>3. fs' = write_to_file(R, e, c)
      BY <2>1, <3>2
    <3> HIDE DEF S, file, d, n
    <3>4. /\ ImageOK(R) /\ R.freeblks = fs.freeblks - 2
          /\ e \in Files(R) /\ R.disk[e].links = <<>>
          /\ TreeGrows(fs, R, d, n, "REG", e)
      BY <1>1, <2>2, <2>5, <3>1, CreateKeeps DEF NewIn
    <3> HIDE DEF R, e
    <3> DEFINE T == write_to_file(R, e, c)
    <3>5. ImageOK(T) /\ OnlyFile(R, T, e) /\ Holds(T, e, c)
      BY <2>2, <2>5, <3>4, WriteKeeps
    <3> HIDE DEF T
    <3>6. TreeGrows(fs, T, d, n, "REG", e)
      BY <3>4, <3>5, GrownAndWritten
    <3>7. FilesHold(T)
      BY <1>1, <3>5, <3>6, FilesHoldAfter DEF TreeGrows
    <3>8. Shows(T, SeenTree(T))
      BY <3>5, <3>7, SeenIs
    <3>9. /\ q \in Seq(Names) /\ n \in Names /\ p = Append(q, n)
          /\ Leads(fs, q, d) /\ d \in Dirs(fs)
      BY <3>1 DEF NewIn, Leads
    <3> DEFINE u == SeenTree(T)
    <3> HIDE DEF u
    <3>10. u = PutAt(tree, p, u[p]) /\ p \notin DOMAIN tree /\ Leads(T, p, e)
      <4>1. Append(q, n) \in Paths /\ Shows(T, u)
        BY <3>8, <3>9 DEF u
      <4>2. LET r == Append(q, n) IN
            u = PutAt(tree, r, u[r]) /\ r \notin DOMAIN tree /\ Leads(T, r, e)
        BY <1>1, <3>5, <3>6, <3>9, <4>1, TreeGrown
      <4> QED
        BY <3>9, <4>2
    <3>11. u[p] = c
      <4>1. e \in Files(T)
        BY <3>6 DEF TreeGrows
      <4>2. u[p] \in Contents /\ Holds(T, e, u[p])
        BY <3>8, <3>10, <4>1 DEF Shows, u
      <4> QED
        BY <3>5, <4>1, <4>2, HoldsOne
    <3>12. p # <<>> /\ DT!IsDir(DT!ParentOf(p))
      BY <3>9, ParentIsDir
    <3>13. ~DT!IsDir(p)
      BY <3>10 DEF DT!IsDir, DT!Exists
    <3> QED
      BY <2>1, <3>3, <3>7, <3>10, <3>11, <3>12, <3>13 DEF T, u
  <2> QED
    BY <2>4, <2>5
<1> QED
  BY <1>2, <1>3, <1>4

LEMMA MakeDoes ==
  ASSUME IInv, TreeOK, NEW p \in Paths, fs_mkdir(p)
  PROVE  TreeOK' /\ DT!Next
<1>1. ImageOK(fs) /\ FilesHold(fs) /\ Shows(fs, tree)
  BY SeenIs DEF IInv, TreeOK
<1> DEFINE d == At(p).block
           n == At(p).left_over
           T == create_entity(fs, d, n, "DIR")
<1>2. \/ At(p).full_match /\ Return("mkdir", p, <<>>, fs, "EEXIST")
      \/ /\ ~At(p).full_match /\ Creatable(p) /\ RoomFor(p, <<>>)
         /\ Return("mkdir", p, <<>>, T, "ok")
  BY DEF fs_mkdir
<1>3. CASE At(p).full_match /\ Return("mkdir", p, <<>>, fs, "EEXIST")
  <2>1. fs' = fs /\ tree' = SeenTree(fs') /\ call' = <<"mkdir", p, <<>>, "EEXIST">>
    BY <1>3 DEF Return
  <2>2. TreeOK' /\ tree' = tree
    BY <2>1, NothingDone
  <2>3. DT!Exists(p)
    BY <1>3, TreeIs DEF Leads, At
  <2>4. DT!Fail(p)
    BY <2>1, <2>2, <2>3 DEF DT!Fail
  <2> QED
    BY <2>2, <2>4 DEF DT!Next
<1>4. CASE /\ ~At(p).full_match /\ Creatable(p) /\ RoomFor(p, <<>>)
           /\ Return("mkdir", p, <<>>, T, "ok")
  <2>1. fs' = T /\ tree' = SeenTree(fs') /\ call' = <<"mkdir", p, <<>>, "ok">>
    BY <1>4 DEF Return
  <2>2. fs.freeblks >= 2
    BY <1>4, ChunksOfNothing, RoomIs
  <2>3. PICK q : NewIn(p, q, n, d)
    BY <1>4, NotFoundIs
  <2> HIDE DEF d, n
  <2> DEFINE e == CreatedBlock(fs)
  <2>4. ImageOK(T) /\ TreeGrows(fs, T, d, n, "DIR", e)
    BY <1>1, <2>2, <2>3, CreateKeeps DEF NewIn
  <2> HIDE DEF T, e
  <2>5. FilesHold(T)
    BY <1>1, <2>4, FilesHoldAfter DEF TreeGrows
  <2> DEFINE u == SeenTree(T)
  <2>6. Shows(T, u)
    BY <2>4, <2>5, SeenIs
  <2>7. /\ q \in Seq(Names) /\ n \in Names /\ p = Append(q, n)
        /\ Leads(fs, q, d) /\ d \in Dirs(fs)
    BY <2>3 DEF NewIn, Leads
  <2> HIDE DEF u
  <2>8. u = PutAt(tree, p, u[p]) /\ p \notin DOMAIN tree /\ Leads(T, p, e)
    <3>1. Append(q, n) \in Paths
      BY <2>7
    <3>2. LET r == Append(q, n) IN
          u = PutAt(tree, r, u[r]) /\ r \notin DOMAIN tree /\ Leads(T, r, e)
      BY <1>1, <2>4, <2>6, <2>7, <3>1, TreeGrown
    <3> QED
      BY <2>7, <3>2
  <2>9. u[p] = Dir
    <3>1. e \in Dirs(T)
      BY <2>4 DEF TreeGrows
    <3> QED
      BY <2>6, <2>8, <3>1 DEF Shows
  <2>10. DT!IsDir(DT!ParentOf(p))
    BY <2>7, ParentIsDir
  <2>11. tree' = DT!With(p, Dir)
    BY <2>1, <2>8, <2>9 DEF PutAt, DT!With, u
  <2>12. DT!MakeDir(p)
    BY <2>1, <2>8, <2>10, <2>11 DEF DT!MakeDir, DT!Exists
  <2> QED
    BY <2>1, <2>5, <2>12 DEF DT!Next, TreeOK
<1> QED
  BY <1>2, <1>3, <1>4

\* Removed takes e out of the tree.
LEMMA RemovedDoes ==
  ASSUME IInv, TreeOK, NEW p \in Paths, NEW e, Leads(fs, p, e), Leaf(fs, e),
         NEW F, Emptied(fs, F, e)
  PROVE  LET T == Removed(F, e) IN FilesHold(T) /\ SeenTree(T) = TakenOut(tree, p)
<1>1. ImageOK(fs) /\ FilesHold(fs) /\ Shows(fs, tree)
  BY SeenIs DEF IInv, TreeOK
<1> DEFINE T == Removed(F, e)
<1>2. Removal(fs, T, e, fs.disk[e].parent, fs.disk[fs.disk[e].parent].meta)
  BY <1>1, RemovedIs
<1> HIDE DEF T
<1>3. ImageOK(T) /\ TreeShrinks(fs, T, e)
  BY <1>1, <1>2, RemovalKeeps
<1>4. FilesHold(T)
  BY <1>1, <1>3, FilesHoldAfter DEF TreeShrinks
<1> DEFINE u == SeenTree(T)
<1>5. Shows(T, u)
  BY <1>3, <1>4, SeenIs
<1> HIDE DEF u
<1>6. u = TakenOut(tree, p)
  BY <1>1, <1>3, <1>5, TreeShrunk
<1> QED
  BY <1>4, <1>6 DEF T, u

LEMMA UnlinkDoes ==
  ASSUME IInv, TreeOK, NEW p \in Paths, fs_unlink(p)
  PROVE  TreeOK' /\ DT!Next
<1>1. ImageOK(fs)
  BY DEF IInv
<1> DEFINE e == At(p).block
           F == free_file_data_blocks(fs, e)
           T == Removed(F, e)
<1>2. /\ ~IsDir(p)
      /\ \/ ~At(p).full_match /\ Return("unlink", p, <<>>, fs, "ENOENT")
         \/ At(p).full_match /\ Return("unlink", p, <<>>, T, "ok")
  BY DEF fs_unlink
<1>3. CASE ~At(p).full_match /\ Return("unlink", p, <<>>, fs, "ENOENT")
  <2>1. fs' = fs /\ tree' = SeenTree(fs') /\ call' = <<"unlink", p, <<>>, "ENOENT">>
    BY <1>3 DEF Return
  <2>2. TreeOK' /\ tree' = tree
    BY <2>1, NothingDone
  <2>3. ~DT!Exists(p)
    BY <1>3, TreeIs DEF Leads, At
  <2>4. DT!Fail(p)
    BY <2>1, <2>2, <2>3 DEF DT!Fail
  <2> QED
    BY <2>2, <2>4 DEF DT!Next
<1>4. CASE At(p).full_match /\ Return("unlink", p, <<>>, T, "ok")
  <2>1. fs' = T /\ tree' = SeenTree(fs') /\ call' = <<"unlink", p, <<>>, "ok">>
    BY <1>4 DEF Return
  <2>2. e \in Files(fs) /\ Leads(fs, p, e)
    BY <1>2, <1>4, FoundIs DEF Leads, At
  <2> HIDE DEF e, F
  <2>3. Leaf(fs, e)
    <3>1. root \in Dirs(fs)
      BY <1>1 DEF ImageOK, ParentsOK
    <3> QED
      BY <2>2, <3>1 DEF Leaf, Headers, Files, Dirs
  <2>4. Emptied(fs, F, e)
    BY <1>1, <2>2, EmptiedFile DEF F
  <2>5. FilesHold(T) /\ SeenTree(T) = TakenOut(tree, p)
    BY <2>2, <2>3, <2>4, RemovedDoes
  <2>6. DT!IsFile(p)
    BY <2>2, TreeIs
  <2> HIDE DEF T
  <2>7. tree' = DT!Without(p)
    BY <2>1, <2>5 DEF TakenOut, DT!Without
  <2>8. DT!Unlink(p)
    BY <2>1, <2>6, <2>7 DEF DT!Unlink
  <2> QED
    BY <2>1, <2>5, <2>8 DEF DT!Next, TreeOK
<1> QED
  BY <1>2, <1>3, <1>4

\* A directory is empty when it links nothing.
LEMMA EmptyIs ==
  ASSUME IInv, TreeOK, NEW p \in Paths, NEW d, Leads(fs, p, d), d \in Dirs(fs)
  PROVE  DT!IsEmpty(p) <=> InfoOf(fs, d).size = 0
<1>1. ImageOK(fs) /\ Shows(fs, tree)
  BY SeenIs DEF IInv, TreeOK
<1> DEFINE links == fs.disk[d].links
<1>2. links \in Seq(Blocks) /\ InfoOf(fs, d).size = Len(links) /\ Len(links) \in Nat
  <2>1. links \in Seq(Blocks)
    BY <1>1, DirLinks
  <2> QED
    BY <1>1, <2>1, LenProperties DEF ImageOK, SizesOK
<1>3. p \in Seq(Names)
  BY PathsAre
<1>4. ASSUME InfoOf(fs, d).size # 0
      PROVE  ~DT!IsEmpty(p)
  <2> DEFINE e == links[1]
             n == NameOf(fs, e)
  <2>1. 1 \in 1..Len(links)
    BY <1>2, <1>4
  <2>2. e \in Headers(fs) \ {root} /\ n \in Names /\ e \in Range(links)
    BY <1>1, <1>2, <2>1, RangeIs DEF ImageOK, EntriesOK
  <2>3. IsEntry(fs, d, n, e)
    BY <2>2 DEF IsEntry
  <2> HIDE DEF e, n
  <2>4. PICK q \in Paths : Leads(fs, q, e)
    BY <1>1, <2>2 DEF ImageOK, ReachOK, Leads
  <2>5. q # <<>>
    BY <1>1, <2>2, <2>4, LeadsIs
  <2>6. PICK r \in Seq(Names), m \in Names : \E c :
          q = Append(r, m) /\ Leads(fs, r, c) /\ IsEntry(fs, c, m, e)
    BY <2>4, <2>5, PlaceIs
  <2>7. PICK c : q = Append(r, m) /\ Leads(fs, r, c) /\ IsEntry(fs, c, m, e)
    BY <2>6
  <2>8. c = d
    <3>1. fs \in Images /\ EntriesOK(fs)
      BY <1>1 DEF ImageOK, TypesOK
    <3>2. fs.disk[e].parent = d
      BY <2>3, <3>1, EntryIs
    <3>3. fs.disk[e].parent = c
      BY <2>7, <3>1, EntryIs
    <3> QED
      BY <3>2, <3>3
  <2>9. r = p
    BY <1>1, <1>3, <2>7, <2>8, PathsAreUnique
  <2>10. DT!ParentOf(q) = p
    BY <2>7, <2>9, ParentIs
  <2>11. q \in DOMAIN tree
    BY <1>1, <2>4 DEF Shows
  <2> QED
    BY <2>5, <2>10, <2>11 DEF DT!IsEmpty
<1>5. ASSUME InfoOf(fs, d).size = 0, NEW q \in DOMAIN tree, q # <<>>, DT!ParentOf(q) = p
      PROVE  FALSE
  <2>1. q \in Paths
    BY <1>1 DEF Shows
  <2>2. PICK b : Leads(fs, q, b)
    BY <1>1 DEF Shows
  <2>3. PICK r \in Seq(Names), m \in Names : \E c :
          q = Append(r, m) /\ Leads(fs, r, c) /\ IsEntry(fs, c, m, b)
    BY <1>5, <2>1, <2>2, PlaceIs
  <2>4. PICK c : q = Append(r, m) /\ Leads(fs, r, c) /\ IsEntry(fs, c, m, b)
    BY <2>3
  <2>5. r = p
    BY <1>5, <2>4, ParentIs
  <2>6. c = d
    BY <2>4, <2>5 DEF Leads
  <2>7. b \in Range(links)
    BY <2>4, <2>6 DEF IsEntry
  <2> HIDE DEF links
  <2>8. \E i \in 1..Len(links) : links[i] = b
    BY <1>2, <2>7, RangeIs
  <2>9. Len(links) = 0
    BY <1>2, <1>5
  <2> QED
    BY <2>8, <2>9
<1> QED
  BY <1>4, <1>5 DEF DT!IsEmpty

LEMMA RemoveDoes ==
  ASSUME IInv, TreeOK, NEW p \in Paths, fs_rmdir(p)
  PROVE  TreeOK' /\ DT!Next
<1>1. ImageOK(fs)
  BY DEF IInv
<1> DEFINE e == At(p).block
           T == Removed(fs, e)
           Why == \/ ~At(p).full_match /\ Return("rmdir", p, <<>>, fs, "ENOENT")
                  \/ IsFile(p) /\ Return("rmdir", p, <<>>, fs, "ENOTDIR")
                  \/ IsDir(p) /\ InfoOf(fs, e).size # 0 /\ Return("rmdir", p, <<>>, fs, "ENOTEMPTY")
<1>2. \/ Why
      \/ IsDir(p) /\ InfoOf(fs, e).size = 0 /\ p # <<>> /\ Return("rmdir", p, <<>>, T, "ok")
  BY DEF fs_rmdir
<1>3. CASE Why
  <2>1. fs' = fs /\ tree' = SeenTree(fs')
    BY <1>3 DEF Return
  <2>2. TreeOK' /\ tree' = tree
    BY <2>1, NothingDone
  <2>3. CASE ~At(p).full_match /\ call' = <<"rmdir", p, <<>>, "ENOENT">>
    <3>1. ~DT!Exists(p)
      BY <2>3, TreeIs DEF Leads, At
    <3>2. DT!Fail(p)
      BY <2>2, <2>3, <3>1 DEF DT!Fail
    <3> QED
      BY <2>2, <3>2 DEF DT!Next
  <2>4. CASE IsFile(p) /\ call' = <<"rmdir", p, <<>>, "ENOTDIR">>
    <3>1. At(p).full_match /\ ~IsDir(p)
      BY <2>4 DEF IsFile, IsDir
    <3>2. e \in Files(fs) /\ Leads(fs, p, e)
      BY <3>1, FoundIs DEF Leads, At
    <3>3. DT!IsFile(p)
      BY <3>2, TreeIs
    <3>4. DT!Fail(p)
      BY <2>2, <2>4, <3>3 DEF DT!Fail
    <3> QED
      BY <2>2, <3>4 DEF DT!Next
  <2>5. CASE IsDir(p) /\ InfoOf(fs, e).size # 0 /\ call' = <<"rmdir", p, <<>>, "ENOTEMPTY">>
    <3>1. At(p).full_match
      BY <2>5 DEF IsDir
    <3>2. e \in Dirs(fs) /\ Leads(fs, p, e)
      BY <2>5, <3>1, FoundIs DEF Leads, At
    <3>3. DT!IsDir(p) /\ ~DT!IsEmpty(p)
      BY <2>5, <3>2, TreeIs, EmptyIs
    <3>4. DT!Fail(p)
      BY <2>2, <2>5, <3>3 DEF DT!Fail
    <3> QED
      BY <2>2, <3>4 DEF DT!Next
  <2> QED
    BY <1>3, <2>3, <2>4, <2>5 DEF Return
<1>4. CASE IsDir(p) /\ InfoOf(fs, e).size = 0 /\ p # <<>> /\ Return("rmdir", p, <<>>, T, "ok")
  <2>1. fs' = T /\ tree' = SeenTree(fs') /\ call' = <<"rmdir", p, <<>>, "ok">>
    BY <1>4 DEF Return
  <2>2. e \in Dirs(fs) /\ e \in Headers(fs) /\ e # root /\ Leads(fs, p, e)
    BY <1>4, FoundIs DEF IsDir, Leads, At
  <2>3. DT!IsDir(p) /\ DT!IsEmpty(p)
    BY <1>4, <2>2, TreeIs, EmptyIs
  <2>4. InfoOf(fs, e).size = 0
    BY <1>4
  <2> HIDE DEF e
  <2>5. fs.disk[e].links = <<>>
    <3>1. fs.disk[e].links \in Seq(Blocks)
      BY <1>1, <2>2, DirLinks
    <3>2. Len(fs.disk[e].links) = 0
      BY <1>1, <2>2, <2>4 DEF ImageOK, SizesOK
    <3> QED
      BY <3>1, <3>2, EmptySeq
  <2>6. Leaf(fs, e)
    BY <2>2, <2>5 DEF Leaf
  <2>7. Emptied(fs, fs, e)
    BY <1>1, <2>2, EmptiedDir
  <2>8. FilesHold(T) /\ SeenTree(T) = TakenOut(tree, p)
    BY <2>2, <2>6, <2>7, RemovedDoes
  <2> HIDE DEF T
  <2>9. tree' = DT!Without(p)
    BY <2>1, <2>8 DEF TakenOut, DT!Without
  <2>10. DT!RemoveDir(p)
    BY <1>4, <2>1, <2>3, <2>9 DEF DT!RemoveDir
  <2> QED
    BY <2>1, <2>8, <2>10 DEF DT!Next, TreeOK
<1> QED
  BY <1>2, <1>3, <1>4

LEMMA NextDoes ==
  ASSUME IInv, TreeOK, ~Overwrites, [Next]_vars
  PROVE  TreeOK' /\ [DT!Next]_DT!treeVars
<1>1. CASE UNCHANGED vars
  BY <1>1 DEF vars, TreeOK, DT!treeVars
<1>2. CASE Next
  <2>1. PICK p \in Paths :
          \/ \E c \in Contents : fs_write_file(p, c)
          \/ fs_mkdir(p) \/ fs_unlink(p) \/ fs_rmdir(p)
    BY <1>2 DEF Next
  <2>2. CASE \E c \in Contents : fs_write_file(p, c)
    BY <2>2, WriteDoes
  <2>3. CASE fs_mkdir(p)
    BY <2>3, MakeDoes
  <2>4. CASE fs_unlink(p)
    BY <2>4, UnlinkDoes
  <2>5. CASE fs_rmdir(p)
    BY <2>5, RemoveDoes
  <2> QED
    BY <2>1, <2>2, <2>3, <2>4, <2>5
<1> QED
  BY <1>1, <1>2

\* The calls do to the tree what they are for and nothing else: what was written
\* to a file is read back whatever is done to the others, a call that fails says
\* why and changes nothing.
THEOREM CallsDoWhatTheyAreFor ==
  ASSUME ~Overwrites
  PROVE  Spec => ImplementsTree
<1>1. Init => TreeOK /\ DT!Init
  BY TreeStarts
<1>2. IInv /\ TreeOK /\ [Next]_vars => TreeOK' /\ [DT!Next]_DT!treeVars
  BY NextDoes
<1> QED
  BY <1>1, <1>2, InductiveInvariant, PTL DEF Spec, ImplementsTree, DT!Spec
=============================================================================
