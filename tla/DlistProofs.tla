---------------------------- MODULE DlistProofs ----------------------------
(***************************************************************************)
(* Proofs about Dlist, for every number of lists, nodes and data: whatever *)
(* the calls were, the pointers of every list agree in both directions and *)
(* every allocated node is in one place of one list.                       *)
(***************************************************************************)
EXTENDS Dlist, Sequences, FiniteSetTheorems, SequenceTheorems, TLAPS

ListRecord == [head : Pointer, tail : Pointer, count : Nat]
NodeRecord == [prev : Pointer, next : Pointer, data : Value]

\* The part of the inductive invariant about the lists and the heap,
HeapInv ==
  /\ dl \in [Lists -> ListRecord]
  /\ created \subseteq Lists
  /\ node \in [Nodes -> NodeRecord]
  /\ alive \subseteq Nodes
  /\ LinksAgree
  /\ NodesAreAccountedFor
  /\ HistoryFits

\* and the part about the call whose loop is running.
CallInv ==
  /\ call.op \in {"none", "find", "get", "set", "destroy"}
  /\ call.op # "none" => call.list \in created
  /\ call.curr \in Pointer
  /\ call.idx \in Int
  /\ LoopIsInList

LEMMA Parts == IInv <=> HeapInv /\ CallInv
BY DEF IInv, HeapInv, CallInv, TypeOK, ListRecord, NodeRecord

LEMMA NullFacts == NULL \notin Nodes /\ NULL \in Pointer /\ NULL \in Value
BY DlistAssumption DEF Pointer, Value

-----------------------------------------------------------------------------
(* What the heap invariant says of one node *)

\* The i-th node of a list is allocated and points at its neighbours.
LEMMA NodeAt ==
  ASSUME HeapInv, NEW l \in created, NEW i \in 1..dl[l].count
  PROVE  /\ order[l][i] \in alive
         /\ order[l][i] \in Nodes
         /\ order[l][i] # NULL
         /\ node[order[l][i]].next = IF i = dl[l].count THEN NULL ELSE order[l][i + 1]
         /\ node[order[l][i]].prev = IF i = 1 THEN NULL ELSE order[l][i - 1]
<1>1. i \in DOMAIN order[l]
  BY DEF HeapInv, LinksAgree
<1>2. order[l][i] \in NodesOf(l)
  BY <1>1 DEF NodesOf
<1>3. order[l][i] \in alive
  BY <1>2 DEF HeapInv, NodesAreAccountedFor
<1> QED
  BY <1>3, NullFacts DEF HeapInv, LinksAgree

LEMMA PlaceIsUnique ==
  ASSUME HeapInv, NEW l \in created, NEW i \in 1..dl[l].count,
         NEW k \in created, NEW j \in 1..dl[k].count, order[l][i] = order[k][j]
  PROVE  l = k /\ i = j
<1>1. i \in DOMAIN order[l] /\ j \in DOMAIN order[k]
  BY DEF HeapInv, LinksAgree
<1> QED
  BY <1>1 DEF HeapInv, NodesAreAccountedFor

LEMMA PlaceExists ==
  ASSUME HeapInv, NEW n \in alive
  PROVE  \E l \in created : \E i \in 1..dl[l].count : order[l][i] = n
<1>1. PICK l \in created : n \in NodesOf(l)
  BY DEF HeapInv, NodesAreAccountedFor
<1>2. PICK i \in DOMAIN order[l] : order[l][i] = n
  BY <1>1 DEF NodesOf
<1> QED
  BY <1>2 DEF HeapInv, LinksAgree

\* The invariant for the nodes of all the lists after a step, from its pointwise form.
LEMMA AccountedNext ==
  ASSUME \A l \in created' : \A i \in DOMAIN order'[l] : order'[l][i] \in alive',
         \A n \in alive' : \E l \in created' : \E i \in DOMAIN order'[l] : order'[l][i] = n,
         \A l, k \in created' : \A i \in DOMAIN order'[l], j \in DOMAIN order'[k] :
           order'[l][i] = order'[k][j] => l = k /\ i = j
  PROVE  NodesAreAccountedFor'
<1> DEFINE Of(l) == {order'[l][i] : i \in DOMAIN order'[l]}
<1>1. ASSUME NEW n \in alive' PROVE n \in UNION {Of(l) : l \in created'}
  <2>1. PICK l \in created' : \E i \in DOMAIN order'[l] : order'[l][i] = n
    OBVIOUS
  <2>2. n \in Of(l)
    BY <2>1
  <2> QED
    BY <2>2
<1>2. ASSUME NEW n \in UNION {Of(l) : l \in created'} PROVE n \in alive'
  <2>1. PICK l \in created' : n \in Of(l)
    BY <1>2
  <2> QED
    BY <2>1
<1>3. alive' = UNION {Of(l) : l \in created'}
  BY <1>1, <1>2
<1> QED
  BY <1>3 DEF NodesAreAccountedFor, NodesOf

-----------------------------------------------------------------------------
(* A node is taken out of a list *)

LEMMA WithoutFacts ==
  ASSUME NEW s, NEW n \in Nat, DOMAIN s = 1..n, NEW k \in 1..n
  PROVE  /\ DOMAIN Without(s, k) = 1..(n - 1)
         /\ \A j \in 1..(n - 1) : Without(s, k)[j] = IF j < k THEN s[j] ELSE s[j + 1]
<1>1. Cardinality(DOMAIN s) = n
  BY FS_Interval
<1> QED
  BY <1>1 DEF Without

\* What the pops and dlist_find_remove do to list l and its k-th node.
TakesOut(l, k) ==
  /\ dl' = [dl EXCEPT ![l] =
              [head |-> IF @.head = order[l][k] THEN node[order[l][k]].next ELSE @.head,
               tail |-> IF @.tail = order[l][k] THEN node[order[l][k]].prev ELSE @.tail,
               count |-> @.count - 1]]
  /\ Free(Relink(order[l][k]), order[l][k])
  /\ order' = [order EXCEPT ![l] = Without(@, k)]
  /\ UNCHANGED created

\* The pointers after it: those to node n are moved past it.
LEMMA Relinked ==
  ASSUME HeapInv, NEW n \in Nodes, Free(Relink(n), n)
  PROVE  /\ node' \in [Nodes -> NodeRecord]
         /\ \A p \in Nodes \ {n} :
              /\ node'[p].next = IF p = node[n].prev THEN node[n].next ELSE node[p].next
              /\ node'[p].prev = IF p = node[n].next THEN node[n].prev ELSE node[p].prev
<1> DEFINE h == SetNext(node, node[n].prev, node[n].next)
<1>1. /\ node \in [Nodes -> NodeRecord]
      /\ node[n].prev \in Pointer
      /\ node[n].next \in Pointer
  BY DEF HeapInv, NodeRecord
<1>2. /\ h \in [Nodes -> NodeRecord]
      /\ \A p \in Nodes : /\ h[p].next = IF p = node[n].prev THEN node[n].next ELSE node[p].next
                          /\ h[p].prev = node[p].prev
  BY <1>1, NullFacts DEF SetNext, NodeRecord, Pointer
<1> DEFINE g == SetPrev(h, node[n].next, node[n].prev)
<1>3. /\ g \in [Nodes -> NodeRecord]
      /\ \A p \in Nodes : /\ g[p].prev = IF p = node[n].next THEN node[n].prev ELSE h[p].prev
                          /\ g[p].next = h[p].next
  <2> HIDE DEF h
  <2> QED
    BY <1>1, <1>2, NullFacts DEF SetPrev, NodeRecord, Pointer
<1>4. node' = [g EXCEPT ![n] = Freed(n)]
  BY DEF Free, Relink
<1>5. Freed(n) \in NodeRecord
  BY NullFacts DEF Freed, NodeRecord, Pointer
<1> HIDE DEF g, h
<1> QED
  BY <1>2, <1>3, <1>4, <1>5

LEMMA TakesOutKeeps ==
  ASSUME HeapInv, NEW l \in created, NEW k \in 1..dl[l].count, TakesOut(l, k)
  PROVE  HeapInv'
<1>1. PICK N \in Nat : N = dl[l].count
  BY DEF HeapInv, ListRecord
<1>2. PICK n \in Nodes : n = order[l][k]
  BY NodeAt
<1>3. /\ node' \in [Nodes -> NodeRecord]
      /\ \A p \in Nodes \ {n} :
           /\ node'[p].next = IF p = node[n].prev THEN node[n].next ELSE node[p].next
           /\ node'[p].prev = IF p = node[n].next THEN node[n].prev ELSE node[p].prev
  BY <1>2, Relinked DEF TakesOut
<1>4. /\ n \in alive
      /\ node[n].next = IF k = N THEN NULL ELSE order[l][k + 1]
      /\ node[n].prev = IF k = 1 THEN NULL ELSE order[l][k - 1]
  BY <1>1, <1>2, NodeAt
<1>5. alive' = alive \ {n} /\ created' = created
  BY <1>2 DEF TakesOut, Free
<1>6. /\ DOMAIN order' = Lists
      /\ \A q \in Lists \ {l} : order'[q] = order[q]
      /\ DOMAIN order'[l] = 1..(N - 1)
      /\ \A j \in 1..(N - 1) : order'[l][j] = IF j < k THEN order[l][j] ELSE order[l][j + 1]
  <2>1. order' = [order EXCEPT ![l] = Without(order[l], k)] /\ DOMAIN order = Lists /\ l \in Lists
    BY DEF TakesOut, HeapInv, HistoryFits
  <2>2. DOMAIN order[l] = 1..N
    BY <1>1 DEF HeapInv, LinksAgree
  <2>3. /\ DOMAIN Without(order[l], k) = 1..(N - 1)
        /\ \A j \in 1..(N - 1) :
             Without(order[l], k)[j] = IF j < k THEN order[l][j] ELSE order[l][j + 1]
    BY <1>1, <2>2, WithoutFacts
  <2> QED
    BY <2>1, <2>3
<1>7. /\ dl' \in [Lists -> ListRecord]
      /\ \A q \in Lists \ {l} : dl'[q] = dl[q]
      /\ dl'[l].count = N - 1
      /\ dl'[l].head = IF dl[l].head = n THEN node[n].next ELSE dl[l].head
      /\ dl'[l].tail = IF dl[l].tail = n THEN node[n].prev ELSE dl[l].tail
  <2>1. dl \in [Lists -> ListRecord] /\ l \in Lists
    BY DEF HeapInv
  <2>2. node[n].next \in Pointer /\ node[n].prev \in Pointer /\ N - 1 \in Nat
    BY <1>1 DEF HeapInv, NodeRecord
  <2> QED
    BY <1>1, <1>2, <2>1, <2>2 DEF TakesOut, ListRecord
<1>8. LinksAgree'
  <2> SUFFICES ASSUME NEW q \in created
               PROVE /\ DOMAIN order'[q] = 1..dl'[q].count
                     /\ dl'[q].count >= 0
                     /\ dl'[q].head = IF dl'[q].count = 0 THEN NULL ELSE order'[q][1]
                     /\ dl'[q].tail = IF dl'[q].count = 0 THEN NULL ELSE order'[q][dl'[q].count]
                     /\ \A i \in 1..dl'[q].count :
                          /\ node'[order'[q][i]].next =
                               IF i = dl'[q].count THEN NULL ELSE order'[q][i + 1]
                          /\ node'[order'[q][i]].prev = IF i = 1 THEN NULL ELSE order'[q][i - 1]
    BY <1>5 DEF LinksAgree
  <2>1. CASE q # l
    <3>1. dl'[q] = dl[q] /\ order'[q] = order[q] /\ q \in Lists
      BY <1>6, <1>7, <2>1 DEF HeapInv
    <3>2. ASSUME NEW i \in 1..dl[q].count
          PROVE  node'[order[q][i]].next = node[order[q][i]].next
                 /\ node'[order[q][i]].prev = node[order[q][i]].prev
      <4>1. order[q][i] \in Nodes \ {n}
        BY <1>1, <1>2, <2>1, NodeAt, PlaceIsUnique
      <4>2. ASSUME NEW j \in 1..N PROVE order[q][i] # order[l][j]
        BY <1>1, <2>1, PlaceIsUnique
      <4>3. order[q][i] # node[n].prev /\ order[q][i] # node[n].next
        BY <1>1, <1>4, <4>1, <4>2, NullFacts
      <4> QED
        BY <1>3, <4>1, <4>3
    <3>3. \A i \in 1..dl[q].count :
             /\ node[order[q][i]].next = IF i = dl[q].count THEN NULL ELSE order[q][i + 1]
             /\ node[order[q][i]].prev = IF i = 1 THEN NULL ELSE order[q][i - 1]
      BY NodeAt
    <3> QED
      BY <3>1, <3>2, <3>3 DEF HeapInv, LinksAgree
  <2>2. CASE q = l
    <3>1. \A j \in 1..N : /\ order[l][j] \in Nodes
                          /\ order[l][j] # NULL
                          /\ node[order[l][j]].next = IF j = N THEN NULL ELSE order[l][j + 1]
                          /\ node[order[l][j]].prev = IF j = 1 THEN NULL ELSE order[l][j - 1]
      BY <1>1, NodeAt
    <3>2. \A i, j \in 1..N : order[l][i] = order[l][j] => i = j
      BY <1>1, PlaceIsUnique
    <3>3. dl[l].head = order[l][1] /\ dl[l].tail = order[l][N] /\ k \in 1..N
      BY <1>1 DEF HeapInv, LinksAgree
    <3>4. dl'[l].head = IF N - 1 = 0 THEN NULL ELSE order'[l][1]
      BY <1>2, <1>4, <1>6, <1>7, <3>2, <3>3
    <3>5. dl'[l].tail = IF N - 1 = 0 THEN NULL ELSE order'[l][N - 1]
      BY <1>2, <1>4, <1>6, <1>7, <3>2, <3>3
    <3>6. ASSUME NEW i \in 1..(N - 1)
          PROVE  /\ node'[order'[l][i]].next = IF i = N - 1 THEN NULL ELSE order'[l][i + 1]
                 /\ node'[order'[l][i]].prev = IF i = 1 THEN NULL ELSE order'[l][i - 1]
      <4>1. PICK j \in 1..N : j = (IF i < k THEN i ELSE i + 1)
        BY <3>3
      <4>2. order'[l][i] = order[l][j] /\ j # k
        BY <1>6, <3>3, <4>1
      <4>3. order[l][j] \in Nodes \ {n}
        BY <1>2, <3>1, <3>2, <3>3, <4>2
      <4>4. order[l][j] = node[n].prev <=> j + 1 = k
        BY <1>4, <3>1, <3>2, <3>3
      <4>5. order[l][j] = node[n].next <=> j = k + 1
        BY <1>4, <3>1, <3>2, <3>3
      <4>6. node'[order[l][j]].next = IF j + 1 = k THEN node[n].next ELSE node[order[l][j]].next
        BY <1>3, <4>3, <4>4
      <4>7. node'[order[l][j]].prev = IF j = k + 1 THEN node[n].prev ELSE node[order[l][j]].prev
        BY <1>3, <4>3, <4>5
      <4>8. node'[order'[l][i]].next = IF i = N - 1 THEN NULL ELSE order'[l][i + 1]
        <5>1. CASE i + 1 < k
          BY <1>6, <3>1, <3>3, <4>1, <4>2, <4>6, <5>1
        <5>2. CASE i + 1 = k
          BY <1>4, <1>6, <3>3, <4>1, <4>2, <4>6, <5>2
        <5>3. CASE i >= k
          BY <1>6, <3>1, <3>3, <4>1, <4>2, <4>6, <5>3
        <5> QED
          BY <3>3, <5>1, <5>2, <5>3
      <4>9. node'[order'[l][i]].prev = IF i = 1 THEN NULL ELSE order'[l][i - 1]
        <5>1. CASE i < k
          BY <1>6, <3>1, <3>3, <4>1, <4>2, <4>7, <5>1
        <5>2. CASE i = k
          BY <1>4, <1>6, <3>3, <4>1, <4>2, <4>7, <5>2
        <5>3. CASE i > k
          <6>1. j = i + 1 /\ ~(j = k + 1) /\ j # 1 /\ ~(i - 1 < k) /\ (i - 1) + 1 = i /\ i # 1
            BY <3>3, <4>1, <5>3
          <6>2. i - 1 \in 1..(N - 1)
            BY <3>3, <5>3
          <6>3. order'[l][i - 1] = order[l][i]
            BY <1>6, <6>1, <6>2
          <6>4. node[order[l][j]].prev = order[l][j - 1] /\ j - 1 = i
            BY <3>1, <6>1
          <6> QED
            BY <4>2, <4>7, <6>1, <6>3, <6>4
        <5> QED
          BY <3>3, <5>1, <5>2, <5>3
      <4> QED
        BY <4>8, <4>9
    <3>7. N - 1 >= 0
      BY <3>3
    <3> QED
      BY <1>6, <1>7, <2>2, <3>4, <3>5, <3>6, <3>7
  <2> QED
    BY <2>1, <2>2
<1>9. NodesAreAccountedFor'
  <2>1. \A q \in created : DOMAIN order[q] = 1..dl[q].count
    BY DEF HeapInv, LinksAgree
  <2>2. \A q \in created \ {l} : order'[q] = order[q]
    BY <1>6 DEF HeapInv
  <2>3. ASSUME NEW q \in created, NEW i \in DOMAIN order'[q]
        PROVE  \E j \in 1..dl[q].count :
                 /\ order'[q][i] = order[q][j]
                 /\ q # l => j = i
                 /\ q = l => j # k /\ j = (IF i < k THEN i ELSE i + 1)
    <3>1. CASE q # l
      BY <2>1, <2>2, <3>1
    <3>2. CASE q = l
      <4>1. i \in 1..(N - 1) /\ k \in 1..N
        BY <1>1, <1>6, <3>2
      <4>2. (IF i < k THEN i ELSE i + 1) \in 1..N
        BY <4>1
      <4> QED
        BY <1>1, <1>6, <3>2, <4>1, <4>2
    <3> QED
      BY <3>1, <3>2
  <2>4. ASSUME NEW q \in created, NEW i \in DOMAIN order'[q] PROVE order'[q][i] \in alive'
    <3>1. PICK j \in 1..dl[q].count : order'[q][i] = order[q][j] /\ (q = l => j # k)
      BY <2>3
    <3>2. order[q][j] \in alive
      BY NodeAt
    <3>3. order[q][j] # n
      BY <1>2, <3>1, PlaceIsUnique
    <3> QED
      BY <1>5, <3>1, <3>2, <3>3
  <2>5. ASSUME NEW p \in alive' PROVE \E q \in created : \E i \in DOMAIN order'[q] : order'[q][i] = p
    <3>1. p \in alive /\ p # n
      BY <1>5
    <3>2. PICK q \in created : \E i \in 1..dl[q].count : order[q][i] = p
      BY <3>1, PlaceExists
    <3>3. PICK i \in 1..dl[q].count : order[q][i] = p
      BY <3>2
    <3>4. CASE q # l
      BY <2>1, <2>2, <3>3, <3>4
    <3>5. CASE q = l
      <4>1. i # k /\ i \in 1..N /\ k \in 1..N
        BY <1>1, <1>2, <3>1, <3>3, <3>5
      <4>2. CASE i < k
        <5>1. i \in 1..(N - 1)
          BY <4>1, <4>2
        <5> QED
          BY <1>6, <3>3, <3>5, <4>2, <5>1
      <4>3. CASE i > k
        <5>1. i - 1 \in 1..(N - 1) /\ ~(i - 1 < k) /\ (i - 1) + 1 = i
          BY <4>1, <4>3
        <5> QED
          BY <1>6, <3>3, <3>5, <5>1
      <4> QED
        BY <4>1, <4>2, <4>3
    <3> QED
      BY <3>4, <3>5
  <2>6. ASSUME NEW q \in created, NEW r \in created,
               NEW i \in DOMAIN order'[q], NEW j \in DOMAIN order'[r],
               order'[q][i] = order'[r][j]
        PROVE  q = r /\ i = j
    <3>1. PICK a \in 1..dl[q].count :
             /\ order'[q][i] = order[q][a]
             /\ q # l => a = i
             /\ q = l => a = (IF i < k THEN i ELSE i + 1)
      BY <2>3
    <3>2. PICK b \in 1..dl[r].count :
             /\ order'[r][j] = order[r][b]
             /\ r # l => b = j
             /\ r = l => b = (IF j < k THEN j ELSE j + 1)
      BY <2>3
    <3>3. q = r /\ a = b
      <4>1. order[q][a] = order[r][b]
        BY <2>6, <3>1, <3>2
      <4> QED
        BY <4>1, PlaceIsUnique
    <3>4. q = l => i \in Nat /\ j \in Nat
      BY <1>6, <3>3
    <3> QED
      BY <3>1, <3>2, <3>3, <3>4, <1>1
  <2>7. /\ \A q \in created' : \A i \in DOMAIN order'[q] : order'[q][i] \in alive'
        /\ \A p \in alive' : \E q \in created' : \E i \in DOMAIN order'[q] : order'[q][i] = p
        /\ \A q, r \in created' : \A i \in DOMAIN order'[q], j \in DOMAIN order'[r] :
             order'[q][i] = order'[r][j] => q = r /\ i = j
    BY <1>5, <2>4, <2>5, <2>6
  <2> QED
    BY <2>7, AccountedNext
<1>10. HistoryFits'
  BY <1>5, <1>6 DEF HistoryFits, HeapInv
<1> QED
  BY <1>3, <1>5, <1>7, <1>8, <1>9, <1>10 DEF HeapInv

-----------------------------------------------------------------------------
(* The pops and the removal take one node out *)

LEMMA PopLeftTakesOut ==
  ASSUME HeapInv, NEW l \in created, NEW op, PopLeft(l, op), UNCHANGED created
  PROVE  /\ HeapInv'
         /\ TakesOut(l, 1)
         /\ 1 \in 1..dl[l].count
         /\ dl[l].head = order[l][1]
<1>1. dl \in [Lists -> ListRecord] /\ node \in [Nodes -> NodeRecord] /\ l \in Lists /\ dl[l].count \in Nat
  BY DEF HeapInv, ListRecord
<1>2. dl[l].count # 0 /\ 1 \in 1..dl[l].count /\ dl[l].head = order[l][1] /\ dl[l].tail = order[l][dl[l].count]
  BY <1>1 DEF PopLeft, dlist_empty, HeapInv, LinksAgree
<1>3. PICK n \in Nodes : n = order[l][1]
  BY <1>2, NodeAt
<1>4. node[n].prev = NULL /\ node[n].next = (IF 1 = dl[l].count THEN NULL ELSE order[l][2])
  BY <1>2, <1>3, NodeAt
<1>5. Relink(n) = UnlinkLeft(l)
  BY <1>2, <1>3, <1>4 DEF Relink, UnlinkLeft, SetNext
<1>6. node[n].next = NULL <=> dl[l].tail = n
  <2>1. CASE dl[l].count = 1
    BY <1>2, <1>3, <1>4, <2>1
  <2>2. CASE dl[l].count # 1
    <3>1. 2 \in 1..dl[l].count /\ dl[l].count \in 1..dl[l].count
      BY <1>1, <1>2, <2>2
    <3>2. order[l][2] # NULL
      BY <3>1, NodeAt
    <3>3. order[l][1] # order[l][dl[l].count]
      BY <1>2, <2>2, <3>1, PlaceIsUnique
    <3> QED
      BY <1>2, <1>3, <1>4, <2>2, <3>2, <3>3
  <2> QED
    BY <2>1, <2>2
<1>7. TakesOut(l, 1)
  BY <1>1, <1>2, <1>3, <1>4, <1>5, <1>6 DEF TakesOut, PopLeft, LeftPopped
<1> QED
  BY <1>2, <1>7, TakesOutKeeps

LEMMA PopRightTakesOut ==
  ASSUME HeapInv, NEW l \in created, NEW op, PopRight(l, op), UNCHANGED created
  PROVE  /\ HeapInv'
         /\ TakesOut(l, dl[l].count)
         /\ dl[l].count \in 1..dl[l].count
         /\ dl[l].tail = order[l][dl[l].count]
<1>1. dl \in [Lists -> ListRecord] /\ node \in [Nodes -> NodeRecord] /\ l \in Lists /\ dl[l].count \in Nat
  BY DEF HeapInv, ListRecord
<1>2. PICK N \in Nat : N = dl[l].count
  BY <1>1
<1>3. N # 0 /\ 1 \in 1..N /\ N \in 1..N /\ dl[l].head = order[l][1] /\ dl[l].tail = order[l][N]
  BY <1>1, <1>2, NullFacts DEF PopRight, dlist_empty, HeapInv, LinksAgree
<1>4. PICK n \in Nodes : n = order[l][N]
  BY <1>2, <1>3, NodeAt
<1>5. node[n].next = NULL /\ node[n].prev = (IF N = 1 THEN NULL ELSE order[l][N - 1])
  BY <1>2, <1>3, <1>4, NodeAt
<1>6. Relink(n) = UnlinkRight(l)
  BY <1>3, <1>4, <1>5 DEF Relink, UnlinkRight, SetPrev
<1>7. node[n].prev = NULL <=> dl[l].head = n
  <2>1. CASE N = 1
    BY <1>3, <1>4, <1>5, <2>1
  <2>2. CASE N # 1
    <3>1. N - 1 \in 1..N
      BY <1>3, <2>2
    <3>2. order[l][N - 1] # NULL
      BY <1>2, <3>1, NodeAt
    <3>3. order[l][1] # order[l][N]
      BY <1>2, <1>3, <2>2, PlaceIsUnique
    <3> QED
      BY <1>3, <1>4, <1>5, <2>2, <3>2, <3>3
  <2> QED
    BY <2>1, <2>2
<1>8. TakesOut(l, N)
  BY <1>1, <1>2, <1>3, <1>4, <1>5, <1>6, <1>7 DEF TakesOut, PopRight, RightPopped
<1> QED
  BY <1>2, <1>3, <1>8, TakesOutKeeps

LEMMA FindRemoveTakesOut ==
  ASSUME HeapInv, CallInv, FindRemove
  PROVE  /\ HeapInv'
         /\ TakesOut(call.list, call.pos)
         /\ call.pos \in 1..dl[call.list].count
         /\ order[call.list][call.pos] = call.curr
<1>1. call.list \in created /\ call.pos \in DOMAIN order[call.list] /\ order[call.list][call.pos] = call.curr
  BY NullFacts DEF FindRemove, CallInv, LoopIsInList
<1>2. call.pos \in 1..dl[call.list].count
  BY <1>1 DEF HeapInv, LinksAgree
<1>3. TakesOut(call.list, call.pos)
  BY <1>1 DEF FindRemove, TakesOut
<1> QED
  BY <1>1, <1>2, <1>3, TakesOutKeeps

-----------------------------------------------------------------------------
(* dlist_push_right *)

LEMMA PushKeeps ==
  ASSUME HeapInv, NEW l \in Lists, NEW n \in Nodes, NEW d \in Value, dlist_push_right(l, n, d)
  PROVE  HeapInv'
<1>1. l \in created /\ n \in Nodes \ alive /\ alive' = alive \cup {n} /\ created' = created
  BY DEF dlist_push_right
<1>2. PICK N \in Nat : N = dl[l].count
  BY DEF HeapInv, ListRecord
<1>3. dl \in [Lists -> ListRecord] /\ node \in [Nodes -> NodeRecord] /\ dl[l].tail \in Pointer
  BY DEF HeapInv, ListRecord
<1>4. /\ \A q \in created : DOMAIN order[q] = 1..dl[q].count
      /\ dl[l].head = IF N = 0 THEN NULL ELSE order[l][1]
      /\ dl[l].tail = IF N = 0 THEN NULL ELSE order[l][N]
  BY <1>1, <1>2 DEF HeapInv, LinksAgree
<1>5. \A q \in created : \A i \in 1..dl[q].count : order[q][i] \in Nodes \ {n, NULL}
  BY <1>1, NodeAt
<1>6. /\ node' \in [Nodes -> NodeRecord]
      /\ node'[n].prev = dl[l].tail /\ node'[n].next = NULL
      /\ \A p \in Nodes \ {n} : /\ node'[p].prev = node[p].prev
                                /\ node'[p].next = IF p = dl[l].tail THEN n ELSE node[p].next
  <2> DEFINE h == [node EXCEPT ![n] = [prev |-> dl[l].tail, next |-> NULL, data |-> d]]
  <2>1. /\ h \in [Nodes -> NodeRecord]
        /\ h[n].prev = dl[l].tail /\ h[n].next = NULL
        /\ \A p \in Nodes \ {n} : h[p] = node[p]
    BY <1>3, NullFacts DEF NodeRecord
  <2>2. node' = SetNext(h, dl[l].tail, n)
    BY DEF dlist_push_right
  <2>3. dl[l].tail # n
    <3>1. CASE N = 0
      BY <1>4, <3>1, NullFacts
    <3>2. CASE N # 0
      <4>1. N \in 1..dl[l].count
        BY <1>2, <3>2
      <4> QED
        BY <1>1, <1>4, <1>5, <3>2, <4>1
    <3> QED
      BY <3>1, <3>2
  <2> HIDE DEF h
  <2>4. CASE dl[l].tail = NULL
    BY <2>1, <2>2, <2>4, NullFacts DEF SetNext
  <2>5. CASE dl[l].tail # NULL
    <3>1. dl[l].tail \in Nodes /\ n \in Pointer
      BY <1>3, <2>5 DEF Pointer
    <3>2. node' = [h EXCEPT ![dl[l].tail].next = n]
      BY <2>2, <2>5 DEF SetNext
    <3> QED
      BY <2>1, <2>3, <3>1, <3>2 DEF NodeRecord
  <2> QED
    BY <2>4, <2>5
<1>7. /\ DOMAIN order' = Lists
      /\ \A q \in Lists \ {l} : order'[q] = order[q]
      /\ DOMAIN order'[l] = 1..(N + 1)
      /\ order'[l][N + 1] = n
      /\ \A j \in 1..N : order'[l][j] = order[l][j]
  <2>1. DOMAIN order = Lists
    BY DEF HeapInv, HistoryFits
  <2>2. order' = [order EXCEPT ![l] = [i \in 1..(N + 1) |-> IF i = N + 1 THEN n ELSE order[l][i]]]
    BY <1>2 DEF dlist_push_right
  <2> QED
    BY <2>1, <2>2
<1>8. /\ dl' \in [Lists -> ListRecord]
      /\ \A q \in Lists \ {l} : dl'[q] = dl[q]
      /\ dl'[l].count = N + 1
      /\ dl'[l].head = IF N = 0 THEN n ELSE order[l][1]
      /\ dl'[l].tail = n
  <2>1. dl' = [dl EXCEPT ![l] = Pushed(dl[l], n)]
    BY DEF dlist_push_right
  <2>2. Pushed(dl[l], n) \in ListRecord
    BY <1>3 DEF Pushed, ListRecord, Pointer
  <2>3. N # 0 => order[l][1] # NULL
    BY <1>1, <1>2, <1>5
  <2> QED
    BY <1>2, <1>3, <1>4, <2>1, <2>2, <2>3 DEF Pushed
<1>9. LinksAgree'
  <2> SUFFICES ASSUME NEW q \in created
               PROVE /\ DOMAIN order'[q] = 1..dl'[q].count
                     /\ dl'[q].count >= 0
                     /\ dl'[q].head = IF dl'[q].count = 0 THEN NULL ELSE order'[q][1]
                     /\ dl'[q].tail = IF dl'[q].count = 0 THEN NULL ELSE order'[q][dl'[q].count]
                     /\ \A i \in 1..dl'[q].count :
                          /\ node'[order'[q][i]].next =
                               IF i = dl'[q].count THEN NULL ELSE order'[q][i + 1]
                          /\ node'[order'[q][i]].prev = IF i = 1 THEN NULL ELSE order'[q][i - 1]
    BY <1>1 DEF LinksAgree
  <2>1. CASE q # l
    <3>1. dl'[q] = dl[q] /\ order'[q] = order[q]
      BY <1>7, <1>8, <2>1 DEF HeapInv
    <3>2. ASSUME NEW i \in 1..dl[q].count
          PROVE  node'[order[q][i]].next = node[order[q][i]].next
                 /\ node'[order[q][i]].prev = node[order[q][i]].prev
      <4>1. order[q][i] # dl[l].tail
        <5>1. CASE N = 0
          BY <1>4, <1>5, <5>1
        <5>2. CASE N # 0
          <6>1. N \in 1..dl[l].count
            BY <1>2, <5>2
          <6> QED
            BY <1>1, <1>4, <2>1, <5>2, <6>1, PlaceIsUnique
        <5> QED
          BY <5>1, <5>2
      <4> QED
        BY <1>5, <1>6, <4>1
    <3>3. \A i \in 1..dl[q].count :
             /\ node[order[q][i]].next = IF i = dl[q].count THEN NULL ELSE order[q][i + 1]
             /\ node[order[q][i]].prev = IF i = 1 THEN NULL ELSE order[q][i - 1]
      BY NodeAt
    <3> QED
      BY <3>1, <3>2, <3>3 DEF HeapInv, LinksAgree
  <2>2. CASE q = l
    <3>1. \A j \in 1..N : /\ order[l][j] \in Nodes \ {n, NULL}
                          /\ node[order[l][j]].next = IF j = N THEN NULL ELSE order[l][j + 1]
                          /\ node[order[l][j]].prev = IF j = 1 THEN NULL ELSE order[l][j - 1]
      BY <1>1, <1>2, <1>5, NodeAt
    <3>2. \A i, j \in 1..N : order[l][i] = order[l][j] => i = j
      BY <1>1, <1>2, PlaceIsUnique
    <3>3. ASSUME NEW i \in 1..(N + 1)
          PROVE  /\ node'[order'[l][i]].next = IF i = N + 1 THEN NULL ELSE order'[l][i + 1]
                 /\ node'[order'[l][i]].prev = IF i = 1 THEN NULL ELSE order'[l][i - 1]
      <4>1. CASE i = N + 1
        BY <1>4, <1>6, <1>7, <4>1
      <4>2. CASE i # N + 1
        <5>1. i \in 1..N /\ (i # N => i + 1 \in 1..N) /\ (i # 1 => i - 1 \in 1..N) /\ N # 0 /\ N \in 1..N
          BY <4>2
        <5>2. order'[l][i] = order[l][i] /\ order[l][i] \in Nodes \ {n}
          BY <1>7, <3>1, <5>1
        <5>3. order[l][i] = dl[l].tail <=> i = N
          BY <1>4, <3>2, <5>1
        <5>4. node'[order[l][i]].next = IF i = N THEN n ELSE order[l][i + 1]
          BY <1>6, <3>1, <5>1, <5>2, <5>3
        <5>5. node'[order[l][i]].prev = IF i = 1 THEN NULL ELSE order[l][i - 1]
          BY <1>6, <3>1, <5>1, <5>2
        <5> QED
          BY <1>7, <4>2, <5>1, <5>2, <5>4, <5>5
      <4> QED
        BY <4>1, <4>2
    <3>4. dl'[l].head = order'[l][1] /\ dl'[l].tail = order'[l][N + 1]
      BY <1>7, <1>8
    <3>5. N + 1 >= 0 /\ N + 1 # 0
      OBVIOUS
    <3> QED
      BY <1>7, <1>8, <2>2, <3>3, <3>4, <3>5
  <2> QED
    BY <2>1, <2>2
<1>10. NodesAreAccountedFor'
  <2>1. \A q \in created \ {l} : order'[q] = order[q]
    BY <1>7 DEF HeapInv
  <2>2. ASSUME NEW q \in created, NEW i \in DOMAIN order'[q]
        PROVE  \/ q = l /\ i = N + 1 /\ order'[q][i] = n
               \/ i \in 1..dl[q].count /\ order'[q][i] = order[q][i]
    <3>1. CASE q # l
      BY <1>4, <2>1, <3>1
    <3>2. CASE q = l
      BY <1>2, <1>7, <3>2
    <3> QED
      BY <3>1, <3>2
  <2>3. ASSUME NEW q \in created, NEW i \in 1..dl[q].count
        PROVE  i \in DOMAIN order'[q] /\ order'[q][i] = order[q][i]
    <3>1. CASE q # l
      BY <1>4, <2>1, <3>1
    <3>2. CASE q = l
      BY <1>2, <1>7, <3>2
    <3> QED
      BY <3>1, <3>2
  <2>4. ASSUME NEW q \in created, NEW i \in DOMAIN order'[q] PROVE order'[q][i] \in alive'
    BY <1>1, <2>2, NodeAt
  <2>5. ASSUME NEW p \in alive' PROVE \E q \in created : \E i \in DOMAIN order'[q] : order'[q][i] = p
    <3>1. CASE p = n
      <4>1. N + 1 \in DOMAIN order'[l] /\ order'[l][N + 1] = p
        BY <1>7, <3>1
      <4> QED
        BY <1>1, <4>1
    <3>2. CASE p # n
      <4>1. p \in alive
        BY <1>1, <3>2
      <4>2. PICK q \in created : \E i \in 1..dl[q].count : order[q][i] = p
        BY <4>1, PlaceExists
      <4> QED
        BY <2>3, <4>2
    <3> QED
      BY <3>1, <3>2
  <2>6. ASSUME NEW q \in created, NEW r \in created,
               NEW i \in DOMAIN order'[q], NEW j \in DOMAIN order'[r],
               order'[q][i] = order'[r][j]
        PROVE  q = r /\ i = j
    <3>1. CASE order'[q][i] = n
      <4>1. ~(i \in 1..dl[q].count /\ order'[q][i] = order[q][i])
        BY <1>5, <3>1
      <4>2. ~(j \in 1..dl[r].count /\ order'[r][j] = order[r][j])
        BY <1>5, <2>6, <3>1
      <4>3. q = l /\ i = N + 1 /\ r = l /\ j = N + 1
        BY <2>2, <4>1, <4>2
      <4> QED
        BY <4>3
    <3>2. CASE order'[q][i] # n
      <4>1. i \in 1..dl[q].count /\ j \in 1..dl[r].count /\ order[q][i] = order[r][j]
        BY <2>2, <2>6, <3>2
      <4> QED
        BY <4>1, PlaceIsUnique
    <3> QED
      BY <3>1, <3>2
  <2>7. /\ \A q \in created' : \A i \in DOMAIN order'[q] : order'[q][i] \in alive'
        /\ \A p \in alive' : \E q \in created' : \E i \in DOMAIN order'[q] : order'[q][i] = p
        /\ \A q, r \in created' : \A i \in DOMAIN order'[q], j \in DOMAIN order'[r] :
             order'[q][i] = order'[r][j] => q = r /\ i = j
    BY <1>1, <2>4, <2>5, <2>6
  <2> QED
    BY <2>7, AccountedNext
<1>11. HistoryFits'
  BY <1>1, <1>7 DEF HistoryFits, HeapInv
<1>12. alive' \subseteq Nodes
  BY <1>1 DEF HeapInv
<1> QED
  BY <1>1, <1>6, <1>8, <1>9, <1>10, <1>11, <1>12 DEF HeapInv

-----------------------------------------------------------------------------
(* The other steps *)

\* A new list is empty.
LEMMA CreateKeeps ==
  ASSUME HeapInv, NEW l \in Lists, dlist_create(l)
  PROVE  HeapInv'
<1>1. /\ l \in Lists \ created
      /\ created' = created \cup {l}
      /\ dl' = [dl EXCEPT ![l] = [head |-> NULL, tail |-> NULL, count |-> 0]]
      /\ node' = node /\ alive' = alive /\ order' = order
      /\ DOMAIN order[l] = {}
  BY DEF dlist_create, HeapInv, HistoryFits
<1>2. /\ dl' \in [Lists -> ListRecord]
      /\ dl'[l] = [head |-> NULL, tail |-> NULL, count |-> 0]
      /\ \A q \in created : dl'[q] = dl[q]
  BY <1>1, NullFacts DEF HeapInv, ListRecord
<1>3. LinksAgree'
  <2> SUFFICES ASSUME NEW q \in created'
               PROVE /\ DOMAIN order'[q] = 1..dl'[q].count
                     /\ dl'[q].count >= 0
                     /\ dl'[q].head = IF dl'[q].count = 0 THEN NULL ELSE order'[q][1]
                     /\ dl'[q].tail = IF dl'[q].count = 0 THEN NULL ELSE order'[q][dl'[q].count]
                     /\ \A i \in 1..dl'[q].count :
                          /\ node'[order'[q][i]].next =
                               IF i = dl'[q].count THEN NULL ELSE order'[q][i + 1]
                          /\ node'[order'[q][i]].prev = IF i = 1 THEN NULL ELSE order'[q][i - 1]
    BY DEF LinksAgree
  <2>1. CASE q = l
    BY <1>1, <1>2, <2>1
  <2>2. CASE q # l
    BY <1>1, <1>2, <2>2 DEF HeapInv, LinksAgree
  <2> QED
    BY <2>1, <2>2
<1>4. NodesAreAccountedFor'
  <2>1. \A q \in created' : q \in created \/ DOMAIN order'[q] = {}
    BY <1>1
  <2>2. \A q \in created : DOMAIN order[q] = 1..dl[q].count
    BY DEF HeapInv, LinksAgree
  <2>3. \A q \in created' : \A i \in DOMAIN order'[q] : order'[q][i] \in alive'
    <3>1. \A q \in created : \A i \in 1..dl[q].count : order[q][i] \in alive
      BY NodeAt
    <3> QED
      BY <1>1, <2>1, <2>2, <3>1
  <2>4. \A p \in alive' : \E q \in created' : \E i \in DOMAIN order'[q] : order'[q][i] = p
    BY <1>1, <2>2, PlaceExists
  <2>5. \A q, r \in created' : \A i \in DOMAIN order'[q], j \in DOMAIN order'[r] :
          order'[q][i] = order'[r][j] => q = r /\ i = j
    BY <1>1, <2>1 DEF HeapInv, NodesAreAccountedFor
  <2> QED
    BY <2>3, <2>4, <2>5, AccountedNext
<1>5. HistoryFits'
  BY <1>1 DEF HeapInv, HistoryFits
<1>6. created' \subseteq Lists
  BY <1>1 DEF HeapInv
<1> QED
  BY <1>1, <1>2, <1>3, <1>4, <1>5, <1>6 DEF HeapInv

\* A list is freed only when it holds no node.
LEMMA DestroyKeeps ==
  ASSUME HeapInv, CallInv, DestroyEnds
  PROVE  HeapInv'
<1>1. PICK l \in created : l = call.list
  BY DEF CallInv, DestroyEnds
<1>2. created' = created \ {l} /\ dl' = dl /\ node' = node /\ alive' = alive /\ order' = order
  BY <1>1 DEF DestroyEnds
<1>3. dl[l].count = 0
  <2>1. dl[l].head = NULL
    BY <1>1 DEF DestroyEnds, LoopEnds, dlist_empty
  <2>2. dl[l].count # 0 => 1 \in 1..dl[l].count /\ dl[l].head = order[l][1]
    BY DEF HeapInv, LinksAgree, ListRecord
  <2> QED
    BY <2>1, <2>2, NodeAt
<1>4. DOMAIN order[l] = {}
  BY <1>3 DEF HeapInv, LinksAgree
<1>5. NodesAreAccountedFor'
  <2>1. \A q \in created : DOMAIN order[q] = 1..dl[q].count
    BY DEF HeapInv, LinksAgree
  <2>2. \A q \in created' : \A i \in DOMAIN order'[q] : order'[q][i] \in alive'
    <3>1. \A q \in created : \A i \in 1..dl[q].count : order[q][i] \in alive
      BY NodeAt
    <3> QED
      BY <1>2, <2>1, <3>1
  <2>3. ASSUME NEW p \in alive' PROVE \E q \in created' : \E i \in DOMAIN order'[q] : order'[q][i] = p
    <3>1. PICK q \in created : \E i \in 1..dl[q].count : order[q][i] = p
      BY <1>2, PlaceExists
    <3>2. q # l
      BY <1>3, <3>1
    <3> QED
      BY <1>2, <2>1, <3>1, <3>2
  <2>4. \A q, r \in created' : \A i \in DOMAIN order'[q], j \in DOMAIN order'[r] :
          order'[q][i] = order'[r][j] => q = r /\ i = j
    BY <1>2 DEF HeapInv, NodesAreAccountedFor
  <2> QED
    BY <2>2, <2>3, <2>4, AccountedNext
<1>6. LinksAgree' /\ HistoryFits' /\ created' \subseteq Lists
  BY <1>2, <1>4 DEF HeapInv, LinksAgree, HistoryFits
<1> QED
  BY <1>2, <1>5, <1>6 DEF HeapInv

\* dlist_set_index changes no pointer.
LEMMA IndexEndsKeeps ==
  ASSUME HeapInv, CallInv, IndexEnds
  PROVE  HeapInv'
<1>1. dl' = dl /\ created' = created /\ alive' = alive /\ order' = order
  BY DEF IndexEnds
<1>2. /\ node' \in [Nodes -> NodeRecord]
      /\ \A p \in Nodes : node'[p].next = node[p].next /\ node'[p].prev = node[p].prev
  <2>1. node \in [Nodes -> NodeRecord]
    BY DEF HeapInv
  <2>2. CASE node' = node
    BY <2>1, <2>2
  <2>3. CASE node' # node
    <3>1. call.op = "set" /\ call.curr # NULL /\ node' = [node EXCEPT ![call.curr].data = call.arg[2]]
      BY <2>3 DEF IndexEnds
    <3>2. call.curr \in Nodes /\ call.arg[2] \in Value
      BY <3>1 DEF CallInv, LoopIsInList, Pointer
    <3> QED
      BY <2>1, <3>1, <3>2 DEF NodeRecord
  <2> QED
    BY <2>2, <2>3
<1>3. LinksAgree'
  <2>1. \A q \in created : \A i \in 1..dl[q].count : order[q][i] \in Nodes
    BY NodeAt
  <2> QED
    BY <1>1, <1>2, <2>1 DEF HeapInv, LinksAgree
<1>4. NodesAreAccountedFor' /\ HistoryFits'
  BY <1>1 DEF HeapInv, NodesAreAccountedFor, NodesOf, HistoryFits
<1> QED
  BY <1>1, <1>2, <1>3, <1>4 DEF HeapInv

LEMMA HeapUnchanged ==
  ASSUME HeapInv, UNCHANGED <<dl, created, node, alive, order>>
  PROVE  HeapInv'
BY DEF HeapInv, LinksAgree, NodesAreAccountedFor, NodesOf, HistoryFits

-----------------------------------------------------------------------------
(* The call whose loop is running *)

LEMMA NoCallIsFine == call' = NoCall => CallInv'
BY NullFacts DEF CallInv, LoopIsInList, NoCall

\* A loop starts at a place of the list that it knows.
LEMMA StartKeeps ==
  ASSUME HeapInv, NEW l \in created, NEW op \in {"find", "get", "set"},
         NEW n \in Pointer, NEW idx \in Int, NEW arg, NEW pos \in Int,
         op = "set" => arg[2] \in Value,
         n = IF pos \in DOMAIN order[l] THEN order[l][pos] ELSE NULL,
         call' = [op |-> op, list |-> l, curr |-> n, idx |-> idx, arg |-> arg, pos |-> pos],
         UNCHANGED <<dl, created, node, alive, order>>
  PROVE  HeapInv' /\ CallInv'
<1>1. DOMAIN call' = DOMAIN NoCall
  BY DEF NoCall
<1>2. CallInv'
  BY <1>1 DEF CallInv, LoopIsInList
<1> QED
  BY <1>2, HeapUnchanged

\* The ends of a list are its first and its last place.
LEMMA Ends ==
  ASSUME HeapInv, NEW l \in created
  PROVE  /\ dl[l].head \in Pointer /\ dl[l].tail \in Pointer /\ dl[l].count \in Int
         /\ dl[l].head = IF 1 \in DOMAIN order[l] THEN order[l][1] ELSE NULL
         /\ dl[l].tail = IF dl[l].count \in DOMAIN order[l] THEN order[l][dl[l].count] ELSE NULL
<1>1. dl[l] \in ListRecord
  BY DEF HeapInv
<1> QED
  BY <1>1 DEF HeapInv, LinksAgree, ListRecord

LEMMA EndStarts ==
  ASSUME HeapInv, NEW l \in Lists, NEW op \in {"find", "get", "set"}, NEW idx \in Int, NEW arg,
         op = "set" => arg[2] \in Value,
         \/ Start(op, l, dl[l].head, idx, arg, 1)
         \/ Start(op, l, dl[l].tail, idx, arg, dl[l].count)
  PROVE  HeapInv' /\ CallInv'
<1>1. l \in created /\ UNCHANGED <<dl, created, node, alive, order>>
  BY DEF Start
<1>2. PICK n \in Pointer, pos \in Int :
        /\ n = IF pos \in DOMAIN order[l] THEN order[l][pos] ELSE NULL
        /\ call' = [op |-> op, list |-> l, curr |-> n, idx |-> idx, arg |-> arg, pos |-> pos]
  BY <1>1, Ends DEF Start
<1> QED
  BY <1>1, <1>2, StartKeeps

LEMMA LoopStarts ==
  ASSUME HeapInv, NEW l \in Lists, NEW op \in {"find", "get"}, NEW idx \in Int, NEW arg,
         \/ Start(op, l, dl[l].head, idx, arg, 1)
         \/ Start(op, l, dl[l].tail, idx, arg, dl[l].count)
  PROVE  HeapInv' /\ CallInv'
<1>1. op # "set" /\ op \in {"find", "get", "set"}
  OBVIOUS
<1> QED
  BY <1>1, EndStarts

LEMMA SetStarts ==
  ASSUME HeapInv, NEW l \in Lists, NEW idx \in Int, NEW d \in Value,
         \/ Start("set", l, dl[l].head, idx, <<idx, d>>, 1)
         \/ Start("set", l, dl[l].tail, idx, <<idx, d>>, dl[l].count)
  PROVE  HeapInv' /\ CallInv'
<1>1. PICK arg : arg = <<idx, d>>
  OBVIOUS
<1>2. "set" \in {"find", "get", "set"} /\ arg[2] \in Value
  BY <1>1
<1>3. \/ Start("set", l, dl[l].head, idx, arg, 1)
      \/ Start("set", l, dl[l].tail, idx, arg, dl[l].count)
  BY <1>1
<1> QED
  BY <1>2, <1>3, EndStarts

LEMMA DestroyStarts ==
  ASSUME HeapInv, NEW l \in Lists, NEW end, Start("destroy", l, NULL, 0, end, 0)
  PROVE  HeapInv' /\ CallInv'
<1>1. /\ l \in created
      /\ call' = [op |-> "destroy", list |-> l, curr |-> NULL, idx |-> 0, arg |-> end, pos |-> 0]
      /\ UNCHANGED <<dl, created, node, alive, order>>
  BY DEF Start
<1>2. CallInv'
  BY <1>1, NullFacts DEF CallInv, LoopIsInList, NoCall
<1> QED
  BY <1>1, <1>2, HeapUnchanged

\* A loop follows a pointer of its node to the neighbour in the list.
LEMMA GotoKeeps ==
  ASSUME HeapInv, CallInv, call.op \in {"find", "get", "set"}, call.curr # NULL,
         NEW idx \in Int, NEW n, NEW pos,
         \/ n = node[call.curr].next /\ pos = call.pos + 1
         \/ n = node[call.curr].prev /\ pos = call.pos - 1,
         Goto(n, idx, pos)
  PROVE  HeapInv' /\ CallInv'
<1>1. PICK l \in created, p \in Int : l = call.list /\ p = call.pos
  BY DEF CallInv, LoopIsInList
<1>2. DOMAIN order[l] = 1..dl[l].count /\ dl[l].count \in Nat
  BY DEF HeapInv, LinksAgree, ListRecord
<1>3. p \in 1..dl[l].count /\ call.curr = order[l][p]
  BY <1>1, <1>2 DEF CallInv, LoopIsInList
<1>4. n = IF pos \in 1..dl[l].count THEN order[l][pos] ELSE NULL
  <2>1. node[call.curr].next = (IF p = dl[l].count THEN NULL ELSE order[l][p + 1])
    BY <1>3, NodeAt
  <2>2. node[call.curr].prev = (IF p = 1 THEN NULL ELSE order[l][p - 1])
    BY <1>3, NodeAt
  <2> QED
    BY <1>1, <1>2, <1>3, <2>1, <2>2
<1>5. n \in Pointer /\ pos \in Int
  <2>1. pos \in 1..dl[l].count => order[l][pos] \in Nodes
    BY NodeAt
  <2> QED
    BY <1>1, <1>4, <2>1, NullFacts DEF Pointer
<1>6. call' = [call EXCEPT !.curr = n, !.idx = idx, !.pos = pos]
      /\ UNCHANGED <<dl, created, node, alive, order>>
  BY DEF Goto
<1>7. DOMAIN call = {"op", "list", "curr", "idx", "arg", "pos"}
  BY DEF CallInv, LoopIsInList, NoCall
<1>8. /\ call'.op = call.op /\ call'.list = l /\ call'.curr = n /\ call'.idx = idx
      /\ call'.pos = pos /\ call'.arg = call.arg /\ DOMAIN call' = DOMAIN call
  BY <1>1, <1>6, <1>7
<1>9. CallInv'
  BY <1>1, <1>2, <1>4, <1>5, <1>6, <1>8 DEF CallInv, LoopIsInList
<1> QED
  BY <1>6, <1>9, HeapUnchanged

\* The calls without a loop, and the pops of dlist_destroy, leave it alone.
LEMMA CallUnchanged ==
  ASSUME CallInv, UNCHANGED call, created \subseteq created',
         call.op \in {"none", "destroy"}
  PROVE  CallInv'
BY DEF CallInv, LoopIsInList

LEMMA PopKeeps ==
  ASSUME HeapInv, CallInv, NEW l \in Lists, dlist_pop_left(l) \/ dlist_pop_right(l)
  PROVE  HeapInv' /\ CallInv'
<1>1. l \in created /\ created' = created /\ call' = call /\ call.op = "none"
  BY DEF dlist_pop_left, dlist_pop_right
<1>2. ASSUME PopLeft(l, "pop") PROVE HeapInv'
  BY <1>1, <1>2, PopLeftTakesOut
<1>3. ASSUME PopRight(l, "pop") PROVE HeapInv'
  BY <1>1, <1>3, PopRightTakesOut
<1>4. ASSUME PopEmpty(l, "left") \/ PopEmpty(l, "right") PROVE HeapInv'
  BY <1>1, <1>4, HeapUnchanged DEF PopEmpty
<1>5. HeapInv'
  BY <1>2, <1>3, <1>4 DEF dlist_pop_left, dlist_pop_right
<1> QED
  BY <1>1, <1>5, CallUnchanged

-----------------------------------------------------------------------------
(* The theorem *)

LEMMA InitInv == Init => HeapInv /\ CallInv
<1> SUFFICES ASSUME Init PROVE HeapInv /\ CallInv
  OBVIOUS
<1>1. dl \in [Lists -> ListRecord] /\ node \in [Nodes -> NodeRecord]
  BY NullFacts DEF Init, ListRecord, NodeRecord, Freed, Pointer
<1>2. NodesAreAccountedFor
  BY DEF Init, NodesAreAccountedFor
<1>3. HistoryFits
  BY DEF Init, HistoryFits
<1>4. CallInv
  BY NullFacts DEF Init, CallInv, LoopIsInList, NoCall
<1> QED
  BY <1>1, <1>2, <1>3, <1>4 DEF Init, HeapInv, LinksAgree

LEMMA NextInv ==
  ASSUME HeapInv, CallInv, [Next]_vars, \A i \in Indices : i \in Int
  PROVE  HeapInv' /\ CallInv'
<1>1. CASE UNCHANGED vars
  <2>1. CallInv'
    BY <1>1 DEF vars, CallInv, LoopIsInList
  <2> QED
    BY <1>1, <2>1, HeapUnchanged DEF vars
<1>2. ASSUME NEW l \in Lists, dlist_create(l) PROVE HeapInv' /\ CallInv'
  <2>1. call' = call /\ created \subseteq created' /\ call.op = "none"
    BY <1>2 DEF dlist_create
  <2> QED
    BY <1>2, <2>1, CreateKeeps, CallUnchanged
<1>3. ASSUME NEW l \in Lists, dlist_pop_left(l) \/ dlist_pop_right(l) PROVE HeapInv' /\ CallInv'
  BY <1>3, PopKeeps
<1>4. ASSUME NEW l \in Lists, NEW n \in Nodes, NEW d \in Value, dlist_push_right(l, n, d)
      PROVE  HeapInv' /\ CallInv'
  <2>1. call' = call /\ created \subseteq created' /\ call.op = "none"
    BY <1>4 DEF dlist_push_right
  <2> QED
    BY <1>4, <2>1, PushKeeps, CallUnchanged
<1>5. ASSUME NEW l \in Lists, NEW wanted \in SUBSET Data, dlist_find_remove(l, wanted)
      PROVE  HeapInv' /\ CallInv'
  <2>1. Start("find", l, dl[l].head, 0, wanted, 1)
    BY <1>5 DEF dlist_find_remove
  <2> QED
    BY <2>1, LoopStarts
<1>6. ASSUME NEW l \in Lists, NEW idx \in Indices, dlist_get_index(l, idx)
      PROVE  HeapInv' /\ CallInv'
  <2>1. idx \in Int
    OBVIOUS
  <2>2. \/ Start("get", l, dl[l].head, idx, idx, 1)
        \/ Start("get", l, dl[l].tail, idx, idx, dl[l].count)
    BY <1>6 DEF dlist_get_index, FromEnd
  <2> QED
    BY <2>1, <2>2, LoopStarts
<1>7. ASSUME NEW l \in Lists, NEW idx \in Indices, NEW d \in Value, dlist_set_index(l, idx, d)
      PROVE  HeapInv' /\ CallInv'
  <2>1. idx \in Int
    OBVIOUS
  <2>2. \/ Start("set", l, dl[l].head, idx, <<idx, d>>, 1)
        \/ Start("set", l, dl[l].tail, idx, <<idx, d>>, dl[l].count)
    BY <1>7 DEF dlist_set_index, FromEnd
  <2> QED
    BY <2>1, <2>2, SetStarts
<1>8. ASSUME NEW l \in Lists, NEW end \in {"left", "right"}, dlist_destroy(l, end)
      PROVE  HeapInv' /\ CallInv'
  BY <1>8, DestroyStarts DEF dlist_destroy
<1>9. CASE FindNext
  BY <1>9, GotoKeeps DEF FindNext
<1>10. CASE FindRemove
  BY <1>10, FindRemoveTakesOut, NoCallIsFine DEF FindRemove
<1>11. CASE FindNothing
  BY <1>11, HeapUnchanged, NoCallIsFine DEF FindNothing
<1>12. CASE IndexStep
  <2>1. call.op \in {"find", "get", "set"} /\ call.curr # NULL /\ call.idx - 1 \in Int /\ call.idx + 1 \in Int
    BY <1>12 DEF IndexStep, CallInv
  <2>2. \/ Goto(node[call.curr].next, call.idx - 1, call.pos + 1)
        \/ Goto(node[call.curr].prev, call.idx + 1, call.pos - 1)
    BY <1>12 DEF IndexStep
  <2> QED
    BY <2>1, <2>2, GotoKeeps
<1>13. CASE IndexEnds
  BY <1>13, IndexEndsKeeps, NoCallIsFine DEF IndexEnds
<1>14. CASE DestroyPops
  <2>1. call.op = "destroy" /\ call.list \in created /\ created' = created /\ call' = call
    BY <1>14 DEF DestroyPops, CallInv
  <2>2. CASE PopLeft(call.list, "destroy")
    BY <2>1, <2>2, PopLeftTakesOut, CallUnchanged
  <2>3. CASE PopRight(call.list, "destroy")
    BY <2>1, <2>3, PopRightTakesOut, CallUnchanged
  <2> QED
    BY <1>14, <2>2, <2>3 DEF DestroyPops
<1>15. CASE DestroyEnds
  BY <1>15, DestroyKeeps, NoCallIsFine DEF DestroyEnds
<1> QED
  BY <1>1, <1>2, <1>3, <1>4, <1>5, <1>6, <1>7, <1>8, <1>9, <1>10, <1>11, <1>12, <1>13, <1>14, <1>15
  DEF Next

\* Dlist: the inductive invariant holds in every order of the calls of dlist.c,
\* with any number of lists, nodes and data.
THEOREM Invariance == Spec => []IInv
<1>1. Init => IInv
  BY InitInv, Parts
<1>2. IInv /\ [Next]_vars => IInv'
  <2> SUFFICES ASSUME IInv, [Next]_vars PROVE IInv'
    OBVIOUS
  <2>1. HeapInv /\ CallInv
    BY Parts
  <2>2. HeapInv' /\ CallInv'
    BY <2>1, NextInv, DlistAssumption
  <2> QED
    BY <2>2 DEF IInv, HeapInv, CallInv, TypeOK, ListRecord, NodeRecord, Pointer, Value
<1> QED
  BY <1>1, <1>2, PTL DEF Spec

\* Dlist: a running call always holds a list that is allocated, and every pointer
\* is NULL or the address of a node.
THEOREM TypeCorrect == Spec => []TypeOK
<1>1. IInv => TypeOK
  BY DEF IInv
<1> QED
  BY <1>1, Invariance, PTL

\* Dlist: after any pushes, pops and removals the pointers of a list agree in both
\* directions and with head, tail and count.
THEOREM PointersAgree == Spec => []LinksAgree
<1>1. IInv => LinksAgree
  BY DEF IInv
<1> QED
  BY <1>1, Invariance, PTL

\* Dlist: no node leaks, is in two places or is in a list after free.
THEOREM NoNodeLeaks == Spec => []NodesAreAccountedFor
<1>1. IInv => NodesAreAccountedFor
  BY DEF IInv
<1> QED
  BY <1>1, Invariance, PTL
-----------------------------------------------------------------------------
(* The data of a list as a sequence *)

\* A function on an interval from 1 is a sequence.
LEMMA IntervalIsSeq ==
  ASSUME NEW S, NEW n \in Nat, NEW s, DOMAIN s = 1..n, s = [i \in 1..n |-> s[i]],
         \A i \in 1..n : s[i] \in S
  PROVE  s \in Seq(S) /\ Len(s) = n
<1>1. s \in [1..n -> S]
  OBVIOUS
<1>2. s \in Seq(S)
  BY <1>1
<1> QED
  BY <1>2, LenProperties

\* The contents of a list after a step, from its nodes and their data.
LEMMA ContentsAre ==
  ASSUME NEW l, NEW o, NEW h, NEW n \in Nat, o = order[l], h = node, DOMAIN o = 1..n,
         \A i \in 1..n : h[o[i]].data \in Value
  PROVE  /\ Contents(l) \in Seq(Value)
         /\ Len(Contents(l)) = n
         /\ \A i \in 1..n : Contents(l)[i] = h[o[i]].data
<1>1. PICK s : s = Contents(l)
  OBVIOUS
<1>2. DOMAIN s = 1..n /\ s = [i \in 1..n |-> s[i]] /\ \A i \in 1..n : s[i] = h[o[i]].data
  BY <1>1 DEF Contents
<1> QED
  BY <1>1, <1>2, IntervalIsSeq

LEMMA ContentsNow ==
  ASSUME HeapInv, NEW l \in created
  PROVE  /\ Contents(l) \in Seq(Value)
         /\ Len(Contents(l)) = dl[l].count
         /\ DOMAIN Contents(l) = 1..dl[l].count
         /\ \A i \in 1..dl[l].count : Contents(l)[i] = node[order[l][i]].data
<1>1. DOMAIN order[l] = 1..dl[l].count /\ dl[l].count \in Nat
  BY DEF HeapInv, LinksAgree, ListRecord
<1>2. \A i \in 1..dl[l].count : node[order[l][i]].data \in Value
  BY NodeAt DEF HeapInv, NodeRecord
<1>3. /\ Contents(l) \in Seq(Value)
      /\ Len(Contents(l)) = dl[l].count
      /\ \A i \in 1..dl[l].count : Contents(l)[i] = node[order[l][i]].data
  BY <1>1, <1>2, ContentsAre
<1> QED
  BY <1>1, <1>3, LenProperties

LEMMA ContentsNext ==
  ASSUME NEW l, NEW o, NEW h, NEW n \in Nat, o = order'[l], h = node', DOMAIN o = 1..n,
         \A i \in 1..n : h[o[i]].data \in Value
  PROVE  /\ Contents(l)' \in Seq(Value)
         /\ Len(Contents(l)') = n
         /\ \A i \in 1..n : Contents(l)'[i] = h[o[i]].data
<1>1. PICK s : s = Contents(l)'
  OBVIOUS
<1>2. DOMAIN s = 1..n /\ s = [i \in 1..n |-> s[i]] /\ \A i \in 1..n : s[i] = h[o[i]].data
  BY <1>1 DEF Contents
<1> QED
  BY <1>1, <1>2, IntervalIsSeq

\* A list whose nodes and data stay holds what it did.
LEMMA ContentsStay ==
  ASSUME HeapInv, NEW l \in created, order'[l] = order[l],
         \A i \in 1..dl[l].count : node'[order[l][i]].data = node[order[l][i]].data
  PROVE  Contents(l)' = Contents(l)
<1>1. DOMAIN order[l] = 1..dl[l].count
  BY DEF HeapInv, LinksAgree
<1> QED
  BY <1>1 DEF Contents

\* What DataList sees of a step.
LEMMA BecomesWhen ==
  ASSUME NEW l \in Lists, NEW s, created' = created \cup {l}, Contents(l)' = s,
         \A k \in created \ {l} : Contents(k)' = Contents(k)
  PROVE  L!Becomes(l, s)
<1>1. \A k \in created' : Contents(k)' = IF k = l THEN s ELSE [q \in created |-> Contents(q)][k]
  OBVIOUS
<1> QED
  BY <1>1 DEF L!Becomes

LEMMA ListsStay ==
  ASSUME created' = created, \A k \in created : Contents(k)' = Contents(k)
  PROVE  [k \in created |-> Contents(k)]' = [k \in created |-> Contents(k)]
OBVIOUS

LEMMA SequencesAgree ==
  ASSUME NEW s \in Seq(Value), NEW t \in Seq(Value), NEW n \in Nat, Len(s) = n, Len(t) = n,
         \A i \in 1..n : s[i] = t[i]
  PROVE  s = t
BY SeqEqual

\* Taking out the element at place k, as DataList and its special cases do it.
LEMMA RemovedAt ==
  ASSUME NEW s \in Seq(Value), NEW k \in 1..Len(s)
  PROVE  /\ L!RemoveAt(s, k) \in Seq(Value)
         /\ Len(L!RemoveAt(s, k)) = Len(s) - 1
         /\ \A j \in 1..(Len(s) - 1) : L!RemoveAt(s, k)[j] = IF j < k THEN s[j] ELSE s[j + 1]
<1>1. PICK N \in Nat, i \in Nat : N = Len(s) /\ i = k /\ i \in 1..N
  BY LenProperties
<1> DEFINE a == SubSeq(s, 1, i - 1)
           b == SubSeq(s, i + 1, N)
<1>2. /\ a \in Seq(Value) /\ Len(a) = i - 1
      /\ \A j \in 1..(i - 1) : a[j] = s[j]
  <2>1. \A j \in 1..(i - 1) : s[j] \in Value
    BY <1>1, ElementOfSeq
  <2>2. 1 \in Int /\ i - 1 \in Int
    BY <1>1
  <2>3. /\ a \in Seq(Value) /\ Len(a) = (IF 1 <= i - 1 THEN (i - 1) - 1 + 1 ELSE 0)
        /\ \A j \in 1..((i - 1) - 1 + 1) : a[j] = s[1 + j - 1]
    BY <2>1, <2>2, SubSeqProperties
  <2> QED
    BY <1>1, <2>3
<1>3. /\ b \in Seq(Value) /\ Len(b) = N - i
      /\ \A j \in 1..(N - i) : b[j] = s[i + j]
  <2>1. \A j \in (i + 1)..N : s[j] \in Value
    BY <1>1, ElementOfSeq
  <2>2. i + 1 \in Int /\ N \in Int
    BY <1>1
  <2>3. /\ b \in Seq(Value) /\ Len(b) = (IF i + 1 <= N THEN N - (i + 1) + 1 ELSE 0)
        /\ \A j \in 1..(N - (i + 1) + 1) : b[j] = s[(i + 1) + j - 1]
    BY <2>1, <2>2, SubSeqProperties
  <2> QED
    BY <1>1, <2>3
<1>4. L!RemoveAt(s, k) = a \o b
  BY <1>1 DEF L!RemoveAt
<1> HIDE DEF a, b
<1>5. /\ a \o b \in Seq(Value)
      /\ Len(a \o b) = (i - 1) + (N - i)
      /\ \A j \in 1..((i - 1) + (N - i)) : (a \o b)[j] = IF j <= i - 1 THEN a[j] ELSE b[j - (i - 1)]
  <2>1. /\ a \o b \in Seq(Value)
        /\ Len(a \o b) = Len(a) + Len(b)
        /\ \A j \in 1..(Len(a) + Len(b)) : (a \o b)[j] = IF j <= Len(a) THEN a[j] ELSE b[j - Len(a)]
    BY <1>2, <1>3, ConcatProperties, Zenon
  <2>2. Len(a) = i - 1 /\ Len(b) = N - i
    BY <1>2, <1>3
  <2> QED
    BY <2>1, <2>2, Zenon
<1>6. ASSUME NEW j \in 1..(N - 1) PROVE (a \o b)[j] = IF j < i THEN s[j] ELSE s[j + 1]
  <2>1. CASE j < i
    BY <1>1, <1>2, <1>5, <2>1
  <2>2. CASE ~(j < i)
    <3>1. j - (i - 1) \in 1..(N - i) /\ i + (j - (i - 1)) = j + 1
      BY <1>1, <2>2
    <3> QED
      BY <1>1, <1>3, <1>5, <2>2, <3>1
  <2> QED
    BY <2>1, <2>2
<1> QED
  BY <1>1, <1>4, <1>5, <1>6

LEMMA TailRemoves ==
  ASSUME NEW s \in Seq(Value), Len(s) # 0
  PROVE  Tail(s) = L!RemoveAt(s, 1)
<1>1. s # << >> /\ Len(s) \in Nat /\ 1 \in 1..Len(s)
  BY EmptySeq, LenProperties
<1>2. /\ Tail(s) \in Seq(Value) /\ Len(Tail(s)) = Len(s) - 1
      /\ \A i \in 1..(Len(s) - 1) : Tail(s)[i] = s[i + 1]
  BY <1>1, HeadTailProperties
<1>3. /\ L!RemoveAt(s, 1) \in Seq(Value) /\ Len(L!RemoveAt(s, 1)) = Len(s) - 1
      /\ \A i \in 1..(Len(s) - 1) : L!RemoveAt(s, 1)[i] = s[i + 1]
  BY <1>1, RemovedAt
<1> QED
  BY <1>1, <1>2, <1>3, SequencesAgree

LEMMA FrontRemoves ==
  ASSUME NEW s \in Seq(Value), Len(s) # 0
  PROVE  L!Front(s) = L!RemoveAt(s, Len(s))
<1>1. PICK N \in Nat : N = Len(s) /\ N # 0
  BY LenProperties
<1>2. \A j \in 1..(N - 1) : s[j] \in Value
  BY <1>1, ElementOfSeq
<1>3. /\ L!Front(s) \in Seq(Value) /\ Len(L!Front(s)) = N - 1
      /\ \A i \in 1..(N - 1) : L!Front(s)[i] = s[i]
  <2>1. 1 \in Int /\ N - 1 \in Int
    BY <1>1
  <2>2. /\ SubSeq(s, 1, N - 1) \in Seq(Value)
        /\ Len(SubSeq(s, 1, N - 1)) = (IF 1 <= N - 1 THEN (N - 1) - 1 + 1 ELSE 0)
        /\ \A i \in 1..((N - 1) - 1 + 1) : SubSeq(s, 1, N - 1)[i] = s[1 + i - 1]
    BY <1>2, <2>1, SubSeqProperties
  <2> QED
    BY <1>1, <2>2 DEF L!Front
<1>4. /\ L!RemoveAt(s, N) \in Seq(Value) /\ Len(L!RemoveAt(s, N)) = N - 1
      /\ \A i \in 1..(N - 1) : L!RemoveAt(s, N)[i] = s[i]
  <2>1. N \in 1..Len(s) /\ \A i \in 1..(N - 1) : i < N
    BY <1>1
  <2>2. /\ L!RemoveAt(s, N) \in Seq(Value) /\ Len(L!RemoveAt(s, N)) = Len(s) - 1
        /\ \A i \in 1..(Len(s) - 1) : L!RemoveAt(s, N)[i] = IF i < N THEN s[i] ELSE s[i + 1]
    BY <2>1, RemovedAt
  <2> QED
    BY <1>1, <2>1, <2>2
<1>5. N - 1 \in Nat /\ \A i \in 1..(N - 1) : L!Front(s)[i] = L!RemoveAt(s, N)[i]
  BY <1>1, <1>3, <1>4
<1>6. L!Front(s) = L!RemoveAt(s, N)
  BY <1>3, <1>4, <1>5, SequencesAgree
<1> QED
  BY <1>1, <1>6

\* Freeing node n changes the data of no other.
LEMMA RelinkedData ==
  ASSUME HeapInv, NEW n \in Nodes, Free(Relink(n), n)
  PROVE  \A p \in Nodes \ {n} : node'[p].data = node[p].data
<1> DEFINE h == SetNext(node, node[n].prev, node[n].next)
<1>1. node \in [Nodes -> NodeRecord] /\ node[n].prev \in Pointer /\ node[n].next \in Pointer
  BY DEF HeapInv, NodeRecord
<1>2. h \in [Nodes -> NodeRecord] /\ \A p \in Nodes : h[p].data = node[p].data
  BY <1>1, NullFacts DEF SetNext, NodeRecord, Pointer
<1> DEFINE g == SetPrev(h, node[n].next, node[n].prev)
<1>3. g \in [Nodes -> NodeRecord] /\ \A p \in Nodes : g[p].data = h[p].data
  <2> HIDE DEF h
  <2> QED
    BY <1>1, <1>2, NullFacts DEF SetPrev, NodeRecord, Pointer
<1>4. node' = [g EXCEPT ![n] = Freed(n)]
  BY DEF Free, Relink
<1> HIDE DEF g, h
<1> QED
  BY <1>2, <1>3, <1>4

\* A list whose k-th node is taken out loses its k-th element, and no other changes.
LEMMA TakesOutRemoves ==
  ASSUME HeapInv, HeapInv', NEW l \in created, NEW k \in 1..dl[l].count, TakesOut(l, k)
  PROVE  L!Becomes(l, L!RemoveAt(Contents(l), k))
<1>1. PICK N \in Nat, n \in Nodes : N = dl[l].count /\ n = order[l][k]
  BY NodeAt DEF HeapInv, ListRecord
<1>2. \A p \in Nodes \ {n} : node'[p].data = node[p].data
  BY <1>1, RelinkedData DEF TakesOut
<1>3. /\ \A q \in created \ {l} : order'[q] = order[q]
      /\ DOMAIN order'[l] = 1..(N - 1)
      /\ \A j \in 1..(N - 1) : order'[l][j] = IF j < k THEN order[l][j] ELSE order[l][j + 1]
  <2>1. order' = [order EXCEPT ![l] = Without(order[l], k)] /\ DOMAIN order = Lists /\ created \subseteq Lists
    BY DEF TakesOut, HeapInv, HistoryFits
  <2>2. DOMAIN order[l] = 1..N
    BY <1>1 DEF HeapInv, LinksAgree
  <2>3. /\ DOMAIN Without(order[l], k) = 1..(N - 1)
        /\ \A j \in 1..(N - 1) :
             Without(order[l], k)[j] = IF j < k THEN order[l][j] ELSE order[l][j + 1]
    BY <1>1, <2>2, WithoutFacts
  <2> QED
    BY <2>1, <2>3
<1>4. \A i \in 1..N : i # k => order[l][i] \in Nodes \ {n}
  BY <1>1, NodeAt, PlaceIsUnique
<1>5. ASSUME NEW j \in 1..(N - 1)
      PROVE  node'[order'[l][j]].data = IF j < k THEN Contents(l)[j] ELSE Contents(l)[j + 1]
  <2>1. PICK i \in 1..N : i = (IF j < k THEN j ELSE j + 1)
    BY <1>1
  <2>2. i # k /\ order'[l][j] = order[l][i]
    BY <1>1, <1>3, <2>1
  <2>3. node'[order'[l][j]].data = node[order[l][i]].data
    BY <1>2, <1>4, <2>2
  <2>4. node[order[l][i]].data = Contents(l)[i]
    BY <1>1, ContentsNow
  <2> QED
    BY <2>1, <2>3, <2>4
<1>6. Contents(l) \in Seq(Value) /\ Len(Contents(l)) = N
  BY <1>1, ContentsNow
<1>7. \A i \in 1..N : Contents(l)[i] \in Value
  BY <1>6, ElementOfSeq
<1>8. PICK s : s = Contents(l)'
  OBVIOUS
<1>9. /\ s \in Seq(Value) /\ Len(s) = N - 1
      /\ \A j \in 1..(N - 1) : s[j] = IF j < k THEN Contents(l)[j] ELSE Contents(l)[j + 1]
  <2>1. PICK o, h : o = order'[l] /\ h = node'
    OBVIOUS
  <2>2. \A j \in 1..(N - 1) : h[o[j]].data \in Value
    <3> TAKE j \in 1..(N - 1)
    <3>1. j \in 1..N /\ j + 1 \in 1..N
      BY <1>1
    <3> QED
      BY <1>5, <1>7, <2>1, <3>1
  <2>3. N - 1 \in Nat /\ DOMAIN o = 1..(N - 1)
    BY <1>1, <1>3, <2>1
  <2>4. /\ Contents(l)' \in Seq(Value) /\ Len(Contents(l)') = N - 1
        /\ \A j \in 1..(N - 1) : Contents(l)'[j] = h[o[j]].data
    BY <2>1, <2>2, <2>3, ContentsNext
  <2> QED
    BY <1>5, <1>8, <2>1, <2>4
<1>10. PICK t : t = L!RemoveAt(Contents(l), k)
  OBVIOUS
<1>11. /\ t \in Seq(Value) /\ Len(t) = N - 1
       /\ \A j \in 1..(N - 1) : t[j] = IF j < k THEN Contents(l)[j] ELSE Contents(l)[j + 1]
  BY <1>1, <1>6, <1>10, RemovedAt
<1>12. s = t
  <2>1. N - 1 \in Nat /\ \A j \in 1..(N - 1) : s[j] = t[j]
    BY <1>1, <1>9, <1>11
  <2> QED
    BY <1>9, <1>11, <2>1, SequencesAgree
<1>13. \A q \in created \ {l} : Contents(q)' = Contents(q)
  <2> TAKE q \in created \ {l}
  <2>1. \A i \in 1..dl[q].count : order[q][i] \in Nodes \ {n}
    BY <1>1, NodeAt, PlaceIsUnique
  <2> QED
    BY <1>2, <1>3, <2>1, ContentsStay
<1>14. created' = created \cup {l} /\ l \in Lists
  BY DEF TakesOut, HeapInv
<1> QED
  BY <1>8, <1>10, <1>12, <1>13, <1>14, BecomesWhen

-----------------------------------------------------------------------------
(* What a loop has passed *)

LEMMA NoLoopCounts == call'.op = "none" => LoopCounts'
BY DEF LoopCounts

\* A loop that pops may go on popping.
LEMMA DestroyCounts == LoopCounts /\ call' = call /\ call.op \in {"none", "destroy"} => LoopCounts'
BY DEF LoopCounts

LEMMA FindStarts ==
  ASSUME NEW l \in Lists, NEW wanted \in SUBSET Data, dlist_find_remove(l, wanted)
  PROVE  LoopCounts'
<1>1. call'.op = "find" /\ call'.arg = wanted /\ call'.pos = 1
  BY DEF dlist_find_remove, Start
<1>2. \A j \in 1..(1 - 1) : FALSE
  OBVIOUS
<1> QED
  BY <1>1, <1>2 DEF LoopCounts

\* An index function starts at the end from which it counts.
LEMMA IndexStarts ==
  ASSUME HeapInv, NEW l \in Lists, NEW idx \in Indices, idx \in Int, NEW op \in {"get", "set"}, NEW arg,
         op = "get" => arg = idx,
         op = "set" => arg \in Indices \X Value /\ arg[1] = idx,
         FromEnd(op, l, idx, arg)
  PROVE  LoopCounts'
<1>1. l \in created /\ call'.op = op /\ call'.list = l /\ call'.arg = arg /\ call'.idx = idx /\ dl' = dl
  BY DEF FromEnd, Start
<1>2. PICK N \in Nat : N = dl[l].count
  BY <1>1 DEF HeapInv, ListRecord
<1>3. call'.pos = (IF idx >= 0 THEN 1 ELSE N)
  BY <1>2 DEF FromEnd, Start
<1>4. IF idx >= 0 THEN call'.idx >= 0 /\ call'.pos >= 1 /\ call'.pos + call'.idx = idx + 1
                  ELSE call'.idx < 0 /\ call'.pos <= N /\ call'.pos + call'.idx = N + idx
  BY <1>1, <1>3
<1> QED
  BY <1>1, <1>2, <1>4 DEF LoopCounts

\* dlist_find_remove goes past a node that is not asked for.
LEMMA FindNextCounts ==
  ASSUME HeapInv, CallInv, LoopCounts, FindNext
  PROVE  LoopCounts'
<1>1. PICK l \in created, p \in Int, w \in SUBSET Data : l = call.list /\ p = call.pos /\ w = call.arg
  BY DEF CallInv, LoopIsInList, LoopCounts, FindNext
<1>2. PICK N \in Nat : N = dl[l].count /\ DOMAIN order[l] = 1..N
  BY DEF HeapInv, ListRecord, LinksAgree
<1>3. p \in 1..N /\ call.curr = order[l][p]
  BY <1>1, <1>2 DEF FindNext, CallInv, LoopIsInList
<1>4. DOMAIN call = {"op", "list", "curr", "idx", "arg", "pos"}
  BY DEF CallInv, LoopIsInList, NoCall
<1>5. /\ call'.op = "find" /\ call'.list = l /\ call'.arg = w /\ call'.pos = p + 1
      /\ dl' = dl /\ node' = node /\ order' = order
  BY <1>1, <1>4 DEF FindNext, Goto
<1>6. node[order[l][p]].data \notin w \ {NULL}
  BY <1>1, <1>3 DEF FindNext, Skipped
<1>7. \A j \in 1..(p - 1) : j <= N => node[order[l][j]].data \notin w \ {NULL}
  BY <1>1, <1>2 DEF LoopCounts, FindNext
<1>8. \A j \in 1..((p + 1) - 1) : j <= N => node[order[l][j]].data \notin w \ {NULL}
  <2> TAKE j \in 1..((p + 1) - 1)
  <2>1. j = p \/ j \in 1..(p - 1)
    OBVIOUS
  <2> QED
    BY <1>6, <1>7, <2>1
<1>9. p + 1 >= 1
  BY <1>3
<1> QED
  BY <1>2, <1>5, <1>8, <1>9 DEF LoopCounts

\* The counter of an index function and its place change together.
LEMMA IndexStepCounts ==
  ASSUME HeapInv, CallInv, LoopCounts, IndexStep
  PROVE  LoopCounts'
<1>0. PICK a : a = call.arg
  OBVIOUS
<1>1. PICK l \in created, p \in Int, x \in Int : l = call.list /\ p = call.pos /\ x = call.idx
  BY DEF CallInv, LoopIsInList, IndexStep
<1>2. PICK N \in Nat : N = dl[l].count /\ DOMAIN order[l] = 1..N
  BY DEF HeapInv, ListRecord, LinksAgree
<1>3. p \in 1..N
  BY <1>1, <1>2 DEF IndexStep, CallInv, LoopIsInList
<1>4. DOMAIN call = {"op", "list", "curr", "idx", "arg", "pos"}
  BY DEF CallInv, LoopIsInList, NoCall
<1>5. /\ call'.op = call.op /\ call'.list = l /\ call'.arg = a /\ dl' = dl
      /\ \/ x > 0 /\ call'.idx = x - 1 /\ call'.pos = p + 1
         \/ x + 1 < 0 /\ call'.idx = x + 1 /\ call'.pos = p - 1
  BY <1>0, <1>1, <1>4 DEF IndexStep, Goto, MoreForward, MoreBackward
<1> DEFINE Tracks(i, pos, idx) ==
             IF i >= 0 THEN idx >= 0 /\ pos >= 1 /\ pos + idx = i + 1
                       ELSE idx < 0 /\ pos <= N /\ pos + idx = N + i
<1>6. ASSUME NEW i \in Int, Tracks(i, p, x) PROVE Tracks(i, call'.pos, call'.idx)
  BY <1>3, <1>5, <1>6
<1>7. CASE call.op = "get"
  <2>1. a \in Indices /\ Tracks(a, p, x)
    BY <1>0, <1>1, <1>2, <1>7 DEF LoopCounts
  <2>2. Tracks(a, call'.pos, call'.idx)
    BY <1>6, <2>1, DlistAssumption
  <2> QED
    BY <1>2, <1>5, <1>7, <2>1, <2>2 DEF LoopCounts
<1>8. CASE call.op = "set"
  <2>1. a \in Indices \X Value /\ Tracks(a[1], p, x)
    BY <1>0, <1>1, <1>2, <1>8 DEF LoopCounts
  <2>2. Tracks(a[1], call'.pos, call'.idx)
    BY <1>6, <2>1, DlistAssumption
  <2> QED
    BY <1>2, <1>5, <1>8, <2>1, <2>2 DEF LoopCounts
<1> QED
  BY <1>7, <1>8 DEF IndexStep

LEMMA LoopCountsKept ==
  ASSUME HeapInv, CallInv, LoopCounts, [Next]_vars
  PROVE  LoopCounts'
<1>1. CASE UNCHANGED vars
  BY <1>1 DEF vars, LoopCounts
<1>2. ASSUME NEW l \in Lists, dlist_create(l) \/ dlist_pop_left(l) \/ dlist_pop_right(l)
      PROVE  LoopCounts'
  BY <1>2, DestroyCounts DEF dlist_create, dlist_pop_left, dlist_pop_right
<1>3. ASSUME NEW l \in Lists, NEW n \in Nodes, NEW d \in Value, dlist_push_right(l, n, d)
      PROVE  LoopCounts'
  BY <1>3, DestroyCounts DEF dlist_push_right
<1>4. ASSUME NEW l \in Lists, NEW wanted \in SUBSET Data, dlist_find_remove(l, wanted)
      PROVE  LoopCounts'
  BY <1>4, FindStarts
<1>5. ASSUME NEW l \in Lists, NEW idx \in Indices, dlist_get_index(l, idx) PROVE LoopCounts'
  <2>1. FromEnd("get", l, idx, idx) /\ idx \in Int
    BY <1>5, DlistAssumption DEF dlist_get_index
  <2> QED
    BY <2>1, IndexStarts
<1>6. ASSUME NEW l \in Lists, NEW idx \in Indices, NEW d \in Value, dlist_set_index(l, idx, d)
      PROVE  LoopCounts'
  <2>1. PICK arg : arg = <<idx, d>>
    OBVIOUS
  <2>2. FromEnd("set", l, idx, arg) /\ idx \in Int /\ arg \in Indices \X Value /\ arg[1] = idx
    BY <1>6, <2>1, DlistAssumption DEF dlist_set_index
  <2> QED
    BY <2>2, IndexStarts
<1>7. ASSUME NEW l \in Lists, NEW end \in {"left", "right"}, dlist_destroy(l, end) PROVE LoopCounts'
  BY <1>7 DEF dlist_destroy, Start, LoopCounts
<1>8. CASE FindNext
  BY <1>8, FindNextCounts
<1>9. CASE FindRemove \/ FindNothing \/ IndexEnds \/ DestroyEnds
  BY <1>9, NoLoopCounts DEF FindRemove, FindNothing, IndexEnds, DestroyEnds, NoCall
<1>10. CASE IndexStep
  BY <1>10, IndexStepCounts
<1>11. CASE DestroyPops
  BY <1>11, DestroyCounts DEF DestroyPops
<1> QED
  BY <1>1, <1>2, <1>3, <1>4, <1>5, <1>6, <1>7, <1>8, <1>9, <1>10, <1>11 DEF Next

-----------------------------------------------------------------------------
(* Every step of Dlist is a step of DataList, or none *)

AbstractStep == L!Next \/ UNCHANGED <<[k \in created |-> Contents(k)], out>>

LEMMA ContentsUnchanged ==
  ASSUME created' = created, order' = order, node' = node
  PROVE  [k \in created |-> Contents(k)]' = [k \in created |-> Contents(k)]
BY DEF Contents

LEMMA CreateIsCreate ==
  ASSUME HeapInv, NEW l \in Lists, dlist_create(l)
  PROVE  L!Create(l)
<1>1. l \notin created /\ created' = created \cup {l} /\ node' = node /\ order' = order /\ DOMAIN order[l] = {}
  BY DEF dlist_create, HeapInv, HistoryFits
<1>2. Contents(l)' = << >>
  <2>1. PICK o, h : o = order'[l] /\ h = node'
    OBVIOUS
  <2>2. DOMAIN o = 1..0 /\ \A i \in 1..0 : h[o[i]].data \in Value
    BY <1>1, <2>1
  <2>3. 0 \in Nat
    OBVIOUS
  <2>4. Contents(l)' \in Seq(Value) /\ Len(Contents(l)') = 0
    BY <2>1, <2>2, <2>3, ContentsNext
  <2> QED
    BY <2>4, EmptySeq
<1>3. \A k \in created \ {l} : Contents(k)' = Contents(k)
  BY <1>1 DEF Contents
<1>4. L!Becomes(l, << >>)
  BY <1>1, <1>2, <1>3, BecomesWhen
<1>5. out' = <<"create", l, NULL, NULL>>
  BY DEF dlist_create, Returns
<1> QED
  BY <1>1, <1>4, <1>5 DEF L!Create, L!Call

\* A push writes data only into a node that was not allocated.
LEMMA PushData ==
  ASSUME HeapInv, NEW l \in Lists, NEW n \in Nodes, NEW d \in Value, dlist_push_right(l, n, d)
  PROVE  node'[n].data = d /\ \A p \in Nodes \ {n} : node'[p].data = node[p].data
<1> DEFINE h == [node EXCEPT ![n] = [prev |-> dl[l].tail, next |-> NULL, data |-> d]]
<1>1. node \in [Nodes -> NodeRecord] /\ dl[l].tail \in Pointer
  BY DEF HeapInv, ListRecord
<1>2. h \in [Nodes -> NodeRecord] /\ h[n].data = d /\ \A p \in Nodes \ {n} : h[p] = node[p]
  BY <1>1, NullFacts DEF NodeRecord
<1>3. node' = SetNext(h, dl[l].tail, n)
  BY DEF dlist_push_right
<1> HIDE DEF h
<1>4. \A p \in Nodes : node'[p].data = h[p].data
  BY <1>1, <1>2, <1>3 DEF SetNext, NodeRecord, Pointer
<1> QED
  BY <1>2, <1>4

LEMMA PushIsPush ==
  ASSUME HeapInv, NEW l \in Lists, NEW n \in Nodes, NEW d \in Value, dlist_push_right(l, n, d)
  PROVE  l \in created /\ L!PushRight(l, d)
<1>1. l \in created /\ n \notin alive /\ created' = created /\ out' = <<"push", l, d, d>>
  BY DEF dlist_push_right, Returns
<1>2. PICK N \in Nat : N = dl[l].count
  BY DEF HeapInv, ListRecord
<1>3. /\ \A q \in Lists \ {l} : order'[q] = order[q]
      /\ DOMAIN order'[l] = 1..(N + 1)
      /\ order'[l][N + 1] = n
      /\ \A j \in 1..N : order'[l][j] = order[l][j]
  <2>1. DOMAIN order = Lists
    BY DEF HeapInv, HistoryFits
  <2>2. order' = [order EXCEPT ![l] = [i \in 1..(N + 1) |-> IF i = N + 1 THEN n ELSE order[l][i]]]
    BY <1>2 DEF dlist_push_right
  <2> QED
    BY <2>1, <2>2
<1>4. \A q \in created : \A i \in 1..dl[q].count : order[q][i] \in Nodes \ {n}
  BY <1>1, NodeAt
<1>5. node'[n].data = d /\ \A p \in Nodes \ {n} : node'[p].data = node[p].data
  BY PushData
<1>6. Contents(l) \in Seq(Value) /\ Len(Contents(l)) = N /\ \A i \in 1..N : Contents(l)[i] = node[order[l][i]].data
  BY <1>1, <1>2, ContentsNow
<1>7. PICK t : t = Append(Contents(l), d)
  OBVIOUS
<1>8. t \in Seq(Value) /\ Len(t) = N + 1 /\ t[N + 1] = d /\ \A i \in 1..N : t[i] = Contents(l)[i]
  BY <1>6, <1>7, AppendProperties
<1>9. \A i \in 1..(N + 1) : node'[order'[l][i]].data = t[i]
  <2> TAKE i \in 1..(N + 1)
  <2>1. CASE i = N + 1
    BY <1>3, <1>5, <1>8, <2>1
  <2>2. CASE i \in 1..N
    BY <1>1, <1>2, <1>3, <1>4, <1>5, <1>6, <1>8, <2>2
  <2> QED
    BY <2>1, <2>2
<1>10. PICK o, h : o = order'[l] /\ h = node'
  OBVIOUS
<1>11. N + 1 \in Nat /\ DOMAIN o = 1..(N + 1) /\ \A i \in 1..(N + 1) : h[o[i]].data \in Value
  <2>1. \A i \in 1..(N + 1) : t[i] \in Value
    BY <1>8, ElementOfSeq
  <2> QED
    BY <1>3, <1>9, <1>10, <2>1
<1>12. /\ Contents(l)' \in Seq(Value) /\ Len(Contents(l)') = N + 1
       /\ \A i \in 1..(N + 1) : Contents(l)'[i] = h[o[i]].data
  BY <1>10, <1>11, ContentsNext
<1>13. Contents(l)' = t
  <2>1. PICK s : s = Contents(l)'
    OBVIOUS
  <2>2. s \in Seq(Value) /\ Len(s) = N + 1 /\ \A i \in 1..(N + 1) : s[i] = t[i]
    BY <1>9, <1>10, <1>12, <2>1
  <2> QED
    BY <1>8, <1>11, <2>1, <2>2, SequencesAgree
<1>14. \A q \in created \ {l} : Contents(q)' = Contents(q)
  <2> TAKE q \in created \ {l}
  <2>1. order'[q] = order[q]
    BY <1>3 DEF HeapInv
  <2> QED
    BY <1>4, <1>5, <2>1, ContentsStay
<1>15. L!Becomes(l, t)
  <2>1. created' = created \cup {l}
    BY <1>1
  <2> QED
    BY <1>13, <1>14, <2>1, BecomesWhen
<1> QED
  BY <1>1, <1>7, <1>15 DEF L!PushRight, L!Call

\* The pops of a list that is not empty, by themselves and within dlist_destroy.
LEMMA PopIsPop ==
  ASSUME HeapInv, HeapInv', NEW l \in created, NEW op, UNCHANGED created, PopLeft(l, op) \/ PopRight(l, op)
  PROVE  L!Pop(l, op)
<1>1. PICK N \in Nat : N = dl[l].count
  BY DEF HeapInv, ListRecord
<1>2. PICK s : s = Contents(l)
  OBVIOUS
<1>3. s \in Seq(Value) /\ Len(s) = N /\ \A i \in 1..N : s[i] = node[order[l][i]].data
  BY <1>1, <1>2, ContentsNow
<1>4. CASE PopLeft(l, op)
  <2>1. TakesOut(l, 1) /\ 1 \in 1..N /\ dl[l].head = order[l][1]
    BY <1>1, <1>4, PopLeftTakesOut
  <2>2. Len(s) # 0
    BY <1>3, <2>1
  <2>3. s # << >>
    BY <2>2, EmptySeq
  <2>4. L!Becomes(l, Tail(s))
    <3>1. Tail(s) = L!RemoveAt(s, 1)
      BY <1>3, <2>2, TailRemoves
    <3> QED
      BY <1>1, <1>2, <2>1, <3>1, TakesOutRemoves
  <2>5. out' = <<op, l, "left", Head(s)>>
    BY <1>3, <1>4, <2>1 DEF PopLeft, Returns
  <2> QED
    BY <1>2, <2>3, <2>4, <2>5 DEF L!Pop, L!Call
<1>5. CASE PopRight(l, op)
  <2>1. TakesOut(l, N) /\ N \in 1..N /\ dl[l].tail = order[l][N]
    BY <1>1, <1>5, PopRightTakesOut
  <2>2. Len(s) # 0
    BY <1>3, <2>1
  <2>3. s # << >>
    BY <2>2, EmptySeq
  <2>4. L!Becomes(l, L!Front(s))
    <3>1. L!Front(s) = L!RemoveAt(s, N)
      BY <1>3, <2>2, FrontRemoves
    <3> QED
      BY <1>1, <1>2, <2>1, <3>1, TakesOutRemoves
  <2>5. out' = <<op, l, "right", L!Last(s)>>
    BY <1>3, <1>5, <2>1 DEF PopRight, Returns, L!Last
  <2> QED
    BY <1>2, <2>3, <2>4, <2>5 DEF L!Pop, L!Call
<1> QED
  BY <1>4, <1>5

\* A list without a head is the empty sequence.
LEMMA EmptyIsEmpty ==
  ASSUME HeapInv, NEW l \in created, dlist_empty(l)
  PROVE  Contents(l) = << >>
<1>1. PICK N \in Nat : N = dl[l].count
  BY DEF HeapInv, ListRecord
<1>2. N = 0
  <2>1. N # 0 => 1 \in 1..N /\ dl[l].head = order[l][1]
    BY <1>1 DEF HeapInv, LinksAgree
  <2> QED
    BY <1>1, <2>1, NodeAt DEF dlist_empty
<1> QED
  BY <1>1, <1>2, ContentsNow, EmptySeq

\* The node that dlist_find_remove takes is the first that is asked for.
LEMMA FindRemoveIsFind ==
  ASSUME HeapInv, HeapInv', CallInv, LoopCounts, FindRemove
  PROVE  \E l \in created, w \in SUBSET Data : L!FindRemove(l, w)
<1>1. PICK l \in created, p \in Int, w \in SUBSET Data : l = call.list /\ p = call.pos /\ w = call.arg
  BY DEF CallInv, LoopIsInList, LoopCounts, FindRemove
<1>2. PICK N \in Nat : N = dl[l].count
  BY DEF HeapInv, ListRecord
<1>3. PICK s : s = Contents(l)
  OBVIOUS
<1>4. /\ s \in Seq(Value) /\ Len(s) = N /\ DOMAIN s = 1..N
      /\ \A i \in 1..N : s[i] = node[order[l][i]].data
  BY <1>2, <1>3, ContentsNow
<1>5. TakesOut(l, p) /\ p \in 1..N /\ order[l][p] = call.curr
  BY <1>1, <1>2, FindRemoveTakesOut
<1>6. s[p] \in w \ {NULL} /\ out' = <<"find", l, w, s[p]>>
  BY <1>1, <1>4, <1>5 DEF FindRemove, Skipped, Returns
<1>7. \A j \in 1..(p - 1) : j <= N => node[order[l][j]].data \notin w \ {NULL}
  BY <1>1, <1>2 DEF LoopCounts, FindRemove
<1> DEFINE found == {i \in DOMAIN s : s[i] \in w \ {NULL}}
<1>8. p \in found /\ \A j \in found : p <= j
  <2>1. p \in found
    BY <1>4, <1>5, <1>6
  <2>2. ASSUME NEW j \in found PROVE p <= j
    <3>1. j \in 1..N /\ s[j] \in w \ {NULL}
      BY <1>4
    <3>2. ~(j \in 1..(p - 1))
      BY <1>4, <1>7, <3>1
    <3> QED
      BY <1>5, <3>1, <3>2
  <2> QED
    BY <2>1, <2>2
<1>9. L!Becomes(l, L!RemoveAt(s, p))
  BY <1>2, <1>3, <1>5, TakesOutRemoves
<1>10. L!FindRemove(l, w)
  BY <1>3, <1>6, <1>8, <1>9 DEF L!FindRemove, L!Call
<1> QED
  BY <1>10

\* A search that has come to the end has passed the whole list.
LEMMA FindNothingIsFind ==
  ASSUME HeapInv, CallInv, LoopCounts, FindNothing
  PROVE  \E l \in created, w \in SUBSET Data : L!FindRemove(l, w)
<1>1. PICK l \in created, p \in Int, w \in SUBSET Data : l = call.list /\ p = call.pos /\ w = call.arg
  BY DEF CallInv, LoopIsInList, LoopCounts, FindNothing
<1>2. PICK N \in Nat : N = dl[l].count
  BY DEF HeapInv, ListRecord
<1>3. PICK s : s = Contents(l)
  OBVIOUS
<1>4. DOMAIN s = 1..N /\ DOMAIN order[l] = 1..N /\ \A i \in 1..N : s[i] = node[order[l][i]].data
  BY <1>2, <1>3, ContentsNow DEF HeapInv, LinksAgree
<1>5. p >= 1 /\ p \notin 1..N
  <2>1. p >= 1
    BY <1>1 DEF LoopCounts, FindNothing
  <2>2. p \in 1..N => NULL = order[l][p]
    BY <1>1, <1>4 DEF FindNothing, CallInv, LoopIsInList
  <2> QED
    BY <1>2, <2>1, <2>2, NodeAt
<1>6. \A j \in 1..(p - 1) : j <= N => node[order[l][j]].data \notin w \ {NULL}
  BY <1>1, <1>2 DEF LoopCounts, FindNothing
<1>7. {i \in DOMAIN s : s[i] \in w \ {NULL}} = {}
  BY <1>4, <1>5, <1>6
<1>8. out' = <<"find", l, w, NULL>> /\ created' = created /\ order' = order /\ node' = node
  BY <1>1 DEF FindNothing, Returns
<1>9. L!FindRemove(l, w)
  BY <1>3, <1>7, <1>8, ContentsUnchanged DEF L!FindRemove, L!Call
<1> QED
  BY <1>9

\* Where the loop of an index function ends: at the position asked for, if there is one.
LEMMA IndexFound ==
  ASSUME HeapInv, CallInv, LoopCounts, IndexEnds, NEW l \in created, l = call.list,
         NEW i \in Indices, i = IF call.op = "get" THEN call.arg ELSE call.arg[1]
  PROVE  /\ call.curr # NULL <=> L!Position(l, i) \in 1..dl[l].count
         /\ call.curr # NULL => call.curr = order[l][L!Position(l, i)]
<1>1. PICK N \in Nat : N = dl[l].count /\ DOMAIN order[l] = 1..N
  BY DEF HeapInv, ListRecord, LinksAgree
<1>2. PICK p \in Int, x \in Int : p = call.pos /\ x = call.idx
  BY DEF CallInv, LoopIsInList
<1>3. i \in Int
  BY DlistAssumption
<1>4. IF i >= 0 THEN x >= 0 /\ p >= 1 /\ p + x = i + 1
                ELSE x < 0 /\ p <= N /\ p + x = N + i
  BY <1>1, <1>2 DEF IndexEnds, LoopCounts
<1>5. call.curr = IF p \in 1..N THEN order[l][p] ELSE NULL
  BY <1>1, <1>2 DEF CallInv, LoopIsInList, IndexEnds
<1>6. p \in 1..N => order[l][p] # NULL
  BY <1>1, NodeAt
<1>7. L!Position(l, i) = IF i >= 0 THEN i + 1 ELSE N + i + 1
  <2>1. [k \in created |-> Contents(k)][l] = Contents(l)
    OBVIOUS
  <2> QED
    BY <1>1, <2>1, ContentsNow DEF L!Position
<1>8. call.curr = NULL \/ ~(x > 0 \/ x + 1 < 0)
  BY <1>2 DEF IndexEnds, MoreForward, MoreBackward
<1>9. CASE p \in 1..N
  <2>1. p = L!Position(l, i)
    BY <1>1, <1>3, <1>4, <1>5, <1>6, <1>7, <1>8, <1>9
  <2> QED
    BY <1>1, <1>5, <1>6, <1>9, <2>1
<1>10. CASE p \notin 1..N
  <2>1. L!Position(l, i) \notin 1..N
    BY <1>1, <1>3, <1>4, <1>7, <1>10
  <2> QED
    BY <1>1, <1>5, <1>10, <2>1
<1> QED
  BY <1>9, <1>10

LEMMA GetIsGet ==
  ASSUME HeapInv, CallInv, LoopCounts, IndexEnds, call.op = "get"
  PROVE  \E l \in created, i \in Indices : L!GetIndex(l, i)
<1>1. PICK l \in created, i \in Indices : l = call.list /\ i = call.arg
  BY DEF CallInv, LoopCounts
<1>2. PICK P : P = L!Position(l, i)
  OBVIOUS
<1>3. /\ call.curr # NULL <=> P \in 1..dl[l].count
      /\ call.curr # NULL => call.curr = order[l][P]
  BY <1>1, <1>2, IndexFound
<1>4. DOMAIN Contents(l) = 1..dl[l].count /\ \A j \in 1..dl[l].count : Contents(l)[j] = node[order[l][j]].data
  BY ContentsNow
<1>5. out' = <<"get", l, i, IF P \in DOMAIN Contents(l) THEN Contents(l)[P] ELSE NULL>>
  BY <1>1, <1>3, <1>4 DEF IndexEnds, Returns
<1>6. created' = created /\ order' = order /\ node' = node
  BY DEF IndexEnds
<1>7. L!GetIndex(l, i)
  BY <1>2, <1>5, <1>6, ContentsUnchanged DEF L!GetIndex, L!Call
<1> QED
  BY <1>7

LEMMA SetIsSet ==
  ASSUME HeapInv, CallInv, LoopCounts, IndexEnds, call.op = "set"
  PROVE  \E l \in created, i \in Indices, d \in Value : L!SetIndex(l, i, d)
<1>1. PICK l \in created, i \in Indices, d \in Value : l = call.list /\ i = call.arg[1] /\ d = call.arg[2]
  BY DEF CallInv, LoopCounts
<1>0. PICK P : P = L!Position(l, i)
  OBVIOUS
<1>2. PICK N \in Nat : P = L!Position(l, i) /\ N = dl[l].count
  BY <1>0 DEF HeapInv, ListRecord
<1>3. /\ call.curr # NULL <=> P \in 1..N
      /\ call.curr # NULL => call.curr = order[l][P]
  BY <1>1, <1>2, IndexFound
<1>4. PICK s : s = Contents(l)
  OBVIOUS
<1>5. /\ s \in Seq(Value) /\ Len(s) = N /\ DOMAIN s = 1..N
      /\ \A j \in 1..N : s[j] = node[order[l][j]].data
  BY <1>2, <1>4, ContentsNow
<1>6. out' = <<"set", l, i, d>> /\ created' = created /\ order' = order
  BY <1>1 DEF IndexEnds, Returns
<1>7. CASE P \in 1..N
  <2>1. PICK n \in Nodes : n = order[l][P] /\ node' = [node EXCEPT ![n].data = d]
    BY <1>1, <1>2, <1>3, <1>7, NodeAt DEF IndexEnds
  <2>2. node'[n].data = d /\ \A q \in Nodes \ {n} : node'[q].data = node[q].data
    BY <2>1 DEF HeapInv, NodeRecord
  <2>3. PICK t : t = [s EXCEPT ![P] = d]
    OBVIOUS
  <2>4. t \in Seq(Value) /\ Len(t) = N /\ \A j \in 1..N : t[j] = IF j = P THEN d ELSE s[j]
    BY <1>5, <1>7, <2>3, ExceptSeq
  <2>5. \A j \in 1..N : order[l][j] \in Nodes /\ (order[l][j] = n => j = P)
    BY <1>2, <1>7, <2>1, NodeAt, PlaceIsUnique
  <2>6. \A j \in 1..N : node'[order[l][j]].data = t[j]
    BY <1>5, <2>1, <2>2, <2>4, <2>5
  <2>7. PICK o, h : o = order'[l] /\ h = node'
    OBVIOUS
  <2>8. DOMAIN o = 1..N /\ \A j \in 1..N : h[o[j]].data \in Value
    <3>1. \A j \in 1..N : t[j] \in Value
      BY <2>4, ElementOfSeq
    <3>2. DOMAIN order[l] = 1..N
      BY <1>2 DEF HeapInv, LinksAgree
    <3> QED
      BY <1>6, <2>6, <2>7, <3>1, <3>2
  <2>9. PICK r : r = Contents(l)'
    OBVIOUS
  <2>10. r \in Seq(Value) /\ Len(r) = N /\ \A j \in 1..N : r[j] = t[j]
    <3>1. /\ Contents(l)' \in Seq(Value) /\ Len(Contents(l)') = N
          /\ \A j \in 1..N : Contents(l)'[j] = h[o[j]].data
      BY <2>7, <2>8, ContentsNext
    <3> QED
      BY <1>6, <2>6, <2>7, <2>9, <3>1
  <2>11. r = t
    BY <2>4, <2>10, SequencesAgree
  <2>12. \A q \in created \ {l} : Contents(q)' = Contents(q)
    <3> TAKE q \in created \ {l}
    <3>1. \A j \in 1..dl[q].count : order[q][j] \in Nodes \ {n}
      BY <1>2, <1>7, <2>1, NodeAt, PlaceIsUnique
    <3>2. order'[q] = order[q]
      BY <1>6
    <3> QED
      BY <2>2, <3>1, <3>2, ContentsStay
  <2>13. L!Becomes(l, t)
    <3>1. created' = created \cup {l} /\ l \in Lists
      BY <1>6 DEF HeapInv
    <3> QED
      BY <2>9, <2>11, <2>12, <3>1, BecomesWhen
  <2>14. L!SetIndex(l, i, d)
    BY <1>2, <1>4, <1>5, <1>6, <1>7, <2>3, <2>13 DEF L!SetIndex, L!Call
  <2> QED
    BY <2>14
<1>8. CASE P \notin 1..N
  <2>1. node' = node
    BY <1>3, <1>8 DEF IndexEnds
  <2>2. L!SetIndex(l, i, d)
    BY <1>2, <1>4, <1>5, <1>6, <1>8, <2>1, ContentsUnchanged DEF L!SetIndex, L!Call
  <2> QED
    BY <2>2
<1> QED
  BY <1>7, <1>8

LEMMA DestroyIsDestroy ==
  ASSUME HeapInv, CallInv, DestroyEnds
  PROVE  \E l \in created : L!Destroy(l)
<1>1. PICK l \in created : l = call.list
  BY DEF CallInv, DestroyEnds
<1>2. /\ dlist_empty(l) /\ created' = created \ {l} /\ out' = <<"destroyed", l, NULL, NULL>>
      /\ node' = node /\ order' = order
  BY <1>1 DEF DestroyEnds, LoopEnds, Returns
<1>3. Contents(l) = << >>
  BY <1>2, EmptyIsEmpty
<1>4. [k \in created |-> Contents(k)]' = [k \in created \ {l} |-> Contents(k)]
  BY <1>2 DEF Contents
<1>5. L!Destroy(l)
  BY <1>2, <1>3, <1>4 DEF L!Destroy, L!Call
<1> QED
  BY <1>5

LEMMA PopsRefine ==
  ASSUME HeapInv, HeapInv', NEW l \in Lists, dlist_pop_left(l) \/ dlist_pop_right(l)
  PROVE  l \in created /\ (L!Pop(l, "pop") \/ L!PopEmpty(l))
<1>1. l \in created /\ created' = created
  BY DEF dlist_pop_left, dlist_pop_right
<1>2. CASE PopLeft(l, "pop") \/ PopRight(l, "pop")
  BY <1>1, <1>2, PopIsPop
<1>3. ASSUME NEW end \in {"left", "right"}, PopEmpty(l, end) PROVE L!PopEmpty(l)
  <2>1. Contents(l) = << >>
    BY <1>1, <1>3, EmptyIsEmpty DEF PopEmpty
  <2>2. out' = <<"pop", l, end, NULL>> /\ node' = node /\ order' = order
    BY <1>3 DEF PopEmpty, Returns
  <2> QED
    BY <1>1, <2>1, <2>2, ContentsUnchanged DEF L!PopEmpty, L!Call
<1> QED
  BY <1>1, <1>2, <1>3 DEF dlist_pop_left, dlist_pop_right

\* A call with a loop begins.
LEMMA StartIsBegin ==
  ASSUME NEW op, NEW l, NEW n, NEW idx, NEW arg, NEW pos, Start(op, l, n, idx, arg, pos)
  PROVE  L!Begin
BY ContentsUnchanged DEF Start, L!Begin, L!Running, L!Call, Running

LEMMA StartsRefine ==
  ASSUME NEW l \in Lists,
         \/ \E wanted \in SUBSET Data : dlist_find_remove(l, wanted)
         \/ \E idx \in Indices : dlist_get_index(l, idx) \/ \E d \in Value : dlist_set_index(l, idx, d)
         \/ \E end \in {"left", "right"} : dlist_destroy(l, end)
  PROVE  L!Begin
<1>1. ASSUME NEW wanted \in SUBSET Data, dlist_find_remove(l, wanted) PROVE L!Begin
  BY <1>1, StartIsBegin DEF dlist_find_remove
<1>2. ASSUME NEW op, NEW idx, NEW arg, FromEnd(op, l, idx, arg) PROVE L!Begin
  BY <1>2, StartIsBegin DEF FromEnd
<1>3. ASSUME NEW idx \in Indices, dlist_get_index(l, idx) PROVE L!Begin
  BY <1>2, <1>3 DEF dlist_get_index
<1>4. ASSUME NEW idx \in Indices, NEW d \in Value, dlist_set_index(l, idx, d) PROVE L!Begin
  <2>1. PICK arg : arg = <<idx, d>>
    OBVIOUS
  <2> QED
    BY <1>2, <1>4, <2>1 DEF dlist_set_index
<1>5. ASSUME NEW end \in {"left", "right"}, dlist_destroy(l, end) PROVE L!Begin
  BY <1>5, StartIsBegin DEF dlist_destroy
<1> QED
  BY <1>1, <1>3, <1>4, <1>5

LEMMA DestroyPopsRefines ==
  ASSUME HeapInv, HeapInv', CallInv, DestroyPops
  PROVE  \E l \in created : L!Pop(l, "destroy")
<1>1. PICK l \in created : l = call.list
  BY DEF CallInv, DestroyPops
<1>2. created' = created /\ (PopLeft(l, "destroy") \/ PopRight(l, "destroy"))
  BY <1>1 DEF DestroyPops
<1> QED
  BY <1>2, PopIsPop

\* One disjunct of DataList's next-state relation, for a list that exists.
LEMMA OneStep ==
  ASSUME NEW l \in created,
         \/ \E d \in Value : L!PushRight(l, d)
         \/ L!Pop(l, "pop") \/ L!Pop(l, "destroy") \/ L!PopEmpty(l) \/ L!Destroy(l)
         \/ \E wanted \in SUBSET Data : L!FindRemove(l, wanted)
         \/ \E idx \in Indices : L!GetIndex(l, idx) \/ \E d \in Value : L!SetIndex(l, idx, d)
  PROVE  L!Next
BY DEF L!Next, Value

LEMMA StepRefines ==
  ASSUME HeapInv, HeapInv', CallInv, LoopCounts, [Next]_vars
  PROVE  AbstractStep
<1>1. ASSUME created' = created, order' = order, node' = node, out' = out PROVE AbstractStep
  BY <1>1, ContentsUnchanged DEF AbstractStep
<1>2. CASE UNCHANGED vars
  BY <1>1, <1>2 DEF vars
<1>3. ASSUME NEW l \in Lists, dlist_create(l) PROVE AbstractStep
  BY <1>3, CreateIsCreate DEF AbstractStep, L!Next
<1>4. ASSUME NEW l \in Lists, dlist_pop_left(l) \/ dlist_pop_right(l) PROVE AbstractStep
  BY <1>4, PopsRefine, OneStep DEF AbstractStep
<1>5. ASSUME NEW l \in Lists, NEW n \in Nodes, NEW d \in Value, dlist_push_right(l, n, d)
      PROVE  AbstractStep
  BY <1>5, PushIsPush, OneStep DEF AbstractStep
<1>6. ASSUME NEW l \in Lists,
             \/ \E wanted \in SUBSET Data : dlist_find_remove(l, wanted)
             \/ \E idx \in Indices : dlist_get_index(l, idx) \/ \E d \in Value : dlist_set_index(l, idx, d)
             \/ \E end \in {"left", "right"} : dlist_destroy(l, end)
      PROVE  AbstractStep
  BY <1>6, StartsRefine DEF AbstractStep, L!Next
<1>7. CASE FindNext \/ IndexStep
  BY <1>1, <1>7 DEF FindNext, IndexStep, Goto
<1>8. CASE FindRemove
  BY <1>8, FindRemoveIsFind, OneStep DEF AbstractStep
<1>9. CASE FindNothing
  BY <1>9, FindNothingIsFind, OneStep DEF AbstractStep
<1>10. CASE IndexEnds
  BY <1>10, GetIsGet, SetIsSet, OneStep DEF AbstractStep, IndexEnds
<1>11. CASE DestroyPops
  BY <1>11, DestroyPopsRefines, OneStep DEF AbstractStep
<1>12. CASE DestroyEnds
  BY <1>12, DestroyIsDestroy, OneStep DEF AbstractStep
<1> QED
  BY <1>2, <1>3, <1>4, <1>5, <1>6, <1>7, <1>8, <1>9, <1>10, <1>11, <1>12 DEF Next

\* Dlist: whatever the order of its calls, dlist.c behaves as sequences of data, and
\* every call returns what the sequence says.
THEOREM ListRefinement == Spec => ImplementsDataList
<1>1. Init => L!Init
  <2>1. created = {} => [k \in created |-> Contents(k)] = << >>
    OBVIOUS
  <2> QED
    BY <2>1 DEF Init, L!Init, L!Running, L!Call, Running
<1>2. Init => LoopCounts
  BY DEF Init, NoCall, LoopCounts
<1>3. IInv /\ LoopCounts /\ [Next]_vars => LoopCounts'
  BY Parts, LoopCountsKept
<1>4. IInv /\ IInv' /\ LoopCounts /\ [Next]_vars => [L!Next]_(L!vars)
  <2> SUFFICES ASSUME IInv, IInv', LoopCounts, [Next]_vars PROVE [L!Next]_(L!vars)
    OBVIOUS
  <2>1. HeapInv /\ CallInv
    BY Parts
  <2>2. HeapInv'
    BY DEF IInv, HeapInv, TypeOK, ListRecord, NodeRecord, Pointer, Value
  <2> QED
    BY <2>1, <2>2, StepRefines DEF AbstractStep, L!vars
<1> QED
  BY <1>1, <1>2, <1>3, <1>4, Invariance, PTL DEF Spec, L!Spec, ImplementsDataList
=============================================================================
