------------------------------- MODULE Dlist -------------------------------
(***************************************************************************)
(* The doubly linked list of dlist.c: nodes on the heap that point at each *)
(* other, taken with malloc and given back with free.  pager.c holds a     *)
(* copy of it, whose dlist_destroy pops at the other end.  free leaves     *)
(* pointers to the node itself behind, which nobody should follow.  The    *)
(* loops of dlist_find_remove, of the two index functions and of           *)
(* dlist_destroy take one step per iteration; "call" holds their variables.*)
(***************************************************************************)
EXTENDS Integers, FiniteSets

CONSTANTS
  Lists,    \* addresses of struct dlist
  Nodes,    \* addresses of struct dnode
  Data,     \* data pointers
  Indices,  \* indices the callers ask for
  NULL

ASSUME DlistAssumption ==
  /\ NULL \notin Nodes \cup Data \cup Lists
  /\ Indices \subseteq Int

VARIABLES
  dl,       \* dl[l]: struct dlist, with head, tail and count
  created,  \* the lists that are allocated
  node,     \* node[n]: struct dnode, with prev, next and data
  alive,    \* the nodes that are allocated
  call,     \* the call with a loop that is running
  out,      \* the last call and what it returned, or Running
  order     \* history: order[l][i] is the i-th node of list l

vars == <<dl, created, node, alive, call, out, order>>

Value == Data \cup {NULL}
Pointer == Nodes \cup {NULL}
NoCall == [op |-> "none", list |-> NULL, curr |-> NULL, idx |-> 0, arg |-> NULL, pos |-> 0]

TypeOK ==
  /\ dl \in [Lists -> [head : Pointer, tail : Pointer, count : Nat]]
  /\ created \subseteq Lists
  /\ node \in [Nodes -> [prev : Pointer, next : Pointer, data : Value]]
  /\ alive \subseteq Nodes
  /\ call.op \in {"none", "find", "get", "set", "destroy"}
  /\ call.op # "none" => call.list \in created
  /\ call.curr \in Pointer
  /\ call.idx \in Int

Running == <<"none", NULL, NULL, NULL>>
Freed(n) == [prev |-> n, next |-> n, data |-> NULL]

Init ==
  /\ dl = [l \in Lists |-> [head |-> NULL, tail |-> NULL, count |-> 0]]
  /\ created = {}
  /\ node = [n \in Nodes |-> Freed(n)]
  /\ alive = {}
  /\ call = NoCall
  /\ out = Running
  /\ order = [l \in Lists |-> << >>]

Returns(op, l, arg, value) == out' = <<op, l, arg, value>>

\* if(n) n->next = v, and the same for prev.
SetNext(heap, n, v) == IF n = NULL THEN heap ELSE [heap EXCEPT ![n].next = v]
SetPrev(heap, n, v) == IF n = NULL THEN heap ELSE [heap EXCEPT ![n].prev = v]

\* free(n), when the pointers have become those of heap.
Free(heap, n) ==
  /\ alive' = alive \ {n}
  /\ node' = [heap EXCEPT ![n] = Freed(n)]

\* The history of a list whose i-th node is taken out.
Without(s, i) == [j \in 1..(Cardinality(DOMAIN s) - 1) |-> IF j < i THEN s[j] ELSE s[j + 1]]

-----------------------------------------------------------------------------
(* The calls without a loop *)

dlist_create(l) ==
  /\ call.op = "none"
  /\ l \in Lists \ created
  /\ created' = created \cup {l}
  /\ dl' = [dl EXCEPT ![l] = [head |-> NULL, tail |-> NULL, count |-> 0]]
  /\ Returns("create", l, NULL, NULL)
  /\ UNCHANGED <<node, alive, call, order>>

\* Mutant: the node is not counted.
PushedUncounted(s, n) == [head |-> IF s.head = NULL THEN n ELSE s.head, tail |-> n, count |-> s.count]

\* The list once node n is its last one.
Pushed(s, n) == [head |-> IF s.head = NULL THEN n ELSE s.head, tail |-> n, count |-> s.count + 1]

dlist_push_right(l, n, d) ==
  /\ call.op = "none"
  /\ l \in created
  /\ n \in Nodes \ alive
  /\ alive' = alive \cup {n}
  /\ node' = SetNext([node EXCEPT ![n] = [prev |-> dl[l].tail, next |-> NULL, data |-> d]],
                     dl[l].tail, n)
  /\ dl' = [dl EXCEPT ![l] = Pushed(@, n)]
  /\ order' = [order EXCEPT ![l] =
                 [i \in 1..(dl[l].count + 1) |-> IF i = dl[l].count + 1 THEN n ELSE @[i]]]
  /\ Returns("push", l, d, d)
  /\ UNCHANGED <<created, call>>

dlist_empty(l) == dl[l].head = NULL

\* The list without its first, or its last, node.
LeftPopped(s) ==
  LET next == node[s.head].next
  IN [head |-> next, tail |-> IF next = NULL THEN NULL ELSE s.tail, count |-> s.count - 1]
RightPopped(s) ==
  LET prev == node[s.tail].prev
  IN [head |-> IF prev = NULL THEN NULL ELSE s.head, tail |-> prev, count |-> s.count - 1]

\* Mutant: the new tail still points at the freed node.
UnlinkRightNot(l) == node

\* The heap once the neighbour of the popped node does not point at it.
UnlinkLeft(l) == SetPrev(node, node[dl[l].head].next, NULL)
UnlinkRight(l) == SetNext(node, node[dl[l].tail].prev, NULL)

\* The pops of a list that is not empty, for dlist_destroy too.
PopLeft(l, op) ==
  /\ ~dlist_empty(l)
  /\ Returns(op, l, "left", node[dl[l].head].data)
  /\ Free(UnlinkLeft(l), dl[l].head)
  /\ dl' = [dl EXCEPT ![l] = LeftPopped(@)]
  /\ order' = [order EXCEPT ![l] = Without(@, 1)]

PopRight(l, op) ==
  /\ ~dlist_empty(l)
  /\ Returns(op, l, "right", node[dl[l].tail].data)
  /\ Free(UnlinkRight(l), dl[l].tail)
  /\ dl' = [dl EXCEPT ![l] = RightPopped(@)]
  /\ order' = [order EXCEPT ![l] = Without(@, dl[l].count)]

PopEmpty(l, end) ==
  /\ dlist_empty(l)
  /\ Returns("pop", l, end, NULL)
  /\ UNCHANGED <<dl, node, alive, order>>

dlist_pop_left(l) ==
  /\ call.op = "none"
  /\ l \in created
  /\ PopEmpty(l, "left") \/ PopLeft(l, "pop")
  /\ UNCHANGED <<created, call>>

dlist_pop_right(l) ==
  /\ call.op = "none"
  /\ l \in created
  /\ PopEmpty(l, "right") \/ PopRight(l, "pop")
  /\ UNCHANGED <<created, call>>

-----------------------------------------------------------------------------
(* The calls with a loop *)

\* The loop of a call starts at node n, the "pos"-th of the list.
Start(op, l, n, idx, arg, pos) ==
  /\ call.op = "none"
  /\ l \in created
  /\ call' = [op |-> op, list |-> l, curr |-> n, idx |-> idx, arg |-> arg, pos |-> pos]
  /\ out' = Running
  /\ UNCHANGED <<dl, created, node, alive, order>>

Goto(n, idx, pos) ==
  /\ call' = [call EXCEPT !.curr = n, !.idx = idx, !.pos = pos]
  /\ UNCHANGED <<dl, created, node, alive, out, order>>

\* "wanted": the data for which the comparison of the caller returns zero.
dlist_find_remove(l, wanted) == Start("find", l, dl[l].head, 0, wanted, 1)

Skipped == node[call.curr].data = NULL \/ node[call.curr].data \notin call.arg

FindNext ==
  /\ call.op = "find"
  /\ call.curr # NULL
  /\ Skipped
  /\ Goto(node[call.curr].next, 0, call.pos + 1)

\* The heap once both neighbours of node n point past it.
Relink(n) == SetPrev(SetNext(node, node[n].prev, node[n].next), node[n].next, node[n].prev)

FindRemove ==
  LET l == call.list
      n == call.curr
  IN /\ call.op = "find"
     /\ n # NULL
     /\ ~Skipped
     /\ dl' = [dl EXCEPT ![l] = [head |-> IF @.head = n THEN node[n].next ELSE @.head,
                                 tail |-> IF @.tail = n THEN node[n].prev ELSE @.tail,
                                 count |-> @.count - 1]]
     /\ Free(Relink(n), n)
     /\ order' = [order EXCEPT ![l] = Without(@, call.pos)]
     /\ Returns("find", l, call.arg, node[n].data)
     /\ call' = NoCall
     /\ UNCHANGED created

FindNothing ==
  /\ call.op = "find"
  /\ call.curr = NULL
  /\ Returns("find", call.list, call.arg, NULL)
  /\ call' = NoCall
  /\ UNCHANGED <<dl, created, node, alive, order>>

\* Where the loop of dlist_get_index and dlist_set_index starts.
FromEnd(op, l, idx, arg) ==
  IF idx >= 0 THEN Start(op, l, dl[l].head, idx, arg, 1)
              ELSE Start(op, l, dl[l].tail, idx, arg, dl[l].count)

dlist_get_index(l, idx) == FromEnd("get", l, idx, idx)
dlist_set_index(l, idx, d) == FromEnd("set", l, idx, <<idx, d>>)

\* Mutant: idx++ instead of ++idx.
MoreBackwardLate == call.idx < 0

\* The idx-- and ++idx of the loop conditions are not zero.
MoreForward == call.idx > 0
MoreBackward == call.idx + 1 < 0

IndexStep ==
  /\ call.op \in {"get", "set"}
  /\ call.curr # NULL
  /\ \/ MoreForward /\ Goto(node[call.curr].next, call.idx - 1, call.pos + 1)
     \/ MoreBackward /\ Goto(node[call.curr].prev, call.idx + 1, call.pos - 1)

IndexEnds ==
  /\ call.op \in {"get", "set"}
  /\ call.curr = NULL \/ ~(MoreForward \/ MoreBackward)
  /\ IF call.op = "get"
       THEN /\ Returns("get", call.list, call.arg,
                       IF call.curr = NULL THEN NULL ELSE node[call.curr].data)
            /\ UNCHANGED node
       ELSE /\ Returns("set", call.list, call.arg[1], call.arg[2])
            /\ node' = IF call.curr = NULL THEN node
                         ELSE [node EXCEPT ![call.curr].data = call.arg[2]]
  /\ call' = NoCall
  /\ UNCHANGED <<dl, created, alive, order>>

\* dlist.c pops at the left end, the copy in pager.c at the right end.
dlist_destroy(l, end) == Start("destroy", l, NULL, 0, end, 0)

DestroyPops ==
  /\ call.op = "destroy"
  /\ IF call.arg = "left" THEN PopLeft(call.list, "destroy") ELSE PopRight(call.list, "destroy")
  /\ UNCHANGED <<created, call>>

\* Mutant: the list is freed before the loop has ended.
LoopEndsEarly(l) == dl[l].count <= 1
LoopEnds(l) == dlist_empty(l)

DestroyEnds ==
  /\ call.op = "destroy"
  /\ LoopEnds(call.list)
  /\ created' = created \ {call.list}
  /\ Returns("destroyed", call.list, NULL, NULL)
  /\ call' = NoCall
  /\ UNCHANGED <<dl, node, alive, order>>

Next ==
  \/ \E l \in Lists :
       \/ dlist_create(l) \/ dlist_pop_left(l) \/ dlist_pop_right(l)
       \/ \E n \in Nodes, d \in Value : dlist_push_right(l, n, d)
       \/ \E wanted \in SUBSET Data : dlist_find_remove(l, wanted)
       \/ \E idx \in Indices : dlist_get_index(l, idx) \/ \E d \in Value : dlist_set_index(l, idx, d)
       \/ \E end \in {"left", "right"} : dlist_destroy(l, end)
  \/ FindNext \/ FindRemove \/ FindNothing
  \/ IndexStep \/ IndexEnds
  \/ DestroyPops \/ DestroyEnds

Spec == Init /\ [][Next]_vars

-----------------------------------------------------------------------------
(* Correctness properties *)

NodesOf(l) == {order[l][i] : i \in DOMAIN order[l]}

\* The pointers of every list agree in both directions and with its head, its
\* tail and its count, whatever the history of its calls was and whatever stale
\* pointers the freed nodes hold.  Head, tail and count then tell the same of an
\* empty list, as dlist_empty and the pops assert.
LinksAgree ==
  \A l \in created :
    LET n == dl[l].count
    IN /\ DOMAIN order[l] = 1..n
       /\ n >= 0
       /\ dl[l].head = IF n = 0 THEN NULL ELSE order[l][1]
       /\ dl[l].tail = IF n = 0 THEN NULL ELSE order[l][n]
       /\ \A i \in 1..n :
            /\ node[order[l][i]].next = IF i = n THEN NULL ELSE order[l][i + 1]
            /\ node[order[l][i]].prev = IF i = 1 THEN NULL ELSE order[l][i - 1]

\* Every allocated node is in exactly one place of one list: no node leaks, none
\* is used after free or freed twice, and no list reaches into another one.
NodesAreAccountedFor ==
  /\ alive = UNION {NodesOf(l) : l \in created}
  /\ \A l, k \in created : \A i \in DOMAIN order[l], j \in DOMAIN order[k] :
       order[l][i] = order[k][j] => l = k /\ i = j

\* The node at which the loop of a call stands is where the loop counter says,
\* and is still allocated.
LoopIsInList ==
  /\ DOMAIN call = DOMAIN NoCall
  /\ call.pos \in Int
  /\ call.op = "set" => call.arg[2] \in Value
  /\ call.op \in {"find", "get", "set"} =>
       call.curr = IF call.pos \in DOMAIN order[call.list] THEN order[call.list][call.pos] ELSE NULL

\* A list that is not allocated has no history.
HistoryFits ==
  /\ DOMAIN order = Lists
  /\ \A l \in Lists \ created : DOMAIN order[l] = {}

\* What a loop has passed: dlist_find_remove nothing that is asked for, the index
\* functions as many nodes as are missing from their counter.
LoopCounts ==
  LET n == dl[call.list].count
      Tracks(i) ==
        IF i >= 0 THEN call.idx >= 0 /\ call.pos >= 1 /\ call.pos + call.idx = i + 1
                  ELSE call.idx < 0 /\ call.pos <= n /\ call.pos + call.idx = n + i
  IN /\ call.op = "find" =>
          /\ call.arg \in SUBSET Data
          /\ call.pos >= 1
          /\ \A j \in 1..(call.pos - 1) :
               j <= n => node[order[call.list][j]].data \notin call.arg \ {NULL}
     /\ call.op = "get" => call.arg \in Indices /\ Tracks(call.arg)
     /\ call.op = "set" => call.arg \in Indices \X Value /\ Tracks(call.arg[1])
     /\ call.op = "destroy" => call.arg \in {"left", "right"}

\* The inductive invariant.
IInv ==
  /\ TypeOK
  /\ LinksAgree
  /\ NodesAreAccountedFor
  /\ LoopIsInList
  /\ HistoryFits

-----------------------------------------------------------------------------
(* The promise of dlist.h *)

Contents(l) == [i \in DOMAIN order[l] |-> node[order[l][i]].data]

L == INSTANCE DataList WITH lists <- [l \in created |-> Contents(l)]

\* The pointer program implements the sequences of dlist.h: every call returns
\* what the sequence says, and changes no list but its own.
ImplementsDataList == L!Spec
=============================================================================
