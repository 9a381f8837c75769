------------------------------ MODULE DataList ------------------------------
(***************************************************************************)
(* What dlist.h promises: every list is a sequence of data pointers, and   *)
(* every call returns what the sequence says.  "out" is the last call with *)
(* its arguments and the value it returned, or Running (dlist_destroy      *)
(* gives the data to its callback, one by one, before the list is gone).   *)
(***************************************************************************)
EXTENDS Integers, Sequences, SequencesExt

CONSTANTS Lists, Data, Indices, NULL

VARIABLES
  lists,  \* lists[l]: the data of list l, for the lists that exist
  out

vars == <<lists, out>>

Call(op, l, arg, value) == <<op, l, arg, value>>

Running == Call("none", NULL, NULL, NULL)

Init ==
  /\ lists = << >>
  /\ out = Running

\* A call begins that will return later.
Begin ==
  /\ out' = Running
  /\ UNCHANGED lists

\* List l holds the data s after a call, and no other list changes.
Becomes(l, s) == lists' = [k \in DOMAIN lists \cup {l} |-> IF k = l THEN s ELSE lists[k]]

Create(l) ==
  /\ l \notin DOMAIN lists
  /\ Becomes(l, << >>)
  /\ out' = Call("create", l, NULL, NULL)

PushRight(l, d) ==
  /\ Becomes(l, Append(lists[l], d))
  /\ out' = Call("push", l, d, d)

\* A pop at either end, by itself or within dlist_destroy.
Pop(l, op) ==
  /\ lists[l] # << >>
  /\ \/ Becomes(l, Tail(lists[l])) /\ out' = Call(op, l, "left", Head(lists[l]))
     \/ Becomes(l, Front(lists[l])) /\ out' = Call(op, l, "right", Last(lists[l]))

\* An empty list has nothing to pop.
PopEmpty(l) ==
  /\ lists[l] = << >>
  /\ \E end \in {"left", "right"} : out' = Call("pop", l, end, NULL)
  /\ UNCHANGED lists

\* The first of the data that are asked for leaves the list; a null pointer
\* is never found.
FindRemove(l, wanted) ==
  LET found == {i \in DOMAIN lists[l] : lists[l][i] \in wanted \ {NULL}}
  IN IF found = {}
       THEN out' = Call("find", l, wanted, NULL) /\ UNCHANGED lists
       ELSE \E i \in found :
              /\ \A j \in found : i <= j
              /\ out' = Call("find", l, wanted, lists[l][i])
              /\ Becomes(l, RemoveAt(lists[l], i))

\* Index 0 is the first element, index -1 the last one.
Position(l, idx) == IF idx >= 0 THEN idx + 1 ELSE Len(lists[l]) + idx + 1

GetIndex(l, idx) ==
  /\ out' = Call("get", l, idx, IF Position(l, idx) \in DOMAIN lists[l]
                                  THEN lists[l][Position(l, idx)] ELSE NULL)
  /\ UNCHANGED lists

SetIndex(l, idx, d) ==
  /\ out' = Call("set", l, idx, d)
  /\ IF Position(l, idx) \in DOMAIN lists[l]
       THEN Becomes(l, [lists[l] EXCEPT ![Position(l, idx)] = d])
       ELSE UNCHANGED lists

Destroy(l) ==
  /\ lists[l] = << >>
  /\ lists' = [k \in DOMAIN lists \ {l} |-> lists[k]]
  /\ out' = Call("destroyed", l, NULL, NULL)

Next ==
  \/ Begin
  \/ \E l \in Lists : Create(l)
  \/ \E l \in DOMAIN lists :
       \/ \E d \in Data \cup {NULL} : PushRight(l, d)
       \/ Pop(l, "pop") \/ Pop(l, "destroy") \/ PopEmpty(l) \/ Destroy(l)
       \/ \E wanted \in SUBSET Data : FindRemove(l, wanted)
       \/ \E idx \in Indices :
            GetIndex(l, idx) \/ \E d \in Data \cup {NULL} : SetIndex(l, idx, d)

Spec == Init /\ [][Next]_vars
=============================================================================
