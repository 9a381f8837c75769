---------------------------- MODULE PageMemory ----------------------------
(***************************************************************************)
(* What the pager promises to the programs that use it (pager.h, uvm.h):   *)
(* every process that calls uvm_create owns a private memory that grows    *)
(* page by page with uvm_extend and that holds, in every page, the last    *)
(* value the process stored there, however few frames the machine has and  *)
(* whatever the other processes do.  Frames, blocks and faults do not      *)
(* appear: Pager and MmuSystem are shown to implement this module.         *)
(***************************************************************************)
EXTENDS Naturals

CONSTANTS
  Pids,             \* processes
  MaxPages,         \* bound: pages one process may own
  Values,           \* contents of a page
  InitialContents,  \* contents a page may have when it is allocated
  NoContents        \* what the memory of a page that does not exist holds

VARIABLES
  status,  \* status[p]: "none" before uvm_create, "live", then "gone"
  size,    \* size[p]: number of pages uvm_extend gave to p
  mem      \* mem[pg]: contents of page pg = <<process, page index>>

memVars == <<status, size, mem>>

PageIds == Pids \X (0..(MaxPages - 1))

Init ==
  /\ status = [p \in Pids |-> "none"]
  /\ size = [p \in Pids |-> 0]
  /\ mem = [pg \in PageIds |-> NoContents]

\* uvm_create: the process gets an empty memory.
Attach(p) ==
  /\ status[p] = "none"
  /\ status' = [status EXCEPT ![p] = "live"]
  /\ UNCHANGED <<size, mem>>

\* uvm_extend: one more page, at the end of the memory of p.
Grow(p) ==
  /\ status[p] = "live"
  /\ size[p] < MaxPages
  /\ size' = [size EXCEPT ![p] = @ + 1]
  /\ \E v \in InitialContents : mem' = [mem EXCEPT ![<<p, size[p]>>] = v]
  /\ UNCHANGED status

\* The process stores v in its page i.
Store(p, i, v) ==
  /\ status[p] = "live"
  /\ i < size[p]
  /\ mem' = [mem EXCEPT ![<<p, i>>] = v]
  /\ UNCHANGED <<status, size>>

\* The process ends and its memory with it.
Leave(p) ==
  /\ status[p] = "live"
  /\ status' = [status EXCEPT ![p] = "gone"]
  /\ size' = [size EXCEPT ![p] = 0]
  /\ mem' = [pg \in PageIds |-> IF pg[1] = p THEN NoContents ELSE mem[pg]]

Next ==
  \E p \in Pids :
    \/ Attach(p)
    \/ Grow(p)
    \/ \E i \in 0..(MaxPages - 1), v \in Values : Store(p, i, v)
    \/ Leave(p)

Spec == Init /\ [][Next]_memVars
=============================================================================
