---------------------------- MODULE PagerSyslog ----------------------------
(***************************************************************************)
(* pager_syslog of pager.c.  It changes no table, so it is a function of   *)
(* the pager's state: what it returns and the bytes it prints.  A page is  *)
(* a function from the offsets 0..PageSize-1 to bytes, and an address is   *)
(* its distance from UVM_BASEADDR.                                         *)
(***************************************************************************)
EXTENDS Pager, Sequences

CONSTANTS
  PageSize,  \* bytes of a page
  Wild       \* a byte read outside of pmem or at an address malloc left

ASSUME PageSizeAssumption == PageSize \in Nat \ {0}

Addresses == 0..(PageSize * MaxPages - 1)
Lengths == 0..(PageSize * MaxPages)

\* get_page: the page of p that address addr is in, or NULL.
get_page(p, addr) ==
  IF addr < PageSize * count[p] THEN <<p, addr \div PageSize>> ELSE NULL

\* The loop meets an address without a page.
Rejects(p, addr, len) ==
  \E i \in 0..(len - 1) : get_page(p, addr + i) = NULL

\* Mutant: the block number is taken for the frame number.
PhysicalAddressOfBlock(p, addr, i) ==
  pages[get_page(p, addr + i)].block_number * PageSize + i

\* The index into pmem of the i-th byte: i counts from the start of the range,
\* whatever its offset in the page and whatever page the byte is on.
PhysicalAddress(p, addr, i) ==
  pages[get_page(p, addr + i)].frame_number * PageSize + i

\* Byte n of pmem.
PmemByte(n) ==
  IF n \div PageSize \in Frames THEN pmem[n \div PageSize][n % PageSize] ELSE Wild

\* The i-th byte of buf.  isvalid is not looked at: the frame number of a page
\* that was swapped out is the one it had, that of a new page is not assigned.
Byte(p, addr, i) ==
  IF pages[get_page(p, addr + i)].frame_number = Unset THEN Wild
  ELSE PmemByte(PhysicalAddress(p, addr, i))

pager_syslog(p, addr, len) ==
  IF Rejects(p, addr, len) THEN [status |-> -1, line |-> <<>>]
  ELSE [status |-> 0, line |-> [j \in 1..len |-> Byte(p, addr, j - 1)]]

-----------------------------------------------------------------------------
(* Correctness properties *)

\* The calls a client can make: every range in the part of its address space
\* that MaxPages pages may fill, and somewhat past its end.
Call(p, addr, len) == client[p] = "live" /\ addr \in Addresses /\ len \in Lengths

\* What the process itself reads at its address addr.
ReadByte(p, addr) == Content(<<p, addr \div PageSize>>)[addr % PageSize]

\* Where the process has its address addr in pmem, while the page is in memory.
PlaceOf(p, addr) ==
  pages[<<p, addr \div PageSize>>].frame_number * PageSize + (addr % PageSize)

\* What pager_syslog does right, and how far.  A range is refused, and nothing
\* printed, exactly when some byte of it was never allocated (pager.h: "then
\* pager_syslog should return -1").  Of an accepted range the bytes on pages in memory
\* are read where the process has them exactly if the range starts at a page and they
\* are on this first page; they are then what the process itself reads there, whatever
\* was evicted, reloaded and freed before.
SyslogIsRight ==
  \A p \in Pids, addr \in Addresses, len \in Lengths :
    Call(p, addr, len) =>
      LET r == pager_syslog(p, addr, len) IN
      /\ r.status = -1 <=> len > 0 /\ addr + len > PageSize * count[p]
      /\ r.status = -1 => r.line = <<>>
      /\ r.status = 0 => \A i \in 0..(len - 1) :
           pages[<<p, (addr + i) \div PageSize>>].isvalid = 1 =>
             /\ (PhysicalAddress(p, addr, i) = PlaceOf(p, addr + i))
                  <=> (addr % PageSize = 0 /\ i < PageSize)
             /\ addr % PageSize = 0 /\ i < PageSize => r.line[i + 1] = ReadByte(p, addr + i)
=============================================================================
