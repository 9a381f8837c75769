------------------------------ MODULE MCPager ------------------------------
(* Pager and pager_syslog on small instances: pages of two bytes, which are *)
(* as many as it takes to tell the bytes of a page apart.                   *)
EXTENDS PagerSyslog, TLC

CONSTANTS z, a, b  \* bytes

\* Processes are interchangeable.
PidSymmetry == Permutations(Pids)

MCZero == [o \in 0..1 |-> z]
MCStored == [o \in 0..1 |-> IF o = 0 THEN a ELSE b]
MCValues == {MCZero, MCStored}
=============================================================================
