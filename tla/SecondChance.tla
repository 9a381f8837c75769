---------------------------- MODULE SecondChance ----------------------------
(***************************************************************************)
(* second_chance of pager.c, one turn of its while loop at a time.  Pager  *)
(* takes the victim in one step, with second_chance(k), Swept(k) and       *)
(* NextHand; here the loop runs as it is written, call after call, and is  *)
(* shown to compute just that.  Between two calls the faults of the        *)
(* clients set accessed bits.                                              *)
(***************************************************************************)
EXTENDS Integers

CONSTANT NFrames

ASSUME NFramesAssumption == NFrames \in Nat \ {0}

Frames == 0..(NFrames - 1)
None == -1

VARIABLES
  running,           \* second_chance is being executed
  accessed,          \* accessed[f]: frame_table.frames[f].accessed
  sec_chance_index,  \* frame_table.sec_chance_index
  frame_to_swap,     \* the local variable; -1 while the loop goes on
  accessed0,         \* accessed when the call began
  start,             \* sec_chance_index when the call began
  turns              \* turns of the loop so far (bound: not counted above
                     \* NFrames + 2)

vars == <<running, accessed, sec_chance_index, frame_to_swap, accessed0, start,
          turns>>

TypeOK ==
  /\ running \in BOOLEAN
  /\ accessed \in [Frames -> {0, 1}]
  /\ sec_chance_index \in Frames
  /\ frame_to_swap \in Frames \cup {None}
  /\ accessed0 \in [Frames -> {0, 1}]
  /\ start \in Frames
  /\ turns \in Nat

\* Every frame is taken and was given its accessed bit by the fault that took
\* it: second_chance is only called then.
Init ==
  /\ running = FALSE
  /\ accessed = [f \in Frames |-> 1]
  /\ sec_chance_index = 0
  /\ frame_to_swap = None
  /\ accessed0 = accessed
  /\ start = 0
  /\ turns = 0

\* pager_fault on a page in memory.
Touch(f) ==
  /\ ~running
  /\ accessed' = [accessed EXCEPT ![f] = 1]
  /\ UNCHANGED <<running, sec_chance_index, frame_to_swap, accessed0, start, turns>>

Call ==
  /\ ~running
  /\ running' = TRUE
  /\ frame_to_swap' = None
  /\ accessed0' = accessed
  /\ start' = sec_chance_index
  /\ turns' = 0
  /\ UNCHANGED <<accessed, sec_chance_index>>

\* Mutant: the bit of a frame that is passed over is not cleared.
ClearedNot(f) == accessed

\* The accessed bits once frame f was passed over.
Cleared(f) == [accessed EXCEPT ![f] = 0]

\* Mutant: the hand stays on the victim.
AdvanceUnlessVictim(f) == IF accessed[f] = 0 THEN f ELSE (f + 1) % NFrames

\* The hand after its turn at frame f.
Advance(f) == (f + 1) % NFrames

\* One turn of the loop.
Turn ==
  /\ running
  /\ frame_to_swap = None
  /\ IF accessed[sec_chance_index] = 0
     THEN frame_to_swap' = sec_chance_index /\ UNCHANGED accessed
     ELSE accessed' = Cleared(sec_chance_index) /\ UNCHANGED frame_to_swap
  /\ sec_chance_index' = Advance(sec_chance_index)
  /\ turns' = IF turns < NFrames + 2 THEN turns + 1 ELSE turns
  /\ UNCHANGED <<running, accessed0, start>>

\* The victim is returned and its frame given to the faulting page.
Return ==
  /\ running
  /\ frame_to_swap # None
  /\ running' = FALSE
  /\ accessed' = [accessed EXCEPT ![frame_to_swap] = 1]
  /\ UNCHANGED <<sec_chance_index, frame_to_swap, accessed0, start, turns>>

Next ==
  \/ \E f \in Frames : Touch(f)
  \/ Call
  \/ Turn
  \/ Return

Spec == Init /\ [][Next]_vars

-----------------------------------------------------------------------------
(* Correctness properties *)

\* The victim is known and nothing else has happened.
Found == running /\ frame_to_swap # None

\* The definitions of Pager, in the state in which the call began.
P == INSTANCE Pager
       WITH frames <- [f \in Frames |-> [accessed |-> accessed0[f]]],
            sec_chance_index <- start,
            Pids <- {}, NBlocks <- 0, MaxPages <- 0, Values <- {}, Zero <- 0,
            Junk <- 0, StaleBlocks <- {}, NoPid <- 0, NULL <- 0, Unset <- 0,
            blocks <- <<>>, pages <- <<>>, count <- <<>>, pmem <- <<>>,
            disk <- <<>>, pte <- <<>>, client <- <<>>

\* The loop ends with the frame, the bits and the hand that the single step of
\* Pager gives: Pager may treat second_chance as one function.
ComputesSecondChance ==
  Found =>
    LET k == turns - 1 IN
    /\ P!second_chance(k)
    /\ frame_to_swap = P!HandAt(k)
    /\ sec_chance_index = P!NextHand(frame_to_swap)
    /\ \A f \in Frames : accessed[f] = P!Swept(k)[f].accessed

\* A frame that was accessed since the hand last passed it is only evicted
\* when every frame was, and then it is the one the hand was at.
ReferencedFramesStay ==
  Found /\ accessed0[frame_to_swap] = 1 =>
    /\ \A f \in Frames : accessed0[f] = 1
    /\ frame_to_swap = start

\* The hand goes round once and one frame further at most (the loop of
\* second_chance has no bound of its own).
BoundedScan == turns <= NFrames + 1

-----------------------------------------------------------------------------
(* The inductive invariant *)

\* The frame the hand is at after j turns.
Hand(j) == (start + j) % NFrames

\* Turns that passed over a frame.
Passed == IF frame_to_swap = None THEN turns ELSE turns - 1

\* While the loop runs: where the hand is, and which bits it has cleared.
LoopInv ==
  running =>
    /\ turns <= NFrames + 1
    /\ Passed \in 0..NFrames
    /\ sec_chance_index = Hand(turns)
    /\ frame_to_swap # None => frame_to_swap = Hand(Passed)
    /\ \A j \in 0..(Passed - 1) : accessed0[Hand(j)] = 1
    /\ \A f \in Frames :
         accessed[f] = IF \E j \in 0..(Passed - 1) : Hand(j) = f
                       THEN 0 ELSE accessed0[f]
    /\ frame_to_swap # None => accessed[frame_to_swap] = 0

IInv == TypeOK /\ (~running => turns <= NFrames + 1) /\ LoopInv
=============================================================================
