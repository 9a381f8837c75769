------------------------- MODULE SecondChanceProofs -------------------------
(***************************************************************************)
(* Proofs about SecondChance: the loop of second_chance keeps its types,   *)
(* ends within one round and a turn, spares the frames accessed since the  *)
(* hand last passed, and computes the step that Pager takes.               *)
(***************************************************************************)
EXTENDS SecondChance, TLAPS

-----------------------------------------------------------------------------
(* The hand goes round *)

LEMMA ModFacts ==
  ASSUME NEW n \in Nat, n <= 2 * NFrames
  PROVE  /\ n < NFrames => n % NFrames = n
         /\ NFrames <= n /\ n < 2 * NFrames => n % NFrames = n - NFrames
         /\ n = 2 * NFrames => n % NFrames = 0
BY NFramesAssumption

LEMMA HandInFrames ==
  ASSUME TypeOK, NEW j \in 0..(NFrames + 1)
  PROVE  Hand(j) \in Frames
<1>1. start \in Nat /\ start < NFrames /\ NFrames \in Nat /\ j \in Nat
  BY NFramesAssumption DEF TypeOK, Frames
<1>2. start + j \in Nat /\ start + j <= 2 * NFrames
  BY <1>1
<1> QED
  BY <1>1, <1>2, ModFacts DEF Hand, Frames

\* The hand after j turns moves to its place after j + 1 turns.
LEMMA HandAdvances ==
  ASSUME TypeOK, NEW j \in 0..NFrames
  PROVE  Advance(Hand(j)) = Hand(j + 1)
<1>1. start \in Nat /\ start < NFrames /\ NFrames \in Nat /\ j \in Nat
  BY NFramesAssumption DEF TypeOK, Frames
<1> DEFINE n == start + j
<1>2. n \in Nat /\ n < 2 * NFrames /\ n + 1 <= 2 * NFrames /\ start + (j + 1) = n + 1
  BY <1>1
<1>3. CASE n < NFrames
  BY <1>1, <1>2, <1>3, ModFacts DEF Advance, Hand
<1>4. CASE NFrames <= n
  <2>1. n % NFrames = n - NFrames
    <3>1. n <= 2 * NFrames
      BY <1>1, <1>2
    <3> HIDE DEF n
    <3> QED
      BY <1>2, <1>4, <3>1, ModFacts
  <2>2. (n - NFrames) + 1 \in Nat /\ (n - NFrames) + 1 <= NFrames
    BY <1>1, <1>2, <1>4
  <2>3. CASE n + 1 < 2 * NFrames
    <3>1. ((n - NFrames) + 1) % NFrames = (n - NFrames) + 1
      BY <1>1, <2>2, <2>3, <1>2, ModFacts
    <3>2. (n + 1) % NFrames = (n + 1) - NFrames
      BY <1>1, <1>2, <1>4, <2>3, ModFacts
    <3> QED
      BY <1>1, <1>2, <2>1, <3>1, <3>2 DEF Advance, Hand
  <2>4. CASE n + 1 = 2 * NFrames
    <3>1. (n - NFrames) + 1 = NFrames
      BY <1>1, <2>4
    <3>2. NFrames % NFrames = 0 /\ (n + 1) % NFrames = 0
      BY <1>1, <2>4, ModFacts, NFramesAssumption
    <3> QED
      BY <1>2, <2>1, <3>1, <3>2 DEF Advance, Hand
  <2> QED
    BY <1>1, <1>2, <2>3, <2>4
<1> QED
  BY <1>1, <1>2, <1>3, <1>4

\* In one round the hand is at every frame,
LEMMA HandCovers ==
  ASSUME TypeOK, NEW f \in Frames
  PROVE  \E j \in 0..(NFrames - 1) : Hand(j) = f
<1>1. start \in Nat /\ start < NFrames /\ NFrames \in Nat /\ f \in Nat /\ f < NFrames
  BY NFramesAssumption DEF TypeOK, Frames
<1>2. CASE start <= f
  <2>1. f - start \in 0..(NFrames - 1) /\ start + (f - start) = f
    BY <1>1, <1>2
  <2>2. f % NFrames = f
    BY <1>1, ModFacts
  <2> QED
    BY <2>1, <2>2 DEF Hand
<1>3. CASE f < start
  <2>1. /\ (f - start) + NFrames \in 0..(NFrames - 1)
        /\ start + ((f - start) + NFrames) = f + NFrames
    BY <1>1, <1>3
  <2>2. (f + NFrames) % NFrames = f
    BY <1>1, ModFacts
  <2> QED
    BY <2>1, <2>2 DEF Hand
<1> QED
  BY <1>1, <1>2, <1>3

\* and at none twice.
LEMMA HandsDiffer ==
  ASSUME TypeOK, NEW i \in 0..(NFrames - 1), NEW j \in 0..(NFrames - 1), i < j
  PROVE  Hand(i) # Hand(j)
<1>1. start \in Nat /\ start < NFrames /\ NFrames \in Nat /\ i \in Nat /\ j \in Nat
  BY NFramesAssumption DEF TypeOK, Frames
<1>2. start + i \in Nat /\ start + i < 2 * NFrames
  BY <1>1
<1>3. start + j \in Nat /\ start + j < 2 * NFrames
  BY <1>1
<1>4. Hand(i) = IF start + i < NFrames THEN start + i ELSE (start + i) - NFrames
  BY <1>1, <1>2, ModFacts DEF Hand
<1>5. Hand(j) = IF start + j < NFrames THEN start + j ELSE (start + j) - NFrames
  BY <1>1, <1>3, ModFacts DEF Hand
<1> QED
  BY <1>1, <1>4, <1>5

LEMMA HandRound ==
  ASSUME TypeOK
  PROVE  Hand(0) = start /\ Hand(NFrames) = start
<1>1. start \in Nat /\ start < NFrames /\ NFrames \in Nat
  BY NFramesAssumption DEF TypeOK, Frames
<1> QED
  BY <1>1, ModFacts DEF Hand

-----------------------------------------------------------------------------
(* The invariant *)

LEMMA InitInv == Init => IInv
<1>1. 0 \in Frames
  BY NFramesAssumption DEF Frames
<1> SUFFICES ASSUME Init PROVE IInv
  OBVIOUS
<1>2. TypeOK
  <2>1. accessed \in [Frames -> {0, 1}]
    BY DEF Init
  <2> QED
    BY <1>1, <2>1 DEF Init, TypeOK
<1>3. turns <= NFrames + 1
  BY NFramesAssumption DEF Init
<1>4. LoopInv
  BY DEF Init, LoopInv
<1> QED
  BY <1>2, <1>3, <1>4 DEF IInv

\* A turn of the loop that finds the bit clear takes that frame.
LEMMA TurnFinds ==
  ASSUME IInv, Turn, accessed[sec_chance_index] = 0
  PROVE  LoopInv'
<1>1. /\ turns \in 0..NFrames /\ Passed = turns
      /\ sec_chance_index = Hand(turns) /\ turns' = turns + 1
  BY NFramesAssumption DEF IInv, TypeOK, LoopInv, Turn, Passed
<1>2. sec_chance_index' = Hand(turns + 1)
  BY <1>1, HandAdvances DEF IInv, Turn
<1>3. sec_chance_index \in Frames /\ sec_chance_index # None
  BY DEF IInv, TypeOK, Frames, None
<1>4. Passed' = turns
  BY <1>1, <1>3 DEF Turn, Passed
<1>5. Hand(turns + 1)' = Hand(turns + 1)' /\ \A j : Hand(j)' = Hand(j)
  BY DEF Turn, Hand
<1>6. turns' <= NFrames + 1 /\ Passed' \in 0..NFrames
  BY <1>1, <1>4, NFramesAssumption
<1>7. (sec_chance_index = Hand(turns))'
  BY <1>1, <1>2 DEF Turn, Hand
<1>8. (frame_to_swap # None => frame_to_swap = Hand(Passed))'
  BY <1>1, <1>4 DEF Turn, Hand
<1>9. (\A j \in 0..(Passed - 1) : accessed0[Hand(j)] = 1)'
  BY <1>1, <1>4 DEF IInv, LoopInv, Turn, Hand
<1>10. (\A f \in Frames :
          accessed[f] = IF \E j \in 0..(Passed - 1) : Hand(j) = f
                        THEN 0 ELSE accessed0[f])'
  BY <1>1, <1>4 DEF IInv, LoopInv, Turn, Hand
<1>11. (frame_to_swap # None => accessed[frame_to_swap] = 0)'
  BY DEF Turn
<1> QED
  BY <1>6, <1>7, <1>8, <1>9, <1>10, <1>11 DEF LoopInv

\* A turn that finds it set passes over the frame: the hand has not been round.
LEMMA TurnPasses ==
  ASSUME IInv, Turn, accessed[sec_chance_index] # 0
  PROVE  LoopInv'
<1>1. /\ turns \in 0..NFrames /\ Passed = turns
      /\ sec_chance_index = Hand(turns) /\ turns' = turns + 1
  BY NFramesAssumption DEF IInv, TypeOK, LoopInv, Turn, Passed
<1>2. sec_chance_index \in Frames
  BY DEF IInv, TypeOK
<1>3. ~ \E j \in 0..(turns - 1) : Hand(j) = sec_chance_index
  BY <1>1, <1>2 DEF IInv, LoopInv, Turn
<1>4. accessed0[sec_chance_index] = 1
  <2>1. accessed[sec_chance_index] = accessed0[sec_chance_index]
    BY <1>1, <1>2, <1>3 DEF IInv, LoopInv, Turn
  <2> QED
    BY <1>2, <2>1 DEF IInv, TypeOK
<1>5. turns # NFrames
  <2>1. ASSUME turns = NFrames PROVE FALSE
    <3>1. Hand(0) = sec_chance_index
      BY <1>1, <2>1, HandRound DEF IInv
    <3>2. 0 \in 0..(turns - 1)
      BY <2>1, NFramesAssumption
    <3> QED
      BY <1>3, <3>1, <3>2
  <2> QED
    BY <2>1
<1>6. sec_chance_index' = Hand(turns + 1)
  BY <1>1, HandAdvances DEF IInv, Turn
<1>7. frame_to_swap' = None /\ Passed' = turns + 1
  BY <1>1 DEF Turn, Passed
<1>8. accessed' = [accessed EXCEPT ![sec_chance_index] = 0]
  BY DEF Turn, Cleared
<1>9. turns' <= NFrames + 1 /\ Passed' \in 0..NFrames
  BY <1>1, <1>5, <1>7, NFramesAssumption
<1>10. (sec_chance_index = Hand(turns))'
  BY <1>1, <1>6 DEF Turn, Hand
<1>11. (\A j \in 0..(Passed - 1) : accessed0[Hand(j)] = 1)'
  <2>1. ASSUME NEW j \in 0..turns PROVE accessed0[Hand(j)] = 1
    <3>1. CASE j = turns
      BY <1>1, <1>4, <3>1
    <3>2. CASE j # turns
      BY <1>1, <2>1, <3>2 DEF IInv, LoopInv, Turn
    <3> QED
      BY <3>1, <3>2
  <2>2. \A j \in 0..turns : accessed0'[Hand(j)'] = 1
    BY <2>1 DEF Turn, Hand
  <2>3. Passed' - 1 = turns
    BY <1>1, <1>7
  <2> QED
    BY <2>2, <2>3
<1>12. (\A f \in Frames :
          accessed[f] = IF \E j \in 0..(Passed - 1) : Hand(j) = f
                        THEN 0 ELSE accessed0[f])'
  <2>1. Passed' - 1 = turns /\ accessed0' = accessed0
    BY <1>1, <1>7 DEF Turn
  <2>2. ASSUME NEW f \in Frames
        PROVE  accessed'[f] = IF \E j \in 0..turns : Hand(j) = f
                              THEN 0 ELSE accessed0[f]
    <3>1. CASE f = sec_chance_index
      <4>1. accessed'[f] = 0
        BY <1>2, <1>8, <3>1 DEF IInv, TypeOK
      <4>2. turns \in 0..turns /\ Hand(turns) = f
        BY <1>1, <3>1
      <4> QED
        BY <4>1, <4>2
    <3>2. CASE f # sec_chance_index
      <4>1. accessed'[f] = accessed[f]
        BY <1>8, <3>2 DEF IInv, TypeOK
      <4>2. accessed[f] = IF \E j \in 0..(turns - 1) : Hand(j) = f
                          THEN 0 ELSE accessed0[f]
        BY <1>1 DEF IInv, LoopInv, Turn
      <4>3. (\E j \in 0..turns : Hand(j) = f) <=> (\E j \in 0..(turns - 1) : Hand(j) = f)
        <5>1. ASSUME NEW j \in 0..turns, Hand(j) = f PROVE j \in 0..(turns - 1)
          <6>1. j # turns
            BY <1>1, <3>2, <5>1
          <6> QED
            BY <1>1, <6>1
        <5>2. \A j \in 0..(turns - 1) : j \in 0..turns
          BY <1>1
        <5> QED
          BY <5>1, <5>2
      <4> QED
        BY <4>1, <4>2, <4>3
    <3> QED
      BY <3>1, <3>2
  <2>3. \A j : Hand(j)' = Hand(j)
    BY DEF Turn, Hand
  <2> QED
    BY <2>1, <2>2, <2>3
<1> QED
  BY <1>7, <1>9, <1>10, <1>11, <1>12 DEF LoopInv

LEMMA TypeStep == IInv /\ [Next]_vars => TypeOK'
<1> SUFFICES ASSUME IInv, [Next]_vars PROVE TypeOK'
  OBVIOUS
<1> USE DEF IInv
<1>1. CASE \E f \in Frames : Touch(f)
  BY <1>1 DEF Touch, TypeOK
<1>2. CASE Call
  BY <1>2 DEF Call, TypeOK
<1>3. CASE Turn
  <2>1. sec_chance_index + 1 \in Nat
    BY NFramesAssumption DEF TypeOK, Frames
  <2>2. sec_chance_index' \in Frames
    <3>1. sec_chance_index + 1 <= 2 * NFrames
      BY NFramesAssumption DEF TypeOK, Frames
    <3> QED
      BY <1>3, <2>1, <3>1, ModFacts, NFramesAssumption DEF Turn, Advance, TypeOK, Frames
  <2>3. turns' \in Nat
    BY <1>3 DEF Turn, TypeOK
  <2>4. accessed' \in [Frames -> {0, 1}]
    BY <1>3 DEF Turn, TypeOK, Cleared
  <2> QED
    BY <1>3, <2>2, <2>3, <2>4 DEF Turn, TypeOK
<1>4. CASE Return
  BY <1>4 DEF Return, TypeOK
<1>5. CASE UNCHANGED vars
  BY <1>5 DEF vars, TypeOK
<1> QED
  BY <1>1, <1>2, <1>3, <1>4, <1>5 DEF Next

LEMMA StepInv == IInv /\ [Next]_vars => IInv'
<1> SUFFICES ASSUME IInv, [Next]_vars PROVE IInv'
  OBVIOUS
<1>1. TypeOK'
  BY TypeStep
<1>2. (~running => turns <= NFrames + 1)' /\ LoopInv'
  <2>1. CASE \E f \in Frames : Touch(f)
    BY <2>1 DEF IInv, LoopInv, Touch
  <2>2. CASE Call
    <3>1. start' = sec_chance_index /\ turns' = 0 /\ running' /\ Passed' = 0
      BY <2>2 DEF Call, Passed
    <3>2. Hand(0)' = start' /\ sec_chance_index' = start'
      BY <1>1, <2>2, <3>1, HandRound, ModFacts, NFramesAssumption
      DEF Call, TypeOK, Hand, Frames
    <3>3. frame_to_swap' = None /\ accessed0' = accessed /\ accessed' = accessed
      BY <2>2 DEF Call
    <3>4. 0..(Passed' - 1) = {}
      BY <3>1
    <3> QED
      BY <3>1, <3>2, <3>3, <3>4, NFramesAssumption DEF LoopInv, Hand
  <2>3. CASE Turn
    <3>1. running'
      BY <2>3 DEF Turn
    <3> QED
      BY <2>3, <3>1, TurnFinds, TurnPasses
  <2>4. CASE Return
    BY <2>4 DEF IInv, LoopInv, Return
  <2>5. CASE UNCHANGED vars
    BY <2>5 DEF vars, IInv, LoopInv, Hand, Passed
  <2> QED
    BY <2>1, <2>2, <2>3, <2>4, <2>5 DEF Next
<1> QED
  BY <1>1, <1>2 DEF IInv

\* The inductive invariant holds in every reachable state.
THEOREM Invariance == Spec => []IInv
BY InitInv, StepInv, PTL DEF Spec

-----------------------------------------------------------------------------
(* What follows from it *)

\* When the victim was found with its bit set at the call, the hand has been
\* round.
LEMMA VictimWasSet ==
  ASSUME IInv, Found, accessed0[frame_to_swap] = 1
  PROVE  Passed = NFrames
<1>1. Passed \in 0..NFrames /\ frame_to_swap = Hand(Passed) /\ frame_to_swap \in Frames
  BY DEF IInv, TypeOK, LoopInv, Found, None
<1>2. PICK j \in 0..(Passed - 1) : Hand(j) = frame_to_swap
  BY <1>1 DEF IInv, LoopInv, Found
<1>3. ASSUME Passed # NFrames PROVE FALSE
  <2>1. Passed \in 0..(NFrames - 1) /\ j \in 0..(NFrames - 1) /\ j < Passed
    BY <1>1, <1>2, <1>3, NFramesAssumption
  <2> QED
    BY <1>1, <1>2, <2>1, HandsDiffer DEF IInv
<1> QED
  BY <1>3

LEMMA InvSpares == IInv => ReferencedFramesStay
<1> SUFFICES ASSUME IInv, Found, accessed0[frame_to_swap] = 1
             PROVE  (\A f \in Frames : accessed0[f] = 1) /\ frame_to_swap = start
  BY DEF ReferencedFramesStay
<1>1. Passed = NFrames
  BY VictimWasSet
<1>2. frame_to_swap = start
  BY <1>1, HandRound DEF IInv, LoopInv, Found
<1>3. ASSUME NEW f \in Frames PROVE accessed0[f] = 1
  BY <1>1, HandCovers DEF IInv, LoopInv, Found
<1> QED
  BY <1>2, <1>3

LEMMA InvComputes == IInv => ComputesSecondChance
<1> SUFFICES ASSUME IInv, Found PROVE ComputesSecondChance
  BY DEF ComputesSecondChance
<1> DEFINE k == turns - 1
<1>1. /\ Passed = k /\ k \in 0..NFrames
      /\ frame_to_swap = Hand(k) /\ frame_to_swap \in Frames
      /\ sec_chance_index = Hand(k + 1)
  BY NFramesAssumption DEF IInv, TypeOK, LoopInv, Found, Passed, None
<1>2. \A j : P!HandAt(j) = Hand(j)
  BY DEF P!HandAt, Hand
<1>3. \A j \in 0..(k - 1) : Hand(j) \in Frames /\ accessed0[Hand(j)] = 1
  <2>1. \A j \in 0..(k - 1) : j \in 0..(NFrames + 1)
    BY <1>1, NFramesAssumption
  <2> QED
    BY <1>1, <2>1, HandInFrames DEF IInv, LoopInv, Found
<1>4. k < NFrames => accessed0[Hand(k)] = 0
  <2>1. ASSUME k < NFrames, accessed0[Hand(k)] # 0 PROVE FALSE
    <3>1. accessed0[frame_to_swap] = 1
      BY <1>1, <2>1 DEF IInv, TypeOK
    <3> QED
      BY <1>1, <2>1, <3>1, VictimWasSet, NFramesAssumption
  <2> QED
    BY <2>1
<1>5. P!second_chance(k)
  BY <1>1, <1>2, <1>3, <1>4 DEF P!second_chance
<1>6. sec_chance_index = P!NextHand(frame_to_swap)
  BY <1>1, HandAdvances DEF P!NextHand, Advance, IInv
<1>7. ASSUME NEW f \in Frames PROVE accessed[f] = P!Swept(k)[f].accessed
  <2>1. accessed[f] = IF \E j \in 0..(k - 1) : Hand(j) = f THEN 0 ELSE accessed0[f]
    BY <1>1 DEF IInv, LoopInv, Found
  <2>2. P!Swept(k)[f].accessed = IF \E j \in 0..(k - 1) : Hand(j) = f
                                 THEN 0 ELSE accessed0[f]
    BY <1>2 DEF P!Swept, P!Frames, Frames
  <2> QED
    BY <2>1, <2>2
<1> QED
  BY <1>1, <1>2, <1>5, <1>6, <1>7 DEF ComputesSecondChance

\* The tables of the loop keep their types.
THEOREM TypeCorrect == Spec => []TypeOK
<1>1. IInv => TypeOK
  BY DEF IInv
<1> QED
  BY <1>1, Invariance, PTL

\* Each call of second_chance computes what Pager takes for one step.
THEOREM ComputesCorrect == Spec => []ComputesSecondChance
BY InvComputes, Invariance, PTL

\* A frame accessed since the hand last passed it stays unless all were.
THEOREM ReferencedAreSpared == Spec => []ReferencedFramesStay
BY InvSpares, Invariance, PTL

\* The loop takes at most NFrames + 1 turns.
THEOREM ScanIsBounded == Spec => []BoundedScan
<1>1. IInv => BoundedScan
  BY DEF IInv, LoopInv, BoundedScan
<1> QED
  BY <1>1, Invariance, PTL
=============================================================================
