------------------------- MODULE ControlBlockProofs -------------------------
(***************************************************************************)
(* Proofs about ControlBlock, for any sets of wakers and blocks.           *)
(***************************************************************************)
EXTENDS ControlBlock, TLAPS

\* A block is referred to by the thread that waits on it and by the wakers
\* that have upgraded it, so that New takes none that is in use.
Referred ==
  /\ pc = "run" \/ (cur \in Block /\ Owner \in refs[cur])
  /\ \A w \in Waker : at[w] = "idle" \/ (held[w] \in Block /\ w \in refs[held[w]])

\* Who unparks, or has done so, has cleared the flag, and it stays cleared.
Cleared ==
  /\ \A w \in Waker : at[w] = "unpark" => ~blocked[held[w]]
  /\ \A b \in unparked : ~blocked[b]

Inv == TypeOK /\ Referred /\ Cleared /\ SignalArrives /\ WakesOnce

LEMMA InvInit == Init => Inv
BY OwnerAssumption
   DEF Init, Inv, TypeOK, Referred, Cleared, SignalArrives, WakesOnce, Asleep

\* The steps of the thread that waits.
LEMMA OwnerInv ==
  ASSUME Inv, OwnerStep \/ SkipWait \/ Timeout \/ ForeignUnpark
  PROVE  Inv'
<1> USE DEF Inv, TypeOK, Referred, Cleared, SignalArrives, WakesOnce, Asleep,
            ownerVars, wakerVars
<1>1. CASE CallWait      BY <1>1 DEF CallWait
<1>2. CASE Test          BY <1>2 DEF Test
<1>3. CASE Park          BY <1>3 DEF Park
<1>4. CASE Unparked      BY <1>4 DEF Unparked
<1>5. CASE Leave
  <2>1. TypeOK'          BY <1>5 DEF Leave
  <2>2. Referred'        BY <1>5, OwnerAssumption DEF Leave
  <2>3. Cleared' /\ SignalArrives' /\ WakesOnce'  BY <1>5 DEF Leave
  <2> QED  BY <2>1, <2>2, <2>3
<1>6. CASE SkipWait      BY <1>6 DEF SkipWait
<1>7. CASE Timeout       BY <1>7 DEF Timeout
<1>8. CASE ForeignUnpark BY <1>8 DEF ForeignUnpark
<1> QED  BY <1>1, <1>2, <1>3, <1>4, <1>5, <1>6, <1>7, <1>8 DEF OwnerStep

\* A new wait begins, on a block nobody refers to.
LEMMA NewInv ==
  ASSUME Inv, NEW b \in Block, New(b)
  PROVE  Inv'
<1> USE DEF Inv, TypeOK, Referred, Cleared, SignalArrives, WakesOnce, Asleep, wakerVars
<1>1. TypeOK'  BY DEF New
<1>2. \A w \in Waker : at[w] # "idle" => held[w] # b  BY DEF New
<1>3. Referred'  BY <1>2 DEF New
<1>4. Cleared'  BY <1>2 DEF New
<1>5. SignalArrives' /\ WakesOnce'  BY DEF New
<1> QED  BY <1>1, <1>3, <1>4, <1>5

\* The steps of the threads that wake.
LEMMA WakerInv ==
  ASSUME Inv, NEW w \in Waker, WakerStep(w) \/ \E b \in Block : Upgrade(w, b)
  PROVE  Inv'
<1> USE DEF Inv, TypeOK, Referred, Cleared, SignalArrives, WakesOnce, Asleep, ownerVars
<1>1. CASE Swap(w)
  <2>1. TypeOK'       BY <1>1 DEF Swap
  <2>2. Referred'     BY <1>1 DEF Swap
  <2>3. Cleared'      BY <1>1 DEF Swap
  <2>4. SignalArrives'  BY <1>1 DEF Swap
  <2>5. WakesOnce'    BY <1>1 DEF Swap
  <2> QED  BY <2>1, <2>2, <2>3, <2>4, <2>5
<1>2. CASE Unpark(w)
  <2>1. TypeOK' /\ Referred' /\ Cleared'  BY <1>2 DEF Unpark
  <2>2. SignalArrives' /\ WakesOnce'      BY <1>2 DEF Unpark
  <2> QED  BY <2>1, <2>2
<1>3. CASE Release(w)
  <2>1. TypeOK'       BY <1>3 DEF Release
  <2>2. Referred'     BY <1>3, OwnerAssumption DEF Release
  <2>3. Cleared' /\ SignalArrives' /\ WakesOnce'  BY <1>3 DEF Release
  <2> QED  BY <2>1, <2>2, <2>3
<1>4. ASSUME NEW b \in Block, Upgrade(w, b)  PROVE Inv'
  <2>1. TypeOK'       BY <1>4 DEF Upgrade
  <2>2. Referred'     BY <1>4 DEF Upgrade
  <2>3. Cleared' /\ SignalArrives' /\ WakesOnce'  BY <1>4 DEF Upgrade
  <2> QED  BY <2>1, <2>2, <2>3
<1> QED  BY <1>1, <1>2, <1>3, <1>4 DEF WakerStep

LEMMA InvStep == Inv /\ [Next]_vars => Inv'
<1> SUFFICES ASSUME Inv, [Next]_vars PROVE Inv'  OBVIOUS
<1>1. CASE UNCHANGED vars
  BY <1>1 DEF vars, Inv, TypeOK, Referred, Cleared, SignalArrives, WakesOnce, Asleep
<1>2. CASE Next  BY <1>2, OwnerInv, NewInv, WakerInv DEF Next
<1> QED  BY <1>1, <1>2

\* Types are respected.
THEOREM TypeCorrect == Spec => []TypeOK
<1>1. Inv => TypeOK  BY DEF Inv
<1> QED  BY <1>1, InvInit, InvStep, PTL DEF Spec

\* A thread that sleeps on a block set to changed has a token, or is about to
\* be given one, whatever happens between its tests of the flag.
THEOREM NoSignalIsLost == Spec => []SignalArrives
<1>1. Inv => SignalArrives  BY DEF Inv
<1> QED  BY <1>1, InvInit, InvStep, PTL DEF Spec

\* Of the threads that set a block to changed one unparks the sleeper, once.
THEOREM OneWakes == Spec => []WakesOnce
<1>1. Inv => WakesOnce  BY DEF Inv
<1> QED  BY <1>1, InvInit, InvStep, PTL DEF Spec

-----------------------------------------------------------------------------
(* Every step is one of the latch or leaves the latch alone.               *)

LEMMA LatchInit == Init => L!Init
BY DEF Init, L!Init, Asleep

LEMMA LatchStep == Inv /\ [Next]_vars => [L!Next]_(L!vars)
<1> SUFFICES ASSUME Inv, [Next]_vars PROVE [L!Next]_(L!vars)  OBVIOUS
<1> USE DEF Inv, TypeOK, Referred, Asleep, L!vars, L!Next, ownerVars, wakerVars
<1>1. CASE UNCHANGED vars  BY <1>1 DEF vars
<1>2. ASSUME NEW b \in Block, New(b) PROVE L!Arm  BY <1>2 DEF New, L!Arm
<1>3. CASE SkipWait  BY <1>3 DEF SkipWait, L!Skip
<1>4. CASE CallWait  BY <1>4 DEF CallWait, L!Wait
<1>5. CASE Test  BY <1>5 DEF Test, L!Return
<1>6. CASE Park \/ Unparked \/ Timeout  BY <1>6 DEF Park, Unparked, Timeout
<1>7. CASE Leave \/ ForeignUnpark  BY <1>7 DEF Leave, ForeignUnpark
<1>8. ASSUME NEW w \in Waker, Swap(w) PROVE L!Set \/ UNCHANGED L!vars
  BY <1>8 DEF Swap, L!Set
<1>9. ASSUME NEW w \in Waker,
             Unpark(w) \/ Release(w) \/ \E b \in Block : Upgrade(w, b)
      PROVE  UNCHANGED L!vars
  BY <1>9 DEF Unpark, Release, Upgrade
<1> QED
  BY <1>1, <1>2, <1>3, <1>4, <1>5, <1>6, <1>7, <1>8, <1>9
     DEF Next, OwnerStep, WakerStep

\* A ControlBlock is a one-shot latch: a wait ends only if the block was set,
\* or was found to be superfluous before it began.
THEOREM IsLatch == Spec => L!Init /\ [][L!Next]_(L!vars)
BY LatchInit, LatchStep, InvInit, InvStep, PTL DEF Spec
=============================================================================
