---------------------------- MODULE FramesProofs ----------------------------
(***************************************************************************)
(* Proofs about the frame hand-off, for any number of frames: what main    *)
(* presents is never torn, and the three slots implement a register that   *)
(* holds the newest unread frame.                                          *)
(***************************************************************************)
EXTENDS Frames, TLAPS

FInv == FramesTypeOK /\ SlotInv

LEMMA InitFInv == Init => FInv
<1> SUFFICES ASSUME Init PROVE FInv
  OBVIOUS
<1> USE FramesAssumption DEF Init, Slots, None
<1>1. FramesTypeOK
  <2>1. shown \in [pixels : 0..MaxFrames, hud : 0..MaxFrames]
    OBVIOUS
  <2>2. /\ pixels \in [Slots -> 0..MaxFrames] /\ hud \in [Slots -> 0..MaxFrames]
        /\ 0 \in Slots /\ None \in Slots \cup {None}
    OBVIOUS
  <2> QED  BY <2>1, <2>2 DEF FramesTypeOK
<1>2. SlotInv
  BY DEF SlotInv, Filling
<1> QED  BY <1>1, <1>2 DEF FInv

(* The spare slots are never all taken, and a spare one is nobody's.       *)
LEMMA ChooseFInv == FInv /\ Choose => FInv'
<1> SUFFICES ASSUME FInv, Choose PROVE FInv'
  OBVIOUS
<1> USE FramesAssumption DEF FInv, Choose, Spare, lockers, queue, view
<1>1. FramesTypeOK'
  BY DEF FramesTypeOK, Slots, None
<1>2. SlotInv'
  BY DEF FramesTypeOK, SlotInv, Filling, Slots, None
<1> QED  BY <1>1, <1>2

LEMMA RenderFInv == FInv /\ (Render \/ Finish) => FInv'
<1> SUFFICES ASSUME FInv, Render \/ Finish PROVE FInv'
  OBVIOUS
<1> USE FramesAssumption DEF FInv, FramesTypeOK, SlotInv, Filling, Slots, None, lockers, queue, view
<1>1. CASE Choose
  BY <1>1, ChooseFInv
<1>2. CASE FillPixels
  BY <1>2 DEF FillPixels
<1>3. CASE FillHud
  BY <1>3 DEF FillHud
<1>4. CASE Publish
  BY <1>4 DEF Publish, Notify
<1>5. CASE Push
  <2>1. /\ \/ ctl = "push" /\ ctl' = "choose"
           \/ ctl = "farewell" /\ ctl' = "exited"
        /\ event' \in BOOLEAN /\ dropped' \in BOOLEAN
        /\ UNCHANGED <<lockers, pixels, hud, slot, last, view>>
    BY <1>5 DEF Push, Done
  <2>2. FramesTypeOK'
    BY <2>1
  <2>3. SlotInv'
    BY <2>1
  <2> QED  BY <2>2, <2>3
<1>6. CASE Finish
  BY <1>6 DEF Finish
<1> QED  BY <1>1, <1>2, <1>3, <1>4, <1>5, <1>6 DEF Render

LEMMA PresentFInv == FInv /\ (Present \/ TimedOut) => FInv'
<1> SUFFICES ASSUME FInv, Present \/ TimedOut PROVE FInv'
  OBVIOUS
<1> USE FramesAssumption DEF FInv, FramesTypeOK, SlotInv, Filling, Slots, None, lockers, queue, control
<1>1. CASE Poll
  BY <1>1 DEF Poll
<1>2. CASE Take
  BY <1>2 DEF Take
<1>3. CASE ShowHud
  BY <1>3 DEF ShowHud
<1>4. CASE ShowPixels
  BY <1>4 DEF ShowPixels
<1>5. CASE Woken
  BY <1>5 DEF Woken
<1>6. CASE TimedOut
  BY <1>6 DEF TimedOut
<1>7. CASE Test
  BY <1>7 DEF Test
<1>8. CASE JoinAndDestroy
  BY <1>8 DEF JoinAndDestroy
<1> QED  BY <1>1, <1>2, <1>3, <1>4, <1>5, <1>6, <1>7, <1>8 DEF Present

LEMMA NextFInv == FInv /\ [Next]_vars => FInv'
<1> SUFFICES ASSUME FInv, [Next]_vars PROVE FInv'
  OBVIOUS
<1>1. CASE Render \/ Finish
  BY <1>1, RenderFInv
<1>2. CASE Present \/ TimedOut
  BY <1>2, PresentFInv
<1>3. CASE UNCHANGED vars
  BY <1>3 DEF FInv, FramesTypeOK, SlotInv, Filling, vars, lockers, queue, control, view
<1> QED  BY <1>1, <1>2, <1>3 DEF Next, Over

(* The types hold, and each slot is touched by one thread at a time.       *)
THEOREM FramesTypes == Spec => []FramesTypeOK
<1>1. FInv => FramesTypeOK
  BY DEF FInv
<1> QED  BY <1>1, InitFInv, NextFInv, PTL DEF Spec

LEMMA FramesInvariant == Spec => []FInv
  BY InitFInv, NextFInv, PTL DEF Spec

(* HUD and pixels that main presents together are of the same frame.       *)
THEOREM Untorn == Spec => []NoTearing
<1>1. Init => NoTearing
  BY DEF Init, NoTearing
<1>2. FInv /\ NoTearing /\ [Next]_vars => NoTearing'
  <2> SUFFICES ASSUME FInv, NoTearing, [Next]_vars PROVE NoTearing'
    OBVIOUS
  <2> USE DEF NoTearing
  <2>1. CASE Render \/ Finish
    BY <2>1 DEF Render, Choose, FillPixels, FillHud, Publish, Push, Finish, view
  <2>2. CASE Poll \/ Take \/ ShowHud \/ Test \/ JoinAndDestroy \/ Woken \/ TimedOut
    BY <2>2 DEF Poll, Take, ShowHud, Test, JoinAndDestroy, Woken, TimedOut
  <2>3. CASE ShowPixels
    BY <2>3 DEF ShowPixels, FInv, FramesTypeOK, SlotInv
  <2>4. CASE UNCHANGED vars
    BY <2>4 DEF vars, view
  <2> QED  BY <2>1, <2>2, <2>3, <2>4 DEF Next, Present, Over
<1> QED  BY <1>1, <1>2, FramesInvariant, PTL DEF Spec

(* Every step of the hand-off is a step of the register or changes none of *)
(* its variables: Publish publishes, Take reads, all others stutter.       *)
THEOREM RegisterImplemented == Spec => RegisterSpec
<1>1. Init => Register!Init
  BY DEF Init, Register!Init, Filling, None
<1>2. FInv /\ [Next]_vars => [Register!Next]_(Register!vars)
  <2> SUFFICES ASSUME FInv, [Next]_vars PROVE [Register!Next]_(Register!vars)
    OBVIOUS
  <2> USE FramesAssumption DEF FInv, FramesTypeOK, SlotInv, Filling, Slots, None
  <2>1. CASE Choose
    BY <2>1 DEF Choose, Register!vars, lockers
  <2>2. CASE FillPixels
    BY <2>2 DEF FillPixels, Register!vars, lockers
  <2>3. CASE FillHud
    BY <2>3 DEF FillHud, Register!vars, lockers
  <2>4. CASE Publish
    BY <2>4 DEF Publish, Notify, Register!Next, Register!Publish
  <2>5. CASE Push
    BY <2>5 DEF Push, Done, Register!vars, lockers
  <2>6. CASE Take
    BY <2>6 DEF Take, Register!Next, Register!Read, Register!vars, lockers, control
  <2>7. CASE Poll \/ ShowHud \/ ShowPixels \/ Test \/ JoinAndDestroy \/ Woken \/ TimedOut
    BY <2>7 DEF Poll, ShowHud, ShowPixels, Test, JoinAndDestroy, Woken, TimedOut, Register!vars, lockers, control
  <2>9. CASE Finish
    BY <2>9 DEF Finish, Register!vars, lockers
  <2>8. CASE UNCHANGED vars
    BY <2>8 DEF vars, Register!vars, lockers, control
  <2> QED  BY <2>1, <2>2, <2>3, <2>4, <2>5, <2>6, <2>7, <2>8, <2>9 DEF Next, Render, Present, Over
<1> QED  BY <1>1, <1>2, FramesInvariant, PTL DEF Spec, RegisterSpec, Register!Spec

=============================================================================
