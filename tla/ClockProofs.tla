---------------------------- MODULE ClockProofs ----------------------------
(***************************************************************************)
(* Proofs about the rollback detector and about one deployment's clock,    *)
(* for every threshold, every schedule of checks and every fault.          *)
(***************************************************************************)
EXTENDS ClockGuard, ClockLemmas

(* None is no watermark: the state of a watermark is never ambiguous. *)
LEMMA NoneIsNoTime == None \notin Int
BY ClockAssumption

-----------------------------------------------------------------------------
(* The model's variables keep their types (ClockGuard). *)
THEOREM TypeCorrect == Spec => []TypeOK
<1> DEFINE Numbers == real \in 0 .. LastTime /\ wall \in Int /\ faults \in 0 .. MaxFaults
           Flags   == rejected \in BOOLEAN /\ checked \in BOOLEAN /\ clean \in BOOLEAN
           Mark    == wm \in Optional(Watermark)
<1>1. TypeOK <=> Numbers /\ Flags /\ Mark  BY Zenon DEF TypeOK
<1>2. Init => Numbers /\ Flags /\ Mark
  <2>1. Init => Numbers  BY GuardAssumption DEF Init
  <2>2. Init => Flags /\ Mark  BY Zenon DEF Init, Optional
  <2> QED  BY <2>1, <2>2
<1>3. Numbers /\ [Next]_vars => Numbers'
  BY GuardAssumption
     DEF Next, vars, Check, Pass, JumpAhead, Repair, SetBack, Restore
<1>4. Flags /\ [Next]_vars => Flags'
  <2>1. Flags /\ Check => Flags'  BY Zenon DEF Check
  <2> QED
    BY <2>1, Zenon DEF Next, vars, Pass, JumpAhead, Repair, SetBack, Restore
<1>5. Numbers /\ Mark /\ [Next]_vars => Mark'
  <2>1. Numbers /\ Mark /\ Check => Mark'
    BY GuardAssumption, NextWatermarkType, FirstWatermarkType DEF Check, Optional
  <2> QED
    BY <2>1, Zenon DEF Next, vars, Pass, JumpAhead, Repair, SetBack, Restore
<1>6. TypeOK' <=> Numbers' /\ Flags' /\ Mark'  BY Zenon DEF TypeOK
<1> QED
  <2> HIDE DEF Numbers, Flags, Mark
  <2>1. TypeOK /\ [Next]_vars => TypeOK'  BY <1>1, <1>3, <1>4, <1>5, <1>6
  <2>2. Init => TypeOK  BY <1>1, <1>2
  <2> QED  BY <2>1, <2>2, PTL DEF Spec

(* Only a check touches the watermark and the verdict. *)
LEMMA OnlyCheckMovesWatermark ==
    [Next]_vars => Check \/ UNCHANGED <<wm, rejected>>
BY DEF Next, vars, Pass, JumpAhead, Repair, SetBack, Restore

(* After the first check there is a watermark. *)
LEMMA KnownMark == TypeOK /\ wm # None => wm \in Watermark
BY Zenon DEF TypeOK, Optional

(* The types of the two clocks, for the leaves that count. *)
LEMMA WallIsTime == TypeOK => wall \in Int /\ real \in Int
BY DEF TypeOK

-----------------------------------------------------------------------------
(* One check keeps the ticket below the watermark. *)
LEMMA TicketStep ==
    ASSUME NEW now \in Int, NEW w \in Watermark, NEW tol \in Nat,
           w.jumpBaseTs # None => w.jumpBaseTs + tol < w.maxSeenTs
    PROVE  LET n == NextWatermark(now, w, tol)
           IN  n.jumpBaseTs # None => n.jumpBaseTs + tol < n.maxSeenTs
<1> DEFINE Below(n) == n.jumpBaseTs # None => n.jumpBaseTs + tol < n.maxSeenTs
<1>1. Below(Clamp(now, w))  BY DEF Clamp, Watermark
<1>2. Forward(now, w, tol) => Below(Advance(now, w, tol))
  BY DEF Advance, Forward, Watermark, Optional
<1>3. Below(Correct(now, w))  BY DEF Correct, Watermark
<1>4. Below(RollBack(now, w))  BY DEF RollBack, Watermark
<1> HIDE DEF Below
<1>5. Below(NextWatermark(now, w, tol))
  BY OutcomeCases, <1>1, <1>2, <1>3, <1>4
<1> QED  BY <1>5 DEF Below

(* A ticket always lies below the watermark by more than the tolerance. *)
THEOREM TicketStaysBelow == Spec => []TicketBelowWatermark
<1>1. Init => TicketBelowWatermark  BY DEF Init, TicketBelowWatermark
<1>2. TypeOK /\ TicketBelowWatermark /\ [Next]_vars => TicketBelowWatermark'
  <2> SUFFICES ASSUME TypeOK, TicketBelowWatermark, [Next]_vars
               PROVE  TicketBelowWatermark'
    OBVIOUS
  <2>1. CASE Check /\ wm = None
    BY <2>1 DEF Check, FirstWatermark, TicketBelowWatermark
  <2>2. CASE Check /\ wm # None
    <3>1. wm' = NextWatermark(wall, wm, SkewTol)  BY <2>2 DEF Check
    <3> QED
      BY <2>2, <3>1, KnownMark, WallIsTime, GuardAssumption, TicketStep
         DEF TicketBelowWatermark
  <2>3. CASE UNCHANGED <<wm, rejected>>  BY <2>3 DEF TicketBelowWatermark
  <2> QED  BY <2>1, <2>2, <2>3, OnlyCheckMovesWatermark
<1> QED  BY <1>1, <1>2, TypeCorrect, PTL DEF Spec

(* One check leaves no rollback counted without its time. *)
LEMMA CountStep ==
    ASSUME NEW now \in Int, NEW w \in Watermark, NEW tol \in Nat,
           w.rollbackCount # 0 => w.lastRollbackAt # None
    PROVE  LET n == NextWatermark(now, w, tol)
           IN  n.rollbackCount # 0 => n.lastRollbackAt # None
<1> DEFINE Dated(n) == n.rollbackCount # 0 => n.lastRollbackAt # None
<1>1. Dated(Clamp(now, w))  BY DEF Clamp, DecayedCount, Watermark
<1>2. Dated(Advance(now, w, tol))  BY DEF Advance, DecayedCount, Watermark
<1>3. Dated(Correct(now, w))  BY DEF Correct, Watermark
<1>4. Dated(RollBack(now, w))  BY NoneIsNoTime DEF RollBack
<1> HIDE DEF Dated
<1>5. Dated(NextWatermark(now, w, tol))
  BY OutcomeCases, <1>1, <1>2, <1>3, <1>4
<1> QED  BY <1>5 DEF Dated

(* A rollback count can always decay: it has the time of its last rollback. *)
THEOREM CountsCanDecay == Spec => []CountCanDecay
<1>1. Init => CountCanDecay  BY DEF Init, CountCanDecay
<1>2. TypeOK /\ CountCanDecay /\ [Next]_vars => CountCanDecay'
  <2> SUFFICES ASSUME TypeOK, CountCanDecay, [Next]_vars
               PROVE  CountCanDecay'
    OBVIOUS
  <2>1. CASE Check /\ wm = None
    BY <2>1 DEF Check, FirstWatermark, CountCanDecay
  <2>2. CASE Check /\ wm # None
    <3>1. wm' = NextWatermark(wall, wm, SkewTol)  BY <2>2 DEF Check
    <3> QED
      BY <2>2, <3>1, KnownMark, WallIsTime, GuardAssumption, CountStep
         DEF CountCanDecay
  <2>3. CASE UNCHANGED <<wm, rejected>>  BY <2>3 DEF CountCanDecay
  <2> QED  BY <2>1, <2>2, <2>3, OnlyCheckMovesWatermark
<1> QED  BY <1>1, <1>2, TypeCorrect, PTL DEF Spec

(* A check lowers the watermark only by undoing a jump, and not below it. *)
LEMMA LoweringStep ==
    ASSUME NEW now \in Int, NEW w \in Watermark, NEW tol \in Nat,
           NextWatermark(now, w, tol).maxSeenTs < w.maxSeenTs
    PROVE  /\ w.jumpBaseTs # None
           /\ NextWatermark(now, w, tol).maxSeenTs >= w.jumpBaseTs - tol
           /\ NextWatermark(now, w, tol).jumpBaseTs = None
<1>1. Clamp(now, w).maxSeenTs = w.maxSeenTs  BY DEF Clamp, Watermark
<1>2. ~(Advance(now, w, tol).maxSeenTs < w.maxSeenTs)  BY DEF Advance, Watermark
<1>3. RollBack(now, w).maxSeenTs = w.maxSeenTs  BY DEF RollBack
<1>4. /\ UndoesJump(now, w, tol)
      /\ NextWatermark(now, w, tol) = Correct(now, w)
  BY OutcomeCases, <1>1, <1>2, <1>3 DEF Watermark
<1>5. Correct(now, w).maxSeenTs = now /\ Correct(now, w).jumpBaseTs = None
  BY DEF Correct, Watermark
<1> QED  BY <1>4, <1>5 DEF UndoesJump

(* The watermark comes down only by the undoing of a jump. *)
THEOREM WatermarkLoweredOnlyByUndo == Spec => LoweredOnlyByUndo
<1>1. TypeOK /\ [Next]_vars => [LoweringIsUndo]_wm
  <2> SUFFICES ASSUME TypeOK, [Next]_vars, wm # None,
                      wm'.maxSeenTs < wm.maxSeenTs, wm' # wm
               PROVE  /\ wm.jumpBaseTs # None
                      /\ wm'.maxSeenTs >= wm.jumpBaseTs - SkewTol
                      /\ wm'.jumpBaseTs = None
    BY DEF LoweringIsUndo
  <2>1. wm' = NextWatermark(wall, wm, SkewTol)
    BY OnlyCheckMovesWatermark DEF Check
  <2> QED
    BY <2>1, KnownMark, WallIsTime, GuardAssumption, LoweringStep
<1> QED  BY <1>1, TypeCorrect, PTL DEF Spec, LoweredOnlyByUndo

-----------------------------------------------------------------------------
(* What a check finds when the clock was only ever put ahead, by more than *)
(* the tolerance, and was put right in one go: a watermark above the true  *)
(* time comes with a ticket that leads back to it, and no reading but that *)
(* of a clock just put right falls back beyond the tolerance.              *)
Healing ==
    /\ wall = real \/ wall > real + SkewTol
    /\ wm = None => wall = real /\ ~checked
    /\ wm # None =>
         /\ checked \/ wall > real => wm.maxSeenTs <= wall + SkewTol
         /\ wm.maxSeenTs > real => wm.jumpBaseTs # None
         /\ wm.jumpBaseTs # None => wm.jumpBaseTs <= real

(* Healing survives a check, and the check rejects nothing. *)
LEMMA HealingCheck ==
    ASSUME TypeOK, Healing, Check
    PROVE  Healing' /\ ~rejected'
<1> USE GuardAssumption
<1>1. CASE wm = None
  <2>1. wm' = FirstWatermark(wall) /\ ~rejected'  BY <1>1 DEF Check
  <2>2. wm' # None
    BY <2>1, FirstWatermarkType, WallIsTime, NoWatermarkAssumption
  <2>3. wm'.maxSeenTs = wall /\ wm'.jumpBaseTs = None
    BY <2>1 DEF FirstWatermark
  <2> QED
    BY <1>1, <2>1, <2>2, <2>3, WallIsTime DEF Healing, Check
<1>2. CASE wm # None
  <2> DEFINE n == NextWatermark(wall, wm, SkewTol)
  <2>1. /\ wm' = n
        /\ rejected' => Rejected(wall, wm, SkewTol)
        /\ wall' = wall /\ real' = real /\ checked' = TRUE
    BY <1>2, Zenon DEF Check
  <2>2. wm \in Watermark /\ wall \in Int /\ real \in Int
    BY <1>2, KnownMark, WallIsTime
  <2>3. n \in Watermark /\ n # None
    BY <2>2, NextWatermarkType, NoWatermarkAssumption
  <2>4. /\ wall = real \/ wall > real + SkewTol
        /\ wall > real => wm.maxSeenTs <= wall + SkewTol
        /\ wm.maxSeenTs > real => wm.jumpBaseTs # None
        /\ wm.jumpBaseTs # None => wm.jumpBaseTs <= real
    BY <1>2 DEF Healing
  <2> DEFINE Healed(v) == /\ v.maxSeenTs <= wall + SkewTol
                          /\ v.maxSeenTs > real => v.jumpBaseTs # None
                          /\ v.jumpBaseTs # None => v.jumpBaseTs <= real
  <2>5. Forward(wall, wm, SkewTol) => Healed(Clamp(wall, wm))
    BY <2>2, <2>4 DEF Clamp, Forward, Watermark, Optional
  <2>6. Forward(wall, wm, SkewTol) => Healed(Advance(wall, wm, SkewTol))
    BY <2>2, <2>4, NoneIsNoTime DEF Advance, Forward, Watermark, Optional
  <2>7. ~Forward(wall, wm, SkewTol) => wall = real /\ UndoesJump(wall, wm, SkewTol)
    BY <2>2, <2>4 DEF Forward, UndoesJump, Watermark, Optional
  <2>8. ~Forward(wall, wm, SkewTol) => Healed(Correct(wall, wm))
    BY <2>2, <2>4, <2>7 DEF Correct, Watermark, Optional
  <2> HIDE DEF Healed
  <2>9. Healed(n) /\ ~Rejected(wall, wm, SkewTol)
    BY <2>2, <2>5, <2>6, <2>7, <2>8, OutcomeCases
  <2>10. ~rejected'  BY <2>1, <2>9
  <2>11. Healing'
    BY <2>1, <2>2, <2>3, <2>4, <2>9 DEF Healing, Healed
  <2> QED  BY <2>10, <2>11
<1> QED  BY <1>1, <1>2

(* Jumps ahead are revocable: as long as the clock was only ever put ahead *)
(* by more than the tolerance, and put right in one go, no check is        *)
(* rejected.                                                               *)
THEOREM ForwardFaultsHeal == Spec => []ForwardFaultHeals
<1> USE GuardAssumption
<1> DEFINE Safe == clean => Healing /\ ~rejected
<1>1. Init => Safe  BY DEF Init, Healing
<1>2. TypeOK /\ Safe /\ [Next]_vars => Safe'
  <2> SUFFICES ASSUME TypeOK, Safe, [Next]_vars, clean'
               PROVE  Healing' /\ ~rejected'
    OBVIOUS
  <2>1. clean /\ Healing /\ ~rejected
    BY DEF Next, vars, Check, Pass, JumpAhead, Repair, SetBack, Restore
  <2> USE WallIsTime
  <2>2. CASE Check  BY <2>1, <2>2, HealingCheck
  <2>3. ASSUME NEW d \in 1 .. LastTime, Pass(d) PROVE Healing' /\ ~rejected'
    <3>1. Healing'
      BY <2>1, <2>3, KnownMark DEF Pass, Healing, Watermark, Optional
    <3> QED  BY <2>1, <2>3, <3>1 DEF Pass
  <2>4. ASSUME NEW d \in Jumps, JumpAhead(d) PROVE Healing' /\ ~rejected'
    <3>1. d > SkewTol /\ d \in Nat  BY <2>4 DEF JumpAhead
    <3>2. Healing'
      BY <2>1, <2>4, <3>1, KnownMark DEF JumpAhead, Healing, Watermark, Optional
    <3> QED  BY <2>1, <2>4, <3>2 DEF JumpAhead
  <2>5. ASSUME NEW w \in real .. wall, Repair(w) PROVE Healing' /\ ~rejected'
    <3>1. w = real  BY <2>5 DEF Repair
    <3>2. Healing'
      BY <2>1, <2>5, <3>1, KnownMark DEF Repair, Healing, Watermark, Optional
    <3> QED  BY <2>1, <2>5, <3>2 DEF Repair
  <2>6. ASSUME NEW d \in SetBacks, SetBack(d) PROVE FALSE
    BY <2>6 DEF SetBack
  <2>7. CASE Restore  BY <2>1, <2>7 DEF Restore, Healing
  <2>8. CASE UNCHANGED vars  BY <2>1, <2>8 DEF vars, Healing
  <2> QED  BY <2>2, <2>3, <2>4, <2>5, <2>6, <2>7, <2>8 DEF Next
<1>3. Safe => ForwardFaultHeals  BY DEF ForwardFaultHeals
<1> QED  BY <1>1, <1>2, <1>3, TypeCorrect, PTL DEF Spec

=============================================================================
