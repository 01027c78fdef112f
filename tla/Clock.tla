------------------------------- MODULE Clock -------------------------------
(***************************************************************************)
(* The rollback detector of the client SDK (packages/sdk/src/clock.ts):    *)
(* from the reading of the local clock and the watermark left by the       *)
(* previous check, checkClock says whether the clock is rejected and       *)
(* returns the watermark to keep.                                          *)
(*                                                                         *)
(* Times are integers in one arbitrary unit (the code counts ms).  An      *)
(* absent optional field (undefined, null) is None.                        *)
(***************************************************************************)
EXTENDS Integers

CONSTANTS
    None,              \* an optional field that is not there
    HardRollback,      \* HARD_ROLLBACK_DAYS: one rollback beyond it is fatal
    MaxRollbackCount,  \* MAX_ROLLBACK_COUNT: that many rollbacks are fatal
    RollbackDecay,     \* ROLLBACK_DECAY_MS: quiet time that clears the count
    MaxAdvance         \* MAX_WATERMARK_ADVANCE_DAYS: a longer jump is ignored

ASSUME ClockAssumption ==
    /\ None \notin Int
    /\ HardRollback \in Nat /\ MaxAdvance \in Nat
    /\ RollbackDecay \in Nat /\ MaxRollbackCount \in Nat \ {0}

Optional(S) == S \cup {None}

Watermark == [maxSeenTs : Int, rollbackCount : Nat,
              lastRollbackAt : Optional(Int), jumpBaseTs : Optional(Int)]

ASSUME NoWatermarkAssumption == None \notin Watermark

(* The watermark of a first run: nothing to compare with. *)
FirstWatermark(now) ==
    [maxSeenTs |-> now, rollbackCount |-> 0, lastRollbackAt |-> None, jumpBaseTs |-> None]

-----------------------------------------------------------------------------
(* How a reading stands to the watermark. *)

(* Variant for mutation: any step back counts. *)
ForwardStrictly(now, wm, tol) == wm.maxSeenTs - now <= 0

(* Time went forward, or back by no more than the tolerance. *)
Forward(now, wm, tol) == wm.maxSeenTs - now <= tol

(* So far ahead that the watermark must not follow. *)
TooFarAhead(now, wm) == now - wm.maxSeenTs > MaxAdvance

(* The reading falls back, but not below where the recorded jump started:  *)
(* the jump is being undone.                                               *)
UndoesJump(now, wm, tol) ==
    /\ wm.jumpBaseTs # None
    /\ now >= wm.jumpBaseTs - tol

ShouldDecay(now, wm) ==
    /\ wm.rollbackCount # 0
    /\ wm.lastRollbackAt # None
    /\ now - wm.lastRollbackAt >= RollbackDecay

(* Variant for mutation: the count is stepped down, with no floor at zero. *)
DecayByOne(now, wm) ==
    IF wm.lastRollbackAt # None /\ now - wm.lastRollbackAt >= RollbackDecay
      THEN wm.rollbackCount - 1
      ELSE wm.rollbackCount

DecayedCount(now, wm) == IF ShouldDecay(now, wm) THEN 0 ELSE wm.rollbackCount

-----------------------------------------------------------------------------
(* The four outcomes and the watermark each leaves. *)

Clamp(now, wm) == [wm EXCEPT !.rollbackCount = DecayedCount(now, wm)]

(* Variant for mutation: no ticket is left (the code before jumps could be undone). *)
AdvanceWithoutTicket(now, wm, tol) ==
    [wm EXCEPT !.maxSeenTs = IF now > wm.maxSeenTs THEN now ELSE wm.maxSeenTs,
               !.rollbackCount = DecayedCount(now, wm)]

Advance(now, wm, tol) ==
    LET count == DecayedCount(now, wm)
    IN  [maxSeenTs      |-> IF now > wm.maxSeenTs THEN now ELSE wm.maxSeenTs,
         rollbackCount  |-> count,
         lastRollbackAt |-> IF count = 0 THEN None ELSE wm.lastRollbackAt,
         jumpBaseTs     |-> IF now - wm.maxSeenTs > tol /\ wm.jumpBaseTs = None
                              THEN wm.maxSeenTs
                              ELSE wm.jumpBaseTs]

(* Variant for mutation: the ticket is not torn up. *)
CorrectKeepingTicket(now, wm) == [wm EXCEPT !.maxSeenTs = now]

Correct(now, wm) == [wm EXCEPT !.maxSeenTs = now, !.jumpBaseTs = None]

(* Variants for mutation: the time of the rollback is not kept; the        *)
(* watermark follows the clock down.                                       *)
RollBackUndated(now, wm) == [wm EXCEPT !.rollbackCount = wm.rollbackCount + 1]
RollBackLowering(now, wm) ==
    [wm EXCEPT !.maxSeenTs = now, !.rollbackCount = wm.rollbackCount + 1,
               !.lastRollbackAt = now]

RollBack(now, wm) ==
    [maxSeenTs      |-> wm.maxSeenTs,
     rollbackCount  |-> wm.rollbackCount + 1,
     lastRollbackAt |-> now,
     jumpBaseTs     |-> wm.jumpBaseTs]

Outcome(now, wm, tol) ==
    CASE Forward(now, wm, tol) /\ TooFarAhead(now, wm)  -> "clamped"
      [] Forward(now, wm, tol) /\ ~TooFarAhead(now, wm) -> "advanced"
      [] ~Forward(now, wm, tol) /\ UndoesJump(now, wm, tol)  -> "corrected"
      [] ~Forward(now, wm, tol) /\ ~UndoesJump(now, wm, tol) -> "rolledBack"

NextWatermark(now, wm, tol) ==
    CASE Outcome(now, wm, tol) = "clamped"    -> Clamp(now, wm)
      [] Outcome(now, wm, tol) = "advanced"   -> Advance(now, wm, tol)
      [] Outcome(now, wm, tol) = "corrected"  -> Correct(now, wm)
      [] Outcome(now, wm, tol) = "rolledBack" -> RollBack(now, wm)

(* The verdict: a rollback that is too long, or one too many. *)
Rejected(now, wm, tol) ==
    /\ Outcome(now, wm, tol) = "rolledBack"
    /\ \/ wm.maxSeenTs - now > HardRollback
       \/ wm.rollbackCount + 1 >= MaxRollbackCount
=============================================================================
