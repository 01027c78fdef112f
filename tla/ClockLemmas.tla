---------------------------- MODULE ClockLemmas ----------------------------
(***************************************************************************)
(* What the operators of Clock return: the facts the proofs about the      *)
(* clock of a deployment and about the license manager both rest on.       *)
(***************************************************************************)
EXTENDS Clock, TLAPS

(* The four outcomes, each with its condition and the watermark it leaves. *)
LEMMA OutcomeCases ==
    ASSUME NEW now \in Int, NEW w \in Watermark, NEW tol \in Nat
    PROVE  \/ /\ Forward(now, w, tol) /\ TooFarAhead(now, w)
              /\ Outcome(now, w, tol) = "clamped"
              /\ NextWatermark(now, w, tol) = Clamp(now, w)
              /\ ~Rejected(now, w, tol)
           \/ /\ Forward(now, w, tol) /\ ~TooFarAhead(now, w)
              /\ Outcome(now, w, tol) = "advanced"
              /\ NextWatermark(now, w, tol) = Advance(now, w, tol)
              /\ ~Rejected(now, w, tol)
           \/ /\ ~Forward(now, w, tol) /\ UndoesJump(now, w, tol)
              /\ Outcome(now, w, tol) = "corrected"
              /\ NextWatermark(now, w, tol) = Correct(now, w)
              /\ ~Rejected(now, w, tol)
           \/ /\ ~Forward(now, w, tol) /\ ~UndoesJump(now, w, tol)
              /\ Outcome(now, w, tol) = "rolledBack"
              /\ NextWatermark(now, w, tol) = RollBack(now, w)
<1>1. CASE Forward(now, w, tol) /\ TooFarAhead(now, w)
  <2>1. Outcome(now, w, tol) = "clamped"  BY <1>1 DEF Outcome
  <2> QED  BY <1>1, <2>1 DEF NextWatermark, Rejected
<1>2. CASE Forward(now, w, tol) /\ ~TooFarAhead(now, w)
  <2>1. Outcome(now, w, tol) = "advanced"  BY <1>2 DEF Outcome
  <2> QED  BY <1>2, <2>1 DEF NextWatermark, Rejected
<1>3. CASE ~Forward(now, w, tol) /\ UndoesJump(now, w, tol)
  <2>1. Outcome(now, w, tol) = "corrected"  BY <1>3 DEF Outcome
  <2> QED  BY <1>3, <2>1 DEF NextWatermark, Rejected
<1>4. CASE ~Forward(now, w, tol) /\ ~UndoesJump(now, w, tol)
  <2>1. Outcome(now, w, tol) = "rolledBack"  BY <1>4 DEF Outcome
  <2> QED  BY <1>4, <2>1 DEF NextWatermark, Rejected
<1> QED  BY <1>1, <1>2, <1>3, <1>4

(* A check returns a watermark. *)
LEMMA NextWatermarkType ==
    ASSUME NEW now \in Int, NEW w \in Watermark, NEW tol \in Nat
    PROVE  NextWatermark(now, w, tol) \in Watermark
<1>1. DecayedCount(now, w) \in Nat  BY DEF DecayedCount, Watermark
<1>2. Clamp(now, w) \in Watermark  BY <1>1 DEF Clamp, Watermark
<1>3. Advance(now, w, tol) \in Watermark
  BY <1>1 DEF Advance, Watermark, Optional
<1>4. Correct(now, w) \in Watermark  BY DEF Correct, Watermark, Optional
<1>5. RollBack(now, w) \in Watermark  BY DEF RollBack, Watermark, Optional
<1> QED  BY OutcomeCases, <1>2, <1>3, <1>4, <1>5

(* So is that of a first run. *)
LEMMA FirstWatermarkType ==
    ASSUME NEW now \in Int
    PROVE  FirstWatermark(now) \in Watermark
BY DEF FirstWatermark, Watermark, Optional
=============================================================================
