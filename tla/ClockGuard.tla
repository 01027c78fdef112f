----------------------------- MODULE ClockGuard -----------------------------
(***************************************************************************)
(* One deployment's clock under periodic checks.  The true time passes;    *)
(* the wall clock the process reads may be put ahead of it by a fault,     *)
(* brought back by an operator or by NTP, or set behind it; the process    *)
(* checks the clock whenever it refreshes, and not at all while it is off. *)
(***************************************************************************)
EXTENDS Clock

CONSTANTS
    SkewTol,     \* the tolerance of every check (clockSkewTolSec)
    LastTime,    \* bound: neither the true time nor the clock goes beyond
    MaxFaults,   \* bound: faults and repairs of the wall clock
    MaxCounted,  \* bound: no more rollbacks are counted than this
    Jumps,       \* how far ahead one fault may put the wall clock
    SetBacks     \* how far behind the true time the clock may be set

ASSUME GuardAssumption ==
    /\ SkewTol \in Nat /\ LastTime \in Nat /\ MaxFaults \in Nat /\ MaxCounted \in Nat
    /\ Jumps \subseteq Nat \ {0} /\ SetBacks \subseteq Nat \ {0}

VARIABLES
    real,      \* the true time
    wall,      \* what the local clock shows
    wm,        \* the watermark; None before the first check
    rejected,  \* the verdict of the last check
    checked,   \* the wall clock has been checked since it was last moved
    faults,    \* how often the wall clock was moved
    clean      \* history: it was only ever put ahead, each time by more than
               \* the tolerance, and put right again in one go

vars == <<real, wall, wm, rejected, checked, faults, clean>>

TypeOK ==
    /\ real \in 0 .. LastTime
    /\ wall \in Int
    /\ wm \in Optional(Watermark)
    /\ rejected \in BOOLEAN
    /\ checked \in BOOLEAN
    /\ faults \in 0 .. MaxFaults
    /\ clean \in BOOLEAN

Init ==
    /\ real = 0
    /\ wall = 0
    /\ wm = None
    /\ rejected = FALSE
    /\ checked = FALSE
    /\ faults = 0
    /\ clean = TRUE

-----------------------------------------------------------------------------
(* The process refreshes and checks the clock.  A count beyond             *)
(* MaxRollbackCount changes no verdict: MaxCounted stops it growing.       *)
Check ==
    /\ wm # None /\ Outcome(wall, wm, SkewTol) = "rolledBack"
          => wm.rollbackCount < MaxCounted
    /\ wm' = IF wm = None THEN FirstWatermark(wall)
                          ELSE NextWatermark(wall, wm, SkewTol)
    /\ rejected' = (wm # None /\ Rejected(wall, wm, SkewTol))
    /\ checked' = TRUE
    /\ UNCHANGED <<real, wall, faults, clean>>

(* Time passes, on a running process or on one that is switched off. *)
Pass(d) ==
    /\ real + d <= LastTime /\ wall + d <= LastTime
    /\ real' = real + d
    /\ wall' = wall + d
    /\ UNCHANGED <<wm, rejected, checked, faults, clean>>

(* A dead battery or a bad NTP source puts the wall clock ahead.  The      *)
(* process has run at least once since the clock was last moved.           *)
JumpAhead(d) ==
    /\ faults < MaxFaults
    /\ wall + d <= LastTime
    /\ wall >= real
    /\ checked
    /\ wall' = wall + d
    /\ checked' = FALSE
    /\ faults' = faults + 1
    /\ clean' = (clean /\ d > SkewTol)
    /\ UNCHANGED <<real, wm, rejected>>

(* A clock that is ahead is brought back, all the way or part of it. *)
Repair(w) ==
    /\ faults < MaxFaults
    /\ real <= w /\ w < wall
    /\ wall' = w
    /\ checked' = FALSE
    /\ faults' = faults + 1
    /\ clean' = (clean /\ w = real)
    /\ UNCHANGED <<real, wm, rejected>>

(* The clock is set behind the true time. *)
SetBack(d) ==
    /\ faults < MaxFaults
    /\ wall >= real
    /\ wall' = real - d
    /\ checked' = FALSE
    /\ faults' = faults + 1
    /\ clean' = FALSE
    /\ UNCHANGED <<real, wm, rejected>>

(* A clock that is behind is put right again. *)
Restore ==
    /\ wall < real
    /\ wall' = real
    /\ checked' = FALSE
    /\ UNCHANGED <<real, wm, rejected, faults, clean>>

Next ==
    \/ Check
    \/ \E d \in 1 .. LastTime : Pass(d)
    \/ \E d \in Jumps : JumpAhead(d)
    \/ \E w \in real .. wall : Repair(w)
    \/ \E d \in SetBacks : SetBack(d)
    \/ Restore

Spec == Init /\ [][Next]_vars
-----------------------------------------------------------------------------
(* Properties *)

(* A ticket (jumpBaseTs) always lies below the watermark by more than the  *)
(* tolerance: it was left by a suspicious jump and is torn up when used    *)
(* (clock.ts:103-107, 138).                                                *)
TicketBelowWatermark ==
    wm # None /\ wm.jumpBaseTs # None => wm.jumpBaseTs + SkewTol < wm.maxSeenTs

(* Every counted rollback has its time, so that the count can decay        *)
(* (clock.ts:161, 169-173): a count without one would never be cleared.    *)
CountCanDecay ==
    wm # None /\ wm.rollbackCount # 0 => wm.lastRollbackAt # None

LoweringIsUndo ==
    wm # None /\ wm'.maxSeenTs < wm.maxSeenTs =>
        /\ wm.jumpBaseTs # None
        /\ wm'.maxSeenTs >= wm.jumpBaseTs - SkewTol
        /\ wm'.jumpBaseTs = None

(* The watermark only comes down by undoing a jump, and then not below     *)
(* where that jump started, less the tolerance (clock.ts:116-145).         *)
LoweredOnlyByUndo == [][LoweringIsUndo]_wm

(* A clock that was only ever put ahead of the true time, by more than the *)
(* tolerance, and put right in one go, never gets the customer rejected,   *)
(* before or after the repair: jumps ahead are revocable                   *)
(* (clock.ts:41-44, 116-145).                                              *)
ForwardFaultHeals == clean => ~rejected
=============================================================================
