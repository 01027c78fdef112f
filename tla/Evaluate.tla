------------------------------ MODULE Evaluate ------------------------------
(***************************************************************************)
(* The verdict of the client SDK (packages/sdk/src/evaluate.ts): from the  *)
(* local time, the verified credential, the trial start and the watermark, *)
(* the state of the license and whether logins are blocked.                *)
(*                                                                         *)
(* Customer, edition, features and support are copied from the credential  *)
(* for display and left out.                                               *)
(***************************************************************************)
EXTENDS Clock

CONSTANTS
    Day,             \* DAY_MS
    DefaultSkewTol,  \* DEFAULT_CLOCK_SKEW_TOL_SEC
    TrialDays,       \* option trialDays
    TrialWarnDays,   \* option trialWarnDays
    FormalWarnDays,  \* DEFAULT_FORMAL_WARN_DAYS
    TrialEnabled,    \* option trialEnabled
    Enforce          \* option enforce

ASSUME EvaluateAssumption ==
    /\ Day \in Nat \ {0} /\ DefaultSkewTol \in Nat
    /\ TrialDays \in Nat /\ TrialWarnDays \in Nat /\ FormalWarnDays \in Nat
    /\ TrialEnabled \in BOOLEAN /\ Enforce \in BOOLEAN

(* What a verdict depends on in a verified credential.  end is None for a  *)
(* perpetual one; warnDays and skewTol are None when the payload has none. *)
Payload == [typ : {"formal", "trial"}, ours : BOOLEAN,
            start : Int, end : Optional(Int),
            warnDays : Optional(Nat), skewTol : Optional(Nat)]

ASSUME NoPayloadAssumption == None \notin Payload

BlockingStatuses == {"missing", "invalid", "trial_expired", "formal_expired"}

Reasons == {"signature", "unknown_kid", "malformed",
            "clock_rollback", "not_yet_valid", "issuer"}

ASSUME NoReasonAssumption == None \notin Reasons

Statuses == BlockingStatuses \cup
            {"checking", "trial_active", "trial_expiring", "formal_active", "formal_expiring"}

-----------------------------------------------------------------------------
OrElse(x, default) == IF x = None THEN default ELSE x

Earlier(a, b) ==
    IF a = None THEN b ELSE IF b = None THEN a ELSE IF a < b THEN a ELSE b

CeilDiv(a, b) == -((-a) \div b)

SkewTolOf(payload) ==
    IF payload = None THEN DefaultSkewTol ELSE OrElse(payload.skewTol, DefaultSkewTol)

(* A trial ends at the earlier of the credential's end and the locally     *)
(* recorded start plus the trial days; a formal term is never shortened.   *)
ResolveEnd(payload, trialStart) ==
    IF payload.typ = "trial" /\ trialStart # None
      THEN Earlier(payload.end, trialStart + TrialDays * Day)
      ELSE payload.end

WarnDaysOf(payload) ==
    OrElse(payload.warnDays,
           IF payload.typ = "trial" THEN TrialWarnDays ELSE FormalWarnDays)

-----------------------------------------------------------------------------
(* A state of the license; finalize lifts the block unless it is enforced. *)
State(status, reason, remainingDays) ==
    [status        |-> status,
     loginBlocked  |-> Enforce /\ status \in BlockingStatuses,
     invalidReason |-> reason,
     remainingDays |-> remainingDays,
     warning       |-> status \in {"trial_expiring", "formal_expiring"}]

Invalid(reason) == State("invalid", reason, None)

(* Where now stands to the end of a term of kind typ. *)
Term(typ, end, warnDays, now) ==
    LET remaining == CeilDiv(end - now, Day)
        phase == IF now >= end THEN "expired"
                 ELSE IF remaining <= warnDays THEN "expiring" ELSE "active"
    IN  State([formal |-> [active   |-> "formal_active",
                           expiring |-> "formal_expiring",
                           expired  |-> "formal_expired"],
               trial  |-> [active   |-> "trial_active",
                           expiring |-> "trial_expiring",
                           expired  |-> "trial_expired"]][typ][phase],
              None, remaining)

(* No verified credential: an unreadable one blocks, none at all starts    *)
(* the trial.                                                              *)
EvaluateWithoutCredential(now, invalidReason, trialStart) ==
    IF invalidReason # None THEN Invalid(invalidReason)
    ELSE IF ~TrialEnabled \/ trialStart = None THEN State("missing", None, None)
    ELSE Term("trial", trialStart + TrialDays * Day, TrialWarnDays, now)

EvaluateCredential(now, payload, trialStart) ==
    LET end == ResolveEnd(payload, trialStart)
    IN  IF ~payload.ours THEN Invalid("issuer")
        ELSE IF now < payload.start - SkewTolOf(payload) THEN Invalid("not_yet_valid")
        ELSE IF end = None
          THEN State(IF payload.typ = "trial" THEN "trial_active" ELSE "formal_active", None, None)
        ELSE Term(payload.typ, end, WarnDaysOf(payload), now)

(* The clock comes first: without a trusted time no other verdict holds. *)
EvaluateLicense(now, payload, invalidReason, trialStart, clock) ==
    IF clock # None /\ Rejected(now, clock, SkewTolOf(payload)) THEN Invalid("clock_rollback")
    ELSE IF payload = None THEN EvaluateWithoutCredential(now, invalidReason, trialStart)
    ELSE EvaluateCredential(now, payload, trialStart)
=============================================================================
