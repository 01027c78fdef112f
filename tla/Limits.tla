------------------------------- MODULE Limits -------------------------------
(***************************************************************************)
(* What the client allows (packages/sdk/src/limits.ts) and what it says    *)
(* (notice.ts): pure functions of a verified credential and of the verdict *)
(* of Evaluate.                                                            *)
(*                                                                         *)
(* The soft threshold is overLimitRatio as a decimal, in hundredths; the   *)
(* code multiplies floating-point numbers, which is off by one unit for    *)
(* some limits (50 * 1.1 is 55.00000000000001).  Message keys, parameters  *)
(* and contacts are left out.                                              *)
(***************************************************************************)
EXTENDS Evaluate

CONSTANT ReminderDays   \* DAILY_REMINDER_DAYS

(* Creating users stops at the limit itself, never at the soft threshold. *)
CanCreateUser(limits, count) == limits.users = None \/ count < limits.users

(* A quota counts only if it is positive. *)
QuotaLimit(quota) == IF quota = None THEN None ELSE IF quota.limit <= 0 THEN None ELSE quota.limit

(* blocked: what has to be stopped, at the soft threshold. *)
Blocked(limit, used, ratio) == limit # None /\ used * 100 >= limit * ratio

IsFeatureEnabled(features, f) == features = None \/ f \in features

-----------------------------------------------------------------------------
BlockedVariant(state) ==
    [formal_expired |-> "formalExpired", trial_expired |-> "trialExpired",
     missing |-> "missing", invalid |-> "invalid"][state.status]

(* Variant for mutation: one day too few is reminded of. *)
BuildNoticeLate(state) ==
    IF state.loginBlocked
      THEN [level |-> "blocked", variant |-> BlockedVariant(state), dismissible |-> FALSE]
    ELSE IF state.remainingDays # None /\ state.remainingDays < ReminderDays
      THEN [level |-> "warning", variant |-> None, dismissible |-> TRUE]
    ELSE [level |-> "none", variant |-> None, dismissible |-> TRUE]

(* Blocked, a daily reminder in the last days, or silence. *)
BuildNotice(state) ==
    IF state.loginBlocked
      THEN [level |-> "blocked", variant |-> BlockedVariant(state), dismissible |-> FALSE]
    ELSE IF state.remainingDays # None /\ state.remainingDays <= ReminderDays
      THEN [level |-> "warning", variant |-> None, dismissible |-> TRUE]
    ELSE [level |-> "none", variant |-> None, dismissible |-> TRUE]
=============================================================================
