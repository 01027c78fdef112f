---------------------------- MODULE LicenseTerm ----------------------------
(***************************************************************************)
(* The dates of a license on the server: which terms are accepted, the     *)
(* status that is derived from them, and what of them goes into a          *)
(* credential (packages/server/src/modules/license/license.service.ts,     *)
(* credential/credential.service.ts).                                      *)
(***************************************************************************)
EXTENDS Integers

CONSTANTS
    None,     \* end_at NULL: a perpetual license
    Sec,      \* milliseconds of a second
    Day,      \* DAY_MS
    MaxTerm   \* LICENSE_MAX_TERM_DAYS; 0 is no limit

ASSUME TermAssumption ==
    /\ None \notin Int
    /\ Sec \in Nat \ {0} /\ Day \in Nat \ {0} /\ MaxTerm \in Nat

(* A credential counts in seconds, a row in milliseconds: toUnix rounds    *)
(* down, and the client multiplies by 1000 again.                          *)
ToUnix(t) == t \div Sec

InSeconds(t) == IF t = None THEN None ELSE ToUnix(t) * Sec

TermDays(start, end) == -((start - end) \div Day)

(* assertTerm: the end comes after the start and not too long after it. *)
TermAccepted(start, end) ==
    end # None => /\ end > start
                  /\ MaxTerm > 0 => TermDays(start, end) <= MaxTerm

Over(end, now) == end # None /\ end <= now

DeriveStatus(start, end, now) ==
    IF Over(end, now) THEN "expired" ELSE IF start > now THEN "pending" ELSE "active"
=============================================================================
