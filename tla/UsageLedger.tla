---------------------------- MODULE UsageLedger ----------------------------
(***************************************************************************)
(* What the ingestion of usage promises                                    *)
(* (packages/server/src/modules/client/usage.service.ts:24-30): a batch    *)
(* counts once and as a whole, and is confirmed only after it counted.     *)
(***************************************************************************)
EXTENDS Naturals

CONSTANTS
    Batches,
    Tasks,
    Amount(_, _)   \* what a batch adds to a task

VARIABLES
    totals,     \* per task: what was counted
    counted,    \* the batches that are in the totals
    confirmed   \* those of which the client knows

ledgerVars == <<totals, counted, confirmed>>

LedgerInit ==
    /\ totals = [t \in Tasks |-> 0]
    /\ counted = {}
    /\ confirmed = {}

Count(b) ==
    /\ b \notin counted
    /\ counted' = counted \cup {b}
    /\ totals' = [t \in Tasks |-> totals[t] + Amount(b, t)]
    /\ UNCHANGED confirmed

Confirm(b) ==
    /\ b \in counted
    /\ confirmed' = confirmed \cup {b}
    /\ UNCHANGED <<totals, counted>>

LedgerSpec == LedgerInit /\ [][\E b \in Batches : Count(b) \/ Confirm(b)]_ledgerVars
=============================================================================
