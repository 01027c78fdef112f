--------------------------- MODULE LicenseIssuing ---------------------------
(***************************************************************************)
(* Issuing licenses on the server                                          *)
(* (packages/server/src/modules/license/license.service.ts and             *)
(* credential/credential.service.ts), while the signing keys are rotated.  *)
(*                                                                         *)
(* issue, renew and reissue run in database transactions of InnoDB's       *)
(* REPEATABLE READ: a transaction reads the rows as they were at its first *)
(* read, its updates lock rows until it ends and act on their latest       *)
(* version, and its writes are seen by others when it commits.  The        *)
(* signing key is read outside the transaction, on a second connection of  *)
(* the pool.  A transaction is cut at the first read, at the first lock,   *)
(* at the reading of the key and at the commit; the inserts and updates    *)
(* before the commit are seen by nobody else.                              *)
(*                                                                         *)
(* Limits, features, warning days and names are copied from a row to its   *)
(* credential and left out, as is the audit record written after the       *)
(* transaction; customers are all in good standing.                        *)
(***************************************************************************)
EXTENDS LicenseTerm, SigningKeys, FiniteSets

CONSTANTS
    Sessions,    \* requests that may be under way at the same time
    Pools,       \* how many connections the pool may have (connectionLimit of mysql2)
    LicenseIds,  \* bound: the licenses that may exist
    Trials,      \* those of them that are trials, registered at time 0
    TrialEnd,    \* when these end
    Jtis,        \* bound: the credentials that may be signed
    Starts,      \* the start dates an operator may enter
    Ends,        \* the end dates, or None
    LastTime     \* bound: the clock stops there

ASSUME IssuingAssumption ==
    /\ Pools \subseteq Nat
    /\ Trials \subseteq LicenseIds /\ TrialEnd \in Int
    /\ Starts \subseteq Int /\ Ends \subseteq Int \cup {None}
    /\ LastTime \in Nat
    /\ None \notin LicenseIds /\ None \notin Kids

VARIABLES
    now,       \* the server's clock
    licenses,  \* lc_license: a row, or None
    creds,     \* lc_credential
    tx,        \* per session: its transaction
    cron,      \* refreshStatuses: its next statement and the time it runs for, or None
    pool       \* connections of the pool

issuingVars == <<now, licenses, creds, tx, cron, pool>>
vars == <<issuingVars, keyVars>>

Statuses == {"pending", "active", "expired", "void"}
Operations == {"issue", "convert", "renew", "reissue"}

Row == [typ : {"formal", "trial"}, status : Statuses, start : Int, end : Int \cup {None}]

ASSUME NoRowAssumption == None \notin Row

Credential == [jti : Jtis, lic : LicenseIds, kid : Kids,
               start : Int, end : Int \cup {None}, superseded : BOOLEAN]

(* A transaction: the license it is about, the row it writes and signs,    *)
(* the trial it converts and the key it read.                              *)
Transaction ==
    [at : {"begun", "locked", "signing"}, op : Operations, id : LicenseIds, row : Row,
     trial : LicenseIds \cup {None}, key : Kids \cup {None}]

ASSUME NoTransactionAssumption == None \notin Transaction

Refresh == [step : {"active", "expired"}, at : Nat]

TypeOK ==
    /\ KeysTypeOK
    /\ now \in Nat
    /\ licenses \in [LicenseIds -> Row \cup {None}]
    /\ creds \subseteq Credential
    /\ tx \in [Sessions -> Transaction \cup {None}]
    /\ cron \in Refresh \cup {None}
    /\ pool \in Pools

Init ==
    /\ KeysInit
    /\ now = 0
    /\ licenses = [l \in LicenseIds |->
           IF l \in Trials THEN [typ |-> "trial", status |-> "active", start |-> 0, end |-> TrialEnd]
           ELSE None]
    /\ \E jti \in [Trials -> Jtis] :
         /\ \A t, u \in Trials : jti[t] = jti[u] => t = u
         /\ creds = {[jti |-> jti[t], lic |-> t, kid |-> FirstKey, start |-> 0,
                      end |-> InSeconds(TrialEnd), superseded |-> FALSE] : t \in Trials}
    /\ tx = [s \in Sessions |-> None]
    /\ cron = None
    /\ pool \in Pools

-----------------------------------------------------------------------------
(* Connections and locks *)

Busy == {s \in Sessions : tx[s] # None}

(* Variant for mutation: an operation opens a transaction of its own       *)
(* inside that of its caller.                                              *)
NestedConnections == 2

(* Connections a transaction keeps until it ends. *)
Connections == 1

Free == pool - Connections * Cardinality(Busy)

(* What a transaction locks first: the row of the number sequence, or that *)
(* of the license it updates.  reissue locks nothing.                      *)
NeedsLock(s) == tx[s].op # "reissue"

SameLock(s, r) ==
    \/ tx[s].op = "renew" /\ tx[r].op = "renew" /\ tx[s].id = tx[r].id
    \/ tx[s].op \in {"issue", "convert"} /\ tx[r].op \in {"issue", "convert"}

HasLock(s) == NeedsLock(s) /\ tx[s].at # "begun"

WaitsForLock(s) ==
    /\ NeedsLock(s) /\ tx[s].at = "begun"
    /\ \E r \in Busy \ {s} : HasLock(r) /\ SameLock(s, r)

RowLocked(l) == \E s \in Busy : HasLock(s) /\ tx[s].op = "renew" /\ tx[s].id = l

NeedsKey(s) == tx[s].at = IF NeedsLock(s) THEN "locked" ELSE "begun"

-----------------------------------------------------------------------------
(* Transactions: the first read, on which everything is checked *)

Begin(s, op, l, row, trial) ==
    /\ tx[s] = None
    /\ Free > 0
    /\ tx' = [tx EXCEPT ![s] = [at |-> "begun", op |-> op, id |-> l, row |-> row,
                                trial |-> trial, key |-> None]]
    /\ UNCHANGED <<now, licenses, creds, cron, pool, keyVars>>

NewRow(start, end) ==
    [typ |-> "formal", status |-> DeriveStatus(start, end, now), start |-> start, end |-> end]

Unused(l) == licenses[l] = None /\ \A s \in Busy : tx[s].id # l

(* issue, for a new customer or to convert a trial. *)
Issue(s, l, start, end, trial) ==
    /\ Unused(l)
    /\ TermAccepted(start, end)
    /\ Begin(s, IF trial = None THEN "issue" ELSE "convert", l, NewRow(start, end), trial)

(* A renewal changes two columns. *)
Patched(row, end, status) == [row EXCEPT !.end = end, !.status = status]

(* Variant for mutation: the status is not derived again. *)
RenewedKeepingStatus(row, end) == Patched(row, end, row.status)

Renewed(row, end) == Patched(row, end, DeriveStatus(row.start, end, now))

Renew(s, l, end) ==
    /\ licenses[l] # None /\ end # None
    /\ licenses[l].typ = "formal"
    /\ licenses[l].status # "void"
    /\ licenses[l].end # None => end > licenses[l].end
    /\ TermAccepted(now, end)
    /\ Begin(s, "renew", l, Renewed(licenses[l], end), None)

Reissue(s, l) ==
    /\ licenses[l] # None
    /\ licenses[l].status # "void"
    /\ Begin(s, "reissue", l, licenses[l], None)

(* The row of a new license is made when its number is drawn. *)
Prepared(s) ==
    IF tx[s].op \in {"issue", "convert"} THEN NewRow(tx[s].row.start, tx[s].row.end)
                                         ELSE tx[s].row

(* Variant for mutation: the row is written outside the transaction. *)
LockWritingRow(s) ==
    /\ s \in Busy
    /\ NeedsLock(s) /\ tx[s].at = "begun" /\ ~WaitsForLock(s)
    /\ tx' = [tx EXCEPT ![s].at = "locked", ![s].row = Prepared(s)]
    /\ licenses' = [licenses EXCEPT ![tx[s].id] = Prepared(s)]
    /\ UNCHANGED <<now, creds, cron, pool, keyVars>>

Lock(s) ==
    /\ s \in Busy
    /\ NeedsLock(s) /\ tx[s].at = "begun" /\ ~WaitsForLock(s)
    /\ tx' = [tx EXCEPT ![s].at = "locked", ![s].row = Prepared(s)]
    /\ UNCHANGED <<now, licenses, creds, cron, pool, keyVars>>

(* Variant for mutation: that there is no active key goes unnoticed. *)
ReadKeyUnchecked(s) ==
    /\ s \in Busy
    /\ NeedsKey(s)
    /\ Free > 0
    /\ \E k \in IF ActiveKeys = {} THEN {None} ELSE ActiveKeys :
          tx' = [tx EXCEPT ![s].at = "signing", ![s].key = k]
    /\ UNCHANGED <<now, licenses, creds, cron, pool, keyVars>>

(* The active key is read, on another connection. *)
ReadKey(s) ==
    /\ s \in Busy
    /\ NeedsKey(s)
    /\ Free > 0
    /\ \E k \in ActiveKeys : tx' = [tx EXCEPT ![s].at = "signing", ![s].key = k]
    /\ UNCHANGED <<now, licenses, creds, cron, pool, keyVars>>

(* Variant for mutation: a renewal signs the row as it was before. *)
SignedBeforeUpdate(s, jti) ==
    [jti |-> jti, lic |-> tx[s].id, kid |-> tx[s].key,
     start |-> InSeconds(tx[s].row.start),
     end |-> InSeconds(IF tx[s].op = "renew" THEN licenses[tx[s].id].end ELSE tx[s].row.end),
     superseded |-> FALSE]

(* The credential a transaction signs. *)
Signed(s, jti) ==
    [jti |-> jti, lic |-> tx[s].id, kid |-> tx[s].key,
     start |-> InSeconds(tx[s].row.start), end |-> InSeconds(tx[s].row.end),
     superseded |-> FALSE]

(* The new credential supersedes all others of its license. *)
WithNew(new) ==
    {IF c.lic = new.lic THEN [c EXCEPT !.superseded = TRUE] ELSE c : c \in creds} \cup {new}

(* The rows as a transaction leaves them.  A renewal changes the end and   *)
(* the status; a conversion voids the trial, whatever its status.          *)
Written(s) ==
    CASE tx[s].op = "issue"   -> [licenses EXCEPT ![tx[s].id] = tx[s].row]
      [] tx[s].op = "convert" -> [licenses EXCEPT ![tx[s].id] = tx[s].row,
                                                  ![tx[s].trial].status = "void"]
      [] tx[s].op = "renew"   -> [licenses EXCEPT ![tx[s].id] =
                                       Patched(@, tx[s].row.end, tx[s].row.status)]
      [] tx[s].op = "reissue" -> licenses

(* The credential is signed and inserted, and the transaction commits. *)
Commit(s) ==
    /\ s \in Busy
    /\ tx[s].at = "signing"
    /\ \E jti \in Jtis \ {c.jti : c \in creds} : creds' = WithNew(Signed(s, jti))
    /\ licenses' = Written(s)
    /\ tx' = [tx EXCEPT ![s] = None]
    /\ UNCHANGED <<now, cron, pool, keyVars>>

(* No active key, a deadlock, a lock wait too long, a lost connection. *)
RollBack(s) ==
    /\ s \in Busy
    /\ tx' = [tx EXCEPT ![s] = None]
    /\ UNCHANGED <<now, licenses, creds, cron, pool, keyVars>>

-----------------------------------------------------------------------------
(* Single statements *)

(* voidLicense: an update of its own, once nobody has the row locked. *)
VoidLicense(l) ==
    /\ licenses[l] # None
    /\ ~RowLocked(l)
    /\ licenses' = [licenses EXCEPT ![l].status = "void"]
    /\ UNCHANGED <<now, creds, tx, cron, pool, keyVars>>

(* refreshStatuses, hourly: it reads the time, then one update for the     *)
(* licenses that start and one for those that end; each waits for every    *)
(* row lock, and fails when it waits too long.                             *)
StartRefresh ==
    /\ cron = None
    /\ cron' = [step |-> "active", at |-> now]
    /\ UNCHANGED <<now, licenses, creds, tx, pool, keyVars>>

RefreshActive ==
    /\ cron # None /\ cron.step = "active"
    /\ \A l \in LicenseIds : ~RowLocked(l)
    /\ licenses' = [l \in LicenseIds |->
           IF /\ licenses[l] # None /\ licenses[l].status = "pending"
              /\ licenses[l].start <= cron.at /\ ~Over(licenses[l].end, cron.at)
             THEN [licenses[l] EXCEPT !.status = "active"]
             ELSE licenses[l]]
    /\ cron' = [cron EXCEPT !.step = "expired"]
    /\ UNCHANGED <<now, creds, tx, pool, keyVars>>

RefreshExpired ==
    /\ cron # None /\ cron.step = "expired"
    /\ \A l \in LicenseIds : ~RowLocked(l)
    /\ licenses' = [l \in LicenseIds |->
           IF /\ licenses[l] # None /\ licenses[l].status \in {"pending", "active"}
              /\ Over(licenses[l].end, cron.at)
             THEN [licenses[l] EXCEPT !.status = "expired"]
             ELSE licenses[l]]
    /\ cron' = None
    /\ UNCHANGED <<now, creds, tx, pool, keyVars>>

FailRefresh ==
    /\ cron # None
    /\ cron' = None
    /\ UNCHANGED <<now, licenses, creds, tx, pool, keyVars>>

Tick ==
    /\ now < LastTime
    /\ now' = now + 1
    /\ UNCHANGED <<licenses, creds, tx, cron, pool, keyVars>>

Request(s) ==
    \/ \E l \in LicenseIds, start \in Starts, end \in Ends, trial \in Trials \cup {None} :
          Issue(s, l, start, end, trial)
    \/ \E l \in LicenseIds, end \in Ends : Renew(s, l, end)
    \/ \E l \in LicenseIds : Reissue(s, l)

Next ==
    \/ \E s \in Sessions :
          Request(s) \/ Lock(s) \/ ReadKey(s) \/ Commit(s) \/ RollBack(s)
    \/ \E l \in LicenseIds : VoidLicense(l)
    \/ StartRefresh \/ RefreshActive \/ RefreshExpired \/ FailRefresh
    \/ Tick
    \/ KeyStep /\ UNCHANGED issuingVars

Spec == Init /\ [][Next]_vars

-----------------------------------------------------------------------------
(* Properties *)

Current(l) == {c \in creds : c.lic = l /\ ~c.superseded}

(* A license is never without its credential, and has exactly one that     *)
(* counts, however many operators work on it and wherever they fail        *)
(* (license.service.ts:119-123, credential.service.ts:103-111).            *)
OneCurrent == \A l \in LicenseIds : licenses[l] # None => \E c \in creds : Current(l) = {c}

(* Whatever is signed is signed with a key that every client knows: a      *)
(* rotation, interrupted or raced by another, never lets a key sign before *)
(* it was shipped (signing-key.service.ts:13-24, 50-60).                   *)
SignedWithDeployedKey == \A c \in creds : c.kid \in deployed

StatusOf(row, t) ==
    /\ row.status = "expired" => Over(row.end, t)
    /\ row.status = "active"  => row.start <= t

(* The cached status never runs ahead of the dates: nothing is listed as   *)
(* expired while its term runs, or as active before it starts, not even    *)
(* when the hourly refresh meets a renewal (license.service.ts:345-371).   *)
StatusNotEarly ==
    \A l \in LicenseIds : licenses[l] # None => StatusOf(licenses[l], now)

(* The end of a license and its current credential change together: what a *)
(* renewal records is what it signs (license.service.ts:230-257).          *)
EndAndCredential ==
    \A l \in LicenseIds :
        licenses[l] # None /\ licenses'[l].end # licenses[l].end =>
            \A c \in Current(l)' : c.end = InSeconds(licenses'[l].end)

EndMovesWithCredential == [][EndAndCredential]_licenses

(* Requests wait for row locks, and, with a connection in hand, for        *)
(* another one to read the key on (credential.service.ts:60-61 inside a    *)
(* transaction).  They all wait for one another, and hang, only when every *)
(* connection of the pool is one of theirs: with one to spare, the locks   *)
(* let somebody go on.  A used-up pool does hang, and stays so until a     *)
(* lock wait times out or a connection is lost.                            *)
Hang == Busy # {} /\ \A s \in Busy : WaitsForLock(s) \/ (NeedsKey(s) /\ Free <= 0)

HangsOnlyWhenExhausted == Hang => Cardinality(Busy) = pool

(* A renewal only extends: the new end must come after the present one     *)
(* (license.service.ts:218-220).                                           *)
TermsOnlyExtended ==
    \A l \in LicenseIds :
        licenses[l] # None /\ licenses'[l].end # licenses[l].end =>
            licenses[l].end # None /\ licenses'[l].end > licenses[l].end

RenewalsExtend == [][TermsOnlyExtended]_licenses
=============================================================================
