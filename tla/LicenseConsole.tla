--------------------------- MODULE LicenseConsole ---------------------------
(***************************************************************************)
(* From the form an operator fills in to what the customer's client        *)
(* allows: the license pages of the administration UI                      *)
(* (packages/web/src/pages/license), the requests they send, what the      *)
(* server writes and signs (license.service.ts, credential.service.ts),    *)
(* and the verdicts of the SDK on the credential.                          *)
(*                                                                         *)
(* A page shows a license as it was when it was loaded; a form is sent     *)
(* once its contents are confirmed; an answer may be late, the operator    *)
(* may send the same form again, and a request that was given up may still *)
(* arrive, or never (nothing obliges the server to serve it).  Requests    *)
(* overlap at the server: a transaction checks what its first read shows   *)
(* it (REPEATABLE READ), and writes when it has the locks, or is rolled    *)
(* back.  LicenseIssuing takes the transactions further apart, with the    *)
(* keys and the numbers; here a commit is one step.                        *)
(*                                                                         *)
(* One plain limit (users) and one quota with a period (tokens) stand for  *)
(* the two of each kind.  No form sends overLimitRatio: it is the default  *)
(* throughout.  Every operator has the role the pages ask for.             *)
(***************************************************************************)
EXTENDS LicenseTerm, FiniteSets

CONSTANTS
    Operators,       \* browser tabs, each with one operator
    Customers,       \* lc_customer
    LicenseIds,      \* bound: the licenses that may exist
    Issued,          \* those of them that were issued before
    Features,        \* FEATURE_OPTIONS
    LaterFeatures,   \* features a later release of the product has
    IssueForms,      \* what an operator may fill in: a set of Form
    RenewEnds,       \* the days a license may be renewed to
    RenewUsers,      \* the user limits a renewal may set, None: unlimited
    MaxConfirms,     \* bound: forms that are confirmed
    MaxTries,        \* bound: how often one form is sent
    MaxInFlight,     \* bound: requests that are on their way or under way at once
    MaxEdits,        \* bound: how often a customer is edited
    LastDay,         \* bound: the last day the client is asked about
    SkewTol,         \* policy.clockSkewTolSec of every credential
    ReminderDays     \* DAILY_REMINDER_DAYS of the SDK

ASSUME ConsoleAssumption ==
    /\ RenewEnds \subseteq Nat /\ RenewUsers \subseteq (Nat \ {0}) \cup {None}
    /\ MaxConfirms \in Nat /\ MaxTries \in Nat /\ MaxInFlight \in Nat
    /\ MaxEdits \in Nat /\ LastDay \in Nat
    /\ SkewTol \in Nat /\ ReminderDays \in Nat
    /\ Features \cap LaterFeatures = {}
    /\ None \notin LicenseIds /\ Issued \subseteq LicenseIds

VARIABLES
    customers,   \* per customer: name (a number that grows) and whether enabled
    licenses,    \* lc_license: a row, or None
    creds,       \* the current credential of a license, or None
    requests,    \* requests on their way to the server
    work,        \* transactions under way
    tabs,        \* per operator: the page, the confirmed form, whether it waits
    confirmed,   \* how many forms were confirmed
    agreed,      \* history: what was last confirmed of a license and carried out
    basis,       \* history: the agreement the current credential was made for
    renewed,     \* history: per license, how often each confirmed renewal was carried out
    contended    \* history: licenses two renewals of which were under way at once

data == <<customers, licenses, creds>>
history == <<agreed, basis, renewed, contended>>
vars == <<data, requests, work, tabs, confirmed, history>>

Client == INSTANCE Limits WITH
    HardRollback <- 1, MaxRollbackCount <- 1, RollbackDecay <- 1, MaxAdvance <- 1,
    DefaultSkewTol <- SkewTol, TrialDays <- 0, TrialWarnDays <- 0, FormalWarnDays <- 0,
    TrialEnabled <- FALSE, Enforce <- TRUE

Optional(S) == S \cup {None}
Periods == {"total", "monthly"}
Positive == Nat \ {0}
Quota == [limit : Positive, period : Periods]

(* The limits part of a form: no field takes less than one, and a period   *)
(* stays in its field while the quota is switched off.                     *)
LimitFields == [users : Optional(Positive), tokens : Optional(Positive), period : Periods]

Form == [customer : Customers, start : Nat, end : Optional(Nat), warnDays : Nat,
         features : SUBSET Features, limits : LimitFields]

RenewForm == [end : Nat, warnDays : Nat, updateLimits : BOOLEAN, limits : LimitFields]

(* The limits as the row has them: a period exactly where there is a quota. *)
RowLimits ==
    {limits \in [users : Optional(Positive), tokens : Optional(Positive),
                 period : Optional(Periods)] :
        (limits.tokens = None) <=> (limits.period = None)}

Row == [customer : Customers, void : BOOLEAN, start : Nat, end : Optional(Nat),
        warnDays : Nat, features : Optional(SUBSET Features), limits : RowLimits]

Payload == [name : Nat, start : Nat, end : Optional(Nat), warnDays : Nat,
            features : Optional(SUBSET Features),
            limits : [users : Optional(Positive), tokens : Optional(Quota)]]

(* What was agreed, in days; all features includes those of later releases. *)
Agreement == [start : Nat, end : Optional(Nat), warnDays : Nat,
              features : SUBSET (Features \cup LaterFeatures), limits : LimitFields]

Kinds == {"issue", "renew", "reissue", "void"}

FormsOf(kind) ==
    CASE kind = "issue" -> Form
      [] kind = "renew" -> RenewForm
      [] OTHER          -> {None}

Page == [id : LicenseIds, row : Row]

(* A confirmed form: of a license, unless it is to issue one. *)
Draft == {d \in [n : 1..MaxConfirms, tries : 0..MaxTries, kind : Kinds,
                 id : Optional(LicenseIds), form : Form \cup RenewForm \cup {None}] :
             /\ d.form \in FormsOf(d.kind)
             /\ d.kind = "issue" <=> d.id = None}

ASSUME FormsAssumption == IssueForms \subseteq Form

ASSUME NoneAssumption ==
    /\ None \notin Periods /\ None \notin Quota
    /\ \A s \in SUBSET (Features \cup LaterFeatures) : s # None
    /\ None \notin Row /\ None \notin Payload /\ None \notin Agreement
    /\ None \notin Page /\ None \notin Draft

Customer == [name : 0..MaxEdits, enabled : BOOLEAN, edits : 0..MaxEdits]
Tab == [page : Optional(Page), draft : Optional(Draft), waiting : BOOLEAN]

RequestOK(r) ==
    /\ r.by \in Operators /\ r.n \in 1..MaxConfirms /\ r.try \in 1..MaxTries
    /\ r.kind \in Kinds /\ r.id \in Optional(LicenseIds) /\ r.form \in FormsOf(r.kind)
    /\ r.kind = "issue" <=> r.id = None

(* A transaction: its request, and what it read: the row (the one to be    *)
(* inserted, when it issues), the customer's name, and what was agreed.    *)
WorkOK(t) ==
    /\ RequestOK(t.req) /\ t.req.kind # "void"
    /\ t.row \in Row /\ t.name \in 0..MaxEdits /\ t.basis \in Agreement

TypeOK ==
    /\ customers \in [Customers -> Customer]
    /\ licenses \in [LicenseIds -> Optional(Row)]
    /\ creds \in [LicenseIds -> Optional(Payload)]
    /\ \A r \in requests : RequestOK(r)
    /\ \A t \in work : WorkOK(t)
    /\ tabs \in [Operators -> Tab]
    /\ \A o \in Operators : tabs[o].waiting => tabs[o].draft # None
    /\ confirmed \in 0..MaxConfirms
    /\ agreed \in [LicenseIds -> Optional(Agreement)]
    /\ basis \in [LicenseIds -> Optional(Agreement)]
    /\ renewed \in [LicenseIds -> [1..MaxConfirms -> Nat]]
    /\ contended \subseteq LicenseIds
    /\ \A l \in LicenseIds : (licenses[l] = None) <=> (creds[l] = None)

-----------------------------------------------------------------------------
(* Dates: the pages send the first and the last millisecond of a day *)

StartOfDay(d) == d * Day
EndOfDay(d) == (d + 1) * Day - 1

EndInstant(d) == IF d = None THEN None ELSE EndOfDay(d)

-----------------------------------------------------------------------------
(* What a form turns into *)

(* All features are sent as none at all, so that later ones are included. *)
FeaturesSent(features) == IF features = Features THEN None ELSE features

(* A field that is switched off is not sent, nor is its period. *)
LimitsSent(limits) ==
    [limits EXCEPT !.period = IF limits.tokens = None THEN None ELSE limits.period]

IssuePayload(form) ==
    [customer |-> form.customer, start |-> StartOfDay(form.start), end |-> EndInstant(form.end),
     warnDays |-> form.warnDays, features |-> FeaturesSent(form.features),
     limits |-> LimitsSent(form.limits)]

RenewPayload(form) ==
    [end |-> EndInstant(form.end), warnDays |-> form.warnDays, updateLimits |-> form.updateLimits,
     limits |-> LimitsSent(form.limits)]

-----------------------------------------------------------------------------
(* What the server writes and signs *)

(* No feature and no list are both stored as NULL. *)
FeaturesStored(features) == IF features = {} THEN None ELSE features

(* Variant for mutation: the default period is written without a quota, too. *)
LimitsStoredDefaulted(limits) ==
    [limits EXCEPT !.period = IF limits.period = None THEN "total" ELSE limits.period]

(* buildLimitsPatch *)
LimitsStored(limits) ==
    [limits EXCEPT !.period =
        IF limits.tokens = None THEN None
        ELSE IF limits.period = None THEN "total" ELSE limits.period]

(* toQuota *)
ToQuota(limit, period) ==
    IF limit = None THEN None
    ELSE IF limit <= 0 THEN None
    ELSE [limit |-> limit, period |-> IF period = "monthly" THEN "monthly" ELSE "total"]

(* buildPayload: the row and the customer's name, as the transaction has them. *)
Signed(row, name) ==
    [name |-> name, start |-> ToUnix(row.start),
     end |-> IF row.end = None THEN None ELSE ToUnix(row.end),
     warnDays |-> row.warnDays, features |-> row.features,
     limits |-> [users |-> row.limits.users, tokens |-> ToQuota(row.limits.tokens, row.limits.period)]]

NewRow(p) ==
    [customer |-> p.customer, void |-> FALSE, start |-> p.start, end |-> p.end,
     warnDays |-> p.warnDays, features |-> FeaturesStored(p.features),
     limits |-> LimitsStored(p.limits)]

(* A renewal writes the limits only when it is told to, the status always. *)
RenewedRow(row, p) ==
    [row EXCEPT !.void = FALSE, !.end = p.end, !.warnDays = p.warnDays,
                !.limits = IF p.updateLimits THEN LimitsStored(p.limits) ELSE @]

(* What a confirmed issue form promises. *)
AgreedBy(form) ==
    [start |-> form.start, end |-> form.end, warnDays |-> form.warnDays,
     features |-> IF form.features = Features THEN Features \cup LaterFeatures ELSE form.features,
     limits |-> form.limits]

(* What a confirmed renewal makes of it. *)
RenewedAgreement(a, form) ==
    [a EXCEPT !.end = form.end, !.warnDays = form.warnDays,
              !.limits = IF form.updateLimits THEN form.limits ELSE @]

(* Some licenses exist, issued through the same drawer. *)
Init ==
    /\ customers = [c \in Customers |-> [name |-> 0, enabled |-> TRUE, edits |-> 0]]
    /\ \E form \in [Issued -> IssueForms] :
         /\ licenses = [l \in LicenseIds |->
                IF l \in Issued THEN NewRow(IssuePayload(form[l])) ELSE None]
         /\ agreed = [l \in LicenseIds |-> IF l \in Issued THEN AgreedBy(form[l]) ELSE None]
    /\ creds = [l \in LicenseIds |-> IF l \in Issued THEN Signed(licenses[l], 0) ELSE None]
    /\ requests = {} /\ work = {}
    /\ tabs = [o \in Operators |-> [page |-> None, draft |-> None, waiting |-> FALSE]]
    /\ confirmed = 0
    /\ basis = agreed
    /\ renewed = [l \in LicenseIds |-> [n \in 1..MaxConfirms |-> 0]]
    /\ contended = {}

-----------------------------------------------------------------------------
(* Operators *)

Loaded(l) == [id |-> l, row |-> licenses[l]]

Idle(o) == tabs[o].draft = None

(* The detail page of a license is loaded, or loaded again (while forms    *)
(* are left to confirm).                                                   *)
OpenDetail(o, l) ==
    /\ Idle(o) /\ licenses[l] # None /\ confirmed < MaxConfirms
    /\ tabs' = [tabs EXCEPT ![o].page = Loaded(l)]
    /\ UNCHANGED <<data, requests, work, confirmed, history>>

Confirm(o, kind, id, form) ==
    /\ Idle(o) /\ confirmed < MaxConfirms
    /\ confirmed' = confirmed + 1
    /\ tabs' = [tabs EXCEPT ![o].draft = [n |-> confirmed + 1, tries |-> 0, kind |-> kind,
                                          id |-> id, form |-> form]]
    /\ UNCHANGED <<data, requests, work, history>>

(* The issue drawer: handleConfirm wants an end or a perpetual license. *)
ConfirmIssue(o) == \E form \in IssueForms : Confirm(o, "issue", None, form)

OnPage(o) == tabs[o].page # None /\ ~tabs[o].page.row.void

(* The fields of the renewal start from the page. *)
PageLimits(row) ==
    [row.limits EXCEPT !.period = IF row.limits.period = None THEN "total" ELSE row.limits.period]

(* The renewal dialog: the new end must be later than the one on the page, *)
(* and the limits may be changed with it.                                  *)
ConfirmRenew(o) ==
    /\ OnPage(o)
    /\ LET row == tabs[o].page.row
       IN  \E d \in RenewEnds, update \in BOOLEAN,
              users \in {row.limits.users} \cup RenewUsers :
             /\ row.end # None => EndOfDay(d) > row.end
             /\ ~update => users = row.limits.users
             /\ Confirm(o, "renew", tabs[o].page.id,
                        [end |-> d, warnDays |-> row.warnDays, updateLimits |-> update,
                         limits |-> [PageLimits(row) EXCEPT !.users = users]])

ConfirmReissue(o) == OnPage(o) /\ Confirm(o, "reissue", tabs[o].page.id, None)
ConfirmVoid(o)    == OnPage(o) /\ Confirm(o, "void", tabs[o].page.id, None)

PayloadOf(draft) ==
    CASE draft.kind = "issue" -> IssuePayload(draft.form)
      [] draft.kind = "renew" -> RenewPayload(draft.form)
      [] OTHER                -> None

(* The button is pressed: the form is sent, for the first time or again. *)
Send(o) ==
    LET d == tabs[o].draft
    IN  /\ d # None /\ ~tabs[o].waiting
        /\ d.tries < MaxTries /\ Cardinality(requests) + Cardinality(work) < MaxInFlight
        /\ requests' = requests \cup
               {[by |-> o, n |-> d.n, try |-> d.tries + 1, kind |-> d.kind, id |-> d.id,
                 form |-> d.form, payload |-> PayloadOf(d)]}
        /\ tabs' = [tabs EXCEPT ![o].draft.tries = @ + 1, ![o].waiting = TRUE]
        /\ UNCHANGED <<data, work, confirmed, history>>

(* No answer within the timeout of the request: the dialog stays open. *)
GiveUp(o) ==
    /\ tabs[o].waiting
    /\ tabs' = [tabs EXCEPT ![o].waiting = FALSE]
    /\ UNCHANGED <<data, requests, work, confirmed, history>>

Cancel(o) ==
    /\ ~Idle(o) /\ ~tabs[o].waiting
    /\ tabs' = [tabs EXCEPT ![o].draft = None]
    /\ UNCHANGED <<data, requests, work, confirmed, history>>

(* A customer is renamed, disabled or enabled. *)
UpdateCustomer(c, rename, enabled) ==
    /\ customers[c].edits < MaxEdits /\ (rename \/ enabled # customers[c].enabled)
    /\ customers' = [customers EXCEPT ![c].name = IF rename THEN @ + 1 ELSE @,
                                      ![c].enabled = enabled, ![c].edits = @ + 1]
    /\ UNCHANGED <<licenses, creds, requests, work, tabs, confirmed, history>>

-----------------------------------------------------------------------------
(* The server *)

Awaited(r) ==
    /\ tabs[r.by].waiting
    /\ tabs[r.by].draft.n = r.n /\ tabs[r.by].draft.tries = r.try

(* The answer closes the dialog; the pages of a license are loaded again. *)
Answer(r) ==
    tabs' = IF Awaited(r)
              THEN [tabs EXCEPT ![r.by].draft = None, ![r.by].waiting = FALSE,
                                ![r.by].page = IF r.id = None THEN @
                                               ELSE [id |-> r.id, row |-> licenses'[r.id]]]
              ELSE tabs

(* An error is shown in the dialog, which stays open. *)
AnswerError(r) == tabs' = IF Awaited(r) THEN [tabs EXCEPT ![r.by].waiting = FALSE] ELSE tabs

Enabled(c) == customers[c].enabled

(* Variant for mutation: the same end may be renewed to again. *)
LaterOrSame(row, end) == row.end # None => end >= row.end

Later(row, end) == row.end # None => end > row.end

IssueAccepted(r) ==
    /\ TermAccepted(r.payload.start, r.payload.end)
    /\ Enabled(r.payload.customer)

RenewAccepted(r) ==
    LET row == licenses[r.id]
    IN  /\ ~row.void
        /\ Later(row, r.payload.end)
        /\ TermAccepted(0, r.payload.end)
        /\ Enabled(row.customer)

ReissueAccepted(r) == ~licenses[r.id].void /\ Enabled(licenses[r.id].customer)

(* The renewals of a license that are under way. *)
Renewing(l) == {t \in work : t.req.kind = "renew" /\ t.req.id = l}

(* A transaction has made its reads and passed its checks: all in one      *)
(* snapshot, and none of them takes a lock.                                *)
Begin(r, row, a) ==
    /\ requests' = requests \ {r}
    /\ work' = work \cup
           {[req |-> r, row |-> row, name |-> customers[row.customer].name, basis |-> a]}
    /\ UNCHANGED <<data, tabs, confirmed, agreed, basis, renewed>>

BeginIssue(r) ==
    /\ r.kind = "issue" /\ IssueAccepted(r)
    /\ Begin(r, NewRow(r.payload), AgreedBy(r.form))
    /\ UNCHANGED contended

BeginRenew(r) ==
    /\ r.kind = "renew" /\ RenewAccepted(r)
    /\ Begin(r, licenses[r.id], agreed[r.id])
    /\ contended' = IF Renewing(r.id) = {} THEN contended ELSE contended \cup {r.id}

BeginReissue(r) ==
    /\ r.kind = "reissue" /\ ReissueAccepted(r)
    /\ Begin(r, licenses[r.id], agreed[r.id])
    /\ UNCHANGED contended

(* Of two transactions on one license the later commit supersedes the      *)
(* credential of the other (OneCurrent of LicenseIssuing).                 *)
Commit(t, l, row, a) ==
    /\ work' = work \ {t}
    /\ creds' = [creds EXCEPT ![l] = Signed(row, t.name)]
    /\ basis' = [basis EXCEPT ![l] = a]
    /\ Answer(t.req)
    /\ UNCHANGED <<customers, requests, confirmed, contended>>

(* issue: a new license each time. *)
Issue(t, l) ==
    /\ t.req.kind = "issue" /\ licenses[l] = None
    /\ licenses' = [licenses EXCEPT ![l] = t.row]
    /\ agreed' = [agreed EXCEPT ![l] = t.basis]
    /\ Commit(t, l, t.row, t.basis)
    /\ UNCHANGED renewed

(* Variant for mutation: the row that was read is written back. *)
RowRead(t) == t.row

(* The row an UPDATE writes: the latest, not that of the snapshot. *)
RowLocked(t) == licenses[t.req.id]

(* renew: the row as it is when the lock is had, nothing checked again;    *)
(* what it signs is the row it has written.                                *)
Renew(t) ==
    /\ t.req.kind = "renew"
    /\ LET l == t.req.id
           row == RenewedRow(RowLocked(t), t.req.payload)
           a == RenewedAgreement(agreed[l], t.req.form)
       IN  /\ licenses' = [licenses EXCEPT ![l] = row]
           /\ agreed' = [agreed EXCEPT ![l] = a]
           /\ renewed' = [renewed EXCEPT ![l][t.req.n] = @ + 1]
           /\ Commit(t, l, row, a)

(* Variant for mutation: what the operator's page shows is signed. *)
ReissueAsShown(t) ==
    /\ t.req.kind = "reissue"
    /\ tabs[t.req.by].page # None /\ tabs[t.req.by].page.id = t.req.id
    /\ UNCHANGED <<licenses, agreed, renewed>>
    /\ Commit(t, t.req.id, tabs[t.req.by].page.row, t.basis)

(* reissue: the row as it was read, signed again; nothing locks it. *)
Reissue(t) ==
    /\ t.req.kind = "reissue"
    /\ UNCHANGED <<licenses, agreed, renewed>>
    /\ Commit(t, t.req.id, t.row, t.basis)

(* A transaction that began is rolled back: a deadlock, a lock it waited   *)
(* for too long, no key to sign with, a lost connection.                   *)
RollBack(t) ==
    /\ work' = work \ {t}
    /\ AnswerError(t.req)
    /\ UNCHANGED <<data, requests, confirmed, history>>

(* voidLicense: of a license in any state; the credential stays. *)
Void(r) ==
    /\ r.kind = "void"
    /\ licenses' = [licenses EXCEPT ![r.id].void = TRUE]
    /\ requests' = requests \ {r}
    /\ Answer(r)
    /\ UNCHANGED <<customers, creds, work, confirmed, history>>

Accepted(r) ==
    CASE r.kind = "issue"   -> IssueAccepted(r)
      [] r.kind = "renew"   -> RenewAccepted(r)
      [] r.kind = "reissue" -> ReissueAccepted(r)
      [] OTHER              -> TRUE

Refuse(r) ==
    /\ ~Accepted(r)
    /\ requests' = requests \ {r}
    /\ AnswerError(r)
    /\ UNCHANGED <<data, work, confirmed, history>>

Next ==
    \/ \E o \in Operators :
         \/ \E l \in LicenseIds : OpenDetail(o, l)
         \/ ConfirmIssue(o) \/ ConfirmRenew(o) \/ ConfirmReissue(o) \/ ConfirmVoid(o)
         \/ Send(o) \/ GiveUp(o) \/ Cancel(o)
    \/ \E r \in requests :
         BeginIssue(r) \/ BeginRenew(r) \/ BeginReissue(r) \/ Void(r) \/ Refuse(r)
    \/ \E t \in work :
         \/ \E l \in LicenseIds : Issue(t, l)
         \/ Renew(t) \/ Reissue(t) \/ RollBack(t)
    \/ \E c \in Customers, rename, enabled \in BOOLEAN : UpdateCustomer(c, rename, enabled)

Spec == Init /\ [][Next]_vars

-----------------------------------------------------------------------------
(* Properties *)

(* What the client makes of a credential at a time, in milliseconds. *)
StateOf(cred, t) ==
    Client!EvaluateCredential(t,
        [typ |-> "formal", ours |-> TRUE, start |-> cred.start * Sec,
         end |-> IF cred.end = None THEN None ELSE cred.end * Sec,
         warnDays |-> cred.warnDays, skewTol |-> SkewTol], None)

Noon(d) == StartOfDay(d) + Day \div 2

ServedOnAgreedDays(cred, a) ==
    \A d \in 0..LastDay :
        StateOf(cred, Noon(d)).loginBlocked <=> d < a.start \/ (a.end # None /\ d > a.end)

Ratio == 110

LimitsAsAgreed(cred, a) ==
    /\ \A n \in 0..3 : Client!CanCreateUser(cred.limits, n)
                           <=> (a.limits.users = None \/ n < a.limits.users)
    /\ \A n \in 0..3 : Client!Blocked(Client!QuotaLimit(cred.limits.tokens), n, Ratio)
                           <=> (a.limits.tokens # None /\ n * 100 >= a.limits.tokens * Ratio)
    /\ a.limits.tokens # None => cred.limits.tokens.period = a.limits.period

FeaturesAsAgreed(cred, a) ==
    \A f \in Features \cup LaterFeatures :
        Client!IsFeatureEnabled(cred.features, f) <=> f \in a.features \/ a.features = {}

(* The current credential of a license makes the client do what had been   *)
(* confirmed of it when the transaction that signed it read the license    *)
(* (an issue and a renewal: with what they confirm), through form,         *)
(* request, row, payload and SDK: logins are open on the agreed days and   *)
(* on no other, users and quotas stop where they should, the ticked        *)
(* features are on, and "all" includes those of a later release; whatever  *)
(* pages were stale, and whichever requests came late, twice, never or at  *)
(* the same time.  Two exceptions: a form on which every feature is        *)
(* switched off is stored as "all" (license.service.ts:152), and a reissue *)
(* that a renewal overtakes makes what was agreed before it current again. *)
EnforcesAgreement ==
    \A l \in LicenseIds : creds[l] # None =>
        /\ ServedOnAgreedDays(creds[l], basis[l])
        /\ LimitsAsAgreed(creds[l], basis[l])
        /\ FeaturesAsAgreed(creds[l], basis[l])

(* One confirmation of a renewal renews once, even when its answer is lost  *)
(* and the form is sent again while the first request is still on its way,  *)
(* and whatever else is renewed meanwhile, as long as no two renewals of    *)
(* the license are under way at the server at once.  Two that overlap both  *)
(* pass the check on their snapshots, and both renew                        *)
(* (license.service.ts:210-243).                                            *)
RenewedOnce ==
    \A l \in LicenseIds, n \in 1..MaxConfirms : renewed[l][n] > 1 => l \in contended

(* The customer hears of the end before logins stop: in the last            *)
(* ReminderDays days of every credential the client shows the reminder.     *)
RemindedBeforeBlocked ==
    \A l \in LicenseIds : creds[l] # None /\ creds[l].end # None =>
        \A t \in {StartOfDay(d) : d \in 0..LastDay} \cup {Noon(d) : d \in 0..LastDay} :
            LET end == creds[l].end * Sec
                state == StateOf(creds[l], t)
            IN  t >= end - ReminderDays * Day /\ t < end /\ ~state.loginBlocked
                    => Client!BuildNotice(state).level = "warning"

(* "warnDays: the client starts its popups this many days before the end"   *)
(* (IssueDrawer.tsx): the client's notices look at a constant instead.      *)
WarnsAsConfirmed ==
    \A l \in LicenseIds : creds[l] # None /\ basis[l].end # None =>
        \A d \in basis[l].start..basis[l].end :
            basis[l].end - d < basis[l].warnDays
                => Client!BuildNotice(StateOf(creds[l], Noon(d))).level # "none"

(* "The reissued credential has exactly the contents of the original"       *)
(* (ReissueModal.tsx), the customer's name aside, where a credential made   *)
(* for what is agreed replaces one that was: a reissue that a renewal       *)
(* overtakes replaces the renewed credential by one with the old contents.  *)
ReissueKeepsTerms ==
    [][\A l \in LicenseIds :
         /\ creds[l] # None /\ licenses'[l] = licenses[l]
         /\ basis[l] = agreed[l] /\ basis'[l] = agreed'[l]
         => creds'[l] = [creds[l] EXCEPT !.name = creds'[l].name]]_vars
=============================================================================
