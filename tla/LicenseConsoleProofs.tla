------------------------ MODULE LicenseConsoleProofs ------------------------
(***************************************************************************)
(* Proofs about the license pages, the server's writes and the client's    *)
(* verdicts: for any operators, customers, licenses and forms, any number  *)
(* of requests that are late, repeated, lost or under way at once, and any *)
(* times.                                                                  *)
(***************************************************************************)
EXTENDS LicenseConsole, TLAPS

-----------------------------------------------------------------------------
(* The inductive invariant *)

(* Requests on their way and under way. *)
Sent == requests \cup {t.req : t \in work}

(* Pages, forms and requests are about licenses that exist; a customer's   *)
(* name has changed no more often than the customer was edited.            *)
Known ==
    /\ \A o \in Operators :
         /\ tabs[o].page # None => licenses[tabs[o].page.id] # None
         /\ tabs[o].draft # None /\ tabs[o].draft.id # None => licenses[tabs[o].draft.id] # None
    /\ \A r \in Sent : r.id # None => licenses[r.id] # None
    /\ \A l \in LicenseIds : /\ (licenses[l] = None) <=> (agreed[l] = None)
                             /\ (licenses[l] = None) <=> (basis[l] = None)
    /\ \A c \in Customers : customers[c].name <= customers[c].edits

(* Two carriers of one confirmation. *)
Agree(a, b) == a.n = b.n => a.kind = b.kind /\ a.id = b.id /\ a.form = b.form

Drafts == {o \in Operators : tabs[o].draft # None}

(* Whatever carries the number of a confirmation carries its contents.     *)
Numbered ==
    /\ \A o \in Drafts : tabs[o].draft.n <= confirmed
    /\ \A r \in Sent : r.n <= confirmed /\ r.payload = PayloadOf(r)
    /\ \A o, p \in Drafts : tabs[o].draft.n = tabs[p].draft.n => o = p
    /\ \A o \in Drafts, r \in Sent : Agree(tabs[o].draft, r)
    /\ \A r, q \in Sent : Agree(r, q)

(* The license of a renewal ends no earlier than the renewal wants. *)
Reached(d) ==
    /\ licenses[d.id].end # None
    /\ licenses[d.id].end >= EndOfDay(d.form.end)

(* A form or request of a renewal of a license. *)
Renews(d, l) == d.kind = "renew" /\ d.id = l

(* Of a license whose renewals never overlapped: a renewal that was        *)
(* carried out has moved the end, no end comes back, and the one that is   *)
(* under way still wants a later end.                                      *)
Once(l) ==
    /\ \A n \in 1..MaxConfirms : renewed[l][n] <= 1
    /\ \A o \in Drafts : LET d == tabs[o].draft
                         IN  Renews(d, l) /\ renewed[l][d.n] # 0 => Reached(d)
    /\ \A r \in requests : Renews(r, l) /\ renewed[l][r.n] # 0 => Reached(r)
    /\ \A t \in Renewing(l) : /\ renewed[l][t.req.n] = 0
                              /\ Later(licenses[l], EndOfDay(t.req.form.end))
    /\ \A t, u \in Renewing(l) : t = u

Carried ==
    /\ \A l \in LicenseIds, n \in 1..MaxConfirms : n > confirmed => renewed[l][n] = 0
    /\ \A l \in LicenseIds \ contended : Once(l)

(* All features and none are both stored as NULL. *)
FeaturesFor(a) == IF a.features \in {{}, Features \cup LaterFeatures} THEN None ELSE a.features

(* The row says what was agreed. *)
RowAsAgreed(row, a) ==
    /\ row.start = StartOfDay(a.start) /\ row.end = EndInstant(a.end)
    /\ row.warnDays = a.warnDays /\ row.features = FeaturesFor(a)
    /\ row.limits = LimitsStored(LimitsSent(a.limits))

(* A row as agreed, signed with a name the customer has had. *)
SignedFor(cred, a) ==
    \E row \in Row, name \in 0..MaxEdits : RowAsAgreed(row, a) /\ cred = Signed(row, name)

(* Rows say what is agreed, those that a transaction has read what was;    *)
(* the credential is that of its own agreement.                            *)
InSync ==
    /\ \A l \in LicenseIds : licenses[l] # None =>
         RowAsAgreed(licenses[l], agreed[l]) /\ SignedFor(creds[l], basis[l])
    /\ \A t \in work : RowAsAgreed(t.row, t.basis)

Sound == TypeOK /\ Known /\ Numbered /\ Carried /\ InSync

-----------------------------------------------------------------------------
(* Lemmas: days and seconds *)

(* The first and the last millisecond of a day. *)
LEMMA DaysOrdered ==
    ASSUME NEW d \in Nat
    PROVE  /\ StartOfDay(d) \in Nat /\ EndOfDay(d) \in Nat
           /\ EndOfDay(d) = StartOfDay(d) + Day - 1
<1>1. \A a, b \in Nat : a * b \in Nat
  OBVIOUS
<1>2. \A a \in Nat, b \in Nat : (a + 1) * b = a * b + b
  OBVIOUS
<1>3. Day \in Nat /\ Day >= 1
  BY TermAssumption
<1>4. d * Day \in Nat /\ (d + 1) * Day = d * Day + Day
  BY <1>1, <1>2, <1>3
<1> QED
  BY <1>3, <1>4 DEF StartOfDay, EndOfDay

(* A later day starts after an earlier one has ended. *)
LEMMA LaterDay ==
    ASSUME NEW d \in Nat, NEW e \in Nat, d < e
    PROVE  StartOfDay(d) + Day <= StartOfDay(e)
<1>1. \A a, b, c \in Nat : a <= b => a * c <= b * c
  OBVIOUS
<1>2. d + 1 \in Nat /\ d + 1 <= e /\ Day \in Nat
  BY TermAssumption
<1>3. (d + 1) * Day <= e * Day
  BY <1>1, <1>2
<1>4. (d + 1) * Day = d * Day + Day
  BY <1>2
<1> QED
  BY <1>3, <1>4 DEF StartOfDay

(* Rounding down to a second loses less than a second. *)
LEMMA SecondsBelow ==
    ASSUME NEW t \in Nat
    PROVE  /\ ToUnix(t) \in Nat
           /\ ToUnix(t) * Sec \in Nat
           /\ ToUnix(t) * Sec <= t /\ t < ToUnix(t) * Sec + Sec
<1>1. \A a \in Nat, b \in Nat \ {0} :
        a \div b \in Nat /\ (a \div b) * b <= a /\ a < (a \div b) * b + b
  OBVIOUS
<1>2. Sec \in Nat \ {0}
  BY TermAssumption
<1>3. \A a, b \in Nat : a * b \in Nat
  OBVIOUS
<1> QED
  BY <1>1, <1>2, <1>3 DEF ToUnix

(* Days left are rounded up. *)
LEMMA DaysLeft ==
    ASSUME NEW a \in Int, NEW k \in Nat, a <= k * Day
    PROVE  -((-a) \div Day) \in Int /\ -((-a) \div Day) <= k
<1>1. \A x \in Int, b \in Nat \ {0} : x \div b \in Int /\ x < (x \div b) * b + b
  OBVIOUS
<1>2. Day \in Nat \ {0}
  BY TermAssumption
<1>3. PICK q \in Int : q = (-a) \div Day /\ -a < q * Day + Day
  BY <1>1, <1>2
<1>4. -(k * Day) < q * Day + Day
  BY <1>2, <1>3
<1>5. \A x, y \in Int, b \in Nat \ {0} : -(x * b) < y * b + b => -y <= x
  <2> SUFFICES ASSUME NEW x \in Int, NEW y \in Int, NEW b \in Nat \ {0}, x < -y
               PROVE  -(x * b) >= y * b + b
    OBVIOUS
  <2>1. -y - (x + 1) \in Nat
    OBVIOUS
  <2>5. PICK m \in Nat : m = -y - (x + 1)
    BY <2>1
  <2>2. m * b \in Nat
    OBVIOUS
  <2>3. y = -(x + 1 + m)
    BY <2>5
  <2>4. y * b = -(x * b) - b - m * b
    BY <2>3
  <2> QED
    BY <2>2, <2>4
<1>6. -q <= k
  BY <1>2, <1>4, <1>5
<1> QED
  BY <1>3, <1>6

-----------------------------------------------------------------------------
(* Lemmas: from the form to the row and the credential *)

(* Instants are numbers, and not None. *)
LEMMA EndIsInstant ==
    ASSUME NEW end \in Optional(Nat)
    PROVE  /\ EndInstant(end) \in Optional(Nat)
           /\ EndInstant(end) = None <=> end = None
           /\ end # None => end \in Nat /\ EndInstant(end) = EndOfDay(end)
<1>1. None \notin Nat
  BY TermAssumption
<1> QED
  BY <1>1, DaysOrdered DEF EndInstant, Optional

(* Limits: the row has those of the form, and a period with a quota only. *)
LEMMA LimitsOfForm ==
    ASSUME NEW limits \in LimitFields
    PROVE  LET stored == LimitsStored(LimitsSent(limits))
           IN  /\ stored \in RowLimits
               /\ stored.users = limits.users /\ stored.tokens = limits.tokens
               /\ limits.tokens # None => stored.period = limits.period
<1>1. None \notin Periods /\ "total" \in Periods
  BY NoneAssumption DEF Periods
<1>2. PICK users \in Optional(Positive), tokens \in Optional(Positive), period \in Periods :
        limits = [users |-> users, tokens |-> tokens, period |-> period]
  BY DEF LimitFields
<1>5. LimitsSent(limits) =
        [users |-> users, tokens |-> tokens, period |-> IF tokens = None THEN None ELSE period]
  BY <1>2 DEF LimitsSent
<1>3. LimitsStored(LimitsSent(limits)) =
        [users |-> users, tokens |-> tokens, period |-> IF tokens = None THEN None ELSE period]
  BY <1>1, <1>5 DEF LimitsStored
<1>4. LimitsStored(LimitsSent(limits)) \in RowLimits
  BY <1>1, <1>3 DEF RowLimits, Optional
<1> QED
  BY <1>2, <1>3, <1>4

(* Features: none at all and every one are both stored as None. *)
LEMMA FeaturesOfForm ==
    ASSUME NEW form \in Form
    PROVE  /\ FeaturesStored(FeaturesSent(form.features)) \in Optional(SUBSET Features)
           /\ FeaturesStored(FeaturesSent(form.features)) = FeaturesFor(AgreedBy(form))
<1> DEFINE features == form.features
           stored == FeaturesStored(FeaturesSent(features))
           said == AgreedBy(form).features
<1>1. features \in SUBSET Features /\ features # None
  BY NoneAssumption DEF Form
<1>2. said = IF features = Features THEN Features \cup LaterFeatures ELSE features
  BY DEF AgreedBy
<1>3. stored = IF features = Features \/ features = {} THEN None ELSE features
  BY <1>1 DEF FeaturesStored, FeaturesSent
<1>4. said \in {{}, Features \cup LaterFeatures} <=> features = Features \/ features = {}
  BY <1>1, <1>2
<1>5. FeaturesFor(AgreedBy(form)) = IF features = Features \/ features = {} THEN None ELSE features
  BY <1>2, <1>4 DEF FeaturesFor
<1> QED
  BY <1>1, <1>3, <1>5 DEF Optional

(* A license is issued as the form says. *)
LEMMA RowOfForm ==
    ASSUME NEW form \in Form
    PROVE  /\ NewRow(IssuePayload(form)) \in Row
           /\ AgreedBy(form) \in Agreement
           /\ RowAsAgreed(NewRow(IssuePayload(form)), AgreedBy(form))
<1> DEFINE row == NewRow(IssuePayload(form))
<1>1. /\ form.customer \in Customers /\ form.start \in Nat /\ form.end \in Optional(Nat)
      /\ form.warnDays \in Nat /\ form.features \in SUBSET Features /\ form.limits \in LimitFields
  BY DEF Form
<1>2. row = [customer |-> form.customer, void |-> FALSE, start |-> StartOfDay(form.start),
             end |-> EndInstant(form.end), warnDays |-> form.warnDays,
             features |-> FeaturesStored(FeaturesSent(form.features)),
             limits |-> LimitsStored(LimitsSent(form.limits))]
  BY DEF NewRow, IssuePayload
<1>3. StartOfDay(form.start) \in Nat /\ EndInstant(form.end) \in Optional(Nat)
  BY <1>1, DaysOrdered, EndIsInstant
<1>4. LimitsStored(LimitsSent(form.limits)) \in RowLimits
  BY <1>1, LimitsOfForm
<1>5. /\ FeaturesStored(FeaturesSent(form.features)) \in Optional(SUBSET Features)
      /\ FeaturesStored(FeaturesSent(form.features)) = FeaturesFor(AgreedBy(form))
  BY FeaturesOfForm
<1>6. row \in Row
  BY <1>1, <1>2, <1>3, <1>4, <1>5 DEF Row
<1>7. AgreedBy(form) \in Agreement
  BY <1>1 DEF AgreedBy, Agreement
<1>8. RowAsAgreed(row, AgreedBy(form))
  <2> DEFINE a == AgreedBy(form)
  <2>1. /\ a.start = form.start /\ a.end = form.end /\ a.limits = form.limits
        /\ a.warnDays = form.warnDays
    BY DEF AgreedBy
  <2>2. /\ row.start = StartOfDay(form.start) /\ row.end = EndInstant(form.end)
        /\ row.warnDays = form.warnDays /\ row.limits = LimitsStored(LimitsSent(form.limits))
        /\ row.features = FeaturesStored(FeaturesSent(form.features))
    BY <1>2
  <2> HIDE DEF row, a
  <2> QED
    BY <1>5, <2>1, <2>2 DEF RowAsAgreed, a
<1> QED
  BY <1>6, <1>7, <1>8

(* A renewal moves row and agreement alike. *)
LEMMA RowOfRenewal ==
    ASSUME NEW row \in Row, NEW a \in Agreement, NEW form \in RenewForm, RowAsAgreed(row, a)
    PROVE  LET new == RenewedRow(row, RenewPayload(form))
               said == RenewedAgreement(a, form)
           IN  /\ new \in Row /\ said \in Agreement
               /\ new.end = EndOfDay(form.end) /\ new.end # None
               /\ RowAsAgreed(new, said)
<1> DEFINE stored == LimitsStored(LimitsSent(form.limits))
           new == RenewedRow(row, RenewPayload(form))
           said == RenewedAgreement(a, form)
<1>1. /\ form.end \in Nat /\ form.warnDays \in Nat /\ form.updateLimits \in BOOLEAN
      /\ form.limits \in LimitFields
  BY DEF RenewForm
<1>2. EndInstant(form.end) = EndOfDay(form.end) /\ EndOfDay(form.end) \in Nat
      /\ EndOfDay(form.end) # None /\ form.end # None
  BY <1>1, DaysOrdered, TermAssumption DEF EndInstant
<1>3. new = [row EXCEPT !.void = FALSE, !.end = EndOfDay(form.end), !.warnDays = form.warnDays,
                        !.limits = IF form.updateLimits THEN stored ELSE row.limits]
  BY <1>2 DEF RenewedRow, RenewPayload, Row
<1>4. stored \in RowLimits
  BY <1>1, LimitsOfForm
<1>5. said = [a EXCEPT !.end = form.end, !.warnDays = form.warnDays,
                       !.limits = IF form.updateLimits THEN form.limits ELSE a.limits]
  BY DEF RenewedAgreement, Agreement
<1> HIDE DEF new, said
<1>6. /\ new.end = EndOfDay(form.end) /\ new.start = row.start /\ new.customer = row.customer
      /\ new.features = row.features /\ new.warnDays = form.warnDays
      /\ new.limits = IF form.updateLimits THEN stored ELSE row.limits
  BY <1>3 DEF Row
<1>7. new \in Row
  BY <1>1, <1>2, <1>3, <1>4 DEF Row, Optional
<1>8. said \in Agreement
  BY <1>1, <1>5 DEF Agreement, Optional
<1>9. /\ said.end = form.end /\ said.start = a.start /\ said.features = a.features
      /\ said.warnDays = form.warnDays
      /\ said.limits = IF form.updateLimits THEN form.limits ELSE a.limits
  BY <1>5 DEF Agreement
<1>10. FeaturesFor(said) = FeaturesFor(a)
  BY <1>9 DEF FeaturesFor
<1>11. RowAsAgreed(new, said)
  BY <1>2, <1>6, <1>9, <1>10 DEF RowAsAgreed
<1> QED
  BY <1>2, <1>6, <1>7, <1>8, <1>11 DEF new, said

(* Two rows as agreed are signed alike. *)
LEMMA SignedAlike ==
    ASSUME NEW row, NEW other, NEW a, RowAsAgreed(row, a), RowAsAgreed(other, a),
           NEW x, NEW y
    PROVE  Signed(other, y) = [Signed(row, x) EXCEPT !.name = y] /\ Signed(other, y).name = y
  BY DEF Signed, RowAsAgreed

(* A row may be signed under any name. *)
LEMMA SignedType ==
    ASSUME NEW row \in Row, NEW name \in Nat
    PROVE  Signed(row, name) \in Payload
<1>1. /\ row.start \in Nat /\ row.end \in Optional(Nat) /\ row.warnDays \in Nat
      /\ row.features \in Optional(SUBSET Features) /\ row.limits \in RowLimits
  BY DEF Row
<1>2. ToUnix(row.start) \in Nat
  BY <1>1, SecondsBelow
<1>3. (IF row.end = None THEN None ELSE ToUnix(row.end)) \in Optional(Nat)
  BY <1>1, SecondsBelow DEF Optional
<1>4. /\ row.limits.users \in Optional(Positive) /\ row.limits.tokens \in Optional(Positive)
  BY <1>1 DEF RowLimits
<1>5. ToQuota(row.limits.tokens, row.limits.period) \in Optional(Quota)
  BY <1>4 DEF ToQuota, Quota, Optional, Periods, Positive
<1> QED
  BY <1>1, <1>2, <1>3, <1>4, <1>5 DEF Signed, Payload

-----------------------------------------------------------------------------
(* Lemmas: pages, forms and requests *)

(* A license is not None. *)
LEMMA IdsType == ASSUME NEW l \in LicenseIds PROVE l # None
  BY ConsoleAssumption

(* What is known of a license that exists. *)
LEMMA LicenseType ==
    ASSUME TypeOK, Known, NEW l \in LicenseIds, licenses[l] # None
    PROVE  /\ licenses[l] \in Row /\ creds[l] \in Payload
           /\ agreed[l] \in Agreement /\ basis[l] \in Agreement
  BY DEF TypeOK, Known, Optional

(* What is known of a request. *)
LEMMA RequestType ==
    ASSUME TypeOK, Known, Numbered, NEW r \in Sent
    PROVE  /\ r.by \in Operators /\ r.n \in 1..MaxConfirms
           /\ r.kind = "issue" => /\ r.id = None /\ r.form \in Form
                                  /\ r.payload = IssuePayload(r.form)
           /\ r.kind # "issue" => r.id \in LicenseIds /\ licenses[r.id] # None
           /\ r.kind = "renew" => r.form \in RenewForm /\ r.payload = RenewPayload(r.form)
<1>1. /\ r.by \in Operators /\ r.n \in 1..MaxConfirms /\ r.id \in Optional(LicenseIds)
      /\ r.form \in FormsOf(r.kind) /\ (r.kind = "issue" <=> r.id = None)
  BY DEF TypeOK, Sent, WorkOK, RequestOK
<1>2. r.payload = PayloadOf(r)
  BY DEF Numbered
<1>3. r.kind = "issue" => r.form \in Form /\ r.payload = IssuePayload(r.form)
  BY <1>1, <1>2 DEF FormsOf, PayloadOf
<1>4. r.kind = "renew" => r.form \in RenewForm /\ r.payload = RenewPayload(r.form)
  BY <1>1, <1>2 DEF FormsOf, PayloadOf
<1>5. r.kind # "issue" => r.id \in LicenseIds /\ licenses[r.id] # None
  BY <1>1 DEF Optional, Known
<1> QED
  BY <1>1, <1>3, <1>4, <1>5

(* What is known of a transaction. *)
LEMMA WorkType ==
    ASSUME TypeOK, NEW t \in work
    PROVE  /\ t.req \in Sent /\ t.req.kind # "void" /\ t.row \in Row /\ t.name \in 0..MaxEdits
           /\ t.basis \in Agreement
  BY DEF TypeOK, WorkOK, Sent

(* A tab, part by part. *)
LEMMA TabType ==
    ASSUME TypeOK, NEW o \in Operators
    PROVE  /\ tabs[o] =
                [page |-> tabs[o].page, draft |-> tabs[o].draft, waiting |-> tabs[o].waiting]
           /\ tabs[o].page \in Optional(Page) /\ tabs[o].draft \in Optional(Draft)
           /\ tabs[o].waiting \in BOOLEAN
           /\ tabs[o].waiting => tabs[o].draft # None
<1>1. tabs[o] \in Tab
  BY DEF TypeOK
<1> QED
  BY <1>1 DEF Tab, TypeOK

(* A page is of a license that exists. *)
LEMMA PageType ==
    ASSUME TypeOK, Known, NEW o \in Operators, tabs[o].page # None
    PROVE  /\ tabs[o].page.id \in LicenseIds /\ licenses[tabs[o].page.id] # None
           /\ tabs[o].page.row \in Row
  BY TabType DEF Known, Page, Optional

(* The four forms that can be confirmed, as one. *)
Confirms(o) == ConfirmIssue(o) \/ ConfirmRenew(o) \/ ConfirmReissue(o) \/ ConfirmVoid(o)

(* Each confirms a form of its kind, of a license that exists. *)
LEMMA ConfirmedForm ==
    ASSUME TypeOK, Known, NEW o \in Operators, Confirms(o)
    PROVE  \E kind \in Kinds, id \in Optional(LicenseIds) : \E form :
             /\ Confirm(o, kind, id, form)
             /\ form \in FormsOf(kind)
             /\ kind = "issue" <=> id = None
             /\ id # None => licenses[id] # None
<1>1. CASE ConfirmIssue(o)
  <2>1. PICK form \in IssueForms : Confirm(o, "issue", None, form)
    BY <1>1 DEF ConfirmIssue
  <2>2. form \in FormsOf("issue")
    BY FormsAssumption DEF FormsOf
  <2> QED
    BY <2>1, <2>2 DEF Kinds, Optional
<1>2. CASE ConfirmRenew(o)
  <2>1. tabs[o].page # None
    BY <1>2 DEF ConfirmRenew, OnPage
  <2> DEFINE row == tabs[o].page.row
  <2>2. /\ tabs[o].page.id \in LicenseIds /\ licenses[tabs[o].page.id] # None /\ row \in Row
        /\ tabs[o].page.id # None
    BY <2>1, PageType, IdsType
  <2>3. PICK d \in RenewEnds, update \in BOOLEAN, users \in {row.limits.users} \cup RenewUsers :
          Confirm(o, "renew", tabs[o].page.id,
                  [end |-> d, warnDays |-> row.warnDays, updateLimits |-> update,
                   limits |-> [PageLimits(row) EXCEPT !.users = users]])
    BY <1>2 DEF ConfirmRenew
  <2> HIDE DEF row
  <2>4. row.limits \in RowLimits /\ row.warnDays \in Nat
    BY <2>2 DEF Row
  <2>5. users \in Optional(Positive)
    BY <2>4, ConsoleAssumption DEF RowLimits, Optional, Positive
  <2>6. PageLimits(row) = [users |-> row.limits.users, tokens |-> row.limits.tokens,
                           period |-> IF row.limits.period = None THEN "total"
                                      ELSE row.limits.period]
    BY <2>4 DEF PageLimits, RowLimits
  <2>7. [PageLimits(row) EXCEPT !.users = users] \in LimitFields
    BY <2>4, <2>5, <2>6 DEF LimitFields, RowLimits, Optional, Periods
  <2>8. d \in Nat
    BY ConsoleAssumption
  <2>9. [end |-> d, warnDays |-> row.warnDays, updateLimits |-> update,
         limits |-> [PageLimits(row) EXCEPT !.users = users]] \in FormsOf("renew")
    BY <2>4, <2>7, <2>8 DEF FormsOf, RenewForm
  <2> QED
    BY <2>2, <2>3, <2>9 DEF Kinds, Optional
<1>3. ASSUME NEW kind \in {"reissue", "void"}, OnPage(o), Confirm(o, kind, tabs[o].page.id, None)
      PROVE  \E id \in Optional(LicenseIds) : \E form :
               /\ Confirm(o, kind, id, form) /\ form \in FormsOf(kind)
               /\ id # None /\ licenses[id] # None
  <2>1. /\ tabs[o].page.id \in LicenseIds /\ licenses[tabs[o].page.id] # None
        /\ tabs[o].page.id # None
    BY <1>3, PageType, IdsType DEF OnPage
  <2>2. None \in FormsOf(kind)
    BY DEF FormsOf
  <2> QED
    BY <1>3, <2>1, <2>2 DEF Optional
<1>4. CASE ConfirmReissue(o)
  BY <1>3, <1>4 DEF ConfirmReissue, Kinds
<1>5. CASE ConfirmVoid(o)
  BY <1>3, <1>5 DEF ConfirmVoid, Kinds
<1> QED
  BY <1>1, <1>2, <1>4, <1>5 DEF Confirms

-----------------------------------------------------------------------------
(* Lemmas: what a step does to a tab *)

(* Tab o has become tab; the others are as they were. *)
TabSet(o, tab) == tabs' = [tabs EXCEPT ![o] = tab]

(* A step of one tab leaves tabs. *)
LEMMA OneTab ==
    ASSUME TypeOK, NEW o \in Operators, NEW tab \in Tab, tab.waiting => tab.draft # None,
           TabSet(o, tab)
    PROVE  /\ tabs' \in [Operators -> Tab]
           /\ \A p \in Operators : tabs'[p].waiting => tabs'[p].draft # None
           /\ tabs'[o] = tab
           /\ \A p \in Operators : p # o => tabs'[p] = tabs[p]
<1>1. tabs \in [Operators -> Tab]
      /\ \A p \in Operators : tabs[p].waiting => tabs[p].draft # None
  BY DEF TypeOK
<1>2. tabs'[o] = tab /\ \A p \in Operators : p # o => tabs'[p] = tabs[p]
  BY <1>1 DEF TabSet
<1> QED
  BY <1>1, <1>2 DEF TabSet

(* A tab with one part exchanged, and with several. *)
LEMMA TabParts ==
    ASSUME NEW tab \in Tab, NEW x
    PROVE  /\ [tab EXCEPT !.page = x] = [page |-> x, draft |-> tab.draft, waiting |-> tab.waiting]
           /\ [tab EXCEPT !.draft = x] = [page |-> tab.page, draft |-> x, waiting |-> tab.waiting]
           /\ [tab EXCEPT !.waiting = x] = [page |-> tab.page, draft |-> tab.draft, waiting |-> x]
  BY DEF Tab

(* A form exchanged, and whether it waits. *)
LEMMA TabExchanged ==
    ASSUME NEW tab \in Tab, NEW x, NEW y
    PROVE  [tab EXCEPT !.draft = x, !.waiting = y] =
             [page |-> tab.page, draft |-> x, waiting |-> y]
<1>1. PICK first : first = [tab EXCEPT !.draft = x]
  OBVIOUS
<1>2. first = [page |-> tab.page, draft |-> x, waiting |-> tab.waiting]
  BY <1>1, TabParts
<1>3. [first EXCEPT !.waiting = y] = [page |-> tab.page, draft |-> x, waiting |-> y]
  BY <1>2
<1>4. [first EXCEPT !.waiting = y] = [tab EXCEPT !.draft = x, !.waiting = y]
  BY <1>1
<1> QED
  BY <1>3, <1>4

(* A tab exchanged in all its parts. *)
LEMMA TabReplaced ==
    ASSUME NEW tab \in Tab, NEW x, NEW y, NEW z
    PROVE  [tab EXCEPT !.draft = x, !.waiting = y, !.page = z] =
             [page |-> z, draft |-> x, waiting |-> y]
<1>1. PICK second : second = [tab EXCEPT !.draft = x, !.waiting = y]
  OBVIOUS
<1>2. second = [page |-> tab.page, draft |-> x, waiting |-> y]
  BY <1>1, TabExchanged
<1>3. [second EXCEPT !.page = z] = [page |-> z, draft |-> x, waiting |-> y]
  BY <1>2
<1>4. [second EXCEPT !.page = z] = [tab EXCEPT !.draft = x, !.waiting = y, !.page = z]
  BY <1>1
<1> QED
  BY <1>3, <1>4

(* A page is loaded. *)
LEMMA OpenDetailTab ==
    ASSUME TypeOK, NEW o \in Operators, NEW l \in LicenseIds, OpenDetail(o, l)
    PROVE  LET tab == [page |-> Loaded(l), draft |-> None, waiting |-> FALSE]
           IN  tab \in Tab /\ TabSet(o, tab)
<1>1. tabs[o] \in Tab /\ tabs[o].draft = None /\ tabs[o].waiting = FALSE
  BY TabType DEF OpenDetail, Idle, TypeOK
<1>2. licenses[l] \in Row
  BY DEF OpenDetail, TypeOK, Optional
<1>3. tabs' = [tabs EXCEPT ![o].page = Loaded(l)] /\ tabs \in [Operators -> Tab]
  BY DEF OpenDetail, TypeOK
<1>4. Loaded(l) \in Page
  BY <1>2 DEF Loaded, Page
<1>5. [tabs[o] EXCEPT !.page = Loaded(l)] = [page |-> Loaded(l), draft |-> None, waiting |-> FALSE]
  BY <1>1, TabParts
<1> QED
  BY <1>3, <1>4, <1>5 DEF TabSet, Tab, Optional

NewDraft(kind, id, form) ==
    [n |-> confirmed + 1, tries |-> 0, kind |-> kind, id |-> id, form |-> form]

(* A form is confirmed. *)
LEMMA ConfirmTab ==
    ASSUME TypeOK, NEW o \in Operators, NEW kind \in Kinds, NEW id \in Optional(LicenseIds),
           NEW form \in FormsOf(kind), kind = "issue" <=> id = None, Confirm(o, kind, id, form)
    PROVE  LET tab == [page |-> tabs[o].page, draft |-> NewDraft(kind, id, form),
                       waiting |-> FALSE]
           IN  tab \in Tab /\ NewDraft(kind, id, form) # None /\ TabSet(o, tab)
<1>1. tabs[o] \in Tab /\ tabs[o].draft = None /\ tabs[o].waiting = FALSE
      /\ tabs[o].page \in Optional(Page)
  BY TabType DEF Confirm, Idle, TypeOK
<1>2. confirmed + 1 \in 1..MaxConfirms /\ 0 \in 0..MaxTries
  BY ConsoleAssumption DEF Confirm, TypeOK
<1>3. form \in Form \cup RenewForm \cup {None}
  BY DEF FormsOf
<1>4. NewDraft(kind, id, form) \in Draft
  BY <1>2, <1>3 DEF NewDraft, Draft
<1>5. tabs' = [tabs EXCEPT ![o].draft = NewDraft(kind, id, form)] /\ tabs \in [Operators -> Tab]
  BY DEF Confirm, TypeOK, NewDraft
<1>6. [tabs[o] EXCEPT !.draft = NewDraft(kind, id, form)] =
        [page |-> tabs[o].page, draft |-> NewDraft(kind, id, form), waiting |-> FALSE]
  BY <1>1, TabParts
<1> QED
  BY <1>1, <1>4, <1>5, <1>6, NoneAssumption DEF TabSet, Tab, Optional

(* A form is sent. *)
SentDraft(o) == [tabs[o].draft EXCEPT !.tries = @ + 1]

(* The form counts its tries and waits. *)
LEMMA SendTab ==
    ASSUME TypeOK, NEW o \in Operators, Send(o)
    PROVE  LET tab == [page |-> tabs[o].page, draft |-> SentDraft(o), waiting |-> TRUE]
           IN  /\ tab \in Tab /\ SentDraft(o) # None /\ TabSet(o, tab)
               /\ tabs[o].draft \in Draft /\ tabs[o].draft.tries + 1 \in 1..MaxTries
               /\ Agree(SentDraft(o), tabs[o].draft) /\ SentDraft(o).n = tabs[o].draft.n
<1>1. tabs[o] \in Tab /\ tabs[o].page \in Optional(Page) /\ tabs[o].draft \in Draft
      /\ tabs[o].draft.tries < MaxTries
  BY TabType DEF Send, Optional, TypeOK
<1>2. tabs[o].draft.tries + 1 \in 1..MaxTries /\ tabs[o].draft.tries + 1 \in 0..MaxTries
  BY <1>1, ConsoleAssumption DEF Draft
<1>3. SentDraft(o) \in Draft /\ Agree(SentDraft(o), tabs[o].draft)
      /\ SentDraft(o).n = tabs[o].draft.n
  <2>1. PICK d \in Draft : d = tabs[o].draft
    BY <1>1
  <2>2. SentDraft(o) = [d EXCEPT !.tries = d.tries + 1]
    BY <2>1 DEF SentDraft, Draft
  <2>3. d.tries + 1 \in 0..MaxTries
    BY <1>2, <2>1
  <2>4. [d EXCEPT !.tries = d.tries + 1] \in Draft
    BY <2>3 DEF Draft
  <2>5. Agree([d EXCEPT !.tries = d.tries + 1], d) /\ [d EXCEPT !.tries = d.tries + 1].n = d.n
    BY DEF Draft, Agree
  <2> QED
    BY <2>1, <2>2, <2>4, <2>5
<1>4. tabs' = [tabs EXCEPT ![o].draft.tries = @ + 1, ![o].waiting = TRUE]
      /\ tabs \in [Operators -> Tab]
  BY DEF Send, TypeOK
<1>5. tabs' = [tabs EXCEPT ![o] = [@ EXCEPT !.draft = SentDraft(o), !.waiting = TRUE]]
  BY <1>4 DEF SentDraft
<1>6. [tabs[o] EXCEPT !.draft = SentDraft(o), !.waiting = TRUE] =
        [page |-> tabs[o].page, draft |-> SentDraft(o), waiting |-> TRUE]
  BY <1>1, TabExchanged
<1>7. TabSet(o, [page |-> tabs[o].page, draft |-> SentDraft(o), waiting |-> TRUE])
  BY <1>4, <1>5, <1>6 DEF TabSet
<1> QED
  BY <1>1, <1>2, <1>3, <1>7, NoneAssumption DEF Tab, Optional

(* The dialog stops waiting, and closes or stays open. *)
LEMMA QuietTab ==
    ASSUME TypeOK, NEW o \in Operators,
           NEW page \in Optional(Page), NEW draft \in Optional(Draft)
    PROVE  [page |-> page, draft |-> draft, waiting |-> FALSE] \in Tab
  BY DEF Tab

(* The dialog stays open. *)
LEMMA GiveUpTab ==
    ASSUME TypeOK, NEW o \in Operators, tabs' = [tabs EXCEPT ![o].waiting = FALSE]
    PROVE  TabSet(o, [page |-> tabs[o].page, draft |-> tabs[o].draft, waiting |-> FALSE])
<1>1. tabs[o] \in Tab
  BY DEF TypeOK
<1>2. [tabs[o] EXCEPT !.waiting = FALSE] =
        [page |-> tabs[o].page, draft |-> tabs[o].draft, waiting |-> FALSE]
  BY <1>1, TabParts
<1> QED
  BY <1>2 DEF TabSet, TypeOK

(* The dialog is closed. *)
LEMMA CancelTab ==
    ASSUME TypeOK, NEW o \in Operators, Cancel(o)
    PROVE  TabSet(o, [page |-> tabs[o].page, draft |-> None, waiting |-> FALSE])
<1>1. tabs[o] \in Tab /\ tabs[o].waiting = FALSE
  BY TabType DEF Cancel, TypeOK
<1>2. [tabs[o] EXCEPT !.draft = None] =
        [page |-> tabs[o].page, draft |-> None, waiting |-> FALSE]
  <2>1. [tabs[o] EXCEPT !.draft = None] =
          [page |-> tabs[o].page, draft |-> None, waiting |-> tabs[o].waiting]
    BY <1>1, TabParts
  <2> QED
    BY <1>1, <2>1
<1> QED
  BY <1>2 DEF TabSet, TypeOK, Cancel

(* An answer closes the dialog that waits for it, and no other. *)
LEMMA AnswerTab ==
    ASSUME TypeOK, Known, Numbered, NEW r \in Sent, Answer(r),
           r.id # None => licenses'[r.id] \in Row
    PROVE  \/ tabs' = tabs
           \/ \E page \in Optional(Page) :
                /\ TabSet(r.by, [page |-> page, draft |-> None, waiting |-> FALSE])
                /\ page = tabs[r.by].page \/ (r.id # None /\ page \in Page /\ page.id = r.id)
<1>1. r.by \in Operators /\ (r.id # None => r.id \in LicenseIds)
  BY RequestType
<1> SUFFICES ASSUME Awaited(r)
             PROVE  \E page \in Optional(Page) :
                      /\ TabSet(r.by, [page |-> page, draft |-> None, waiting |-> FALSE])
                      /\ page = tabs[r.by].page \/ (r.id # None /\ page \in Page /\ page.id = r.id)
  BY DEF Answer
<1> DEFINE page == IF r.id = None THEN tabs[r.by].page
                   ELSE [id |-> r.id, row |-> licenses'[r.id]]
<1>2. tabs[r.by] \in Tab /\ tabs[r.by].page \in Optional(Page)
  BY <1>1, TabType DEF TypeOK
<1>3. page \in Optional(Page)
  BY <1>1, <1>2 DEF Page, Optional
<1>4. tabs' = [tabs EXCEPT ![r.by] =
                 [@ EXCEPT !.draft = None, !.waiting = FALSE, !.page = page]]
      /\ tabs \in [Operators -> Tab]
  BY <1>1 DEF Answer, TypeOK, Tab
<1>5. [tabs[r.by] EXCEPT !.draft = None, !.waiting = FALSE, !.page = page] =
        [page |-> page, draft |-> None, waiting |-> FALSE]
  <2> HIDE DEF page
  <2> QED
    BY <1>2, TabReplaced
<1>6. TabSet(r.by, [page |-> page, draft |-> None, waiting |-> FALSE])
  BY <1>4, <1>5 DEF TabSet
<1>7. page = tabs[r.by].page \/ (r.id # None /\ page \in Page /\ page.id = r.id)
  BY <1>1 DEF Page
<1> QED
  BY <1>3, <1>6, <1>7

-----------------------------------------------------------------------------
(* Lemmas: what the server writes *)

(* A license keeps the end it has. *)
EndKept(l) == licenses[l] # None => licenses'[l] # None /\ licenses'[l].end = licenses[l].end

(* A transaction that commits leaves a credential of its own agreement. *)
LEMMA CommitEffect ==
    ASSUME TypeOK, NEW t \in work, NEW l \in LicenseIds, NEW row \in Row,
           NEW a \in Agreement, RowAsAgreed(row, a), Commit(t, l, row, a)
    PROVE  /\ creds' \in [LicenseIds -> Optional(Payload)]
           /\ basis' \in [LicenseIds -> Optional(Agreement)]
           /\ creds'[l] # None /\ basis'[l] # None /\ SignedFor(creds'[l], basis'[l])
           /\ \A m \in LicenseIds : m # l => creds'[m] = creds[m] /\ basis'[m] = basis[m]
           /\ work' \subseteq work
<1>1. t.name \in 0..MaxEdits /\ MaxEdits \in Nat
  BY WorkType, ConsoleAssumption
<1>2. Signed(row, t.name) \in Payload
  BY <1>1, SignedType
<1>3. SignedFor(Signed(row, t.name), a)
  BY <1>1 DEF SignedFor
<1>4. /\ creds' = [creds EXCEPT ![l] = Signed(row, t.name)] /\ basis' = [basis EXCEPT ![l] = a]
      /\ creds \in [LicenseIds -> Optional(Payload)] /\ basis \in [LicenseIds -> Optional(Agreement)]
      /\ work' = work \ {t}
  BY DEF Commit, TypeOK
<1> QED
  BY <1>2, <1>3, <1>4, NoneAssumption DEF Optional

LicensesStay == \A l \in LicenseIds : licenses[l] # None => licenses'[l] # None

(* The rows, credentials and agreements that a step of the server leaves.  *)
Written(r) ==
    /\ licenses' \in [LicenseIds -> Optional(Row)]
    /\ creds' \in [LicenseIds -> Optional(Payload)]
    /\ agreed' \in [LicenseIds -> Optional(Agreement)]
    /\ basis' \in [LicenseIds -> Optional(Agreement)]
    /\ \A l \in LicenseIds : /\ (licenses'[l] = None) <=> (creds'[l] = None)
                             /\ (licenses'[l] = None) <=> (agreed'[l] = None)
                             /\ (licenses'[l] = None) <=> (basis'[l] = None)
    /\ work' \subseteq work
    /\ LicensesStay
    /\ InSync'
    /\ r.id # None => licenses'[r.id] \in Row

(* One row is written, with its agreement. *)
RowPut(l) ==
    /\ licenses' \in [LicenseIds -> Optional(Row)] /\ agreed' \in [LicenseIds -> Optional(Agreement)]
    /\ licenses'[l] \in Row /\ agreed'[l] \in Agreement
    /\ RowAsAgreed(licenses'[l], agreed'[l])
    /\ \A m \in LicenseIds : m # l => licenses'[m] = licenses[m] /\ agreed'[m] = agreed[m]

(* It is the one that is written. *)
LEMMA RowIsPut ==
    ASSUME TypeOK, NEW l \in LicenseIds, NEW row \in Row, NEW a \in Agreement, RowAsAgreed(row, a),
           licenses' = [licenses EXCEPT ![l] = row], agreed' = [agreed EXCEPT ![l] = a]
    PROVE  RowPut(l) /\ licenses'[l] = row
<1>1. licenses'[l] = row /\ agreed'[l] = a
  BY DEF TypeOK
<1>2. /\ licenses' \in [LicenseIds -> Optional(Row)] /\ agreed' \in [LicenseIds -> Optional(Agreement)]
      /\ \A m \in LicenseIds : m # l => licenses'[m] = licenses[m] /\ agreed'[m] = agreed[m]
  BY DEF TypeOK, Optional
<1> QED
  BY <1>1, <1>2 DEF RowPut

(* A license is written with its agreement, and its credential with its    *)
(* own.                                                                    *)
LEMMA WrittenRow ==
    ASSUME TypeOK, Known, InSync, NEW r, NEW l \in LicenseIds, RowPut(l),
           creds' \in [LicenseIds -> Optional(Payload)],
           basis' \in [LicenseIds -> Optional(Agreement)],
           creds'[l] # None, basis'[l] # None, SignedFor(creds'[l], basis'[l]),
           \A m \in LicenseIds : m # l => creds'[m] = creds[m] /\ basis'[m] = basis[m],
           work' \subseteq work, r.id \in {None, l}
    PROVE  Written(r)
<1>1. /\ licenses' \in [LicenseIds -> Optional(Row)] /\ licenses'[l] # None
      /\ agreed' \in [LicenseIds -> Optional(Agreement)] /\ agreed'[l] # None
      /\ licenses'[l] \in Row /\ RowAsAgreed(licenses'[l], agreed'[l])
      /\ \A m \in LicenseIds : m # l => licenses'[m] = licenses[m] /\ agreed'[m] = agreed[m]
  BY NoneAssumption DEF RowPut
<1>2. InSync'
  <2>1. ASSUME NEW m \in LicenseIds, licenses'[m] # None
        PROVE  RowAsAgreed(licenses'[m], agreed'[m]) /\ SignedFor(creds'[m], basis'[m])
    <3>1. CASE m = l
      BY <1>1, <3>1
    <3>2. CASE m # l
      BY <1>1, <2>1, <3>2 DEF InSync
    <3> QED
      BY <3>1, <3>2
  <2>2. \A t \in work' : RowAsAgreed(t.row, t.basis)
    BY DEF InSync
  <2> QED
    BY <2>1, <2>2 DEF InSync, SignedFor
<1>3. LicensesStay
  BY <1>1 DEF LicensesStay
<1>4. \A m \in LicenseIds : /\ (licenses'[m] = None) <=> (creds'[m] = None)
                            /\ (licenses'[m] = None) <=> (agreed'[m] = None)
                            /\ (licenses'[m] = None) <=> (basis'[m] = None)
  BY <1>1 DEF TypeOK, Known
<1>5. r.id # None => licenses'[r.id] \in Row
  BY <1>1
<1> QED
  BY <1>1, <1>2, <1>3, <1>4, <1>5 DEF Written

(* A new license is as its form says. *)
LEMMA IssueWrites ==
    ASSUME TypeOK, Known, Numbered, InSync, NEW t \in work, NEW l \in LicenseIds, Issue(t, l)
    PROVE  Written(t.req) /\ \A m \in LicenseIds : EndKept(m)
<1>1. t.req.id = None /\ licenses[l] = None
  BY WorkType, RequestType DEF Issue
<1>2. t.row \in Row /\ t.basis \in Agreement /\ RowAsAgreed(t.row, t.basis)
  BY WorkType DEF InSync
<1>3. /\ licenses' = [licenses EXCEPT ![l] = t.row] /\ agreed' = [agreed EXCEPT ![l] = t.basis]
      /\ Commit(t, l, t.row, t.basis)
  BY DEF Issue
<1>6. RowPut(l)
  BY <1>2, <1>3, RowIsPut
<1>4. Written(t.req)
  BY <1>1, <1>2, <1>3, <1>6, CommitEffect, WrittenRow
<1>5. \A m \in LicenseIds : m # l => licenses'[m] = licenses[m]
  BY <1>3 DEF TypeOK
<1> QED
  BY <1>1, <1>4, <1>5 DEF EndKept

(* A renewed license ends when its form says. *)
LEMMA RenewWrites ==
    ASSUME TypeOK, Known, Numbered, InSync, NEW t \in work, Renew(t)
    PROVE  /\ Written(t.req) /\ t.req.id \in LicenseIds
           /\ licenses'[t.req.id].end = EndOfDay(t.req.form.end)
           /\ licenses'[t.req.id].end # None
           /\ \A m \in LicenseIds : m # t.req.id => EndKept(m)
<1> DEFINE l == t.req.id
           new == RenewedRow(licenses[l], RenewPayload(t.req.form))
           said == RenewedAgreement(agreed[l], t.req.form)
<1>1. /\ t.req.form \in RenewForm /\ t.req.payload = RenewPayload(t.req.form)
      /\ l \in LicenseIds /\ licenses[l] # None
  BY WorkType, RequestType DEF Renew
<1>2. licenses[l] \in Row /\ agreed[l] \in Agreement /\ RowAsAgreed(licenses[l], agreed[l])
  BY <1>1, LicenseType DEF InSync
<1>3. /\ new \in Row /\ said \in Agreement /\ RowAsAgreed(new, said)
      /\ new.end = EndOfDay(t.req.form.end) /\ new.end # None
  BY <1>1, <1>2, RowOfRenewal
<1>4. /\ licenses' = [licenses EXCEPT ![l] = new] /\ agreed' = [agreed EXCEPT ![l] = said]
      /\ Commit(t, l, new, said)
  BY <1>1 DEF Renew, RowLocked
<1> HIDE DEF new, said
<1>7. /\ creds' \in [LicenseIds -> Optional(Payload)]
      /\ basis' \in [LicenseIds -> Optional(Agreement)]
      /\ creds'[l] # None /\ basis'[l] # None /\ SignedFor(creds'[l], basis'[l])
      /\ \A m \in LicenseIds : m # l => creds'[m] = creds[m] /\ basis'[m] = basis[m]
      /\ work' \subseteq work
  <2> HIDE DEF l
  <2> QED
    BY <1>1, <1>3, <1>4, CommitEffect
<1>5. Written(t.req) /\ licenses'[l] = new
  <2>1. t.req.id \in {None, l}
    OBVIOUS
  <2> HIDE DEF l
  <2>2. RowPut(l) /\ licenses'[l] = new
    BY <1>1, <1>3, <1>4, RowIsPut
  <2> QED
    BY <1>1, <1>7, <2>1, <2>2, WrittenRow
<1>6. \A m \in LicenseIds : m # l => licenses'[m] = licenses[m]
  BY <1>4 DEF TypeOK
<1> QED
  BY <1>1, <1>3, <1>5, <1>6 DEF EndKept

(* A reissue writes no row. *)
LEMMA ReissueWrites ==
    ASSUME TypeOK, Known, Numbered, InSync, NEW t \in work, Reissue(t)
    PROVE  Written(t.req) /\ \A m \in LicenseIds : EndKept(m)
<1> DEFINE l == t.req.id
<1>1. l \in LicenseIds /\ licenses[l] # None
  BY WorkType, RequestType DEF Reissue
<1>2. t.row \in Row /\ t.basis \in Agreement /\ RowAsAgreed(t.row, t.basis)
  BY WorkType DEF InSync
<1>3. licenses' = licenses /\ agreed' = agreed /\ Commit(t, l, t.row, t.basis)
  BY DEF Reissue
<1>4. /\ licenses[l] \in Row /\ agreed[l] \in Agreement /\ RowAsAgreed(licenses[l], agreed[l])
  BY <1>1, LicenseType DEF InSync
<1>5. /\ licenses' = [licenses EXCEPT ![l] = licenses[l]]
      /\ agreed' = [agreed EXCEPT ![l] = agreed[l]]
  BY <1>1, <1>3 DEF TypeOK
<1>7. RowPut(l)
  BY <1>1, <1>4, <1>5, RowIsPut
<1>6. Written(t.req)
  BY <1>1, <1>2, <1>3, <1>7, CommitEffect, WrittenRow
<1> QED
  BY <1>3, <1>6 DEF EndKept

(* A voided license keeps its terms. *)
LEMMA VoidWrites ==
    ASSUME TypeOK, Known, Numbered, InSync, NEW r \in requests, Void(r)
    PROVE  Written(r) /\ \A m \in LicenseIds : EndKept(m)
<1> DEFINE l == r.id
           new == [licenses[l] EXCEPT !.void = TRUE]
<1>0. r \in Sent
  BY DEF Sent
<1>1. l \in LicenseIds /\ licenses[l] # None
  BY <1>0, RequestType DEF Void
<1>2. licenses[l] \in Row /\ agreed[l] \in Agreement /\ basis[l] \in Agreement
      /\ creds[l] \in Payload /\ RowAsAgreed(licenses[l], agreed[l]) /\ SignedFor(creds[l], basis[l])
  BY <1>1, LicenseType DEF InSync
<1>3. /\ new \in Row /\ new.end = licenses[l].end
      /\ new.start = licenses[l].start /\ new.warnDays = licenses[l].warnDays
      /\ new.features = licenses[l].features /\ new.limits = licenses[l].limits
  BY <1>2 DEF Row
<1>4. /\ licenses' = [licenses EXCEPT ![l] = new] /\ creds' = creds /\ agreed' = agreed
      /\ basis' = basis /\ work' = work
  BY <1>1 DEF Void, history, TypeOK
<1>5. RowAsAgreed(new, agreed[l])
  BY <1>2, <1>3 DEF RowAsAgreed
<1> HIDE DEF new
<1>6. agreed' = [agreed EXCEPT ![l] = agreed[l]]
  BY <1>1, <1>4 DEF TypeOK
<1>7. /\ creds' \in [LicenseIds -> Optional(Payload)]
      /\ basis' \in [LicenseIds -> Optional(Agreement)]
      /\ creds'[l] # None /\ basis'[l] # None /\ SignedFor(creds'[l], basis'[l])
  BY <1>2, <1>4, NoneAssumption DEF TypeOK
<1>8. Written(r) /\ licenses'[l] = new
  <2>1. r.id \in {None, l} /\ \A m \in LicenseIds : m # l => creds'[m] = creds[m] /\ basis'[m] = basis[m]
    BY <1>4
  <2> HIDE DEF l
  <2>2. RowPut(l) /\ licenses'[l] = new
    BY <1>1, <1>2, <1>3, <1>4, <1>5, <1>6, RowIsPut
  <2> QED
    BY <1>1, <1>4, <1>7, <2>1, <2>2, WrittenRow
<1>9. \A m \in LicenseIds : m # l => licenses'[m] = licenses[m]
  BY <1>4 DEF TypeOK
<1>10. \A m \in LicenseIds : licenses[m] # None =>
         licenses'[m] # None /\ licenses'[m].end = licenses[m].end
  BY <1>3, <1>8, <1>9, NoneAssumption
<1> QED
  BY <1>8, <1>10 DEF EndKept

-----------------------------------------------------------------------------
(* Lemmas: who carries a confirmation *)

(* Nothing new is confirmed or sent. *)
Fewer ==
    /\ requests' \subseteq requests /\ Sent' \subseteq Sent /\ confirmed' = confirmed
    /\ \A o \in Operators : tabs'[o].draft = tabs[o].draft \/ tabs'[o].draft = None

(* Fewer carriers of a confirmation agree as before. *)
LEMMA FewerCarriers ==
    ASSUME Numbered, Fewer
    PROVE  Numbered'
<1>1. \A o \in Operators : tabs'[o].draft # None =>
        o \in Drafts /\ tabs'[o].draft = tabs[o].draft
  BY DEF Fewer, Drafts
<1>2. Sent' \subseteq Sent /\ confirmed' = confirmed
  BY DEF Fewer
<1>3. /\ \A o \in Drafts' : tabs'[o].draft.n <= confirmed'
      /\ \A o, p \in Drafts' : tabs'[o].draft.n = tabs'[p].draft.n => o = p
      /\ \A o \in Drafts', r \in Sent' : Agree(tabs'[o].draft, r)
  BY <1>1, <1>2 DEF Numbered, Drafts
<1>4. /\ \A r \in Sent' : r.n <= confirmed' /\ r.payload = PayloadOf(r)
      /\ \A r, q \in Sent' : Agree(r, q)
  BY <1>2 DEF Numbered
<1> QED
  BY <1>3, <1>4 DEF Numbered

(* A confirmation takes the next number. *)
LEMMA ConfirmNumbers ==
    ASSUME TypeOK, Numbered, NEW o \in Operators, NEW kind \in Kinds,
           NEW id \in Optional(LicenseIds), NEW form \in FormsOf(kind),
           kind = "issue" <=> id = None, Confirm(o, kind, id, form)
    PROVE  Numbered'
<1> DEFINE new == NewDraft(kind, id, form)
<1>1. /\ tabs'[o].draft = new
      /\ \A p \in Operators : p # o => tabs'[p].draft = tabs[p].draft
  <2>1. PICK tab \in Tab : tab.draft = new /\ new # None /\ TabSet(o, tab) /\ tab.waiting = FALSE
    BY ConfirmTab
  <2> QED
    BY <2>1, OneTab
<1>2. Sent' = Sent /\ confirmed' = confirmed + 1 /\ confirmed \in Nat
  BY ConsoleAssumption DEF Confirm, TypeOK, Sent
<1>3. new.n = confirmed + 1 /\ new.kind = kind /\ new.form = form
  BY DEF NewDraft
<1> HIDE DEF new
<1>4. \A p \in Drafts' : p # o => p \in Drafts /\ tabs'[p].draft = tabs[p].draft
  BY <1>1 DEF Drafts
<1>5. \A p \in Drafts : tabs[p].draft.n \in Nat /\ tabs[p].draft.n <= confirmed
  <2> SUFFICES ASSUME NEW p \in Drafts PROVE tabs[p].draft \in Draft
    BY DEF Numbered, Draft
  <2> QED
    BY TabType DEF Drafts, Optional
<1>6. \A r \in Sent : r.n \in Nat /\ r.n <= confirmed
  BY DEF Numbered, TypeOK, Sent, WorkOK, RequestOK
<1>7. \A p \in Drafts' : tabs'[p].draft.n <= confirmed'
  BY <1>1, <1>2, <1>3, <1>4, <1>5
<1>8. \A r \in Sent' : r.n <= confirmed' /\ r.payload = PayloadOf(r)
  BY <1>2, <1>6 DEF Numbered
<1>9. \A p, q \in Drafts' : tabs'[p].draft.n = tabs'[q].draft.n => p = q
  BY <1>1, <1>2, <1>3, <1>4, <1>5 DEF Numbered
<1>10. \A p \in Drafts', r \in Sent' : Agree(tabs'[p].draft, r)
  <2> SUFFICES ASSUME NEW p \in Drafts', NEW r \in Sent PROVE Agree(tabs'[p].draft, r)
    BY <1>2
  <2>1. CASE p = o
    BY <1>1, <1>2, <1>3, <1>6, <2>1 DEF Agree
  <2>2. CASE p # o
    BY <1>4, <2>2 DEF Numbered
  <2> QED
    BY <2>1, <2>2
<1>11. \A r, q \in Sent' : Agree(r, q)
  BY <1>2 DEF Numbered
<1> QED
  BY <1>7, <1>8, <1>9, <1>10, <1>11 DEF Numbered

(* The request of a form. *)
RequestOf(o) ==
    [by |-> o, n |-> tabs[o].draft.n, try |-> tabs[o].draft.tries + 1, kind |-> tabs[o].draft.kind,
     id |-> tabs[o].draft.id, form |-> tabs[o].draft.form, payload |-> PayloadOf(tabs[o].draft)]

(* A form is sent with its number and contents. *)
LEMMA SendNumbers ==
    ASSUME TypeOK, Numbered, NEW o \in Operators, Send(o)
    PROVE  /\ Numbered'
           /\ requests' = requests \cup {RequestOf(o)} /\ Sent' = Sent \cup {RequestOf(o)}
           /\ tabs[o].draft # None
           /\ \A p \in Operators : /\ tabs[p].draft = None <=> tabs'[p].draft = None
                                   /\ tabs'[p].page = tabs[p].page
                                   /\ p \in Drafts => /\ tabs'[p].draft.n = tabs[p].draft.n
                                                      /\ tabs'[p].draft.id = tabs[p].draft.id
                                                      /\ tabs'[p].draft.kind = tabs[p].draft.kind
                                                      /\ tabs'[p].draft.form = tabs[p].draft.form
<1> DEFINE d == tabs[o].draft
           sent == SentDraft(o)
           new == RequestOf(o)
<1>1. /\ tabs'[o].draft = sent /\ tabs'[o].page = tabs[o].page
      /\ sent # None /\ d # None /\ d \in Draft /\ o \in Drafts
      /\ sent.n = d.n /\ sent.kind = d.kind /\ sent.id = d.id /\ sent.form = d.form
      /\ \A p \in Operators : p # o => tabs'[p] = tabs[p]
  <2>1. PICK tab \in Tab : /\ tab.draft = sent /\ tab.page = tabs[o].page /\ TabSet(o, tab)
                           /\ sent # None
    BY SendTab
  <2>2. tabs'[o] = tab /\ \A p \in Operators : p # o => tabs'[p] = tabs[p]
    BY <2>1, OneTab
  <2>3. d # None /\ d \in Draft /\ o \in Drafts
    BY SendTab DEF Send, Drafts
  <2>4. sent.n = d.n /\ Agree(sent, d)
    BY SendTab
  <2> QED
    BY <2>1, <2>2, <2>3, <2>4 DEF Agree
<1>2. Sent' = Sent \cup {new} /\ confirmed' = confirmed
  BY DEF Send, RequestOf, Sent
<1>3. new.n = d.n /\ new.kind = d.kind /\ new.id = d.id /\ new.form = d.form
      /\ new.payload = PayloadOf(d)
  BY DEF RequestOf
<1>4. PayloadOf(new) = PayloadOf(d)
  BY <1>3 DEF PayloadOf
<1> HIDE DEF sent, new
<1>5. \A p \in Operators : /\ tabs[p].draft = None <=> tabs'[p].draft = None
                           /\ tabs'[p].page = tabs[p].page
                           /\ p \in Drafts => /\ tabs'[p].draft.n = tabs[p].draft.n
                                              /\ tabs'[p].draft.id = tabs[p].draft.id
                                              /\ tabs'[p].draft.kind = tabs[p].draft.kind
                                              /\ tabs'[p].draft.form = tabs[p].draft.form
  BY <1>1
<1>6. Drafts' = Drafts
  BY <1>5 DEF Drafts
<1>7. \A p \in Drafts : Agree(d, tabs[p].draft)
  BY <1>1 DEF Numbered, Agree
<1>8. \A p \in Drafts', r \in Sent' : Agree(tabs'[p].draft, r)
  <2> SUFFICES ASSUME NEW p \in Drafts, NEW r \in Sent' PROVE Agree(tabs'[p].draft, r)
    BY <1>6
  <2>1. p \in Operators
    BY DEF Drafts
  <2>2. CASE r \in Sent
    BY <1>5, <2>1, <2>2 DEF Numbered, Agree
  <2>3. CASE r = new
    BY <1>3, <1>5, <1>7, <2>1, <2>3 DEF Agree
  <2> QED
    BY <1>2, <2>2, <2>3
<1>9. \A r, q \in Sent' : Agree(r, q)
  <2>1. \A r \in Sent : Agree(d, r) /\ Agree(r, d)
    BY <1>1 DEF Numbered, Agree
  <2>2. \A r \in Sent : Agree(new, r) /\ Agree(r, new)
    BY <1>3, <2>1 DEF Agree
  <2>3. Agree(new, new)
    BY DEF Agree
  <2> QED
    BY <1>2, <2>2, <2>3 DEF Numbered
<1>10. \A r \in Sent' : r.n <= confirmed' /\ r.payload = PayloadOf(r)
  BY <1>1, <1>2, <1>3, <1>4 DEF Numbered
<1>11. /\ \A p \in Drafts' : tabs'[p].draft.n <= confirmed'
       /\ \A p, q \in Drafts' : tabs'[p].draft.n = tabs'[q].draft.n => p = q
  BY <1>2, <1>5, <1>6 DEF Numbered, Drafts
<1>12. Numbered'
  BY <1>8, <1>9, <1>10, <1>11 DEF Numbered
<1>14. requests' = requests \cup {RequestOf(o)} /\ Sent' = Sent \cup {RequestOf(o)}
  BY <1>2 DEF new, Send, RequestOf
<1> QED
  BY <1>1, <1>5, <1>12, <1>14

-----------------------------------------------------------------------------
(* Lemmas: tabs that stop waiting, and ends that have been reached *)

(* Tab o does not wait any more; its form is kept or dropped, and its page *)
(* is the one before or one of a license that exists.                      *)
Settled(o) ==
    \E page \in Optional(Page), draft \in {tabs[o].draft, None} :
        /\ TabSet(o, [page |-> page, draft |-> draft, waiting |-> FALSE])
        /\ page = tabs[o].page \/ (page # None /\ licenses'[page.id] # None)

TabsFit ==
    /\ tabs' \in [Operators -> Tab]
    /\ \A o \in Operators :
         /\ tabs'[o].waiting => tabs'[o].draft # None
         /\ tabs'[o].page # None => licenses'[tabs'[o].page.id] # None
         /\ tabs'[o].draft # None /\ tabs'[o].draft.id # None => licenses'[tabs'[o].draft.id] # None

(* A settled tab fits the licenses. *)
LEMMA SettledTabs ==
    ASSUME TypeOK, Known, LicensesStay,
           tabs' = tabs \/ \E o \in Operators : Settled(o)
    PROVE  /\ TabsFit
           /\ \A o \in Operators : tabs'[o].draft = tabs[o].draft \/ tabs'[o].draft = None
<1>1. ASSUME NEW o \in Operators
      PROVE  /\ tabs[o].page # None => licenses'[tabs[o].page.id] # None
             /\ tabs[o].draft # None /\ tabs[o].draft.id # None =>
                  licenses'[tabs[o].draft.id] # None
  <2>1. tabs[o].page # None => tabs[o].page.id \in LicenseIds
    BY PageType
  <2>2. tabs[o].draft # None => tabs[o].draft.id \in Optional(LicenseIds)
    BY TabType DEF Draft, Optional
  <2> QED
    BY <2>1, <2>2 DEF Known, LicensesStay, Optional
<1>2. CASE tabs' = tabs
  BY <1>1, <1>2 DEF TypeOK, TabsFit
<1>3. ASSUME NEW o \in Operators, Settled(o)
      PROVE  /\ TabsFit
             /\ \A p \in Operators : tabs'[p].draft = tabs[p].draft \/ tabs'[p].draft = None
  <2>1. PICK page \in Optional(Page), draft \in {tabs[o].draft, None} :
          /\ TabSet(o, [page |-> page, draft |-> draft, waiting |-> FALSE])
          /\ page = tabs[o].page \/ (page # None /\ licenses'[page.id] # None)
    BY <1>3 DEF Settled
  <2>2. draft \in Optional(Draft)
    BY TabType DEF Optional
  <2>3. PICK tab \in Tab : tab = [page |-> page, draft |-> draft, waiting |-> FALSE]
    BY <2>2, QuietTab
  <2>4. tab.page = page /\ tab.draft = draft /\ tab.waiting = FALSE
    BY <2>3
  <2>5. /\ tabs' \in [Operators -> Tab] /\ tabs'[o] = tab
        /\ \A p \in Operators : p # o => tabs'[p] = tabs[p]
        /\ \A p \in Operators : tabs'[p].waiting => tabs'[p].draft # None
    BY <2>1, <2>3, <2>4, OneTab
  <2>6. \A p \in Operators : p # o =>
          /\ tabs'[p].page # None => licenses'[tabs'[p].page.id] # None
          /\ tabs'[p].draft # None /\ tabs'[p].draft.id # None =>
               licenses'[tabs'[p].draft.id] # None
    BY <1>1, <2>5
  <2>7. /\ tabs'[o].page # None => licenses'[tabs'[o].page.id] # None
        /\ tabs'[o].draft # None /\ tabs'[o].draft.id # None =>
             licenses'[tabs'[o].draft.id] # None
    BY <1>1, <2>1, <2>4, <2>5
  <2> QED
    BY <2>1, <2>4, <2>5, <2>6, <2>7 DEF TabsFit
<1> QED
  BY <1>2, <1>3

(* A form or request of a renewal, part by part. *)
LEMMA RenewalDraft ==
    ASSUME TypeOK, Known, NEW o \in Drafts, tabs[o].draft.kind = "renew"
    PROVE  /\ tabs[o].draft.n \in 1..MaxConfirms
           /\ tabs[o].draft.id \in LicenseIds /\ licenses[tabs[o].draft.id] # None
           /\ EndOfDay(tabs[o].draft.form.end) \in Nat
<1>1. o \in Operators /\ tabs[o].draft \in Draft
  BY TabType DEF Drafts, Optional
<1>2. tabs[o].draft.form \in RenewForm /\ tabs[o].draft.id # None
      /\ tabs[o].draft.id \in Optional(LicenseIds) /\ tabs[o].draft.n \in 1..MaxConfirms
  BY <1>1 DEF Draft, FormsOf
<1>3. tabs[o].draft.form.end \in Nat
  BY <1>2 DEF RenewForm
<1> QED
  BY <1>1, <1>2, <1>3, DaysOrdered DEF Known, Drafts, Optional

(* The same of its request. *)
LEMMA RenewalRequest ==
    ASSUME TypeOK, Known, Numbered, NEW r \in Sent, r.kind = "renew"
    PROVE  /\ r.n \in 1..MaxConfirms /\ r.id \in LicenseIds /\ licenses[r.id] # None
           /\ EndOfDay(r.form.end) \in Nat /\ r.payload.end = EndOfDay(r.form.end)
<1>1. /\ r.n \in 1..MaxConfirms /\ r.id \in LicenseIds /\ licenses[r.id] # None
      /\ r.form \in RenewForm /\ r.payload = RenewPayload(r.form)
  BY RequestType
<1>2. r.form.end \in Nat
  BY <1>1 DEF RenewForm
<1> QED
  BY <1>1, <1>2, DaysOrdered, TermAssumption DEF RenewPayload, EndInstant

(* A license ends at some time, or never. *)
LEMMA EndType ==
    ASSUME TypeOK, NEW l \in LicenseIds, licenses[l] # None
    PROVE  licenses[l].end \in Optional(Nat)
<1>1. licenses[l] \in Row
  BY DEF TypeOK, Optional
<1> QED
  BY <1>1 DEF Row

(* Nothing of a license is renewed, confirmed, sent or begun. *)
LEMMA OnceStays ==
    ASSUME TypeOK, Known, Numbered, NEW l \in LicenseIds, Once(l), Fewer, EndKept(l),
           renewed'[l] = renewed[l], Renewing(l)' \subseteq Renewing(l)
    PROVE  Once(l)'
<1>1. ASSUME NEW o \in Drafts', Renews(tabs'[o].draft, l), renewed'[l][tabs'[o].draft.n] # 0
      PROVE  /\ licenses'[tabs'[o].draft.id].end # None
             /\ licenses'[tabs'[o].draft.id].end >= EndOfDay(tabs'[o].draft.form.end)
  <2>1. o \in Drafts /\ tabs'[o].draft = tabs[o].draft
    BY DEF Fewer, Drafts
  <2>2. PICK d : d = tabs[o].draft
    OBVIOUS
  <2>3. d.id = l /\ Reached(d)
    BY <1>1, <2>1, <2>2 DEF Once, Renews
  <2>4. licenses[l] # None
    BY <1>1, <2>1, <2>2, <2>3, RenewalDraft DEF Renews
  <2> QED
    BY <2>1, <2>2, <2>3, <2>4 DEF EndKept, Reached
<1>2. ASSUME NEW r \in requests', Renews(r, l), renewed'[l][r.n] # 0
      PROVE  /\ licenses'[r.id].end # None
             /\ licenses'[r.id].end >= EndOfDay(r.form.end)
  <2>1. r \in requests /\ r \in Sent
    BY DEF Fewer, Sent
  <2>2. r.id = l /\ Reached(r)
    BY <1>2, <2>1 DEF Once, Renews
  <2>3. licenses[l] # None
    BY <1>2, <2>1, <2>2, RenewalRequest DEF Renews
  <2> QED
    BY <2>2, <2>3 DEF EndKept, Reached
<1>3. ASSUME NEW t \in Renewing(l)'
      PROVE  renewed'[l][t.req.n] = 0 /\ Later(licenses'[l], EndOfDay(t.req.form.end))
  <2>1. t \in Renewing(l) /\ t \in work /\ t.req \in Sent /\ t.req.kind = "renew" /\ t.req.id = l
    BY DEF Renewing, Sent
  <2>2. licenses[l] # None
    BY <2>1, RenewalRequest
  <2>3. renewed[l][t.req.n] = 0 /\ Later(licenses[l], EndOfDay(t.req.form.end))
    BY <2>1 DEF Once
  <2> QED
    BY <2>2, <2>3 DEF EndKept, Later
<1>4. \A t, u \in Renewing(l)' : t = u
  BY DEF Once
<1>5. \A n \in 1..MaxConfirms : renewed'[l][n] <= 1
  BY DEF Once
<1> QED
  BY <1>1, <1>2, <1>3, <1>4, <1>5 DEF Once, Reached

(* Nothing is renewed, confirmed, sent or begun. *)
LEMMA CarriedFewer ==
    ASSUME TypeOK, Known, Numbered, Carried, Fewer, \A l \in LicenseIds : EndKept(l),
           renewed' = renewed, contended' = contended,
           \A l \in LicenseIds : Renewing(l)' \subseteq Renewing(l)
    PROVE  Carried'
<1>1. \A l \in LicenseIds, n \in 1..MaxConfirms : n > confirmed' => renewed'[l][n] = 0
  BY DEF Carried, Fewer
<1>2. \A l \in LicenseIds \ contended' : Once(l)'
  BY OnceStays DEF Carried
<1> QED
  BY <1>1, <1>2 DEF Carried

(* Fewer transactions, fewer renewals. *)
LEMMA FewerRenewing ==
    ASSUME work' \subseteq work
    PROVE  \A l \in LicenseIds : Renewing(l)' \subseteq Renewing(l)
  BY DEF Renewing

(* A renewal that has begun alone was not carried out before. *)
LEMMA CarriedBegin ==
    ASSUME TypeOK, Known, Numbered, Carried, Fewer, \A l \in LicenseIds : EndKept(l),
           renewed' = renewed, requests' \subseteq requests, licenses' = licenses,
           NEW r \in requests, r.kind = "renew", RenewAccepted(r),
           NEW new, new.req = r, work' = work \cup {new},
           contended' = IF Renewing(r.id) = {} THEN contended ELSE contended \cup {r.id}
    PROVE  Carried'
<1>1. r \in Sent /\ r.n \in 1..MaxConfirms /\ r.id \in LicenseIds /\ licenses[r.id] # None
      /\ EndOfDay(r.form.end) \in Nat /\ r.payload.end = EndOfDay(r.form.end)
  BY RenewalRequest DEF Sent
<1>2. \A l \in LicenseIds : l # r.id => Renewing(l)' \subseteq Renewing(l)
  BY DEF Renewing
<1>3. contended \subseteq contended'
  OBVIOUS
<1>4. \A l \in LicenseIds, n \in 1..MaxConfirms : n > confirmed' => renewed'[l][n] = 0
  BY DEF Carried, Fewer
<1>5. ASSUME NEW l \in LicenseIds \ contended'
      PROVE  Once(l)'
  <2>1. Once(l) /\ renewed'[l] = renewed[l] /\ EndKept(l)
    BY <1>3 DEF Carried
  <2>2. CASE l # r.id
    BY <1>2, <2>1, <2>2, OnceStays
  <2>3. CASE l = r.id
    <3>1. Renewing(l) = {} /\ Renewing(l)' = {new}
      BY <1>5, <2>3 DEF Renewing
    <3>2. Later(licenses[l], EndOfDay(r.form.end))
      BY <1>1, <2>3 DEF RenewAccepted
    <3>3. licenses[l].end \in Optional(Nat)
      BY <1>1, <2>3, EndType
    <3>4. renewed[l][r.n] = 0
      <4> SUFFICES ASSUME renewed[l][r.n] # 0 PROVE FALSE
        OBVIOUS
      <4>1. Reached(r)
        BY <2>1, <2>3 DEF Once, Renews
      <4> QED
        BY <1>1, <2>3, <3>2, <3>3, <4>1 DEF Reached, Later, Optional
    <3>5. \A o \in Drafts' : o \in Drafts /\ tabs'[o].draft = tabs[o].draft
      BY DEF Fewer, Drafts
    <3>6. \A n \in 1..MaxConfirms : renewed'[l][n] <= 1
      BY <2>1 DEF Once
    <3>7. ASSUME NEW o \in Drafts', Renews(tabs'[o].draft, l), renewed'[l][tabs'[o].draft.n] # 0
          PROVE  /\ licenses'[tabs'[o].draft.id].end # None
                 /\ licenses'[tabs'[o].draft.id].end >= EndOfDay(tabs'[o].draft.form.end)
      BY <2>1, <3>5, <3>7 DEF Once, Reached
    <3>8. \A q \in requests' : Renews(q, l) /\ renewed'[l][q.n] # 0 => Reached(q)'
      BY <2>1 DEF Once, Reached
    <3>9. \A t \in Renewing(l)' : /\ renewed'[l][t.req.n] = 0
                                  /\ Later(licenses'[l], EndOfDay(t.req.form.end))
      BY <3>1, <3>2, <3>4
    <3>10. \A t, u \in Renewing(l)' : t = u
      BY <3>1
    <3> QED
      BY <3>6, <3>7, <3>8, <3>9, <3>10 DEF Once, Reached
  <2> QED
    BY <2>2, <2>3
<1> QED
  BY <1>4, <1>5 DEF Carried

(* A renewal is carried out, and its end is reached. *)
LEMMA CarriedRenew ==
    ASSUME TypeOK, Known, Numbered, Carried, Fewer, NEW t \in work, Renew(t),
           \A m \in LicenseIds : m # t.req.id => EndKept(m),
           licenses'[t.req.id].end = EndOfDay(t.req.form.end), licenses'[t.req.id].end # None
    PROVE  Carried'
<1> DEFINE l == t.req.id
           r == t.req
<1>1. /\ r \in Sent /\ r.n \in 1..MaxConfirms /\ r.kind = "renew" /\ r.n <= confirmed
      /\ l \in LicenseIds /\ licenses[l] # None /\ EndOfDay(r.form.end) \in Nat
  BY WorkType, RenewalRequest DEF Renew, Numbered
<1>2. /\ renewed' = [renewed EXCEPT ![l][r.n] = @ + 1] /\ contended' = contended
      /\ renewed \in [LicenseIds -> [1..MaxConfirms -> Nat]] /\ work' = work \ {t}
  BY DEF Renew, Commit, TypeOK
<1>3. /\ renewed'[l][r.n] = renewed[l][r.n] + 1
      /\ \A n \in 1..MaxConfirms : n # r.n => renewed'[l][n] = renewed[l][n]
      /\ \A m \in LicenseIds : m # l => renewed'[m] = renewed[m]
  BY <1>1, <1>2
<1>4. confirmed \in Nat /\ MaxConfirms \in Nat
  BY ConsoleAssumption DEF TypeOK
<1>5. \A m \in LicenseIds, n \in 1..MaxConfirms : n > confirmed' => renewed'[m][n] = 0
  <2> SUFFICES ASSUME NEW m \in LicenseIds, NEW n \in 1..MaxConfirms, n > confirmed
               PROVE  renewed'[m][n] = 0
    BY DEF Fewer
  <2>1. renewed[m][n] = 0
    BY DEF Carried
  <2>2. n # r.n
    BY <1>1, <1>4
  <2> QED
    BY <1>3, <2>1, <2>2
<1>6. \A m \in LicenseIds : Renewing(m)' \subseteq Renewing(m)
  BY <1>2, FewerRenewing
<1>7. ASSUME NEW m \in LicenseIds \ contended', m # l PROVE Once(m)'
  BY <1>2, <1>3, <1>6, <1>7, OnceStays DEF Carried
<1>8. ASSUME l \notin contended' PROVE Once(l)'
  <2>1. Once(l) /\ t \in Renewing(l)
    BY <1>1, <1>2, <1>8 DEF Carried, Renewing
  <2>2. renewed[l][r.n] = 0 /\ Later(licenses[l], EndOfDay(r.form.end))
    BY <2>1 DEF Once
  <2>3. Renewing(l)' = {}
    BY <1>2, <2>1 DEF Once, Renewing
  <2>4. licenses[l].end \in Optional(Nat)
    BY <1>1, EndType
  <2>5. \A n \in 1..MaxConfirms : renewed'[l][n] <= 1
    BY <1>3, <2>1, <2>2 DEF Once
  <2>6. ASSUME NEW d, Reached(d), d.id = l, EndOfDay(d.form.end) \in Nat
        PROVE  Reached(d)'
    <3>1. licenses[l].end # None /\ licenses[l].end >= EndOfDay(d.form.end)
      BY <2>6 DEF Reached
    <3>2. licenses[l].end \in Nat /\ EndOfDay(r.form.end) > licenses[l].end
      BY <2>2, <2>4, <3>1 DEF Later, Optional
    <3> QED
      BY <1>1, <2>6, <3>1, <3>2 DEF Reached
  <2>7. ASSUME NEW d, d.form = r.form, d.id = l PROVE Reached(d)'
    BY <1>1, <2>7 DEF Reached
  <2>8. ASSUME NEW o \in Drafts', Renews(tabs'[o].draft, l), renewed'[l][tabs'[o].draft.n] # 0
        PROVE  Reached(tabs[o].draft)' /\ tabs'[o].draft = tabs[o].draft
    <3>1. o \in Drafts /\ tabs'[o].draft = tabs[o].draft
      BY DEF Fewer, Drafts
    <3>2. PICK d : d = tabs[o].draft
      OBVIOUS
    <3>3. /\ d.kind = "renew" /\ d.n \in 1..MaxConfirms /\ d.id = l
          /\ EndOfDay(d.form.end) \in Nat
      BY <2>8, <3>1, <3>2, RenewalDraft DEF Renews
    <3>4. CASE d.n = r.n
      <4>1. d.form = r.form
        BY <1>1, <3>1, <3>2, <3>4 DEF Numbered, Agree
      <4>2. Reached(d)'
        BY <2>7, <3>3, <4>1
      <4> QED
        BY <3>1, <3>2, <4>2 DEF Reached
    <3>5. CASE d.n # r.n
      <4>1. Reached(d)
        BY <1>3, <2>1, <2>8, <3>1, <3>2, <3>3, <3>5 DEF Once
      <4>2. Reached(d)'
        BY <2>6, <3>3, <4>1
      <4> QED
        BY <3>1, <3>2, <4>2 DEF Reached
    <3> QED
      BY <3>4, <3>5
  <2>9. ASSUME NEW q \in requests', Renews(q, l), renewed'[l][q.n] # 0
        PROVE  Reached(q)'
    <3>1. q \in requests /\ q \in Sent
      BY DEF Fewer, Sent
    <3>2. /\ q.n \in 1..MaxConfirms /\ q.id = l /\ EndOfDay(q.form.end) \in Nat
      BY <2>9, <3>1, RenewalRequest DEF Renews
    <3>3. CASE q.n = r.n
      <4>1. q.form = r.form
        BY <1>1, <3>1, <3>3 DEF Numbered, Agree
      <4> QED
        BY <2>7, <3>2, <4>1
    <3>4. CASE q.n # r.n
      <4>1. Reached(q)
        BY <1>3, <2>1, <2>9, <3>1, <3>2, <3>4 DEF Once
      <4> QED
        BY <2>6, <3>2, <4>1
    <3> QED
      BY <3>3, <3>4
  <2> QED
    BY <2>3, <2>5, <2>8, <2>9 DEF Once, Reached
<1> QED
  BY <1>5, <1>7, <1>8 DEF Carried

-----------------------------------------------------------------------------
(* Every step keeps the invariant *)

(* An answer settles at most one tab. *)
LEMMA AnswerSettles ==
    ASSUME TypeOK, Known, Numbered, NEW r \in Sent, Answer(r), Written(r)
    PROVE  tabs' = tabs \/ \E o \in Operators : Settled(o)
<1>1. r.by \in Operators /\ (r.id # None => licenses'[r.id] \in Row)
  BY RequestType DEF Written
<1>2. \/ tabs' = tabs
      \/ \E page \in Optional(Page) :
           /\ TabSet(r.by, [page |-> page, draft |-> None, waiting |-> FALSE])
           /\ page = tabs[r.by].page \/ (r.id # None /\ page \in Page /\ page.id = r.id)
  BY <1>1, AnswerTab
<1>3. ASSUME NEW page \in Optional(Page),
             TabSet(r.by, [page |-> page, draft |-> None, waiting |-> FALSE]),
             page = tabs[r.by].page \/ (r.id # None /\ page \in Page /\ page.id = r.id)
      PROVE  Settled(r.by)
  BY <1>1, <1>3, NoneAssumption DEF Settled
<1> QED
  BY <1>1, <1>2, <1>3

(* So does an error. *)
LEMMA ErrorSettles ==
    ASSUME TypeOK, Known, Numbered, NEW r \in Sent, AnswerError(r)
    PROVE  tabs' = tabs \/ \E o \in Operators : Settled(o)
<1>1. r.by \in Operators
  BY RequestType
<1>2. CASE tabs' = [tabs EXCEPT ![r.by].waiting = FALSE]
  <2>1. TabSet(r.by, [page |-> tabs[r.by].page, draft |-> tabs[r.by].draft, waiting |-> FALSE])
    BY <1>1, <1>2, GiveUpTab
  <2>2. tabs[r.by].page \in Optional(Page)
    BY <1>1, TabType
  <2> QED
    BY <1>1, <2>1, <2>2 DEF Settled
<1> QED
  BY <1>2 DEF AnswerError

(* A step that confirms and sends nothing. *)
LEMMA FewerTypes ==
    ASSUME TypeOK, Known, Fewer, TabsFit, LicensesStay,
           licenses' \in [LicenseIds -> Optional(Row)],
           creds' \in [LicenseIds -> Optional(Payload)],
           agreed' \in [LicenseIds -> Optional(Agreement)],
           basis' \in [LicenseIds -> Optional(Agreement)],
           \A l \in LicenseIds : /\ (licenses'[l] = None) <=> (creds'[l] = None)
                                 /\ (licenses'[l] = None) <=> (agreed'[l] = None)
                                 /\ (licenses'[l] = None) <=> (basis'[l] = None),
           \A t \in work' : WorkOK(t),
           customers' \in [Customers -> Customer],
           \A c \in Customers : customers'[c].name <= customers'[c].edits,
           renewed' \in [LicenseIds -> [1..MaxConfirms -> Nat]], contended' \subseteq LicenseIds
    PROVE  TypeOK' /\ Known'
<1>1. \A r \in requests' : RequestOK(r)
  BY DEF Fewer, TypeOK
<1>2. \A r \in Sent' : r.id # None => licenses'[r.id] # None
  <2> SUFFICES ASSUME NEW r \in Sent, r.id # None PROVE licenses'[r.id] # None
    BY DEF Fewer
  <2>1. r.id \in LicenseIds
    BY DEF TypeOK, Sent, WorkOK, RequestOK, Optional
  <2> QED
    BY <2>1 DEF Known, LicensesStay
<1>3. confirmed' \in 0..MaxConfirms
  BY DEF Fewer, TypeOK
<1>4. TypeOK'
  BY <1>1, <1>3 DEF TypeOK, TabsFit
<1>5. Known'
  BY <1>2 DEF Known, TabsFit
<1> QED
  BY <1>4, <1>5

(* A transaction commits. *)
Serve(t) == (\E l \in LicenseIds : Issue(t, l)) \/ Renew(t) \/ Reissue(t)

(* A step of the server that confirms and sends nothing, and what it       *)
(* leaves: all but the renewals.                                           *)
LEMMA WrittenStep ==
    ASSUME Sound, NEW r \in Sent, Written(r), Answer(r), requests' \subseteq requests,
           confirmed' = confirmed, customers' = customers,
           renewed' \in [LicenseIds -> [1..MaxConfirms -> Nat]], contended' = contended
    PROVE  TypeOK' /\ Known' /\ Numbered' /\ InSync' /\ Fewer
<1> USE DEF Sound
<1>1. LicensesStay /\ InSync' /\ work' \subseteq work
  BY DEF Written
<1>2. Sent' \subseteq Sent
  BY <1>1 DEF Sent
<1>3. TabsFit /\ Fewer
  BY <1>1, <1>2, AnswerSettles, SettledTabs DEF Fewer
<1>4. \A t \in work' : WorkOK(t)
  BY <1>1 DEF TypeOK
<1>5. customers' \in [Customers -> Customer] /\ contended' \subseteq LicenseIds
      /\ \A c \in Customers : customers'[c].name <= customers'[c].edits
  BY DEF TypeOK, Known
<1>6. TypeOK' /\ Known'
  BY <1>1, <1>3, <1>4, <1>5, FewerTypes DEF Written
<1>7. Numbered'
  BY <1>3, FewerCarriers
<1> QED
  BY <1>1, <1>3, <1>6, <1>7

(* A transaction commits. *)
LEMMA ServeStep ==
    ASSUME Sound, NEW t \in work, Serve(t)
    PROVE  Sound'
<1> USE DEF Sound
<1>1. /\ Written(t.req) /\ Answer(t.req) /\ customers' = customers /\ confirmed' = confirmed
      /\ requests' = requests /\ contended' = contended /\ work' = work \ {t}
  <2>1. CASE \E l \in LicenseIds : Issue(t, l)
    BY <2>1, IssueWrites DEF Issue, Commit
  <2>2. CASE Renew(t)
    BY <2>2, RenewWrites DEF Renew, Commit
  <2>3. CASE Reissue(t)
    BY <2>3, ReissueWrites DEF Reissue, Commit
  <2> QED
    BY <2>1, <2>2, <2>3 DEF Serve
<1>2. t.req \in Sent
  BY WorkType
<1>3. CASE Renew(t)
  <2>1. /\ renewed' = [renewed EXCEPT ![t.req.id][t.req.n] = @ + 1]
        /\ renewed \in [LicenseIds -> [1..MaxConfirms -> Nat]]
        /\ t.req.id \in LicenseIds /\ t.req.n \in 1..MaxConfirms
    BY <1>2, <1>3, RenewalRequest DEF Renew, TypeOK
  <2>2. renewed' \in [LicenseIds -> [1..MaxConfirms -> Nat]]
    <3>1. PICK row \in [1..MaxConfirms -> Nat] : row = renewed[t.req.id]
      BY <2>1
    <3>2. [row EXCEPT ![t.req.n] = row[t.req.n] + 1] \in [1..MaxConfirms -> Nat]
      BY <2>1
    <3>3. renewed' = [renewed EXCEPT ![t.req.id] = [row EXCEPT ![t.req.n] = row[t.req.n] + 1]]
      BY <2>1, <3>1
    <3> QED
      BY <2>1, <3>2, <3>3
  <2>3. TypeOK' /\ Known' /\ Numbered' /\ InSync' /\ Fewer
    BY <1>1, <1>2, <2>2, WrittenStep
  <2>4. Carried'
    BY <1>3, <2>3, RenewWrites, CarriedRenew
  <2> QED
    BY <2>3, <2>4
<1>4. CASE ~Renew(t)
  <2>1. renewed' = renewed /\ \A m \in LicenseIds : EndKept(m)
    <3>1. CASE \E l \in LicenseIds : Issue(t, l)
      BY <3>1, IssueWrites DEF Issue
    <3>2. CASE Reissue(t)
      BY <3>2, ReissueWrites DEF Reissue
    <3> QED
      BY <1>4, <3>1, <3>2 DEF Serve
  <2>2. TypeOK' /\ Known' /\ Numbered' /\ InSync' /\ Fewer
    BY <1>1, <1>2, <2>1, WrittenStep DEF TypeOK
  <2>3. \A l \in LicenseIds : Renewing(l)' \subseteq Renewing(l)
    BY <1>1, FewerRenewing
  <2>4. Carried'
    BY <1>1, <2>1, <2>2, <2>3, CarriedFewer
  <2> QED
    BY <2>2, <2>4
<1> QED
  BY <1>3, <1>4

(* A license is voided. *)
LEMMA VoidStep ==
    ASSUME Sound, NEW r \in requests, Void(r)
    PROVE  Sound'
<1> USE DEF Sound
<1>1. Written(r) /\ \A m \in LicenseIds : EndKept(m)
  BY VoidWrites
<1>2. /\ Answer(r) /\ customers' = customers /\ confirmed' = confirmed /\ renewed' = renewed
      /\ requests' \subseteq requests /\ contended' = contended /\ r \in Sent
  BY DEF Void, history, Sent
<1>3. TypeOK' /\ Known' /\ Numbered' /\ InSync' /\ Fewer
  BY <1>1, <1>2, WrittenStep DEF TypeOK
<1>4. \A l \in LicenseIds : Renewing(l)' \subseteq Renewing(l)
  BY <1>1, FewerRenewing DEF Written
<1>5. Carried'
  BY <1>1, <1>2, <1>3, <1>4, CarriedFewer
<1> QED
  BY <1>3, <1>5

(* Nothing of the server's tables changes. *)
TablesKept == UNCHANGED <<licenses, creds, agreed, basis, renewed>>

(* Tables that are kept are as good as before. *)
LEMMA TablesKeptStay ==
    ASSUME Sound, TablesKept, \A t \in work' : RowAsAgreed(t.row, t.basis)
    PROVE  LicensesStay /\ InSync' /\ \A l \in LicenseIds : EndKept(l)
<1>1. /\ licenses' = licenses /\ creds' = creds /\ agreed' = agreed /\ basis' = basis
  BY DEF TablesKept
<1>2. LicensesStay /\ \A l \in LicenseIds : EndKept(l)
  BY <1>1 DEF LicensesStay, EndKept
<1>3. InSync'
  BY <1>1 DEF Sound, InSync
<1> QED
  BY <1>2, <1>3

(* A step that confirms, sends and writes nothing leaves all but the       *)
(* renewals.                                                               *)
LEMMA KeptStep ==
    ASSUME Sound, TablesKept, requests' \subseteq requests, Sent' \subseteq Sent,
           confirmed' = confirmed, tabs' = tabs \/ \E o \in Operators : Settled(o),
           customers' \in [Customers -> Customer],
           \A c \in Customers : customers'[c].name <= customers'[c].edits,
           \A t \in work' : WorkOK(t) /\ RowAsAgreed(t.row, t.basis),
           contended' \subseteq LicenseIds
    PROVE  /\ TypeOK' /\ Known' /\ Numbered' /\ InSync' /\ Fewer
           /\ \A l \in LicenseIds : EndKept(l)
<1> USE DEF Sound
<1>1. LicensesStay /\ InSync' /\ \A l \in LicenseIds : EndKept(l)
  BY TablesKeptStay
<1>2. TabsFit /\ Fewer
  BY <1>1, SettledTabs DEF Fewer
<1>3. /\ licenses' = licenses /\ creds' = creds /\ agreed' = agreed /\ basis' = basis
      /\ renewed' = renewed
  BY DEF TablesKept
<1>4. /\ licenses' \in [LicenseIds -> Optional(Row)]
      /\ creds' \in [LicenseIds -> Optional(Payload)]
      /\ agreed' \in [LicenseIds -> Optional(Agreement)]
      /\ basis' \in [LicenseIds -> Optional(Agreement)]
      /\ renewed' \in [LicenseIds -> [1..MaxConfirms -> Nat]]
      /\ \A l \in LicenseIds : /\ (licenses'[l] = None) <=> (creds'[l] = None)
                               /\ (licenses'[l] = None) <=> (agreed'[l] = None)
                               /\ (licenses'[l] = None) <=> (basis'[l] = None)
  BY <1>3 DEF TypeOK, Known
<1>5. TypeOK' /\ Known'
  BY <1>1, <1>2, <1>4, FewerTypes
<1>6. Numbered'
  BY <1>2, FewerCarriers
<1> QED
  BY <1>1, <1>2, <1>5, <1>6

(* A dialog that is opened, given up or closed, a refusal, a rollback, and *)
(* an edited customer.                                                     *)
LEMMA QuietStep ==
    ASSUME Sound, TablesKept, requests' \subseteq requests, work' \subseteq work,
           contended' = contended, confirmed' = confirmed,
           tabs' = tabs \/ \E o \in Operators : Settled(o),
           customers' \in [Customers -> Customer],
           \A c \in Customers : customers'[c].name <= customers'[c].edits
    PROVE  Sound'
<1> USE DEF Sound
<1>1. Sent' \subseteq Sent
  BY DEF Sent
<1>2. \A t \in work' : WorkOK(t) /\ RowAsAgreed(t.row, t.basis)
  BY DEF TypeOK, InSync
<1>3. contended' \subseteq LicenseIds
  BY DEF TypeOK
<1>4. /\ TypeOK' /\ Known' /\ Numbered' /\ InSync' /\ Fewer
      /\ \A l \in LicenseIds : EndKept(l)
  BY <1>1, <1>2, <1>3, KeptStep
<1>5. \A l \in LicenseIds : Renewing(l)' \subseteq Renewing(l)
  BY FewerRenewing
<1>6. Carried'
  BY <1>4, <1>5, CarriedFewer DEF TablesKept
<1> QED
  BY <1>4, <1>6

(* A transaction has made its reads. *)
LEMMA BeginStep ==
    ASSUME Sound, NEW r \in requests, BeginIssue(r) \/ BeginRenew(r) \/ BeginReissue(r)
    PROVE  Sound'
<1> USE DEF Sound
<1>1. r \in Sent /\ RequestOK(r)
  BY DEF Sent, TypeOK
<1>2. PICK row \in Row, a \in Agreement :
        Begin(r, row, a) /\ RowAsAgreed(row, a) /\ r.kind # "void"
  <2>1. CASE BeginIssue(r)
    <3>1. r.form \in Form /\ r.payload = IssuePayload(r.form)
      BY <1>1, <2>1, RequestType DEF BeginIssue
    <3>2. /\ NewRow(r.payload) \in Row /\ AgreedBy(r.form) \in Agreement
          /\ RowAsAgreed(NewRow(r.payload), AgreedBy(r.form))
      BY <3>1, RowOfForm
    <3> QED
      BY <2>1, <3>2 DEF BeginIssue
  <2>2. CASE BeginRenew(r) \/ BeginReissue(r)
    <3>1. r.kind \in {"renew", "reissue"} /\ Begin(r, licenses[r.id], agreed[r.id])
      BY <2>2 DEF BeginRenew, BeginReissue
    <3>2. r.id \in LicenseIds /\ licenses[r.id] # None
      BY <1>1, <3>1, RequestType
    <3>3. licenses[r.id] \in Row /\ agreed[r.id] \in Agreement
          /\ RowAsAgreed(licenses[r.id], agreed[r.id])
      BY <3>2, LicenseType DEF InSync
    <3> QED
      BY <3>1, <3>3
  <2> QED
    BY <2>1, <2>2
<1>3. PICK new : /\ new = [req |-> r, row |-> row, name |-> customers[row.customer].name,
                           basis |-> a]
                 /\ work' = work \cup {new}
  BY <1>2 DEF Begin
<1>4. new.req = r /\ new.row = row /\ new.basis = a /\ new.name = customers[row.customer].name
  BY <1>3
<1>5. customers[row.customer].name \in 0..MaxEdits
  <2>1. row.customer \in Customers
    BY DEF Row
  <2>2. customers[row.customer] \in Customer
    BY <2>1 DEF TypeOK
  <2> QED
    BY <2>2 DEF Customer
<1>6. WorkOK(new) /\ RowAsAgreed(new.row, new.basis)
  BY <1>1, <1>2, <1>4, <1>5 DEF WorkOK
<1>7. \A t \in work' : WorkOK(t) /\ RowAsAgreed(t.row, t.basis)
  BY <1>3, <1>6 DEF TypeOK, InSync
<1>8. /\ TablesKept /\ requests' = requests \ {r} /\ tabs' = tabs /\ customers' = customers
      /\ confirmed' = confirmed
  BY <1>2 DEF Begin, TablesKept, data
<1>9. Sent' \subseteq Sent
  BY <1>1, <1>3, <1>4, <1>8 DEF Sent
<1>10. contended' \subseteq LicenseIds
  BY <1>1, RequestType DEF BeginIssue, BeginRenew, BeginReissue, TypeOK
<1>11. /\ TypeOK' /\ Known' /\ Numbered' /\ InSync' /\ Fewer
       /\ \A l \in LicenseIds : EndKept(l)
  <2>1. customers' \in [Customers -> Customer] /\ requests' \subseteq requests
        /\ \A c \in Customers : customers'[c].name <= customers'[c].edits
    BY <1>8 DEF TypeOK, Known
  <2> QED
    BY <1>7, <1>8, <1>9, <1>10, <2>1, KeptStep
<1>12. CASE BeginRenew(r)
  <2>1. /\ r.kind = "renew" /\ RenewAccepted(r)
        /\ contended' = IF Renewing(r.id) = {} THEN contended ELSE contended \cup {r.id}
    BY <1>12 DEF BeginRenew
  <2>2. renewed' = renewed /\ licenses' = licenses /\ requests' \subseteq requests
    BY <1>8 DEF TablesKept
  <2>3. Carried'
    BY <1>3, <1>4, <1>11, <2>1, <2>2, CarriedBegin
  <2> QED
    BY <1>11, <2>3
<1>13. CASE BeginIssue(r) \/ BeginReissue(r)
  <2>1. r.kind # "renew" /\ contended' = contended
    BY <1>13 DEF BeginIssue, BeginReissue
  <2>2. \A l \in LicenseIds : Renewing(l)' \subseteq Renewing(l)
    BY <1>3, <1>4, <2>1 DEF Renewing
  <2>3. Carried'
    BY <1>8, <1>11, <2>1, <2>2, CarriedFewer DEF TablesKept
  <2> QED
    BY <1>11, <2>3
<1> QED
  BY <1>12, <1>13

(* A transaction is rolled back. *)
LEMMA RollBackStep ==
    ASSUME Sound, NEW t \in work, RollBack(t)
    PROVE  Sound'
<1>1. /\ TablesKept /\ requests' = requests /\ work' \subseteq work /\ contended' = contended
      /\ confirmed' = confirmed /\ customers' = customers /\ AnswerError(t.req)
  BY DEF RollBack, TablesKept, data, history
<1>2. tabs' = tabs \/ \E o \in Operators : Settled(o)
  BY <1>1, WorkType, ErrorSettles DEF Sound
<1> QED
  BY <1>1, <1>2, QuietStep DEF Sound, TypeOK, Known

(* A form is confirmed. *)
LEMMA ConfirmStep ==
    ASSUME Sound, NEW o \in Operators, Confirms(o)
    PROVE  Sound'
<1> USE DEF Sound
<1>0. PICK kind \in Kinds, id \in Optional(LicenseIds) : \E form :
        /\ Confirm(o, kind, id, form) /\ form \in FormsOf(kind)
        /\ kind = "issue" <=> id = None
        /\ id # None => licenses[id] # None
  BY ConfirmedForm
<1>1. PICK form : /\ Confirm(o, kind, id, form) /\ form \in FormsOf(kind)
                  /\ kind = "issue" <=> id = None
                  /\ id # None => licenses[id] # None
  BY <1>0
<1> DEFINE new == NewDraft(kind, id, form)
<1>2. PICK tab \in Tab : /\ tab.page = tabs[o].page /\ tab.draft = new /\ tab.waiting = FALSE
                         /\ new # None /\ TabSet(o, tab)
  BY <1>1, ConfirmTab
<1>3. /\ tabs' \in [Operators -> Tab] /\ tabs'[o] = tab
      /\ \A p \in Operators : tabs'[p].waiting => tabs'[p].draft # None
      /\ \A p \in Operators : p # o => tabs'[p] = tabs[p]
  BY <1>2, OneTab
<1>4. TablesKept /\ requests' = requests /\ customers' = customers /\ work' = work
      /\ confirmed' = confirmed + 1 /\ confirmed < MaxConfirms /\ contended' = contended
  BY <1>1 DEF Confirm, TablesKept, data, history
<1>13. licenses' = licenses /\ agreed' = agreed /\ basis' = basis /\ creds' = creds
       /\ renewed' = renewed /\ Sent' = Sent
  BY <1>4 DEF TablesKept, Sent
<1>5. new.n = confirmed + 1 /\ new.id = id
  BY DEF NewDraft
<1> HIDE DEF new
<1>6. confirmed \in Nat /\ confirmed' \in 0..MaxConfirms /\ confirmed + 1 \in 1..MaxConfirms
  BY <1>4, ConsoleAssumption DEF TypeOK
<1>7. InSync'
  <2>1. \A t \in work' : RowAsAgreed(t.row, t.basis)
    BY <1>4 DEF InSync
  <2> QED
    BY <1>4, <2>1, TablesKeptStay
<1>8. TypeOK'
  BY <1>3, <1>4, <1>6, <1>13 DEF TypeOK
<1>9. Known'
  <2>1. \A p \in Operators : /\ tabs'[p].page = tabs[p].page
                             /\ p # o => tabs'[p].draft = tabs[p].draft
    BY <1>2, <1>3
  <2>2. \A p \in Operators :
          /\ tabs'[p].page # None => licenses'[tabs'[p].page.id] # None
          /\ tabs'[p].draft # None /\ tabs'[p].draft.id # None =>
               licenses'[tabs'[p].draft.id] # None
    BY <1>1, <1>2, <1>3, <1>5, <1>13, <2>1 DEF Known
  <2> QED
    BY <1>4, <1>13, <2>2 DEF Known
<1>10. Numbered'
  BY <1>1, ConfirmNumbers
<1>11. \A l \in LicenseIds : renewed[l][confirmed + 1] = 0
  BY <1>6 DEF Carried
<1>12. Carried'
  <2>1. \A l \in LicenseIds, n \in 1..MaxConfirms : n > confirmed' => renewed'[l][n] = 0
    BY <1>4, <1>6, <1>13 DEF Carried
  <2>2. ASSUME NEW l \in LicenseIds \ contended' PROVE Once(l)'
    <3>1. Once(l) /\ l \in LicenseIds
      BY <1>4 DEF Carried
    <3>2. ASSUME NEW p \in Drafts', Renews(tabs'[p].draft, l),
                 renewed'[l][tabs'[p].draft.n] # 0
          PROVE  /\ licenses'[tabs'[p].draft.id].end # None
                 /\ licenses'[tabs'[p].draft.id].end >= EndOfDay(tabs'[p].draft.form.end)
      <4>1. p # o
        BY <1>2, <1>3, <1>5, <1>11, <1>13, <3>1, <3>2
      <4>2. p \in Drafts /\ tabs'[p].draft = tabs[p].draft
        BY <1>3, <4>1 DEF Drafts
      <4> QED
        BY <1>13, <3>1, <3>2, <4>2 DEF Once, Reached
    <3>3. ASSUME NEW r \in requests', Renews(r, l), renewed'[l][r.n] # 0
          PROVE  /\ licenses'[r.id].end # None
                 /\ licenses'[r.id].end >= EndOfDay(r.form.end)
      BY <1>4, <1>13, <3>1, <3>3 DEF Once, Reached
    <3>4. Renewing(l)' = Renewing(l)
      BY <1>4 DEF Renewing
    <3>5. /\ \A n \in 1..MaxConfirms : renewed'[l][n] <= 1
          /\ \A t \in Renewing(l)' : /\ renewed'[l][t.req.n] = 0
                                     /\ Later(licenses'[l], EndOfDay(t.req.form.end))
          /\ \A t, u \in Renewing(l)' : t = u
      BY <1>13, <3>1, <3>4 DEF Once
    <3> QED
      BY <3>2, <3>3, <3>5 DEF Once, Reached
  <2> QED
    BY <2>1, <2>2 DEF Carried
<1> QED
  BY <1>7, <1>8, <1>9, <1>10, <1>12

(* A form is sent. *)
LEMMA SendStep ==
    ASSUME Sound, NEW o \in Operators, Send(o)
    PROVE  Sound'
<1> USE DEF Sound
<1> DEFINE d == tabs[o].draft
           new == RequestOf(o)
<1>1. /\ Numbered'
      /\ requests' = requests \cup {new} /\ Sent' = Sent \cup {new} /\ d # None /\ o \in Drafts
      /\ \A p \in Operators : /\ tabs[p].draft = None <=> tabs'[p].draft = None
                              /\ tabs'[p].page = tabs[p].page
                              /\ p \in Drafts => /\ tabs'[p].draft.n = tabs[p].draft.n
                                                 /\ tabs'[p].draft.id = tabs[p].draft.id
                                                 /\ tabs'[p].draft.kind = tabs[p].draft.kind
                                                 /\ tabs'[p].draft.form = tabs[p].draft.form
  BY SendNumbers DEF Drafts
<1>2. PICK tab \in Tab : /\ TabSet(o, tab) /\ (tab.waiting => tab.draft # None)
                         /\ d.tries + 1 \in 1..MaxTries /\ d \in Draft
  BY SendTab
<1>3. /\ tabs' \in [Operators -> Tab]
      /\ \A p \in Operators : tabs'[p].waiting => tabs'[p].draft # None
  BY <1>2, OneTab
<1>4. TablesKept /\ customers' = customers /\ confirmed' = confirmed /\ work' = work
      /\ contended' = contended
  BY DEF Send, TablesKept, data, history
<1>13. licenses' = licenses /\ agreed' = agreed /\ basis' = basis /\ creds' = creds
       /\ renewed' = renewed
  BY <1>4 DEF TablesKept
<1>5. InSync'
  <2>1. \A t \in work' : RowAsAgreed(t.row, t.basis)
    BY <1>4 DEF InSync
  <2> QED
    BY <1>4, <2>1, TablesKeptStay
<1>6. /\ new.by = o /\ new.n = d.n /\ new.try = d.tries + 1 /\ new.kind = d.kind /\ new.id = d.id
      /\ new.form = d.form
  BY DEF RequestOf
<1>7. /\ d.n \in 1..MaxConfirms /\ d.kind \in Kinds /\ d.id \in Optional(LicenseIds)
      /\ d.form \in FormsOf(d.kind) /\ (d.kind = "issue" <=> d.id = None)
  BY <1>2 DEF Draft
<1>12. requests' = requests \cup {new} /\ Sent' = Sent \cup {new}
  BY <1>1
<1> HIDE DEF new
<1>8. \A r \in requests' : RequestOK(r)
  <2>1. RequestOK(new)
    BY <1>2, <1>6, <1>7 DEF RequestOK
  <2> QED
    BY <1>12, <2>1 DEF TypeOK
<1>9. TypeOK'
  BY <1>3, <1>4, <1>8, <1>13 DEF TypeOK
<1>10. Known'
  <2>1. \A p \in Operators :
          /\ tabs'[p].page # None => licenses'[tabs'[p].page.id] # None
          /\ tabs'[p].draft # None /\ tabs'[p].draft.id # None =>
               licenses'[tabs'[p].draft.id] # None
    BY <1>1, <1>13 DEF Known, Drafts
  <2>2. \A r \in Sent' : r.id # None => licenses'[r.id] # None
    BY <1>1, <1>6, <1>12, <1>13 DEF Known, Drafts
  <2> QED
    BY <1>4, <1>13, <2>1, <2>2 DEF Known
<1>11. Carried'
  <2>1. \A l \in LicenseIds, n \in 1..MaxConfirms : n > confirmed' => renewed'[l][n] = 0
    BY <1>4, <1>13 DEF Carried
  <2>2. ASSUME NEW l \in LicenseIds \ contended' PROVE Once(l)'
    <3>1. Once(l)
      BY <1>4 DEF Carried
    <3>2. ASSUME NEW p \in Drafts', Renews(tabs'[p].draft, l),
                 renewed'[l][tabs'[p].draft.n] # 0
          PROVE  /\ licenses'[tabs'[p].draft.id].end # None
                 /\ licenses'[tabs'[p].draft.id].end >= EndOfDay(tabs'[p].draft.form.end)
      <4>1. p \in Drafts
        BY <1>1 DEF Drafts
      <4>2. /\ tabs'[p].draft.n = tabs[p].draft.n /\ tabs'[p].draft.id = tabs[p].draft.id
            /\ tabs'[p].draft.kind = tabs[p].draft.kind
            /\ tabs'[p].draft.form = tabs[p].draft.form
        BY <1>1, <4>1 DEF Drafts
      <4>3. Reached(tabs[p].draft)
        BY <1>13, <3>1, <3>2, <4>1, <4>2 DEF Once, Renews
      <4> QED
        BY <1>13, <4>2, <4>3 DEF Reached
    <3>3. ASSUME NEW r \in requests', Renews(r, l), renewed'[l][r.n] # 0
          PROVE  /\ licenses'[r.id].end # None
                 /\ licenses'[r.id].end >= EndOfDay(r.form.end)
      <4>1. CASE r \in requests
        BY <1>13, <3>1, <3>3, <4>1 DEF Once, Reached
      <4>2. CASE r = new
        <5>1. Renews(d, l) /\ renewed[l][d.n] # 0
          BY <1>6, <1>13, <3>3, <4>2 DEF Renews
        <5>2. Reached(d)
          BY <1>1, <3>1, <5>1 DEF Once
        <5> QED
          BY <1>6, <1>13, <4>2, <5>2 DEF Reached
      <4> QED
        BY <1>12, <4>1, <4>2
    <3>4. Renewing(l)' = Renewing(l)
      BY <1>4 DEF Renewing
    <3>5. /\ \A n \in 1..MaxConfirms : renewed'[l][n] <= 1
          /\ \A t \in Renewing(l)' : /\ renewed'[l][t.req.n] = 0
                                     /\ Later(licenses'[l], EndOfDay(t.req.form.end))
          /\ \A t, u \in Renewing(l)' : t = u
      BY <1>13, <3>1, <3>4 DEF Once
    <3> QED
      BY <3>2, <3>3, <3>5 DEF Once, Reached
  <2> QED
    BY <2>1, <2>2 DEF Carried
<1> QED
  BY <1>1, <1>5, <1>9, <1>10, <1>11

(* Pages that are opened, requests that are given up, dialogs that are     *)
(* closed.                                                                 *)
LEMMA PageStep ==
    ASSUME Sound, NEW o \in Operators,
           (\E l \in LicenseIds : OpenDetail(o, l)) \/ GiveUp(o) \/ Cancel(o)
    PROVE  Sound'
<1> USE DEF Sound
<1>1. /\ TablesKept /\ requests' = requests /\ confirmed' = confirmed /\ customers' = customers
      /\ work' = work /\ contended' = contended
  BY DEF OpenDetail, GiveUp, Cancel, TablesKept, data, history
<1>2. tabs[o].page \in Optional(Page) /\ None \in {tabs[o].draft, None}
  BY TabType
<1>3. Settled(o)
  <2>1. ASSUME NEW l \in LicenseIds, OpenDetail(o, l) PROVE Settled(o)
    <3>1. TabSet(o, [page |-> Loaded(l), draft |-> None, waiting |-> FALSE])
      BY <2>1, OpenDetailTab
    <3>2. licenses[l] # None /\ licenses[l] \in Row
      BY <2>1 DEF OpenDetail, TypeOK, Optional
    <3>3. Loaded(l) \in Page /\ Loaded(l).id = l
      BY <3>2 DEF Loaded, Page
    <3>4. licenses'[l] # None /\ Loaded(l) # None
      BY <1>1, <3>2, <3>3, NoneAssumption DEF TablesKept
    <3> QED
      BY <3>1, <3>3, <3>4 DEF Settled, Optional
  <2>2. CASE GiveUp(o)
    BY <1>2, <2>2, GiveUpTab DEF GiveUp, Settled
  <2>3. CASE Cancel(o)
    BY <1>2, <2>3, CancelTab DEF Settled
  <2> QED
    BY <2>1, <2>2, <2>3
<1> QED
  BY <1>1, <1>3, QuietStep DEF TypeOK, Known

(* A request that is turned away. *)
LEMMA RefuseStep ==
    ASSUME Sound, NEW r \in requests, Refuse(r)
    PROVE  Sound'
<1>1. /\ TablesKept /\ requests' \subseteq requests /\ confirmed' = confirmed
      /\ customers' = customers /\ work' = work /\ contended' = contended
      /\ AnswerError(r) /\ r \in Sent
  BY DEF Refuse, TablesKept, data, history, Sent
<1>2. tabs' = tabs \/ \E o \in Operators : Settled(o)
  BY <1>1, ErrorSettles DEF Sound
<1> QED
  BY <1>1, <1>2, QuietStep DEF Sound, TypeOK, Known

(* A customer is edited. *)
LEMMA CustomerStep ==
    ASSUME Sound, NEW c \in Customers, NEW rename \in BOOLEAN, NEW enabled \in BOOLEAN,
           UpdateCustomer(c, rename, enabled)
    PROVE  Sound'
<1> USE DEF Sound
<1> DEFINE new == [name |-> IF rename THEN customers[c].name + 1 ELSE customers[c].name,
                   enabled |-> enabled, edits |-> customers[c].edits + 1]
<1>1. /\ customers \in [Customers -> Customer] /\ customers[c] \in Customer
      /\ \A k \in Customers : customers[k].name <= customers[k].edits
      /\ customers[c].edits < MaxEdits /\ MaxEdits \in Nat
  BY ConsoleAssumption DEF UpdateCustomer, TypeOK, Known
<1>2. new \in Customer /\ new.name <= new.edits
  BY <1>1 DEF Customer
<1>3. customers' = [customers EXCEPT ![c] = new]
  <2>1. PICK k \in Customer : k = customers[c]
    BY <1>1
  <2> DEFINE name == IF rename THEN k.name + 1 ELSE k.name
             edits == k.edits + 1
  <2>2. customers' = [customers EXCEPT ![c] = [@ EXCEPT !.name = name, !.enabled = enabled,
                                                        !.edits = edits]]
    BY <1>1, <2>1 DEF UpdateCustomer, Customer
  <2>4. new = [name |-> name, enabled |-> enabled, edits |-> edits]
    BY <2>1
  <2> HIDE DEF name, edits
  <2>3. \A x, y, z : [k EXCEPT !.name = x, !.enabled = y, !.edits = z] =
                       [name |-> x, enabled |-> y, edits |-> z]
    <3> SUFFICES ASSUME NEW x, NEW y, NEW z
                 PROVE  [k EXCEPT !.name = x, !.enabled = y, !.edits = z] =
                          [name |-> x, enabled |-> y, edits |-> z]
      OBVIOUS
    <3>1. PICK first : first = [k EXCEPT !.name = x]
      OBVIOUS
    <3>2. first = [name |-> x, enabled |-> k.enabled, edits |-> k.edits]
      BY <3>1 DEF Customer
    <3>3. PICK second : second = [first EXCEPT !.enabled = y]
      OBVIOUS
    <3>4. second = [name |-> x, enabled |-> y, edits |-> k.edits]
      BY <3>2, <3>3
    <3>5. [second EXCEPT !.edits = z] = [name |-> x, enabled |-> y, edits |-> z]
      BY <3>4
    <3>6. [second EXCEPT !.edits = z] = [k EXCEPT !.name = x, !.enabled = y, !.edits = z]
      BY <3>1, <3>3
    <3> QED
      BY <3>5, <3>6
  <2>5. [k EXCEPT !.name = name, !.enabled = enabled, !.edits = edits] = new
    BY <2>3, <2>4
  <2> QED
    BY <2>1, <2>2, <2>5
<1> HIDE DEF new
<1>4. /\ customers' \in [Customers -> Customer]
      /\ \A k \in Customers : customers'[k].name <= customers'[k].edits
  BY <1>1, <1>2, <1>3
<1>5. TablesKept /\ requests' = requests /\ confirmed' = confirmed /\ tabs' = tabs
      /\ work' = work /\ contended' = contended
  BY DEF UpdateCustomer, TablesKept, history
<1> QED
  BY <1>4, <1>5, QuietStep

(* At the start, licenses are as the forms say. *)
LEMMA InitSound ==
    ASSUME Init
    PROVE  Sound
<1>1. PICK form \in [Issued -> IssueForms] :
        /\ licenses = [l \in LicenseIds |->
              IF l \in Issued THEN NewRow(IssuePayload(form[l])) ELSE None]
        /\ agreed = [l \in LicenseIds |-> IF l \in Issued THEN AgreedBy(form[l]) ELSE None]
  BY DEF Init
<1>2. /\ creds = [l \in LicenseIds |-> IF l \in Issued THEN Signed(licenses[l], 0) ELSE None]
      /\ requests = {} /\ work = {} /\ confirmed = 0 /\ basis = agreed /\ contended = {}
      /\ renewed = [l \in LicenseIds |-> [n \in 1..MaxConfirms |-> 0]]
      /\ tabs = [o \in Operators |-> [page |-> None, draft |-> None, waiting |-> FALSE]]
      /\ customers = [c \in Customers |-> [name |-> 0, enabled |-> TRUE, edits |-> 0]]
  BY DEF Init
<1>3. /\ Issued \subseteq LicenseIds /\ MaxConfirms \in Nat /\ MaxEdits \in Nat
      /\ 0 \in 0..MaxEdits /\ 0 \in 0..MaxConfirms
  BY ConsoleAssumption
<1>4. ASSUME NEW l \in Issued
      PROVE  /\ licenses[l] \in Row /\ licenses[l] # None
             /\ agreed[l] \in Agreement /\ agreed[l] # None
             /\ creds[l] \in Payload /\ creds[l] # None
             /\ RowAsAgreed(licenses[l], agreed[l]) /\ SignedFor(creds[l], agreed[l])
  <2>1. form[l] \in IssueForms /\ form[l] \in Form
    BY FormsAssumption
  <2>2. licenses[l] = NewRow(IssuePayload(form[l])) /\ agreed[l] = AgreedBy(form[l])
    BY <1>1, <1>3
  <2>3. licenses[l] \in Row /\ agreed[l] \in Agreement /\ RowAsAgreed(licenses[l], agreed[l])
    BY <2>1, <2>2, RowOfForm
  <2>4. creds[l] = Signed(licenses[l], 0) /\ creds[l] \in Payload
    BY <1>2, <1>3, <2>3, SignedType
  <2>5. SignedFor(creds[l], agreed[l])
    BY <1>3, <2>3, <2>4 DEF SignedFor
  <2> QED
    BY <2>3, <2>4, <2>5, NoneAssumption
<1>5. \A l \in LicenseIds \ Issued : licenses[l] = None /\ agreed[l] = None /\ creds[l] = None
  BY <1>1, <1>2
<1>6. /\ licenses \in [LicenseIds -> Optional(Row)]
      /\ agreed \in [LicenseIds -> Optional(Agreement)]
      /\ basis \in [LicenseIds -> Optional(Agreement)]
      /\ creds \in [LicenseIds -> Optional(Payload)]
      /\ \A l \in LicenseIds : /\ (licenses[l] = None) <=> (creds[l] = None)
                               /\ (licenses[l] = None) <=> (agreed[l] = None)
                               /\ (licenses[l] = None) <=> (basis[l] = None)
  <2>1. \A l \in LicenseIds : /\ licenses[l] \in Optional(Row) /\ agreed[l] \in Optional(Agreement)
                              /\ creds[l] \in Optional(Payload)
    BY <1>4, <1>5 DEF Optional
  <2>2. \A l \in LicenseIds : /\ (licenses[l] = None) <=> (creds[l] = None)
                              /\ (licenses[l] = None) <=> (agreed[l] = None)
    BY <1>4, <1>5
  <2> QED
    BY <1>1, <1>2, <2>1, <2>2
<1>7. /\ tabs \in [Operators -> Tab]
      /\ \A o \in Operators : tabs[o].page = None /\ tabs[o].draft = None /\ ~tabs[o].waiting
  BY <1>2 DEF Tab, Optional
<1>8. /\ customers \in [Customers -> Customer]
      /\ renewed \in [LicenseIds -> [1..MaxConfirms -> Nat]]
      /\ \A l \in LicenseIds, n \in 1..MaxConfirms : renewed[l][n] = 0
      /\ \A c \in Customers : customers[c].name <= customers[c].edits
  BY <1>2, <1>3 DEF Customer
<1>9. TypeOK
  BY <1>2, <1>3, <1>6, <1>7, <1>8 DEF TypeOK
<1>10. Sent = {} /\ \A l \in LicenseIds : Renewing(l) = {}
  BY <1>2 DEF Sent, Renewing
<1>15. Known
  BY <1>6, <1>7, <1>8, <1>10 DEF Known
<1>11. Drafts = {}
  BY <1>7 DEF Drafts
<1>12. Numbered /\ Carried
  BY <1>2, <1>8, <1>10, <1>11 DEF Numbered, Carried, Once
<1>13. InSync
  BY <1>2, <1>4, <1>5 DEF InSync
<1> QED
  BY <1>9, <1>12, <1>13, <1>15 DEF Sound

(* Every step keeps the invariant. *)
LEMMA StepSound ==
    ASSUME Sound, [Next]_vars
    PROVE  Sound'
<1>1. ASSUME NEW o \in Operators,
             \/ \E l \in LicenseIds : OpenDetail(o, l)
             \/ ConfirmIssue(o) \/ ConfirmRenew(o) \/ ConfirmReissue(o) \/ ConfirmVoid(o)
             \/ Send(o) \/ GiveUp(o) \/ Cancel(o)
      PROVE  Sound'
  <2>1. CASE Confirms(o)
    BY <2>1, ConfirmStep
  <2>2. CASE Send(o)
    BY <2>2, SendStep
  <2>3. CASE (\E l \in LicenseIds : OpenDetail(o, l)) \/ GiveUp(o) \/ Cancel(o)
    BY <2>3, PageStep
  <2> QED
    BY <1>1, <2>1, <2>2, <2>3 DEF Confirms
<1>2. ASSUME NEW r \in requests,
             BeginIssue(r) \/ BeginRenew(r) \/ BeginReissue(r) \/ Void(r) \/ Refuse(r)
      PROVE  Sound'
  BY <1>2, BeginStep, VoidStep, RefuseStep
<1>3. ASSUME NEW t \in work, Serve(t) \/ RollBack(t)
      PROVE  Sound'
  BY <1>3, ServeStep, RollBackStep
<1>4. ASSUME NEW c \in Customers, NEW rename \in BOOLEAN, NEW enabled \in BOOLEAN,
             UpdateCustomer(c, rename, enabled)
      PROVE  Sound'
  BY <1>4, CustomerStep
<1>5. CASE UNCHANGED vars
  <2>1. /\ TablesKept /\ requests' = requests /\ confirmed' = confirmed
        /\ tabs' = tabs /\ customers' = customers /\ work' = work /\ contended' = contended
    BY <1>5 DEF vars, data, history, TablesKept
  <2> QED
    BY <2>1, QuietStep DEF Sound, TypeOK, Known
<1>6. CASE Next
  BY <1>1, <1>2, <1>3, <1>4, <1>6 DEF Next, Serve
<1> QED
  BY <1>5, <1>6

(* The invariant holds. *)
LEMMA Invariant == Spec => []Sound
<1>1. Init => Sound
  BY InitSound
<1>2. Sound /\ [Next]_vars => Sound'
  BY StepSound
<1> QED
  BY <1>1, <1>2, PTL DEF Spec

-----------------------------------------------------------------------------
(* What the client makes of a credential *)

(* Logins are blocked before the start, less the tolerance, and from the   *)
(* end on.  Otherwise the days that remain are known where there is an end.*)
LEMMA Verdict ==
    ASSUME NEW cred \in Payload, NEW t \in Int
    PROVE  /\ StateOf(cred, t).loginBlocked <=>
                \/ t < cred.start * Sec - SkewTol
                \/ cred.end # None /\ t >= cred.end * Sec
           /\ cred.end # None /\ ~StateOf(cred, t).loginBlocked =>
                StateOf(cred, t).remainingDays = -((-(cred.end * Sec - t)) \div Day)
<1> DEFINE end == IF cred.end = None THEN None ELSE cred.end * Sec
           start == cred.start * Sec
           payload == [typ |-> "formal", ours |-> TRUE, start |-> start, end |-> end,
                       warnDays |-> cred.warnDays, skewTol |-> SkewTol]
<1>1. StateOf(cred, t) = Client!EvaluateCredential(t, payload, None)
  BY DEF StateOf
<1>2. /\ Client!SkewTolOf(payload) = SkewTol /\ Client!ResolveEnd(payload, None) = end
      /\ payload.ours = TRUE /\ payload.typ = "formal" /\ payload.start = start
  BY ConsoleAssumption, TermAssumption DEF Client!SkewTolOf, Client!ResolveEnd, Client!OrElse
<1>3. start \in Int /\ (cred.end # None => cred.end * Sec \in Int) /\ SkewTol \in Int
      /\ None \notin Int
  BY ConsoleAssumption, TermAssumption DEF Payload, Optional
<1> DEFINE warnDays == Client!WarnDaysOf(payload)
<1>4. Client!EvaluateCredential(t, payload, None) =
        IF t < start - SkewTol THEN Client!Invalid("not_yet_valid")
        ELSE IF end = None THEN Client!State("formal_active", None, None)
        ELSE Client!Term("formal", end, warnDays, t)
  BY <1>2 DEF Client!EvaluateCredential
<1>5. Client!Invalid("not_yet_valid").loginBlocked
  BY DEF Client!Invalid, Client!State, Client!BlockingStatuses
<1>6. ~Client!State("formal_active", None, None).loginBlocked
  BY DEF Client!State, Client!BlockingStatuses
<1> HIDE DEF start, payload, warnDays
<1>7. ASSUME cred.end # None
      PROVE  LET state == Client!Term("formal", end, warnDays, t)
             IN  /\ state.loginBlocked <=> t >= end
                 /\ state.remainingDays = -((-(end - t)) \div Day)
  <2>1. end \in Int /\ end = cred.end * Sec
    BY <1>3, <1>7
  <2> DEFINE remaining == -((-(end - t)) \div Day)
             phase == IF t >= end THEN "expired"
                      ELSE IF remaining <= warnDays THEN "expiring" ELSE "active"
             status == [active |-> "formal_active", expiring |-> "formal_expiring",
                        expired |-> "formal_expired"][phase]
  <2>2. Client!Term("formal", end, warnDays, t) = Client!State(status, None, remaining)
    BY DEF Client!Term, Client!CeilDiv
  <2>3. status \in Client!BlockingStatuses <=> t >= end
    BY DEF Client!BlockingStatuses
  <2> HIDE DEF remaining, status, end
  <2>4. /\ Client!State(status, None, remaining).loginBlocked <=> t >= end
        /\ Client!State(status, None, remaining).remainingDays = remaining
    BY <2>3 DEF Client!State
  <2> QED
    BY <2>2, <2>4 DEF remaining
<1>8. CASE cred.end = None
  BY <1>1, <1>3, <1>4, <1>5, <1>6, <1>8 DEF start
<1>9. CASE cred.end # None
  <2>1. end # None /\ end = cred.end * Sec
    BY <1>3, <1>9
  <2> HIDE DEF end
  <2> QED
    BY <1>1, <1>3, <1>4, <1>5, <1>7, <1>9, <2>1 DEF start
<1> QED
  BY <1>8, <1>9

(* A second and the tolerance fit between noon and midnight: with them the *)
(* client judges every noon by its day.                                    *)
NoonIsClear == Sec + SkewTol < Day \div 2

(* Noon is after the start of its day, and clear of the next. *)
LEMMA NoonOfDay ==
    ASSUME NoonIsClear, NEW d \in Nat
    PROVE  /\ Noon(d) \in Nat /\ StartOfDay(d) <= Noon(d)
           /\ Noon(d) + Sec + SkewTol < StartOfDay(d) + Day
<1>1. PICK half \in Int : half = Day \div 2 /\ 0 <= half /\ half + half <= Day
  BY TermAssumption
<1>2. Sec \in Nat /\ SkewTol \in Nat /\ Day \in Nat /\ Sec + SkewTol < half
  BY <1>1, TermAssumption, ConsoleAssumption DEF NoonIsClear
<1>3. StartOfDay(d) \in Nat
  BY DaysOrdered
<1>4. Noon(d) = StartOfDay(d) + half
  BY <1>1 DEF Noon
<1> QED
  BY <1>1, <1>2, <1>3, <1>4

(* Logins are open on the days of the row, and on no other. *)
LEMMA ServedByRow ==
    ASSUME NoonIsClear, NEW row \in Row, NEW name \in Nat, NEW a \in Agreement,
           row.start = StartOfDay(a.start), row.end = EndInstant(a.end)
    PROVE  ServedOnAgreedDays(Signed(row, name), a)
<1> DEFINE cred == Signed(row, name)
<1>1. /\ cred \in Payload /\ cred.start = ToUnix(row.start)
      /\ cred.end = IF row.end = None THEN None ELSE ToUnix(row.end)
  BY SignedType DEF Signed
<1>2. a.start \in Nat /\ a.end \in Optional(Nat)
  BY DEF Agreement
<1>3. Sec \in Nat /\ SkewTol \in Nat /\ Day \in Nat /\ None \notin Int
  BY TermAssumption, ConsoleAssumption
<1> HIDE DEF cred
<1>4. PICK first \in Nat : /\ first = cred.start * Sec
                           /\ first <= StartOfDay(a.start) /\ StartOfDay(a.start) < first + Sec
  <2>1. StartOfDay(a.start) \in Nat
    BY <1>2, DaysOrdered
  <2> QED
    BY <1>1, <2>1, SecondsBelow
<1>5. ASSUME NEW d \in Nat
      PROVE  Noon(d) < first - SkewTol <=> d < a.start
  <2>1. PICK noon \in Nat, day \in Nat, begin \in Nat :
          /\ noon = Noon(d) /\ day = StartOfDay(d) /\ begin = StartOfDay(a.start)
          /\ day <= noon /\ noon + Sec + SkewTol < day + Day
    BY <1>2, DaysOrdered, NoonOfDay
  <2>2. d < a.start => day + Day <= begin
    BY <1>2, <2>1, LaterDay
  <2>3. a.start < d => begin + Day <= day
    BY <1>2, <2>1, LaterDay
  <2>4. a.start = d => begin = day
    BY <2>1
  <2>5. first <= begin /\ begin < first + Sec
    BY <1>4, <2>1
  <2>6. CASE d < a.start
    BY <1>3, <2>1, <2>2, <2>5, <2>6
  <2>7. CASE ~(d < a.start)
    <3>2. a.start < d \/ a.start = d
      BY <1>2, <2>7
    <3>1. begin <= noon
      <4>1. begin <= day
        BY <1>3, <2>1, <2>3, <2>4, <3>2
      <4> QED
        BY <2>1, <4>1
    <3> QED
      BY <1>3, <2>1, <2>5, <2>7, <3>1
  <2> QED
    BY <2>6, <2>7
<1>6. ASSUME NEW d \in Nat
      PROVE  cred.end # None /\ Noon(d) >= cred.end * Sec <=> a.end # None /\ d > a.end
  <2>1. CASE a.end = None
    BY <1>1, <2>1 DEF EndInstant
  <2>2. CASE a.end # None
    <3>1. a.end \in Nat /\ row.end = EndOfDay(a.end) /\ row.end # None
      BY <1>2, <2>2, EndIsInstant DEF Optional
    <3>2. PICK noon \in Nat, day \in Nat, last \in Nat :
            /\ noon = Noon(d) /\ day = StartOfDay(d) /\ last = StartOfDay(a.end)
            /\ day <= noon /\ noon + Sec + SkewTol < day + Day
            /\ row.end = last + Day - 1 /\ row.end \in Nat
      BY <3>1, DaysOrdered, NoonOfDay
    <3>3. PICK end \in Nat : /\ end = cred.end * Sec /\ end <= row.end /\ row.end < end + Sec
                             /\ cred.end # None
      BY <1>1, <1>3, <3>1, <3>2, SecondsBelow
    <3>4. d < a.end => day + Day <= last
      BY <3>1, <3>2, LaterDay
    <3>5. a.end < d => last + Day <= day
      BY <3>1, <3>2, LaterDay
    <3>6. a.end = d => last = day
      BY <3>2
    <3>7. end <= last + Day - 1 /\ last + Day - 1 < end + Sec
      BY <3>2, <3>3
    <3>8. CASE d > a.end
      <4>1. end <= noon
        BY <1>3, <3>1, <3>2, <3>5, <3>7, <3>8
      <4> QED
        BY <2>2, <3>2, <3>3, <3>8, <4>1
    <3>9. CASE ~(d > a.end)
      <4>3. d < a.end \/ d = a.end
        BY <3>1, <3>9
      <4>1. day <= last
        BY <1>3, <3>2, <3>4, <3>6, <4>3
      <4>2. noon < end
        BY <1>3, <3>2, <3>7, <4>1
      <4> QED
        BY <3>2, <3>3, <3>9, <4>2
    <3> QED
      BY <3>8, <3>9
  <2> QED
    BY <2>1, <2>2
<1> SUFFICES ASSUME NEW d \in 0..LastDay
             PROVE  StateOf(cred, Noon(d)).loginBlocked
                      <=> d < a.start \/ (a.end # None /\ d > a.end)
  BY DEF ServedOnAgreedDays, cred
<1>7. d \in Nat
  BY ConsoleAssumption
<1>8. Noon(d) \in Int
  BY <1>7, NoonOfDay
<1> QED
  BY <1>1, <1>4, <1>5, <1>6, <1>7, <1>8, Verdict

(* Users, quotas and features of the row are those agreed. *)
LEMMA LimitsByRow ==
    ASSUME NEW row \in Row, NEW name \in Nat, NEW a \in Agreement, RowAsAgreed(row, a)
    PROVE  LimitsAsAgreed(Signed(row, name), a) /\ FeaturesAsAgreed(Signed(row, name), a)
<1> DEFINE cred == Signed(row, name)
           quota == ToQuota(row.limits.tokens, row.limits.period)
<1>1. /\ cred.limits.users = row.limits.users /\ cred.limits.tokens = quota
      /\ cred.features = row.features
  BY DEF Signed
<1>2. /\ row.limits.users = a.limits.users /\ row.limits.tokens = a.limits.tokens
      /\ a.limits.tokens # None => row.limits.period = a.limits.period
  <2>1. a.limits \in LimitFields /\ row.limits = LimitsStored(LimitsSent(a.limits))
    BY DEF Agreement, RowAsAgreed
  <2> QED
    BY <2>1, LimitsOfForm
<1>9. \A f \in Features \cup LaterFeatures :
        f \in a.features \/ a.features = {} <=> row.features = None \/ f \in row.features
  <2>1. a.features \in SUBSET (Features \cup LaterFeatures) /\ a.features # None
    BY NoneAssumption DEF Agreement
  <2>2. row.features = IF a.features = {} \/ a.features = Features \cup LaterFeatures THEN None
                       ELSE a.features
    BY DEF RowAsAgreed, FeaturesFor
  <2> QED
    BY <2>1, <2>2
<1>3. /\ a.limits.tokens \in Optional(Positive) /\ a.limits.period \in Periods
      /\ None \notin Nat
  BY TermAssumption DEF Agreement, LimitFields
<1>4. a.limits.tokens = None => quota = None
  BY <1>2 DEF ToQuota
<1>5. a.limits.tokens # None =>
        /\ quota = [limit |-> a.limits.tokens, period |-> a.limits.period]
        /\ quota # None
  <2> SUFFICES ASSUME a.limits.tokens # None
               PROVE  /\ quota = [limit |-> a.limits.tokens, period |-> a.limits.period]
                      /\ quota # None
    OBVIOUS
  <2>1. a.limits.tokens \in Positive /\ ~(a.limits.tokens <= 0)
    BY <1>3 DEF Optional, Positive
  <2>2. quota = [limit |-> a.limits.tokens, period |-> a.limits.period]
    BY <1>2, <1>3, <2>1 DEF ToQuota, Periods
  <2>3. quota \in Quota
    BY <1>3, <2>1, <2>2 DEF Quota
  <2> QED
    BY <2>2, <2>3, NoneAssumption
<1> HIDE DEF cred, quota
<1>6. Client!QuotaLimit(quota) = a.limits.tokens
  <2>1. CASE a.limits.tokens = None
    BY <1>4, <2>1 DEF Client!QuotaLimit
  <2>2. CASE a.limits.tokens # None
    <3>1. quota.limit = a.limits.tokens /\ ~(quota.limit <= 0)
      BY <1>3, <1>5, <2>2 DEF Optional, Positive
    <3> QED
      BY <1>5, <2>2, <3>1 DEF Client!QuotaLimit
  <2> QED
    BY <2>1, <2>2
<1>7. LimitsAsAgreed(cred, a)
  <2>1. a.limits.tokens # None => cred.limits.tokens.period = a.limits.period
    BY <1>1, <1>5
  <2>2. \A n \in 0..3 : Client!CanCreateUser(cred.limits, n)
                          <=> (a.limits.users = None \/ n < a.limits.users)
    BY <1>1, <1>2 DEF Client!CanCreateUser
  <2>3. \A n \in 0..3 : Client!Blocked(Client!QuotaLimit(cred.limits.tokens), n, Ratio)
                          <=> (a.limits.tokens # None /\ n * 100 >= a.limits.tokens * Ratio)
    BY <1>1, <1>6 DEF Client!Blocked
  <2> QED
    BY <2>1, <2>2, <2>3 DEF LimitsAsAgreed
<1>8. FeaturesAsAgreed(cred, a)
  BY <1>1, <1>9 DEF FeaturesAsAgreed, Client!IsFeatureEnabled
<1> QED
  BY <1>7, <1>8 DEF cred

(* The reminder is shown on the last days. *)
LEMMA RemindedOnLastDays ==
    ASSUME NEW cred \in Payload, cred.end # None, NEW t \in Int,
           t >= cred.end * Sec - ReminderDays * Day, ~StateOf(cred, t).loginBlocked
    PROVE  Client!BuildNotice(StateOf(cred, t)).level = "warning"
<1> DEFINE left == cred.end * Sec - t
           state == StateOf(cred, t)
<1>1. cred.end * Sec \in Int /\ ReminderDays * Day \in Int /\ ReminderDays \in Nat
      /\ None \notin Int
  BY TermAssumption, ConsoleAssumption DEF Payload, Optional
<1>2. left \in Int /\ left <= ReminderDays * Day
  BY <1>1
<1>3. state.remainingDays = -((-left) \div Day)
  BY Verdict
<1> HIDE DEF left, state
<1>4. state.remainingDays \in Int /\ state.remainingDays <= ReminderDays
  BY <1>1, <1>2, <1>3, DaysLeft
<1>5. Client!BuildNotice(state).level = "warning"
  BY <1>1, <1>4 DEF Client!BuildNotice, state
<1> QED
  BY <1>5 DEF state

-----------------------------------------------------------------------------
(* The theorems *)

(* Licenses, credentials, pages, forms and requests keep their types: a    *)
(* request is what its form says, and is about a license unless it is to   *)
(* issue one; a license and its credential come together.                  *)
THEOREM Types == Spec => []TypeOK
<1>1. Sound => TypeOK
  BY DEF Sound
<1> QED
  BY <1>1, Invariant, PTL

(* A confirmed renewal is carried out once at most, however often its form *)
(* is sent, and however late its requests arrive, on a license whose       *)
(* renewals never overlap at the server: what it has reached, no later     *)
(* step takes back, and the server wants a later end.                      *)
THEOREM RenewalsOnce == Spec => []RenewedOnce
<1>1. ASSUME Sound PROVE RenewedOnce
  <2> SUFFICES ASSUME NEW l \in LicenseIds, NEW n \in 1..MaxConfirms,
                      renewed[l][n] > 1, l \notin contended
               PROVE  FALSE
    BY DEF RenewedOnce
  <2>1. renewed[l][n] <= 1 /\ renewed[l][n] \in Nat
    BY <1>1 DEF Sound, TypeOK, Carried, Once
  <2> QED
    BY <2>1
<1> QED
  BY <1>1, Invariant, PTL

(* While the row of a license stays, a credential made for what is agreed  *)
(* follows one that was with the customer's name changed only, whatever    *)
(* the operator's page showed, and whatever else was under way.            *)
THEOREM ReissuesKeepTerms == Spec => ReissueKeepsTerms
<1>1. ASSUME Sound, Sound', [Next]_vars
      PROVE  \A l \in LicenseIds :
               /\ creds[l] # None /\ licenses'[l] = licenses[l]
               /\ basis[l] = agreed[l] /\ basis'[l] = agreed'[l]
               => creds'[l] = [creds[l] EXCEPT !.name = creds'[l].name]
  <2> SUFFICES ASSUME NEW l \in LicenseIds, creds[l] # None, licenses'[l] = licenses[l],
                      basis[l] = agreed[l], basis'[l] = agreed'[l]
               PROVE  creds'[l] = [creds[l] EXCEPT !.name = creds'[l].name]
    OBVIOUS
  <2>1. licenses[l] # None /\ licenses'[l] # None
    BY <1>1 DEF Sound, TypeOK
  <2>2. /\ SignedFor(creds[l], agreed[l]) /\ RowAsAgreed(licenses[l], agreed[l])
        /\ agreed[l] \in Agreement
    BY <1>1, <2>1, LicenseType DEF Sound, InSync
  <2>3. /\ SignedFor(creds'[l], agreed'[l]) /\ RowAsAgreed(licenses[l], agreed'[l])
    BY <1>1, <2>1 DEF Sound, InSync, SignedFor
  <2>4. PICK old \in Row, before \in 0..MaxEdits :
          RowAsAgreed(old, agreed[l]) /\ creds[l] = Signed(old, before)
    BY <2>2 DEF SignedFor
  <2>5. PICK new \in Row, after \in 0..MaxEdits :
          RowAsAgreed(new, agreed'[l]) /\ creds'[l] = Signed(new, after)
    BY <2>3 DEF SignedFor
  <2>6. /\ creds[l] = [Signed(licenses[l], before) EXCEPT !.name = before]
        /\ creds'[l] = [Signed(licenses[l], before) EXCEPT !.name = after]
        /\ creds'[l].name = after
    BY <2>2, <2>3, <2>4, <2>5, SignedAlike
  <2> QED
    BY <2>6 DEF Signed
<1> QED
  BY <1>1, Invariant, PTL DEF ReissueKeepsTerms, Spec

(* On the last days of a credential the client reminds of its end, unless  *)
(* it blocks already.                                                      *)
THEOREM RemindsInTime == Spec => []RemindedBeforeBlocked
<1>1. ASSUME Sound PROVE RemindedBeforeBlocked
  <2> SUFFICES ASSUME NEW l \in LicenseIds, creds[l] # None, creds[l].end # None,
                      NEW t \in {StartOfDay(d) : d \in 0..LastDay} \cup
                                {Noon(d) : d \in 0..LastDay},
                      t >= creds[l].end * Sec - ReminderDays * Day,
                      ~StateOf(creds[l], t).loginBlocked
               PROVE  Client!BuildNotice(StateOf(creds[l], t)).level = "warning"
    BY DEF RemindedBeforeBlocked
  <2>1. creds[l] \in Payload
    BY <1>1 DEF Sound, TypeOK, Optional
  <2>2. t \in Int
    <3>1. \A d \in 0..LastDay : StartOfDay(d) \in Int /\ Day \div 2 \in Int
      BY TermAssumption, ConsoleAssumption, DaysOrdered
    <3>2. \A d \in 0..LastDay : Noon(d) \in Int
      BY <3>1 DEF Noon
    <3> QED
      BY <3>1, <3>2
  <2> QED
    BY <2>1, <2>2, RemindedOnLastDays
<1> QED
  BY <1>1, Invariant, PTL

(* The client does what had been agreed when the credential's transaction  *)
(* read the license, where noon is clear of seconds and tolerance:         *)
(* whichever pages were stale, and whichever requests came late, twice,    *)
(* never or at the same time; a form without any feature is taken for one  *)
(* with all of them.                                                       *)
THEOREM AgreementsEnforced ==
    ASSUME NoonIsClear
    PROVE  Spec => []EnforcesAgreement
<1>1. ASSUME Sound PROVE EnforcesAgreement
  <2> SUFFICES ASSUME NEW l \in LicenseIds, creds[l] # None
               PROVE  /\ ServedOnAgreedDays(creds[l], basis[l])
                      /\ LimitsAsAgreed(creds[l], basis[l])
                      /\ FeaturesAsAgreed(creds[l], basis[l])
    BY DEF EnforcesAgreement
  <2>1. licenses[l] # None
    BY <1>1 DEF Sound, TypeOK
  <2>2. PICK row \in Row, name \in 0..MaxEdits :
          RowAsAgreed(row, basis[l]) /\ creds[l] = Signed(row, name)
    BY <1>1, <2>1 DEF Sound, InSync, SignedFor
  <2>3. basis[l] \in Agreement /\ name \in Nat
    BY <1>1, <2>1, LicenseType, ConsoleAssumption DEF Sound
  <2>4. row.start = StartOfDay(basis[l].start) /\ row.end = EndInstant(basis[l].end)
    BY <2>2 DEF RowAsAgreed
  <2>5. ServedOnAgreedDays(Signed(row, name), basis[l])
    BY <2>3, <2>4, ServedByRow
  <2>6. LimitsAsAgreed(Signed(row, name), basis[l]) /\ FeaturesAsAgreed(Signed(row, name), basis[l])
    BY <2>2, <2>3, LimitsByRow
  <2> QED
    BY <2>2, <2>5, <2>6
<1> QED
  BY <1>1, Invariant, PTL
=============================================================================
