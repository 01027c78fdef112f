------------------------ MODULE LicenseIssuingProofs ------------------------
(***************************************************************************)
(* Proofs about issuing licenses while the signing keys are rotated: for   *)
(* any number of requests, owners, licenses, keys and dates.               *)
(***************************************************************************)
EXTENDS LicenseIssuing, FiniteSetTheorems, TLAPS

-----------------------------------------------------------------------------
(* What the types alone leave open: a transaction that is signing has its  *)
(* key, and the rows it updates are there.                                 *)
TransactionSound(s) ==
    tx[s] # None =>
        /\ tx[s].at = "signing" => tx[s].key \in Kids
        /\ tx[s].op \in {"renew", "reissue"} => licenses[tx[s].id] # None
        /\ tx[s].op = "convert" => tx[s].trial \in Trials

Sound ==
    /\ TypeOK
    /\ \A t \in Trials : licenses[t] # None
    /\ \A s \in Sessions : TransactionSound(s)

(* A derived status makes a row. *)
LEMMA RowType ==
    ASSUME NEW typ \in {"formal", "trial"}, NEW start \in Int, NEW end \in Int \cup {None},
           NEW t \in Int
    PROVE  /\ DeriveStatus(start, end, t) \in Statuses
           /\ [typ |-> typ, status |-> DeriveStatus(start, end, t),
               start |-> start, end |-> end] \in Row
BY DEF DeriveStatus, Statuses, Row

(* An update of the end and the status touches nothing else. *)
LEMMA RowUpdated ==
    ASSUME NEW row \in Row, NEW end \in Int \cup {None}, NEW status \in Statuses
    PROVE  /\ Patched(row, end, status) \in Row
           /\ Patched(row, end, status).start = row.start
           /\ Patched(row, end, status).end = end
           /\ Patched(row, end, status).status = status
BY DEF Row, Patched

(* The rounding to seconds keeps a perpetual end and returns a time. *)
LEMMA InSecondsType ==
    ASSUME NEW t \in Int \cup {None} PROVE InSeconds(t) \in Int \cup {None}
BY TermAssumption DEF InSeconds, ToUnix

(* The end of a term is never rounded to a perpetual one. *)
LEMMA InSecondsOfTime ==
    ASSUME NEW t \in Int PROVE InSeconds(t) \in Int
BY TermAssumption DEF InSeconds, ToUnix

(* The keys keep their types. *)
LEMMA KeysTyped ==
    ASSUME KeysTypeOK, KeyStep PROVE KeysTypeOK'
<1> USE DEF KeysTypeOK, KeyStatuses, KeySteps
<1> USE KeysAssumption
<1>1. ASSUME NEW a \in KeyAdmins, NEW k \in Kids,
             Create(a, k) \/ Import(a, k) \/ Activate(a, k) \/ Retire(a, k)
      PROVE  KeysTypeOK'
  BY <1>1 DEF Create, Import, Activate, Retire, Goto
<1>2. ASSUME NEW a \in KeyAdmins,
             Demote(a) \/ Promote(a) \/ Insert(a) \/ FinishRetire(a) \/ Abandon(a)
      PROVE  KeysTypeOK'
  <2>1. CASE Demote(a)  BY <2>1 DEF Demote, Goto
  <2>2. CASE Promote(a)  BY <2>2 DEF Promote, Finish
  <2>3. CASE Insert(a)  BY <2>3 DEF Insert, Finish
  <2>4. CASE FinishRetire(a)  BY <2>4 DEF FinishRetire, Finish
  <2>5. CASE Abandon(a)  BY <2>5 DEF Abandon, Finish
  <2> QED  BY <1>2, <2>1, <2>2, <2>3, <2>4, <2>5
<1>3. CASE RollOut  BY <1>3 DEF RollOut, PublicKeys
<1> QED  BY <1>1, <1>2, <1>3 DEF KeyStep

(* The trials that exist from the start are sound. *)
LEMMA SoundAtStart == Init => Sound
<1> SUFFICES ASSUME Init PROVE Sound
  OBVIOUS
<1> USE DEF Init
<1> DEFINE TrialRow == [typ |-> "trial", status |-> "active", start |-> 0, end |-> TrialEnd]
<1>1. KeysTypeOK
  BY KeysAssumption DEF KeysInit, KeysTypeOK, KeyStatuses, KeySteps
<1>2. TrialRow \in Row
  BY IssuingAssumption DEF Row, Statuses
<1>3. licenses \in [LicenseIds -> Row \cup {None}]
  BY <1>2
<1>4. creds \subseteq Credential
  <2>1. PICK jti \in [Trials -> Jtis] :
          creds = {[jti |-> jti[t], lic |-> t, kid |-> FirstKey, start |-> 0,
                    end |-> InSeconds(TrialEnd), superseded |-> FALSE] : t \in Trials}
    OBVIOUS
  <2>2. InSeconds(TrialEnd) \in Int \cup {None}
    BY InSecondsType, IssuingAssumption
  <2>3. ASSUME NEW t \in Trials
        PROVE  [jti |-> jti[t], lic |-> t, kid |-> FirstKey, start |-> 0,
                end |-> InSeconds(TrialEnd), superseded |-> FALSE] \in Credential
    BY <2>2, IssuingAssumption, KeysAssumption DEF Credential
  <2> QED  BY <2>1, <2>3
<1>5. \A t \in Trials : licenses[t] # None
  BY <1>2, NoRowAssumption, IssuingAssumption
<1>6. tx \in [Sessions -> Transaction \cup {None}] /\ \A s \in Sessions : TransactionSound(s)
  BY DEF TransactionSound
<1> QED  BY <1>1, <1>3, <1>4, <1>5, <1>6 DEF Sound, TypeOK

(* A transaction that begins. *)
LEMMA SoundBegin ==
    ASSUME Sound,
           NEW s \in Sessions, NEW op \in Operations, NEW l \in LicenseIds,
           NEW row \in Row, NEW trial \in Trials \cup {None},
           op \in {"renew", "reissue"} => licenses[l] # None,
           op = "convert" => trial # None,
           Begin(s, op, l, row, trial)
    PROVE  Sound'
<1> DEFINE t == [at |-> "begun", op |-> op, id |-> l, row |-> row, trial |-> trial, key |-> None]
<1>1. t \in Transaction /\ t # None
  BY IssuingAssumption, NoTransactionAssumption DEF Transaction
<1>2. tx' = [tx EXCEPT ![s] = t] /\ licenses' = licenses /\ UNCHANGED <<now, creds, cron, pool, keyVars>>
  BY DEF Begin
<1>3. TypeOK'
  BY <1>1, <1>2 DEF Sound, TypeOK, KeysTypeOK, keyVars
<1>4. ASSUME NEW r \in Sessions PROVE TransactionSound(r)'
  <2>1. CASE r = s
    BY <1>1, <1>2, <2>1 DEF Sound, TypeOK, TransactionSound
  <2>2. CASE r # s
    BY <1>2, <2>2 DEF Sound, TypeOK, TransactionSound
  <2> QED  BY <2>1, <2>2
<1> QED  BY <1>2, <1>3, <1>4 DEF Sound

(* Every request begins a transaction whose row has its type. *)
LEMMA SoundRequest ==
    ASSUME Sound, NEW s \in Sessions, Request(s) PROVE Sound'
<1>1. ASSUME NEW l \in LicenseIds, NEW start \in Starts, NEW end \in Ends,
             NEW trial \in Trials \cup {None}, Issue(s, l, start, end, trial)
      PROVE  Sound'
  <2>1. NewRow(start, end) \in Row
    <3>1. start \in Int /\ end \in Int \cup {None}
      BY IssuingAssumption
    <3>2. now \in Int
      BY DEF Sound, TypeOK
    <3> QED  BY <3>1, <3>2, RowType DEF NewRow
  <2>2. CASE trial = None
    BY <1>1, <2>1, <2>2, SoundBegin DEF Issue, Operations
  <2>3. CASE trial # None
    BY <1>1, <2>1, <2>3, SoundBegin DEF Issue, Operations
  <2> QED  BY <2>2, <2>3
<1>2. ASSUME NEW l \in LicenseIds, NEW end \in Ends, Renew(s, l, end)
      PROVE  Sound'
  <2>1. licenses[l] \in Row
    BY <1>2 DEF Renew, Sound, TypeOK
  <2>2. DeriveStatus(licenses[l].start, end, now) \in Statuses /\ end \in Int \cup {None}
    BY IssuingAssumption DEF DeriveStatus, Statuses
  <2>3. Renewed(licenses[l], end) \in Row
    BY <2>1, <2>2, RowUpdated DEF Renewed
  <2> QED  BY <1>2, <2>3, SoundBegin DEF Renew, Operations
<1>3. ASSUME NEW l \in LicenseIds, Reissue(s, l)
      PROVE  Sound'
  <2>1. licenses[l] \in Row
    BY <1>3 DEF Reissue, Sound, TypeOK
  <2> QED  BY <1>3, <2>1, SoundBegin DEF Reissue, Operations
<1> QED  BY <1>1, <1>2, <1>3 DEF Request

(* The row made when the number is drawn has the dates of the request. *)
LEMMA PreparedRow ==
    ASSUME Sound, NEW s \in Sessions, tx[s] \in Transaction PROVE Prepared(s) \in Row
<1>1. tx[s].row \in Row
  BY DEF Transaction
<1>2. tx[s].row.start \in Int /\ tx[s].row.end \in Int \cup {None} /\ now \in Int
  BY <1>1 DEF Row, Sound, TypeOK
<1>3. NewRow(tx[s].row.start, tx[s].row.end) \in Row
  BY <1>2, RowType DEF NewRow
<1> QED  BY <1>1, <1>3 DEF Prepared

(* A step of a transaction before it commits. *)
LEMMA SoundLockOrKey ==
    ASSUME Sound, NEW s \in Sessions, Lock(s) \/ ReadKey(s) PROVE Sound'
<1>1. tx[s] \in Transaction /\ tx[s] # None
  BY DEF Sound, TypeOK, Lock, ReadKey, Busy
<1>2. PICK t \in Transaction :
        /\ tx' = [tx EXCEPT ![s] = t]
        /\ t.op = tx[s].op /\ t.id = tx[s].id /\ t.trial = tx[s].trial
        /\ t.at = "signing" => t.key \in Kids
  <2>1. CASE Lock(s)
    <3>1. tx' = [tx EXCEPT ![s] = [tx[s] EXCEPT !.at = "locked", !.row = Prepared(s)]]
      BY <2>1, <1>1 DEF Lock, Sound, TypeOK
    <3>2. Prepared(s) \in Row
      BY <1>1, PreparedRow
    <3>3. /\ [tx[s] EXCEPT !.at = "locked", !.row = Prepared(s)] \in Transaction
          /\ [tx[s] EXCEPT !.at = "locked", !.row = Prepared(s)].op = tx[s].op
          /\ [tx[s] EXCEPT !.at = "locked", !.row = Prepared(s)].id = tx[s].id
          /\ [tx[s] EXCEPT !.at = "locked", !.row = Prepared(s)].trial = tx[s].trial
          /\ [tx[s] EXCEPT !.at = "locked", !.row = Prepared(s)].at = "locked"
      BY <1>1, <3>2 DEF Transaction
    <3> QED  BY <3>1, <3>3
  <2>2. CASE ReadKey(s)
    <3>1. PICK k \in ActiveKeys : tx' = [tx EXCEPT ![s].at = "signing", ![s].key = k]
      BY <2>2 DEF ReadKey
    <3>2. tx' = [tx EXCEPT ![s] = [tx[s] EXCEPT !.at = "signing", !.key = k]] /\ k \in Kids
      BY <3>1 DEF ActiveKeys, Sound, TypeOK
    <3>3. /\ [tx[s] EXCEPT !.at = "signing", !.key = k] \in Transaction
          /\ [tx[s] EXCEPT !.at = "signing", !.key = k].op = tx[s].op
          /\ [tx[s] EXCEPT !.at = "signing", !.key = k].id = tx[s].id
          /\ [tx[s] EXCEPT !.at = "signing", !.key = k].trial = tx[s].trial
          /\ [tx[s] EXCEPT !.at = "signing", !.key = k].key = k
      BY <1>1, <3>2 DEF Transaction
    <3> QED  BY <3>2, <3>3
  <2> QED  BY <2>1, <2>2
<1>3. UNCHANGED <<now, licenses, creds, cron, pool, keyVars>>
  BY DEF Lock, ReadKey
<1>4. t # None
  BY NoTransactionAssumption
<1>5. TypeOK'
  BY <1>2, <1>3, <1>4 DEF Sound, TypeOK, KeysTypeOK, keyVars
<1>6. ASSUME NEW r \in Sessions PROVE TransactionSound(r)'
  <2>1. CASE r = s
    <3>1. tx'[s] = t
      BY <1>2 DEF Sound, TypeOK
    <3> QED  BY <1>1, <1>2, <1>3, <2>1, <3>1 DEF Sound, TransactionSound
  <2>2. CASE r # s
    BY <1>2, <1>3, <2>2 DEF Sound, TypeOK, TransactionSound
  <2> QED  BY <2>1, <2>2
<1> QED  BY <1>3, <1>5, <1>6 DEF Sound

(* What a transaction leaves in the rows: rows, and no license without one. *)
LEMMA WrittenRows ==
    ASSUME Sound, NEW s \in Sessions, tx[s] # None, tx[s].at = "signing"
    PROVE  /\ Written(s) \in [LicenseIds -> Row \cup {None}]
           /\ \A l \in LicenseIds : licenses[l] # None => Written(s)[l] # None
<1>1. tx[s] \in Transaction
  BY DEF Sound, TypeOK
<1>2. /\ tx[s].row \in Row /\ tx[s].row # None
      /\ tx[s].row.end \in Int \cup {None} /\ tx[s].row.status \in Statuses
      /\ tx[s].id \in LicenseIds
  BY <1>1, NoRowAssumption DEF Transaction, Row
<1>3. licenses \in [LicenseIds -> Row \cup {None}]
  BY DEF Sound, TypeOK
<1>4. CASE tx[s].op = "issue"
  BY <1>2, <1>3, <1>4 DEF Written
<1>5. CASE tx[s].op = "convert"
  <2>1. tx[s].trial \in LicenseIds /\ licenses[tx[s].trial] # None
    BY <1>5, IssuingAssumption DEF Sound, TransactionSound
  <2> DEFINE W == [licenses EXCEPT ![tx[s].id] = tx[s].row]
  <2>2. W \in [LicenseIds -> Row \cup {None}] /\ W[tx[s].trial] \in Row
    BY <1>2, <1>3, <2>1
  <2>3. [W[tx[s].trial] EXCEPT !.status = "void"] \in Row
    BY <2>2 DEF Row, Statuses
  <2>4. Written(s) = [W EXCEPT ![tx[s].trial] = [W[tx[s].trial] EXCEPT !.status = "void"]]
    BY <1>5, <2>1, <2>2 DEF Written
  <2> DEFINE v == [W[tx[s].trial] EXCEPT !.status = "void"]
  <2>5. \A l \in LicenseIds : licenses[l] # None => W[l] # None
    BY <1>2, <1>3
  <2> HIDE DEF W, v
  <2>6. v \in Row /\ v # None
    BY <2>3, NoRowAssumption DEF v
  <2> QED  BY <2>2, <2>4, <2>5, <2>6 DEF v
<1>6. CASE tx[s].op = "renew"
  <2>1. licenses[tx[s].id] \in Row
    BY <1>2, <1>3, <1>6 DEF Sound, TransactionSound
  <2> DEFINE R == Patched(licenses[tx[s].id], tx[s].row.end, tx[s].row.status)
  <2>2. R \in Row
    BY <1>2, <2>1, RowUpdated
  <2>3. Written(s) = [licenses EXCEPT ![tx[s].id] = R]
    BY <1>2, <1>3, <1>6 DEF Written
  <2> HIDE DEF R
  <2> QED  BY <1>2, <1>3, <2>2, <2>3, NoRowAssumption
<1>7. CASE tx[s].op = "reissue"
  BY <1>3, <1>7 DEF Written
<1> QED  BY <1>1, <1>4, <1>5, <1>6, <1>7 DEF Transaction, Operations

(* A signed credential has its type, and so have those it supersedes. *)
LEMMA SignedTyped ==
    ASSUME Sound, NEW s \in Sessions, tx[s] # None, tx[s].at = "signing", NEW jti \in Jtis
    PROVE  Signed(s, jti) \in Credential /\ WithNew(Signed(s, jti)) \subseteq Credential
<1>1. tx[s] \in Transaction
  BY DEF Sound, TypeOK
<1>2. tx[s].key \in Kids
  BY DEF Sound, TransactionSound
<1>3. tx[s].id \in LicenseIds /\ tx[s].row.start \in Int /\ tx[s].row.end \in Int \cup {None}
  BY <1>1 DEF Transaction, Row
<1>4. Signed(s, jti) \in Credential
  BY <1>2, <1>3, InSecondsType, InSecondsOfTime DEF Signed, Credential
<1>5. \A c \in creds : [c EXCEPT !.superseded = TRUE] \in Credential /\ c \in Credential
  BY DEF Sound, TypeOK, Credential
<1> QED  BY <1>4, <1>5 DEF WithNew

(* A commit leaves sound rows and credentials. *)
LEMMA SoundCommit ==
    ASSUME Sound, NEW s \in Sessions, Commit(s) PROVE Sound'
<1>1. tx[s] # None /\ tx[s].at = "signing"
  BY DEF Commit, Busy
<1>2. licenses' = Written(s) /\ tx' = [tx EXCEPT ![s] = None] /\ UNCHANGED <<now, cron, pool, keyVars>>
  BY DEF Commit
<1>3. creds' \subseteq Credential
  BY <1>1, SignedTyped DEF Commit
<1>4. /\ licenses' \in [LicenseIds -> Row \cup {None}]
      /\ \A l \in LicenseIds : licenses[l] # None => licenses'[l] # None
  BY <1>1, <1>2, WrittenRows
<1>5. TypeOK'
  BY <1>2, <1>3, <1>4 DEF Sound, TypeOK, KeysTypeOK, keyVars
<1>6. ASSUME NEW r \in Sessions PROVE TransactionSound(r)'
  <2>1. tx'[r] = IF r = s THEN None ELSE tx[r]
    BY <1>2 DEF Sound, TypeOK
  <2>2. ASSUME tx'[r] # None PROVE tx'[r] = tx[r] /\ tx[r] \in Transaction
    BY <2>1, <2>2 DEF Sound, TypeOK
  <2> QED  BY <2>2, <1>4 DEF Sound, TransactionSound, Transaction
<1> QED  BY <1>4, <1>5, <1>6, IssuingAssumption DEF Sound

(* The updates outside the transactions. *)
Sweep ==
    (\E l \in LicenseIds : VoidLicense(l)) \/ StartRefresh \/ RefreshActive \/ RefreshExpired
       \/ FailRefresh

(* They keep every row a row. *)
LEMMA SoundRefresh ==
    ASSUME Sound, Sweep PROVE Sound'
<1>1. licenses \in [LicenseIds -> Row \cup {None}]
  BY DEF Sound, TypeOK
<1>2. ASSUME NEW l \in LicenseIds, NEW st \in Statuses, licenses[l] # None
      PROVE  [licenses[l] EXCEPT !.status = st] \in Row
  BY <1>1, <1>2 DEF Row
<1>3. /\ licenses' \in [LicenseIds -> Row \cup {None}]
      /\ \A l \in LicenseIds : licenses[l] # None => licenses'[l] # None
  <2>1. CASE \E l \in LicenseIds : VoidLicense(l)
    <3>1. PICK l \in LicenseIds : VoidLicense(l)
      BY <2>1
    <3>2. licenses' = [licenses EXCEPT ![l] = [licenses[l] EXCEPT !.status = "void"]]
      BY <1>1, <3>1 DEF VoidLicense
    <3>3. [licenses[l] EXCEPT !.status = "void"] \in Row
      BY <1>2, <3>1 DEF VoidLicense, Statuses
    <3> QED  BY <1>1, <3>2, <3>3, NoRowAssumption
  <2>2. CASE RefreshActive
    <3>1. \A l \in LicenseIds : licenses[l] # None =>
            [licenses[l] EXCEPT !.status = "active"] \in Row
      BY <1>2 DEF Statuses
    <3> QED  BY <1>1, <2>2, <3>1, NoRowAssumption DEF RefreshActive
  <2>3. CASE RefreshExpired
    <3>1. \A l \in LicenseIds : licenses[l] # None =>
            [licenses[l] EXCEPT !.status = "expired"] \in Row
      BY <1>2 DEF Statuses
    <3> QED  BY <1>1, <2>3, <3>1, NoRowAssumption DEF RefreshExpired
  <2>4. CASE StartRefresh \/ FailRefresh
    BY <1>1, <2>4 DEF StartRefresh, FailRefresh
  <2> QED  BY <2>1, <2>2, <2>3, <2>4 DEF Sweep
<1>4. UNCHANGED <<now, creds, tx, pool, keyVars>> /\ cron' \in Refresh \cup {None}
  BY DEF Sweep, VoidLicense, StartRefresh, RefreshActive, RefreshExpired, FailRefresh,
         Sound, TypeOK, Refresh
<1>5. TypeOK'
  BY <1>3, <1>4 DEF Sound, TypeOK, KeysTypeOK, keyVars
<1>6. ASSUME NEW r \in Sessions PROVE TransactionSound(r)'
  <2>1. tx[r] # None => tx[r].id \in LicenseIds
    BY DEF Sound, TypeOK, Transaction
  <2> QED  BY <1>3, <1>4, <2>1 DEF Sound, TransactionSound
<1> QED  BY <1>3, <1>5, <1>6, IssuingAssumption DEF Sound

(* Every step keeps the tables and transactions sound. *)
LEMMA SoundStep ==
    ASSUME Sound, [Next]_vars PROVE Sound'
<1>1. ASSUME NEW s \in Sessions, Request(s) PROVE Sound'
  BY <1>1, SoundRequest
<1>2. ASSUME NEW s \in Sessions, Lock(s) \/ ReadKey(s) PROVE Sound'
  BY <1>2, SoundLockOrKey
<1>3. ASSUME NEW s \in Sessions, Commit(s) PROVE Sound'
  BY <1>3, SoundCommit
<1>4. ASSUME NEW s \in Sessions, RollBack(s) PROVE Sound'
  <2>1. tx' = [tx EXCEPT ![s] = None] /\ UNCHANGED <<now, licenses, creds, cron, pool, keyVars>>
    BY <1>4 DEF RollBack
  <2>2. TypeOK'
    BY <2>1 DEF Sound, TypeOK, KeysTypeOK, keyVars
  <2>3. \A r \in Sessions : TransactionSound(r)'
    BY <2>1 DEF Sound, TypeOK, TransactionSound
  <2> QED  BY <2>1, <2>2, <2>3 DEF Sound
<1>5. CASE Sweep
  BY <1>5, SoundRefresh
<1>6. CASE Tick
  BY <1>6 DEF Tick, Sound, TypeOK, KeysTypeOK, TransactionSound, keyVars
<1>7. CASE KeyStep /\ UNCHANGED issuingVars
  BY <1>7, KeysTyped DEF Sound, TypeOK, TransactionSound, issuingVars
<1>8. CASE UNCHANGED vars
  BY <1>8 DEF Sound, TypeOK, KeysTypeOK, TransactionSound, vars, issuingVars, keyVars
<1> QED  BY <1>1, <1>2, <1>3, <1>4, <1>5, <1>6, <1>7, <1>8 DEF Next, Sweep

(* Types: whatever the requests, owners and failures, every row, every     *)
(* credential and every transaction stays well formed; in particular no    *)
(* credential is signed without a key.                                     *)
THEOREM TypeCorrect == Spec => []TypeOK
<1>1. Sound => TypeOK
  BY DEF Sound
<1> QED  BY SoundAtStart, SoundStep, <1>1, PTL DEF Spec

-----------------------------------------------------------------------------
(* A key is known to every client from the moment an owner decides to      *)
(* activate it: so is every active key, every key a transaction has read,  *)
(* and every key that signed.                                              *)
TakesOver == {"demote", "promote", "demoteForImport", "insertActive"}

KeysShipped ==
    /\ \A k \in Kids : keys[k] = "active" => k \in deployed
    /\ \A a \in KeyAdmins : keyOp[a].step \in TakesOver => keyOp[a].kid \in deployed

SigningSound ==
    /\ KeysShipped
    /\ \A s \in Sessions : tx[s] # None /\ tx[s].key # None => tx[s].key \in deployed
    /\ SignedWithDeployedKey

(* However the owners' statements interleave. *)
LEMMA KeysStayShipped ==
    ASSUME KeysTypeOK, KeysShipped, KeyStep
    PROVE  KeysShipped' /\ deployed \subseteq deployed'
<1> USE DEF KeysTypeOK, KeysShipped, TakesOver
<1>1. ASSUME NEW a \in KeyAdmins, NEW k \in Kids,
             Create(a, k) \/ Import(a, k) \/ Activate(a, k) \/ Retire(a, k)
      PROVE  KeysShipped' /\ deployed \subseteq deployed'
  <2>1. CASE Create(a, k)  BY <2>1 DEF Create
  <2>2. CASE Import(a, k)  BY <2>2 DEF Import, Goto
  <2>3. CASE Activate(a, k)  BY <2>3 DEF Activate, Goto
  <2>4. CASE Retire(a, k)  BY <2>4 DEF Retire, Goto
  <2> QED  BY <1>1, <2>1, <2>2, <2>3, <2>4
<1>2. ASSUME NEW a \in KeyAdmins,
             Demote(a) \/ Promote(a) \/ Insert(a) \/ FinishRetire(a) \/ Abandon(a)
      PROVE  KeysShipped' /\ deployed \subseteq deployed'
  <2>1. CASE Demote(a)  BY <2>1 DEF Demote, Goto
  <2>2. CASE Promote(a)  BY <2>2 DEF Promote, Finish
  <2>3. CASE Insert(a)  BY <2>3 DEF Insert, Finish
  <2>4. CASE FinishRetire(a)  BY <2>4 DEF FinishRetire, Finish
  <2>5. CASE Abandon(a)  BY <2>5 DEF Abandon, Finish
  <2> QED  BY <1>2, <2>1, <2>2, <2>3, <2>4, <2>5
<1>3. CASE RollOut  BY <1>3 DEF RollOut
<1> QED  BY <1>1, <1>2, <1>3 DEF KeyStep

(* The first key is shipped with the first clients. *)
LEMMA SigningSoundAtStart == Init => SigningSound
<1> SUFFICES ASSUME Init PROVE SigningSound
  OBVIOUS
<1>1. KeysShipped
  BY KeysAssumption DEF Init, KeysInit, KeysShipped, TakesOver
<1>2. SignedWithDeployedKey
  <2>1. PICK jti \in [Trials -> Jtis] :
          creds = {[jti |-> jti[t], lic |-> t, kid |-> FirstKey, start |-> 0,
                    end |-> InSeconds(TrialEnd), superseded |-> FALSE] : t \in Trials}
    BY DEF Init
  <2> QED  BY <2>1 DEF SignedWithDeployedKey, Init, KeysInit
<1>3. \A s \in Sessions : tx[s] = None
  BY DEF Init
<1> QED  BY <1>1, <1>2, <1>3 DEF SigningSound

(* A key that a transaction holds stays shipped until it has signed. *)
LEMMA SigningSoundStep ==
    ASSUME Sound, SigningSound, [Next]_vars PROVE SigningSound'
<1>1. ASSUME NEW s \in Sessions, Request(s) PROVE SigningSound'
  <2>1. PICK op, l, row, trial : Begin(s, op, l, row, trial)
    BY <1>1 DEF Request, Issue, Renew, Reissue, Operations
  <2> DEFINE t == [at |-> "begun", op |-> op, id |-> l, row |-> row, trial |-> trial,
                   key |-> None]
  <2>2. tx' = [tx EXCEPT ![s] = t] /\ t.key = None /\ UNCHANGED <<creds, pool, keyVars>>
    BY <2>1 DEF Begin
  <2> HIDE DEF t
  <2> QED  BY <2>2 DEF Sound, TypeOK, SigningSound, KeysShipped, SignedWithDeployedKey, keyVars
<1>2. ASSUME NEW s \in Sessions, Lock(s) PROVE SigningSound'
  <2>1. tx[s] \in Transaction /\ tx[s] # None
    BY <1>2 DEF Lock, Busy, Sound, TypeOK
  <2>2. /\ tx' = [tx EXCEPT ![s].at = "locked", ![s].row = Prepared(s)]
        /\ UNCHANGED <<creds, pool, keyVars>>
    BY <1>2 DEF Lock
  <2> DEFINE t == [tx[s] EXCEPT !.at = "locked", !.row = Prepared(s)]
  <2>3. tx' = [tx EXCEPT ![s] = t] /\ t.key = tx[s].key
    BY <2>1, <2>2 DEF Sound, TypeOK, Transaction
  <2> HIDE DEF t
  <2>4. \A r \in Sessions : tx'[r] # None => tx[r] # None /\ tx'[r].key = tx[r].key
    BY <2>1, <2>3 DEF Sound, TypeOK
  <2>5. UNCHANGED <<creds, pool, keyVars>>
    BY <2>2
  <2> QED  BY <2>4, <2>5 DEF SigningSound, KeysShipped, SignedWithDeployedKey, keyVars
<1>3. ASSUME NEW s \in Sessions, ReadKey(s) PROVE SigningSound'
  <2>1. tx[s] \in Transaction /\ tx[s] # None
    BY <1>3 DEF ReadKey, Busy, Sound, TypeOK
  <2>2. PICK k \in ActiveKeys : tx' = [tx EXCEPT ![s].at = "signing", ![s].key = k]
    BY <1>3 DEF ReadKey
  <2>3. k \in deployed /\ UNCHANGED <<creds, pool, keyVars>>
    BY <1>3, <2>2 DEF ReadKey, ActiveKeys, SigningSound, KeysShipped
  <2>4. \A r \in Sessions : tx'[r] # None =>
           \/ tx'[r].key = k
           \/ tx[r] # None /\ tx'[r].key = tx[r].key
    BY <2>1, <2>2 DEF Sound, TypeOK, Transaction
  <2> QED  BY <2>3, <2>4 DEF SigningSound, KeysShipped, SignedWithDeployedKey, keyVars
<1>4. ASSUME NEW s \in Sessions, Commit(s) PROVE SigningSound'
  <2>1. tx[s] # None /\ tx[s].at = "signing"
    BY <1>4 DEF Commit, Busy
  <2>2. tx[s].key \in deployed
    BY <2>1, IssuingAssumption DEF Sound, TransactionSound, SigningSound
  <2>3. PICK jti \in Jtis : creds' = WithNew(Signed(s, jti))
    BY <1>4 DEF Commit
  <2>4. \A c \in creds : [c EXCEPT !.superseded = TRUE].kid = c.kid
    BY DEF Sound, TypeOK, Credential
  <2>5. Signed(s, jti).kid = tx[s].key
    BY DEF Signed
  <2>6. tx' = [tx EXCEPT ![s] = None] /\ UNCHANGED keyVars
    BY <1>4 DEF Commit
  <2>7. \A c \in creds' : c.kid \in deployed
    BY <2>2, <2>3, <2>4, <2>5 DEF WithNew, SigningSound, SignedWithDeployedKey
  <2> QED  BY <2>6, <2>7 DEF Sound, TypeOK, SigningSound, KeysShipped, SignedWithDeployedKey, keyVars
<1>5. ASSUME NEW s \in Sessions, RollBack(s) PROVE SigningSound'
  BY <1>5 DEF RollBack, Sound, TypeOK, SigningSound, KeysShipped, SignedWithDeployedKey, keyVars
<1>6. CASE Sweep \/ Tick \/ UNCHANGED vars
  <2>1. UNCHANGED <<creds, tx, pool, keyVars>>
    BY <1>6 DEF Sweep, VoidLicense, StartRefresh, RefreshActive, RefreshExpired, FailRefresh,
                Tick, vars, issuingVars
  <2> QED  BY <2>1 DEF SigningSound, KeysShipped, SignedWithDeployedKey, keyVars
<1>7. CASE KeyStep /\ UNCHANGED issuingVars
  <2>1. KeysShipped' /\ deployed \subseteq deployed'
    BY <1>7, KeysStayShipped DEF Sound, TypeOK, SigningSound
  <2> QED  BY <1>7, <2>1 DEF SigningSound, SignedWithDeployedKey, issuingVars
<1> QED  BY <1>1, <1>2, <1>3, <1>4, <1>5, <1>6, <1>7 DEF Next, Sweep

(* Whatever is signed is signed with a key every client trusts, for any    *)
(* number of owners activating, importing and retiring keys at once and    *)
(* giving up anywhere: it is enough that each activates, as the service    *)
(* tells him to, only what was shipped.                                    *)
THEOREM SignaturesTrusted == Spec => []SignedWithDeployedKey
<1>1. SigningSound => SignedWithDeployedKey
  BY DEF SigningSound
<1> QED  BY SoundAtStart, SoundStep, SigningSoundAtStart, SigningSoundStep, <1>1, PTL DEF Spec

-----------------------------------------------------------------------------
(* Requests wait for locks and for connections, and a request that holds   *)
(* what another waits for has passed its own lock.                         *)

(* A transaction begins when a connection is free, and keeps it: the pool  *)
(* never lends more than it has.                                           *)
Lent == Cardinality(Busy) <= pool

(* The requests that run at once are finitely many. *)
LEMMA BusyCounted ==
    ASSUME IsFiniteSet(Sessions), Sound
    PROVE  /\ IsFiniteSet(Busy) /\ IsFiniteSet(Busy') /\ Cardinality(Busy) \in Nat
           /\ pool \in Nat
<1>1. Busy \subseteq Sessions /\ Busy' \subseteq Sessions
  BY DEF Busy
<1> QED
  BY <1>1, FS_Subset, FS_CardinalityType, IssuingAssumption DEF Sound, TypeOK

(* Only the start of a transaction makes one more request busy. *)
LEMMA LentStep ==
    ASSUME IsFiniteSet(Sessions), Sound, Lent, [Next]_vars
    PROVE  Lent'
<1>1. pool' = pool
  BY DEF Next, Request, Issue, Renew, Reissue, Begin, Lock, ReadKey, Commit, RollBack,
     VoidLicense, StartRefresh, RefreshActive, RefreshExpired, FailRefresh, Tick,
     issuingVars, vars
<1>2. CASE Busy' \subseteq Busy
  <2>1. Cardinality(Busy') <= Cardinality(Busy) /\ Cardinality(Busy') \in Nat
    BY <1>2, BusyCounted, FS_Subset, FS_CardinalityType
  <2> QED
    BY <1>1, <2>1, BusyCounted DEF Lent
<1>3. ASSUME NEW s \in Sessions, Busy' \subseteq Busy \cup {s}, Free > 0
      PROVE  Lent'
  <2>1. /\ Cardinality(Busy \cup {s}) <= Cardinality(Busy) + 1
        /\ IsFiniteSet(Busy \cup {s}) /\ Cardinality(Busy \cup {s}) \in Nat
    <3>1. IsFiniteSet(Busy) /\ Cardinality(Busy) \in Nat
      BY BusyCounted
    <3>2. IsFiniteSet(Busy \cup {s})
          /\ Cardinality(Busy \cup {s}) = IF s \in Busy THEN Cardinality(Busy)
                                          ELSE Cardinality(Busy) + 1
      BY <3>1, FS_AddElement
    <3> QED
      BY <3>1, <3>2
  <2>2. Cardinality(Busy') <= Cardinality(Busy \cup {s}) /\ Cardinality(Busy') \in Nat
    BY <1>3, <2>1, FS_Subset, FS_CardinalityType
  <2> QED
    BY <1>1, <1>3, <2>1, <2>2, BusyCounted DEF Lent, Free, Connections
<1>4. ASSUME NEW s \in Sessions, Request(s)
      PROVE  Busy' \subseteq Busy \cup {s} /\ Free > 0
  BY <1>4 DEF Request, Issue, Renew, Reissue, Begin, Busy, Sound, TypeOK
<1>5. ASSUME NEW s \in Sessions, Lock(s) \/ ReadKey(s) \/ Commit(s) \/ RollBack(s)
      PROVE  Busy' \subseteq Busy
  BY <1>5 DEF Lock, ReadKey, Commit, RollBack, Busy, Sound, TypeOK
<1>6. CASE tx' = tx
  BY <1>2, <1>6 DEF Busy
<1>7. CASE Next
  BY <1>2, <1>3, <1>4, <1>5, <1>6, <1>7 DEF Next, VoidLicense, StartRefresh, RefreshActive,
     RefreshExpired, FailRefresh, Tick, issuingVars
<1>8. CASE UNCHANGED vars
  BY <1>6, <1>8 DEF vars, issuingVars
<1> QED
  BY <1>7, <1>8

(* At the start nobody has a connection. *)
LEMMA LentAtStart == ASSUME Init PROVE Lent
<1>1. Busy = {} /\ pool \in Nat
  BY IssuingAssumption DEF Init, Busy
<1> QED
  BY <1>1, FS_EmptySet DEF Lent

(* However many requests, licenses and connections: requests hang only     *)
(* when all connections of the pool are theirs.                            *)
THEOREM HangNeedsExhaustion ==
    ASSUME IsFiniteSet(Sessions)
    PROVE  Spec => []HangsOnlyWhenExhausted
<1>1. ASSUME Sound, Lent, Hang PROVE Cardinality(Busy) = pool
  <2>1. PICK s \in Busy : TRUE
    BY <1>1 DEF Hang
  <2>2. PICK r \in Busy : ~WaitsForLock(r)
    <3>1. CASE ~WaitsForLock(s)
      BY <3>1
    <3>2. CASE WaitsForLock(s)
      BY <3>2 DEF WaitsForLock, HasLock
    <3> QED
      BY <3>1, <3>2
  <2>3. Free <= 0
    BY <1>1, <2>2 DEF Hang
  <2> QED
    BY <1>1, <2>3, BusyCounted DEF Lent, Free, Connections
<1>2. Sound /\ Lent => HangsOnlyWhenExhausted
  BY <1>1 DEF HangsOnlyWhenExhausted
<1>3. Sound /\ Lent /\ [Next]_vars => Lent'
  BY LentStep
<1> QED
  BY SoundAtStart, SoundStep, LentAtStart, <1>2, <1>3, PTL DEF Spec

-----------------------------------------------------------------------------
(* What makes a transaction's stale copy of a row safe to write: nobody    *)
(* else works on a license that is being issued, a start date never        *)
(* changes, and a status only becomes truer as time passes.                *)
CopySound(s) ==
    tx[s] # None =>
        /\ tx[s].op \in {"issue", "convert"} =>
              /\ licenses[tx[s].id] = None
              /\ \A r \in Sessions \ {s} : tx[r] # None => tx[r].id # tx[s].id
        /\ tx[s].op = "renew" => tx[s].row.start = licenses[tx[s].id].start
        /\ StatusOf(tx[s].row, now)

(* The refresh runs for a time that has been. *)
RefreshSound == cron # None => cron.at <= now

CopiesSound ==
    /\ StatusNotEarly
    /\ \A s \in Sessions : CopySound(s)
    /\ RefreshSound

(* A status that is derived agrees with the dates. *)
LEMMA DerivedStatus ==
    ASSUME NEW start \in Int, NEW end \in Int \cup {None}, NEW t \in Int,
           NEW row, row.start = start, row.end = end, row.status = DeriveStatus(start, end, t)
    PROVE  StatusOf(row, t)
BY DEF StatusOf, DeriveStatus, Over

(* A status that agrees with the dates does so later, too. *)
LEMMA StatusLasts ==
    ASSUME NEW row \in Row, NEW t \in Int, NEW u \in Int, t <= u, StatusOf(row, t)
    PROVE  StatusOf(row, u)
BY TermAssumption DEF StatusOf, Over, Row

(* What a commit does to each row. *)
LEMMA Committed ==
    ASSUME Sound, NEW s \in Sessions, CopySound(s), Commit(s), NEW l \in LicenseIds
    PROVE  /\ licenses'[l] # None => l = tx[s].id \/ licenses[l] # None
           /\ l # tx[s].id /\ licenses[l] # None =>
                 /\ licenses'[l].end = licenses[l].end
                 /\ licenses'[l].start = licenses[l].start
                 /\ licenses'[l].status \in {licenses[l].status, "void"}
           /\ l = tx[s].id =>
                 \/ tx[s].op = "reissue" /\ licenses'[l] = licenses[l]
                 \/ /\ tx[s].op # "reissue"
                    /\ licenses'[l].start = tx[s].row.start
                    /\ licenses'[l].end = tx[s].row.end
                    /\ licenses'[l].status = tx[s].row.status
<1>1. /\ tx[s] \in Transaction /\ tx[s] # None /\ tx[s].at = "signing"
      /\ licenses' = Written(s) /\ licenses \in [LicenseIds -> Row \cup {None}]
  BY DEF Commit, Busy, Sound, TypeOK
<1>2. tx[s].row \in Row /\ tx[s].id \in LicenseIds
  BY <1>1 DEF Transaction
<1>3. CASE tx[s].op = "issue"
  BY <1>1, <1>2, <1>3 DEF Written
<1>4. CASE tx[s].op = "convert"
  <2>1. tx[s].trial \in LicenseIds /\ licenses[tx[s].trial] # None
    BY <1>1, <1>4, IssuingAssumption DEF Sound, TransactionSound
  <2>2. tx[s].trial # tx[s].id
    BY <1>1, <1>4, <2>1 DEF CopySound
  <2> DEFINE V == [licenses[tx[s].trial] EXCEPT !.status = "void"]
  <2>3. V.end = licenses[tx[s].trial].end /\ V.start = licenses[tx[s].trial].start
        /\ V.status = "void"
    BY <1>1, <2>1 DEF Row
  <2>4. licenses' = [[licenses EXCEPT ![tx[s].id] = tx[s].row] EXCEPT ![tx[s].trial] = V]
    BY <1>1, <1>2, <1>4, <2>1, <2>2 DEF Written
  <2> HIDE DEF V
  <2>5. CASE l = tx[s].trial
    BY <1>1, <1>2, <2>1, <2>2, <2>3, <2>4, <2>5
  <2>6. CASE l # tx[s].trial
    BY <1>1, <1>2, <1>4, <2>1, <2>2, <2>4, <2>6
  <2> QED  BY <2>5, <2>6
<1>5. CASE tx[s].op = "renew"
  <2>1. licenses[tx[s].id] \in Row
    BY <1>1, <1>2, <1>5 DEF Sound, TransactionSound
  <2> DEFINE R == Patched(licenses[tx[s].id], tx[s].row.end, tx[s].row.status)
  <2>2. R.start = tx[s].row.start /\ R.end = tx[s].row.end /\ R.status = tx[s].row.status
    <3>1. tx[s].row.end \in Int \cup {None} /\ tx[s].row.status \in Statuses
      BY <1>2 DEF Row
    <3>2. /\ R.start = licenses[tx[s].id].start
          /\ R.end = tx[s].row.end /\ R.status = tx[s].row.status
      <4> DEFINE r == licenses[tx[s].id]  e == tx[s].row.end  st == tx[s].row.status
      <4>1. r \in Row /\ e \in Int \cup {None} /\ st \in Statuses
        BY <2>1, <3>1
      <4> HIDE DEF r, e, st
      <4>2. /\ Patched(r, e, st).start = r.start
            /\ Patched(r, e, st).end = e /\ Patched(r, e, st).status = st
        BY <4>1, RowUpdated
      <4> QED  BY <4>2 DEF r, e, st
    <3> HIDE DEF R
    <3> QED  BY <1>1, <1>5, <3>2 DEF CopySound
  <2>3. licenses' = [licenses EXCEPT ![tx[s].id] = R]
    BY <1>1, <1>2, <1>5 DEF Written
  <2> HIDE DEF R
  <2> QED  BY <1>1, <1>2, <1>5, <2>1, <2>2, <2>3, NoRowAssumption
<1>6. CASE tx[s].op = "reissue"
  BY <1>1, <1>6, NoTransactionAssumption DEF Written, Sound, TransactionSound
<1> QED  BY <1>1, <1>3, <1>4, <1>5, <1>6 DEF Transaction, Operations

(* The updates outside the transactions change no date. *)
LEMMA DatesStay ==
    ASSUME Sound, RefreshSound, Sweep, NEW l \in LicenseIds
    PROVE  /\ licenses'[l] # None <=> licenses[l] # None
           /\ licenses[l] # None =>
                 /\ licenses'[l].start = licenses[l].start
                 /\ licenses'[l].end = licenses[l].end
           /\ licenses[l] # None /\ StatusOf(licenses[l], now) => StatusOf(licenses'[l], now)
<1>1. licenses \in [LicenseIds -> Row \cup {None}]
  BY DEF Sound, TypeOK
<1>2. ASSUME NEW st \in Statuses, licenses[l] # None
      PROVE  /\ [licenses[l] EXCEPT !.status = st].start = licenses[l].start
             /\ [licenses[l] EXCEPT !.status = st].end = licenses[l].end
             /\ [licenses[l] EXCEPT !.status = st].status = st
             /\ [licenses[l] EXCEPT !.status = st] # None
  BY <1>1, <1>2, NoRowAssumption DEF Row
<1>3. CASE \E k \in LicenseIds : VoidLicense(k)
  <2>1. PICK k \in LicenseIds : VoidLicense(k)
    BY <1>3
  <2>2. licenses' = [licenses EXCEPT ![k] = [licenses[k] EXCEPT !.status = "void"]]
        /\ licenses[k] # None
    BY <1>1, <2>1 DEF VoidLicense
  <2>3. CASE l = k
    <3>1. licenses'[l] = [licenses[l] EXCEPT !.status = "void"]
      BY <1>1, <2>2, <2>3
    <3> QED  BY <1>2, <2>2, <2>3, <3>1 DEF StatusOf, Statuses
  <2>4. CASE l # k
    BY <1>1, <2>2, <2>4
  <2> QED  BY <2>3, <2>4
<1>4. CASE RefreshActive
  <2>1. \/ licenses'[l] = licenses[l]
        \/ /\ licenses[l] # None /\ licenses[l].start <= now
           /\ licenses'[l] = [licenses[l] EXCEPT !.status = "active"]
    <3>1. cron \in Refresh /\ cron.at <= now /\ cron.at \in Int /\ now \in Int
      BY <1>4 DEF RefreshActive, RefreshSound, Sound, TypeOK, Refresh
    <3>2. licenses[l] # None => licenses[l].start \in Int
      BY <1>1 DEF Row
    <3> QED  BY <1>4, <3>1, <3>2 DEF RefreshActive
  <2> QED  BY <1>2, <2>1 DEF StatusOf, Statuses
<1>5. CASE RefreshExpired
  <2>1. \/ licenses'[l] = licenses[l]
        \/ /\ licenses[l] # None /\ Over(licenses[l].end, now)
           /\ licenses'[l] = [licenses[l] EXCEPT !.status = "expired"]
    <3>1. cron \in Refresh /\ cron.at <= now /\ cron.at \in Int /\ now \in Int
      BY <1>5 DEF RefreshExpired, RefreshSound, Sound, TypeOK, Refresh
    <3>2. licenses[l] # None => licenses[l].end \in Int \cup {None}
      BY <1>1 DEF Row
    <3>3. licenses[l] # None /\ Over(licenses[l].end, cron.at) => Over(licenses[l].end, now)
      BY <3>1, <3>2, TermAssumption DEF Over
    <3> QED  BY <1>5, <3>3 DEF RefreshExpired
  <2> QED  BY <1>2, <2>1 DEF StatusOf, Statuses
<1>6. CASE StartRefresh \/ FailRefresh
  BY <1>6 DEF StartRefresh, FailRefresh
<1> QED  BY <1>3, <1>4, <1>5, <1>6 DEF Sweep

(* At the start no transaction holds a copy. *)
LEMMA CopiesSoundAtStart == Init => CopiesSound
<1> SUFFICES ASSUME Init PROVE CopiesSound
  OBVIOUS
<1>1. \A s \in Sessions : CopySound(s)
  BY DEF Init, CopySound
<1>2. StatusNotEarly
  BY DEF Init, StatusNotEarly, StatusOf
<1> QED  BY <1>1, <1>2 DEF CopiesSound, Init, RefreshSound

(* A transaction that begins: its row was read, or made, just now. *)
LEMMA CopiesSoundBegin ==
    ASSUME Sound, CopiesSound,
           NEW s \in Sessions, NEW op, NEW l \in LicenseIds, NEW row, NEW trial,
           op \in {"issue", "convert"} => Unused(l),
           op \in {"renew", "reissue"} => licenses[l] # None,
           op \in Operations,
           op = "renew" => row.start = licenses[l].start,
           StatusOf(row, now),
           Begin(s, op, l, row, trial)
    PROVE  CopiesSound'
<1> DEFINE t == [at |-> "begun", op |-> op, id |-> l, row |-> row, trial |-> trial, key |-> None]
<1>1. t.op = op /\ t.id = l /\ t.row = row
  OBVIOUS
<1>2. tx' = [tx EXCEPT ![s] = t] /\ UNCHANGED <<now, licenses, cron>> /\ tx[s] = None
  BY DEF Begin
<1> HIDE DEF t
<1>3. \A r \in Sessions : tx'[r] = IF r = s THEN t ELSE tx[r]
  BY <1>2 DEF Sound, TypeOK
<1>4. ASSUME NEW r \in Sessions PROVE CopySound(r)'
  <2>1. CASE r = s
    <3>1. op \in {"issue", "convert"} =>
            licenses[l] = None /\ \A q \in Sessions \ {s} : tx[q] # None => tx[q].id # l
      BY DEF Unused, Busy
    <3> QED  BY <1>1, <1>2, <1>3, <2>1, <3>1 DEF CopySound, StatusOf
  <2>2. CASE r # s
    <3> SUFFICES ASSUME tx[r] # None PROVE CopySound(r)'
      BY <1>3, <2>2 DEF CopySound
    <3>1. tx'[r] = tx[r] /\ CopySound(r)
      BY <1>3, <2>2 DEF CopiesSound
    <3>2. tx[r].op \in {"issue", "convert"} => tx[r].id # l
      <4>1. tx[r].op \in {"issue", "convert"} => licenses[tx[r].id] = None
        BY <3>1 DEF CopySound
      <4>2. Unused(l) => tx[r].id # l
        BY DEF Unused, Busy
      <4> QED  BY <4>1, <4>2 DEF Operations
    <3> QED  BY <1>1, <1>2, <1>3, <3>1, <3>2 DEF CopySound, StatusOf
  <2> QED  BY <2>1, <2>2
<1> QED  BY <1>2, <1>4 DEF CopiesSound, StatusNotEarly, StatusOf, RefreshSound

(* What a request reads agrees with the row it read. *)
LEMMA CopiesSoundRequest ==
    ASSUME Sound, CopiesSound, NEW s \in Sessions, Request(s) PROVE CopiesSound'
<1>1. ASSUME NEW l \in LicenseIds, NEW start \in Starts, NEW end \in Ends,
             NEW trial \in Trials \cup {None}, Issue(s, l, start, end, trial)
      PROVE  CopiesSound'
  <2>1. StatusOf(NewRow(start, end), now)
    BY DerivedStatus, IssuingAssumption DEF NewRow, Sound, TypeOK
  <2> QED  BY <1>1, <2>1, CopiesSoundBegin DEF Issue, Operations
<1>2. ASSUME NEW l \in LicenseIds, NEW end \in Ends, Renew(s, l, end)
      PROVE  CopiesSound'
  <2>1. licenses[l] \in Row /\ end \in Int
    BY <1>2, IssuingAssumption DEF Renew, Sound, TypeOK
  <2>2. DeriveStatus(licenses[l].start, end, now) \in Statuses
    BY DEF DeriveStatus, Statuses
  <2> DEFINE R == Renewed(licenses[l], end)
  <2>3. /\ R.start = licenses[l].start /\ R.end = end
        /\ R.status = DeriveStatus(licenses[l].start, end, now)
    BY <2>1, <2>2, RowUpdated DEF Renewed
  <2>4. licenses[l].start \in Int /\ now \in Int
    BY <2>1 DEF Row, Sound, TypeOK
  <2>5. Begin(s, "renew", l, R, None) /\ licenses[l] # None
    BY <1>2 DEF Renew
  <2> HIDE DEF R
  <2>6. StatusOf(R, now)
    BY <2>1, <2>3, <2>4, DerivedStatus
  <2> QED  BY <2>3, <2>5, <2>6, CopiesSoundBegin DEF Operations
<1>3. ASSUME NEW l \in LicenseIds, Reissue(s, l)
      PROVE  CopiesSound'
  BY <1>3, CopiesSoundBegin DEF Reissue, Operations, CopiesSound, StatusNotEarly
<1> QED  BY <1>1, <1>2, <1>3 DEF Request

(* Every step keeps rows, copies and the refresh in agreement. *)
LEMMA CopiesSoundStep ==
    ASSUME Sound, CopiesSound, [Next]_vars PROVE CopiesSound'
<1>1. ASSUME NEW s \in Sessions, Request(s) PROVE CopiesSound'
  BY <1>1, CopiesSoundRequest
<1>2. ASSUME NEW s \in Sessions, Lock(s) \/ ReadKey(s) PROVE CopiesSound'
  <2>1. tx[s] \in Transaction /\ tx[s] # None
    BY <1>2 DEF Lock, ReadKey, Busy, Sound, TypeOK
  <2>2. UNCHANGED <<now, licenses, cron>>
    BY <1>2 DEF Lock, ReadKey
  <2>3. StatusOf(tx[s].row, now) /\ tx[s].row \in Row
    BY <2>1 DEF CopiesSound, CopySound, Transaction
  <2>4. PICK t :
          /\ tx' = [tx EXCEPT ![s] = t]
          /\ t.op = tx[s].op /\ t.id = tx[s].id
          /\ t.op = "renew" => t.row.start = tx[s].row.start
          /\ StatusOf(t.row, now)
    <3>1. CASE Lock(s)
      <4> DEFINE t == [tx[s] EXCEPT !.at = "locked", !.row = Prepared(s)]
      <4>1. tx' = [tx EXCEPT ![s] = t] /\ t.op = tx[s].op /\ t.id = tx[s].id /\ t.row = Prepared(s)
        BY <2>1, <3>1 DEF Lock, Sound, TypeOK, Transaction
      <4>2. StatusOf(Prepared(s), now)
        <5>1. tx[s].row.start \in Int /\ tx[s].row.end \in Int \cup {None} /\ now \in Int
          BY <2>3 DEF Row, Sound, TypeOK
        <5>2. StatusOf(NewRow(tx[s].row.start, tx[s].row.end), now)
          BY <5>1, DerivedStatus DEF NewRow
        <5> QED  BY <2>3, <5>2 DEF Prepared
      <4>3. tx[s].op = "renew" => Prepared(s) = tx[s].row
        BY DEF Prepared
      <4> HIDE DEF t
      <4> QED  BY <4>1, <4>2, <4>3
    <3>2. CASE ReadKey(s)
      <4>1. PICK k \in ActiveKeys : tx' = [tx EXCEPT ![s].at = "signing", ![s].key = k]
        BY <3>2 DEF ReadKey
      <4> DEFINE t == [tx[s] EXCEPT !.at = "signing", !.key = k]
      <4>2. tx' = [tx EXCEPT ![s] = t] /\ t.op = tx[s].op /\ t.id = tx[s].id /\ t.row = tx[s].row
        BY <2>1, <4>1 DEF Sound, TypeOK, Transaction
      <4> HIDE DEF t
      <4> QED  BY <2>3, <4>2
    <3> QED  BY <1>2, <3>1, <3>2
  <2>5. \A r \in Sessions : tx'[r] = IF r = s THEN t ELSE tx[r]
    BY <2>4 DEF Sound, TypeOK
  <2>6. ASSUME NEW r \in Sessions PROVE CopySound(r)'
    <3>1. CASE r = s
      BY <2>1, <2>2, <2>4, <2>5, <3>1 DEF CopiesSound, CopySound, StatusOf
    <3>2. CASE r # s
      <4> SUFFICES ASSUME tx[r] # None PROVE CopySound(r)'
        BY <2>5, <3>2 DEF CopySound
      <4>1. tx'[r] = tx[r] /\ CopySound(r)
        BY <2>5, <3>2 DEF CopiesSound
      <4>2. \A q \in Sessions : tx'[q] # None => tx[q] # None /\ tx'[q].id = tx[q].id
        BY <2>1, <2>4, <2>5
      <4> QED  BY <2>2, <4>1, <4>2 DEF CopySound, StatusOf
    <3> QED  BY <3>1, <3>2
  <2> QED  BY <2>2, <2>6 DEF CopiesSound, StatusNotEarly, StatusOf, RefreshSound
<1>3. ASSUME NEW s \in Sessions, Commit(s) PROVE CopiesSound'
  <2>1. tx[s] # None /\ now' = now /\ cron' = cron /\ CopySound(s)
    BY <1>3 DEF Commit, Busy, CopiesSound
  <2>2. \A r \in Sessions : tx'[r] = IF r = s THEN None ELSE tx[r]
    BY <1>3 DEF Commit, Sound, TypeOK
  <2>3. \A r \in Sessions : tx[r] # None => tx[r] \in Transaction /\ tx[r].id \in LicenseIds
    BY DEF Sound, TypeOK, Transaction
  <2>4. ASSUME NEW l \in LicenseIds, licenses'[l] # None PROVE StatusOf(licenses'[l], now)
    <3>1. CASE l # tx[s].id
      BY <1>3, <2>1, <2>4, <3>1, Committed DEF CopiesSound, StatusNotEarly, StatusOf
    <3>2. CASE l = tx[s].id
      <4>1. CASE tx[s].op = "reissue"
        BY <1>3, <2>1, <2>4, <3>2, <4>1, Committed DEF CopiesSound, StatusNotEarly
      <4>2. CASE tx[s].op # "reissue"
        BY <1>3, <2>1, <3>2, <4>2, Committed DEF CopySound, StatusOf
      <4> QED  BY <4>1, <4>2
    <3> QED  BY <3>1, <3>2
  <2>5. ASSUME NEW r \in Sessions PROVE CopySound(r)'
    <3>1. CASE r = s
      BY <2>2, <3>1 DEF CopySound
    <3>2. CASE r # s
      <4> SUFFICES ASSUME tx[r] # None PROVE CopySound(r)'
        BY <2>2, <3>2 DEF CopySound
      <4>1. tx'[r] = tx[r] /\ tx[r].id \in LicenseIds /\ tx[r] \in Transaction
        BY <2>2, <2>3, <3>2
      <4>2. tx[r].op \in {"issue", "convert"} =>
              /\ licenses'[tx[r].id] = None
              /\ \A q \in Sessions \ {r} : tx'[q] # None => tx'[q].id # tx[r].id
        <5>1. tx[r].op \in {"issue", "convert"} =>
                /\ licenses[tx[r].id] = None /\ tx[s].id # tx[r].id
                /\ \A q \in Sessions \ {r} : tx[q] # None => tx[q].id # tx[r].id
          BY <2>1, <3>2 DEF CopiesSound, CopySound
        <5> QED  BY <1>3, <2>1, <2>2, <4>1, <5>1, Committed
      <4>3. tx[r].op = "renew" => tx[r].row.start = licenses'[tx[r].id].start
        <5> SUFFICES ASSUME tx[r].op = "renew"
                     PROVE  tx[r].row.start = licenses'[tx[r].id].start
          OBVIOUS
        <5>1. licenses[tx[r].id] # None /\ tx[r].row.start = licenses[tx[r].id].start
          BY DEF Sound, TransactionSound, CopiesSound, CopySound
        <5>2. CASE tx[r].id # tx[s].id
          BY <1>3, <2>1, <4>1, <5>1, <5>2, Committed
        <5>3. CASE tx[r].id = tx[s].id
          <6>1. tx[s].op \notin {"issue", "convert"}
            BY <2>1, <5>1, <5>3 DEF CopySound
          <6>2. CASE tx[s].op = "reissue"
            BY <1>3, <2>1, <4>1, <5>1, <5>3, <6>2, Committed
          <6>3. CASE tx[s].op = "renew"
            <7>1. licenses'[tx[s].id].start = tx[s].row.start
              BY <1>3, <2>1, <4>1, <5>3, <6>3, Committed
            <7> QED  BY <2>1, <5>1, <5>3, <6>3, <7>1 DEF CopySound
          <6> QED  BY <2>1, <6>1, <6>2, <6>3 DEF Sound, TypeOK, Transaction, Operations
        <5> QED  BY <5>2, <5>3
      <4> QED  BY <2>1, <4>1, <4>2, <4>3 DEF CopiesSound, CopySound, StatusOf
    <3> QED  BY <3>1, <3>2
  <2> QED  BY <2>1, <2>4, <2>5 DEF CopiesSound, StatusNotEarly, StatusOf, RefreshSound
<1>4. ASSUME NEW s \in Sessions, RollBack(s) PROVE CopiesSound'
  <2>1. tx' = [tx EXCEPT ![s] = None] /\ UNCHANGED <<now, licenses, cron>>
    BY <1>4 DEF RollBack
  <2>2. \A r \in Sessions : CopySound(r)'
    BY <2>1 DEF CopiesSound, CopySound, Sound, TypeOK, StatusOf
  <2> QED  BY <2>1, <2>2 DEF CopiesSound, StatusNotEarly, StatusOf, RefreshSound
<1>5. CASE Sweep
  <2>1. UNCHANGED <<now, tx>>
    BY <1>5 DEF Sweep, VoidLicense, StartRefresh, RefreshActive, RefreshExpired, FailRefresh
  <2>2. ASSUME NEW r \in Sessions PROVE CopySound(r)'
    <3> SUFFICES ASSUME tx[r] # None PROVE CopySound(r)'
      BY <2>1 DEF CopySound
    <3>1. tx[r].id \in LicenseIds
      BY DEF Sound, TypeOK, Transaction
    <3>2. tx[r].op = "renew" => licenses[tx[r].id] # None
      BY DEF Sound, TransactionSound
    <3>3. CopySound(r)
      BY DEF CopiesSound
    <3> QED  BY <1>5, <2>1, <3>1, <3>2, <3>3, DatesStay DEF CopiesSound, CopySound, StatusOf
  <2>3. \A l \in LicenseIds : licenses'[l] # None => StatusOf(licenses'[l], now)
    BY <1>5, DatesStay DEF CopiesSound, StatusNotEarly
  <2>4. RefreshSound'
    <3>1. now \in Int
      BY DEF Sound, TypeOK
    <3>2. \/ cron' = cron \/ cron' = None \/ cron' = [step |-> "active", at |-> now]
          \/ cron # None /\ cron' = [cron EXCEPT !.step = "expired"]
      BY <1>5 DEF Sweep, VoidLicense, StartRefresh, RefreshActive, RefreshExpired, FailRefresh
    <3>3. cron # None => [cron EXCEPT !.step = "expired"].at = cron.at
      BY DEF Refresh, Sound, TypeOK
    <3>4. cron' # None => (cron'.at = now \/ (cron # None /\ cron'.at = cron.at))
      <4> DEFINE next == [cron EXCEPT !.step = "expired"]
      <4>1. cron # None => next.at = cron.at
        BY <3>3
      <4>2. \/ cron' \in {cron, None, [step |-> "active", at |-> now]}
            \/ (cron # None /\ cron' = next)
        BY <3>2
      <4> HIDE DEF next
      <4> QED  BY <4>1, <4>2
    <3> QED  BY <2>1, <3>1, <3>4 DEF RefreshSound, CopiesSound
  <2> QED  BY <2>1, <2>2, <2>3, <2>4 DEF CopiesSound, StatusNotEarly, StatusOf
<1>6. CASE Tick
  <2>1. now \in Int /\ now' \in Int /\ now <= now' /\ UNCHANGED <<licenses, tx, cron>>
    BY <1>6 DEF Tick, Sound, TypeOK
  <2>2. ASSUME NEW r \in Sessions PROVE CopySound(r)'
    <3>1. tx[r] # None => tx[r].row \in Row
      BY DEF Sound, TypeOK, Transaction
    <3>2. tx[r] # None => StatusOf(tx[r].row, now')
      BY <2>1, <3>1, StatusLasts DEF CopiesSound, CopySound
    <3> QED  BY <2>1, <3>2 DEF CopiesSound, CopySound, StatusOf
  <2>3. \A l \in LicenseIds : licenses[l] # None => StatusOf(licenses[l], now')
    BY <2>1, StatusLasts DEF CopiesSound, StatusNotEarly, Sound, TypeOK
  <2>4. RefreshSound'
    BY <2>1 DEF CopiesSound, RefreshSound, Sound, TypeOK, Refresh
  <2> QED  BY <2>1, <2>2, <2>3, <2>4 DEF CopiesSound, StatusNotEarly, StatusOf
<1>7. CASE UNCHANGED issuingVars
  BY <1>7 DEF CopiesSound, CopySound, StatusNotEarly, StatusOf, RefreshSound, issuingVars
<1> QED  BY <1>1, <1>2, <1>3, <1>4, <1>5, <1>6, <1>7 DEF Next, vars, Sweep

(* The cached status never runs ahead of the dates, however stale the copy *)
(* a transaction works on: the update it makes was derived from an earlier *)
(* time and a start date that still holds.                                 *)
THEOREM StatusNeverEarly == Spec => []StatusNotEarly
<1>1. CopiesSound => StatusNotEarly
  BY DEF CopiesSound
<1> QED  BY SoundAtStart, SoundStep, CopiesSoundAtStart, CopiesSoundStep, <1>1, PTL DEF Spec

-----------------------------------------------------------------------------
(* After a commit the license has the new credential only; the credentials *)
(* of the others are as they were.                                         *)
LEMMA CurrentAfterCommit ==
    ASSUME Sound, NEW s \in Sessions, Commit(s), NEW id \in LicenseIds, id = tx[s].id
    PROVE  /\ \E new \in creds' : Current(id)' = {new} /\ new.end = InSeconds(tx[s].row.end)
           /\ \A l \in LicenseIds \ {id} : Current(l)' = Current(l) /\ Current(l) \subseteq creds'
<1>1. PICK jti \in Jtis : creds' = WithNew(Signed(s, jti))
  BY DEF Commit
<1>2. PICK new : new = Signed(s, jti)
  OBVIOUS
<1>3. new.lic = id /\ ~new.superseded /\ new.end = InSeconds(tx[s].row.end)
  BY <1>2 DEF Signed
<1>4. \A c \in creds : /\ [c EXCEPT !.superseded = TRUE].lic = c.lic
                      /\ [c EXCEPT !.superseded = TRUE].superseded
  BY DEF Sound, TypeOK, Credential
<1>5. creds' = {IF c.lic = id THEN [c EXCEPT !.superseded = TRUE] ELSE c : c \in creds} \cup {new}
  BY <1>1, <1>2, <1>3 DEF WithNew
<1>6. new \in creds' /\ \A c \in creds : c.lic # id => c \in creds'
  BY <1>5
<1>7. ASSUME NEW d \in creds', ~d.superseded, d # new
      PROVE  d \in creds /\ d.lic # id
  <2>1. PICK c \in creds : d = IF c.lic = id THEN [c EXCEPT !.superseded = TRUE] ELSE c
    BY <1>5, <1>7
  <2> QED  BY <1>4, <1>7, <2>1
<1>8. Current(id)' = {new}
  BY <1>3, <1>6, <1>7 DEF Current
<1>9. ASSUME NEW l \in LicenseIds \ {id}
      PROVE  Current(l)' = Current(l) /\ Current(l) \subseteq creds'
  BY <1>3, <1>6, <1>7 DEF Current
<1> QED  BY <1>3, <1>6, <1>8, <1>9

(* Every step leaves each license one current credential. *)
LEMMA OneCurrentStep ==
    ASSUME Sound, CopiesSound, OneCurrent, [Next]_vars PROVE OneCurrent'
<1>1. ASSUME NEW s \in Sessions, Commit(s) PROVE OneCurrent'
  <2>1. tx[s].id \in LicenseIds /\ CopySound(s)
    BY <1>1 DEF Commit, Busy, Sound, TypeOK, Transaction, CopiesSound
  <2>2. PICK id \in LicenseIds : id = tx[s].id
    BY <2>1
  <2>3. ASSUME NEW l \in LicenseIds, licenses'[l] # None
        PROVE  \E c \in creds' : Current(l)' = {c}
    <3>1. CASE l = id
      BY <1>1, <2>2, <3>1, CurrentAfterCommit
    <3>2. CASE l # id
      <4>1. licenses[l] # None
        BY <1>1, <2>1, <2>2, <2>3, <3>2, Committed
      <4>2. PICK c \in creds : Current(l) = {c}
        BY <4>1 DEF OneCurrent
      <4>3. Current(l)' = Current(l) /\ Current(l) \subseteq creds'
        BY <1>1, <2>2, <3>2, CurrentAfterCommit
      <4> QED  BY <4>2, <4>3
    <3> QED  BY <3>1, <3>2
  <2> QED  BY <2>3 DEF OneCurrent
<1>2. CASE Sweep
  <2>1. creds' = creds
    BY <1>2 DEF Sweep, VoidLicense, StartRefresh, RefreshActive, RefreshExpired, FailRefresh
  <2>2. \A l \in LicenseIds : licenses'[l] # None => licenses[l] # None
    BY <1>2, DatesStay DEF CopiesSound
  <2> QED  BY <2>1, <2>2 DEF OneCurrent, Current
<1>3. ASSUME UNCHANGED <<licenses, creds>> PROVE OneCurrent'
  BY <1>3 DEF OneCurrent, Current
<1>4. ASSUME NEW s \in Sessions, Request(s) \/ Lock(s) \/ ReadKey(s) \/ RollBack(s)
      PROVE  UNCHANGED <<licenses, creds>>
  BY <1>4 DEF Request, Issue, Renew, Reissue, Begin, Lock, ReadKey, RollBack
<1> QED  BY <1>1, <1>2, <1>3, <1>4 DEF Next, Tick, vars, issuingVars, Sweep

(* A license that exists has one credential that counts, at every moment   *)
(* and whatever fails: the row, its credential and the superseding of the  *)
(* older ones are one step to everybody else.                              *)
THEOREM AlwaysOneCurrent == Spec => []OneCurrent
<1>1. Init => OneCurrent
  <2> SUFFICES ASSUME Init, NEW l \in LicenseIds, licenses[l] # None
               PROVE  \E c \in creds : Current(l) = {c}
    BY DEF OneCurrent
  <2>1. l \in Trials
    BY DEF Init
  <2>2. PICK jti \in [Trials -> Jtis] :
          creds = {[jti |-> jti[t], lic |-> t, kid |-> FirstKey, start |-> 0,
                    end |-> InSeconds(TrialEnd), superseded |-> FALSE] : t \in Trials}
    BY DEF Init
  <2>3. PICK c \in creds : c = [jti |-> jti[l], lic |-> l, kid |-> FirstKey, start |-> 0,
                               end |-> InSeconds(TrialEnd), superseded |-> FALSE]
    BY <2>1, <2>2
  <2>4. \A d \in creds : d.lic = l => d = c
    BY <2>2, <2>3
  <2>5. c.lic = l /\ ~c.superseded
    BY <2>3
  <2> QED  BY <2>4, <2>5 DEF Current
<1> QED
  BY SoundAtStart, SoundStep, CopiesSoundAtStart, CopiesSoundStep, OneCurrentStep, <1>1, PTL DEF Spec

(* The end of a license changes only together with its credential, which   *)
(* carries the new end: no operator and no refresh moves one alone.        *)
THEOREM EndMovesOnlyWithCredential == Spec => EndMovesWithCredential
<1>1. ASSUME Sound, CopiesSound, [Next]_vars PROVE EndAndCredential
  <2>1. ASSUME NEW s \in Sessions, Commit(s) PROVE EndAndCredential
    <3>1. tx[s].id \in LicenseIds /\ CopySound(s) /\ tx[s] # None
      BY <1>1, <2>1 DEF Commit, Busy, Sound, TypeOK, Transaction, CopiesSound
    <3>2. PICK id \in LicenseIds : id = tx[s].id
      BY <3>1
    <3> SUFFICES ASSUME NEW l \in LicenseIds, licenses[l] # None,
                        licenses'[l].end # licenses[l].end
                 PROVE  \A c \in Current(l)' : c.end = InSeconds(licenses'[l].end)
      BY DEF EndAndCredential
    <3>3. l = id
      BY <1>1, <2>1, <3>1, <3>2, Committed
    <3>4. licenses'[l].end = tx[s].row.end
      BY <1>1, <2>1, <3>1, <3>2, <3>3, Committed
    <3> QED  BY <1>1, <2>1, <3>2, <3>3, <3>4, CurrentAfterCommit
  <2>2. CASE Sweep
    BY <1>1, <2>2, DatesStay DEF EndAndCredential, CopiesSound
  <2>3. ASSUME UNCHANGED licenses PROVE EndAndCredential
    BY <2>3 DEF EndAndCredential
  <2>4. ASSUME NEW s \in Sessions, Request(s) \/ Lock(s) \/ ReadKey(s) \/ RollBack(s)
        PROVE  UNCHANGED licenses
    BY <2>4 DEF Request, Issue, Renew, Reissue, Begin, Lock, ReadKey, RollBack
  <2> QED  BY <1>1, <2>1, <2>2, <2>3, <2>4 DEF Next, Tick, vars, issuingVars, Sweep
<1>2. EndAndCredential => [EndAndCredential]_licenses
  OBVIOUS
<1> QED
  BY SoundAtStart, SoundStep, CopiesSoundAtStart, CopiesSoundStep, <1>1, <1>2, PTL
     DEF Spec, EndMovesWithCredential
=============================================================================
