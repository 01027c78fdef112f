--------------------------- MODULE LicenseManager ---------------------------
(***************************************************************************)
(* The stateful half of the client SDK (packages/sdk/src/io/manager.ts):   *)
(* a process that refreshes the license from the key file, the host's      *)
(* database and a hidden mirror file, and writes the state it found back   *)
(* to both.  Every operation is asynchronous: it is cut where the code     *)
(* awaits, and several of them may be under way at a time.                 *)
(*                                                                         *)
(* Events and log lines are left out, and with them the two fields that    *)
(* only decide which event to record (lastKeyFileChecksum and              *)
(* missingFileReported).  The instance id and secret of a trial are        *)
(* written together with its credential, which stands for all three.       *)
(***************************************************************************)
EXTENDS Evaluate, FiniteSets

CONSTANTS
    Ops,          \* operations that may be under way at the same time
    InstallIds,   \* bound: the install ids that may be drawn
    Cred,         \* credentials: [verify |-> "ok" or a reason, payload |-> ...,
                  \* tofu |-> it asks to be bound]
    KeyFiles,     \* the credentials that may be put in license.key
    TrialCreds,   \* the credentials a trial registration may return
    Failed,       \* the result of a store read that throws
    Torn,         \* a mirror file whose MAC or structure is wrong
    Faults,       \* which faults happen, see below
    Calls,        \* what the host calls: among "save", "reset" and "peek"
    MaxCounted,   \* bound: no more rollbacks are counted than this
    ReloadCheck,  \* option reloadCheckSec
    MaxOpTime,    \* bound: no operation lasts longer than this
    LastTime,     \* bound: the clock never shows more
    Steps,        \* by how much time passes at once
    Jumps,        \* how far ahead one fault may put the clock
    SetBacks      \* how far behind the true time it may be set

FaultKinds == {"readFail", "writeFail", "mirrorFail", "mirrorTorn", "crash",
               "dbLoss", "mirrorLoss", "jump", "setBack"}

CredIds == DOMAIN Cred

ASSUME ManagerAssumption ==
    /\ \A c \in CredIds :
          /\ Cred[c].verify \in {"ok", "signature", "unknown_kid", "malformed"}
          /\ Cred[c].payload \in Payload /\ Cred[c].tofu \in BOOLEAN
    /\ KeyFiles \subseteq CredIds /\ TrialCreds \subseteq CredIds
    /\ None \notin CredIds /\ None \notin InstallIds
    /\ Faults \subseteq FaultKinds /\ Calls \subseteq {"save", "reset", "peek"}
    /\ MaxCounted \in Nat
    /\ ReloadCheck \in Nat /\ MaxOpTime \in Nat /\ LastTime \in Nat
    /\ Steps \subseteq Nat /\ Jumps \subseteq Nat /\ SetBacks \subseteq Nat

(* PersistedState: what must outlive a restart. *)
Record == [installId : InstallIds, boundFingerprint : Optional(InstallIds),
           trialStartedAt : Optional(Int),
           maxSeenTs : Int, rollbackCount : Nat,
           lastRollbackAt : Optional(Int), jumpBaseTs : Optional(Int),
           trialCredential : Optional(CredIds), lastCredential : Optional(CredIds)]

(* MirrorState: the part of it the hidden file holds. *)
MirrorRecord == [installId : InstallIds, trialStartedAt : Optional(Int),
                 maxSeenTs : Int, rollbackCount : Nat]

ASSUME RecordAssumption ==
    /\ None \notin Record /\ Failed \notin Record /\ Failed # None
    /\ None \notin MirrorRecord /\ Torn \notin MirrorRecord /\ Torn # None

VARIABLES
    wall,         \* what the local clock shows
    ahead,        \* by how much it is ahead of the true time
    checked,      \* a refresh has judged the clock since it was last moved
    keyFile,      \* the content of license.key, or None
    db,           \* the host's row: a Record, or None
    mirror,       \* the hidden file: a MirrorRecord, None or Torn
    running,      \* the process is up
    persisted,    \* its cached record (this.persisted), or None
    readFailed,   \* this.storeReadFailed
    lastChecked,  \* this.lastCheckedAt; None before the first refresh
    refreshing,   \* this.refreshing: the operation it promises, or None
    state,        \* this.state
    basis,        \* the key file and the time it was judged on
    pc,           \* per operation: the await it is at
    kind,         \* per operation: what was called
    at,           \* per operation: the time it read
    snap,         \* per operation: what its store read returned
    rec,          \* per operation: its local record
    file          \* per operation: the key file it read

envVars  == <<wall, ahead, checked, keyFile>>
diskVars == <<db, mirror>>
memVars  == <<running, persisted, readFailed, lastChecked, refreshing, state, basis>>
opVars   == <<pc, kind, at, snap, rec, file>>
vars     == <<envVars, diskVars, memVars, opVars>>

Points == {"idle", "reading", "read", "tampered", "loaded", "judging", "writing", "mirroring"}
Kinds  == {"refresh", "save", "reset", "peek"}

LicenseState ==
    [status : Statuses, loginBlocked : BOOLEAN, invalidReason : Optional(Reasons),
     remainingDays : Optional(Int), warning : BOOLEAN]

TypeOK ==
    /\ wall \in Int /\ ahead \in Int /\ checked \in BOOLEAN
    /\ keyFile \in Optional(KeyFiles)
    /\ db \in Optional(Record)
    /\ mirror \in MirrorRecord \cup {None, Torn}
    /\ running \in BOOLEAN
    /\ persisted \in Optional(Record)
    /\ readFailed \in BOOLEAN
    /\ lastChecked \in Optional(Int)
    /\ refreshing \in Optional(Ops)
    /\ state \in LicenseState
    /\ basis \in [file : Optional(KeyFiles), at : Optional(Int)]
    /\ pc \in [Ops -> Points]
    /\ kind \in [Ops -> Kinds]
    /\ at \in [Ops -> Int]
    /\ snap \in [Ops -> Record \cup {None, Failed}]
    /\ rec \in [Ops -> Optional(Record)]
    /\ file \in [Ops -> Optional(KeyFiles)]

Checking == [status |-> "checking", loginBlocked |-> FALSE, invalidReason |-> None,
             remainingDays |-> None, warning |-> FALSE]

(* An empty process: the fields of a LicenseManager just constructed, and  *)
(* no operation under way.                                                 *)
FreshProcess ==
    /\ persisted' = None
    /\ readFailed' = FALSE
    /\ lastChecked' = None
    /\ refreshing' = None
    /\ state' = Checking
    /\ basis' = [file |-> None, at |-> None]
    /\ pc' = [o \in Ops |-> "idle"]
    /\ kind' = [o \in Ops |-> "peek"]
    /\ at' = [o \in Ops |-> 0]
    /\ snap' = [o \in Ops |-> None]
    /\ rec' = [o \in Ops |-> None]
    /\ file' = [o \in Ops |-> None]

Init ==
    /\ wall = 0 /\ ahead = 0 /\ checked = FALSE
    /\ keyFile \in Optional(KeyFiles)
    /\ db = None /\ mirror = None
    /\ running = FALSE
    /\ persisted = None /\ readFailed = FALSE
    /\ lastChecked = None /\ refreshing = None
    /\ state = Checking /\ basis = [file |-> None, at |-> None]
    /\ pc = [o \in Ops |-> "idle"]
    /\ kind = [o \in Ops |-> "peek"]
    /\ at = [o \in Ops |-> 0]
    /\ snap = [o \in Ops |-> None]
    /\ rec = [o \in Ops |-> None]
    /\ file = [o \in Ops |-> None]

-----------------------------------------------------------------------------
(* Records *)

MirrorReadable == mirror \notin {None, Torn}

(* Ids no record in sight carries: what randomUUID returns. *)
IdsOf(r) == IF r = None THEN {} ELSE {r.installId}

FreshIds ==
    InstallIds \ (IdsOf(db) \cup IdsOf(persisted) \cup UNION {IdsOf(rec[o]) : o \in Ops}
                    \cup IF MirrorReadable THEN IdsOf(mirror) ELSE {})

CreateInitialState(id, now) ==
    [installId |-> id, boundFingerprint |-> None, trialStartedAt |-> None,
     maxSeenTs |-> now, rollbackCount |-> 0, lastRollbackAt |-> None,
     jumpBaseTs |-> None, trialCredential |-> None, lastCredential |-> None]

Larger(a, b) == IF a > b THEN a ELSE b

(* Variant for mutation: the mirror's trial start is not looked at. *)
MergeForgettingTrial(r) ==
    IF MirrorReadable
      THEN [r EXCEPT !.installId     = mirror.installId,
                     !.maxSeenTs     = Larger(r.maxSeenTs, mirror.maxSeenTs),
                     !.rollbackCount = Larger(r.rollbackCount, mirror.rollbackCount)]
      ELSE r

(* Field by field the stricter of the database and the mirror. *)
Merge(r) ==
    IF MirrorReadable
      THEN [r EXCEPT !.installId      = mirror.installId,
                     !.trialStartedAt = Earlier(r.trialStartedAt, mirror.trialStartedAt),
                     !.maxSeenTs      = Larger(r.maxSeenTs, mirror.maxSeenTs),
                     !.rollbackCount  = Larger(r.rollbackCount, mirror.rollbackCount)]
      ELSE r

MirrorOf(r) == [installId |-> r.installId, trialStartedAt |-> r.trialStartedAt,
                maxSeenTs |-> r.maxSeenTs, rollbackCount |-> r.rollbackCount]

WatermarkOf(r) == [maxSeenTs |-> r.maxSeenTs, rollbackCount |-> r.rollbackCount,
                   lastRollbackAt |-> r.lastRollbackAt, jumpBaseTs |-> r.jumpBaseTs]

(* Variant for mutation: the ticket is not stored. *)
WithWatermarkNoTicket(r, wm) ==
    [r EXCEPT !.maxSeenTs = wm.maxSeenTs, !.rollbackCount = wm.rollbackCount,
              !.lastRollbackAt = wm.lastRollbackAt]

WithWatermark(r, wm) ==
    [r EXCEPT !.maxSeenTs = wm.maxSeenTs, !.rollbackCount = wm.rollbackCount,
              !.lastRollbackAt = wm.lastRollbackAt, !.jumpBaseTs = wm.jumpBaseTs]

-----------------------------------------------------------------------------
(* Credentials *)

Verified(c) == Cred[c].verify = "ok"

(* Variant for mutation: what is cached comes before the key file. *)
ChosenFromCache(f, r) == OrElse(r.trialCredential, OrElse(r.lastCredential, f))

(* The key file is used when it is there, whatever it holds; else the      *)
(* cached formal credential, else that of the trial.                       *)
Chosen(f, r) == IF f # None THEN f ELSE OrElse(r.lastCredential, r.trialCredential)

PayloadOf(c) == IF c # None /\ Verified(c) THEN Cred[c].payload ELSE None

InvalidReasonOf(c) == IF c = None \/ Verified(c) THEN None ELSE Cred[c].verify

-----------------------------------------------------------------------------
(* loadPersisted: a cached record is returned at once, else the store is   *)
(* read; what the call was for goes on from "loaded".                      *)
Begin(o, k) ==
    /\ kind' = [kind EXCEPT ![o] = k]
    /\ at' = [at EXCEPT ![o] = wall]
    /\ pc' = [pc EXCEPT ![o] = IF persisted = None THEN "reading" ELSE "loaded"]
    /\ rec' = [rec EXCEPT ![o] = persisted]
    /\ snap' = [snap EXCEPT ![o] = None]
    /\ file' = [file EXCEPT ![o] = None]

(* A refresh that is not shared with one already under way. *)
BeginRefresh(o) ==
    /\ Begin(o, "refresh")
    /\ lastChecked' = wall
    /\ refreshing' = o

(* The database answers a read. *)
ReadStore(o) ==
    /\ pc[o] = "reading"
    /\ snap' = [snap EXCEPT ![o] = db]
    /\ pc' = [pc EXCEPT ![o] = "read"]
    /\ UNCHANGED <<envVars, diskVars, memVars, kind, at, rec, file>>

(* The read throws. *)
FailRead(o) ==
    /\ "readFail" \in Faults
    /\ pc[o] = "reading"
    /\ snap' = [snap EXCEPT ![o] = Failed]
    /\ pc' = [pc EXCEPT ![o] = "read"]
    /\ UNCHANGED <<envVars, diskVars, memVars, kind, at, rec, file>>

(* Variant for mutation: with no mirror a fresh record has no id. *)
BasesWithoutId(o) ==
    IF snap[o] \notin {None, Failed} THEN {snap[o]}
    ELSE {CreateInitialState(IF MirrorReadable THEN mirror.installId ELSE None, at[o])}

(* What an operation may go on with: the row, or a fresh record when there *)
(* is none or it could not be read; a fresh one takes the mirror's id.     *)
Bases(o) ==
    IF snap[o] \notin {None, Failed} THEN {snap[o]}
    ELSE {CreateInitialState(id, at[o]) :
             id \in IF MirrorReadable THEN {mirror.installId} ELSE FreshIds}

(* Variant for mutation: an unreadable store is taken for an empty one     *)
(* (the code before the two were told apart).                              *)
AdoptFailureAsEmpty(o, r) ==
    /\ rec' = [rec EXCEPT ![o] = r]
    /\ persisted' = r
    /\ readFailed' = FALSE
    /\ snap' = [snap EXCEPT ![o] = None]
    /\ pc' = [pc EXCEPT ![o] = "loaded"]
    /\ UNCHANGED <<envVars, diskVars, running, lastChecked, refreshing, state, basis,
                   kind, at, file>>

(* Variant for mutation: the made-up record is cached too. *)
AdoptCachingFailure(o, r) ==
    /\ rec' = [rec EXCEPT ![o] = r]
    /\ persisted' = r
    /\ readFailed' = (snap[o] = Failed)
    /\ snap' = [snap EXCEPT ![o] = None]
    /\ pc' = [pc EXCEPT ![o] = "loaded"]
    /\ UNCHANGED <<envVars, diskVars, running, lastChecked, refreshing, state, basis,
                   kind, at, file>>

(* Only a record that was really read becomes the cached one. *)
Adopt(o, r) ==
    /\ rec' = [rec EXCEPT ![o] = r]
    /\ persisted' = IF snap[o] = Failed THEN persisted ELSE r
    /\ readFailed' = (snap[o] = Failed)
    /\ snap' = [snap EXCEPT ![o] = None]
    /\ pc' = [pc EXCEPT ![o] = "loaded"]
    /\ UNCHANGED <<envVars, diskVars, running, lastChecked, refreshing, state, basis,
                   kind, at, file>>

Load(o) ==
    /\ pc[o] = "read" /\ mirror # Torn
    /\ \E base \in Bases(o) : Adopt(o, Merge(base))

(* A torn mirror is ignored, but reporting it is awaited first. *)
SeeTornMirror(o) ==
    /\ pc[o] = "read" /\ mirror = Torn
    /\ \E base \in Bases(o) : rec' = [rec EXCEPT ![o] = base]
    /\ pc' = [pc EXCEPT ![o] = "tampered"]
    /\ UNCHANGED <<envVars, diskVars, memVars, kind, at, snap, file>>

LoadWithoutMirror(o) ==
    /\ pc[o] = "tampered"
    /\ Adopt(o, rec[o])

-----------------------------------------------------------------------------
(* The end of an operation.  A save or a reset goes on with a forced       *)
(* refresh; a refresh clears the shared promise, whoever made it.          *)
Retire(o) ==
    /\ kind' = [kind EXCEPT ![o] = "peek"]
    /\ at' = [at EXCEPT ![o] = 0]
    /\ pc' = [pc EXCEPT ![o] = "idle"]
    /\ rec' = [rec EXCEPT ![o] = None]
    /\ snap' = [snap EXCEPT ![o] = None]
    /\ file' = [file EXCEPT ![o] = None]

(* Variant for mutation: the shared promise is never cleared. *)
ReturnKeepingPromise(o) ==
    IF kind[o] = "refresh"
      THEN Retire(o) /\ UNCHANGED <<refreshing, lastChecked>>
      ELSE BeginRefresh(o)

Return(o) ==
    IF kind[o] = "refresh"
      THEN /\ Retire(o)
           /\ refreshing' = None
           /\ UNCHANGED lastChecked
      ELSE BeginRefresh(o)

(* Variant for mutation: written whether the store could be read or not    *)
(* (the code before the two were told apart).                              *)
PersistAlways(o, r) ==
    /\ persisted' = r
    /\ rec' = [rec EXCEPT ![o] = r]
    /\ pc' = [pc EXCEPT ![o] = "writing"]
    /\ UNCHANGED <<lastChecked, refreshing, kind, at, snap, file>>

(* persist: nothing is written while the store could not be read; else the *)
(* cache takes the record at once and the store and the mirror follow.     *)
Persist(o, r) ==
    IF readFailed
      THEN /\ UNCHANGED persisted
           /\ Return(o)
      ELSE /\ persisted' = r
           /\ rec' = [rec EXCEPT ![o] = r]
           /\ pc' = [pc EXCEPT ![o] = "writing"]
           /\ UNCHANGED <<lastChecked, refreshing, kind, at, snap, file>>

(* The store writes the row. *)
WriteStore(o) ==
    /\ pc[o] = "writing"
    /\ db' = rec[o]
    /\ pc' = [pc EXCEPT ![o] = "mirroring"]
    /\ UNCHANGED <<envVars, mirror, memVars, kind, at, snap, rec, file>>

(* The write throws, and the failure is swallowed. *)
FailWrite(o) ==
    /\ "writeFail" \in Faults
    /\ pc[o] = "writing"
    /\ pc' = [pc EXCEPT ![o] = "mirroring"]
    /\ UNCHANGED <<envVars, diskVars, memVars, kind, at, snap, rec, file>>

(* The mirror is written, where it can be, and the operation ends. *)
WriteMirror(o) ==
    /\ pc[o] = "mirroring"
    /\ mirror' \in {MirrorOf(rec[o])} \cup (IF "mirrorFail" \in Faults THEN {mirror} ELSE {})
    /\ Return(o)
    /\ UNCHANGED <<envVars, db, running, persisted, readFailed, state, basis>>

-----------------------------------------------------------------------------
(* Variant for mutation: a key file that is gone takes its copy with it. *)
InspectForgetting(o) ==
    /\ pc[o] = "loaded" /\ kind[o] = "refresh"
    /\ file' = [file EXCEPT ![o] = keyFile]
    /\ rec' = [rec EXCEPT ![o].lastCredential =
                   IF keyFile # None /\ Verified(keyFile) THEN keyFile ELSE None]
    /\ pc' = [pc EXCEPT ![o] = "judging"]
    /\ UNCHANGED <<envVars, diskVars, memVars, kind, at, snap>>

(* doRefresh, after its record is loaded: the key file is read; one that   *)
(* verifies becomes the cached credential.                                 *)
Inspect(o) ==
    /\ pc[o] = "loaded" /\ kind[o] = "refresh"
    /\ file' = [file EXCEPT ![o] = keyFile]
    /\ rec' = IF keyFile # None /\ Verified(keyFile)
                THEN [rec EXCEPT ![o].lastCredential = keyFile]
                ELSE rec
    /\ pc' = [pc EXCEPT ![o] = "judging"]
    /\ UNCHANGED <<envVars, diskVars, memVars, kind, at, snap>>

(* The first credential that asks for it binds the record to its own id.   *)
Bind(r, c) ==
    IF c # None /\ Verified(c) /\ Cred[c].tofu /\ r.boundFingerprint = None
      THEN [r EXCEPT !.boundFingerprint = r.installId]
      ELSE r

(* The trial starts once, with no key file and no formal credential.       *)
StartsTrial(r, f, c) ==
    /\ TrialEnabled
    /\ r.trialStartedAt = None
    /\ f = None
    /\ PayloadOf(c) = None \/ PayloadOf(c).typ # "formal"

ResolveTrialStart(r, f, c, now) ==
    IF StartsTrial(r, f, c) THEN [r EXCEPT !.trialStartedAt = now] ELSE r

(* What a refresh leaves in its record: the clock is checked against the   *)
(* watermark it loaded.                                                    *)
Refreshed(r, f, c, now) ==
    ResolveTrialStart(
        WithWatermark(Bind(r, c),
                      NextWatermark(now, WatermarkOf(r), SkewTolOf(PayloadOf(c)))),
        f, c, now)

(* The verdict, on the same watermark, and the state is replaced whatever  *)
(* another operation has put there meanwhile.                              *)
Judge(o) ==
    /\ pc[o] = "judging"
    /\ LET c    == Chosen(file[o], rec[o])
           next == Refreshed(rec[o], file[o], c, at[o])
       IN  /\ next.rollbackCount <= MaxCounted
           /\ state' = EvaluateLicense(at[o], PayloadOf(c), InvalidReasonOf(c),
                                       next.trialStartedAt, WatermarkOf(rec[o]))
           /\ Persist(o, next)
    /\ basis' = [file |-> file[o], at |-> at[o]]
    /\ checked' = TRUE
    /\ UNCHANGED <<wall, ahead, keyFile, diskVars, running, readFailed>>

(* saveTrialIdentity: the credential of a registration is added. *)
ApplySave(o) ==
    /\ pc[o] = "loaded" /\ kind[o] = "save"
    /\ \E c \in TrialCreds : Persist(o, [rec[o] EXCEPT !.trialCredential = c])
    /\ UNCHANGED <<envVars, diskVars, running, readFailed, state, basis>>

(* resetClockWatermark: the watermark becomes the present, nothing else    *)
(* is touched.                                                             *)
ApplyReset(o) ==
    /\ pc[o] = "loaded" /\ kind[o] = "reset"
    /\ Persist(o, WithWatermark(rec[o], FirstWatermark(at[o])))
    /\ UNCHANGED <<envVars, diskVars, running, readFailed, state, basis>>

(* getInstallId, getTrialIdentity: only read. *)
ReturnPeek(o) ==
    /\ pc[o] = "loaded" /\ kind[o] = "peek"
    /\ Retire(o)
    /\ UNCHANGED <<envVars, diskVars, memVars>>

-----------------------------------------------------------------------------
(* Calls *)

(* The process starts and initialises the manager. *)
Boot(o) ==
    /\ ~running
    /\ running' = TRUE
    /\ BeginRefresh(o)
    /\ UNCHANGED <<envVars, diskVars, persisted, readFailed, state, basis>>

(* A login asks for the state when its check is due, and nobody is         *)
(* refreshing: it is answered from the cache and a refresh starts.         *)
GetState(o) ==
    /\ running /\ pc[o] = "idle"
    /\ lastChecked = None \/ wall - lastChecked >= ReloadCheck
    /\ refreshing = None
    /\ BeginRefresh(o)
    /\ UNCHANGED <<envVars, diskVars, running, persisted, readFailed, state, basis>>

(* saveTrialIdentity, resetClockWatermark or a reader is called. *)
Call(o, k) ==
    /\ running /\ pc[o] = "idle"
    /\ k \in Calls
    /\ Begin(o, k)
    /\ UNCHANGED <<envVars, diskVars, memVars>>

-----------------------------------------------------------------------------
(* Environment *)

Quiet == \A o \in Ops : pc[o] = "idle"

(* Time passes; an operation under way never takes longer than MaxOpTime.  *)
Tick(d) ==
    /\ wall + d <= LastTime
    /\ \A o \in Ops : pc[o] # "idle" => wall + d - at[o] <= MaxOpTime
    /\ wall' = wall + d
    /\ UNCHANGED <<ahead, checked, keyFile, diskVars, memVars, opVars>>

(* The administrator replaces or removes license.key. *)
ChangeKeyFile ==
    /\ keyFile' \in Optional(KeyFiles) \ {keyFile}
    /\ UNCHANGED <<wall, ahead, checked, diskVars, memVars, opVars>>

(* The process stops: between operations, or by a crash in one. *)
Stop ==
    /\ running
    /\ Quiet \/ "crash" \in Faults
    /\ running' = FALSE
    /\ FreshProcess
    /\ \/ UNCHANGED mirror
       \/ /\ "mirrorTorn" \in Faults
          /\ \E o \in Ops : pc[o] = "mirroring"
          /\ mirror' = Torn
    /\ UNCHANGED <<envVars, db>>

(* The database is rebuilt; the hidden file goes with its volume. *)
LoseDb ==
    /\ "dbLoss" \in Faults
    /\ db # None
    /\ db' = None
    /\ UNCHANGED <<envVars, mirror, memVars, opVars>>

LoseMirror ==
    /\ "mirrorLoss" \in Faults
    /\ mirror # None
    /\ mirror' = None
    /\ UNCHANGED <<envVars, db, memVars, opVars>>

(* The clock is moved between operations, and only after a refresh has     *)
(* seen it where it was.                                                   *)
JumpAhead(d) ==
    /\ "jump" \in Faults
    /\ Quiet /\ checked
    /\ ahead = 0 /\ wall + d <= LastTime
    /\ wall' = wall + d /\ ahead' = d /\ checked' = FALSE
    /\ UNCHANGED <<keyFile, diskVars, memVars, opVars>>

SetBack(d) ==
    /\ "setBack" \in Faults
    /\ Quiet /\ checked
    /\ ahead = 0
    /\ wall' = wall - d /\ ahead' = -d /\ checked' = FALSE
    /\ UNCHANGED <<keyFile, diskVars, memVars, opVars>>

(* The clock is put right, at once. *)
RepairClock ==
    /\ Quiet
    /\ ahead # 0 /\ wall - ahead <= LastTime
    /\ wall' = wall - ahead /\ ahead' = 0 /\ checked' = FALSE
    /\ UNCHANGED <<keyFile, diskVars, memVars, opVars>>

Step(o) ==
    \/ ReadStore(o) \/ FailRead(o)
    \/ Load(o) \/ SeeTornMirror(o) \/ LoadWithoutMirror(o)
    \/ Inspect(o) \/ Judge(o)
    \/ ApplySave(o) \/ ApplyReset(o) \/ ReturnPeek(o)
    \/ WriteStore(o) \/ FailWrite(o) \/ WriteMirror(o)

Fault ==
    \/ LoseDb \/ LoseMirror
    \/ \E d \in Jumps : JumpAhead(d)
    \/ \E d \in SetBacks : SetBack(d)

Next ==
    \/ \E o \in Ops : Step(o) \/ Boot(o) \/ GetState(o)
    \/ \E o \in Ops, k \in Kinds \ {"refresh"} : Call(o, k)
    \/ \E d \in Steps : Tick(d)
    \/ ChangeKeyFile \/ Stop \/ RepairClock
    \/ Fault

Spec == Init /\ [][Next]_vars

(* The awaits of an operation end, logins keep coming, and not every read  *)
(* of the store fails.                                                     *)
FairSpec ==
    /\ Spec
    /\ \A o \in Ops : WF_vars(Step(o)) /\ SF_vars(ReadStore(o)) /\ SF_vars(GetState(o))

-----------------------------------------------------------------------------
(* Properties *)

(* The identity of a deployment, once it is in the database, is never      *)
(* replaced by another one: no failed read, crash or lost mirror makes the *)
(* manager write a fresh install id or drop the binding                    *)
(* (manager.ts persist and loadPersisted).                                 *)
KeepsIdentity ==
    db # None /\ db' # None =>
        /\ db'.installId = db.installId
        /\ db.boundFingerprint # None => db'.boundFingerprint = db.boundFingerprint

IdentityKept == [][KeepsIdentity]_db

(* Nor are the credentials it has: that of the trial, with the identity    *)
(* our server knows it by, and the copy of the last good key file, which   *)
(* serves when the file is gone (saveTrialIdentity, doRefresh).            *)
KeepsCredentials ==
    db # None /\ db' # None =>
        /\ db.trialCredential # None => db'.trialCredential # None
        /\ db.lastCredential # None => db'.lastCredential # None

CredentialsKept == [][KeepsCredentials]_db

(* The trial start on disk: the stricter of the two copies. *)
TrialStart ==
    Earlier(IF db = None THEN None ELSE db.trialStartedAt,
            IF MirrorReadable THEN mirror.trialStartedAt ELSE None)

(* A trial cannot be started over: while one of the two copies of its      *)
(* start survives, no later one takes its place, whatever is written,      *)
(* fails to be written or is lost (store and mirror of persist, merged by  *)
(* loadPersisted).                                                         *)
TrialStartKept ==
    [][TrialStart # None /\ TrialStart' # None => TrialStart' <= TrialStart]_diskVars

(* The fingerprint a record is bound to is that of its own install id: the *)
(* comparison of resolveFingerprint can never fail.                        *)
BoundToSelf ==
    \A r \in {db, persisted} \ {None} :
        r.boundFingerprint \in {None, r.installId}

(* The key file the state was judged on is a formal one of ours, in term   *)
(* at the time the refresh read.                                           *)
Entitled ==
    /\ basis.file # None
    /\ Verified(basis.file)
    /\ LET p == Cred[basis.file].payload
       IN  /\ p.typ = "formal" /\ p.ours
           /\ p.start <= basis.at
           /\ p.end # None => basis.at < p.end

(* A customer whose key file is good is never locked out while the clock   *)
(* only runs forward: no failed read or write, lost database, stale mirror *)
(* or slow operation turns into a clock alarm (doRefresh, checkClock).     *)
EntitledNotBlocked == Entitled => ~state.loginBlocked

(* A clock that was put ahead and put right again blocks nobody once a     *)
(* refresh has seen it right: through the store, the mirror and the cache  *)
(* the ticket to undo the jump stays with the raised watermark             *)
(* (checkClock, persist, loadPersisted).                                   *)
ForwardFaultHeals ==
    checked /\ ahead = 0 => state.invalidReason # "clock_rollback"

(* In a process that stays up, a key file put in place is judged in the    *)
(* end, without a restart, if it stays (getState, refresh).                *)
KeyFileServed ==
    <>[]running =>
        \A f \in Optional(KeyFiles) :
            keyFile = f ~> (keyFile # f \/ (basis.file = f /\ basis.at # None))

(* A record made up for a store that could not be read is given up: a      *)
(* process that stays up gets back to the real one (loadPersisted,         *)
(* isStateAuthoritative).                                                  *)
AuthorityReturns == <>[]running => (readFailed ~> ~readFailed)
=============================================================================
