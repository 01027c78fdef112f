------------------------ MODULE LicenseManagerProofs ------------------------
(***************************************************************************)
(* Proofs about the license manager, for any number of operations under    *)
(* way, any credentials and any faults.                                    *)
(***************************************************************************)
EXTENDS LicenseManager, ClockLemmas

-----------------------------------------------------------------------------
(* What the operators on records and credentials return. *)

(* The absent values are no records, times or names. *)
LEMMA RecordIsNotNone ==
    /\ None \notin Record /\ Failed \notin Record /\ Failed # None
    /\ None \notin MirrorRecord /\ Torn \notin MirrorRecord
    /\ None \notin Int /\ None \notin CredIds /\ None \notin InstallIds
BY RecordAssumption, ClockAssumption, ManagerAssumption

(* The first record of an installation is a record. *)
LEMMA CreatedType ==
    ASSUME NEW id \in InstallIds, NEW now \in Int
    PROVE  CreateInitialState(id, now) \in Record
BY DEF CreateInitialState, Record, Optional

(* The earlier of two optional times is an optional time. *)
LEMMA EarlierType ==
    ASSUME NEW a \in Optional(Int), NEW b \in Optional(Int)
    PROVE  Earlier(a, b) \in Optional(Int)
BY DEF Earlier, Optional

(* Merging the mirror that was read into a record gives a record. *)
LEMMA MergeType ==
    ASSUME NEW r \in Record, mirror \in MirrorRecord \cup {None, Torn}
    PROVE  Merge(r) \in Record
<1>1. CASE ~MirrorReadable  BY <1>1 DEF Merge
<1>2. CASE MirrorReadable
  <2>1. mirror \in MirrorRecord  BY <1>2 DEF MirrorReadable
  <2>2. /\ mirror.installId \in InstallIds /\ mirror.trialStartedAt \in Optional(Int)
        /\ mirror.maxSeenTs \in Int /\ mirror.rollbackCount \in Nat
    BY <2>1 DEF MirrorRecord
  <2>3. r.trialStartedAt \in Optional(Int) /\ r.maxSeenTs \in Int /\ r.rollbackCount \in Nat
    BY DEF Record
  <2>4. Earlier(r.trialStartedAt, mirror.trialStartedAt) \in Optional(Int)
    BY <2>2, <2>3, EarlierType
  <2>5. Larger(r.maxSeenTs, mirror.maxSeenTs) \in Int
    BY <2>2, <2>3 DEF Larger
  <2>6. Larger(r.rollbackCount, mirror.rollbackCount) \in Nat
    BY <2>2, <2>3 DEF Larger
  <2> QED  BY <1>2, <2>2, <2>4, <2>5, <2>6 DEF Merge, Record
<1> QED  BY <1>1, <1>2

(* What is saved to the mirror is a mirror record. *)
LEMMA MirrorOfType ==
    ASSUME NEW r \in Record
    PROVE  MirrorOf(r) \in MirrorRecord
BY DEF MirrorOf, MirrorRecord, Record

(* A record's clock fields are a watermark. *)
LEMMA WatermarkOfType ==
    ASSUME NEW r \in Record
    PROVE  WatermarkOf(r) \in Watermark
BY DEF WatermarkOf, Watermark, Record

(* A record with another watermark is a record. *)
LEMMA WithWatermarkType ==
    ASSUME NEW r \in Record, NEW w \in Watermark
    PROVE  WithWatermark(r, w) \in Record
BY DEF WithWatermark, Watermark, Record

(* Decoding a credential, or none, gives a payload, or none. *)
LEMMA PayloadOfType ==
    ASSUME NEW c \in Optional(CredIds)
    PROVE  PayloadOf(c) \in Optional(Payload)
BY ManagerAssumption, RecordIsNotNone DEF PayloadOf, Optional

(* The tolerance of a payload, or its default, is a natural number. *)
LEMMA SkewTolOfType ==
    ASSUME NEW p \in Optional(Payload)
    PROVE  SkewTolOf(p) \in Nat
BY EvaluateAssumption DEF SkewTolOf, OrElse, Payload, Optional

(* The credential in force is the key file or one the record holds. *)
LEMMA ChosenType ==
    ASSUME NEW f \in Optional(KeyFiles), NEW r \in Record
    PROVE  Chosen(f, r) \in Optional(CredIds)
<1>1. r.lastCredential \in Optional(CredIds) /\ r.trialCredential \in Optional(CredIds)
  BY DEF Record
<1>2. KeyFiles \subseteq CredIds  BY ManagerAssumption
<1> QED  BY <1>1, <1>2 DEF Chosen, OrElse, Optional

(* Binding a record to the id of its own that a credential asks for gives a record. *)
LEMMA BindType ==
    ASSUME NEW r \in Record, NEW c
    PROVE  Bind(r, c) \in Record
BY DEF Bind, Record, Optional

(* Settling when the trial began gives a record. *)
LEMMA ResolveTrialStartType ==
    ASSUME NEW r \in Record, NEW f, NEW c, NEW now \in Int
    PROVE  ResolveTrialStart(r, f, c, now) \in Record
BY DEF ResolveTrialStart, Record, Optional

(* A whole refresh of a record gives a record. *)
LEMMA RefreshedType ==
    ASSUME NEW r \in Record, NEW f, NEW c \in Optional(CredIds), NEW now \in Int
    PROVE  Refreshed(r, f, c, now) \in Record
<1>1. SkewTolOf(PayloadOf(c)) \in Nat  BY PayloadOfType, SkewTolOfType
<1>2. NextWatermark(now, WatermarkOf(r), SkewTolOf(PayloadOf(c))) \in Watermark
  BY <1>1, WatermarkOfType, NextWatermarkType
<1>3. WithWatermark(Bind(r, c), NextWatermark(now, WatermarkOf(r), SkewTolOf(PayloadOf(c))))
        \in Record
  BY <1>2, BindType, WithWatermarkType
<1> QED  BY <1>3, ResolveTrialStartType DEF Refreshed

-----------------------------------------------------------------------------
(* The verdict is a state of the license, whatever it is judged on. *)

(* A status with its reason and its days left is a license state. *)
LEMMA StateType ==
    ASSUME NEW status \in Statuses, NEW reason \in Optional(Reasons),
           NEW days \in Optional(Int)
    PROVE  State(status, reason, days) \in LicenseState
<1>1. (Enforce /\ status \in BlockingStatuses) \in BOOLEAN  OBVIOUS
<1>2. (status \in {"trial_expiring", "formal_expiring"}) \in BOOLEAN  OBVIOUS
<1> QED  BY <1>1, <1>2 DEF State, LicenseState

(* Judging a term by its end gives a license state. *)
LEMMA TermType ==
    ASSUME NEW typ \in {"formal", "trial"}, NEW end \in Int,
           NEW warnDays \in Nat, NEW now \in Int
    PROVE  Term(typ, end, warnDays, now) \in LicenseState
<1> DEFINE remaining == CeilDiv(end - now, Day)
           phase == IF now >= end THEN "expired"
                    ELSE IF remaining <= warnDays THEN "expiring" ELSE "active"
           status == [formal |-> [active   |-> "formal_active",
                                  expiring |-> "formal_expiring",
                                  expired  |-> "formal_expired"],
                      trial  |-> [active   |-> "trial_active",
                                  expiring |-> "trial_expiring",
                                  expired  |-> "trial_expired"]][typ][phase]
<1>1. remaining \in Int  BY EvaluateAssumption DEF CeilDiv
<1>2. phase \in {"expired", "expiring", "active"}  OBVIOUS
<1>3. status \in Statuses
  <2> HIDE DEF phase
  <2> QED  BY <1>2 DEF Statuses, BlockingStatuses
<1>4. State(status, None, remaining) \in LicenseState
  <2> HIDE DEF status, remaining
  <2> QED  BY <1>1, <1>3, StateType DEF Optional
<1> QED  BY <1>4 DEF Term

(* Judging an installation that holds no credential gives a license state. *)
LEMMA EvaluateWithoutCredentialType ==
    ASSUME NEW now \in Int, NEW reason \in Optional(Reasons),
           NEW start \in Optional(Int)
    PROVE  EvaluateWithoutCredential(now, reason, start) \in LicenseState
<1>1. CASE reason # None
  <2>1. Invalid(reason) \in LicenseState
    BY StateType DEF Invalid, Optional, Statuses, BlockingStatuses
  <2> QED  BY <1>1, <2>1 DEF EvaluateWithoutCredential
<1>2. CASE reason = None /\ (~TrialEnabled \/ start = None)
  <2>1. State("missing", None, None) \in LicenseState
    BY StateType DEF Optional, Statuses, BlockingStatuses
  <2> QED  BY <1>2, <2>1 DEF EvaluateWithoutCredential
<1>3. CASE reason = None /\ ~(~TrialEnabled \/ start = None)
  <2>1. start + TrialDays * Day \in Int
    BY <1>3, EvaluateAssumption DEF Optional
  <2>2. Term("trial", start + TrialDays * Day, TrialWarnDays, now) \in LicenseState
    BY <2>1, TermType, EvaluateAssumption
  <2> QED  BY <1>3, <2>2 DEF EvaluateWithoutCredential
<1> QED  BY <1>1, <1>2, <1>3

(* The end of a payload, cut by the trial, is an optional time. *)
LEMMA ResolveEndType ==
    ASSUME NEW p \in Payload, NEW start \in Optional(Int)
    PROVE  ResolveEnd(p, start) \in Optional(Int)
<1>1. p.end \in Optional(Int)  BY DEF Payload
<1>2. CASE p.typ = "trial" /\ start # None
  <2>1. start + TrialDays * Day \in Optional(Int)
    BY <1>2, EvaluateAssumption DEF Optional
  <2> QED  BY <1>1, <1>2, <2>1, EarlierType DEF ResolveEnd
<1>3. CASE ~(p.typ = "trial" /\ start # None)
  BY <1>1, <1>3 DEF ResolveEnd
<1> QED  BY <1>2, <1>3

(* The days of warning of a payload, or their default, are a natural number. *)
LEMMA WarnDaysOfType ==
    ASSUME NEW p \in Payload
    PROVE  WarnDaysOf(p) \in Nat
BY EvaluateAssumption DEF WarnDaysOf, OrElse, Payload, Optional

(* Judging a credential gives a license state. *)
LEMMA EvaluateCredentialType ==
    ASSUME NEW now \in Int, NEW p \in Payload, NEW start \in Optional(Int)
    PROVE  EvaluateCredential(now, p, start) \in LicenseState
<1> DEFINE end == ResolveEnd(p, start)
           open == IF p.typ = "trial" THEN "trial_active" ELSE "formal_active"
<1>1. /\ Invalid("issuer") \in LicenseState
      /\ Invalid("not_yet_valid") \in LicenseState
  BY StateType DEF Invalid, Optional, Reasons, Statuses, BlockingStatuses
<1>2. State(open, None, None) \in LicenseState
  <2>1. open \in Statuses  BY DEF Statuses
  <2> HIDE DEF open
  <2> QED  BY <2>1, StateType DEF Optional
<1>3. ASSUME end # None
      PROVE  Term(p.typ, end, WarnDaysOf(p), now) \in LicenseState
  <2>1. end \in Int  BY <1>3, ResolveEndType DEF Optional
  <2>2. p.typ \in {"formal", "trial"}  BY DEF Payload
  <2> HIDE DEF end
  <2> QED  BY <2>1, <2>2, WarnDaysOfType, TermType
<1> QED  BY <1>1, <1>2, <1>3 DEF EvaluateCredential

(* Judging whatever was loaded gives a license state. *)
LEMMA EvaluateLicenseType ==
    ASSUME NEW now \in Int, NEW p \in Optional(Payload), NEW reason \in Optional(Reasons),
           NEW start \in Optional(Int), NEW clock
    PROVE  EvaluateLicense(now, p, reason, start, clock) \in LicenseState
<1>1. Invalid("clock_rollback") \in LicenseState
  BY StateType DEF Invalid, Optional, Reasons, Statuses, BlockingStatuses
<1>2. CASE p = None
  BY <1>1, <1>2, EvaluateWithoutCredentialType DEF EvaluateLicense
<1>3. CASE p # None
  <2>1. p \in Payload  BY <1>3 DEF Optional
  <2> QED  BY <1>1, <1>3, <2>1, EvaluateCredentialType DEF EvaluateLicense
<1> QED  BY <1>2, <1>3

(* The reason a credential is refused, if it is, is a known one. *)
LEMMA InvalidReasonOfType ==
    ASSUME NEW c \in Optional(CredIds)
    PROVE  InvalidReasonOf(c) \in Optional(Reasons)
BY ManagerAssumption DEF InvalidReasonOf, Verified, Optional, Reasons

-----------------------------------------------------------------------------
(* Type correctness.  It is inductive once every operation past its load   *)
(* is known to hold a record.                                              *)

Holding == {"tampered", "loaded", "judging", "writing", "mirroring"}

RecordsHeld == \A o \in Ops : pc[o] \in Holding => rec[o] \in Record

OpsOK ==
    /\ pc \in [Ops -> Points]
    /\ kind \in [Ops -> Kinds]
    /\ at \in [Ops -> Int]
    /\ snap \in [Ops -> Record \cup {None, Failed}]
    /\ rec \in [Ops -> Optional(Record)]
    /\ file \in [Ops -> Optional(KeyFiles)]
    /\ RecordsHeld

TypeInv == TypeOK /\ RecordsHeld

(* A call that begins keeps the types of the operations. *)
LEMMA BeginKeepsOps ==
    ASSUME TypeInv, NEW o \in Ops, NEW k \in Kinds, Begin(o, k)
    PROVE  OpsOK'
<1>1. /\ kind' \in [Ops -> Kinds] /\ at' \in [Ops -> Int]
      /\ rec' \in [Ops -> Optional(Record)]
      /\ snap' \in [Ops -> Record \cup {None, Failed}]
      /\ file' \in [Ops -> Optional(KeyFiles)]
  BY DEF TypeInv, TypeOK, Begin, Optional
<1>2. pc' \in [Ops -> Points]
  BY DEF TypeInv, TypeOK, Begin, Points
<1>3. RecordsHeld'
  BY DEF TypeInv, TypeOK, RecordsHeld, Begin, Holding, Optional
<1> QED  BY <1>1, <1>2, <1>3 DEF OpsOK

(* So does one that ends. *)
LEMMA RetireKeepsOps ==
    ASSUME TypeInv, NEW o \in Ops, Retire(o)
    PROVE  OpsOK'
<1>1. /\ kind' \in [Ops -> Kinds] /\ at' \in [Ops -> Int]
      /\ rec' \in [Ops -> Optional(Record)]
      /\ snap' \in [Ops -> Record \cup {None, Failed}]
      /\ file' \in [Ops -> Optional(KeyFiles)]
  BY DEF TypeInv, TypeOK, Retire, Optional, Kinds
<1>2. pc' \in [Ops -> Points]
  BY DEF TypeInv, TypeOK, Retire, Points
<1>3. RecordsHeld'
  BY DEF TypeInv, TypeOK, RecordsHeld, Retire, Holding
<1> QED  BY <1>1, <1>2, <1>3 DEF OpsOK

(* So does a refresh that begins on its own or after a save. *)
LEMMA BeginRefreshKeepsTypes ==
    ASSUME TypeInv, NEW o \in Ops, BeginRefresh(o)
    PROVE  OpsOK' /\ lastChecked' \in Optional(Int) /\ refreshing' \in Optional(Ops)
<1>1. OpsOK'
  BY BeginKeepsOps DEF BeginRefresh, Kinds
<1>2. lastChecked' \in Optional(Int) /\ refreshing' \in Optional(Ops)
  BY DEF TypeInv, TypeOK, BeginRefresh, Optional
<1> QED  BY <1>1, <1>2

(* The end of an operation, whatever it goes on with. *)
LEMMA ReturnKeepsTypes ==
    ASSUME TypeInv, NEW o \in Ops, Return(o)
    PROVE  OpsOK' /\ lastChecked' \in Optional(Int) /\ refreshing' \in Optional(Ops)
<1>1. CASE kind[o] = "refresh"
  <2>1. OpsOK'  BY <1>1, RetireKeepsOps DEF Return
  <2>2. lastChecked' \in Optional(Int) /\ refreshing' \in Optional(Ops)
    BY <1>1 DEF TypeInv, TypeOK, Return, Optional
  <2> QED  BY <2>1, <2>2
<1>2. CASE kind[o] # "refresh"
  BY <1>2, BeginRefreshKeepsTypes DEF Return
<1> QED  BY <1>1, <1>2

(* Both outcomes of persist keep the types. *)
LEMMA PersistKeepsTypes ==
    ASSUME TypeInv, NEW o \in Ops, NEW r \in Record, Persist(o, r)
    PROVE  /\ OpsOK' /\ lastChecked' \in Optional(Int) /\ refreshing' \in Optional(Ops)
           /\ persisted' \in Optional(Record)
<1>1. CASE readFailed
  BY <1>1, ReturnKeepsTypes DEF Persist, TypeInv, TypeOK
<1>2. CASE ~readFailed
  <2>1. persisted' \in Optional(Record)  BY <1>2 DEF Persist, Optional
  <2>2. /\ kind' \in [Ops -> Kinds] /\ at' \in [Ops -> Int]
        /\ snap' \in [Ops -> Record \cup {None, Failed}]
        /\ file' \in [Ops -> Optional(KeyFiles)]
        /\ lastChecked' \in Optional(Int) /\ refreshing' \in Optional(Ops)
    BY <1>2 DEF Persist, TypeInv, TypeOK
  <2>3. rec' \in [Ops -> Optional(Record)]
    BY <1>2 DEF Persist, TypeInv, TypeOK, Optional
  <2>4. pc' \in [Ops -> Points]  BY <1>2 DEF Persist, TypeInv, TypeOK, Points
  <2>5. RecordsHeld'
    BY <1>2 DEF Persist, TypeInv, TypeOK, RecordsHeld, Holding
  <2> QED  BY <2>1, <2>2, <2>3, <2>4, <2>5 DEF OpsOK
<1> QED  BY <1>1, <1>2

(* What a load goes on with is a record, whatever the store returned. *)
LEMMA BasesType ==
    ASSUME TypeInv, NEW o \in Ops, NEW base \in Bases(o)
    PROVE  base \in Record
<1>1. CASE snap[o] \notin {None, Failed}
  BY <1>1 DEF Bases, TypeInv, TypeOK
<1>2. CASE snap[o] \in {None, Failed}
  <2> DEFINE ids == IF MirrorReadable THEN {mirror.installId} ELSE FreshIds
  <2>1. ids \subseteq InstallIds
    BY DEF MirrorReadable, TypeInv, TypeOK, MirrorRecord, FreshIds
  <2>2. PICK id \in ids : base = CreateInitialState(id, at[o])
    BY <1>2 DEF Bases
  <2>3. at[o] \in Int  BY DEF TypeInv, TypeOK
  <2> QED  BY <2>1, <2>2, <2>3, CreatedType
<1> QED  BY <1>1, <1>2

(* A record becomes the cached one with its type. *)
LEMMA AdoptKeepsTypes ==
    ASSUME TypeInv, NEW o \in Ops, NEW r \in Record, Adopt(o, r)
    PROVE  OpsOK' /\ persisted' \in Optional(Record) /\ readFailed' \in BOOLEAN
<1>1. /\ kind' \in [Ops -> Kinds] /\ at' \in [Ops -> Int]
      /\ rec' \in [Ops -> Optional(Record)]
      /\ snap' \in [Ops -> Record \cup {None, Failed}]
      /\ file' \in [Ops -> Optional(KeyFiles)]
  BY DEF TypeInv, TypeOK, Adopt, Optional
<1>2. pc' \in [Ops -> Points]
  BY DEF TypeInv, TypeOK, Adopt, Points
<1>3. RecordsHeld'
  BY DEF TypeInv, TypeOK, RecordsHeld, Adopt, Holding
<1>4. persisted' \in Optional(Record)  BY DEF TypeInv, TypeOK, Adopt, Optional
<1>5. readFailed' \in BOOLEAN  BY DEF Adopt
<1> QED  BY <1>1, <1>2, <1>3, <1>4, <1>5 DEF OpsOK

(* The fields of a process just started. *)
LEMMA FreshProcessTypes ==
    ASSUME FreshProcess
    PROVE  /\ OpsOK'
           /\ persisted' \in Optional(Record) /\ readFailed' \in BOOLEAN
           /\ lastChecked' \in Optional(Int) /\ refreshing' \in Optional(Ops)
           /\ state' \in LicenseState
           /\ basis' \in [file : Optional(KeyFiles), at : Optional(Int)]
<1>1. OpsOK'
  BY DEF FreshProcess, OpsOK, RecordsHeld, Holding, Optional, Points, Kinds
<1>2. Checking \in LicenseState
  BY DEF Checking, LicenseState, Statuses, Optional
<1> QED  BY <1>1, <1>2 DEF FreshProcess, Optional

(* A refresh leaves a state and a record. *)
LEMMA JudgeKeepsTypes ==
    ASSUME TypeInv, NEW o \in Ops, Judge(o)
    PROVE  TypeInv'
<1> DEFINE c    == Chosen(file[o], rec[o])
           next == Refreshed(rec[o], file[o], c, at[o])
<1>1. rec[o] \in Record /\ file[o] \in Optional(KeyFiles) /\ at[o] \in Int
  BY DEF Judge, TypeInv, TypeOK, RecordsHeld, Holding
<1>2. c \in Optional(CredIds)  BY <1>1, ChosenType
<1>3. next \in Record
  <2> HIDE DEF c
  <2> QED  BY <1>1, <1>2, RefreshedType
<1>4. state' = EvaluateLicense(at[o], PayloadOf(c), InvalidReasonOf(c),
                               next.trialStartedAt, WatermarkOf(rec[o]))
  BY DEF Judge
<1>5. state' \in LicenseState
  <2>1. next.trialStartedAt \in Optional(Int)  BY <1>3 DEF Record
  <2> HIDE DEF c, next
  <2> QED  BY <1>1, <1>2, <1>4, <2>1, PayloadOfType, InvalidReasonOfType, EvaluateLicenseType
<1>6. Persist(o, next)  BY DEF Judge
<1>7. /\ OpsOK' /\ lastChecked' \in Optional(Int) /\ refreshing' \in Optional(Ops)
      /\ persisted' \in Optional(Record)
  <2> HIDE DEF next
  <2> QED  BY <1>3, <1>6, PersistKeepsTypes
<1>8. /\ basis' \in [file : Optional(KeyFiles), at : Optional(Int)]
      /\ checked' \in BOOLEAN
  BY <1>1 DEF Judge, Optional
<1>9. UNCHANGED <<wall, ahead, keyFile, diskVars, running, readFailed>>  BY DEF Judge
<1> QED  BY <1>5, <1>7, <1>8, <1>9 DEF TypeInv, TypeOK, OpsOK, diskVars

(* The types hold before the process ever ran. *)
LEMMA TypeInit == Init => TypeInv
<1> SUFFICES ASSUME Init PROVE TypeInv  OBVIOUS
<1>1. Checking \in LicenseState
  BY DEF Checking, LicenseState, Statuses, Optional
<1>2. RecordsHeld  BY DEF Init, RecordsHeld, Holding
<1>3. /\ pc \in [Ops -> Points] /\ kind \in [Ops -> Kinds] /\ at \in [Ops -> Int]
      /\ snap \in [Ops -> Record \cup {None, Failed}]
      /\ rec \in [Ops -> Optional(Record)] /\ file \in [Ops -> Optional(KeyFiles)]
  BY DEF Init, Optional, Points, Kinds
<1>4. /\ wall \in Int /\ ahead \in Int /\ keyFile \in Optional(KeyFiles)
      /\ db \in Optional(Record) /\ mirror \in MirrorRecord \cup {None, Torn}
      /\ persisted \in Optional(Record) /\ lastChecked \in Optional(Int)
      /\ refreshing \in Optional(Ops) /\ state \in LicenseState
      /\ basis \in [file : Optional(KeyFiles), at : Optional(Int)]
  BY <1>1 DEF Init, Optional
<1>5. checked \in BOOLEAN /\ running \in BOOLEAN /\ readFailed \in BOOLEAN
  BY DEF Init
<1> QED  BY <1>2, <1>3, <1>4, <1>5 DEF TypeInv, TypeOK

(* Each await of an operation keeps the types. *)
LEMMA TypeStep ==
    ASSUME TypeInv, NEW o \in Ops, Step(o)
    PROVE  TypeInv'
<1> USE DEF envVars, diskVars, memVars
<1>1. CASE ReadStore(o)
  BY <1>1 DEF ReadStore, TypeInv, TypeOK, RecordsHeld, Holding, Points, Optional
<1>2. CASE FailRead(o)
  BY <1>2 DEF FailRead, TypeInv, TypeOK, RecordsHeld, Holding, Points
<1>3. CASE Load(o)
  <2>1. PICK base \in Bases(o) : Adopt(o, Merge(base))  BY <1>3 DEF Load
  <2>2. Merge(base) \in Record  BY BasesType, MergeType DEF TypeInv, TypeOK
  <2>3. OpsOK' /\ persisted' \in Optional(Record) /\ readFailed' \in BOOLEAN
    BY <2>1, <2>2, AdoptKeepsTypes
  <2>4. UNCHANGED <<envVars, diskVars, running, lastChecked, refreshing, state, basis>>
    BY <2>1 DEF Adopt
  <2> QED  BY <2>3, <2>4 DEF TypeInv, TypeOK, OpsOK
<1>4. CASE SeeTornMirror(o)
  <2>1. PICK base \in Bases(o) : rec' = [rec EXCEPT ![o] = base]
    BY <1>4 DEF SeeTornMirror
  <2>2. base \in Record  BY BasesType
  <2>3. rec' \in [Ops -> Optional(Record)]
    BY <2>1, <2>2 DEF TypeInv, TypeOK, Optional
  <2>4. pc' \in [Ops -> Points]  BY <1>4 DEF SeeTornMirror, TypeInv, TypeOK, Points
  <2>5. RecordsHeld'
    BY <1>4, <2>1, <2>2 DEF SeeTornMirror, TypeInv, TypeOK, RecordsHeld, Holding
  <2> QED  BY <1>4, <2>3, <2>4, <2>5 DEF SeeTornMirror, TypeInv, TypeOK
<1>5. CASE LoadWithoutMirror(o)
  <2>1. rec[o] \in Record
    BY <1>5 DEF LoadWithoutMirror, TypeInv, RecordsHeld, Holding
  <2>2. OpsOK' /\ persisted' \in Optional(Record) /\ readFailed' \in BOOLEAN
    BY <1>5, <2>1, AdoptKeepsTypes DEF LoadWithoutMirror
  <2>3. UNCHANGED <<envVars, diskVars, running, lastChecked, refreshing, state, basis>>
    BY <1>5 DEF LoadWithoutMirror, Adopt
  <2> QED  BY <2>2, <2>3 DEF TypeInv, TypeOK, OpsOK
<1>6. CASE Inspect(o)
  <2>1. rec[o] \in Record
    BY <1>6 DEF Inspect, TypeInv, RecordsHeld, Holding
  <2>2. rec' \in [Ops -> Optional(Record)] /\ rec'[o] \in Record
        /\ \A p \in Ops \ {o} : rec'[p] = rec[p]
    <3>1. CASE keyFile # None /\ Verified(keyFile)
      <4>1. keyFile \in Optional(CredIds)
        BY ManagerAssumption DEF TypeInv, TypeOK, Optional
      <4>2. [rec[o] EXCEPT !.lastCredential = keyFile] \in Record
        BY <2>1, <4>1 DEF Record
      <4>3. rec' = [rec EXCEPT ![o] = [rec[o] EXCEPT !.lastCredential = keyFile]]
        BY <1>6, <3>1 DEF Inspect
      <4> QED  BY <4>2, <4>3 DEF TypeInv, TypeOK, Optional
    <3>2. CASE ~(keyFile # None /\ Verified(keyFile))
      BY <1>6, <2>1, <3>2 DEF Inspect, TypeInv, TypeOK
    <3> QED  BY <3>1, <3>2
  <2>3. pc' \in [Ops -> Points] /\ file' \in [Ops -> Optional(KeyFiles)]
    BY <1>6 DEF Inspect, TypeInv, TypeOK, Points
  <2>4. RecordsHeld'
    BY <1>6, <2>2 DEF Inspect, TypeInv, TypeOK, RecordsHeld, Holding
  <2> QED  BY <1>6, <2>2, <2>3, <2>4 DEF Inspect, TypeInv, TypeOK
<1>7. CASE Judge(o)  BY <1>7, JudgeKeepsTypes
<1>8. CASE ApplySave(o)
  <2>1. PICK c \in TrialCreds : Persist(o, [rec[o] EXCEPT !.trialCredential = c])
    BY <1>8 DEF ApplySave
  <2>2. [rec[o] EXCEPT !.trialCredential = c] \in Record
    BY <1>8, ManagerAssumption
    DEF ApplySave, TypeInv, RecordsHeld, Holding, Record, Optional
  <2>3. /\ OpsOK' /\ lastChecked' \in Optional(Int) /\ refreshing' \in Optional(Ops)
        /\ persisted' \in Optional(Record)
    BY <2>1, <2>2, PersistKeepsTypes
  <2> QED  BY <1>8, <2>3 DEF ApplySave, TypeInv, TypeOK, OpsOK
<1>9. CASE ApplyReset(o)
  <2>1. WithWatermark(rec[o], FirstWatermark(at[o])) \in Record
    BY <1>9, WithWatermarkType, FirstWatermarkType
    DEF ApplyReset, TypeInv, TypeOK, RecordsHeld, Holding
  <2>2. /\ OpsOK' /\ lastChecked' \in Optional(Int) /\ refreshing' \in Optional(Ops)
        /\ persisted' \in Optional(Record)
    BY <1>9, <2>1, PersistKeepsTypes DEF ApplyReset
  <2> QED  BY <1>9, <2>2 DEF ApplyReset, TypeInv, TypeOK, OpsOK
<1>10. CASE ReturnPeek(o)
  <2>1. OpsOK'  BY <1>10, RetireKeepsOps DEF ReturnPeek
  <2> QED  BY <1>10, <2>1 DEF ReturnPeek, TypeInv, TypeOK, OpsOK
<1>11. CASE WriteStore(o)
  BY <1>11 DEF WriteStore, TypeInv, TypeOK, RecordsHeld, Holding, Points, Optional
<1>12. CASE FailWrite(o)
  BY <1>12 DEF FailWrite, TypeInv, TypeOK, RecordsHeld, Holding, Points
<1>13. CASE WriteMirror(o)
  <2>1. MirrorOf(rec[o]) \in MirrorRecord
    BY <1>13, MirrorOfType DEF WriteMirror, TypeInv, RecordsHeld, Holding
  <2>2. mirror' \in MirrorRecord \cup {None, Torn}
    BY <1>13, <2>1 DEF WriteMirror, TypeInv, TypeOK
  <2>3. OpsOK' /\ lastChecked' \in Optional(Int) /\ refreshing' \in Optional(Ops)
    BY <1>13, ReturnKeepsTypes DEF WriteMirror
  <2> QED  BY <1>13, <2>2, <2>3 DEF WriteMirror, TypeInv, TypeOK, OpsOK
<1> QED
  BY <1>1, <1>2, <1>3, <1>4, <1>5, <1>6, <1>7, <1>8, <1>9, <1>10, <1>11, <1>12, <1>13
  DEF Step

(* The types survive every step, call, fault and crash. *)
LEMMA TypeNext ==
    ASSUME TypeInv, [Next]_vars
    PROVE  TypeInv'
<1> USE DEF envVars, diskVars, memVars, opVars
<1>1. CASE \E o \in Ops : Step(o)  BY <1>1, TypeStep
<1>2. CASE \E o \in Ops : Boot(o) \/ GetState(o)
  <2>1. PICK o \in Ops : Boot(o) \/ GetState(o)  BY <1>2
  <2>2. OpsOK' /\ lastChecked' \in Optional(Int) /\ refreshing' \in Optional(Ops)
    BY <2>1, BeginRefreshKeepsTypes DEF Boot, GetState
  <2>3. running' \in BOOLEAN  BY <2>1 DEF Boot, GetState, TypeInv, TypeOK
  <2>4. UNCHANGED <<envVars, diskVars, persisted, readFailed, state, basis>>
    BY <2>1 DEF Boot, GetState
  <2> QED  BY <2>2, <2>3, <2>4 DEF TypeInv, TypeOK, OpsOK
<1>3. CASE \E o \in Ops, k \in Kinds \ {"refresh"} : Call(o, k)
  <2>1. PICK o \in Ops, k \in Kinds \ {"refresh"} : Call(o, k)  BY <1>3
  <2>2. OpsOK'  BY <2>1, BeginKeepsOps DEF Call
  <2> QED  BY <2>1, <2>2 DEF Call, TypeInv, TypeOK, OpsOK
<1>4. CASE \E d \in Steps : Tick(d)
  BY <1>4, ManagerAssumption DEF Tick, TypeInv, TypeOK, RecordsHeld
<1>5. CASE ChangeKeyFile
  BY <1>5 DEF ChangeKeyFile, TypeInv, TypeOK, RecordsHeld
<1>6. CASE Stop
  <2>1. /\ OpsOK'
        /\ persisted' \in Optional(Record) /\ readFailed' \in BOOLEAN
        /\ lastChecked' \in Optional(Int) /\ refreshing' \in Optional(Ops)
        /\ state' \in LicenseState
        /\ basis' \in [file : Optional(KeyFiles), at : Optional(Int)]
    BY <1>6, FreshProcessTypes DEF Stop
  <2>2. /\ mirror' \in MirrorRecord \cup {None, Torn} /\ running' \in BOOLEAN
        /\ UNCHANGED <<envVars, db>>
    BY <1>6 DEF Stop, TypeInv, TypeOK
  <2> QED  BY <2>1, <2>2 DEF TypeInv, TypeOK, OpsOK
<1>7. CASE RepairClock
  <2>1. wall' \in Int /\ ahead' \in Int
    BY <1>7 DEF RepairClock, TypeInv, TypeOK
  <2>2. checked' \in BOOLEAN  BY <1>7 DEF RepairClock
  <2>3. UNCHANGED <<keyFile, diskVars, memVars, opVars>>  BY <1>7 DEF RepairClock
  <2> QED  BY <2>1, <2>2, <2>3 DEF TypeInv, TypeOK, RecordsHeld
<1>8. CASE Fault
  <2>1. CASE LoseDb \/ LoseMirror
    BY <2>1 DEF LoseDb, LoseMirror, TypeInv, TypeOK, RecordsHeld, Optional
  <2>2. CASE \E d \in Jumps : JumpAhead(d)
    <3>1. wall' \in Int /\ ahead' \in Int
      BY <2>2, ManagerAssumption DEF JumpAhead, TypeInv, TypeOK
    <3>2. checked' \in BOOLEAN  BY <2>2 DEF JumpAhead
    <3>3. UNCHANGED <<keyFile, diskVars, memVars, opVars>>  BY <2>2 DEF JumpAhead
    <3> QED  BY <3>1, <3>2, <3>3 DEF TypeInv, TypeOK, RecordsHeld
  <2>3. CASE \E d \in SetBacks : SetBack(d)
    <3>1. wall' \in Int /\ ahead' \in Int
      BY <2>3, ManagerAssumption DEF SetBack, TypeInv, TypeOK
    <3>2. checked' \in BOOLEAN  BY <2>3 DEF SetBack
    <3>3. UNCHANGED <<keyFile, diskVars, memVars, opVars>>  BY <2>3 DEF SetBack
    <3> QED  BY <3>1, <3>2, <3>3 DEF TypeInv, TypeOK, RecordsHeld
  <2> QED  BY <1>8, <2>1, <2>2, <2>3 DEF Fault
<1>9. CASE UNCHANGED vars
  BY <1>9 DEF vars, TypeInv, TypeOK, RecordsHeld
<1> QED
  BY <1>1, <1>2, <1>3, <1>4, <1>5, <1>6, <1>7, <1>8, <1>9 DEF Next

(* The types, and that records are where the await needs them. *)
LEMMA TypeInvariant == Spec => []TypeInv
BY TypeInit, TypeNext, PTL DEF Spec

(* Type correctness of the manager: what it stores, caches and holds in    *)
(* flight are records, whatever fails and however operations interleave.   *)
THEOREM TypeCorrect == Spec => []TypeOK
BY TypeInvariant, PTL DEF TypeInv

-----------------------------------------------------------------------------
(* A clock that only runs forward raises no alarm.  Operations overlap and *)
(* fail, records are merged from copies of different ages, but no copy of  *)
(* the watermark is ever ahead of the clock, and no operation reads the    *)
(* clock earlier than MaxOpTime before it judges: within the tolerance.    *)

ClockNeverMoved ==
    /\ "jump" \notin Faults /\ "setBack" \notin Faults
    /\ DefaultSkewTol >= MaxOpTime
    /\ \A c \in CredIds : SkewTolOf(PayloadOf(c)) >= MaxOpTime

NotAfter(r, t) == r \in Record => r.maxSeenTs <= t

TimesInv ==
    /\ ahead = 0
    /\ \A o \in Ops : pc[o] # "idle" => at[o] <= wall /\ wall - at[o] <= MaxOpTime

MarksInv ==
    /\ NotAfter(db, wall)
    /\ NotAfter(persisted, wall)
    /\ mirror \in MirrorRecord => mirror.maxSeenTs <= wall
    /\ \A o \in Ops : NotAfter(snap[o], wall) /\ NotAfter(rec[o], wall)

ClockInv == TypeInv /\ TimesInv /\ MarksInv

(* The longest an operation may take is a natural number. *)
LEMMA MaxOpTimeType == MaxOpTime \in Nat
BY ManagerAssumption

(* The larger of two watermarks that are not ahead is not ahead. *)
LEMMA MergeNotAfter ==
    ASSUME TypeInv, MarksInv, NEW r \in Record, NotAfter(r, wall)
    PROVE  NotAfter(Merge(r), wall)
<1>1. CASE ~MirrorReadable  BY <1>1 DEF Merge
<1>2. CASE MirrorReadable
  <2>1. mirror \in MirrorRecord  BY <1>2 DEF MirrorReadable, TypeInv, TypeOK
  <2>2. mirror.maxSeenTs \in Int /\ mirror.maxSeenTs <= wall
    BY <2>1 DEF MarksInv, MirrorRecord
  <2>3. r.maxSeenTs \in Int /\ r.maxSeenTs <= wall  BY DEF NotAfter, Record
  <2>4. Merge(r).maxSeenTs = Larger(r.maxSeenTs, mirror.maxSeenTs)
    BY <1>2 DEF Merge, Record
  <2>5. Larger(r.maxSeenTs, mirror.maxSeenTs) <= wall  BY <2>2, <2>3 DEF Larger
  <2> QED  BY <2>4, <2>5 DEF NotAfter
<1> QED  BY <1>1, <1>2

(* What a load goes on with is not ahead of the clock. *)
LEMMA BasesNotAfter ==
    ASSUME ClockInv, NEW o \in Ops, pc[o] = "read", NEW base \in Bases(o)
    PROVE  NotAfter(base, wall)
<1>1. CASE snap[o] \notin {None, Failed}
  BY <1>1 DEF Bases, ClockInv, MarksInv
<1>2. CASE snap[o] \in {None, Failed}
  <2>1. PICK id : base = CreateInitialState(id, at[o])  BY <1>2 DEF Bases
  <2>2. at[o] <= wall  BY DEF ClockInv, TimesInv
  <2> QED  BY <2>1, <2>2 DEF CreateInitialState, NotAfter
<1> QED  BY <1>1, <1>2

(* A refresh that reads a watermark not after now plus the tolerance does  *)
(* not reject, and leaves a watermark that is no later than both.          *)
LEMMA ForwardCheck ==
    ASSUME NEW now \in Int, NEW w \in Watermark, NEW tol \in Nat, NEW t \in Int,
           w.maxSeenTs - now <= tol, w.maxSeenTs <= t, now <= t
    PROVE  ~Rejected(now, w, tol) /\ NextWatermark(now, w, tol).maxSeenTs <= t
<1>1. Forward(now, w, tol)  BY DEF Forward
<1>2. CASE NextWatermark(now, w, tol) = Clamp(now, w) /\ ~Rejected(now, w, tol)
  BY <1>2 DEF Clamp, Watermark
<1>3. CASE NextWatermark(now, w, tol) = Advance(now, w, tol) /\ ~Rejected(now, w, tol)
  BY <1>3 DEF Advance, Watermark
<1> QED  BY <1>1, <1>2, <1>3, OutcomeCases

(* Starting the trial leaves the watermark alone. *)
LEMMA TrialStartKeepsWatermark ==
    ASSUME NEW r \in Record, NEW f, NEW c, NEW now
    PROVE  ResolveTrialStart(r, f, c, now).maxSeenTs = r.maxSeenTs
BY DEF ResolveTrialStart, Record

(* The watermark a refresh leaves is that of its check. *)
LEMMA RefreshedWatermark ==
    ASSUME NEW r \in Record, NEW f, NEW c \in Optional(CredIds), NEW now \in Int
    PROVE  Refreshed(r, f, c, now).maxSeenTs =
             NextWatermark(now, WatermarkOf(r), SkewTolOf(PayloadOf(c))).maxSeenTs
<1> DEFINE w == NextWatermark(now, WatermarkOf(r), SkewTolOf(PayloadOf(c)))
           b == Bind(r, c)
<1>1. b \in Record  BY BindType
<1>2. WithWatermark(b, w).maxSeenTs = w.maxSeenTs
  <2> HIDE DEF w, b
  <2> QED  BY <1>1 DEF WithWatermark, Record
<1>3. WithWatermark(b, w) \in Record
  BY <1>1, WatermarkOfType, PayloadOfType, SkewTolOfType, NextWatermarkType, WithWatermarkType
<1>4. ResolveTrialStart(WithWatermark(b, w), f, c, now).maxSeenTs = WithWatermark(b, w).maxSeenTs
  BY <1>3, TrialStartKeepsWatermark
<1> QED  BY <1>2, <1>4 DEF Refreshed

(* The check a refresh makes, under a clock that was never moved. *)
LEMMA JudgedForward ==
    ASSUME ClockNeverMoved, ClockInv, NEW o \in Ops, pc[o] = "judging"
    PROVE  LET c == Chosen(file[o], rec[o])
           IN  /\ ~Rejected(at[o], WatermarkOf(rec[o]), SkewTolOf(PayloadOf(c)))
               /\ Refreshed(rec[o], file[o], c, at[o]).maxSeenTs <= wall
<1> DEFINE c   == Chosen(file[o], rec[o])
           tol == SkewTolOf(PayloadOf(c))
<1>1. rec[o] \in Record /\ file[o] \in Optional(KeyFiles) /\ at[o] \in Int /\ wall \in Int
  BY DEF ClockInv, TypeInv, TypeOK, RecordsHeld, Holding
<1>2. c \in Optional(CredIds)  BY <1>1, ChosenType
<1>3. tol \in Nat /\ tol >= MaxOpTime
  <2>1. tol \in Nat  BY <1>2, PayloadOfType, SkewTolOfType
  <2>2. c = None => tol >= MaxOpTime
    BY DEF ClockNeverMoved, PayloadOf, SkewTolOf
  <2>3. c \in CredIds => tol >= MaxOpTime
    <3> HIDE DEF c
    <3> QED  BY DEF ClockNeverMoved
  <2> QED  BY <1>2, <2>1, <2>2, <2>3 DEF Optional
<1>4. at[o] <= wall /\ wall - at[o] <= MaxOpTime /\ rec[o].maxSeenTs <= wall
  BY <1>1 DEF ClockInv, TimesInv, MarksInv, NotAfter
<1>5. /\ WatermarkOf(rec[o]) \in Watermark
      /\ WatermarkOf(rec[o]).maxSeenTs = rec[o].maxSeenTs
      /\ rec[o].maxSeenTs \in Int
  BY <1>1, WatermarkOfType DEF WatermarkOf, Record
<1>6. WatermarkOf(rec[o]).maxSeenTs - at[o] <= tol
  <2> HIDE DEF tol
  <2> QED  BY <1>1, <1>3, <1>4, <1>5, MaxOpTimeType
<1>7. /\ ~Rejected(at[o], WatermarkOf(rec[o]), tol)
      /\ NextWatermark(at[o], WatermarkOf(rec[o]), tol).maxSeenTs <= wall
  <2> HIDE DEF tol
  <2> QED  BY <1>1, <1>3, <1>4, <1>5, <1>6, ForwardCheck
<1>8. Refreshed(rec[o], file[o], c, at[o]).maxSeenTs
        = NextWatermark(at[o], WatermarkOf(rec[o]), tol).maxSeenTs
  <2> HIDE DEF c
  <2> QED  BY <1>1, <1>2, RefreshedWatermark
<1> QED  BY <1>7, <1>8

(* What starts, ends or adopts a record keeps all copies behind the clock. *)
OpsBehind ==
    /\ \A p \in Ops : pc[p] # "idle" => at[p] <= wall /\ wall - at[p] <= MaxOpTime
    /\ \A p \in Ops : NotAfter(snap[p], wall) /\ NotAfter(rec[p], wall)

(* A call that begins reads the time now. *)
LEMMA BeginBehind ==
    ASSUME ClockInv, NEW o \in Ops, NEW k, Begin(o, k), wall' = wall
    PROVE  OpsBehind'
<1>1. wall \in Int  BY DEF ClockInv, TypeInv, TypeOK
<1>2. \A p \in Ops : pc'[p] # "idle" => at'[p] <= wall /\ wall - at'[p] <= MaxOpTime
  BY <1>1, MaxOpTimeType DEF Begin, ClockInv, TypeInv, TypeOK, TimesInv
<1>3. \A p \in Ops : NotAfter(snap'[p], wall) /\ NotAfter(rec'[p], wall)
  BY RecordIsNotNone DEF Begin, ClockInv, TypeInv, TypeOK, MarksInv, NotAfter
<1> QED  BY <1>2, <1>3 DEF OpsBehind, NotAfter

(* One that ends no longer counts. *)
LEMMA RetireBehind ==
    ASSUME ClockInv, NEW o \in Ops, Retire(o), wall' = wall
    PROVE  OpsBehind'
<1>1. \A p \in Ops : pc'[p] # "idle" => at'[p] <= wall /\ wall - at'[p] <= MaxOpTime
  BY DEF Retire, ClockInv, TypeInv, TypeOK, TimesInv
<1>2. \A p \in Ops : NotAfter(snap'[p], wall) /\ NotAfter(rec'[p], wall)
  BY RecordIsNotNone DEF Retire, ClockInv, TypeInv, TypeOK, MarksInv, NotAfter
<1> QED  BY <1>1, <1>2 DEF OpsBehind, NotAfter

(* A forced refresh after a save reads the time again. *)
LEMMA ReturnBehind ==
    ASSUME ClockInv, NEW o \in Ops, Return(o), wall' = wall
    PROVE  OpsBehind'
BY RetireBehind, BeginBehind DEF Return, BeginRefresh

(* A record that is not ahead is persisted not ahead. *)
LEMMA PersistBehind ==
    ASSUME ClockInv, NEW o \in Ops, pc[o] # "idle", NEW r \in Record, NotAfter(r, wall),
           Persist(o, r), wall' = wall
    PROVE  OpsBehind' /\ NotAfter(persisted', wall)
<1>1. CASE readFailed
  BY <1>1, ReturnBehind DEF Persist, ClockInv, MarksInv
<1>2. CASE ~readFailed
  <2>1. \A p \in Ops : pc'[p] # "idle" => at'[p] <= wall /\ wall - at'[p] <= MaxOpTime
    BY <1>2 DEF Persist, ClockInv, TypeInv, TypeOK, TimesInv
  <2>2. \A p \in Ops : NotAfter(snap'[p], wall) /\ NotAfter(rec'[p], wall)
    BY <1>2 DEF Persist, ClockInv, TypeInv, TypeOK, MarksInv
  <2>3. NotAfter(persisted', wall)  BY <1>2 DEF Persist
  <2> QED  BY <2>1, <2>2, <2>3 DEF OpsBehind, NotAfter
<1> QED  BY <1>1, <1>2

(* And cached not ahead. *)
LEMMA AdoptBehind ==
    ASSUME ClockInv, NEW o \in Ops, pc[o] # "idle", NEW r \in Record, NotAfter(r, wall),
           Adopt(o, r), wall' = wall
    PROVE  OpsBehind' /\ NotAfter(persisted', wall)
<1>1. \A p \in Ops : pc'[p] # "idle" => at'[p] <= wall /\ wall - at'[p] <= MaxOpTime
  BY DEF Adopt, ClockInv, TypeInv, TypeOK, TimesInv
<1>2. \A p \in Ops : NotAfter(snap'[p], wall) /\ NotAfter(rec'[p], wall)
  BY RecordIsNotNone DEF Adopt, ClockInv, TypeInv, TypeOK, MarksInv, NotAfter
<1>3. NotAfter(persisted', wall)  BY DEF Adopt, ClockInv, MarksInv
<1> QED  BY <1>1, <1>2, <1>3 DEF OpsBehind, NotAfter

(* Each await of an operation does. *)
LEMMA ClockStep ==
    ASSUME ClockNeverMoved, ClockInv, NEW o \in Ops, Step(o)
    PROVE  TimesInv' /\ MarksInv'
<1> USE DEF envVars, diskVars, memVars
<1>t. TypeInv  BY DEF ClockInv
<1>w. wall' = wall /\ ahead' = ahead
  BY DEF Step, ReadStore, FailRead, Load, SeeTornMirror, LoadWithoutMirror, Adopt, Inspect,
         Judge, ApplySave, ApplyReset, ReturnPeek, WriteStore, FailWrite, WriteMirror
<1>0. SUFFICES /\ OpsBehind'
               /\ NotAfter(db', wall) /\ NotAfter(persisted', wall)
               /\ mirror' \in MirrorRecord => mirror'.maxSeenTs <= wall
  BY <1>w DEF ClockInv, TimesInv, MarksInv, OpsBehind, NotAfter
<1> DEFINE Disk == /\ NotAfter(db', wall)
                   /\ mirror' \in MirrorRecord => mirror'.maxSeenTs <= wall
<1>d. ASSUME UNCHANGED diskVars PROVE Disk
  BY <1>d DEF ClockInv, MarksInv
<1>p. ASSUME UNCHANGED persisted PROVE NotAfter(persisted', wall)
  BY <1>p DEF ClockInv, MarksInv
<1>s. ASSUME UNCHANGED at,
             \A p \in Ops : pc'[p] # "idle" => pc[p] # "idle",
             \A p \in Ops : NotAfter(snap'[p], wall) /\ NotAfter(rec'[p], wall)
      PROVE  OpsBehind'
  BY <1>s, <1>w DEF OpsBehind, ClockInv, TimesInv, NotAfter
<1>1. CASE ReadStore(o) \/ FailRead(o)
  <2>1. \A p \in Ops : NotAfter(snap'[p], wall) /\ NotAfter(rec'[p], wall)
    BY <1>1, RecordIsNotNone
    DEF ReadStore, FailRead, ClockInv, TypeInv, TypeOK, MarksInv, NotAfter
  <2>2. \A p \in Ops : pc'[p] # "idle" => pc[p] # "idle"
    BY <1>1 DEF ReadStore, FailRead, ClockInv, TypeInv, TypeOK
  <2>3. UNCHANGED <<at, persisted, diskVars>>  BY <1>1 DEF ReadStore, FailRead
  <2> QED  BY <1>d, <1>p, <1>s, <2>1, <2>2, <2>3
<1>2. CASE Load(o)
  <2>1. PICK base \in Bases(o) : Adopt(o, Merge(base))  BY <1>2 DEF Load
  <2>2. base \in Record  BY <1>t, BasesType
  <2>3. Merge(base) \in Record  BY <2>2, MergeType, <1>t DEF TypeInv, TypeOK
  <2>4. NotAfter(base, wall)  BY <1>2, BasesNotAfter DEF Load
  <2>5. NotAfter(Merge(base), wall)
    BY <2>2, <2>4, <1>t, MergeNotAfter DEF ClockInv
  <2>6. OpsBehind' /\ NotAfter(persisted', wall)
    BY <1>2, <1>w, <2>1, <2>3, <2>5, AdoptBehind DEF Load
  <2>7. UNCHANGED diskVars  BY <2>1 DEF Adopt
  <2> QED  BY <1>d, <2>6, <2>7
<1>3. CASE SeeTornMirror(o)
  <2>1. PICK base \in Bases(o) : rec' = [rec EXCEPT ![o] = base]
    BY <1>3 DEF SeeTornMirror
  <2>2. NotAfter(base, wall)  BY <1>3, BasesNotAfter DEF SeeTornMirror
  <2>3. \A p \in Ops : NotAfter(snap'[p], wall) /\ NotAfter(rec'[p], wall)
    BY <1>3, <2>1, <2>2 DEF SeeTornMirror, ClockInv, TypeInv, TypeOK, MarksInv
  <2>4. \A p \in Ops : pc'[p] # "idle" => pc[p] # "idle"
    BY <1>3 DEF SeeTornMirror, ClockInv, TypeInv, TypeOK
  <2>5. UNCHANGED <<at, persisted, diskVars>>  BY <1>3 DEF SeeTornMirror
  <2> QED  BY <1>d, <1>p, <1>s, <2>3, <2>4, <2>5
<1>4. CASE LoadWithoutMirror(o)
  <2>1. rec[o] \in Record /\ NotAfter(rec[o], wall)
    BY <1>4 DEF LoadWithoutMirror, ClockInv, TypeInv, RecordsHeld, Holding, MarksInv
  <2>2. OpsBehind' /\ NotAfter(persisted', wall)
    BY <1>4, <1>w, <2>1, AdoptBehind DEF LoadWithoutMirror
  <2>3. UNCHANGED diskVars  BY <1>4 DEF LoadWithoutMirror, Adopt
  <2> QED  BY <1>d, <2>2, <2>3
<1>5. CASE Inspect(o)
  <2>1. rec[o] \in Record /\ NotAfter(rec[o], wall)
    BY <1>5 DEF Inspect, ClockInv, TypeInv, RecordsHeld, Holding, MarksInv
  <2>2. rec'[o].maxSeenTs = rec[o].maxSeenTs /\ \A p \in Ops \ {o} : rec'[p] = rec[p]
    BY <1>5, <2>1 DEF Inspect, ClockInv, TypeInv, TypeOK, Record
  <2>3. \A p \in Ops : NotAfter(snap'[p], wall) /\ NotAfter(rec'[p], wall)
    BY <1>5, <2>1, <2>2 DEF Inspect, ClockInv, MarksInv, NotAfter
  <2>4. \A p \in Ops : pc'[p] # "idle" => pc[p] # "idle"
    BY <1>5 DEF Inspect, ClockInv, TypeInv, TypeOK
  <2>5. UNCHANGED <<at, persisted, diskVars>>  BY <1>5 DEF Inspect
  <2> QED  BY <1>d, <1>p, <1>s, <2>3, <2>4, <2>5
<1>6. CASE Judge(o)
  <2> DEFINE c    == Chosen(file[o], rec[o])
             next == Refreshed(rec[o], file[o], c, at[o])
  <2>1. next.maxSeenTs <= wall  BY <1>6, JudgedForward DEF Judge
  <2>2. rec[o] \in Record /\ file[o] \in Optional(KeyFiles) /\ at[o] \in Int
    BY <1>6 DEF Judge, ClockInv, TypeInv, TypeOK, RecordsHeld, Holding
  <2>3. c \in Optional(CredIds)  BY <2>2, ChosenType
  <2>4. next \in Record
    <3> HIDE DEF c
    <3> QED  BY <2>2, <2>3, RefreshedType
  <2>5. Persist(o, next)  BY <1>6 DEF Judge
  <2>6. OpsBehind' /\ NotAfter(persisted', wall)
    <3>1. pc[o] # "idle"  BY <1>6 DEF Judge
    <3> HIDE DEF next
    <3> QED  BY <1>w, <2>1, <2>4, <2>5, <3>1, PersistBehind DEF NotAfter
  <2>7. UNCHANGED diskVars  BY <1>6 DEF Judge
  <2> QED  BY <1>d, <2>6, <2>7
<1>7. CASE ApplySave(o)
  <2>1. PICK c \in TrialCreds : Persist(o, [rec[o] EXCEPT !.trialCredential = c])
    BY <1>7 DEF ApplySave
  <2> DEFINE next == [rec[o] EXCEPT !.trialCredential = c]
  <2>2. rec[o] \in Record /\ NotAfter(rec[o], wall)
    BY <1>7 DEF ApplySave, ClockInv, TypeInv, RecordsHeld, Holding, MarksInv
  <2>3. next \in Record
    BY <2>2, ManagerAssumption DEF Record, Optional
  <2>4. NotAfter(next, wall)  BY <2>2 DEF Record, NotAfter
  <2>5. OpsBehind' /\ NotAfter(persisted', wall)
    BY <1>7, <1>w, <2>1, <2>3, <2>4, PersistBehind DEF ApplySave
  <2>6. UNCHANGED diskVars  BY <1>7 DEF ApplySave
  <2> QED  BY <1>d, <2>5, <2>6
<1>8. CASE ApplyReset(o)
  <2> DEFINE next == WithWatermark(rec[o], FirstWatermark(at[o]))
  <2>1. rec[o] \in Record /\ at[o] \in Int /\ at[o] <= wall
    BY <1>8 DEF ApplyReset, ClockInv, TypeInv, TypeOK, RecordsHeld, Holding, TimesInv
  <2>2. next \in Record  BY <2>1, FirstWatermarkType, WithWatermarkType
  <2>3. NotAfter(next, wall)
    BY <2>1 DEF WithWatermark, FirstWatermark, Record, NotAfter
  <2>4. OpsBehind' /\ NotAfter(persisted', wall)
    BY <1>8, <1>w, <2>2, <2>3, PersistBehind DEF ApplyReset
  <2>5. UNCHANGED diskVars  BY <1>8 DEF ApplyReset
  <2> QED  BY <1>d, <2>4, <2>5
<1>9. CASE ReturnPeek(o)
  BY <1>9, <1>w, <1>d, <1>p, RetireBehind DEF ReturnPeek
<1>10. CASE WriteStore(o) \/ FailWrite(o)
  <2>1. NotAfter(db', wall)
    BY <1>10 DEF WriteStore, FailWrite, ClockInv, MarksInv
  <2>2. mirror' = mirror /\ UNCHANGED <<at, persisted, snap, rec>>
    BY <1>10 DEF WriteStore, FailWrite
  <2>3. \A p \in Ops : pc'[p] # "idle" => pc[p] # "idle"
    BY <1>10 DEF WriteStore, FailWrite, ClockInv, TypeInv, TypeOK
  <2>4. \A p \in Ops : NotAfter(snap'[p], wall) /\ NotAfter(rec'[p], wall)
    BY <2>2 DEF ClockInv, MarksInv
  <2>5. mirror' \in MirrorRecord => mirror'.maxSeenTs <= wall
    BY <2>2 DEF ClockInv, MarksInv
  <2> QED  BY <1>p, <1>s, <2>1, <2>2, <2>3, <2>4, <2>5
<1>11. CASE WriteMirror(o)
  <2>1. rec[o] \in Record /\ NotAfter(rec[o], wall)
    BY <1>11 DEF WriteMirror, ClockInv, TypeInv, RecordsHeld, Holding, MarksInv
  <2>2. mirror' \in MirrorRecord => mirror'.maxSeenTs <= wall
    BY <1>11, <2>1 DEF WriteMirror, MirrorOf, NotAfter, ClockInv, MarksInv
  <2>3. OpsBehind'  BY <1>11, <1>w, ReturnBehind DEF WriteMirror
  <2>4. NotAfter(db', wall) /\ NotAfter(persisted', wall)
    BY <1>11 DEF WriteMirror, ClockInv, MarksInv
  <2> QED  BY <2>2, <2>3, <2>4
<1> QED
  BY <1>1, <1>2, <1>3, <1>4, <1>5, <1>6, <1>7, <1>8, <1>9, <1>10, <1>11 DEF Step

(* At the start there is no watermark. *)
LEMMA ClockInit == Init => ClockInv
<1> SUFFICES ASSUME Init PROVE ClockInv  OBVIOUS
<1>1. TypeInv  BY TypeInit
<1>2. TimesInv  BY DEF Init, TimesInv
<1>3. MarksInv  BY RecordIsNotNone DEF Init, MarksInv, NotAfter
<1> QED  BY <1>1, <1>2, <1>3 DEF ClockInv

(* No step moves a copy of the watermark ahead of the clock. *)
LEMMA ClockNext ==
    ASSUME ClockNeverMoved, ClockInv, [Next]_vars
    PROVE  ClockInv'
<1> USE DEF envVars, diskVars, memVars, opVars
<1>t. TypeInv'  BY TypeNext DEF ClockInv
<1> SUFFICES TimesInv' /\ MarksInv'  BY <1>t DEF ClockInv
<1>1. CASE \E o \in Ops : Step(o)  BY <1>1, ClockStep
<1>2. CASE \E o \in Ops : Boot(o) \/ GetState(o)
  <2>1. PICK o \in Ops : Boot(o) \/ GetState(o)  BY <1>2
  <2>2. wall' = wall /\ ahead' = ahead /\ UNCHANGED <<db, mirror, persisted>>
    BY <2>1 DEF Boot, GetState
  <2>3. OpsBehind'  BY <2>1, <2>2, BeginBehind DEF Boot, GetState, BeginRefresh
  <2> QED  BY <2>2, <2>3 DEF OpsBehind, ClockInv, TimesInv, MarksInv
<1>3. CASE \E o \in Ops, k \in Kinds \ {"refresh"} : Call(o, k)
  <2>1. PICK o \in Ops, k \in Kinds \ {"refresh"} : Call(o, k)  BY <1>3
  <2>2. wall' = wall /\ ahead' = ahead /\ UNCHANGED <<db, mirror, persisted>>
    BY <2>1 DEF Call
  <2>3. OpsBehind'  BY <2>1, <2>2, BeginBehind DEF Call
  <2> QED  BY <2>2, <2>3 DEF OpsBehind, ClockInv, TimesInv, MarksInv
<1>4. CASE \E d \in Steps : Tick(d)
  <2>1. PICK d \in Steps : Tick(d)  BY <1>4
  <2>2. d \in Nat /\ wall \in Int /\ wall' = wall + d
    BY <2>1, ManagerAssumption DEF Tick, ClockInv, TypeInv, TypeOK
  <2>3. TimesInv'
    BY <2>1, <2>2 DEF Tick, ClockInv, TypeInv, TypeOK, TimesInv
  <2>4. \A r : NotAfter(r, wall) => NotAfter(r, wall')
    BY <2>2 DEF NotAfter, Record
  <2>5. mirror \in MirrorRecord => mirror.maxSeenTs <= wall'
    BY <2>2 DEF ClockInv, MarksInv, MirrorRecord
  <2>6. UNCHANGED <<db, mirror, persisted, snap, rec>>  BY <2>1 DEF Tick
  <2> QED  BY <2>3, <2>4, <2>5, <2>6 DEF ClockInv, MarksInv
<1>5. CASE ChangeKeyFile
  BY <1>5 DEF ChangeKeyFile, ClockInv, TimesInv, MarksInv
<1>6. CASE Stop
  <2>1. TimesInv'  BY <1>6 DEF Stop, FreshProcess, ClockInv, TimesInv
  <2>2. /\ persisted' = None /\ db' = db /\ wall' = wall
        /\ mirror' \in {mirror, Torn}
        /\ \A o \in Ops : snap'[o] = None /\ rec'[o] = None
    BY <1>6 DEF Stop, FreshProcess
  <2> QED  BY <2>1, <2>2, RecordIsNotNone DEF ClockInv, MarksInv, NotAfter
<1>7. CASE RepairClock
  BY <1>7 DEF RepairClock, ClockInv, TimesInv
<1>8. CASE Fault
  <2>1. LoseDb \/ LoseMirror
    BY <1>8 DEF Fault, JumpAhead, SetBack, ClockNeverMoved
  <2> QED
    BY <2>1, RecordIsNotNone DEF LoseDb, LoseMirror, ClockInv, TimesInv, MarksInv, NotAfter
<1>9. CASE UNCHANGED vars
  BY <1>9 DEF vars, ClockInv, TimesInv, MarksInv
<1> QED
  BY <1>1, <1>2, <1>3, <1>4, <1>5, <1>6, <1>7, <1>8, <1>9 DEF Next

-----------------------------------------------------------------------------
(* A formal credential of ours, in term, is never a blocked state. *)
LEMMA OtherStatusAdmits ==
    ASSUME NEW status, NEW reason, NEW days, status \notin BlockingStatuses
    PROVE  State(status, reason, days).loginBlocked = FALSE
<1>1. State(status, reason, days).loginBlocked = (Enforce /\ status \in BlockingStatuses)
  BY DEF State
<1>2. (Enforce /\ status \in BlockingStatuses) = FALSE  OBVIOUS
<1> QED  BY <1>1, <1>2

(* A formal credential of ours in its term is admitted, the clock permitting. *)
LEMMA FormalInTermAdmitted ==
    ASSUME NEW now \in Int, NEW p \in Payload, NEW start,
           p.typ = "formal", p.ours, p.start <= now, p.end # None => now < p.end
    PROVE  ~EvaluateCredential(now, p, start).loginBlocked
<1>1. ResolveEnd(p, start) = p.end  BY DEF ResolveEnd
<1>2. ~(now < p.start - SkewTolOf(p))
  <2>1. SkewTolOf(p) \in Nat  BY SkewTolOfType DEF Optional
  <2>2. p.start \in Int  BY DEF Payload
  <2> QED  BY <2>1, <2>2
<1>3. CASE p.end = None
  <2>1. EvaluateCredential(now, p, start) = State("formal_active", None, None)
    BY <1>1, <1>2, <1>3 DEF EvaluateCredential
  <2>2. "formal_active" \notin BlockingStatuses  BY DEF BlockingStatuses
  <2> QED  BY <2>1, <2>2, OtherStatusAdmits
<1>4. CASE p.end # None
  <2> DEFINE days   == CeilDiv(p.end - now, Day)
             status == IF days <= WarnDaysOf(p) THEN "formal_expiring" ELSE "formal_active"
  <2>1. EvaluateCredential(now, p, start) = Term("formal", p.end, WarnDaysOf(p), now)
    BY <1>1, <1>2, <1>4 DEF EvaluateCredential
  <2>2. p.end \in Int /\ ~(now >= p.end)  BY <1>4 DEF Payload, Optional
  <2>3. Term("formal", p.end, WarnDaysOf(p), now) = State(status, None, days)
    BY <2>2 DEF Term
  <2>4. status \notin BlockingStatuses  BY DEF BlockingStatuses
  <2> HIDE DEF status, days
  <2> QED  BY <2>1, <2>3, <2>4, OtherStatusAdmits
<1> QED  BY <1>3, <1>4

(* A refresh judges an entitled customer as one. *)
LEMMA JudgedEntitled ==
    ASSUME ClockNeverMoved, ClockInv, NEW o \in Ops, Judge(o), Entitled'
    PROVE  ~state'.loginBlocked
<1> DEFINE c == Chosen(file[o], rec[o])
           p == Cred[file[o]].payload
<1>1. rec[o] \in Record /\ file[o] \in Optional(KeyFiles) /\ at[o] \in Int
  BY DEF Judge, ClockInv, TypeInv, TypeOK, RecordsHeld, Holding
<1>2. basis' = [file |-> file[o], at |-> at[o]]  BY DEF Judge
<1>3. /\ file[o] # None /\ Verified(file[o])
      /\ p.typ = "formal" /\ p.ours /\ p.start <= at[o]
      /\ p.end # None => at[o] < p.end
  BY <1>2 DEF Entitled
<1>4. c = file[o] /\ file[o] \in CredIds
  BY <1>1, <1>3, ManagerAssumption DEF Chosen, Optional
<1>5. PayloadOf(c) = p /\ p \in Payload /\ p # None
  <2>1. p \in Payload  BY <1>4, ManagerAssumption
  <2>2. PayloadOf(c) = p  BY <1>3, <1>4 DEF PayloadOf
  <2> QED  BY <2>1, <2>2, NoPayloadAssumption
<1>6. PICK start : state' = EvaluateLicense(at[o], PayloadOf(c), InvalidReasonOf(c),
                                           start, WatermarkOf(rec[o]))
  BY DEF Judge
<1>7. ~Rejected(at[o], WatermarkOf(rec[o]), SkewTolOf(PayloadOf(c)))
  BY JudgedForward DEF Judge
<1>8. state' = EvaluateCredential(at[o], p, start)
  <2> HIDE DEF c, p
  <2> QED  BY <1>5, <1>6, <1>7 DEF EvaluateLicense
<1> QED
  <2> HIDE DEF c, p
  <2> QED  BY <1>1, <1>3, <1>5, <1>8, FormalInTermAdmitted

(* A customer whose key file is good is never locked out while the clock   *)
(* is never moved and no operation outlasts the tolerance: for any         *)
(* credentials, any number of operations under way and any failures of the *)
(* store, the mirror and the process.                                      *)
THEOREM ForwardClockNeverBlocks ==
    ASSUME ClockNeverMoved
    PROVE  Spec => []EntitledNotBlocked
<1>1. Init => ClockInv /\ EntitledNotBlocked
  <2>1. Init => EntitledNotBlocked  BY DEF Init, Entitled, EntitledNotBlocked
  <2> QED  BY <2>1, ClockInit
<1>2. ClockInv /\ EntitledNotBlocked /\ [Next]_vars => ClockInv' /\ EntitledNotBlocked'
  <2> SUFFICES ASSUME ClockInv, EntitledNotBlocked, [Next]_vars
               PROVE  EntitledNotBlocked'
    BY ClockNext
  <2>1. CASE \E o \in Ops : Judge(o)
    BY <2>1, JudgedEntitled DEF EntitledNotBlocked
  <2>2. CASE Stop
    BY <2>2 DEF Stop, FreshProcess, Entitled, EntitledNotBlocked
  <2>3. CASE ~(\E o \in Ops : Judge(o)) /\ ~Stop
    <3>1. UNCHANGED <<state, basis>>
      BY <2>3
      DEF Next, Step, Fault, vars, memVars, ReadStore, FailRead, Load, SeeTornMirror,
          LoadWithoutMirror, Adopt, Inspect, ApplySave, ApplyReset, ReturnPeek, WriteStore,
          FailWrite, WriteMirror, Boot, GetState, Call, Tick, ChangeKeyFile, RepairClock,
          LoseDb, LoseMirror, JumpAhead, SetBack
    <3> QED  BY <3>1 DEF Entitled, EntitledNotBlocked
  <2> QED  BY <2>1, <2>2, <2>3
<1> QED  BY <1>1, <1>2, PTL DEF Spec

-----------------------------------------------------------------------------
(* One operation at a time, with every failure of the store, the mirror    *)
(* and the process: the copies of the record tell one story.  Two          *)
(* operations may overwrite one another's, so this needs the assumption.   *)

OneAtATime == \A o, p \in Ops : o = p

(* A record is bound to itself or not at all. *)
WellBound(r) == r.boundFingerprint \in {None, r.installId}

(* What a record has, its successor has, too. *)
Continues(old, new) ==
    /\ new.installId = old.installId
    /\ old.boundFingerprint # None => new.boundFingerprint = old.boundFingerprint
    /\ old.trialStartedAt # None => new.trialStartedAt = old.trialStartedAt
    /\ old.trialCredential # None => new.trialCredential # None
    /\ old.lastCredential # None => new.lastCredential # None

(* A record and the mirror are of one deployment and one trial. *)
Twins(r) ==
    MirrorReadable =>
        /\ r.installId = mirror.installId
        /\ r.trialStartedAt # None /\ mirror.trialStartedAt # None
              => r.trialStartedAt = mirror.trialStartedAt

(* A record knows all that the mirror does. *)
CoversMirror(r) ==
    MirrorReadable =>
        /\ r.installId = mirror.installId
        /\ mirror.trialStartedAt # None => r.trialStartedAt = mirror.trialStartedAt

OnDisk == db # None => WellBound(db) /\ Twins(db)

(* The cache is never behind the disk, and it is empty while the store     *)
(* cannot be read.                                                         *)
InCache ==
    persisted # None =>
        /\ ~readFailed
        /\ WellBound(persisted) /\ CoversMirror(persisted)
        /\ db # None => Continues(db, persisted)

(* What was read is still what is stored, unless the store is lost. *)
Loading(o) ==
    /\ pc[o] \in {"reading", "read", "tampered"} => persisted = None
    /\ pc[o] = "read" =>
         /\ snap[o] = None => db = None
         /\ snap[o] \in Record => db \in {None, snap[o]} /\ WellBound(snap[o]) /\ Twins(snap[o])
    /\ pc[o] = "tampered" =>
         /\ ~MirrorReadable
         /\ snap[o] # Failed => WellBound(rec[o]) /\ db \in {None, rec[o]}

(* The record of an operation continues the cached one until it becomes    *)
(* the cached one, and is written.                                         *)
Working(o) ==
    /\ pc[o] \in {"loaded", "judging"} /\ ~readFailed =>
         persisted # None /\ WellBound(rec[o]) /\ Continues(persisted, rec[o])
    /\ pc[o] \in {"writing", "mirroring"} => persisted # None /\ rec[o] = persisted

OneStory == OnDisk /\ InCache /\ \A o \in Ops : Loading(o) /\ Working(o)

StoryInv == TypeInv /\ OneStory

(* Continuing is reflexive and transitive. *)
LEMMA ContinuesItself ==
    ASSUME NEW r
    PROVE  Continues(r, r)
BY DEF Continues

(* To continue is transitive. *)
LEMMA ContinuesOn ==
    ASSUME NEW a, NEW b, NEW c, Continues(a, b), Continues(b, c)
    PROVE  Continues(a, c)
BY DEF Continues

(* What continues a record that knows all of the mirror does, too. *)
LEMMA ContinuedCovers ==
    ASSUME NEW a, NEW b, CoversMirror(a), Continues(a, b)
    PROVE  CoversMirror(b)
BY DEF CoversMirror, Continues

(* A refresh takes nothing from its record, and binds it to itself. *)
LEMMA RefreshedContinues ==
    ASSUME NEW r \in Record, WellBound(r), NEW f, NEW c \in Optional(CredIds), NEW now \in Int
    PROVE  WellBound(Refreshed(r, f, c, now)) /\ Continues(r, Refreshed(r, f, c, now))
<1> DEFINE w == NextWatermark(now, WatermarkOf(r), SkewTolOf(PayloadOf(c)))
           b == Bind(r, c)
           m == WithWatermark(b, w)
<1>1. b \in Record /\ WellBound(b) /\ Continues(r, b)
  <2>1. b \in Record  BY BindType
  <2>2. WellBound(b) /\ Continues(r, b)
    BY DEF Bind, Record, WellBound, Continues
  <2> QED  BY <2>1, <2>2
<1>2. m \in Record /\ WellBound(m) /\ Continues(b, m)
  <2>1. w \in Watermark  BY WatermarkOfType, PayloadOfType, SkewTolOfType, NextWatermarkType
  <2> HIDE DEF b, w
  <2>2. m \in Record  BY <1>1, <2>1, WithWatermarkType
  <2>3. /\ m.installId = b.installId /\ m.boundFingerprint = b.boundFingerprint
        /\ m.trialStartedAt = b.trialStartedAt
        /\ m.trialCredential = b.trialCredential /\ m.lastCredential = b.lastCredential
    BY <1>1 DEF WithWatermark, Record
  <2> HIDE DEF m
  <2> QED  BY <1>1, <2>2, <2>3 DEF WellBound, Continues
<1>3. Refreshed(r, f, c, now) = ResolveTrialStart(m, f, c, now)  BY DEF Refreshed
<1>4. WellBound(ResolveTrialStart(m, f, c, now)) /\ Continues(m, ResolveTrialStart(m, f, c, now))
  <2> HIDE DEF m
  <2>1. CASE StartsTrial(m, f, c)
    BY <1>2, <2>1 DEF ResolveTrialStart, StartsTrial, Record, WellBound, Continues
  <2>2. CASE ~StartsTrial(m, f, c)
    BY <1>2, <2>2, ContinuesItself DEF ResolveTrialStart
  <2> QED  BY <2>1, <2>2
<1> QED
  <2> HIDE DEF b, m
  <2> QED  BY <1>1, <1>2, <1>3, <1>4, ContinuesOn

(* Merging a twin of the mirror keeps what it has, and adds what the       *)
(* mirror has.                                                             *)
LEMMA MergedStory ==
    ASSUME TypeInv, NEW r \in Record, WellBound(r), Twins(r)
    PROVE  WellBound(Merge(r)) /\ CoversMirror(Merge(r)) /\ Continues(r, Merge(r))
<1>1. CASE ~MirrorReadable
  BY <1>1, ContinuesItself DEF Merge, CoversMirror
<1>2. CASE MirrorReadable
  <2>1. mirror \in MirrorRecord  BY <1>2 DEF MirrorReadable, TypeInv, TypeOK
  <2>2. r.installId = mirror.installId  BY <1>2 DEF Twins
  <2>3. /\ Merge(r).installId = r.installId
        /\ Merge(r).boundFingerprint = r.boundFingerprint
        /\ Merge(r).trialCredential = r.trialCredential
        /\ Merge(r).lastCredential = r.lastCredential
        /\ Merge(r).trialStartedAt = Earlier(r.trialStartedAt, mirror.trialStartedAt)
    BY <1>2, <2>2 DEF Merge, Record
  <2>4. /\ r.trialStartedAt # None
              => Earlier(r.trialStartedAt, mirror.trialStartedAt) = r.trialStartedAt
        /\ mirror.trialStartedAt # None
              => Earlier(r.trialStartedAt, mirror.trialStartedAt) = mirror.trialStartedAt
    BY <1>2 DEF Twins, Earlier
  <2> QED  BY <2>2, <2>3, <2>4 DEF WellBound, CoversMirror, Continues
<1> QED  BY <1>1, <1>2

(* What a load goes on with, if the store was read: the row, or a record   *)
(* of its own when there is no row.                                        *)
LEMMA BaseStory ==
    ASSUME StoryInv, NEW o \in Ops, pc[o] = "read", snap[o] # Failed, NEW base \in Bases(o)
    PROVE  WellBound(base) /\ Twins(base) /\ db \in {None, base}
<1>1. CASE snap[o] # None
  <2>1. snap[o] \in Record /\ base = snap[o]
    BY <1>1 DEF Bases, StoryInv, TypeInv, TypeOK
  <2> QED  BY <2>1 DEF StoryInv, OneStory, Loading
<1>2. CASE snap[o] = None
  <2>1. PICK id \in IF MirrorReadable THEN {mirror.installId} ELSE FreshIds :
           base = CreateInitialState(id, at[o])
    BY <1>2 DEF Bases
  <2>2. base.installId = id /\ base.boundFingerprint = None /\ base.trialStartedAt = None
    BY <2>1 DEF CreateInitialState
  <2>3. db = None  BY <1>2 DEF StoryInv, OneStory, Loading
  <2> QED  BY <2>1, <2>2, <2>3 DEF WellBound, Twins
<1> QED  BY <1>1, <1>2

OpsStory == \A o \in Ops : Loading(o) /\ Working(o)

(* A call that begins has the cached record, or has it to load. *)
LEMMA BeginStory ==
    ASSUME OneAtATime, StoryInv, NEW o \in Ops, NEW k, Begin(o, k),
           UNCHANGED <<persisted, readFailed>>
    PROVE  OpsStory'
<1>1. \A p \in Ops : p = o  BY DEF OneAtATime
<1>2. /\ pc'[o] = IF persisted = None THEN "reading" ELSE "loaded"
      /\ rec'[o] = persisted
  BY DEF Begin, StoryInv, TypeInv, TypeOK
<1>3. Loading(o)'  BY <1>2 DEF Loading
<1>4. Working(o)'
  BY <1>2, ContinuesItself DEF Working, StoryInv, OneStory, InCache
<1> QED  BY <1>1, <1>3, <1>4 DEF OpsStory

(* One that ends has none. *)
LEMMA RetireStory ==
    ASSUME OneAtATime, StoryInv, NEW o \in Ops, Retire(o)
    PROVE  OpsStory'
<1>1. \A p \in Ops : p = o  BY DEF OneAtATime
<1>2. pc'[o] = "idle"  BY DEF Retire, StoryInv, TypeInv, TypeOK
<1> QED  BY <1>1, <1>2 DEF OpsStory, Loading, Working

(* A result that is returned keeps the story. *)
LEMMA ReturnStory ==
    ASSUME OneAtATime, StoryInv, NEW o \in Ops, Return(o), UNCHANGED <<persisted, readFailed>>
    PROVE  OpsStory'
BY BeginStory, RetireStory DEF Return, BeginRefresh

(* What is persisted continues what was cached. *)
LEMMA PersistStory ==
    ASSUME OneAtATime, StoryInv, NEW o \in Ops, pc[o] \in {"loaded", "judging"},
           NEW r \in Record, Persist(o, r), UNCHANGED <<diskVars, readFailed>>,
           ~readFailed => WellBound(r) /\ Continues(rec[o], r)
    PROVE  OneStory'
<1> USE DEF diskVars
<1>1. OnDisk'  BY DEF StoryInv, OneStory, OnDisk, WellBound, Twins, MirrorReadable
<1>2. CASE readFailed
  <2>1. Return(o) /\ persisted' = persisted  BY <1>2 DEF Persist
  <2>2. OpsStory'  BY <2>1, ReturnStory
  <2>3. InCache'
    BY <2>1 DEF StoryInv, OneStory, InCache, CoversMirror, MirrorReadable
  <2> QED  BY <1>1, <2>2, <2>3 DEF OneStory, OpsStory
<1>3. CASE ~readFailed
  <2>1. /\ persisted' = r /\ rec'[o] = r /\ pc'[o] = "writing"
        /\ \A p \in Ops : p = o
    BY <1>3 DEF Persist, StoryInv, TypeInv, TypeOK, OneAtATime
  <2>2. persisted # None /\ Continues(persisted, rec[o])
    BY <1>3 DEF StoryInv, OneStory, Working
  <2>3. Continues(persisted, r)  BY <1>3, <2>2, ContinuesOn
  <2>4. CoversMirror(r)
    BY <2>2, <2>3, ContinuedCovers DEF StoryInv, OneStory, InCache
  <2>5. db # None => Continues(db, r)
    BY <2>2, <2>3, ContinuesOn DEF StoryInv, OneStory, InCache
  <2>6. InCache'
    BY <1>3, <2>1, <2>4, <2>5 DEF InCache, CoversMirror, MirrorReadable
  <2>7. OpsStory'
    BY <2>1, RecordIsNotNone DEF OpsStory, Loading, Working
  <2> QED  BY <1>1, <2>6, <2>7 DEF OneStory, OpsStory
<1> QED  BY <1>2, <1>3

(* What is loaded is cached if the store was read, and else only held. *)
LEMMA AdoptStory ==
    ASSUME OneAtATime, StoryInv, NEW o \in Ops, pc[o] \in {"read", "tampered"},
           NEW r \in Record, Adopt(o, r),
           snap[o] # Failed => /\ WellBound(r) /\ CoversMirror(r)
                               /\ db # None => Continues(db, r)
    PROVE  OneStory'
<1> USE DEF diskVars
<1>1. OnDisk'  BY DEF Adopt, StoryInv, OneStory, OnDisk, WellBound, Twins, MirrorReadable
<1>2. /\ rec'[o] = r /\ pc'[o] = "loaded" /\ \A p \in Ops : p = o
      /\ readFailed' = (snap[o] = Failed) /\ UNCHANGED <<db, mirror>>
      /\ persisted' = IF snap[o] = Failed THEN persisted ELSE r
  BY DEF Adopt, StoryInv, TypeInv, TypeOK, OneAtATime
<1>3. persisted = None  BY DEF StoryInv, OneStory, Loading
<1>4. InCache'
  BY <1>2, <1>3 DEF InCache, CoversMirror, MirrorReadable
<1>5. OpsStory'
  BY <1>2, <1>3, RecordIsNotNone, ContinuesItself DEF OpsStory, Loading, Working
<1> QED  BY <1>1, <1>4, <1>5 DEF OneStory, OpsStory

(* Each await of an operation keeps the story. *)
LEMMA StoryStep ==
    ASSUME OneAtATime, StoryInv, NEW o \in Ops, Step(o)
    PROVE  OneStory'
<1> USE DEF diskVars, memVars
<1>t. TypeInv  BY DEF StoryInv
<1>o. \A p \in Ops : p = o  BY DEF OneAtATime
<1>r. pc[o] \in Holding => rec[o] \in Record  BY <1>t DEF TypeInv, RecordsHeld
<1>d. ASSUME UNCHANGED <<db, mirror>> PROVE OnDisk'
  BY <1>d DEF StoryInv, OneStory, OnDisk, WellBound, Twins, MirrorReadable
<1>c. ASSUME UNCHANGED <<db, mirror, persisted, readFailed>> PROVE InCache'
  BY <1>c DEF StoryInv, OneStory, InCache, CoversMirror, MirrorReadable
<1>1. CASE ReadStore(o)
  <2>1. /\ pc[o] = "reading" /\ pc'[o] = "read" /\ snap'[o] = db
        /\ UNCHANGED <<db, mirror, persisted, readFailed>>
    BY <1>1, <1>t DEF ReadStore, TypeInv, TypeOK
  <2>2. persisted = None  BY <2>1 DEF StoryInv, OneStory, Loading
  <2>3. db # None => WellBound(db) /\ Twins(db)  BY DEF StoryInv, OneStory, OnDisk
  <2>4. Loading(o)'
    BY <2>1, <2>2, <2>3, RecordIsNotNone DEF Loading, Twins, MirrorReadable
  <2>5. Working(o)'  BY <2>1 DEF Working
  <2> QED  BY <1>o, <1>d, <1>c, <2>1, <2>4, <2>5 DEF OneStory
<1>2. CASE FailRead(o)
  <2>1. /\ pc[o] = "reading" /\ pc'[o] = "read" /\ snap'[o] = Failed
        /\ UNCHANGED <<db, mirror, persisted, readFailed>>
    BY <1>2, <1>t DEF FailRead, TypeInv, TypeOK
  <2>2. persisted = None  BY <2>1 DEF StoryInv, OneStory, Loading
  <2>3. Loading(o)'  BY <2>1, <2>2, RecordIsNotNone DEF Loading
  <2>4. Working(o)'  BY <2>1 DEF Working
  <2> QED  BY <1>o, <1>d, <1>c, <2>1, <2>3, <2>4 DEF OneStory
<1>3. CASE Load(o)
  <2>1. PICK base \in Bases(o) : Adopt(o, Merge(base))  BY <1>3 DEF Load
  <2>2. pc[o] = "read" /\ base \in Record  BY <1>3, <1>t, BasesType DEF Load
  <2>3. Merge(base) \in Record  BY <1>t, <2>2, MergeType DEF TypeInv, TypeOK
  <2>4. ASSUME snap[o] # Failed
        PROVE  /\ WellBound(Merge(base)) /\ CoversMirror(Merge(base))
               /\ db # None => Continues(db, Merge(base))
    <3>1. WellBound(base) /\ Twins(base) /\ db \in {None, base}  BY <2>2, <2>4, BaseStory
    <3> QED  BY <1>t, <2>2, <3>1, MergedStory
  <2> QED  BY <2>1, <2>2, <2>3, <2>4, AdoptStory
<1>4. CASE SeeTornMirror(o)
  <2>1. PICK base \in Bases(o) : rec' = [rec EXCEPT ![o] = base]
    BY <1>4 DEF SeeTornMirror
  <2>2. /\ pc[o] = "read" /\ pc'[o] = "tampered" /\ rec'[o] = base
        /\ ~MirrorReadable /\ ~MirrorReadable'
        /\ UNCHANGED <<db, mirror, persisted, readFailed, snap>>
    BY <1>4, <1>t, <2>1 DEF SeeTornMirror, TypeInv, TypeOK, MirrorReadable
  <2>3. persisted = None  BY <2>2 DEF StoryInv, OneStory, Loading
  <2>4. snap[o] # Failed => WellBound(base) /\ db \in {None, base}
    BY <2>2, BaseStory
  <2>5. Loading(o)'  BY <2>2, <2>3, <2>4 DEF Loading
  <2>6. Working(o)'  BY <2>2 DEF Working
  <2> QED  BY <1>o, <1>d, <1>c, <2>2, <2>5, <2>6 DEF OneStory
<1>5. CASE LoadWithoutMirror(o)
  <2>1. pc[o] = "tampered" /\ Adopt(o, rec[o])  BY <1>5 DEF LoadWithoutMirror
  <2>2. rec[o] \in Record  BY <1>r, <2>1 DEF Holding
  <2>3. ~MirrorReadable /\ (snap[o] # Failed => WellBound(rec[o]) /\ db \in {None, rec[o]})
    BY <2>1 DEF StoryInv, OneStory, Loading
  <2>4. snap[o] # Failed => /\ WellBound(rec[o]) /\ CoversMirror(rec[o])
                            /\ db # None => Continues(db, rec[o])
    BY <2>3, ContinuesItself DEF CoversMirror
  <2> QED  BY <2>1, <2>2, <2>4, AdoptStory
<1>6. CASE Inspect(o)
  <2>1. /\ pc[o] = "loaded" /\ pc'[o] = "judging"
        /\ UNCHANGED <<db, mirror, persisted, readFailed>>
    BY <1>6, <1>t DEF Inspect, TypeInv, TypeOK
  <2>2. rec[o] \in Record  BY <1>r, <2>1 DEF Holding
  <2>3. rec'[o] \in {rec[o], [rec[o] EXCEPT !.lastCredential = keyFile]}
        /\ (rec'[o] # rec[o] => keyFile # None)
    BY <1>6, <1>t DEF Inspect, TypeInv, TypeOK
  <2>4. WellBound(rec[o]) => WellBound(rec'[o])
    BY <2>2, <2>3 DEF Record, WellBound
  <2>5. Continues(rec[o], rec'[o])
    BY <2>2, <2>3 DEF Record, Continues
  <2>6. Working(o)'
    <3>1. ~readFailed => persisted # None /\ WellBound(rec[o]) /\ Continues(persisted, rec[o])
      BY <2>1 DEF StoryInv, OneStory, Working
    <3>2. ~readFailed => Continues(persisted, rec'[o])  BY <2>5, <3>1, ContinuesOn
    <3>3. WellBound(rec[o])' <=> WellBound(rec'[o])  BY DEF WellBound
    <3>4. Continues(persisted, rec[o])' <=> Continues(persisted, rec'[o])
      BY <2>1 DEF Continues
    <3> QED  BY <2>1, <2>4, <3>1, <3>2, <3>3, <3>4 DEF Working
  <2>7. Loading(o)'  BY <2>1 DEF Loading
  <2> QED  BY <1>o, <1>d, <1>c, <2>1, <2>6, <2>7 DEF OneStory
<1>7. CASE Judge(o)
  <2> DEFINE c    == Chosen(file[o], rec[o])
             next == Refreshed(rec[o], file[o], c, at[o])
  <2>1. pc[o] = "judging" /\ Persist(o, next) /\ UNCHANGED <<diskVars, readFailed>>
    BY <1>7 DEF Judge
  <2>2. rec[o] \in Record /\ file[o] \in Optional(KeyFiles) /\ at[o] \in Int
    BY <1>t, <1>r, <2>1 DEF TypeInv, TypeOK, Holding
  <2>3. c \in Optional(CredIds)  BY <2>2, ChosenType
  <2>4. next \in Record /\ (WellBound(rec[o]) => WellBound(next) /\ Continues(rec[o], next))
    <3> HIDE DEF c
    <3> QED  BY <2>2, <2>3, RefreshedType, RefreshedContinues
  <2>5. ~readFailed => WellBound(rec[o])  BY <2>1 DEF StoryInv, OneStory, Working
  <2> QED
    <3> HIDE DEF next
    <3> QED  BY <2>1, <2>4, <2>5, PersistStory
<1>8. CASE ApplySave(o)
  <2>1. PICK cred \in TrialCreds : Persist(o, [rec[o] EXCEPT !.trialCredential = cred])
    BY <1>8 DEF ApplySave
  <2> DEFINE next == [rec[o] EXCEPT !.trialCredential = cred]
  <2>2. pc[o] = "loaded" /\ UNCHANGED <<diskVars, readFailed>>  BY <1>8 DEF ApplySave
  <2>3. rec[o] \in Record  BY <1>r, <2>2 DEF Holding
  <2>4. cred # None /\ cred \in CredIds  BY ManagerAssumption
  <2>5. next \in Record  BY <2>3, <2>4 DEF Record, Optional
  <2>6. Continues(rec[o], next) /\ (WellBound(rec[o]) => WellBound(next))
    BY <2>3, <2>4 DEF Record, Continues, WellBound
  <2>7. ~readFailed => WellBound(rec[o])  BY <2>2 DEF StoryInv, OneStory, Working
  <2> QED
    <3>1. Persist(o, next)  BY <2>1
    <3> HIDE DEF next
    <3> QED  BY <2>2, <2>5, <2>6, <2>7, <3>1, PersistStory
<1>9. CASE ApplyReset(o)
  <2> DEFINE next == WithWatermark(rec[o], FirstWatermark(at[o]))
  <2>1. pc[o] = "loaded" /\ Persist(o, next) /\ UNCHANGED <<diskVars, readFailed>>
    BY <1>9 DEF ApplyReset
  <2>2. rec[o] \in Record /\ at[o] \in Int
    BY <1>t, <1>r, <2>1 DEF Holding, TypeInv, TypeOK
  <2>3. next \in Record  BY <2>2, FirstWatermarkType, WithWatermarkType
  <2>4. Continues(rec[o], next) /\ (WellBound(rec[o]) => WellBound(next))
    BY <2>2 DEF WithWatermark, Record, Continues, WellBound
  <2>5. ~readFailed => WellBound(rec[o])  BY <2>1 DEF StoryInv, OneStory, Working
  <2> QED
    <3> HIDE DEF next
    <3> QED  BY <2>1, <2>3, <2>4, <2>5, PersistStory
<1>10. CASE ReturnPeek(o)
  <2>1. Retire(o) /\ UNCHANGED <<db, mirror, persisted, readFailed>>
    BY <1>10 DEF ReturnPeek
  <2> QED  BY <1>d, <1>c, <2>1, RetireStory DEF OneStory, OpsStory
<1>11. CASE WriteStore(o) \/ FailWrite(o)
  <2>1. /\ pc[o] = "writing" /\ pc'[o] = "mirroring"
        /\ db' \in {db, rec[o]}
        /\ UNCHANGED <<mirror, persisted, readFailed, rec>>
    BY <1>11, <1>t DEF WriteStore, FailWrite, TypeInv, TypeOK
  <2>2. persisted # None /\ rec[o] = persisted
    BY <2>1 DEF StoryInv, OneStory, Working
  <2>3. WellBound(persisted) /\ CoversMirror(persisted)
    BY <2>2 DEF StoryInv, OneStory, InCache
  <2>4. OnDisk'
    <3>1. CASE db' = db  BY <1>d, <2>1, <3>1
    <3>2. CASE db' = persisted
      BY <2>1, <2>3, <3>2 DEF OnDisk, WellBound, CoversMirror, Twins, MirrorReadable
    <3> QED  BY <2>1, <2>2, <3>1, <3>2
  <2>5. InCache'
    BY <2>1, <2>2, ContinuesItself DEF StoryInv, OneStory, InCache, CoversMirror, MirrorReadable
  <2>6. Loading(o)' /\ Working(o)'  BY <2>1, <2>2 DEF Loading, Working
  <2> QED  BY <1>o, <2>4, <2>5, <2>6 DEF OneStory
<1>12. CASE WriteMirror(o)
  <2>1. /\ pc[o] = "mirroring" /\ mirror' \in {MirrorOf(rec[o]), mirror} /\ Return(o)
        /\ UNCHANGED <<db, persisted, readFailed>>
    BY <1>12 DEF WriteMirror
  <2>2. persisted # None /\ rec[o] = persisted
    BY <2>1 DEF StoryInv, OneStory, Working
  <2>3. OpsStory'  BY <2>1, ReturnStory
  <2>4. CASE mirror' = mirror
    BY <1>d, <1>c, <2>1, <2>3, <2>4 DEF OneStory, OpsStory
  <2>5. CASE mirror' = MirrorOf(rec[o])
    <3>1. /\ mirror'.installId = persisted.installId
          /\ mirror'.trialStartedAt = persisted.trialStartedAt
      BY <2>2, <2>5 DEF MirrorOf
    <3>2. OnDisk'
      BY <2>1, <2>2, <3>1
      DEF StoryInv, OneStory, OnDisk, InCache, Continues, WellBound, Twins
    <3>3. InCache'
      BY <2>1, <3>1 DEF StoryInv, OneStory, InCache, CoversMirror
    <3> QED  BY <2>3, <3>2, <3>3 DEF OneStory, OpsStory
  <2> QED  BY <2>1, <2>4, <2>5
<1> QED
  BY <1>1, <1>2, <1>3, <1>4, <1>5, <1>6, <1>7, <1>8, <1>9, <1>10, <1>11, <1>12
  DEF Step

(* At the start there is nothing to agree on. *)
LEMMA StoryInit == Init => StoryInv
<1> SUFFICES ASSUME Init PROVE StoryInv  OBVIOUS
<1>1. TypeInv  BY TypeInit
<1>2. OneStory
  BY DEF Init, OneStory, OnDisk, InCache, Loading, Working
<1> QED  BY <1>1, <1>2 DEF StoryInv

(* No step, call, fault or crash changes the story. *)
LEMMA StoryNext ==
    ASSUME OneAtATime, StoryInv, [Next]_vars
    PROVE  StoryInv'
<1> USE DEF envVars, diskVars, memVars, opVars
<1>t. TypeInv'  BY TypeNext DEF StoryInv
<1>i. StoryInv /\ OnDisk /\ InCache /\ OpsStory  BY DEF StoryInv, OneStory, OpsStory
<1> SUFFICES OneStory'  BY <1>t DEF StoryInv
<1>d. ASSUME UNCHANGED db, mirror' \in {mirror, None, Torn} PROVE OnDisk'
  BY <1>d, <1>i DEF OnDisk, WellBound, Twins, MirrorReadable
<1>c. ASSUME UNCHANGED <<persisted, readFailed>>, db' \in {db, None},
             mirror' \in {mirror, None, Torn}
      PROVE  InCache'
  BY <1>c, <1>i DEF InCache, CoversMirror, MirrorReadable
<1>o. ASSUME UNCHANGED <<persisted, readFailed, opVars>>, db' \in {db, None},
             mirror' \in {mirror, None}
      PROVE  OpsStory'
  BY <1>o, <1>i DEF OpsStory, Loading, Working, Twins, MirrorReadable
<1>1. CASE \E o \in Ops : Step(o)  BY <1>1, StoryStep
<1>2. CASE \E o \in Ops : Boot(o) \/ GetState(o)
  <2>1. PICK o \in Ops : Boot(o) \/ GetState(o)  BY <1>2
  <2>2. Begin(o, "refresh") /\ UNCHANGED <<db, mirror, persisted, readFailed>>
    BY <2>1 DEF Boot, GetState, BeginRefresh
  <2> QED  BY <1>d, <1>c, <2>2, BeginStory DEF OneStory, OpsStory
<1>3. CASE \E o \in Ops, k \in Kinds \ {"refresh"} : Call(o, k)
  <2>1. PICK o \in Ops, k \in Kinds \ {"refresh"} : Call(o, k)  BY <1>3
  <2>2. Begin(o, k) /\ UNCHANGED <<db, mirror, persisted, readFailed>>  BY <2>1 DEF Call
  <2> QED  BY <1>d, <1>c, <2>2, BeginStory DEF OneStory, OpsStory
<1>4. CASE Stop
  <2>1. /\ persisted' = None /\ UNCHANGED db /\ mirror' \in {mirror, Torn}
        /\ \A o \in Ops : pc'[o] = "idle"
    BY <1>4 DEF Stop, FreshProcess
  <2>2. InCache' /\ OpsStory'  BY <2>1 DEF InCache, OpsStory, Loading, Working
  <2> QED  BY <1>d, <2>1, <2>2 DEF OneStory, OpsStory
<1>5. CASE LoseDb
  <2>1. db' = None /\ UNCHANGED <<mirror, persisted, readFailed, opVars>>
    BY <1>5 DEF LoseDb
  <2> QED  BY <1>c, <1>o, <2>1 DEF OneStory, OpsStory, OnDisk
<1>6. CASE LoseMirror
  <2>1. mirror' = None /\ UNCHANGED <<db, persisted, readFailed, opVars>>
    BY <1>6 DEF LoseMirror
  <2> QED  BY <1>d, <1>c, <1>o, <2>1 DEF OneStory, OpsStory
<1>7. ASSUME UNCHANGED <<diskVars, persisted, readFailed, opVars>> PROVE OneStory'
  BY <1>d, <1>c, <1>o, <1>7 DEF OneStory, OpsStory
<1>8. CASE \/ \E d \in Steps : Tick(d)
           \/ ChangeKeyFile \/ RepairClock
           \/ \E d \in Jumps : JumpAhead(d)
           \/ \E d \in SetBacks : SetBack(d)
           \/ UNCHANGED vars
  BY <1>7, <1>8 DEF Tick, ChangeKeyFile, RepairClock, JumpAhead, SetBack, vars
<1> QED
  BY <1>1, <1>2, <1>3, <1>4, <1>5, <1>6, <1>8 DEF Next, Fault

(* The story holds while operations run one at a time. *)
LEMMA StoryInvariant ==
    ASSUME OneAtATime
    PROVE  Spec => []StoryInv
BY StoryInit, StoryNext, PTL DEF Spec

(* With one operation at a time, the record on disk and the cached one are *)
(* bound to themselves: the comparison of fingerprints never fails,        *)
(* whatever copies were lost or torn and merged again.                     *)
THEOREM RecordsBoundToSelf ==
    ASSUME OneAtATime
    PROVE  Spec => []BoundToSelf
<1>1. StoryInv => BoundToSelf
  BY DEF StoryInv, OneStory, OnDisk, InCache, WellBound, BoundToSelf
<1> QED  BY <1>1, StoryInvariant, PTL

(* The row is only written with the cached record, which continues it. *)
LEMMA RowContinues ==
    ASSUME StoryInv, [Next]_vars, db # None, db' # None
    PROVE  Continues(db, db')
<1> USE DEF envVars, diskVars, memVars, opVars
<1>1. CASE \E o \in Ops : WriteStore(o)
  <2>1. PICK o \in Ops : WriteStore(o)  BY <1>1
  <2>2. pc[o] = "writing" /\ db' = rec[o]  BY <2>1 DEF WriteStore
  <2>3. persisted # None /\ rec[o] = persisted
    BY <2>2 DEF StoryInv, OneStory, Working
  <2> QED  BY <2>2, <2>3 DEF StoryInv, OneStory, InCache
<1>2. CASE ~(\E o \in Ops : WriteStore(o))
  <2>1. db' \in {db, None}
    BY <1>2
    DEF Next, Step, Fault, vars, ReadStore, FailRead, Load, SeeTornMirror, LoadWithoutMirror,
        Adopt, Inspect, Judge, ApplySave, ApplyReset, ReturnPeek, FailWrite, WriteMirror, Boot,
        GetState, Call, Tick, ChangeKeyFile, Stop, RepairClock, LoseDb, LoseMirror, JumpAhead,
        SetBack
  <2> QED  BY <2>1, ContinuesItself
<1> QED  BY <1>1, <1>2

(* With one operation at a time, no failed read, crash, torn or lost       *)
(* mirror makes the manager replace the identity in the database or drop   *)
(* its binding.                                                            *)
THEOREM IdentitySurvives ==
    ASSUME OneAtATime
    PROVE  Spec => IdentityKept
<1>1. StoryInv /\ [Next]_vars => [KeepsIdentity]_db
  BY RowContinues DEF KeepsIdentity, Continues
<1> QED  BY <1>1, StoryInvariant, PTL DEF Spec, IdentityKept

(* Nor does it lose the credentials it has.                                *)
THEOREM CredentialsSurvive ==
    ASSUME OneAtATime
    PROVE  Spec => CredentialsKept
<1>1. StoryInv /\ [Next]_vars => [KeepsCredentials]_db
  BY RowContinues DEF KeepsCredentials, Continues
<1> QED  BY <1>1, StoryInvariant, PTL DEF Spec, CredentialsKept

RowStart    == IF db = None THEN None ELSE db.trialStartedAt
MirrorStart == IF MirrorReadable THEN mirror.trialStartedAt ELSE None

(* There is one trial start, wherever it is stored, and the cache knows it. *)
LEMMA OneStart ==
    ASSUME StoryInv, TrialStart # None
    PROVE  /\ TrialStart \in Int
           /\ RowStart \in {None, TrialStart} /\ MirrorStart \in {None, TrialStart}
           /\ persisted # None => persisted.trialStartedAt = TrialStart
<1>1. TrialStart = Earlier(RowStart, MirrorStart)  BY DEF TrialStart, RowStart, MirrorStart
<1>2. RowStart \in Optional(Int) /\ MirrorStart \in Optional(Int)
  BY DEF StoryInv, TypeInv, TypeOK, RowStart, MirrorStart, MirrorReadable, Record, MirrorRecord,
         Optional
<1>3. RowStart # None /\ MirrorStart # None => RowStart = MirrorStart
  BY DEF StoryInv, OneStory, OnDisk, Twins, RowStart, MirrorStart
<1>4. /\ TrialStart \in Int
      /\ RowStart \in {None, TrialStart} /\ MirrorStart \in {None, TrialStart}
      /\ RowStart = TrialStart \/ MirrorStart = TrialStart
  <2>1. RowStart = None \/ MirrorStart = None \/ RowStart = MirrorStart  BY <1>3
  <2> QED  BY <1>1, <1>2, <2>1 DEF Earlier, Optional
<1>5. ASSUME persisted # None PROVE persisted.trialStartedAt = TrialStart
  <2>1. CASE RowStart = TrialStart
    BY <1>5, <2>1 DEF RowStart, StoryInv, OneStory, InCache, Continues
  <2>2. CASE MirrorStart = TrialStart
    BY <1>5, <2>2 DEF MirrorStart, StoryInv, OneStory, InCache, CoversMirror
  <2> QED  BY <1>4, <2>1, <2>2
<1> QED  BY <1>4, <1>5

(* What is on disk after a step was there before, or comes from the cache. *)
LEMMA DiskStep ==
    ASSUME StoryInv, [Next]_vars
    PROVE  /\ db' \in {db, None} \/ (persisted # None /\ db' = persisted)
           /\ \/ mirror' \in {mirror, None, Torn}
              \/ persisted # None /\ mirror' = MirrorOf(persisted)
<1> USE DEF envVars, diskVars, memVars, opVars
<1>1. CASE \E o \in Ops : WriteStore(o) \/ WriteMirror(o)
  <2>1. PICK o \in Ops : WriteStore(o) \/ WriteMirror(o)  BY <1>1
  <2>2. pc[o] \in {"writing", "mirroring"}  BY <2>1 DEF WriteStore, WriteMirror
  <2>3. persisted # None /\ rec[o] = persisted
    BY <2>2 DEF StoryInv, OneStory, Working
  <2> QED  BY <2>1, <2>3 DEF WriteStore, WriteMirror
<1>2. CASE ~(\E o \in Ops : WriteStore(o) \/ WriteMirror(o))
  BY <1>2
  DEF Next, Step, Fault, vars, ReadStore, FailRead, Load, SeeTornMirror, LoadWithoutMirror,
      Adopt, Inspect, Judge, ApplySave, ApplyReset, ReturnPeek, FailWrite, Boot, GetState, Call,
      Tick, ChangeKeyFile, Stop, RepairClock, LoseDb, LoseMirror, JumpAhead, SetBack
<1> QED  BY <1>1, <1>2

(* With one operation at a time, a trial cannot be started over while one  *)
(* copy of its start survives, whatever is written, fails to be written or *)
(* is lost, in whatever order.                                             *)
THEOREM TrialStartSurvives ==
    ASSUME OneAtATime
    PROVE  Spec => TrialStartKept
<1> DEFINE Kept == TrialStart # None /\ TrialStart' # None => TrialStart' <= TrialStart
<1>1. ASSUME StoryInv, [Next]_vars PROVE [Kept]_diskVars
  <2> SUFFICES ASSUME TrialStart # None, TrialStart' # None PROVE TrialStart' <= TrialStart
    OBVIOUS
  <2>1. /\ TrialStart \in Int
        /\ RowStart \in {None, TrialStart} /\ MirrorStart \in {None, TrialStart}
        /\ persisted # None => persisted.trialStartedAt = TrialStart
    BY <1>1, OneStart
  <2>2. TrialStart' = Earlier(RowStart', MirrorStart')  BY DEF TrialStart, RowStart, MirrorStart
  <2>3. RowStart' \in {None, TrialStart}
    <3>1. db' \in {db, None} \/ (persisted # None /\ db' = persisted)  BY <1>1, DiskStep
    <3> HIDE DEF TrialStart
    <3> QED  BY <2>1, <3>1 DEF RowStart
  <2>4. MirrorStart' \in {None, TrialStart}
    <3>1. \/ mirror' \in {mirror, None, Torn}
          \/ persisted # None /\ mirror' = MirrorOf(persisted)
      BY <1>1, DiskStep
    <3> HIDE DEF TrialStart
    <3> QED  BY <2>1, <3>1 DEF MirrorStart, MirrorReadable, MirrorOf
  <2>5. TrialStart' \in {None, TrialStart}
    <3> HIDE DEF TrialStart
    <3> QED  BY <2>1, <2>2, <2>3, <2>4 DEF Earlier
  <2> QED
    <3> HIDE DEF TrialStart
    <3> QED  BY <2>1, <2>5
<1> HIDE DEF Kept
<1>2. StoryInv /\ [Next]_vars => [Kept]_diskVars  BY <1>1
<1>3. Spec => [][Kept]_diskVars  BY <1>2, StoryInvariant, PTL DEF Spec
<1> QED  BY <1>3 DEF Kept, TrialStartKept

-----------------------------------------------------------------------------
(* A clock that was put ahead and put right again.  Store and mirror can   *)
(* be read and written, the row is never lost, and a jump is greater than  *)
(* the tolerance: then there is one watermark, in the row, in the mirror   *)
(* and in the cache, and it comes with its ticket.  The mirror may be lost *)
(* and the process may die, but see Careful.                               *)

Orderly ==
    /\ OneAtATime
    /\ Faults \subseteq {"jump", "setBack", "mirrorLoss", "crash"}
    /\ \A d \in Jumps : d > DefaultSkewTol /\ \A c \in CredIds : d > SkewTolOf(PayloadOf(c))

(* No watermark recorded so far is above t, and one is. *)
Recorded(t) ==
    /\ db # None
    /\ \A r \in {db, persisted} : r # None => r.maxSeenTs <= t

(* What would part a watermark from its ticket does not happen: a crash    *)
(* between the row and the mirror, a reset by a clock that is ahead, and,  *)
(* where a crash may cut a check off before it is written, a jump before   *)
(* the first row or to below a watermark not yet put right.                *)
Careful ==
    /\ Stop => \A o \in Ops : pc[o] # "mirroring"
    /\ \A o \in Ops : ApplyReset(o) => ahead <= 0
    /\ "crash" \in Faults => \A d \in Jumps : JumpAhead(d) => Recorded(wall + d)

(* A record's watermark when the true time is t: what is above it can be   *)
(* undone, and, unless a crash may have cut its check off, it does not     *)
(* stand in the way of the next jump.                                      *)
Healing(r, t) ==
    /\ r.maxSeenTs > t => r.jumpBaseTs # None
    /\ r.jumpBaseTs # None => r.jumpBaseTs <= t
    /\ ahead > 0 => r.maxSeenTs <= t + ahead
    /\ "crash" \notin Faults /\ checked /\ ahead = 0 => \A d \in Jumps : r.maxSeenTs < t + d

Writing == \E o \in Ops : pc[o] = "writing"

(* All that a later check may start from; a row about to be written over   *)
(* is among it only if a crash may leave it.                               *)
CopiesHealing(t) ==
    /\ db # None /\ ("crash" \in Faults \/ ~Writing) => Healing(db, t)
    /\ persisted # None => Healing(persisted, t)

(* There is no copy but the row's, once there is a row. *)
OneMark ==
    /\ ~readFailed /\ mirror # Torn /\ (running \/ Quiet)
    /\ db = None => ahead <= 0 /\ mirror = None
    /\ "crash" \notin Faults /\ db = None /\ checked => Writing
    /\ mirror # None /\ (\A o \in Ops : pc[o] # "mirroring") => mirror = MirrorOf(db)
    /\ ahead > 0 => ahead \in Jumps
    /\ CopiesHealing(wall - ahead)

(* An operation under way works on it, as of the time that it read. *)
Marking(o) ==
    /\ pc[o] # "tampered"
    /\ pc[o] # "idle" => at[o] <= wall /\ CopiesHealing(at[o] - ahead)
    /\ pc[o] = "read" => snap[o] = db
    /\ pc[o] \in Holding => Healing(rec[o], at[o] - ahead)
    /\ pc[o] = "mirroring" => rec[o] = db

HealInv == TypeInv /\ OneMark /\ \A o \in Ops : Marking(o)

(* What heals at one time heals later. *)
LEMMA HealingLater ==
    ASSUME NEW r \in Record, NEW t \in Int, NEW u \in Int, t <= u, ahead \in Int, Healing(r, t)
    PROVE  Healing(r, u)
<1>1. r.maxSeenTs \in Int /\ r.jumpBaseTs \in Optional(Int)  BY DEF Record
<1>2. Jumps \subseteq Int  BY ManagerAssumption
<1>3. r.maxSeenTs > u => r.jumpBaseTs # None  BY <1>1 DEF Healing
<1>4. r.jumpBaseTs # None => r.jumpBaseTs <= u  BY <1>1 DEF Healing, Optional
<1>5. ahead > 0 => r.maxSeenTs <= u + ahead  BY <1>1 DEF Healing
<1>6. "crash" \notin Faults /\ checked /\ ahead = 0 => \A d \in Jumps : r.maxSeenTs < u + d
  BY <1>1, <1>2 DEF Healing
<1> QED  BY <1>3, <1>4, <1>5, <1>6 DEF Healing

(* Only the watermark matters. *)
LEMMA HealingMark ==
    ASSUME NEW r, NEW s, NEW t, Healing(r, t),
           s.maxSeenTs = r.maxSeenTs, s.jumpBaseTs = r.jumpBaseTs
    PROVE  Healing(s, t)
BY DEF Healing

(* A check at true time t on a clock that is a ahead, by more than the     *)
(* tolerance or not at all, or behind: what it leaves above t has a ticket *)
(* from before t, and a clock that is right is not rejected.               *)
LEMMA CheckHeals ==
    ASSUME NEW now \in Int, NEW w \in Watermark, NEW tol \in Nat, NEW t \in Int, NEW a \in Int,
           now = t + a, a > 0 => a > tol /\ w.maxSeenTs <= t + a,
           w.maxSeenTs > t => w.jumpBaseTs # None,
           w.jumpBaseTs # None => w.jumpBaseTs <= t
    PROVE  /\ NextWatermark(now, w, tol).maxSeenTs > t
                => NextWatermark(now, w, tol).jumpBaseTs # None
           /\ NextWatermark(now, w, tol).jumpBaseTs # None
                => NextWatermark(now, w, tol).jumpBaseTs <= t
           /\ a > 0 => NextWatermark(now, w, tol).maxSeenTs <= t + a
           /\ a = 0 => /\ ~Rejected(now, w, tol)
                       /\ NextWatermark(now, w, tol).maxSeenTs <= t + tol
<1>0. w.maxSeenTs \in Int /\ w.jumpBaseTs \in Optional(Int)  BY DEF Watermark
<1>1. CASE /\ Forward(now, w, tol) /\ NextWatermark(now, w, tol) = Clamp(now, w)
           /\ ~Rejected(now, w, tol)
  <2>1. /\ Clamp(now, w).maxSeenTs = w.maxSeenTs
        /\ Clamp(now, w).jumpBaseTs = w.jumpBaseTs
    BY DEF Clamp, Watermark
  <2> QED  BY <1>0, <1>1, <2>1 DEF Forward
<1>2. CASE /\ Forward(now, w, tol) /\ NextWatermark(now, w, tol) = Advance(now, w, tol)
           /\ ~Rejected(now, w, tol)
  <2>1. /\ Advance(now, w, tol).maxSeenTs = IF now > w.maxSeenTs THEN now ELSE w.maxSeenTs
        /\ Advance(now, w, tol).jumpBaseTs =
             IF now - w.maxSeenTs > tol /\ w.jumpBaseTs = None THEN w.maxSeenTs
             ELSE w.jumpBaseTs
    BY DEF Advance
  <2>2. w.maxSeenTs # None  BY <1>0, ClockAssumption
  <2> QED  BY <1>0, <1>2, <2>1, <2>2 DEF Forward
<1>3. CASE /\ ~Forward(now, w, tol) /\ NextWatermark(now, w, tol) = Correct(now, w)
           /\ ~Rejected(now, w, tol)
  <2>1. Correct(now, w).maxSeenTs = now /\ Correct(now, w).jumpBaseTs = None
    BY DEF Correct, Watermark
  <2> QED  BY <1>0, <1>3, <2>1 DEF Forward
<1>4. CASE /\ ~Forward(now, w, tol) /\ ~UndoesJump(now, w, tol)
           /\ NextWatermark(now, w, tol) = RollBack(now, w)
  <2>1. /\ RollBack(now, w).maxSeenTs = w.maxSeenTs
        /\ RollBack(now, w).jumpBaseTs = w.jumpBaseTs
    BY DEF RollBack
  <2>2. a < 0
    <3>1. w.maxSeenTs > now + tol  BY <1>0, <1>4 DEF Forward
    <3>2. a = 0 => w.maxSeenTs > t  BY <1>0, <3>1
    <3>3. a = 0 => w.jumpBaseTs # None /\ w.jumpBaseTs <= t  BY <3>2
    <3>4. a = 0 => UndoesJump(now, w, tol)
      BY <1>0, <3>3 DEF UndoesJump, Optional
    <3> QED  BY <1>0, <1>4, <3>1, <3>4
  <2> QED  BY <1>0, <1>4, <2>1, <2>2
<1> QED  BY <1>1, <1>2, <1>3, <1>4, OutcomeCases

(* The ticket a refresh leaves is that of its check, too. *)
LEMMA RefreshedTicket ==
    ASSUME NEW r \in Record, NEW f, NEW c \in Optional(CredIds), NEW now \in Int
    PROVE  Refreshed(r, f, c, now).jumpBaseTs =
             NextWatermark(now, WatermarkOf(r), SkewTolOf(PayloadOf(c))).jumpBaseTs
<1> DEFINE w == NextWatermark(now, WatermarkOf(r), SkewTolOf(PayloadOf(c)))
           b == Bind(r, c)
           m == WithWatermark(b, w)
<1>1. b \in Record  BY BindType
<1>2. m.jumpBaseTs = w.jumpBaseTs
  <2> HIDE DEF w, b
  <2> QED  BY <1>1 DEF WithWatermark, Record
<1>3. m \in Record
  BY <1>1, WatermarkOfType, PayloadOfType, SkewTolOfType, NextWatermarkType, WithWatermarkType
<1>4. ResolveTrialStart(m, f, c, now).jumpBaseTs = m.jumpBaseTs
  <2> HIDE DEF m
  <2> QED  BY <1>3 DEF ResolveTrialStart, Record
<1> QED  BY <1>2, <1>4 DEF Refreshed

(* Every tolerance a refresh may use is less than a jump. *)
LEMMA TolerancesBelowJumps ==
    ASSUME Orderly, NEW c \in Optional(CredIds), NEW d \in Jumps
    PROVE  SkewTolOf(PayloadOf(c)) < d /\ SkewTolOf(PayloadOf(c)) \in Nat /\ d \in Nat
<1>1. SkewTolOf(PayloadOf(c)) \in Nat  BY PayloadOfType, SkewTolOfType
<1>2. d \in Nat  BY ManagerAssumption
<1>3. c = None => SkewTolOf(PayloadOf(c)) = DefaultSkewTol  BY DEF PayloadOf, SkewTolOf
<1>4. DefaultSkewTol \in Nat  BY EvaluateAssumption
<1>5. c \in CredIds => SkewTolOf(PayloadOf(c)) < d  BY <1>1, <1>2 DEF Orderly
<1>6. c = None => SkewTolOf(PayloadOf(c)) < d  BY <1>2, <1>3, <1>4 DEF Orderly
<1> QED  BY <1>1, <1>2, <1>5, <1>6 DEF Optional

(* What a refresh leaves heals, and on a clock that is right it does not   *)
(* reject.                                                                 *)
LEMMA JudgedHeals ==
    ASSUME Orderly, HealInv, NEW o \in Ops, Judge(o)
    PROVE  LET c == Chosen(file[o], rec[o])
               next == Refreshed(rec[o], file[o], c, at[o])
           IN  /\ next \in Record
               /\ \A r, t : r = next /\ t = at[o] - ahead => Healing(r, t)'
               /\ ahead = 0 => ~Rejected(at[o], WatermarkOf(rec[o]), SkewTolOf(PayloadOf(c)))
<1> DEFINE c    == Chosen(file[o], rec[o])
           next == Refreshed(rec[o], file[o], c, at[o])
           tol  == SkewTolOf(PayloadOf(c))
           w    == WatermarkOf(rec[o])
           t    == at[o] - ahead
<1>1. /\ rec[o] \in Record /\ file[o] \in Optional(KeyFiles)
      /\ at[o] \in Int /\ ahead \in Int /\ t \in Int
  BY DEF Judge, HealInv, TypeInv, TypeOK, RecordsHeld, Holding
<1>2. c \in Optional(CredIds)  BY <1>1, ChosenType
<1>3. next \in Record
  <2> HIDE DEF c
  <2> QED  BY <1>1, <1>2, RefreshedType
<1>4. tol \in Nat  BY <1>2, PayloadOfType, SkewTolOfType
<1>5. \A d \in Jumps : tol < d /\ d \in Nat
  <2> HIDE DEF c
  <2> QED  BY <1>2, TolerancesBelowJumps
<1>6. Healing(rec[o], t)  BY DEF Judge, HealInv, Marking, Holding
<1>7. /\ w \in Watermark /\ w.maxSeenTs = rec[o].maxSeenTs /\ w.jumpBaseTs = rec[o].jumpBaseTs
  BY <1>1, WatermarkOfType DEF WatermarkOf
<1>8. ahead > 0 => ahead > tol
  <2>1. ahead > 0 => ahead \in Jumps  BY DEF HealInv, OneMark
  <2> HIDE DEF tol
  <2> QED  BY <1>5, <1>1, <1>4, <2>1
<1>9. /\ next.maxSeenTs = NextWatermark(at[o], w, tol).maxSeenTs
      /\ next.jumpBaseTs = NextWatermark(at[o], w, tol).jumpBaseTs
  <2> HIDE DEF c
  <2> QED  BY <1>1, <1>2, RefreshedWatermark, RefreshedTicket
<1>10. at[o] = t + ahead  BY <1>1
<1>11. /\ ahead > 0 => w.maxSeenTs <= t + ahead
       /\ w.maxSeenTs > t => w.jumpBaseTs # None
       /\ w.jumpBaseTs # None => w.jumpBaseTs <= t
  <2> HIDE DEF w, t
  <2> QED  BY <1>6, <1>7 DEF Healing
<1>12. /\ next.maxSeenTs > t => next.jumpBaseTs # None
       /\ next.jumpBaseTs # None => next.jumpBaseTs <= t
       /\ ahead > 0 => next.maxSeenTs <= t + ahead
       /\ ahead = 0 => ~Rejected(at[o], w, tol) /\ next.maxSeenTs <= t + tol
  <2> HIDE DEF w, t, tol, next
  <2> QED  BY <1>1, <1>4, <1>7, <1>8, <1>9, <1>10, <1>11, CheckHeals
<1>13. ahead' = ahead /\ checked' = TRUE /\ at[o] \in Int  BY <1>1 DEF Judge
<1>14. ahead = 0 => \A d \in Jumps : next.maxSeenTs < t + d
  <2>1. next.maxSeenTs \in Int  BY <1>3 DEF Record
  <2> HIDE DEF next, t, tol
  <2> QED  BY <1>1, <1>4, <1>5, <1>12, <2>1
<1> QED
  <2> SUFFICES ASSUME NEW r, NEW u, r = next, u = t PROVE Healing(r, u)'
    BY <1>3, <1>12
  <2> HIDE DEF next, t
  <2> QED  BY <1>12, <1>13, <1>14 DEF Healing

(* An operation that begins has no watermark but the cached one. *)
LEMMA BeginMarks ==
    ASSUME OneAtATime, HealInv, NEW o \in Ops, NEW k, Begin(o, k), ~Writing,
           UNCHANGED <<wall, ahead, checked, db, persisted>>
    PROVE  Marking(o)'
<1>1. /\ pc'[o] \in {"reading", "loaded"} /\ kind'[o] = k /\ at'[o] = wall
      /\ pc'[o] = "loaded" => persisted # None
      /\ rec'[o] = persisted
  BY DEF Begin, HealInv, TypeInv, TypeOK
<1>2. wall \in Int /\ wall <= wall  BY DEF HealInv, TypeInv, TypeOK
<1>3. /\ db # None => Healing(db, wall - ahead)
      /\ persisted # None => Healing(persisted, wall - ahead)
  BY DEF HealInv, OneMark, CopiesHealing
<1>4. CopiesHealing(at[o] - ahead)'  BY <1>1, <1>3 DEF CopiesHealing, Healing
<1>5. pc'[o] = "loaded" => Healing(rec[o], at[o] - ahead)'  BY <1>1, <1>3 DEF Healing
<1> QED  BY <1>1, <1>2, <1>4, <1>5 DEF Marking, Holding

(* One that is over has none. *)
LEMMA RetireMarks ==
    ASSUME HealInv, NEW o \in Ops, Retire(o)
    PROVE  Marking(o)'
<1>1. pc'[o] = "idle" /\ kind'[o] = "peek"  BY DEF Retire, HealInv, TypeInv, TypeOK
<1> QED  BY <1>1 DEF Marking, Holding

(* The mirror adds nothing to the row it was written with. *)
LEMMA MergedMark ==
    ASSUME TypeInv, NEW r \in Record, mirror # Torn, mirror # None => mirror = MirrorOf(r)
    PROVE  /\ Merge(r) \in Record
           /\ Merge(r).maxSeenTs = r.maxSeenTs /\ Merge(r).jumpBaseTs = r.jumpBaseTs
<1>1. Merge(r) \in Record  BY MergeType DEF TypeInv, TypeOK
<1>2. CASE ~MirrorReadable  BY <1>1, <1>2 DEF Merge
<1>3. CASE MirrorReadable
  <2>1. mirror.maxSeenTs = r.maxSeenTs  BY <1>3 DEF MirrorReadable, MirrorOf
  <2>2. Larger(r.maxSeenTs, mirror.maxSeenTs) = r.maxSeenTs  BY <2>1 DEF Larger
  <2>3. /\ Merge(r).maxSeenTs = Larger(r.maxSeenTs, mirror.maxSeenTs)
        /\ Merge(r).jumpBaseTs = r.jumpBaseTs
    BY <1>3 DEF Merge, Record
  <2> QED  BY <1>1, <2>2, <2>3
<1> QED  BY <1>2, <1>3

(* What is loaded is the row, or a first record under a clock that is      *)
(* right.                                                                  *)
LEMMA LoadedMark ==
    ASSUME Orderly, HealInv, NEW o \in Ops, pc[o] = "read", NEW base \in Bases(o)
    PROVE  Merge(base) \in Record /\ Healing(Merge(base), at[o] - ahead)
<1>o. \A p \in Ops : p = o  BY DEF Orderly, OneAtATime
<1>t. TypeInv /\ mirror # Torn /\ ~Writing /\ snap[o] = db /\ at[o] \in Int
  BY <1>o DEF HealInv, TypeInv, TypeOK, OneMark, Writing, Marking
<1>b. base \in Record  BY <1>t, BasesType
<1>1. CASE db = None
  <2>1. mirror = None /\ ahead \in Int /\ ahead <= 0 /\ ("crash" \notin Faults => ~checked)
    BY <1>t, <1>1 DEF HealInv, OneMark, TypeInv, TypeOK
  <2>2. PICK id : base = CreateInitialState(id, at[o])
    BY <1>t, <1>1 DEF Bases
  <2>3. Merge(base) = base  BY <2>1 DEF Merge, MirrorReadable
  <2>4. base.maxSeenTs = at[o] /\ base.jumpBaseTs = None
    BY <2>2 DEF CreateInitialState
  <2>5. Healing(base, at[o] - ahead)  BY <1>t, <2>1, <2>4 DEF Healing
  <2> QED  BY <1>b, <2>3, <2>5
<1>2. CASE db # None
  <2>1. base = db
    BY <1>t, <1>2, RecordIsNotNone DEF Bases, TypeInv, TypeOK, Optional
  <2>2. mirror # None => mirror = MirrorOf(base)
    BY <1>o, <2>1 DEF HealInv, OneMark
  <2>3. Healing(db, at[o] - ahead)
    BY <1>t, <1>2 DEF HealInv, Marking, CopiesHealing
  <2> QED  BY <1>t, <1>b, <2>1, <2>2, <2>3, MergedMark, HealingMark
<1> QED  BY <1>1, <1>2

(* A record is written back as it heals. *)
LEMMA PersistMarks ==
    ASSUME Orderly, HealInv, NEW o \in Ops, pc[o] \in {"loaded", "judging"},
           NEW r \in Record, Persist(o, r),
           UNCHANGED <<wall, ahead, diskVars, readFailed, running>>,
           \A t : t = at[o] - ahead => Healing(r, t)'
    PROVE  OneMark' /\ Marking(o)'
<1> USE DEF diskVars
<1>o. \A p \in Ops : p = o  BY DEF Orderly, OneAtATime
<1>1. /\ persisted' = r /\ rec'[o] = r /\ pc'[o] = "writing" /\ UNCHANGED <<at, kind>>
  BY DEF Persist, HealInv, OneMark, TypeInv, TypeOK
<1>2. Writing'  BY <1>1 DEF Writing
<1>3. /\ at[o] \in Int /\ wall \in Int /\ ahead \in Int /\ at[o] <= wall
  BY DEF HealInv, TypeInv, TypeOK, Marking
<1>7. "crash" \in Faults /\ db # None
        => Healing(db, wall - ahead)' /\ Healing(db, at[o] - ahead)'
  BY <1>1 DEF HealInv, OneMark, Marking, CopiesHealing, Healing
<1>4. \A t : t = wall - ahead => Healing(r, t)'
  <2> SUFFICES ASSUME NEW t, t = wall - ahead PROVE Healing(r, t)'  OBVIOUS
  <2>1. PICK u \in Int : u = at[o] - ahead  BY <1>3
  <2>2. Healing(r, u)' /\ u <= t /\ t \in Int  BY <1>3, <2>1
  <2>3. ahead' \in Int  BY <1>3
  <2>4. r.maxSeenTs \in Int /\ r.jumpBaseTs \in Optional(Int) /\ Jumps \subseteq Int
    BY ManagerAssumption DEF Record
  <2>5. (r.maxSeenTs > t => r.jumpBaseTs # None) /\ (ahead' > 0 => r.maxSeenTs <= t + ahead')
    BY <2>2, <2>3, <2>4 DEF Healing
  <2>6. r.jumpBaseTs # None => r.jumpBaseTs <= t
    BY <2>2, <2>4 DEF Healing, Optional
  <2>7. "crash" \notin Faults /\ checked' /\ ahead' = 0 => \A d \in Jumps : r.maxSeenTs < t + d
    BY <2>2, <2>4 DEF Healing
  <2> QED  BY <2>5, <2>6, <2>7 DEF Healing
<1>5. OneMark'
  <2>1. CopiesHealing(wall - ahead)'  BY <1>1, <1>2, <1>4, <1>7 DEF CopiesHealing, Healing
  <2>2. /\ ~readFailed /\ mirror # Torn /\ running
        /\ db = None => ahead <= 0 /\ mirror = None
        /\ mirror # None => mirror = MirrorOf(db)
        /\ ahead > 0 => ahead \in Jumps
    BY <1>o DEF HealInv, OneMark, Quiet
  <2> QED  BY <1>2, <2>1, <2>2 DEF OneMark, MirrorOf
<1>6. Marking(o)'
  <2>1. CopiesHealing(at[o] - ahead)'  BY <1>1, <1>2, <1>7 DEF CopiesHealing, Healing
  <2>2. Healing(rec[o], at[o] - ahead)'  BY <1>1 DEF Healing
  <2> QED  BY <1>1, <1>3, <2>1, <2>2 DEF Marking
<1> QED  BY <1>5, <1>6

(* Each await of an operation keeps one watermark that heals. *)
LEMMA HealStep ==
    ASSUME Orderly, HealInv, NEW o \in Ops, Step(o), ApplyReset(o) => ahead <= 0
    PROVE  OneMark' /\ Marking(o)'
<1> USE DEF diskVars, memVars, envVars
<1>t. TypeInv /\ OneMark /\ Marking(o)  BY DEF HealInv
<1>o. OneAtATime /\ \A p \in Ops : p = o  BY DEF Orderly, OneAtATime
<1>r. pc[o] \in Holding => rec[o] \in Record  BY <1>t DEF TypeInv, RecordsHeld
<1>n. pc[o] # "idle" => running  BY <1>t DEF OneMark, Quiet
<1>f. ~({"readFail", "writeFail", "mirrorFail"} \cap Faults # {})  BY DEF Orderly
<1>m. ASSUME UNCHANGED <<envVars, diskVars, persisted, readFailed, running>>, running,
             pc[o] # "writing", pc'[o] # "writing", pc[o] # "mirroring"
      PROVE  OneMark'
  <2>1. ~Writing /\ ~Writing'  BY <1>o, <1>m DEF Writing
  <2>2. mirror # None => mirror = MirrorOf(db)  BY <1>o, <1>t, <1>m DEF OneMark
  <2>3. CopiesHealing(wall - ahead)'
    BY <1>t, <1>m, <2>1 DEF OneMark, CopiesHealing, Healing
  <2> QED  BY <1>t, <1>m, <2>1, <2>2, <2>3 DEF OneMark, MirrorOf
<1>1. CASE ReadStore(o)
  <2>1. /\ pc[o] = "reading" /\ pc'[o] = "read" /\ snap'[o] = db
        /\ UNCHANGED <<envVars, diskVars, persisted, readFailed, running, at, kind>>
    BY <1>1, <1>t DEF ReadStore, TypeInv, TypeOK
  <2>2. ~Writing /\ ~Writing'  BY <1>o, <2>1 DEF Writing
  <2>3. CopiesHealing(at[o] - ahead)'
    BY <1>t, <2>1, <2>2 DEF Marking, CopiesHealing, Healing
  <2>4. Marking(o)'  BY <1>t, <2>1, <2>3 DEF Marking, Holding
  <2> QED  BY <1>m, <1>n, <2>1, <2>4
<1>2. CASE Load(o)
  <2>1. PICK base \in Bases(o) : Adopt(o, Merge(base))  BY <1>2 DEF Load
  <2>2. pc[o] = "read" /\ snap[o] = db /\ snap[o] # Failed
    BY <1>2, <1>t, RecordIsNotNone DEF Load, Marking, TypeInv, TypeOK, Optional
  <2>3. PICK r \in Record : r = Merge(base) /\ Healing(r, at[o] - ahead)
    BY <2>2, LoadedMark
  <2>4. /\ rec'[o] = r /\ pc'[o] = "loaded" /\ persisted' = r /\ readFailed' = FALSE
        /\ UNCHANGED <<envVars, diskVars, running, at, kind>>
    BY <1>t, <2>1, <2>2, <2>3 DEF Adopt, TypeInv, TypeOK
  <2>5. ~Writing /\ ~Writing'  BY <1>o, <2>2, <2>4 DEF Writing
  <2>6. /\ at[o] \in Int /\ wall \in Int /\ ahead \in Int /\ at[o] <= wall
    BY <1>t, <2>2 DEF TypeInv, TypeOK, Marking
  <2>7. Healing(r, wall - ahead)
    <3>1. at[o] - ahead <= wall - ahead /\ at[o] - ahead \in Int /\ wall - ahead \in Int
      BY <2>6
    <3> QED  BY <2>3, <2>6, <3>1, HealingLater
  <2>8. CopiesHealing(wall - ahead)'
    BY <1>t, <2>4, <2>5, <2>7 DEF OneMark, CopiesHealing, Healing
  <2>9. CopiesHealing(at[o] - ahead)'
    BY <1>t, <2>2, <2>3, <2>4, <2>5 DEF Marking, CopiesHealing, Healing
  <2>10. Healing(rec[o], at[o] - ahead)'  BY <2>3, <2>4 DEF Healing
  <2>11. Marking(o)'  BY <1>t, <2>2, <2>4, <2>9, <2>10 DEF Marking, Holding
  <2>12. mirror # None => mirror = MirrorOf(db)  BY <1>o, <1>t, <2>2 DEF OneMark
  <2>13. OneMark'
    BY <1>t, <1>n, <2>2, <2>4, <2>5, <2>8, <2>12 DEF OneMark, MirrorOf
  <2> QED  BY <2>11, <2>13
<1>3. CASE Inspect(o)
  <2>1. /\ pc[o] = "loaded" /\ pc'[o] = "judging"
        /\ UNCHANGED <<envVars, diskVars, persisted, readFailed, running, at, kind>>
    BY <1>3, <1>t DEF Inspect, TypeInv, TypeOK
  <2>2. rec[o] \in Record /\ Healing(rec[o], at[o] - ahead)
    BY <1>t, <1>r, <2>1 DEF Holding, Marking
  <2>3. rec'[o] \in {rec[o], [rec[o] EXCEPT !.lastCredential = keyFile]}
    BY <1>3, <1>t DEF Inspect, TypeInv, TypeOK
  <2>4. rec'[o].maxSeenTs = rec[o].maxSeenTs /\ rec'[o].jumpBaseTs = rec[o].jumpBaseTs
    BY <2>2, <2>3 DEF Record
  <2>5. Healing(rec[o], at[o] - ahead)'  BY <2>1, <2>2, <2>4 DEF Healing
  <2>6. ~Writing /\ ~Writing'  BY <1>o, <2>1 DEF Writing
  <2>7. CopiesHealing(at[o] - ahead)'
    BY <1>t, <2>1, <2>6 DEF Marking, CopiesHealing, Healing
  <2>8. Marking(o)'  BY <1>t, <2>1, <2>5, <2>7 DEF Marking
  <2> QED  BY <1>m, <1>n, <2>1, <2>8
<1>4. CASE Judge(o)
  <2> DEFINE c    == Chosen(file[o], rec[o])
             next == Refreshed(rec[o], file[o], c, at[o])
  <2>1. next \in Record /\ \A r, t : r = next /\ t = at[o] - ahead => Healing(r, t)'
    BY <1>4, JudgedHeals
  <2>2. /\ pc[o] = "judging" /\ Persist(o, next)
        /\ UNCHANGED <<wall, ahead, diskVars, readFailed, running>>
    BY <1>4 DEF Judge
  <2>3. PICK r \in Record : r = next  BY <2>1
  <2> HIDE DEF next
  <2> QED  BY <2>1, <2>2, <2>3, PersistMarks
<1>5. CASE ApplySave(o)
  <2>1. PICK cred \in TrialCreds : Persist(o, [rec[o] EXCEPT !.trialCredential = cred])
    BY <1>5 DEF ApplySave
  <2>2. /\ pc[o] = "loaded"
        /\ UNCHANGED <<wall, ahead, checked, diskVars, readFailed, running>>
    BY <1>5 DEF ApplySave
  <2>3. rec[o] \in Record /\ Healing(rec[o], at[o] - ahead)
    BY <1>t, <1>r, <2>2 DEF Holding, Marking
  <2>4. [rec[o] EXCEPT !.trialCredential = cred] \in Record
    BY <2>3, ManagerAssumption DEF Record, Optional
  <2>5. PICK r \in Record : r = [rec[o] EXCEPT !.trialCredential = cred]  BY <2>4
  <2>6. r.maxSeenTs = rec[o].maxSeenTs /\ r.jumpBaseTs = rec[o].jumpBaseTs
    BY <2>3, <2>5 DEF Record
  <2>7. \A t : t = at[o] - ahead => Healing(r, t)'
    BY <2>2, <2>3, <2>6 DEF Healing
  <2> QED  BY <2>1, <2>2, <2>5, <2>7, PersistMarks
<1>6. CASE ReturnPeek(o)
  <2>1. /\ pc[o] = "loaded" /\ pc'[o] = "idle" /\ Retire(o)
        /\ UNCHANGED <<envVars, diskVars, persisted, readFailed, running>>
    BY <1>6, <1>t DEF ReturnPeek, Retire, TypeInv, TypeOK
  <2> QED  BY <1>m, <1>n, <2>1, RetireMarks
<1>7. CASE WriteStore(o)
  <2>1. /\ pc[o] = "writing" /\ pc'[o] = "mirroring" /\ db' = rec[o]
        /\ UNCHANGED <<envVars, mirror, persisted, readFailed, running, at, kind, rec>>
    BY <1>7, <1>t DEF WriteStore, TypeInv, TypeOK
  <2>2. rec[o] \in Record /\ Healing(rec[o], at[o] - ahead) /\ at[o] <= wall
    BY <1>t, <1>r, <2>1 DEF Holding, Marking
  <2>3. at[o] \in Int /\ wall \in Int /\ ahead \in Int  BY <1>t DEF TypeInv, TypeOK
  <2>4. Healing(rec[o], wall - ahead)
    <3>1. at[o] - ahead <= wall - ahead /\ at[o] - ahead \in Int /\ wall - ahead \in Int
      BY <2>2, <2>3
    <3> QED  BY <2>2, <2>3, <3>1, HealingLater
  <2>5. db' # None  BY <2>1, <2>2, RecordIsNotNone
  <2>6. CopiesHealing(wall - ahead)' /\ CopiesHealing(at[o] - ahead)'
    BY <1>t, <2>1, <2>2, <2>4 DEF OneMark, Marking, CopiesHealing, Healing
  <2>7. Healing(rec[o], at[o] - ahead)'  BY <2>1, <2>2 DEF Healing
  <2>8. OneMark'  BY <1>t, <1>n, <2>1, <2>5, <2>6 DEF OneMark
  <2>9. Marking(o)'  BY <1>t, <2>1, <2>2, <2>6, <2>7 DEF Marking
  <2> QED  BY <2>8, <2>9
<1>8. CASE WriteMirror(o)
  <2>1. /\ pc[o] = "mirroring" /\ mirror' = MirrorOf(rec[o]) /\ Return(o)
        /\ UNCHANGED <<envVars, db, persisted, readFailed, running>>
    BY <1>8, <1>f DEF WriteMirror
  <2>2. rec[o] = db /\ rec[o] \in Record
    BY <1>t, <1>r, <2>1 DEF Holding, Marking
  <2>3. MirrorOf(db) \in MirrorRecord  BY <2>2, MirrorOfType
  <2>4. mirror' = MirrorOf(db) /\ mirror' # Torn /\ db # None
    BY <2>1, <2>2, <2>3, RecordIsNotNone
  <2>5. ~Writing /\ ~Writing'
    BY <1>o, <1>t, <2>1
    DEF Writing, Return, Retire, BeginRefresh, Begin, TypeInv, TypeOK
  <2>6. CopiesHealing(wall - ahead)'
    BY <1>t, <2>1, <2>5 DEF OneMark, CopiesHealing, Healing
  <2>7. OneMark'
    BY <1>t, <1>n, <2>1, <2>4, <2>5, <2>6 DEF OneMark, MirrorOf
  <2>8. Marking(o)'
    <3>1. CASE kind[o] = "refresh"  BY <2>1, <3>1, RetireMarks DEF Return
    <3>2. CASE kind[o] # "refresh"
      BY <1>o, <2>1, <2>5, <3>2, BeginMarks DEF Return, BeginRefresh
    <3> QED  BY <3>1, <3>2
  <2> QED  BY <2>7, <2>8
<1>9. CASE ApplyReset(o)
  <2>1. /\ pc[o] = "loaded" /\ ahead <= 0
        /\ UNCHANGED <<wall, ahead, checked, diskVars, readFailed, running>>
    BY <1>9 DEF ApplyReset
  <2>2. /\ rec[o] \in Record /\ at[o] \in Int /\ ahead \in Int
        /\ FirstWatermark(at[o]) \in Watermark
    BY <1>t, <1>r, <2>1, FirstWatermarkType DEF Holding, TypeInv, TypeOK
  <2>3. PICK r \in Record : r = WithWatermark(rec[o], FirstWatermark(at[o]))
    BY <2>2, WithWatermarkType
  <2>4. r.maxSeenTs = at[o] /\ r.jumpBaseTs = None
    BY <2>2, <2>3 DEF WithWatermark, FirstWatermark, Record
  <2>5. \A d \in Jumps : d > 0
    BY <1>t, TolerancesBelowJumps DEF Optional
  <2>6. \A t : t = at[o] - ahead => Healing(r, t)'
    BY <2>1, <2>2, <2>4, <2>5, ManagerAssumption DEF Healing
  <2>7. Persist(o, r)
    BY <1>9, <2>3 DEF ApplyReset
  <2> QED  BY <2>1, <2>6, <2>7, PersistMarks
<1>10. ASSUME FailRead(o) \/ SeeTornMirror(o) \/ LoadWithoutMirror(o) \/ FailWrite(o)
       PROVE  FALSE
  BY <1>10, <1>f, <1>t
  DEF FailRead, SeeTornMirror, LoadWithoutMirror, FailWrite, OneMark, Marking
<1> QED
  BY <1>1, <1>2, <1>3, <1>4, <1>5, <1>6, <1>7, <1>8, <1>9, <1>10 DEF Step

(* At the start the clock is right, and there is no watermark. *)
LEMMA HealInit == Init => HealInv
<1> SUFFICES ASSUME Init PROVE HealInv  OBVIOUS
<1>1. TypeInv  BY TypeInit
<1>2. OneMark
  BY RecordAssumption DEF Init, OneMark, CopiesHealing, Quiet
<1>3. \A o \in Ops : Marking(o)  BY DEF Init, Marking, Holding
<1> QED  BY <1>1, <1>2, <1>3 DEF HealInv

(* Moving the clock leaves the true time, and every copy heals as before. *)
LEMMA MovedHeals ==
    ASSUME HealInv, Quiet, wall' - ahead' = wall - ahead, wall' \in Int, ahead' \in Int,
           ~checked', ahead' > 0 => ahead' \in Jumps /\ checked /\ ahead = 0,
           "crash" \in Faults /\ ahead' > 0 => Recorded(wall'),
           db = None => ahead' <= 0, UNCHANGED <<diskVars, memVars, opVars>>
    PROVE  OneMark' /\ \A o \in Ops : Marking(o)'
<1> USE DEF diskVars, memVars, opVars
<1>1. PICK t \in Int : t = wall - ahead  BY DEF HealInv, TypeInv, TypeOK
<1>2. ASSUME NEW r \in Record, r \in {db, persisted}, Healing(r, t) PROVE Healing(r, t)'
  <2>1. r.maxSeenTs \in Int /\ Jumps \subseteq Int /\ r # None
    BY ManagerAssumption, RecordIsNotNone DEF Record
  <2>2. "crash" \notin Faults /\ ahead' > 0 => r.maxSeenTs < t + ahead'
    BY <1>2 DEF Healing
  <2>4. "crash" \in Faults /\ ahead' > 0 => r.maxSeenTs <= t + ahead'
    BY <1>1, <1>2, <2>1 DEF Recorded
  <2>3. ahead' > 0 => r.maxSeenTs <= t + ahead'  BY <1>1, <2>1, <2>2, <2>4
  <2> QED  BY <1>2, <2>3 DEF Healing
<1>3. \A o \in Ops : pc[o] = "idle"  BY DEF Quiet
<1>4. /\ db # None => db \in Record /\ Healing(db, t)
      /\ persisted # None => persisted \in Record /\ Healing(persisted, t)
  BY <1>1, <1>3
  DEF HealInv, TypeInv, TypeOK, Optional, OneMark, CopiesHealing, Writing
<1>5. t = wall' - ahead'  BY <1>1
<1>6. CopiesHealing(wall - ahead)'  BY <1>2, <1>4, <1>5 DEF CopiesHealing, Healing
<1>7. OneMark'
  BY <1>3, <1>6 DEF HealInv, OneMark, Writing, Quiet, MirrorOf
<1>8. \A o \in Ops : Marking(o)'  BY <1>3 DEF HealInv, Marking, Holding
<1> QED  BY <1>7, <1>8

(* Where the clock stays, nothing but the key file may change. *)
LEMMA StillHeals ==
    ASSUME HealInv, UNCHANGED <<wall, ahead, checked, diskVars, memVars, opVars>>
    PROVE  OneMark' /\ \A o \in Ops : Marking(o)'
<1> USE DEF diskVars, memVars, opVars
<1>1. OneMark'
  BY DEF HealInv, OneMark, CopiesHealing, Healing, Writing, Quiet, MirrorOf
<1>2. \A o \in Ops : Marking(o)'
  BY DEF HealInv, Marking, CopiesHealing, Healing, Writing
<1> QED  BY <1>1, <1>2

(* No step leaves a watermark that does not heal. *)
LEMMA HealNext ==
    ASSUME Orderly, HealInv, Next, Careful
    PROVE  HealInv'
<1> USE DEF envVars, diskVars, memVars, opVars
<1>t. TypeInv'  BY TypeNext DEF HealInv
<1>i. TypeInv /\ OneMark /\ \A o \in Ops : Marking(o)  BY DEF HealInv
<1>o. OneAtATime /\ \A o, p \in Ops : p = o  BY DEF Orderly, OneAtATime
<1>f. Faults \cap {"readFail", "writeFail", "mirrorFail", "mirrorTorn", "dbLoss"} = {}
  BY DEF Orderly
<1> SUFFICES OneMark' /\ \A o \in Ops : Marking(o)'  BY <1>t DEF HealInv
<1>1. CASE \E o \in Ops : Step(o)
  <2>1. PICK o \in Ops : Step(o)  BY <1>1
  <2> QED  BY <1>o, <2>1, HealStep DEF Careful
<1>2. CASE \E o \in Ops : Boot(o) \/ GetState(o) \/ \E k \in Kinds \ {"refresh"} : Call(o, k)
  <2>1. PICK o \in Ops :
           Boot(o) \/ GetState(o) \/ \E k \in Kinds \ {"refresh"} : Call(o, k)
    BY <1>2
  <2>2. PICK k : /\ Begin(o, k) /\ pc[o] = "idle" /\ running'
                 /\ UNCHANGED <<envVars, diskVars, persisted, readFailed>>
    <3>1. CASE Boot(o)
      BY <1>i, <3>1 DEF Boot, BeginRefresh, OneMark, Quiet
    <3>2. CASE GetState(o)  BY <3>2 DEF GetState, BeginRefresh
    <3>3. CASE \E k \in Kinds \ {"refresh"} : Call(o, k)
      BY <3>3 DEF Call
    <3> QED  BY <2>1, <3>1, <3>2, <3>3
  <2>3. pc'[o] \in {"reading", "loaded"}  BY <1>i, <2>2 DEF Begin, TypeInv, TypeOK
  <2>4. ~Writing /\ ~Writing'  BY <1>o, <2>2, <2>3 DEF Writing
  <2>5. Marking(o)'  BY <1>o, <2>2, <2>4, BeginMarks
  <2>6. mirror # None => mirror = MirrorOf(db)  BY <1>o, <1>i, <2>2 DEF OneMark
  <2>7. CopiesHealing(wall - ahead)'
    BY <1>i, <2>2, <2>4 DEF OneMark, CopiesHealing, Healing
  <2>8. OneMark'  BY <1>i, <2>2, <2>4, <2>6, <2>7 DEF OneMark, MirrorOf
  <2> QED  BY <1>o, <2>5, <2>8
<1>3. CASE \E d \in Steps : Tick(d)
  <2>1. PICK d \in Nat : Tick(d)  BY <1>3, ManagerAssumption
  <2>2. /\ wall' = wall + d
        /\ UNCHANGED <<ahead, checked, diskVars, memVars, opVars>>
    BY <2>1 DEF Tick
  <2>3. wall \in Int /\ ahead \in Int /\ at \in [Ops -> Int]  BY <1>i DEF TypeInv, TypeOK
  <2>4. ASSUME NEW r \in Record, Healing(r, wall - ahead) PROVE Healing(r, wall' - ahead)
    <3>1. wall - ahead <= wall' - ahead /\ wall - ahead \in Int /\ wall' - ahead \in Int
      BY <2>2, <2>3
    <3> QED  BY <2>3, <2>4, <3>1, HealingLater
  <2>5. /\ db # None => db \in Record
        /\ persisted # None => persisted \in Record
    BY <1>i DEF TypeInv, TypeOK, Optional
  <2>6. CopiesHealing(wall' - ahead)
    BY <1>i, <2>4, <2>5 DEF OneMark, CopiesHealing
  <2>7. CopiesHealing(wall - ahead)'
    BY <2>2, <2>6 DEF CopiesHealing, Healing, Writing
  <2>8. OneMark'
    BY <1>i, <2>2, <2>7 DEF OneMark, Writing, Quiet, MirrorOf
  <2>9. ASSUME NEW o \in Ops PROVE Marking(o)'
    <3>1. at[o] <= wall => at[o] <= wall'  BY <2>2, <2>3
    <3>2. CopiesHealing(at[o] - ahead) => CopiesHealing(at[o] - ahead)'
      BY <2>2 DEF CopiesHealing, Healing, Writing
    <3>3. Healing(rec[o], at[o] - ahead) => Healing(rec[o], at[o] - ahead)'
      BY <2>2 DEF Healing
    <3> QED  BY <1>i, <2>2, <3>1, <3>2, <3>3 DEF Marking
  <2> QED  BY <2>8, <2>9
<1>4. CASE Stop
  <2>1. /\ UNCHANGED <<envVars, db, mirror>> /\ FreshProcess /\ running' = FALSE
        /\ (Quiet \/ "crash" \in Faults) /\ \A o \in Ops : pc[o] # "mirroring"
    BY <1>4, <1>f DEF Stop, Careful
  <2>2. /\ persisted' = None /\ readFailed' = FALSE
        /\ \A o \in Ops : pc'[o] = "idle" /\ kind'[o] = "peek"
    BY <2>1 DEF FreshProcess
  <2>3. ("crash" \in Faults \/ ~Writing) /\ ~Writing'
    BY <2>1, <2>2 DEF Writing, Quiet
  <2>4. CopiesHealing(wall - ahead)'
    BY <1>i, <2>1, <2>2, <2>3 DEF OneMark, CopiesHealing, Healing
  <2>5. OneMark'
    BY <1>i, <2>1, <2>2, <2>3, <2>4 DEF OneMark, Quiet, MirrorOf
  <2>6. \A o \in Ops : Marking(o)'  BY <2>2 DEF Marking, Holding
  <2> QED  BY <2>5, <2>6
<1>5. CASE LoseMirror
  <2>1. mirror' = None /\ UNCHANGED <<envVars, db, memVars, opVars>>
    BY <1>5 DEF LoseMirror
  <2>2. OneMark'
    BY <1>i, <2>1, RecordAssumption
    DEF OneMark, CopiesHealing, Healing, Writing, Quiet, TypeInv, TypeOK
  <2>3. \A o \in Ops : Marking(o)'
    BY <1>i, <2>1 DEF Marking, CopiesHealing, Healing, Writing
  <2> QED  BY <2>2, <2>3
<1>6. CASE \E d \in Jumps : JumpAhead(d)
  <2>1. PICK d \in Jumps : JumpAhead(d)  BY <1>6
  <2>2. /\ Quiet /\ checked /\ ahead = 0 /\ wall' = wall + d /\ ahead' = d /\ ~checked'
        /\ UNCHANGED <<diskVars, memVars, opVars>>
    BY <2>1 DEF JumpAhead
  <2>3. d \in Int /\ wall \in Int  BY <1>i, ManagerAssumption DEF TypeInv, TypeOK
  <2>4. "crash" \in Faults => Recorded(wall')  BY <2>1, <2>2 DEF Careful
  <2>5. db # None  BY <1>i, <2>2, <2>4 DEF OneMark, Writing, Quiet, Recorded
  <2>6. wall' - ahead' = wall - ahead /\ wall' \in Int  BY <2>2, <2>3
  <2> QED  BY <2>2, <2>3, <2>4, <2>5, <2>6, MovedHeals
<1>7. CASE \E d \in SetBacks : SetBack(d)
  <2>1. PICK d \in Nat : SetBack(d)  BY <1>7, ManagerAssumption
  <2>2. /\ Quiet /\ checked /\ ahead = 0 /\ wall' = wall - d /\ ahead' = -d /\ ~checked'
        /\ UNCHANGED <<diskVars, memVars, opVars>>
    BY <2>1 DEF SetBack
  <2>3. wall \in Int  BY <1>i DEF TypeInv, TypeOK
  <2>4. wall' - ahead' = wall - ahead /\ wall' \in Int /\ ahead' \in Int
    BY <2>2, <2>3
  <2>5. ahead' <= 0 /\ ~(ahead' > 0)
    BY <2>2
  <2> QED  BY <2>2, <2>4, <2>5, MovedHeals
<1>8. CASE RepairClock
  <2>1. /\ Quiet /\ wall' = wall - ahead /\ ahead' = 0 /\ ~checked'
        /\ UNCHANGED <<diskVars, memVars, opVars>>
    BY <1>8 DEF RepairClock
  <2>2. wall \in Int /\ ahead \in Int  BY <1>i DEF TypeInv, TypeOK
  <2>3. /\ wall' - ahead' = wall - ahead /\ wall' \in Int /\ ahead' \in Int
        /\ ahead' <= 0 /\ ~(ahead' > 0)
    BY <2>1, <2>2
  <2> QED  BY <2>1, <2>3, MovedHeals
<1>9. CASE ChangeKeyFile
  <2>1. UNCHANGED <<wall, ahead, checked, diskVars, memVars, opVars>>
    BY <1>9 DEF ChangeKeyFile
  <2> QED  BY <2>1, StillHeals
<1>10. ~LoseDb  BY <1>f DEF LoseDb
<1> QED
  BY <1>1, <1>2, <1>3, <1>4, <1>5, <1>6, <1>7, <1>8, <1>9, <1>10 DEF Next, Fault

(* The reasons of a verdict on a clock that is trusted are others. *)
LEMMA OtherReason ==
    ASSUME NEW status, NEW days, NEW reason, reason # "clock_rollback"
    PROVE  State(status, reason, days).invalidReason # "clock_rollback"
BY DEF State

(* With a trusted clock no verdict blames a rollback. *)
LEMMA TrustedClockReason ==
    ASSUME NEW now, NEW p, NEW reason, reason # "clock_rollback", NEW start, NEW clock,
           ~Rejected(now, clock, SkewTolOf(p))
    PROVE  EvaluateLicense(now, p, reason, start, clock).invalidReason # "clock_rollback"
<1>0. None # "clock_rollback"  BY NoReasonAssumption DEF Reasons
<1>1. \A typ, end, warnDays :
         Term(typ, end, warnDays, now).invalidReason # "clock_rollback"
  BY <1>0, OtherReason DEF Term
<1>2. EvaluateWithoutCredential(now, reason, start).invalidReason # "clock_rollback"
  BY <1>0, <1>1, OtherReason DEF EvaluateWithoutCredential, Invalid
<1>3. EvaluateCredential(now, p, start).invalidReason # "clock_rollback"
  BY <1>0, <1>1, OtherReason DEF EvaluateCredential, Invalid
<1> QED  BY <1>2, <1>3 DEF EvaluateLicense

(* A refresh on a clock that is right does not find it wrong. *)
LEMMA JudgedTrusted ==
    ASSUME Orderly, HealInv, NEW o \in Ops, Judge(o), ahead = 0
    PROVE  state'.invalidReason # "clock_rollback"
<1> DEFINE c == Chosen(file[o], rec[o])
<1>1. rec[o] \in Record /\ file[o] \in Optional(KeyFiles)
  BY DEF Judge, HealInv, TypeInv, TypeOK, RecordsHeld, Holding
<1>2. c \in Optional(CredIds)  BY <1>1, ChosenType
<1>3. ~Rejected(at[o], WatermarkOf(rec[o]), SkewTolOf(PayloadOf(c)))  BY JudgedHeals
<1>4. PICK start : state' = EvaluateLicense(at[o], PayloadOf(c), InvalidReasonOf(c),
                                           start, WatermarkOf(rec[o]))
  BY DEF Judge
<1> HIDE DEF c
<1>5. InvalidReasonOf(c) # "clock_rollback"
  BY <1>2, ManagerAssumption, NoReasonAssumption DEF InvalidReasonOf, Optional, Reasons
<1> QED  BY <1>3, <1>4, <1>5, TrustedClockReason

(* A clock that was put ahead by more than the tolerance, and put right    *)
(* again, blocks nobody once a refresh has seen it right: the ticket to    *)
(* undo the jump goes with the raised watermark through row, mirror and    *)
(* cache, and through restarts, crashes and resets, unless one of the      *)
(* steps that Careful names parts them (checkClock, persist,               *)
(* loadPersisted).                                                         *)
THEOREM JumpsHeal ==
    ASSUME Orderly
    PROVE  Spec /\ [][Careful]_vars => []ForwardFaultHeals
<1>1. Init => HealInv /\ ForwardFaultHeals
  BY HealInit DEF Init, ForwardFaultHeals
<1>2. HealInv /\ ForwardFaultHeals /\ [Next]_vars /\ [Careful]_vars
        => HealInv' /\ ForwardFaultHeals'
  <2> USE DEF envVars, diskVars, memVars, opVars
  <2>1. ASSUME HealInv, ForwardFaultHeals, UNCHANGED vars PROVE HealInv' /\ ForwardFaultHeals'
    <3>1. TypeInv'  BY <2>1, TypeNext DEF HealInv
    <3>2. OneMark' /\ \A o \in Ops : Marking(o)'  BY <2>1, StillHeals DEF vars
    <3>3. ForwardFaultHeals'  BY <2>1 DEF vars, ForwardFaultHeals
    <3> QED  BY <3>1, <3>2, <3>3 DEF HealInv
  <2> SUFFICES ASSUME HealInv, ForwardFaultHeals, Next, Careful PROVE ForwardFaultHeals'
    BY <2>1, HealNext
  <2>2. CASE \E o \in Ops : Judge(o)
    <3>1. PICK o \in Ops : Judge(o)  BY <2>2
    <3>2. ahead' = ahead  BY <3>1 DEF Judge
    <3> QED  BY <3>1, <3>2, JudgedTrusted DEF ForwardFaultHeals
  <2>3. CASE Stop
    BY <2>3, NoReasonAssumption DEF Stop, FreshProcess, Checking, ForwardFaultHeals, Reasons
  <2>4. CASE ~(\E o \in Ops : Judge(o)) /\ ~Stop
    <3>1. state' = state /\ ((checked' = checked /\ ahead' = ahead) \/ checked' = FALSE)
      BY <2>4
      DEF Next, Step, Fault, ReadStore, FailRead, Load, SeeTornMirror,
          LoadWithoutMirror, Adopt, Inspect, ApplySave, ApplyReset, ReturnPeek, WriteStore,
          FailWrite, WriteMirror, Boot, GetState, Call, Tick, ChangeKeyFile, RepairClock,
          LoseDb, LoseMirror, JumpAhead, SetBack
    <3> QED  BY <3>1 DEF ForwardFaultHeals
  <2> QED  BY <2>2, <2>3, <2>4
<1> QED  BY <1>1, <1>2, PTL DEF Spec
=============================================================================
