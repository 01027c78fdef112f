----------------------- MODULE TrialRegistrationProofs -----------------------
(***************************************************************************)
(* Proofs about the registration of trials: for any number of requests,    *)
(* installations, signals, reinstallations and failures.                   *)
(***************************************************************************)
EXTENDS TrialRegistration, FiniteSetTheorems, NaturalsInduction,
        WellFoundedInduction, TLAPS

-----------------------------------------------------------------------------
(* The inductive invariant *)

(* No start is in the future, nor after the first moment. *)
Timely ==
    /\ since # None => since <= now /\ Known # {}
    /\ \A i \in Known : since # None /\ instances[i].start <= since
    /\ \A s \in Busy : tx[s].start # None =>
           tx[s].start <= now /\ (since # None => tx[s].start <= since)

(* Who holds a gap has no instance yet, and nobody else holds the gap of   *)
(* an instance that is inserted.                                           *)
Guarded ==
    /\ \A s \in Sessions : HoldsGap(s) => Sig(s).install \notin Known
    /\ \A s \in Sessions : At(s, {"inherited", "numbering", "numbered", "inserted"})
           => tx[s].start # None
    /\ \A s, r \in Sessions : s # r /\ At(s, {"inserted"}) /\ HoldsGap(r)
           => Sig(r).install # Sig(s).install

(* All that is under way belongs to the deployment: it shares a signal     *)
(* with what the deployment is now, and with one of its instances.         *)
OneDeployment ==
    /\ \A s, r \in Busy : Shares(Sig(s), Sig(r))
    /\ \A s \in Busy : Shares(Sig(s), client.sig)
    /\ Known # {} =>
           /\ \A s \in Busy : \E i \in Known : Shares(Sig(s), SignalsOf(i))
           /\ \E i \in Known : Shares(client.sig, SignalsOf(i))

Genuine(identity) ==
    identity.install \in Known /\ identity.start = instances[identity.install].start

(* What was answered, and what the client holds, is what was granted. *)
Truthful ==
    /\ \A s \in Busy : tx[s].at = "answering" =>
           tx[s].answer \in Answers /\ (tx[s].answer.ok => Genuine(tx[s].answer.identity))
    /\ client.identity # None => Genuine(client.identity)

Sound == TypeOK /\ Timely /\ Guarded /\ OneDeployment /\ Truthful

-----------------------------------------------------------------------------
(* Types *)

(* An answered request goes, or waits for the client to take its answer;   *)
(* the others are as they were.                                            *)
LEMMA AnsweredRequest ==
    ASSUME tx \in [Sessions -> Request \cup {None}],
           NEW s \in Busy, NEW answer \in Answers
    PROVE  /\ Answered(s, answer) \in [Sessions -> Request \cup {None}]
           /\ \A r \in Sessions \ {s} : Answered(s, answer)[r] = tx[r]
           /\ \/ Answered(s, answer)[s] = None
              \/ /\ Answered(s, answer)[s].sig = tx[s].sig
                 /\ Answered(s, answer)[s].at = "answering"
                 /\ Answered(s, answer)[s].start = None
                 /\ Answered(s, answer)[s].answer = answer
BY DEF Busy, Request, Places, Answered

(* A request the client gave up goes on unheard. *)
LEMMA UnheardRequest ==
    ASSUME tx \in [Sessions -> Request \cup {None}], NEW s \in Busy
    PROVE  /\ Unheard(s) \in [Sessions -> Request \cup {None}]
           /\ \A r \in Sessions \ {s} : Unheard(s)[r] = tx[r]
           /\ \/ Unheard(s)[s] = None
              \/ /\ Unheard(s)[s].sig = tx[s].sig
                 /\ Unheard(s)[s].at = tx[s].at
                 /\ Unheard(s)[s].start = tx[s].start
                 /\ Unheard(s)[s].answer = tx[s].answer
BY DEF Busy, Request, Places, Unheard

(* A request that goes on to another place keeps the rest. *)
LEMMA MovedRequest ==
    ASSUME tx \in [Sessions -> Request \cup {None}], NEW s \in Busy, NEW place \in Places
    PROVE  LET moved == [tx EXCEPT ![s].at = place]
           IN  /\ moved \in [Sessions -> Request \cup {None}]
               /\ \A r \in Sessions \ {s} : moved[r] = tx[r]
               /\ moved[s] = [tx[s] EXCEPT !.at = place]
               /\ moved[s].sig = tx[s].sig
               /\ moved[s].at = place
               /\ moved[s].start = tx[s].start
               /\ moved[s].answer = tx[s].answer
BY DEF Busy, Request, Places

(* A known instance is handed out as an answer. *)
LEMMA SuccessType ==
    ASSUME TypeOK, NEW i \in Known
    PROVE  /\ instances[i] \in Instance
           /\ Success(i) \in Answers
           /\ Success(i).ok
           /\ Success(i).identity.install = i
           /\ Success(i).identity.start = instances[i].start
BY NoInstanceAssumption DEF TypeOK, Known, Instance, Success, Answers, Identity

(* The signals of a known instance are signals, among them its own. *)
LEMMA SignalsType ==
    ASSUME TypeOK, NEW i \in Known
    PROVE  SignalsOf(i) \in Signals /\ SignalsOf(i).install = i
BY SuccessType DEF TypeOK, Known, Instance, Signals, SignalsOf

(* Of the starts of some instances one is the earliest. *)
LEMMA EarliestStart ==
    ASSUME TypeOK, NEW S \in SUBSET Known, S # {}
    PROVE  /\ Earliest(S) \in {instances[i].start : i \in S}
           /\ \A i \in S : Earliest(S) <= instances[i].start
           /\ Earliest(S) \in Nat
<1> DEFINE T == {instances[i].start : i \in S}
<1>1. T \subseteq Nat /\ T # {}
  BY SuccessType DEF Instance
<1>2. PICK t \in T : \A u \in T : ~ <<u, t>> \in OpToRel(<, Nat)
  BY <1>1, NatLessThanWellFounded, WFMin
<1>3. ASSUME NEW u \in T PROVE t <= u
  <2>1. u \in Nat /\ t \in Nat
    BY <1>1
  <2>2. ~(u < t)
    BY <1>2, <2>1 DEF OpToRel
  <2> QED  BY <2>1, <2>2
<1>4. \A i \in S : t <= instances[i].start
  BY <1>3
<1>5. Earliest(S) \in T /\ \A i \in S : Earliest(S) <= instances[i].start
  BY <1>4 DEF Earliest
<1> QED  BY <1>1, <1>5

(* The start of a new trial is a time. *)
LEMMA StartType ==
    ASSUME TypeOK, NEW s \in Sessions PROVE Start(s) \in Nat
<1>1. CASE Related(s) = {}  BY <1>1 DEF Start, TypeOK
<1>2. CASE Related(s) # {}
  BY <1>2, EarliestStart DEF Start, Related
<1> QED  BY <1>1, <1>2

(* A step of the server keeps the types. *)
LEMMA ServeTyped ==
    ASSUME TypeOK, Guarded, NEW s \in Sessions, Serve(s) PROVE TypeOK'
<1> USE DEF TypeOK
<1>1. CASE Refuse(s)
  <2>1. s \in Busy /\ Refusal \in Answers
    BY <1>1 DEF Refuse, At, Refusal, Answers
  <2> QED  BY <1>1, <2>1, AnsweredRequest DEF Refuse, serverVars, counts
<1>2. CASE Pass(s)
  <2>1. s \in Busy /\ "looked" \in Places
    BY <1>2 DEF Pass, At, Places
  <2>2. Sig(s).install \in Known => Success(Sig(s).install) \in Answers
    BY SuccessType
  <2>3. tx' \in [Sessions -> Request \cup {None}]
    BY <1>2, <2>1, <2>2, AnsweredRequest, MovedRequest DEF Pass
  <2>4. Sig(s).install \in Installs
    BY <2>1 DEF Busy, Sig, Request, Signals
  <2>5. passed' \in [Installs -> Nat] /\ waived' \in [Installs -> Nat]
    BY <1>2, <2>4 DEF Pass
  <2> QED  BY <1>2, <2>3, <2>5 DEF Pass, serverVars
<1>3. CASE LookAgain(s)
  <2>1. s \in Busy /\ "queued" \in Places
    BY <1>3 DEF LookAgain, At, Places
  <2>2. Sig(s).install \in Known => Success(Sig(s).install) \in Answers
    BY SuccessType
  <2> QED  BY <1>3, <2>1, <2>2, AnsweredRequest, MovedRequest DEF LookAgain, serverVars, counts
<1>4. CASE Inherit(s)
  <2>1. s \in Busy
    BY <1>4 DEF Inherit, At
  <2>2. Start(s) \in Nat
    BY <2>1, StartType
  <2>3. [tx[s] EXCEPT !.at = "inherited", !.start = Start(s)] \in Request
    BY <2>1, <2>2 DEF Busy, Request, Places
  <2>4. tx' = [tx EXCEPT ![s] = [@ EXCEPT !.at = "inherited", !.start = Start(s)]]
    BY <1>4 DEF Inherit
  <2>5. tx' \in [Sessions -> Request \cup {None}]
    BY <2>3, <2>4
  <2> QED  BY <1>4, <2>5 DEF Inherit, serverVars, counts
<1>5. CASE Number(s) \/ InsertSequence(s) \/ Insert(s)
  <2>1. s \in Busy
    BY <1>5 DEF Number, InsertSequence, Insert, At
  <2>2. PICK place \in Places : tx' = [tx EXCEPT ![s].at = place]
    BY <1>5 DEF Number, InsertSequence, Insert, Places
  <2>3. tx' \in [Sessions -> Request \cup {None}]
    BY <2>1, <2>2, MovedRequest
  <2> QED  BY <1>5, <2>3 DEF Number, InsertSequence, Insert, serverVars, counts
<1>6. CASE Commit(s)
  <2>1. s \in Busy /\ tx[s].start \in Nat /\ Sig(s) \in Signals
    BY <1>6 DEF Commit, At, Guarded, Busy, Request, Sig
  <2> DEFINE identity == [install |-> Sig(s).install, start |-> tx[s].start,
                          cred |-> 1, endpoint |-> TRUE]
  <2>2. identity \in Identity
    BY <2>1 DEF Identity, Signals
  <2>3. [ok |-> TRUE, identity |-> identity] \in Answers
    BY <2>2 DEF Answers
  <2>4. tx' \in [Sessions -> Request \cup {None}]
    BY <1>6, <2>1, <2>3, AnsweredRequest DEF Commit
  <2>5. NewInstance(s) \in Instance
    BY <2>1 DEF NewInstance, Instance, Signals
  <2>6. instances' \in [Installs -> Instance \cup {None}]
    BY <1>6, <2>5 DEF Commit
  <2>7. since' \in Nat \cup {None} /\ sequence' \in BOOLEAN
    BY <1>6 DEF Commit
  <2> QED  BY <1>6, <2>4, <2>6, <2>7 DEF Commit, counts
<1>7. CASE Victim(s)
  <2>1. s \in Busy /\ Failure \in Answers
    BY <1>7 DEF Victim, Failure, Answers
  <2> QED  BY <1>7, <2>1, AnsweredRequest DEF Victim, serverVars, counts
<1> QED  BY <1>1, <1>2, <1>3, <1>4, <1>5, <1>6, <1>7 DEF Serve

(* What was sent or answered has its type. *)
LEMMA RequestTyped ==
    ASSUME TypeOK, NEW s \in Busy PROVE tx[s] \in Request /\ Sig(s) \in Signals
BY DEF TypeOK, Busy, Request, Sig

(* A step of the client or of the network keeps the types. *)
LEMMA ClientTyped ==
    ASSUME TypeOK, Truthful, NEW s \in Sessions,
           Send(s) \/ SendUncounted(s) \/ LoseCount(s) \/ Receive(s) \/ GiveUp(s) \/ Fail(s)
    PROVE  TypeOK'
<1> USE DEF TypeOK
<1>0. ASSUME NEW place \in Places, Ask(s, place) PROVE tx' \in [Sessions -> Request \cup {None}]
  <2> DEFINE new == [at |-> place, sig |-> client.sig, heard |-> TRUE,
                     start |-> None, answer |-> None]
  <2>1. new \in Request
    BY DEF Request
  <2> QED  BY <1>0, <2>1 DEF Ask
<1>1. CASE Send(s)
  <2>1. Ask(s, "counted") /\ "counted" \in Places
    BY <1>1 DEF Send, Places
  <2>2. client.sig.install \in Installs
    BY DEF Signals
  <2>3. hits[client.sig.install] + 1 \in 0 .. Limit + 1
    <3>1. hits[client.sig.install] \in 0 .. Limit + 1 /\ hits[client.sig.install] <= Limit
      BY <1>1, <2>2 DEF Send
    <3>2. Limit \in Nat
      BY TrialAssumption
    <3> QED  BY <3>1, <3>2
  <2>4. tx' \in [Sessions -> Request \cup {None}]
    BY <1>0, <2>1
  <2>5. hits' \in [Installs -> 0 .. Limit + 1]
    BY <1>1, <2>3 DEF Send
  <2> QED  BY <1>1, <2>1, <2>4, <2>5 DEF Send, Ask, serverVars
<1>5. CASE SendUncounted(s)
  <2>1. Ask(s, "uncounted") /\ "uncounted" \in Places
    BY <1>5 DEF SendUncounted, Places
  <2>2. tx' \in [Sessions -> Request \cup {None}]
    BY <1>0, <2>1
  <2> QED  BY <1>5, <2>1, <2>2, TrialAssumption DEF SendUncounted, Ask, serverVars
<1>6. CASE LoseCount(s)
  <2>1. s \in Busy /\ "uncounted" \in Places
    BY <1>6 DEF LoseCount, At, Places
  <2>2. tx' \in [Sessions -> Request \cup {None}]
    BY <1>6, <2>1, MovedRequest DEF LoseCount
  <2> QED  BY <1>6, <2>2, TrialAssumption DEF LoseCount, serverVars, counts
<1>2. CASE Receive(s)
  <2>1. s \in Busy /\ tx[s].answer \in Answers
    BY <1>2, RequestTyped DEF Receive, At, Request, Truthful
  <2>2. tx[s].answer.ok => tx[s].answer.identity \in Identity
    BY <2>1 DEF Answers
  <2>4. client' \in [sig : Signals, identity : Identity \cup {None}]
    BY <1>2, <2>2 DEF Receive
  <2>3. tx' \in [Sessions -> Request \cup {None}]
    BY <1>2 DEF Receive
  <2> QED  BY <1>2, <2>3, <2>4 DEF Receive, serverVars, counts
<1>3. CASE GiveUp(s)
  <2>1. tx' \in [Sessions -> Request \cup {None}]
    BY <1>3, UnheardRequest DEF GiveUp
  <2> QED  BY <1>3, <2>1, TrialAssumption DEF GiveUp, serverVars, counts
<1>4. CASE Fail(s)
  <2>1. s \in Busy /\ Failure \in Answers
    BY <1>4 DEF Fail, At, Failure, Answers
  <2>2. tx' \in [Sessions -> Request \cup {None}]
    BY <1>4, <2>1, AnsweredRequest DEF Fail
  <2> QED  BY <1>4, <2>2, TrialAssumption DEF Fail, serverVars, counts
<1> QED  BY <1>1, <1>2, <1>3, <1>4, <1>5, <1>6

(* What a reissue and the hourly task change of a row. *)
LEMMA RowChanged ==
    ASSUME NEW row \in Instance
    PROVE  LET reissued == [row EXCEPT !.cred = @ + 1, !.endpoint = FALSE]
               expired  == [row EXCEPT !.status = "expired"]
           IN  /\ reissued \in Instance /\ expired \in Instance
               /\ reissued.start = row.start /\ expired.start = row.start
               /\ reissued.host = row.host /\ expired.host = row.host
               /\ reissued.db = row.db /\ expired.db = row.db
<1> DEFINE reissued == [row EXCEPT !.cred = @ + 1, !.endpoint = FALSE]
           expired  == [row EXCEPT !.status = "expired"]
<1>1. reissued \in Instance
  <2> DEFINE n == row.cred + 1
             counted == [row EXCEPT !.cred = n]
  <2>1. n \in Nat
    BY DEF Instance
  <2>2. counted \in Instance
    <3> HIDE DEF n
    <3> QED  BY <2>1 DEF Instance
  <2>3. [counted EXCEPT !.endpoint = FALSE] \in Instance
    <3> HIDE DEF counted
    <3> QED  BY <2>2 DEF Instance
  <2>4. reissued = [counted EXCEPT !.endpoint = FALSE]
    OBVIOUS
  <2> QED  BY <2>3, <2>4
<1>2. expired \in Instance
  BY DEF Instance
<1>3. /\ reissued.start = row.start /\ expired.start = row.start
      /\ reissued.host = row.host /\ expired.host = row.host
      /\ reissued.db = row.db /\ expired.db = row.db
  BY DEF Instance
<1> QED  BY <1>1, <1>2, <1>3

(* So does everything else. *)
LEMMA OthersTyped ==
    ASSUME TypeOK, Truthful,
           \/ \E sig \in Signals : Reinstall(sig)
           \/ Heartbeat
           \/ \E i \in Installs : Reissue(i)
           \/ RefreshInstanceStatus \/ NewWindow \/ Tick
    PROVE  TypeOK'
<1> USE DEF TypeOK
<1>1. ASSUME NEW sig \in Signals, Reinstall(sig) PROVE TypeOK'
  <2>1. tx' \in [Sessions -> Request \cup {None}]
    <3>1. CASE \E s \in Busy : tx[s].heard
      <4>1. PICK s \in Busy : tx' = Unheard(s)
        BY <1>1, <3>1 DEF Reinstall
      <4> QED  BY <4>1, UnheardRequest
    <3>2. CASE ~ \E s \in Busy : tx[s].heard
      BY <1>1, <3>2 DEF Reinstall
    <3> QED  BY <3>1, <3>2
  <2> QED  BY <1>1, <2>1, TrialAssumption DEF Reinstall, serverVars, counts
<1>2. CASE Heartbeat
  <2>1. client.identity \in Identity /\ instances[client.identity.install] \in Instance
    BY <1>2, SuccessType DEF Heartbeat, Truthful, Genuine
  <2>2. client' \in [sig : Signals, identity : Identity \cup {None}]
    BY <1>2, <2>1 DEF Heartbeat, Identity, Instance
  <2> QED  BY <1>2, <2>2 DEF Heartbeat, serverVars, counts
<1>3. ASSUME NEW i \in Installs, Reissue(i) PROVE TypeOK'
  <2>1. i \in Known /\ instances[i] \in Instance
    BY <1>3, SuccessType DEF Reissue
  <2>2. [instances[i] EXCEPT !.cred = @ + 1, !.endpoint = FALSE] \in Instance
    BY <2>1, RowChanged
  <2>3. instances' \in [Installs -> Instance \cup {None}]
    BY <1>3, <2>2 DEF Reissue
  <2> QED  BY <1>3, <2>3 DEF Reissue, counts
<1>4. CASE RefreshInstanceStatus
  <2>1. ASSUME NEW i \in Known PROVE [instances[i] EXCEPT !.status = "expired"] \in Instance
    BY <2>1, SuccessType, RowChanged
  <2>2. instances' \in [Installs -> Instance \cup {None}]
    BY <1>4, <2>1 DEF RefreshInstanceStatus
  <2> QED  BY <1>4, <2>2 DEF RefreshInstanceStatus, counts
<1>5. CASE NewWindow
  BY <1>5, TrialAssumption DEF NewWindow, serverVars
<1>6. CASE Tick
  BY <1>6, TrialAssumption DEF Tick, serverVars, counts
<1> QED  BY <1>1, <1>2, <1>3, <1>4, <1>5, <1>6

-----------------------------------------------------------------------------
(* Steps *)

(* Sharing a signal is mutual, and what is the same shares one. *)
LEMMA SharesMutual ==
    /\ \A a \in Signals : Shares(a, a)
    /\ \A a, b \in Signals : Shares(a, b) => Shares(b, a)
BY DEF Signals, Shares

Gaps == {"queued", "inherited", "numbering", "numbered", "inserted"}
Started == {"inherited", "numbering", "numbered", "inserted"}

(* What a request must be to go on. *)
Fits(s, request) ==
    /\ request.sig = IF tx[s] = None THEN client.sig ELSE Sig(s)
    /\ request.start # None =>
           request.start <= now /\ (since # None => request.start <= since)
    /\ request.at \in Gaps =>
           /\ request.sig.install \notin Known
           /\ \A r \in Sessions \ {s} : At(r, {"inserted"}) => Sig(r).install # request.sig.install
    /\ request.at \in Started => request.start # None
    /\ request.at = "inserted" =>
           \A r \in Sessions \ {s} : HoldsGap(r) => Sig(r).install # request.sig.install
    /\ request.at = "answering" =>
           request.answer \in Answers /\ (request.answer.ok => Genuine(request.answer.identity))

(* One request goes on, or goes. *)
LEMMA OneRequest ==
    ASSUME Sound, TypeOK', NEW s \in Sessions,
           UNCHANGED <<now, instances, since, client>>,
           \A r \in Sessions \ {s} : tx'[r] = tx[r],
           tx'[s] = None \/ Fits(s, tx'[s])
    PROVE  Sound'
<1>1. Timely'
  BY DEF Sound, Timely, Known, Busy, Fits
<1>2. Guarded'
  <2>1. \A r \in Sessions : HoldsGap(r)' => Sig(r)'.install \notin Known'
    BY DEF Sound, Guarded, HoldsGap, At, Busy, Sig, Known, Fits, Gaps
  <2>2. \A r \in Sessions : At(r, Started)' => tx'[r].start # None
    BY DEF Sound, Guarded, At, Busy, Fits, Started
  <2>3. ASSUME NEW r \in Sessions, NEW q \in Sessions, r # q,
               At(r, {"inserted"})', HoldsGap(q)'
        PROVE  Sig(q)'.install # Sig(r)'.install
    <3>1. CASE r = s
      BY <2>3, <3>1 DEF Fits, HoldsGap, At, Busy, Sig
    <3>2. CASE q = s
      BY <2>3, <3>2 DEF Fits, HoldsGap, At, Busy, Sig, Gaps
    <3>3. CASE r # s /\ q # s
      BY <2>3, <3>3 DEF Sound, Guarded, HoldsGap, At, Busy, Sig
    <3> QED  BY <3>1, <3>2, <3>3
  <2> QED  BY <2>1, <2>2, <2>3 DEF Guarded, Started
<1>3. OneDeployment'
  <2>1. ASSUME NEW r \in Busy' PROVE r \in Sessions /\ Sig(r)' \in Signals
    BY <2>1 DEF TypeOK, Busy, Request, Sig
  <2>2. ASSUME NEW r \in Busy'
        PROVE  Sig(r)' = client.sig \/ (r \in Busy /\ Sig(r)' = Sig(r))
    BY <2>2 DEF Busy, Sig, Fits
  <2>3. client.sig \in Signals /\ \A r \in Busy : Sig(r) \in Signals
    BY RequestTyped DEF Sound, TypeOK
  <2>4. ASSUME NEW r \in Busy', NEW q \in Busy' PROVE Shares(Sig(r)', Sig(q)')
    BY <2>2, <2>3, <2>4, SharesMutual DEF Sound, OneDeployment
  <2>5. ASSUME NEW r \in Busy' PROVE Shares(Sig(r)', client.sig)
    BY <2>2, <2>3, <2>5, SharesMutual DEF Sound, OneDeployment
  <2>6. ASSUME NEW r \in Busy', Known # {}
        PROVE  \E i \in Known : Shares(Sig(r)', SignalsOf(i))
    BY <2>2, <2>6 DEF Sound, OneDeployment
  <2>7. Known' = Known /\ client' = client /\ \A i \in Known : SignalsOf(i)' = SignalsOf(i)
    BY DEF Known, SignalsOf
  <2> QED  BY <2>4, <2>5, <2>6, <2>7 DEF Sound, OneDeployment, Shares
<1>4. Truthful'
  BY DEF Sound, Truthful, Genuine, Known, Busy, Fits
<1> QED  BY <1>1, <1>2, <1>3, <1>4 DEF Sound

(* What is answered without a start fits, if it is true. *)
LEMMA AnsweredSound ==
    ASSUME Sound, TypeOK', NEW s \in Busy, NEW answer \in Answers,
           answer.ok => Genuine(answer.identity),
           UNCHANGED <<now, instances, since, client>>,
           tx' = Answered(s, answer)
    PROVE  Sound'
<1>1. tx \in [Sessions -> Request \cup {None}]
  BY DEF Sound, TypeOK
<1>2. /\ \A r \in Sessions \ {s} : tx'[r] = tx[r]
      /\ \/ tx'[s] = None
         \/ /\ tx'[s].sig = tx[s].sig
            /\ tx'[s].at = "answering"
            /\ tx'[s].start = None
            /\ tx'[s].answer = answer
  BY <1>1, AnsweredRequest
<1>3. tx'[s] = None \/ Fits(s, tx'[s])
  BY <1>2 DEF Fits, Gaps, Started, Busy, Sig
<1> QED  BY <1>2, <1>3, OneRequest DEF Busy

(* A request that goes on to another place fits, if it may be there. *)
LEMMA MovedSound ==
    ASSUME Sound, TypeOK', NEW s \in Busy, NEW place \in Places \ {"answering"},
           place \in Gaps =>
               /\ Sig(s).install \notin Known
               /\ \A r \in Sessions \ {s} : At(r, {"inserted"}) => Sig(r).install # Sig(s).install,
           place \in Started => tx[s].start # None,
           place = "inserted" =>
               \A r \in Sessions \ {s} : HoldsGap(r) => Sig(r).install # Sig(s).install,
           UNCHANGED <<now, instances, since, client>>,
           tx' = [tx EXCEPT ![s].at = place]
    PROVE  Sound'
<1>1. tx \in [Sessions -> Request \cup {None}]
  BY DEF Sound, TypeOK
<1>2. /\ \A r \in Sessions \ {s} : tx'[r] = tx[r]
      /\ tx'[s].sig = tx[s].sig /\ tx'[s].at = place
      /\ tx'[s].start = tx[s].start /\ tx'[s].answer = tx[s].answer
  BY <1>1, MovedRequest
<1>3. Fits(s, tx'[s])
  BY <1>2 DEF Fits, Busy, Sig, Sound, Timely, Truthful
<1> QED  BY <1>2, <1>3, OneRequest DEF Busy

(* Nothing but what no one relies on changes, and time passes. *)
LEMMA Cosmetic ==
    ASSUME Sound, TypeOK', UNCHANGED <<tx, since>>, now <= now',
           Known' = Known,
           \A i \in Known : /\ instances'[i].start = instances[i].start
                            /\ instances'[i].host = instances[i].host
                            /\ instances'[i].db = instances[i].db,
           client'.sig = client.sig,
           client'.identity # None =>
               /\ client.identity # None
               /\ client'.identity.install = client.identity.install
               /\ client'.identity.start = client.identity.start
    PROVE  Sound'
<1>1. Timely'
  <2>1. since # None => since <= now'
    BY DEF Sound, Timely, TypeOK
  <2>2. \A s \in Busy : tx[s].start # None => tx[s].start <= now'
    BY RequestTyped DEF Sound, Timely, TypeOK, Request
  <2> QED  BY <2>1, <2>2 DEF Sound, Timely, Busy
<1>2. Guarded'
  BY DEF Sound, Guarded, HoldsGap, At, Busy, Sig
<1>3. OneDeployment'
  <2>1. \A i \in Known : SignalsOf(i)' = SignalsOf(i)
    BY DEF SignalsOf
  <2> QED  BY <2>1 DEF Sound, OneDeployment, Busy, Sig, Shares
<1>4. Truthful'
  BY DEF Sound, Truthful, Genuine, Busy
<1> QED  BY <1>1, <1>2, <1>3, <1>4 DEF Sound

(* A request inherits a start, or begins, no later than the deployment did. *)
LEMMA StartTimely ==
    ASSUME Sound, NEW s \in Busy
    PROVE  Start(s) <= now /\ (since # None => Start(s) <= since)
<1>1. now \in Nat /\ (since # None => since \in Nat /\ since <= now)
  BY TrialAssumption DEF Sound, TypeOK, Timely
<1>2. CASE Related(s) = {}
  <2>1. since = None
    BY <1>2 DEF Sound, Timely, OneDeployment, Related
  <2> QED  BY <1>1, <1>2, <2>1 DEF Start
<1>3. CASE Related(s) # {}
  <2>1. PICK i \in Related(s) : TRUE
    BY <1>3
  <2>2. i \in Known /\ Related(s) \in SUBSET Known
    BY DEF Related
  <2>3. Start(s) \in Nat /\ Start(s) <= instances[i].start
    BY <1>3, <2>2, EarliestStart DEF Sound, Start
  <2>4. instances[i].start \in Nat /\ since # None /\ instances[i].start <= since
    BY <2>2, SuccessType DEF Sound, Timely, Instance
  <2> QED  BY <1>1, <2>3, <2>4
<1> QED  BY <1>2, <1>3

(* A step of the server before the commit keeps what is sound. *)
LEMMA ServeSound ==
    ASSUME Sound, NEW s \in Sessions, Serve(s), ~Commit(s) PROVE Sound'
<1>1. TypeOK'
  BY ServeTyped DEF Sound
<1>2. TypeOK /\ tx \in [Sessions -> Request \cup {None}]
  BY DEF Sound, TypeOK
<1>3. ASSUME NEW i \in Known PROVE Success(i) \in Answers /\ Genuine(Success(i).identity)
  BY <1>2, <1>3, SuccessType DEF Genuine
<1>4. CASE Refuse(s)
  <2>1. s \in Busy /\ Refusal \in Answers /\ ~Refusal.ok
    BY <1>4 DEF Refuse, At, Refusal, Answers
  <2>2. tx' = Answered(s, Refusal) /\ UNCHANGED <<now, instances, since, client>>
    BY <1>4 DEF Refuse, serverVars
  <2> QED  BY <1>1, <2>1, <2>2, AnsweredSound
<1>5. CASE Pass(s)
  <2>1. s \in Busy /\ UNCHANGED <<now, instances, since, client>>
    BY <1>5 DEF Pass, At, serverVars
  <2>2. CASE Sig(s).install \in Known
    <3>1. tx' = Answered(s, Success(Sig(s).install))
      BY <1>5, <2>2 DEF Pass
    <3>2. PICK answer \in Answers : tx' = Answered(s, answer) /\ Genuine(answer.identity)
      BY <1>3, <2>2, <3>1
    <3> QED  BY <1>1, <2>1, <3>2, AnsweredSound
  <2>3. CASE Sig(s).install \notin Known
    <3>1. tx' = [tx EXCEPT ![s].at = "looked"]
      BY <1>5, <2>3 DEF Pass
    <3>2. /\ "looked" \in Places \ {"answering"} /\ "looked" # "inserted"
          /\ "looked" \notin Gaps /\ "looked" \notin Started
      BY DEF Places, Gaps, Started
    <3> QED  BY <1>1, <2>1, <3>1, <3>2, MovedSound
  <2> QED  BY <2>2, <2>3
<1>6. CASE LookAgain(s)
  <2>1. s \in Busy /\ UNCHANGED <<now, instances, since, client>>
    BY <1>6 DEF LookAgain, At, serverVars
  <2>2. CASE Sig(s).install \in Known
    <3>1. tx' = Answered(s, Success(Sig(s).install))
      BY <1>6, <2>2 DEF LookAgain
    <3>2. PICK answer \in Answers : tx' = Answered(s, answer) /\ Genuine(answer.identity)
      BY <1>3, <2>2, <3>1
    <3> QED  BY <1>1, <2>1, <3>2, AnsweredSound
  <2>3. CASE Sig(s).install \notin Known
    <3>1. tx' = [tx EXCEPT ![s].at = "queued"]
      BY <1>6, <2>3 DEF LookAgain
    <3>2. \A r \in Sessions \ {s} : At(r, {"inserted"}) => Sig(r).install # Sig(s).install
      BY <1>6 DEF LookAgain, Free, Blockers, At
    <3>3. /\ "queued" \in Places \ {"answering"} /\ "queued" # "inserted"
          /\ "queued" \notin Started
      BY DEF Places, Started
    <3> QED  BY <1>1, <2>1, <2>3, <3>1, <3>2, <3>3, MovedSound
  <2> QED  BY <2>2, <2>3
<1>7. CASE Inherit(s)
  <2>1. s \in Busy /\ UNCHANGED <<now, instances, since, client>>
    BY <1>7 DEF Inherit, At, serverVars
  <2>2. tx' = [tx EXCEPT ![s] = [@ EXCEPT !.at = "inherited", !.start = Start(s)]]
    BY <1>7 DEF Inherit
  <2>3. /\ \A r \in Sessions \ {s} : tx'[r] = tx[r]
        /\ tx'[s].sig = Sig(s) /\ tx'[s].at = "inherited"
        /\ tx'[s].start = Start(s)
    BY <1>2, <2>1, <2>2, RequestTyped DEF Request, Sig
  <2>4. Sig(s).install \notin Known
    BY <1>7 DEF Inherit, HoldsGap, At, Sound, Guarded
  <2>5. \A r \in Sessions \ {s} : At(r, {"inserted"}) => Sig(r).install # Sig(s).install
    BY <1>7 DEF Inherit, HoldsGap, At, Sound, Guarded
  <2>6. Start(s) <= now /\ (since # None => Start(s) <= since)
    BY <1>2, <2>1, StartTimely DEF Sound
  <2>7. Start(s) # None
    BY <1>2, StartType, TrialAssumption
  <2>8. Fits(s, tx'[s])
    BY <2>1, <2>3, <2>4, <2>5, <2>6, <2>7 DEF Fits, Busy, Gaps
  <2> QED  BY <1>1, <2>1, <2>3, <2>8, OneRequest
<1>8. CASE Number(s) \/ InsertSequence(s) \/ Insert(s)
  <2>1. s \in Busy /\ UNCHANGED <<now, instances, since, client>>
    BY <1>8 DEF Number, InsertSequence, Insert, At, serverVars
  <2>2. HoldsGap(s) /\ tx[s].start # None /\ ~At(s, {"inserted"})
    BY <1>8 DEF Number, InsertSequence, Insert, At, HoldsGap, Sound, Guarded
  <2>3. Sig(s).install \notin Known
    BY <2>2 DEF Sound, Guarded
  <2>4. \A r \in Sessions \ {s} : At(r, {"inserted"}) => Sig(r).install # Sig(s).install
    BY <2>2 DEF Sound, Guarded
  <2>5. CASE Number(s) \/ InsertSequence(s)
    <3>1. PICK place \in {"numbering", "numbered"} : tx' = [tx EXCEPT ![s].at = place]
      BY <2>5 DEF Number, InsertSequence
    <3>2. place \in Places \ {"answering"} /\ place # "inserted"
      BY DEF Places
    <3> QED  BY <1>1, <2>1, <2>2, <2>3, <2>4, <3>1, <3>2, MovedSound
  <2>6. CASE Insert(s)
    <3>1. \A r \in Sessions \ {s} : HoldsGap(r) => Sig(r).install # Sig(s).install
      <4>1. \A i \in Installs : SameGap(i, i)
        BY TrialAssumption DEF SameGap, Known
      <4>2. Sig(s).install \in Installs
        BY <1>2, <2>1, RequestTyped DEF Signals
      <4> QED  BY <2>6, <4>1, <4>2 DEF Insert, Free, Blockers, HoldsGap, At
    <3>2. tx' = [tx EXCEPT ![s].at = "inserted"] /\ "inserted" \in Places \ {"answering"}
      BY <2>6 DEF Insert, Places
    <3> QED  BY <1>1, <2>1, <2>2, <2>3, <2>4, <3>1, <3>2, MovedSound
  <2> QED  BY <1>8, <2>5, <2>6
<1>9. CASE Victim(s)
  <2>1. s \in Busy /\ Failure \in Answers /\ ~Failure.ok
    BY <1>9 DEF Victim, Failure, Answers
  <2>2. tx' = Answered(s, Failure) /\ UNCHANGED <<now, instances, since, client>>
    BY <1>9 DEF Victim, serverVars
  <2> QED  BY <1>1, <2>1, <2>2, AnsweredSound
<1> QED  BY <1>4, <1>5, <1>6, <1>7, <1>8, <1>9 DEF Serve

(* The commit: the new instance belongs to the deployment, starts no later *)
(* than it, and takes nobody's place.                                      *)
LEMMA CommitSound ==
    ASSUME Sound, NEW s \in Sessions, Commit(s) PROVE Sound'
<1>a. PICK i : i = Sig(s).install
  OBVIOUS
<1>b. PICK identity : identity = [install |-> i, start |-> tx[s].start,
                                  cred |-> 1, endpoint |-> TRUE]
  OBVIOUS
<1>c. PICK answer : answer = [ok |-> TRUE, identity |-> identity]
  OBVIOUS
<1>1. TypeOK'
  BY ServeTyped DEF Sound, Serve
<1>2. TypeOK /\ tx \in [Sessions -> Request \cup {None}]
  BY DEF Sound, TypeOK
<1>3. s \in Busy /\ At(s, {"inserted"}) /\ HoldsGap(s) /\ tx[s].start # None
  BY DEF Commit, At, HoldsGap, Sound, Guarded
<1>4. Sig(s) \in Signals /\ i \in Installs /\ i \notin Known /\ tx[s].start \in Nat
  BY <1>2, <1>3, <1>a, RequestTyped DEF Sound, Guarded, Signals, Request
<1>5. UNCHANGED <<now, client>> /\ since' = (IF since = None THEN now ELSE since)
  BY DEF Commit
<1>6. /\ instances'[i] = NewInstance(s)
      /\ \A j \in Installs \ {i} : instances'[j] = instances[j]
  BY <1>2, <1>4, <1>a DEF Commit, TypeOK
<1>7. NewInstance(s) \in Instance /\ NewInstance(s) # None
  <2>1. Sig(s).host \in Hosts /\ Sig(s).db \in Dbs
    BY <1>4 DEF Signals
  <2>2. NewInstance(s) \in Instance
    BY <1>4, <2>1 DEF NewInstance, Instance
  <2> QED  BY <2>2, NoInstanceAssumption
<1>8. Known' = Known \cup {i} /\ \A j \in Known : j \in Installs \ {i}
  BY <1>4, <1>6, <1>7 DEF Known
<1>9. /\ answer \in Answers /\ answer.ok /\ answer.identity = identity
      /\ identity.install = i /\ identity.start = tx[s].start
  <2>1. identity \in Identity
    BY <1>4, <1>b DEF Identity
  <2> QED  BY <1>b, <1>c, <2>1 DEF Answers
<1>10. /\ \A r \in Sessions \ {s} : tx'[r] = tx[r]
       /\ \/ tx'[s] = None
          \/ /\ tx'[s].sig = tx[s].sig /\ tx'[s].at = "answering"
             /\ tx'[s].start = None /\ tx'[s].answer = answer
  BY <1>2, <1>3, <1>9, <1>a, <1>b, <1>c, AnsweredRequest DEF Commit
<1>11. Timely'
  <2>1. now \in Nat /\ since' \in Nat /\ since' <= now /\ (since # None => since' = since)
    BY <1>2, <1>5, TrialAssumption DEF TypeOK, Sound, Timely
  <2>2. tx[s].start <= since'
    BY <1>3, <1>5, <2>1 DEF Sound, Timely
  <2>3. \A j \in Known' : instances'[j].start <= since'
    BY <1>6, <1>8, <2>1, <2>2 DEF NewInstance, Sound, Timely
  <2>4. \A r \in Busy' : tx'[r].start # None => tx'[r].start <= now' /\ tx'[r].start <= since'
    BY <1>5, <1>10, <2>1 DEF Busy, Sound, Timely
  <2>5. since' # None /\ Known' # {}
    BY <1>8, <2>1, TrialAssumption
  <2> QED  BY <1>5, <2>1, <2>3, <2>4, <2>5 DEF Timely
<1>12. Guarded'
  <2>1. \A r \in Sessions : HoldsGap(r)' => r # s /\ HoldsGap(r) /\ Sig(r)' = Sig(r)
    BY <1>10 DEF HoldsGap, At, Busy, Sig
  <2>2. \A r \in Sessions : HoldsGap(r)' => Sig(r)'.install \notin Known'
    BY <1>3, <1>8, <1>a, <2>1 DEF Sound, Guarded
  <2>3. \A r \in Sessions : At(r, Started)' => tx'[r].start # None
    BY <1>10 DEF Sound, Guarded, At, Busy, Started
  <2>4. \A r \in Sessions : At(r, {"inserted"})' => At(r, {"inserted"}) /\ Sig(r)' = Sig(r)
    BY <1>10 DEF At, Busy, Sig
  <2>5. \A r, q \in Sessions : r # q /\ At(r, {"inserted"})' /\ HoldsGap(q)'
            => Sig(q)'.install # Sig(r)'.install
    BY <2>1, <2>4 DEF Sound, Guarded
  <2> QED  BY <2>2, <2>3, <2>5 DEF Guarded, Started
<1>13. OneDeployment'
  <2>1. \A r \in Busy' : r \in Busy /\ Sig(r)' = Sig(r)
    BY <1>3, <1>10 DEF Busy, Sig
  <2>2. SignalsOf(i)' = Sig(s)
    BY <1>4, <1>6, <1>a DEF SignalsOf, NewInstance, Signals
  <2>3. client.sig \in Signals /\ \A r \in Busy : Sig(r) \in Signals
    BY <1>2, RequestTyped DEF TypeOK
  <2>4. /\ \A r \in Busy' : Shares(Sig(r)', SignalsOf(i)')
        /\ Shares(client'.sig, SignalsOf(i)')
    BY <1>3, <1>5, <2>1, <2>2, <2>3, SharesMutual DEF Sound, OneDeployment
  <2> QED  BY <1>5, <1>8, <2>1, <2>4 DEF Sound, OneDeployment, Shares
<1>14. Truthful'
  <2>1. Genuine(identity)'
    BY <1>6, <1>8, <1>9 DEF Genuine, NewInstance
  <2>2. ASSUME NEW held, Genuine(held)
        PROVE  held.install \in Known' /\ held.start = instances'[held.install].start
    BY <1>6, <1>8, <2>2 DEF Genuine
  <2>3. ASSUME NEW r \in Busy', tx'[r].at = "answering"
        PROVE  tx'[r].answer \in Answers /\ (tx'[r].answer.ok => Genuine(tx[r].answer.identity)')
    <3>1. CASE r = s
      BY <1>9, <1>10, <2>1, <2>3, <3>1 DEF Busy, Genuine
    <3>2. CASE r # s
      BY <1>10, <2>2, <2>3, <3>2 DEF Busy, Genuine, Sound, Truthful
    <3> QED  BY <3>1, <3>2
  <2>4. client.identity # None => Genuine(client.identity)'
    BY <1>5, <2>2 DEF Sound, Truthful, Genuine
  <2> QED  BY <1>5, <2>3, <2>4 DEF Truthful, Genuine
<1> QED  BY <1>1, <1>11, <1>12, <1>13, <1>14 DEF Sound

(* The client asks, stops waiting, or a request fails. *)
LEMMA AskSound ==
    ASSUME Sound, NEW s \in Sessions,
           Send(s) \/ SendUncounted(s) \/ LoseCount(s) \/ GiveUp(s) \/ Fail(s)
    PROVE  Sound'
<1>1. TypeOK'
  BY ClientTyped DEF Sound
<1>2. TypeOK /\ tx \in [Sessions -> Request \cup {None}]
  BY DEF Sound, TypeOK
<1>3. CASE Send(s) \/ SendUncounted(s)
  <2>a. PICK place \in {"counted", "uncounted"} : Ask(s, place)
    BY <1>3 DEF Send, SendUncounted
  <2>1. UNCHANGED <<now, instances, since, client>> /\ tx[s] = None
    BY <2>a DEF Ask, serverVars
  <2>2. /\ \A r \in Sessions \ {s} : tx'[r] = tx[r]
        /\ tx'[s] = [at |-> place, sig |-> client.sig, heard |-> TRUE,
                     start |-> None, answer |-> None]
    BY <1>2, <2>a DEF Ask
  <2>3. Fits(s, tx'[s])
    BY <2>1, <2>2 DEF Fits, Gaps, Started
  <2> QED  BY <1>1, <2>1, <2>2, <2>3, OneRequest
<1>4. CASE GiveUp(s)
  <2>1. UNCHANGED <<now, instances, since, client>> /\ s \in Busy
    BY <1>4 DEF GiveUp, serverVars
  <2>2. /\ \A r \in Sessions \ {s} : tx'[r] = tx[r]
        /\ \/ tx'[s] = None
           \/ /\ tx'[s].sig = tx[s].sig /\ tx'[s].at = tx[s].at
              /\ tx'[s].start = tx[s].start /\ tx'[s].answer = tx[s].answer
    BY <1>2, <1>4, <2>1, UnheardRequest DEF GiveUp
  <2>3. tx'[s] = None \/ Fits(s, tx'[s])
    <3>1. Fits(s, tx[s])
      BY <2>1 DEF Fits, Gaps, Started, Busy, Sig, At, HoldsGap, Sound, Timely, Guarded, Truthful
    <3> QED  BY <2>2, <3>1 DEF Fits
  <2> QED  BY <1>1, <2>1, <2>2, <2>3, OneRequest
<1>5. CASE Fail(s)
  <2>1. s \in Busy /\ Failure \in Answers /\ ~Failure.ok
    BY <1>5 DEF Fail, At, Failure, Answers
  <2>2. tx' = Answered(s, Failure) /\ UNCHANGED <<now, instances, since, client>>
    BY <1>5 DEF Fail, serverVars
  <2> QED  BY <1>1, <2>1, <2>2, AnsweredSound
<1>6. CASE LoseCount(s)
  <2>1. s \in Busy /\ UNCHANGED <<now, instances, since, client>>
    BY <1>6 DEF LoseCount, At, serverVars
  <2>2. tx' = [tx EXCEPT ![s].at = "uncounted"]
    BY <1>6 DEF LoseCount
  <2>3. /\ "uncounted" \in Places \ {"answering"} /\ "uncounted" # "inserted"
        /\ "uncounted" \notin Gaps /\ "uncounted" \notin Started
    BY DEF Places, Gaps, Started
  <2> QED  BY <1>1, <2>1, <2>2, <2>3, MovedSound
<1> QED  BY <1>3, <1>4, <1>5, <1>6

(* The client takes an answer: it holds what was granted. *)
LEMMA ReceiveSound ==
    ASSUME Sound, NEW s \in Sessions, Receive(s) PROVE Sound'
<1>1. TypeOK'
  BY ClientTyped DEF Sound
<1>2. TypeOK /\ tx \in [Sessions -> Request \cup {None}]
  BY DEF Sound, TypeOK
<1>3. UNCHANGED <<now, instances, since>> /\ s \in Busy /\ tx[s].at = "answering"
  BY DEF Receive, serverVars, At
<1>4. /\ \A r \in Sessions \ {s} : tx'[r] = tx[r]
      /\ tx'[s] = None
  BY <1>2, <1>3 DEF Receive
<1>5. client'.sig = client.sig
  BY <1>2 DEF Receive, TypeOK
<1>6. client'.identity # None => Genuine(client'.identity)
  <2>1. CASE tx[s].answer.ok
    <3>1. client'.identity = tx[s].answer.identity
      BY <1>2, <2>1 DEF Receive, TypeOK
    <3> QED  BY <1>3, <2>1, <3>1 DEF Sound, Truthful
  <2>2. CASE ~tx[s].answer.ok
    BY <2>2 DEF Receive, Sound, Truthful
  <2> QED  BY <2>1, <2>2
<1>7. Timely'
  BY <1>3, <1>4 DEF Sound, Timely, Known, Busy
<1>8. Guarded'
  BY <1>3, <1>4 DEF Sound, Guarded, HoldsGap, At, Busy, Sig, Known
<1>9. OneDeployment'
  <2>1. \A r \in Busy' : r \in Busy /\ Sig(r)' = Sig(r)
    BY <1>3, <1>4 DEF Busy, Sig
  <2>2. Known' = Known /\ \A i \in Known : SignalsOf(i)' = SignalsOf(i)
    BY <1>3 DEF Known, SignalsOf
  <2> QED  BY <1>5, <2>1, <2>2 DEF Sound, OneDeployment, Shares
<1>10. Truthful'
  BY <1>3, <1>4, <1>6 DEF Sound, Truthful, Genuine, Busy, Known
<1> QED  BY <1>1, <1>7, <1>8, <1>9, <1>10 DEF Sound

(* An installation anew still belongs to the deployment. *)
LEMMA ReinstallSound ==
    ASSUME Sound, NEW sig \in Signals, Reinstall(sig) PROVE Sound'
<1>1. TypeOK'
  BY OthersTyped DEF Sound
<1>2. TypeOK /\ tx \in [Sessions -> Request \cup {None}]
  BY DEF Sound, TypeOK
<1>3. UNCHANGED <<now, instances, since>> /\ client'.sig = sig /\ client'.identity = None
  BY DEF Reinstall, serverVars
<1>4. ASSUME NEW r \in Sessions
      PROVE  \/ tx'[r] = None
             \/ /\ tx[r] # None /\ tx'[r].sig = tx[r].sig /\ tx'[r].at = tx[r].at
                /\ tx'[r].start = tx[r].start /\ tx'[r].answer = tx[r].answer
  <2>1. CASE \E s \in Busy : tx[s].heard
    <3>1. PICK s \in Busy : tx' = Unheard(s)
      BY <2>1 DEF Reinstall
    <3> QED  BY <1>2, <1>4, <3>1, UnheardRequest DEF Busy
  <2>2. CASE ~ \E s \in Busy : tx[s].heard
    BY <2>2 DEF Reinstall
  <2> QED  BY <2>1, <2>2
<1>5. \A r \in Busy' : /\ r \in Busy /\ Sig(r)' = Sig(r) /\ tx'[r].at = tx[r].at
                       /\ tx'[r].start = tx[r].start /\ tx'[r].answer = tx[r].answer
  BY <1>4 DEF Busy, Sig
<1>6. Busy' \subseteq Sessions /\ Known' = Known
  BY <1>3 DEF Busy, Known
<1>7. Timely'
  BY <1>3, <1>5, <1>6 DEF Sound, Timely
<1>8. Guarded'
  BY <1>5, <1>6 DEF Sound, Guarded, HoldsGap, At
<1>9. OneDeployment'
  <2>1. \A r \in Busy : Shares(Sig(r), sig)
    BY <1>2, RequestTyped, SharesMutual DEF Reinstall
  <2>2. Known # {} => \E i \in Known : Shares(sig, SignalsOf(i))
    BY DEF Reinstall
  <2>3. \A i \in Known : SignalsOf(i)' = SignalsOf(i)
    BY <1>3 DEF SignalsOf
  <2> QED  BY <1>3, <1>5, <1>6, <2>1, <2>2, <2>3 DEF Sound, OneDeployment, Shares
<1>10. Truthful'
  BY <1>3, <1>5, <1>6 DEF Sound, Truthful, Genuine
<1> QED  BY <1>1, <1>7, <1>8, <1>9, <1>10 DEF Sound

(* What happens afterwards changes nothing that registration relies on. *)
LEMMA AfterwardsSound ==
    ASSUME Sound,
           \/ Heartbeat
           \/ \E i \in Installs : Reissue(i)
           \/ RefreshInstanceStatus \/ NewWindow \/ Tick
    PROVE  Sound'
<1>1. TypeOK' /\ TypeOK
  BY OthersTyped DEF Sound
<1>2. CASE Heartbeat
  <2>1. client.identity # None /\ client.identity \in Identity
    BY <1>1, <1>2 DEF Heartbeat, TypeOK
  <2>2. /\ client'.sig = client.sig
        /\ client'.identity.install = client.identity.install
        /\ client'.identity.start = client.identity.start
    BY <1>1, <1>2, <2>1 DEF Heartbeat, TypeOK, Identity
  <2>3. UNCHANGED <<tx, since, now, instances>>
    BY <1>2 DEF Heartbeat, serverVars
  <2>4. Known' = Known /\ now <= now'
    BY <1>1, <2>3, TrialAssumption DEF Known, TypeOK
  <2> QED  BY <1>1, <2>1, <2>2, <2>3, <2>4, Cosmetic
<1>3. ASSUME NEW i \in Installs, Reissue(i) PROVE Sound'
  <2>1. i \in Known /\ UNCHANGED <<tx, since, now, client>>
    BY <1>3 DEF Reissue
  <2>2. /\ instances'[i] = [instances[i] EXCEPT !.cred = @ + 1, !.endpoint = FALSE]
        /\ \A j \in Installs \ {i} : instances'[j] = instances[j]
    BY <1>1, <1>3 DEF Reissue, TypeOK
  <2>3. /\ instances'[i] \in Instance
        /\ instances'[i].start = instances[i].start
        /\ instances'[i].host = instances[i].host /\ instances'[i].db = instances[i].db
    <3>1. PICK row \in Instance : row = instances[i]
      BY <1>1, <2>1, SuccessType
    <3>2. instances'[i] = [row EXCEPT !.cred = @ + 1, !.endpoint = FALSE]
      BY <2>2, <3>1
    <3> QED  BY <3>1, <3>2, RowChanged
  <2>4. Known' = Known /\ now <= now'
    BY <1>1, <2>1, <2>2, <2>3, NoInstanceAssumption, TrialAssumption DEF Known, TypeOK
  <2>5. \A j \in Known : /\ instances'[j].start = instances[j].start
                         /\ instances'[j].host = instances[j].host
                         /\ instances'[j].db = instances[j].db
    BY <2>2, <2>3 DEF Known
  <2> QED  BY <1>1, <2>1, <2>4, <2>5, Cosmetic
<1>4. CASE RefreshInstanceStatus
  <2>1. UNCHANGED <<tx, since, now, client>>
    BY <1>4 DEF RefreshInstanceStatus
  <2>2. ASSUME NEW j \in Known
        PROVE  /\ instances'[j] \in Instance
               /\ instances'[j].start = instances[j].start
               /\ instances'[j].host = instances[j].host
               /\ instances'[j].db = instances[j].db
    <3>1. instances'[j] = instances[j] \/ instances'[j] = [instances[j] EXCEPT !.status = "expired"]
      BY <1>4, <2>2 DEF RefreshInstanceStatus, Known
    <3>2. instances[j] \in Instance
      BY <1>1, <2>2, SuccessType
    <3> QED  BY <3>1, <3>2, RowChanged
  <2>3. \A j \in Installs \ Known : instances'[j] = None
    BY <1>4 DEF RefreshInstanceStatus, Known
  <2>4. Known' = Known
    BY <2>2, <2>3, NoInstanceAssumption DEF Known
  <2>5. now <= now'
    BY <1>1, <2>1, TrialAssumption DEF TypeOK
  <2> QED  BY <1>1, <2>1, <2>2, <2>4, <2>5, Cosmetic
<1>5. CASE NewWindow \/ Tick
  <2>1. UNCHANGED <<tx, since, instances, client>> /\ (now' = now \/ now' = now + 1)
    BY <1>5 DEF NewWindow, Tick, serverVars
  <2>2. Known' = Known /\ now <= now'
    BY <1>1, <2>1, TrialAssumption DEF Known, TypeOK
  <2> QED  BY <1>1, <2>1, <2>2, Cosmetic
<1> QED  BY <1>2, <1>3, <1>4, <1>5

(* Nothing changes at all. *)
LEMMA StutterSound ==
    ASSUME Sound, UNCHANGED vars PROVE Sound'
<1> USE DEF vars, serverVars, counts
<1>1. TypeOK'
  BY DEF Sound, TypeOK
<1>2. TypeOK /\ Known' = Known /\ now <= now'
  BY TrialAssumption DEF Sound, TypeOK, Known
<1> QED  BY <1>1, <1>2, Cosmetic

(* It holds at first. *)
LEMMA InitSound == Init => Sound
<1> SUFFICES ASSUME Init PROVE Sound
  OBVIOUS
<1>1. Known = {} /\ Busy = {}
  BY DEF Init, Known, Busy
<1>2. TypeOK
  <2>1. client \in [sig : Signals, identity : Identity \cup {None}]
    BY DEF Init
  <2>2. /\ 0 \in 0 .. LastTime /\ 0 \in 0 .. Limit + 1
        /\ 0 \in 0 .. MaxReinstalls /\ 0 \in 0 .. MaxFaults
    BY TrialAssumption
  <2> QED  BY <2>1, <2>2 DEF Init, TypeOK
<1>3. Timely /\ Guarded /\ OneDeployment /\ Truthful
  BY <1>1 DEF Init, Timely, Guarded, OneDeployment, Truthful, HoldsGap, At
<1> QED  BY <1>2, <1>3 DEF Sound

(* Every step keeps it. *)
LEMMA NextSound == Sound /\ [Next]_vars => Sound'
<1> SUFFICES ASSUME Sound, [Next]_vars PROVE Sound'
  OBVIOUS
<1>1. ASSUME NEW s \in Sessions, Serve(s) PROVE Sound'
  BY <1>1, ServeSound, CommitSound
<1>2. ASSUME NEW s \in Sessions,
             Send(s) \/ SendUncounted(s) \/ LoseCount(s) \/ Fail(s) \/ GiveUp(s)
      PROVE  Sound'
  BY <1>2, AskSound
<1>3. ASSUME NEW s \in Sessions, Receive(s) PROVE Sound'
  BY <1>3, ReceiveSound
<1>4. ASSUME NEW sig \in Signals, Reinstall(sig) PROVE Sound'
  BY <1>4, ReinstallSound
<1> QED  BY <1>1, <1>2, <1>3, <1>4, AfterwardsSound, StutterSound DEF Next

(* In every reachable state the invariant holds. *)
THEOREM AlwaysSound == Spec => []Sound
BY InitSound, NextSound, PTL DEF Spec

(* Requests, rows and counts have their types, and no instance or answer   *)
(* is ever made without a start (trial.service.ts:137-174).                *)
THEOREM TypeCorrect == Spec => []TypeOK
<1>1. Sound => TypeOK
  BY DEF Sound
<1> QED  BY <1>1, AlwaysSound, PTL

-----------------------------------------------------------------------------
(* The promise *)

(* The starts granted are those of the rows; they and what the client is   *)
(* told stay while rows keep their starts and the client its identity.     *)
LEMMA SamePromise ==
    ASSUME Known' = Known,
           \A i \in Known : instances'[i].start = instances[i].start
    PROVE  Starts' = Starts
BY DEF Starts, Known

(* A commit is a grant, of a start no later than the first moment.         *)
LEMMA CommitGrants ==
    ASSUME Sound, NEW s \in Sessions, Commit(s)
    PROVE  \E i \in Installs, start, t \in 0 .. LastTime : Promise!Grant(i, start, t)
<1>a. PICK i : i = Sig(s).install
  OBVIOUS
<1>b. PICK start : start = tx[s].start
  OBVIOUS
<1>1. TypeOK
  BY DEF Sound
<1>2. s \in Busy /\ HoldsGap(s) /\ start # None
  BY <1>b DEF Commit, At, HoldsGap, Sound, Guarded
<1>3. i \in Installs /\ i \notin Known /\ start \in Nat
  BY <1>1, <1>2, <1>a, <1>b, RequestTyped DEF Sound, Guarded, Signals, Request
<1>4. start <= now /\ (since # None => start <= since)
  BY <1>2, <1>b DEF Sound, Timely
<1>5. now \in 0 .. LastTime /\ start \in 0 .. LastTime
  BY <1>1, <1>3, <1>4, TrialAssumption DEF TypeOK
<1>6. /\ instances'[i] = NewInstance(s)
      /\ \A j \in Installs \ {i} : instances'[j] = instances[j]
  BY <1>1, <1>3, <1>a DEF Commit, TypeOK
<1>7. instances'[i].start = start /\ i \in Known'
  <2>1. instances'[i] \in Instance
    <3>1. TypeOK'
      BY ServeTyped DEF Sound, Serve
    <3>2. Sig(s) \in Signals
      BY <1>1, <1>2, RequestTyped
    <3>3. Sig(s).host \in Hosts /\ Sig(s).db \in Dbs
      BY <3>2 DEF Signals
    <3> QED  BY <1>3, <1>6, <1>b, <3>3 DEF NewInstance, Instance
  <2> QED  BY <1>3, <1>6, <1>b, <2>1, NoInstanceAssumption DEF NewInstance, Known
<1>8. Starts' = [Starts EXCEPT ![i] = start]
  <2>1. \A j \in Installs \ {i} : (j \in Known' <=> j \in Known)
    BY <1>6 DEF Known
  <2>2. ASSUME NEW j \in Installs PROVE Starts'[j] = [Starts EXCEPT ![i] = start][j]
    <3>1. CASE j = i
      BY <1>3, <1>7, <3>1 DEF Starts
    <3>2. CASE j # i
      BY <1>6, <2>1, <3>2 DEF Starts
    <3> QED  BY <3>1, <3>2
  <2> QED  BY <2>2 DEF Starts
<1>9. Starts[i] = None
  BY <1>3 DEF Starts
<1>10. since' = (IF since = None THEN now ELSE since) /\ UNCHANGED Told
  BY DEF Commit, Told
<1>11. Promise!Grant(i, start, now)
  BY <1>4, <1>8, <1>9, <1>10 DEF Promise!Grant
<1> QED  BY <1>3, <1>5, <1>11

(* An answer taken tells the client what was granted. *)
LEMMA ReceiveTells ==
    ASSUME Sound, NEW s \in Sessions, Receive(s)
    PROVE  \/ \E i \in Installs : Promise!Tell(i)
           \/ Promise!Forget
           \/ UNCHANGED <<Starts, since, Told>>
<1>1. TypeOK
  BY DEF Sound
<1>2. UNCHANGED <<instances, since>> /\ s \in Busy /\ tx[s].at = "answering"
  BY DEF Receive, serverVars, At
<1>3. UNCHANGED <<Starts, since>>
  BY <1>2 DEF Starts, Known
<1>4. CASE tx[s].answer.ok
  <2>1. PICK held : held = tx[s].answer.identity
    OBVIOUS
  <2>2. client'.identity = held
    BY <1>1, <1>4, <2>1 DEF Receive, TypeOK
  <2>3. held.install \in Known /\ held.start = instances[held.install].start
    BY <1>2, <1>4, <2>1 DEF Sound, Truthful, Genuine
  <2>4. /\ held.install \in Installs
        /\ Starts[held.install] = held.start /\ Starts[held.install] # None
    <3>1. instances[held.install] \in Instance
      BY <1>1, <2>3, SuccessType
    <3>2. instances[held.install].start \in Nat
      BY <3>1 DEF Instance
    <3>3. held.start # None
      BY <2>3, <3>2, TrialAssumption
    <3>4. held.install \in Installs
      BY <2>3 DEF Known
    <3> QED  BY <2>3, <3>3, <3>4 DEF Starts
  <2>5. CASE held = None
    BY <1>3, <2>2, <2>5 DEF Told, Promise!Forget
  <2>6. CASE held # None
    <3>1. Told' = [install |-> held.install, start |-> Starts[held.install]]
      BY <2>2, <2>4, <2>6 DEF Told
    <3>2. Promise!Tell(held.install)
      BY <1>3, <2>4, <3>1 DEF Promise!Tell
    <3> QED  BY <2>4, <3>2
  <2> QED  BY <2>5, <2>6
<1>5. CASE ~tx[s].answer.ok
  BY <1>3, <1>5 DEF Receive, Told
<1> QED  BY <1>4, <1>5

(* Every step keeps the promise. *)
LEMMA NextPromise ==
    Sound /\ [Next]_vars => [Promise!PromiseNext]_(Promise!promiseVars)
<1> SUFFICES ASSUME Sound, [Next]_vars
             PROVE  Promise!PromiseNext \/ UNCHANGED <<Starts, since, Told>>
  BY DEF Promise!promiseVars
<1>1. TypeOK
  BY DEF Sound
<1>2. ASSUME NEW s \in Sessions, Commit(s) PROVE Promise!PromiseNext
  BY <1>2, CommitGrants DEF Promise!PromiseNext
<1>3. ASSUME NEW s \in Sessions, Receive(s)
      PROVE  Promise!PromiseNext \/ UNCHANGED <<Starts, since, Told>>
  BY <1>3, ReceiveTells DEF Promise!PromiseNext
<1>4. ASSUME NEW s \in Sessions,
             \/ Send(s) \/ SendUncounted(s) \/ LoseCount(s)
             \/ (Serve(s) /\ ~Commit(s)) \/ Fail(s) \/ GiveUp(s)
      PROVE  UNCHANGED <<Starts, since, Told>>
  <2>1. UNCHANGED <<instances, since, client>>
    BY <1>4 DEF Send, SendUncounted, Ask, LoseCount, Serve, Fail, GiveUp, Refuse, Pass, LookAgain, Inherit, Number,
                InsertSequence, Insert, Victim, serverVars, counts
  <2> QED  BY <2>1 DEF Starts, Known, Told
<1>5. ASSUME NEW sig \in Signals, Reinstall(sig) PROVE Promise!PromiseNext
  <2>1. UNCHANGED <<instances, since>> /\ client'.identity = None
    BY <1>5 DEF Reinstall, serverVars
  <2>2. UNCHANGED <<Starts, since>> /\ Told' = None
    BY <2>1 DEF Starts, Known, Told
  <2> QED  BY <2>2 DEF Promise!Forget, Promise!PromiseNext
<1>6. CASE Heartbeat
  <2>1. client.identity # None /\ client.identity \in Identity
    BY <1>1, <1>6 DEF Heartbeat, TypeOK
  <2>2. /\ client'.identity.install = client.identity.install
        /\ client'.identity.start = client.identity.start
    BY <1>1, <1>6, <2>1 DEF Heartbeat, TypeOK, Identity
  <2>3. UNCHANGED <<Starts, since>>
    BY <1>6 DEF Heartbeat, serverVars, Starts, Known
  <2>4. Told' = Told \/ Told' = None
    BY <2>1, <2>2 DEF Told
  <2> QED  BY <2>3, <2>4 DEF Promise!Forget, Promise!PromiseNext
<1>7. ASSUME NEW i \in Installs, Reissue(i) PROVE UNCHANGED <<Starts, since, Told>>
  <2>1. i \in Known /\ UNCHANGED <<since, client>>
    BY <1>7 DEF Reissue
  <2>2. /\ instances'[i] = [instances[i] EXCEPT !.cred = @ + 1, !.endpoint = FALSE]
        /\ \A j \in Installs \ {i} : instances'[j] = instances[j]
    BY <1>1, <1>7 DEF Reissue, TypeOK
  <2>3. PICK row \in Instance : row = instances[i]
    BY <1>1, <2>1, SuccessType
  <2>4. instances'[i] \in Instance /\ instances'[i].start = instances[i].start
    <3>1. instances'[i] = [row EXCEPT !.cred = @ + 1, !.endpoint = FALSE]
      BY <2>2, <2>3
    <3> QED  BY <2>3, <3>1, RowChanged
  <2>5. Known' = Known
    BY <2>1, <2>2, <2>4, NoInstanceAssumption DEF Known
  <2>6. \A j \in Known : instances'[j].start = instances[j].start
    BY <2>2, <2>4 DEF Known
  <2> QED  BY <2>1, <2>5, <2>6, SamePromise DEF Told
<1>8. CASE RefreshInstanceStatus
  <2>1. UNCHANGED <<since, client>>
    BY <1>8 DEF RefreshInstanceStatus
  <2>2. ASSUME NEW j \in Known
        PROVE  instances'[j] \in Instance /\ instances'[j].start = instances[j].start
    <3>1. instances'[j] = instances[j] \/ instances'[j] = [instances[j] EXCEPT !.status = "expired"]
      BY <1>8, <2>2 DEF RefreshInstanceStatus, Known
    <3>2. instances[j] \in Instance
      BY <1>1, <2>2, SuccessType
    <3> QED  BY <3>1, <3>2, RowChanged
  <2>3. \A j \in Installs \ Known : instances'[j] = None
    BY <1>8 DEF RefreshInstanceStatus, Known
  <2>4. Known' = Known
    BY <2>2, <2>3, NoInstanceAssumption DEF Known
  <2> QED  BY <2>1, <2>2, <2>4, SamePromise DEF Told
<1>9. CASE NewWindow \/ Tick \/ UNCHANGED vars
  BY <1>9 DEF NewWindow, Tick, vars, serverVars, Starts, Known, Told
<1> QED  BY <1>2, <1>3, <1>4, <1>5, <1>6, <1>7, <1>8, <1>9 DEF Next

(* Registration implements its promise: an installation is granted one     *)
(* start for good, none later than the first moment of its deployment, and *)
(* a client is told nothing else (trial.service.ts:50-56, 131-137).        *)
THEOREM RegistrationKeepsPromise == Spec => KeepsPromise
<1>1. Init => Promise!PromiseInit
  BY DEF Init, Promise!PromiseInit, Starts, Known, Told
<1> QED
  BY <1>1, AlwaysSound, NextPromise, PTL DEF Spec, KeepsPromise, Promise!PromiseSpec

-----------------------------------------------------------------------------
(* The limit *)

(* The requests of a fingerprint that are counted and not yet judged. *)
Counted(i) == {s \in Sessions : At(s, {"counted"}) /\ Sig(s).install = i}

(* Every request let through by its count, and every one yet to be judged, *)
(* was counted.                                                            *)
Accounted ==
    \A i \in Installs :
        /\ passed[i] <= Limit + waived[i]
        /\ passed[i] + Cardinality(Counted(i)) <= hits[i] + waived[i]

(* There are finitely many of them. *)
LEMMA CountedFinite ==
    \A i \in Installs : IsFiniteSet(Counted(i)) /\ Cardinality(Counted(i)) \in Nat
<1> SUFFICES ASSUME NEW i \in Installs
             PROVE  IsFiniteSet(Counted(i)) /\ Cardinality(Counted(i)) \in Nat
  OBVIOUS
<1>1. Counted(i) \subseteq Sessions
  BY DEF Counted
<1> QED  BY <1>1, FS_Subset, FS_CardinalityType, TrialAssumption

(* While no request is counted or judged, none joins them: one that goes or *)
(* goes on is counted only if it was.                                      *)
LEMMA FewerCounted ==
    ASSUME TypeOK, Accounted, UNCHANGED <<hits, passed, waived>>,
           \A r \in Sessions :
               \/ tx'[r] = None \/ tx'[r].at # "counted"
               \/ tx[r] # None /\ tx'[r].at = tx[r].at /\ tx'[r].sig = tx[r].sig
    PROVE  Accounted'
<1> SUFFICES ASSUME NEW i \in Installs
             PROVE  /\ passed[i] <= Limit + waived[i]
                    /\ passed[i] + Cardinality(Counted(i)') <= hits[i] + waived[i]
  BY DEF Accounted
<1>1. Counted(i)' \subseteq Counted(i)
  BY DEF Counted, At, Busy, Sig
<1>2. Cardinality(Counted(i)') \in Nat /\ Cardinality(Counted(i)') <= Cardinality(Counted(i))
  BY <1>1, CountedFinite, FS_Subset, FS_CardinalityType
<1>3. /\ passed[i] \in Nat /\ waived[i] \in Nat /\ hits[i] \in Nat
      /\ Cardinality(Counted(i)) \in Nat
  BY CountedFinite, TrialAssumption DEF TypeOK
<1> QED  BY <1>2, <1>3 DEF Accounted

(* A request is counted: one more is to be judged. *)
LEMMA SendAccounted ==
    ASSUME TypeOK, Accounted, NEW s \in Sessions, Send(s) PROVE Accounted'
<1>1. PICK i \in Installs : i = client.sig.install
  BY DEF TypeOK, Signals
<1>2. /\ hits' = [hits EXCEPT ![i] = @ + 1] /\ tx[s] = None
      /\ passed' = passed /\ waived' = waived
  BY <1>1 DEF Send, Ask
<1>3. /\ \A r \in Sessions \ {s} : tx'[r] = tx[r]
      /\ tx'[s] = [at |-> "counted", sig |-> client.sig, heard |-> TRUE,
                   start |-> None, answer |-> None]
  BY DEF Send, Ask, TypeOK
<1>4. \A j \in Installs \ {i} : Counted(j)' \subseteq Counted(j)
  BY <1>1, <1>3 DEF Counted, At, Busy, Sig
<1>5. Counted(i)' \subseteq Counted(i) \cup {s} /\ s \notin Counted(i)
  BY <1>2, <1>3 DEF Counted, At, Busy, Sig
<1> SUFFICES ASSUME NEW j \in Installs
             PROVE  /\ passed'[j] <= Limit + waived'[j]
                    /\ passed'[j] + Cardinality(Counted(j)') <= hits'[j] + waived'[j]
  BY DEF Accounted
<1>6. /\ passed[j] \in Nat /\ waived[j] \in Nat /\ hits[j] \in Nat
      /\ Cardinality(Counted(j)) \in Nat
  BY CountedFinite, TrialAssumption DEF TypeOK
<1>7. CASE j = i
  <2>1. IsFiniteSet(Counted(i))
    BY CountedFinite
  <2>2. /\ IsFiniteSet(Counted(i) \cup {s})
        /\ Cardinality(Counted(i) \cup {s}) = Cardinality(Counted(i)) + 1
    BY <1>5, <2>1, FS_AddElement
  <2>3. /\ Cardinality(Counted(i)') \in Nat
        /\ Cardinality(Counted(i)') <= Cardinality(Counted(i)) + 1
    BY <1>5, <2>2, FS_Subset, FS_CardinalityType
  <2>4. hits'[i] = hits[i] + 1
    BY <1>2 DEF TypeOK
  <2> QED  BY <1>2, <1>6, <1>7, <2>3, <2>4 DEF Accounted
<1>8. CASE j # i
  <2>1. /\ Cardinality(Counted(j)') \in Nat
        /\ Cardinality(Counted(j)') <= Cardinality(Counted(j))
    BY <1>4, <1>8, CountedFinite, FS_Subset, FS_CardinalityType
  <2>2. hits'[j] = hits[j]
    BY <1>2, <1>8 DEF TypeOK
  <2> QED  BY <1>2, <1>6, <2>1, <2>2 DEF Accounted
<1> QED  BY <1>7, <1>8

(* A request is let through by its count, which contains it and all those  *)
(* let through before, or for want of one.                                 *)
LEMMA PassAccounted ==
    ASSUME TypeOK, Accounted, NEW s \in Sessions, Pass(s) PROVE Accounted'
<1>a. PICK i : i = Sig(s).install
  OBVIOUS
<1>1. s \in Busy /\ tx[s].at \in {"counted", "uncounted"} /\ hits' = hits
  BY DEF Pass, At
<1>2. i \in Installs
  BY <1>1, <1>a, RequestTyped DEF Signals
<1>3. /\ passed' = [passed EXCEPT ![i] = @ + 1]
      /\ tx[s].at = "counted" => hits[i] <= Limit /\ waived' = waived
      /\ tx[s].at = "uncounted" => waived' = [waived EXCEPT ![i] = @ + 1]
  BY <1>a, <1>1 DEF Pass, Within, At
<1>4. /\ \A r \in Sessions \ {s} : tx'[r] = tx[r]
      /\ tx'[s] = None \/ tx'[s].at # "counted"
  <2>1. CASE Sig(s).install \in Known
    <3>1. PICK answer \in Answers : tx' = Answered(s, answer)
      BY <2>1, SuccessType DEF Pass
    <3> QED  BY <1>1, <3>1, AnsweredRequest DEF TypeOK
  <2>2. CASE Sig(s).install \notin Known
    <3>1. tx' = [tx EXCEPT ![s].at = "looked"] /\ "looked" \in Places
      BY <2>2 DEF Pass, Places
    <3> QED  BY <1>1, <3>1, MovedRequest DEF TypeOK
  <2> QED  BY <2>1, <2>2
<1>5. tx[s].at = "counted" => s \in Counted(i)
  BY <1>1, <1>a DEF Counted, At
<1>6. Counted(i)' \subseteq Counted(i) \ {s}
  BY <1>4 DEF Counted, At, Busy, Sig
<1>7. \A j \in Installs : Counted(j)' \subseteq Counted(j)
  BY <1>4 DEF Counted, At, Busy, Sig
<1> SUFFICES ASSUME NEW j \in Installs
             PROVE  /\ passed'[j] <= Limit + waived'[j]
                    /\ passed'[j] + Cardinality(Counted(j)') <= hits'[j] + waived'[j]
  BY DEF Accounted
<1>8. /\ passed[j] \in Nat /\ waived[j] \in Nat /\ hits[j] \in Nat
      /\ Cardinality(Counted(j)) \in Nat /\ Limit \in Nat
  BY CountedFinite, TrialAssumption DEF TypeOK
<1>9. /\ passed[j] <= Limit + waived[j]
      /\ passed[j] + Cardinality(Counted(j)) <= hits[j] + waived[j]
  BY DEF Accounted
<1>10. /\ Cardinality(Counted(j)') \in Nat
       /\ Cardinality(Counted(j)') <= Cardinality(Counted(j))
  BY <1>7, CountedFinite, FS_Subset, FS_CardinalityType
<1>11. CASE j = i /\ tx[s].at = "counted"
  <2>1. IsFiniteSet(Counted(i)) /\ s \in Counted(i)
    BY <1>2, <1>5, <1>11, CountedFinite
  <2>2. /\ IsFiniteSet(Counted(i) \ {s})
        /\ Cardinality(Counted(i) \ {s}) = Cardinality(Counted(i)) - 1
    BY <2>1, FS_RemoveElement
  <2>3. Cardinality(Counted(i)') <= Cardinality(Counted(i)) - 1
    BY <1>6, <2>2, FS_Subset, FS_CardinalityType
  <2>4. passed'[i] = passed[i] + 1 /\ waived' = waived /\ hits[i] <= Limit
    BY <1>2, <1>3, <1>11 DEF TypeOK
  <2> QED  BY <1>1, <1>8, <1>9, <1>10, <1>11, <2>3, <2>4
<1>12. CASE j = i /\ tx[s].at = "uncounted"
  <2>1. passed'[i] = passed[i] + 1 /\ waived'[i] = waived[i] + 1
    BY <1>2, <1>3, <1>12 DEF TypeOK
  <2> QED  BY <1>1, <1>8, <1>9, <1>10, <1>12, <2>1
<1>13. CASE j # i
  <2>1. passed'[j] = passed[j] /\ waived'[j] = waived[j]
    BY <1>1, <1>3, <1>13 DEF TypeOK
  <2> QED  BY <1>1, <1>8, <1>9, <1>10, <2>1
<1> QED  BY <1>1, <1>11, <1>12, <1>13

(* A new window begins with no request to be judged. *)
LEMMA NewWindowAccounted ==
    ASSUME NewWindow PROVE Accounted'
<1>1. \A i \in Installs : Counted(i)' = {}
  BY DEF NewWindow, Counted, At, Busy
<1>2. Cardinality({}) = 0
  BY FS_EmptySet
<1>3. \A i \in Installs : hits'[i] = 0 /\ passed'[i] = 0 /\ waived'[i] = 0
  BY DEF NewWindow
<1> QED  BY <1>1, <1>2, <1>3, TrialAssumption DEF Accounted

(* No other step counts a request. *)
LEMMA OthersAccounted ==
    ASSUME TypeOK, Accounted,
           \/ \E s \in Sessions : \/ Serve(s) /\ ~Pass(s)
                                  \/ SendUncounted(s) \/ LoseCount(s)
                                  \/ Fail(s) \/ Receive(s) \/ GiveUp(s)
           \/ \E sig \in Signals : Reinstall(sig)
           \/ Heartbeat
           \/ \E i \in Installs : Reissue(i)
           \/ RefreshInstanceStatus \/ Tick \/ UNCHANGED vars
    PROVE  Accounted'
<1>1. tx \in [Sessions -> Request \cup {None}]
  BY DEF TypeOK
<1>2. ASSUME NEW s \in Sessions, (Serve(s) /\ ~Pass(s)) \/ LoseCount(s) \/ Fail(s)
      PROVE  Accounted'
  <2>1. s \in Busy /\ UNCHANGED <<hits, passed, waived>>
    BY <1>2 DEF Serve, Refuse, LookAgain, Inherit, Number, InsertSequence, Insert, Commit,
                Victim, LoseCount, Fail, At, counts
  <2>2. CASE \E answer \in Answers : tx' = Answered(s, answer)
    BY <1>1, <2>1, <2>2, AnsweredRequest, FewerCounted
  <2>3. CASE \E place \in Places \ {"counted"} : tx' = [tx EXCEPT ![s].at = place]
    BY <1>1, <2>1, <2>3, MovedRequest, FewerCounted
  <2>4. CASE Inherit(s)
    <3>1. tx' = [tx EXCEPT ![s] = [@ EXCEPT !.at = "inherited", !.start = Start(s)]]
      BY <2>4 DEF Inherit
    <3>2. /\ \A r \in Sessions \ {s} : tx'[r] = tx[r]
          /\ tx'[s].at = "inherited"
      BY <1>1, <2>1, <3>1, RequestTyped DEF Request
    <3> QED  BY <2>1, <3>2, FewerCounted
  <2>5. CASE Commit(s)
    <3>1. PICK answer : tx' = Answered(s, answer)
      BY <2>5 DEF Commit
    <3>2. \A r \in Sessions \ {s} : tx'[r] = tx[r]
      BY <1>1, <3>1 DEF Answered
    <3>3. tx'[s] = None \/ tx'[s].at = "answering"
      BY <1>1, <2>1, <3>1, RequestTyped DEF Answered, Request
    <3> QED  BY <2>1, <3>2, <3>3, FewerCounted
  <2>6. CASE Refuse(s) \/ Victim(s) \/ Fail(s)
    <3>1. Refusal \in Answers /\ Failure \in Answers
      BY DEF Refusal, Failure, Answers
    <3> QED  BY <2>2, <2>6, <3>1 DEF Refuse, Victim, Fail
  <2>7. CASE LookAgain(s)
    <3>1. Sig(s).install \in Known => Success(Sig(s).install) \in Answers
      BY SuccessType
    <3>2. "queued" \in Places \ {"counted"}
      BY DEF Places
    <3> QED  BY <2>2, <2>3, <2>7, <3>1, <3>2 DEF LookAgain
  <2>8. CASE Number(s) \/ InsertSequence(s) \/ Insert(s) \/ LoseCount(s)
    BY <2>3, <2>8 DEF Number, InsertSequence, Insert, LoseCount, Places
  <2> QED  BY <1>2, <2>4, <2>5, <2>6, <2>7, <2>8 DEF Serve
<1>3. ASSUME NEW s \in Sessions, Receive(s) PROVE Accounted'
  <2>1. UNCHANGED <<hits, passed, waived>> /\ tx' = [tx EXCEPT ![s] = None]
    BY <1>3 DEF Receive, counts
  <2> QED  BY <1>1, <2>1, FewerCounted
<1>4. ASSUME NEW s \in Sessions, GiveUp(s) PROVE Accounted'
  <2>1. UNCHANGED <<hits, passed, waived>> /\ s \in Busy /\ tx' = Unheard(s)
    BY <1>4 DEF GiveUp, counts
  <2> QED  BY <1>1, <2>1, UnheardRequest, FewerCounted DEF Busy
<1>5. ASSUME NEW sig \in Signals, Reinstall(sig) PROVE Accounted'
  <2>1. UNCHANGED <<hits, passed, waived>>
    BY <1>5 DEF Reinstall, counts
  <2>2. CASE \E s \in Busy : tx[s].heard
    <3>1. PICK s \in Busy : tx' = Unheard(s)
      BY <1>5, <2>2 DEF Reinstall
    <3> QED  BY <1>1, <2>1, <3>1, UnheardRequest, FewerCounted DEF Busy
  <2>3. CASE ~ \E s \in Busy : tx[s].heard
    <3>1. tx' = tx
      BY <1>5, <2>3 DEF Reinstall
    <3> QED  BY <2>1, <3>1, FewerCounted
  <2> QED  BY <2>2, <2>3
<1>6. CASE \/ Heartbeat \/ RefreshInstanceStatus \/ Tick \/ UNCHANGED vars
          \/ \E i \in Installs : Reissue(i)
  <2>1. UNCHANGED <<hits, passed, waived>> /\ tx' = tx
    BY <1>6 DEF Heartbeat, Reissue, RefreshInstanceStatus, Tick, vars, counts
  <2> QED  BY <2>1, FewerCounted
<1>7. ASSUME NEW s \in Sessions, SendUncounted(s) PROVE Accounted'
  <2>1. UNCHANGED <<hits, passed, waived>>
    BY <1>7 DEF SendUncounted, Ask
  <2>2. /\ \A r \in Sessions \ {s} : tx'[r] = tx[r]
        /\ tx'[s].at = "uncounted"
    BY <1>1, <1>7 DEF SendUncounted, Ask
  <2> QED  BY <2>1, <2>2, FewerCounted
<1> QED  BY <1>2, <1>3, <1>4, <1>5, <1>6, <1>7

(* No window lets more registrations of a fingerprint through than the     *)
(* limit and those that had no count, whether the counter could not be     *)
(* written or not be read, although each raises the count before it reads  *)
(* it, in two statements (rate-limit.service.ts:20-48).                    *)
THEOREM WindowKeepsLimit == Spec => []LimitKept
<1>1. Init => Accounted
  <2> SUFFICES ASSUME Init PROVE Accounted
    OBVIOUS
  <2>1. \A i \in Installs : Counted(i) = {}
    BY DEF Init, Counted, At, Busy
  <2>2. Cardinality({}) = 0
    BY FS_EmptySet
  <2> QED  BY <2>1, <2>2, TrialAssumption DEF Init, Accounted
<1>2. TypeOK /\ Accounted /\ [Next]_vars => Accounted'
  <2> SUFFICES ASSUME TypeOK, Accounted, [Next]_vars PROVE Accounted'
    OBVIOUS
  <2> QED  BY SendAccounted, PassAccounted, NewWindowAccounted, OthersAccounted DEF Next
<1>3. Accounted => LimitKept
  BY DEF Accounted, LimitKept
<1> QED  BY <1>1, <1>2, <1>3, TypeCorrect, PTL DEF Spec
=============================================================================
