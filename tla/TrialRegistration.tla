------------------------- MODULE TrialRegistration -------------------------
(***************************************************************************)
(* The registration of trials: the client                                  *)
(* (packages/sdk/src/trial/client.ts) asks, and asks again when the answer *)
(* is lost; the server (packages/server/src/modules/client/                *)
(* trial.service.ts, behind client.controller.ts) finds its instance, or   *)
(* makes one in a transaction of InnoDB's REPEATABLE READ.  Afterwards     *)
(* heartbeats bring the client the credentials operators reissue.          *)
(*                                                                         *)
(* The fingerprint is the hash of the install id and stands for it here;   *)
(* the order of the install ids stands for that of the hashes in the       *)
(* unique index.  The customer, the license (which starts and ends with    *)
(* the instance) and the statistics of an instance (times reused, last     *)
(* address, versions, drift) decide nothing and are left out, as are       *)
(* quotas.  An instance has its license and its credential from the        *)
(* transaction that made it, so that they are never found missing.         *)
(***************************************************************************)
EXTENDS Integers, FiniteSets

CONSTANTS
    None,
    Installs,       \* bound: install ids
    Hosts,          \* host signals, or None: not sent
    Dbs,            \* database signals, or None: not sent
    Sessions,       \* requests that may be under way at the same time
    Days,           \* length of a trial (TRIAL_DAYS)
    Limit,          \* registrations of one fingerprint in one window
    MaxReinstalls,  \* bound: how often the client loses what it holds
    MaxFaults,      \* bound: requests that die, answers that are lost
    MaxReissues,    \* bound: credentials an operator reissues
    LastTime        \* bound: the clock stops there

ASSUME TrialAssumption ==
    /\ Installs \subseteq Nat /\ IsFiniteSet(Sessions)
    /\ Days \in Nat /\ Limit \in Nat \ {0} /\ LastTime \in Nat
    /\ MaxReinstalls \in Nat /\ MaxFaults \in Nat /\ MaxReissues \in Nat
    /\ None \notin Int

VARIABLES
    now,         \* the server's clock
    instances,   \* lc_instance by fingerprint, committed: a row, or None
    sequence,    \* whether this year's row of lc_sequence exists
    hits,        \* lc_rate_limit: registrations counted in this window
    tx,          \* per session: its request, or None
    client,      \* the deployment: its signals, and the identity it holds or None
    passed,      \* history: registrations let through in this window
    waived,      \* history: those of them let through without a count
    since,       \* history: when its first instance was committed, or None
    reinstalls,  \* counts for the bounds
    faults

serverVars == <<instances, sequence>>
counts == <<hits, passed, waived>>
vars == <<now, serverVars, counts, tx, client, since, reinstalls, faults>>

(* What a client sends. *)
Signals == [install : Installs, host : Hosts, db : Dbs]

(* A row, with the credential that counts: its number among those of its   *)
(* license, and whether it names the address and the instance to report as.*)
Instance ==
    [start : Nat, host : Hosts, db : Dbs,
     status : {"active", "expired"}, cred : Nat, endpoint : BOOLEAN]

ASSUME NoInstanceAssumption == None \notin Instance

Identity == [install : Installs, start : Nat, cred : Nat, endpoint : BOOLEAN]

(* What a request ends with, as the client sees it. *)
Answers == [ok : {TRUE}, identity : Identity] \cup [ok : {FALSE}, retryable : BOOLEAN]

Places == {"counted", "uncounted", "looked", "queued", "inherited", "numbering", "numbered",
           "inserted", "answering"}

Request == [at : Places, sig : Signals, heard : BOOLEAN, start : Nat \cup {None},
            answer : Answers \cup {None}]

TypeOK ==
    /\ now \in 0 .. LastTime
    /\ instances \in [Installs -> Instance \cup {None}]
    /\ sequence \in BOOLEAN
    /\ hits \in [Installs -> 0 .. Limit + 1]
    /\ passed \in [Installs -> Nat] /\ waived \in [Installs -> Nat]
    /\ tx \in [Sessions -> Request \cup {None}]
    /\ client \in [sig : Signals, identity : Identity \cup {None}]
    /\ since \in Nat \cup {None}
    /\ reinstalls \in 0 .. MaxReinstalls /\ faults \in 0 .. MaxFaults

Init ==
    /\ now = 0
    /\ instances = [i \in Installs |-> None]
    /\ sequence = FALSE
    /\ hits = [i \in Installs |-> 0]
    /\ passed = [i \in Installs |-> 0] /\ waived = [i \in Installs |-> 0]
    /\ tx = [s \in Sessions |-> None]
    /\ client \in [sig : Signals, identity : {None}]
    /\ since = None
    /\ reinstalls = 0 /\ faults = 0

Known == {i \in Installs : instances[i] # None}
Busy == {s \in Sessions : tx[s] # None}
Sig(s) == tx[s].sig
At(s, places) == s \in Busy /\ tx[s].at \in places

(* The answer to a request nobody listens to any more is dropped. *)
Answered(s, answer) ==
    [tx EXCEPT ![s] = IF tx[s].heard
                        THEN [@ EXCEPT !.at = "answering", !.start = None, !.answer = answer]
                        ELSE None]

Success(i) ==
    [ok |-> TRUE, identity |-> [install |-> i, start |-> instances[i].start,
                                cred |-> instances[i].cred, endpoint |-> instances[i].endpoint]]

(* An error that is not a BusinessException is an HTTP 500. *)
Failure == [ok |-> FALSE, retryable |-> TRUE]

(* A BusinessException is an HTTP 200 with another code: the client takes  *)
(* it for final.                                                           *)
Refusal == [ok |-> FALSE, retryable |-> FALSE]

-----------------------------------------------------------------------------
(* The client *)

(* register: a request is sent, while those the client gave up may still   *)
(* be worked at.                                                           *)
Ask(s, place) ==
    /\ client.identity = None
    /\ \A r \in Busy : ~tx[r].heard
    /\ tx[s] = None
    /\ tx' = [tx EXCEPT ![s] = [at |-> place, sig |-> client.sig, heard |-> TRUE,
                                start |-> None, answer |-> None]]
    /\ UNCHANGED <<now, serverVars, passed, waived, client, since, reinstalls>>

(* The server counts it first, ...                                         *)
Send(s) ==
    /\ Ask(s, "counted")
    /\ hits[client.sig.install] <= Limit
    /\ hits' = [hits EXCEPT ![client.sig.install] = @ + 1]
    /\ UNCHANGED faults

(* ... unless the counter cannot be written.                               *)
SendUncounted(s) ==
    /\ Ask(s, "uncounted")
    /\ faults < MaxFaults
    /\ faults' = faults + 1
    /\ UNCHANGED hits

Receive(s) ==
    /\ At(s, {"answering"})
    /\ client' = IF tx[s].answer.ok
                   THEN [client EXCEPT !.identity = tx[s].answer.identity]
                   ELSE client
    /\ tx' = [tx EXCEPT ![s] = None]
    /\ UNCHANGED <<now, serverVars, counts, since, reinstalls, faults>>

Unheard(s) ==
    [tx EXCEPT ![s] = IF @.at = "answering" THEN None ELSE [@ EXCEPT !.heard = FALSE]]

(* The client stops waiting (timeoutMs), the answer is lost, or the client *)
(* dies with it.                                                           *)
GiveUp(s) ==
    /\ s \in Busy /\ tx[s].heard
    /\ faults < MaxFaults
    /\ faults' = faults + 1
    /\ tx' = Unheard(s)
    /\ UNCHANGED <<now, serverVars, counts, client, since, reinstalls>>

Shares(a, b) ==
    \/ a.install = b.install
    \/ a.host # None /\ a.host = b.host
    \/ a.db # None /\ a.db = b.db

SignalsOf(i) == [install |-> i, host |-> instances[i].host, db |-> instances[i].db]

(* The deployment is installed anew and loses its identity, or only that;  *)
(* it shares a signal with one of its instances, or, while there is none,  *)
(* with what it was, and with every request still under way.               *)
Reinstall(sig) ==
    /\ reinstalls < MaxReinstalls
    /\ IF Known = {} THEN Shares(sig, client.sig)
                     ELSE \E i \in Known : Shares(sig, SignalsOf(i))
    /\ \A s \in Busy : Shares(sig, Sig(s))
    /\ client' = [sig |-> sig, identity |-> None]
    /\ tx' = IF \E s \in Busy : tx[s].heard
               THEN Unheard(CHOOSE s \in Busy : tx[s].heard) ELSE tx
    /\ reinstalls' = reinstalls + 1
    /\ UNCHANGED <<now, serverVars, counts, since, faults>>

-----------------------------------------------------------------------------
(* Locks: the gap of the fingerprint index a transaction locked when it    *)
(* found nothing, the row of the sequence, the uncommitted new instance    *)

HoldsGap(s) == At(s, {"queued", "inherited", "numbering", "numbered", "inserted"})
HoldsSequence(s) == At(s, {"numbered", "inserted"})
HoldsSequenceGap(s) == At(s, {"numbering"})

(* No instance lies between two fingerprints. *)
SameGap(i, j) == ~ \E k \in Known : (i < k /\ k < j) \/ (j < k /\ k < i)

(* For whom a session waits before its next step. *)
Blockers(s) ==
    {r \in Busy \ {s} :
        \/ At(s, {"looked"}) /\ At(r, {"inserted"}) /\ Sig(r).install = Sig(s).install
        \/ At(s, {"inherited"}) /\ HoldsSequence(r)
        \/ At(s, {"numbering"}) /\ HoldsSequenceGap(r)
        \/ At(s, {"numbered"}) /\ HoldsGap(r) /\ SameGap(Sig(r).install, Sig(s).install)}

Free(s) == Blockers(s) = {}

(* Sessions that wait for one another in a circle. *)
Circle(S) ==
    /\ S # {}
    /\ \A s \in S : Blockers(s) \cap S # {}

-----------------------------------------------------------------------------
(* register *)

(* The counter was written and cannot be read. *)
LoseCount(s) ==
    /\ At(s, {"counted"})
    /\ faults < MaxFaults
    /\ faults' = faults + 1
    /\ tx' = [tx EXCEPT ![s].at = "uncounted"]
    /\ UNCHANGED <<now, serverVars, counts, client, since, reinstalls>>

(* Variant for mutation: the limit is one more. *)
WithinOneMore(s) == tx[s].at = "uncounted" \/ hits[Sig(s).install] <= Limit + 1

(* consume: the count is read after it was raised; a request that has none *)
(* is let in, for a counter that fails must not shut customers out.        *)
Within(s) == tx[s].at = "uncounted" \/ hits[Sig(s).install] <= Limit

Refuse(s) ==
    /\ At(s, {"counted"})
    /\ ~Within(s)
    /\ tx' = Answered(s, Refusal)
    /\ UNCHANGED <<now, serverVars, counts, client, since, reinstalls, faults>>

(* The fingerprint is looked up, and a known instance is handed out again. *)
Pass(s) ==
    /\ At(s, {"counted", "uncounted"})
    /\ Within(s)
    /\ passed' = [passed EXCEPT ![Sig(s).install] = @ + 1]
    /\ waived' = IF At(s, {"uncounted"}) THEN [waived EXCEPT ![Sig(s).install] = @ + 1]
                                         ELSE waived
    /\ tx' = IF Sig(s).install \in Known THEN Answered(s, Success(Sig(s).install))
             ELSE [tx EXCEPT ![s].at = "looked"]
    /\ UNCHANGED <<now, serverVars, hits, client, since, reinstalls, faults>>

(* Inside the transaction the fingerprint is looked up again, for update:  *)
(* an instance made meanwhile is handed out; a missing row locks its gap,  *)
(* which others may lock too.                                              *)
LookAgain(s) ==
    /\ At(s, {"looked"}) /\ Free(s)
    /\ tx' = IF Sig(s).install \in Known THEN Answered(s, Success(Sig(s).install))
             ELSE [tx EXCEPT ![s].at = "queued"]
    /\ UNCHANGED <<now, serverVars, counts, client, since, reinstalls, faults>>

(* Variant for mutation: reinstalls are recognised by the host only. *)
RelatedByHost(s) ==
    {i \in Known : Sig(s).host # None /\ Sig(s).host = instances[i].host}

(* The instances whose signals the request carries, in its snapshot. *)
Related(s) == {i \in Known : Shares(Sig(s), SignalsOf(i))}

Earliest(S) == CHOOSE t \in {instances[i].start : i \in S} :
                   \A i \in S : t <= instances[i].start

(* Variant for mutation: nothing counts when nothing is inherited. *)
StartUnset(s) == IF Related(s) = {} THEN None ELSE Earliest(Related(s))

(* findInheritedStart: the earliest start counts, otherwise the present. *)
Start(s) == IF Related(s) = {} THEN now ELSE Earliest(Related(s))

Inherit(s) ==
    /\ At(s, {"queued"})
    /\ tx' = [tx EXCEPT ![s].at = "inherited", ![s].start = Start(s)]
    /\ UNCHANGED <<now, serverVars, counts, client, since, reinstalls, faults>>

(* The number of the license: an update of the sequence's row, or, when    *)
(* the year has none yet, of its gap, which others may lock too, ...       *)
Number(s) ==
    /\ At(s, {"inherited"}) /\ Free(s)
    /\ tx' = [tx EXCEPT ![s].at = IF sequence THEN "numbered" ELSE "numbering"]
    /\ UNCHANGED <<now, serverVars, counts, client, since, reinstalls, faults>>

(* ... and then the insert of that row. *)
InsertSequence(s) ==
    /\ At(s, {"numbering"}) /\ Free(s)
    /\ tx' = [tx EXCEPT ![s].at = "numbered"]
    /\ UNCHANGED <<now, serverVars, counts, client, since, reinstalls, faults>>

(* The insert of the instance waits for every other lock on its gap. *)
Insert(s) ==
    /\ At(s, {"numbered"}) /\ Free(s)
    /\ tx' = [tx EXCEPT ![s].at = "inserted"]
    /\ UNCHANGED <<now, serverVars, counts, client, since, reinstalls, faults>>

NewInstance(s) ==
    [start |-> tx[s].start, host |-> Sig(s).host, db |-> Sig(s).db, status |-> "active", cred |-> 1, endpoint |-> TRUE]

(* The credential is signed and inserted, and all is committed. *)
Commit(s) ==
    /\ At(s, {"inserted"})
    /\ instances' = [instances EXCEPT ![Sig(s).install] = NewInstance(s)]
    /\ sequence' = TRUE
    /\ since' = IF since = None THEN now ELSE since
    /\ tx' = Answered(s, [ok |-> TRUE, identity |->
                 [install |-> Sig(s).install, start |-> tx[s].start, cred |-> 1, endpoint |-> TRUE]])
    /\ UNCHANGED <<now, counts, client, reinstalls, faults>>

(* InnoDB rolls one of a circle back. *)
Victim(s) ==
    /\ \E S \in SUBSET Busy : s \in S /\ Circle(S) /\ \A T \in SUBSET S \ {S} : ~Circle(T)
    /\ tx' = Answered(s, Failure)
    /\ UNCHANGED <<now, serverVars, counts, client, since, reinstalls, faults>>

(* No active signing key, a lost connection, a restart. *)
Fail(s) ==
    /\ At(s, Places \ {"answering"})
    /\ faults < MaxFaults
    /\ faults' = faults + 1
    /\ tx' = Answered(s, Failure)
    /\ UNCHANGED <<now, serverVars, counts, client, since, reinstalls>>

-----------------------------------------------------------------------------
(* Afterwards *)

(* A heartbeat: only an active instance is let in, and its answer brings   *)
(* the credential when it is not the one the client named.                 *)
Heartbeat ==
    LET held == client.identity
        row  == instances[held.install]
    IN  /\ held # None
        /\ row.status = "active"
        /\ held.cred # row.cred
        /\ client' = [client EXCEPT !.identity.cred = row.cred, !.identity.endpoint = row.endpoint]
        /\ UNCHANGED <<now, serverVars, counts, tx, since, reinstalls, faults>>

(* An operator reissues the credential: it no longer names the address to  *)
(* report to, nor the instance.                                            *)
Reissue(i) ==
    /\ i \in Known
    /\ instances[i].cred <= MaxReissues
    /\ instances' = [instances EXCEPT ![i].cred = @ + 1, ![i].endpoint = FALSE]
    /\ UNCHANGED <<now, sequence, counts, tx, client, since, reinstalls, faults>>

(* The hourly task: an instance whose license is over. *)
Expire(i) == instances[i].status = "active" /\ instances[i].start + Days < now

RefreshInstanceStatus ==
    /\ \E i \in Known : Expire(i)
    /\ instances' = [i \in Installs |->
           IF i \in Known /\ Expire(i) THEN [instances[i] EXCEPT !.status = "expired"]
                                       ELSE instances[i]]
    /\ UNCHANGED <<now, sequence, counts, tx, client, since, reinstalls, faults>>

(* Variant for mutation: all windows share one count. *)
NewWindowSameCount ==
    /\ \A s \in Busy : tx[s].at # "counted"
    /\ \E i \in Installs : hits[i] > 0
    /\ passed' = [i \in Installs |-> 0] /\ waived' = [i \in Installs |-> 0]
    /\ UNCHANGED <<now, serverVars, hits, tx, client, since, reinstalls, faults>>

(* The next window of the rate limit; a request counted in the old one is  *)
(* judged by the old one.                                                  *)
NewWindow ==
    /\ \A s \in Busy : tx[s].at # "counted"
    /\ \E i \in Installs : hits[i] > 0
    /\ hits' = [i \in Installs |-> 0]
    /\ passed' = [i \in Installs |-> 0] /\ waived' = [i \in Installs |-> 0]
    /\ UNCHANGED <<now, serverVars, tx, client, since, reinstalls, faults>>

Tick ==
    /\ now < LastTime
    /\ now' = now + 1
    /\ UNCHANGED <<serverVars, counts, tx, client, since, reinstalls, faults>>

Serve(s) ==
    \/ Refuse(s) \/ Pass(s) \/ LookAgain(s) \/ Inherit(s) \/ Number(s) \/ InsertSequence(s)
    \/ Insert(s) \/ Commit(s) \/ Victim(s)

Next ==
    \/ \E s \in Sessions : \/ Send(s) \/ SendUncounted(s) \/ LoseCount(s) \/ Serve(s)
                           \/ Fail(s) \/ Receive(s) \/ GiveUp(s)
    \/ \E sig \in Signals : Reinstall(sig)
    \/ Heartbeat
    \/ \E i \in Installs : Reissue(i)
    \/ RefreshInstanceStatus \/ NewWindow \/ Tick

Spec == Init /\ [][Next]_vars

(* The server works at every request and resolves circles, answers that    *)
(* are not lost arrive, windows pass, and the host keeps asking.           *)
FairSpec ==
    /\ Spec
    /\ \A s \in Sessions : SF_vars(Serve(s)) /\ WF_vars(Receive(s))
    /\ WF_vars(\E s \in Sessions : Send(s))
    /\ WF_vars(NewWindow)

-----------------------------------------------------------------------------
(* Properties *)

Starts == [i \in Installs |-> IF i \in Known THEN instances[i].start ELSE None]
Told == IF client.identity = None THEN None
        ELSE [install |-> client.identity.install, start |-> client.identity.start]

Promise == INSTANCE TrialPromise WITH granted <- Starts, told <- Told

(* However requests are repeated, raced, rolled back and answered late,    *)
(* and however often the deployment is installed anew, registration keeps  *)
(* its promise (trial.service.ts:50-56, 131-137, 176-181).                 *)
KeepsPromise == Promise!PromiseSpec

(* In one window no more registrations of one fingerprint are let through  *)
(* than the limit and, beyond it, those whose counter could not be written *)
(* or read, however the requests overlap and although each raises the      *)
(* count before it reads it (rate-limit.service.ts:20-48).                 *)
LimitKept == \A i \in Installs : passed[i] <= Limit + waived[i]

(* A host that keeps asking is registered in the end, whatever is lost and *)
(* whoever waits for whom (client.ts:27-36, trial.service.ts:131-137).     *)
Registers == []<>(client.identity # None)

(* The client knows where to report, and as whom (trial.config.ts: the     *)
(* address is fixed in the credential, "换域名要靠重新签发").                *)
CanReport == client.identity # None => client.identity.endpoint
=============================================================================
