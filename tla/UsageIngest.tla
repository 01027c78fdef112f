---------------------------- MODULE UsageIngest ----------------------------
(***************************************************************************)
(* The usage of one instance: its host keeps batches in an outbox and      *)
(* sends them until they are confirmed; the server (packages/server/src/   *)
(* modules/client/usage.service.ts) counts each in one transaction of      *)
(* InnoDB's REPEATABLE READ, several requests at the same time.            *)
(*                                                                         *)
(* The kinds of tokens, the calls and the failed tasks are summed alike    *)
(* and stand as one amount and one status.  Nothing reads the batch's own  *)
(* totals, the source, the parent task or the durations: they are left     *)
(* out, and so are the gap locks of an upsert, which only make others wait *)
(* longer.                                                                 *)
(***************************************************************************)
EXTENDS SignedRequest, Sequences, Functions

CONSTANTS
    Sessions,     \* requests that may be worked at at the same time
    Batches,      \* numbered
    Tasks,
    Users,
    Content,      \* per batch: the reports in it
    WindowEnd,    \* per batch: the date its window ends
    DayLength,    \* of a date, in units of the clock
    MaxFaults     \* bound: requests that die, answers lost, copies, failed inserts

Dates == 0 .. LastTime \div DayLength
Statuses == {"running", "completed"}

Report == [task : Tasks, user : Users, started : Dates \cup {None},
           finished : Dates \cup {None}, status : Statuses \cup {None}, amount : Nat]

ASSUME UsageAssumption ==
    /\ IsFiniteSet(Tasks) /\ IsFiniteSet(Users)
    /\ Batches \subseteq Nat
    /\ Content \in [Batches -> Seq(Report)]
    /\ WindowEnd \in [Batches -> Dates]
    /\ DayLength \in Nat \ {0} /\ MaxFaults \in Nat

VARIABLES
    tasks,     \* lc_usage_task, committed: a row, or None
    users,     \* lc_user_ref
    daily,     \* lc_usage_daily
    counted,   \* lc_usage_batch
    tx,        \* per session: the request it works at, or None
    outbox,    \* the client's batches that are not confirmed
    awaited,   \* the request whose answer the client waits for, or None
    faults     \* count for the bound

tables == <<tasks, users, daily, counted>>
clientVars == <<outbox, awaited>>
vars == <<requestVars, tables, tx, clientVars, faults>>

TaskRow == [user : Users, date : Dates, status : Statuses \cup {None}, amount : Nat]
UserRow == [seen : Dates, amount : Nat]
DailyRow == [tasks : Nat, completed : Nat, users : Nat, new : Nat, amount : Nat]

(* None is no row. *)
ASSUME NoneAssumption == None \notin TaskRow \cup UserRow \cup DailyRow

(* A request being worked at: the place it has come to, the reports it has *)
(* stored, and the rows it has written, which it holds locked.             *)
Transaction ==
    [nonce : Nonces, batch : Batches, at : {"claim", "task", "user", "daily", "answering"},
     done : Nat, tasks : [Tasks -> TaskRow \cup {None}],
     users : [Users -> UserRow \cup {None}], ok : BOOLEAN]

TypeOK ==
    /\ RequestTypeOK(Batches)
    /\ tasks \in [Tasks -> TaskRow \cup {None}]
    /\ users \in [Users -> UserRow \cup {None}]
    /\ daily \in [Dates -> DailyRow \cup {None}]
    /\ counted \subseteq Batches
    /\ tx \in [Sessions -> Transaction \cup {None}]
    /\ outbox \subseteq Batches
    /\ awaited \in Nonces \cup {None}
    /\ faults \in 0 .. MaxFaults

NoTasks == [t \in Tasks |-> None]
NoUsers == [u \in Users |-> None]

Init ==
    /\ RequestInit
    /\ tasks = NoTasks /\ users = NoUsers
    /\ daily = [d \in Dates |-> None]
    /\ counted = {}
    /\ tx = [s \in Sessions |-> None]
    /\ outbox = Batches /\ awaited = None
    /\ faults = 0

Busy == {s \in Sessions : tx[s] # None}
At(s, place) == s \in Busy /\ tx[s].at = place
Present(s) == Content[tx[s].batch][tx[s].done + 1]

Fault == faults < MaxFaults /\ faults' = faults + 1

-----------------------------------------------------------------------------
(* The client: the outbox of the host, over TrialClient.usage *)

(* Nobody waits for or works at a request of this nonce. *)
Over(n) == n # awaited /\ n \notin {tx[s].nonce : s \in Busy}

Send(b) ==
    /\ awaited = None
    /\ b \in outbox
    /\ \E n \in Nonces :
           /\ Over(n) /\ Sign(n, b)
           /\ \A m \in Nonces : m < n => ~Over(m) \/ m \in Travelling
           /\ awaited' = n
    /\ UNCHANGED <<tables, tx, outbox, faults>>

(* A confirmed batch leaves the outbox, another is sent again. *)
Receive(s) ==
    /\ At(s, "answering")
    /\ outbox' = IF tx[s].ok THEN outbox \ {tx[s].batch} ELSE outbox
    /\ awaited' = None
    /\ tx' = [tx EXCEPT ![s] = None]
    /\ UNCHANGED <<requestVars, tables, faults>>

(* The answer is late or lost, or the host restarts. *)
GiveUp ==
    /\ awaited # None
    /\ Fault
    /\ awaited' = None
    /\ tx' = [s \in Sessions |-> IF At(s, "answering") THEN None ELSE tx[s]]
    /\ UNCHANGED <<requestVars, tables, outbox>>

-----------------------------------------------------------------------------
(* Arrival *)

Begun(r) == [nonce |-> r.nonce, batch |-> r.body, at |-> "claim", done |-> 0,
             tasks |-> NoTasks, users |-> NoUsers, ok |-> FALSE]

Arrive(s, r) ==
    /\ tx[s] = None
    /\ r \in network
    /\ network' = network \ {r}
    /\ \/ Admit(r) /\ tx' = [tx EXCEPT ![s] = Begun(r)] /\ UNCHANGED awaited
       \/ Refuse(r) /\ awaited' = (IF awaited = r.nonce THEN None ELSE awaited) /\ UNCHANGED tx
    /\ UNCHANGED <<tables, outbox, faults>>

(* The network keeps a copy. *)
ArriveAgain(s, r) ==
    /\ tx[s] = None
    /\ r \in network
    /\ Fault
    /\ Admit(r) /\ UNCHANGED network
    /\ tx' = [tx EXCEPT ![s] = Begun(r)]
    /\ UNCHANGED <<tables, clientVars>>

ArriveUnguarded(s, r) ==
    /\ tx[s] = None
    /\ r \in network
    /\ Fault
    /\ network' = network \ {r}
    /\ AdmitUnguarded(r)
    /\ tx' = [tx EXCEPT ![s] = Begun(r)]
    /\ UNCHANGED <<tables, clientVars>>

-----------------------------------------------------------------------------
(* ingest *)

(* For whom a session waits: for the other insert of its batch, for the    *)
(* rows another wrote, and, since the sums lock all rows of the instance   *)
(* they read, for everyone who wrote any.                                  *)
Blockers(s) ==
    {r \in Busy \ {s} :
        \/ /\ At(s, "claim") /\ tx[r].batch = tx[s].batch
           /\ ~At(r, "claim") /\ ~At(r, "answering")
        \/ At(s, "task") /\ tx[r].tasks[Present(s).task] # None
        \/ At(s, "user") /\ tx[r].users[Present(s).user] # None
        \/ At(s, "daily") /\ (tx[r].tasks # NoTasks \/ tx[r].users # NoUsers)}

Circle(S) == S # {} /\ \A s \in S : Blockers(s) \cap S # {}

(* The answer to a request the client gave up is dropped. *)
Answered(s, ok) ==
    [tx EXCEPT ![s] = IF awaited = tx[s].nonce
                        THEN [@ EXCEPT !.at = "answering", !.done = 0, !.tasks = NoTasks,
                                       !.users = NoUsers, !.ok = ok]
                        ELSE None]

AfterReport(s) == IF tx[s].done + 1 < Len(Content[tx[s].batch]) THEN "task" ELSE "daily"

(* claimBatch: INSERT IGNORE finds the batch. *)
Claimed(s) == tx[s].batch \in counted

(* Variant for mutation: a repeated batch is answered with an error. *)
ClaimRefusing(s) ==
    /\ At(s, "claim") /\ Blockers(s) = {}
    /\ tx' = IF Claimed(s) THEN Answered(s, FALSE)
             ELSE [tx EXCEPT ![s].at = IF Content[tx[s].batch] = <<>> THEN "daily" ELSE "task"]
    /\ UNCHANGED <<requestVars, tables, clientVars, faults>>

Claim(s) ==
    /\ At(s, "claim") /\ Blockers(s) = {}
    /\ tx' = IF Claimed(s) THEN Answered(s, TRUE)
             ELSE [tx EXCEPT ![s].at = IF Content[tx[s].batch] = <<>> THEN "daily" ELSE "task"]
    /\ UNCHANGED <<requestVars, tables, clientVars, faults>>

(* Variant for mutation: only the start dates a report. *)
StatDateStarted(b, rep) == rep.started

(* resolveStatDate *)
StatDate(b, rep) ==
    CASE rep.started # None                          -> rep.started
      [] rep.started = None /\ rep.finished # None   -> rep.finished
      [] OTHER                                       -> WindowEnd[b]

Mine(s, t) == IF tx[s].tasks[t] # None THEN tx[s].tasks[t] ELSE tasks[t]
MyUser(s, u) == IF tx[s].users[u] # None THEN tx[s].users[u] ELSE users[u]

(* Variant for mutation: amounts are replaced, too. *)
UpsertedReplacing(row, b, rep) ==
    [user |-> rep.user, date |-> StatDate(b, rep), status |-> rep.status, amount |-> rep.amount]

(* upsertTask: amounts are added, the status is replaced, the date and the *)
(* user stay those of the first report.                                    *)
Upserted(row, b, rep) ==
    IF row = None
      THEN [user |-> rep.user, date |-> StatDate(b, rep), status |-> rep.status,
            amount |-> rep.amount]
      ELSE [row EXCEPT !.status = rep.status, !.amount = @ + rep.amount]

StoreTask(s) ==
    /\ At(s, "task") /\ Blockers(s) = {}
    /\ LET rep == Present(s)
       IN  tx' = [tx EXCEPT ![s].at = "user",
                            ![s].tasks[rep.task] = Upserted(Mine(s, rep.task), tx[s].batch, rep)]
    /\ UNCHANGED <<requestVars, tables, clientVars, faults>>

(* upsertUserRef *)
StoreUser(s) ==
    /\ At(s, "user") /\ Blockers(s) = {}
    /\ LET rep == Present(s)
           row == MyUser(s, rep.user)
       IN  tx' = [tx EXCEPT ![s].at = AfterReport(s), ![s].done = @ + 1,
                            ![s].users[rep.user] =
                                IF row = None
                                  THEN [seen |-> now \div DayLength, amount |-> rep.amount]
                                  ELSE [row EXCEPT !.amount = @ + rep.amount]]
    /\ UNCHANGED <<requestVars, tables, clientVars, faults>>

(* The rows as the transaction will leave them. *)
TasksAfter(s) == [t \in Tasks |-> Mine(s, t)]
UsersAfter(s) == [u \in Users |-> MyUser(s, u)]

(* Variant for mutation: only the date at the end of the window is summed. *)
AffectedWindow(s) == {WindowEnd[tx[s].batch]}

AffectedDates(s) == {StatDate(tx[s].batch, rep) : rep \in Range(Content[tx[s].batch])}

OfDate(rows, d) == {t \in Tasks : rows[t] # None /\ rows[t].date = d}

Sums(rows, refs, d) ==
    LET S == OfDate(rows, d)
    IN  [tasks |-> Cardinality(S),
         completed |-> Cardinality({t \in S : rows[t].status = "completed"}),
         users |-> Cardinality({rows[t].user : t \in S}),
         new |-> Cardinality({u \in Users : refs[u] # None /\ refs[u].seen = d}),
         amount |-> SumFunction([t \in S |-> rows[t].amount])]

(* A sum over nothing is NULL, which the column refuses. *)
SumsNull(rows, d) == \A t \in OfDate(rows, d) : rows[t].status = None

(* recomputeDaily for every date of the batch, the instance, the commit;   *)
(* or the rollback.                                                        *)
Finish(s) ==
    /\ At(s, "daily") /\ Blockers(s) = {}
    /\ IF \E d \in AffectedDates(s) : SumsNull(TasksAfter(s), d)
         THEN UNCHANGED tables /\ tx' = Answered(s, FALSE)
         ELSE /\ tasks' = TasksAfter(s)
              /\ users' = UsersAfter(s)
              /\ daily' = [d \in Dates |->
                     IF d \in AffectedDates(s) THEN Sums(TasksAfter(s), UsersAfter(s), d)
                                               ELSE daily[d]]
              /\ counted' = counted \cup {tx[s].batch}
              /\ tx' = Answered(s, TRUE)
    /\ UNCHANGED <<requestVars, clientVars, faults>>

(* InnoDB rolls one of a circle back. *)
Victim(s) ==
    /\ \E S \in SUBSET Busy : s \in S /\ Circle(S) /\ \A T \in SUBSET S \ {S} : ~Circle(T)
    /\ tx' = Answered(s, FALSE)
    /\ UNCHANGED <<requestVars, tables, clientVars, faults>>

(* A lost connection or a restart. *)
Fail(s) ==
    /\ s \in Busy /\ ~At(s, "answering")
    /\ Fault
    /\ tx' = Answered(s, FALSE)
    /\ UNCHANGED <<requestVars, tables, clientVars>>

-----------------------------------------------------------------------------

Serve(s) == Claim(s) \/ StoreTask(s) \/ StoreUser(s) \/ Finish(s) \/ Victim(s)

Purge == PurgeNonces /\ UNCHANGED <<tables, tx, clientVars, faults>>
Tick == RequestTick /\ UNCHANGED <<tables, tx, clientVars, faults>>

Next ==
    \/ \E b \in Batches : Send(b)
    \/ \E s \in Sessions :
           \/ Serve(s) \/ Fail(s) \/ Receive(s)
           \/ \E r \in network : Arrive(s, r) \/ ArriveAgain(s, r) \/ ArriveUnguarded(s, r)
    \/ GiveUp \/ Purge \/ Tick

Spec == Init /\ [][Next]_vars

(* The server works at what arrives, and wakes who waits in turn; requests *)
(* and answers arrive unless they are lost; the host keeps sending.        *)
FairSpec ==
    /\ Spec
    /\ \A s \in Sessions : SF_vars(Serve(s)) /\ WF_vars(Receive(s))
    /\ WF_vars(\E s \in Sessions, r \in network : Arrive(s, r))
    /\ WF_vars(\E b \in Batches : Send(b))

-----------------------------------------------------------------------------
(* Properties *)

(* Of the reports of a batch, those of a task. *)
Amount(b, t) ==
    SumFunction([i \in DOMAIN Content[b] |->
                     IF Content[b][i].task = t THEN Content[b][i].amount ELSE 0])

Totals == [t \in Tasks |-> IF tasks[t] = None THEN 0 ELSE tasks[t].amount]

Ledger == INSTANCE UsageLedger WITH totals <- Totals, confirmed <- Batches \ outbox

(* However often a batch is sent, arrives, races its own copy, is rolled   *)
(* back or answered late, it counts once and whole, and is confirmed only  *)
(* afterwards (usage.service.ts:24-30, 82-84).                             *)
CountsOnce == Ledger!LedgerSpec

OfUser(rows, u) == {t \in Tasks : rows[t] # None /\ rows[t].user = u}

(* The totals of a date are those of its tasks, and the totals of a user   *)
(* those of the user's tasks, however batches are repeated, reordered or   *)
(* span dates, as long as a task is always reported with the same date     *)
(* (usage.service.ts:49-50).                                               *)
DailyMatchesTasks ==
    /\ \A d \in Dates : OfDate(tasks, d) # {} =>
           /\ daily[d] # None
           /\ daily[d].amount = SumFunction([t \in OfDate(tasks, d) |-> tasks[t].amount])
           /\ daily[d].completed =
                  Cardinality({t \in OfDate(tasks, d) : tasks[t].status = "completed"})
    /\ \A u \in Users : users[u] # None =>
           users[u].amount = SumFunction([t \in OfUser(tasks, u) |-> tasks[t].amount])

(* A host that keeps sending gets rid of every batch, whatever is lost and *)
(* whoever waits for whom (trial/client.ts:113, usage.service.ts:24-30).   *)
AllConfirmed == <>(outbox = {})
=============================================================================
