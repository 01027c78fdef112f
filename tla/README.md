# infini-license: models, checks and proofs

infini-license issues licenses for privately deployed products and enforces them
there. A **server** (NestJS, MySQL) issues signed credentials; a **client SDK**
inside the customer's host process reads a credential from a file, or starts a
trial, and decides at each login whether logins are blocked. A formal license
works without any connection to the server, so all that enforces it is what the
SDK can see: a key file, a row in the host's database, a hidden mirror file of
that row, and a clock the customer controls. The two halves meet only in the
credential, in the public keys built into the client, and, for trials, in a
registration, a heartbeat and usage reports. A **web UI** (React) is where operators
issue, renew, reissue and void licenses and owners manage accounts.

Paths below are relative to `src/packages/`.

## 1. Inventory

| Component | State it keeps | Operations | What makes it correct | Module |
| --- | --- | --- | --- | --- |
| Clock rollback detector, `sdk/src/clock.ts` | a watermark: greatest time seen, rollbacks counted, date of the last, ticket to undo a jump | `checkClock` | rejects real rollbacks, and heals when a fault of the clock is put right | `Clock`, `ClockGuard` |
| Evaluation, `sdk/src/evaluate.ts` | none | `evaluateLicense` | order of the verdicts; the end of a trial is the earlier of two; enforcement | `Evaluate` |
| License manager, `sdk/src/io/manager.ts` (`store.ts`, `mirror.ts`, `keyfile.ts`) | cached record, `storeReadFailed`, shared refresh promise, state; on disk the row and the mirror | `init`, `getState`, `refresh`, `saveTrialIdentity`, `resetClockWatermark`, `getInstallId`, `getTrialIdentity` | identity, credentials and trial start survive failures; a good key file is not blocked | `LicenseManager` |
| Envelope, verification, fingerprint (`envelope.ts`, `verify.ts`, `fingerprint.ts`, `stable-json.ts`) | none | parse, verify, hash | a credential verifies or has a reason | results only, in `LicenseManager` |
| Limits and notices, `sdk/src/limits.ts`, `notice.ts` | none | pure functions | the host refuses and warns exactly as agreed | `Limits`, used by `LicenseConsole` |
| Trial client, `sdk/src/trial/` | none of its own | register, heartbeat, usage, signing | retries what may be retried, and nothing else | `TrialRegistration`, `SignedRequest`, `UsageIngest` |
| License dates, `license.service.ts` | none | `assertTerm`, `deriveStatus`, `toUnix` | a status agrees with the dates | `LicenseTerm` |
| Issuing, `license.service.ts`, `credential.service.ts`, `license.task.ts` | `lc_license`, `lc_credential` | issue, convert, renew, reissue, void, hourly refresh | one current credential; ends move with credentials; a hang only when the pool is used up | `LicenseIssuing` |
| Signing keys, `signing-key.service.ts` | `lc_signing_key` | create, import, activate, retire, list, export | only shipped keys sign | `SigningKeys` |
| Number sequence, `sequence.service.ts` | `lc_sequence` | `next` | numbers are unique; a deadlock of the first ones heals | `LicenseIssuing`, `TrialRegistration` |
| Trial registration, `client/trial.service.ts` | `lc_instance`, trial licenses | register, reuse, inherit, provision, heartbeat, expiry | a repeated or racing registration makes no second instance; the first start is inherited | `TrialRegistration` |
| Request authentication (`hmac-auth.guard.ts`, `nonce.service.ts`, `rate-limit.service.ts`) | `lc_replay_nonce`, `lc_rate_limit` | the guard, the claim and purge of nonces, counting | a request is accepted once, in its window; no more than the limit | `SignedRequest`, `TrialRegistration` |
| Usage, `client/usage.service.ts` | `lc_usage_batch`, `lc_usage_task`, `lc_user_ref`, `lc_usage_daily` | ingest, recompute | totals do not depend on the order and repetition of batches | `UsageIngest` |
| License pages, `web/src/pages/license/` | the page as loaded, the form, the request it waits for | issue, renew, reissue, void | the client enforces what was confirmed | `LicenseConsole` |
| Customers, `customer.service.ts` | name, status | update | a disabled customer gets no license | `LicenseConsole` |
| Accounts, `server/src/modules/auth/`, `web/src` (store, guards, login and account pages) | `lc_admin_user`, the session in the browser | login, profile, logout, passwords, create, enable, disable, reset | an owner remains; lockout counts; a disabled account fades | `AdminAccounts` |
| Audit, bootstrap | tables | append; first key and owner | - | bootstrap as `Init` |
| Cryptography (`crypto/`) | none | Ed25519, AES-GCM, scrypt | - | taken to be right |
| Deployment, schema, scripts | - | - | - | not modelled |

### How they interact, and where it is hard

* **Host process.** Every login calls `getState`, which answers from memory and
  starts a refresh when one is due; `saveTrialIdentity` and `resetClockWatermark`
  force one. All of them are `async`, share the fields of one `LicenseManager` and
  interleave at every `await`. A record is loaded once, carried through several
  awaits in a local variable, and written back whole.
* **Two copies on disk.** The row and the mirror are written one after the other,
  each may fail by itself, the process may stop in between, and on the next start
  they are merged field by field.
* **A clock that lies**, ahead or behind, while the process runs or is off.
* **Server transactions** (InnoDB, REPEATABLE READ): everything is checked on a
  snapshot, updates wait for row locks and act on later rows; a `FOR UPDATE` that finds
  nothing locks a gap that others may lock too. The signing key is read on a *second*
  connection of the pool while the transaction keeps its first.
* **Key rotation** is not transactional and several owners may be at it.
* **Host to server.** Requests are lost, delayed, copied and repeated; a request the client
  gave up may still be worked at. What the client may retry depends on whether the server
  answered with an HTTP error or with a business code in an HTTP 200.
* **Operator to server.** A page shows what was true when it was loaded; a form is sent
  again when its answer is lost; tokens carry account and role, and nothing looks them up.

`PROJECT.json` lists the hazards, each at its line, with the properties that watch
it, or the reason why none does.

## 2. Modules

| Module | What it is |
| --- | --- |
| `Clock` | `checkClock` as operators: how a reading stands to the watermark (`Outcome`), the watermark it leaves (`NextWatermark`), the verdict (`Rejected`) |
| `ClockGuard` | a deployment's clock under faults and repairs, checked now and then |
| `Evaluate` | `evaluateLicense` as operators, on top of `Clock` |
| `Limits` | what a host does with an evaluated license: quotas, features, notices; on top of `Evaluate` |
| `LicenseManager` | the manager: operations cut at their awaits, store, mirror, key file, crashes, the clock |
| `LicenseTerm` | dates and statuses of the server |
| `SigningKeys` | key rotation, statement by statement |
| `LicenseIssuing` | transactions on licenses and credentials; composes `LicenseTerm` and `SigningKeys` |
| `LicenseConsole` | from the operator's form to the verdict of the customer's client; composes `LicenseTerm` and `Limits` |
| `TrialPromise` | abstract: what registration promises a deployment |
| `TrialRegistration` | registration, client and server, its locks, limits and failures; implements `TrialPromise` |
| `SignedRequest` | signed requests on a network, the guard, the nonces |
| `UsageLedger` | abstract: a ledger in which every batch counts once |
| `UsageIngest` | usage batches on `SignedRequest`'s network and in their transactions; implements `UsageLedger` |
| `AdminAccounts` | accounts, handlers cut between reading and writing, the sessions of tabs |
| `MCManager`, `MCIssuing`, `MCUsage`, `MCConsole`, `MCAccounts` | instances and symmetry for TLC |
| `ClockLemmas`, `ClockProofs`, `LicenseManagerProofs`, `LicenseIssuingProofs`, `LicenseConsoleProofs`, `TrialRegistrationProofs`, `UsageIngestProofs`, `AdminAccountsProofs` | lemmas and theorems |

Operators marked "Variant for mutation" are wrong on purpose: `PROJECT.json` names, for
each property, the variant that breaks it. Some of them are the code as it was before a
fault its comments describe. No specification uses them.

### `LicenseManager` and the code

`persisted`, `readFailed`, `lastChecked`, `refreshing`, `state` are the fields of
the class; `db` and `mirror` what is on disk; `running` the process. An operation
`o \in Ops` is one call under way: `pc[o]` is the await it is at, `at[o]` the time it
read, `snap[o]` what its store read returned, `rec[o]` its local record, `file[o]`
the key file it read.

| Await | Action | Code, `manager.ts` |
| --- | --- | --- |
| call | `Boot`, `GetState`, `Call` | `init`, `getState`, the others |
| `reading` | `ReadStore`, `FailRead` | `safeReadStore` |
| `read` | `Load`; `SeeTornMirror`, then `LoadWithoutMirror` | `loadPersisted`, which awaits an event when the mirror was tampered with |
| `loaded` | `Inspect`; `ApplySave`, `ApplyReset`, `ReturnPeek` | what the call was for |
| `judging` | `Judge` | the rest of `doRefresh`, after its events and `dbSignal` |
| `writing` | `WriteStore`, `FailWrite` | `persist`, the store |
| `mirroring` | `WriteMirror` | `persist`, the mirror, and the end of the call |

Abstractions: events, logs and the two fields that de-duplicate them; the bodies of
credentials (`Cred` says whether a credential verifies and what its payload says);
the fingerprint, which is a hash of the install id alone (`fingerprint.ts:62-68`) and is
represented by it. The awaits for several
events in a row are one await. The mirror is one file (the fallback path is used
only when the first cannot be written). Several processes on one database are not
modelled. A mirror write is atomic unless `mirrorTorn` is among the faults.

### `LicenseIssuing`, `SigningKeys` and the code

A transaction of session `s` is cut at its first read (`Issue`, `Renew`, `Reissue`:
every check is made there, on what is committed then), its first lock (`Lock`: the
number sequence for a new license, the row for a renewal; `reissue` locks nothing),
the reading of the signing key (`ReadKey`, on a second connection) and `Commit`. Between
lock and commit its writes are invisible, so they are part of `Commit`. `RollBack`
stands for every failure: no active key, a deadlock, a lock wait that took too long, a
lost connection. `VoidLicense` and the two statements of the hourly refresh are
transactions of one statement; the refresh reads the time once, before both. Where an
update acts on a row that changed after the snapshot (`Written`), only the columns of the
update change, as in SQL.

What it relies on outside the repository: InnoDB's snapshot at the first read and row
locks until the end of the transaction; mysql2's pool, which waits without a limit when no
connection is free (10 connections by default; the model's `pool` is any number of `Pools`,
and nothing keeps the number of requests below it); that TypeORM reads the
signing key through the repository, not through the transaction's manager, as
`SigningKeyService` does.

`SigningKeys` cuts `activate`, `retire` and `importKey` between their statements;
`Abandon` is a request that dies in between. `getActiveKey` returns the key activated
last; the model lets it return any active one, which is more than the code does.
Owners follow the order the service prescribes (comments of `create` and of its options):
they activate, at once or on import, only a key that every client knows. `create` with
`activate: true` is refused to them for this reason (it is the mutant `CreateActive`).
`RollOut` is a client release with the keys of `listPublicKeys`, which adds to what
clients know and takes nothing away: customers are expected not to go back to a release
that lacks a key. The reads at the start of `retire` and `importKey` are one step.

`LicenseIssuing` keeps customers in good standing (`LicenseConsole` disables them) and lets
trials exist from the start with their first credential (`TrialRegistration` makes them);
limits, features and names are in `LicenseConsole`; the audit record, written after the
transaction, is left out.

### `TrialRegistration` and the code

A request of session `s` is `tx[s]`: where it is, its signals, whether the client still
listens, the start it found, its answer.

| At | Action | Code |
| --- | --- | --- |
| - | `Send`, `SendUncounted` | `register` of `sdk/src/trial/client.ts`; the controller counts first (`rate-limit.service.ts:20-36`), unless the counter cannot be written (`43-46`) |
| `counted` | `Refuse`, `Pass`, `LoseCount` | the count read after it was raised, if it can be read; a known fingerprint is handed out again (`trial.service.ts:50-67`) |
| `uncounted` | `Pass` | a request whose counter failed is let in (`rate-limit.service.ts:43-46`) |
| `looked` | `LookAgain` | the transaction looks again `FOR UPDATE` |
| `queued` | `Inherit` | `findInheritedStart` |
| `inherited`, `numbering` | `Number`, `InsertSequence` | `sequence.service.ts`: update, or insert of a missing row |
| `numbered` | `Insert` | the new instance, which waits for every other lock on its gap |
| `inserted` | `Commit` | license, credential, instance |
| any | `Victim`, `Fail` | InnoDB rolls back one of a circle; anything else that fails |
| `answering` | `Receive` | the answer arrives |
| - | `GiveUp` | a timeout, a lost answer, a client that dies |

`Reinstall` is a deployment that loses its identity, with other signals or the same;
`Heartbeat`, `Reissue`, `RefreshInstanceStatus` and `NewWindow` are what happens afterwards.
Locks are derived (`HoldsGap`, `HoldsSequence`, `Blockers`), not stored: which locks a
transaction holds follows from how far it is. `NewWindow` waits until no request is between
counting and judging, since a request is judged by the window it was counted in.

Abstractions: the fingerprint is represented by the install id, and the order of ids stands
for that of the hashes; statistics of an instance and quotas of trials decide nothing here. Trials are
switched on: the refusal when `trial.enabled` is off (`trial.service.ts:58-61`) is left out. The
limits by address and by fingerprint are the same code; one of them is modelled.
A reinstallation keeps a signal that links it to the deployment: one that changes install id,
host and database at the same time is a new deployment for the server, and is meant to be.

### `SignedRequest`, `UsageIngest` and the code

`network` holds the requests under way. The guard may find each of them fresh and its nonce
unclaimed (`Admit`), refuse it (`Refuse`), or, when the table of nonces fails, let it in
unguarded (`AdmitUnguarded`, `nonce.service.ts:32`). Letting it in does not take it from the
network: a copy may come again. `PurgeNonces` is the cleanup task.

In `UsageIngest` `Arrive`, `ArriveAgain` and `ArriveUnguarded` begin a transaction; it claims
the batch (`Claim`), writes each task and its user (`StoreTask`, `StoreUser`, one pair per
report, in the batch's order) and recomputes the dates (`Finish`, which commits). Rows it wrote
are locked and invisible to others until then; what waits for what is `Blockers`, and one of a
circle is rolled back (`Victim`). `outbox` is what the host has not seen confirmed: the contract
leaves retrying to the host, and the model's host retries for ever. Dates are those of the task
or the end of the batch's window (`StatDate`); amounts stand for the four token counts, which
are added alike.

### `LicenseConsole`, `Limits` and the code

A tab has the page it loaded, the confirmed form and whether it waits. `Confirm*` confirms,
`Send` sends the form (again), `GiveUp` is the timeout of `http.ts`. A request that arrives is
turned away by the checks (`Refuse`), or begins a transaction: `BeginIssue`, `BeginRenew` and
`BeginReissue` are the reads and checks of `license.service.ts` on one snapshot, and put what they
read into `work`; `Issue`, `Renew` and `Reissue` write and commit, any time later and in any order,
and `RollBack` is every failure in between. `Renew` writes the row as it is by then, and checks
nothing again; `Reissue` signs the row that was read. `Void` is one statement.
A request carries what the page sends (`IssuePayload`, `RenewPayload`), the row what the
service stores (`LimitsStored`, `FeaturesStored`), the credential what is signed (`Signed`,
`ToUnix`); the client is `Evaluate` and `Limits` on that credential. `agreed` is what was last
confirmed and carried out, `basis` the agreement that the transaction of the current credential
had read (or, for an issue and a renewal, confirmed), `contended` the licenses two renewals of which
were under way at once. No limit field takes less than one (`LimitField.tsx:35`). One plain limit and one quota with a
period stand for the two of each kind. A commit is one step here; `LicenseIssuing` takes the
transactions further apart, with their locks, keys and connections.

### `AdminAccounts` and the code

A call of tab `t` is `sent`, `read` by its handler, and `answered`: `Read` is the guards and
the first read of `auth.service.ts`, `Refuse` every early answer, `Finish*` (and `FailLogin`)
the write of what was made of the row read before, and `Deliver` what the browser does with
the answer (`userStore.ts`, `http.ts`). Handlers may be `MaxDelay` apart from their read, and
overlap. `SessionValid`, `OnAccounts` and `IsSelf` are the route guard and the buttons of the
account page. Left out: audit records, the last login, the rules for passwords.

## 3. Runs

| Run | Instance and bounds | What it shows |
| --- | --- | --- |
| `ClockGuard` | 3 faults, jumps of 1, 3, 7 and set-backs of 2, 5 against tolerance 1, hard limit 4, greatest advance 6, 9 units of time | the watermark stays consistent and comes down only to undo a jump; jumps ahead, put right in one go, never reject |
| `ManagerOneOp` | 1 operation, 2 install ids, a good and a broken key file, every fault of store and mirror, a crash at any await | identity, credentials, trial start survive; no block of a good key file |
| `ManagerConcurrent` | 2 operations, one `reset` or refresh each at a time, time passing | overlapping operations raise no clock alarm |
| `ManagerJump` | 1 operation, jumps of 2 and 4 and a set-back of 1, lost mirror, clean restarts, 6 units | the ticket survives store, mirror and cache |
| `ManagerServes` | 1 operation, failing reads, crashes, fair | a key file is judged; a made-up record is given up |
| `Issuing` | 2 requests, a pool of 2 or of 3 connections, a formal license and a trial, 4 credentials, seconds of 2 units, 3 times | one current credential, statuses never early, ends with credentials, a hang only when the pool is used up |
| `KeyRotation` | 2 owners, 3 keys (one of another instance), 1 request, 2 credentials | only shipped keys sign |
| `Trial` | 2 requests at a time, 2 install ids, with and without a host signal, 1 reinstallation, 1 fault (a failing counter is one), 1 reissue, limit 1, 2 times; fair | the promise is kept (refinement), the limit holds but for requests whose counter failed, a host that keeps asking is registered |
| `Usage` | 2 batches of 2 tasks of 2 users in opposite order over 2 dates, 3 nonces, 2 sessions, 1 fault, clock right or behind; fair | admitted once, counted once (refinement), totals agree, the outbox empties |
| `Console` | 1 operator, an issued license and one to issue, forms with one feature, all and none, 2 confirmed forms sent up to twice, 3 requests in flight or at work at once, 1 edit of the customer, days of 4 seconds of 2 units | the client enforces what a credential was made for; a renewal counts once unless renewals overlap; a reissue changes nothing unless a renewal overtakes it |
| `Accounts` | 2 accounts, 2 tabs, 2 passwords, 4 calls, token and lock of 2 units, handlers 1 unit late | an owner remains, disabled accounts fade, tries are limited, good tokens are kept |
| `UsageNoStatus` | one batch whose report has no status | the disagreement below |

**Why the bounds are enough to be of use.** Two operations are what each of the
interleaving hazards needs, and one with crashes at every await is what the persistence
hazards need. Jumps lie below, between and beyond every limit of the detector. `MaxCounted`
(rollbacks counted) is not below the count that rejects; beyond it no verdict changes.
`MaxOpTime` bounds how long an operation takes: with tolerances at least as
long, no alarm is raised, and the theorem below shows why it must be (a store that
answers later than the tolerance makes an old refresh look like a rollback). Install ids are
fresh when drawn, so as many are needed as records can hold at a time. Times are small
integers; `Sec = 2` makes the rounding to seconds visible. In `Trial` two requests of two
fingerprints are what both deadlocks (the gap of the fingerprint, the gap of the sequence) need,
one reinstallation leads from one to the other, and `Limit = 1` makes the third registration
of a window one too many. In `Usage` two batches in opposite order deadlock on rows, two
sessions work at two copies of one batch, and three nonces let a repetition
meet two requests that are still under way. In `Issuing` a pool of two connections is used up by
two requests, and one of three is not. In `Console` a form that is given up stays in flight, so that
the two tries of one form, and those of a second one, overlap at the server as the forms of two
operators would; two renewals that overlap, and a renewal that overtakes a reissue, are among its
behaviours; in `Accounts` four calls are enough to lock an account, or to disable one whose session is open, and
go on. `CHECK_DEADLOCK FALSE` is set where the instance really stops: when time, faults, calls
or credentials are used up. Symmetry is used in runs without liveness only.

**Fairness.** `LicenseManager`: every await of an operation ends
(`WF(Step)`): the host's promises settle. Of the reads of the store not all fail
(`SF(ReadStore)`), and logins keep coming (`SF(GetState)`): the host calls `getState` at
each login. Time is not fair and a process may stop; both liveness properties speak of a
process that stays up. `TrialRegistration` and `UsageIngest`: the server works at every request and resolves
circles; strong fairness of `Serve(s)` because InnoDB grants waiting locks in turn, so that one
session is not passed over for ever by another. Answers that are not lost arrive and the host
keeps asking (weak fairness of `Receive` and `Send`; its loop is outside the repository, the contract
asks for it), windows of the rate limit pass. Faults are bounded and not fair.
`LicenseConsole` and `AdminAccounts` promise nothing that must happen.

### Finding

`UsageNoStatus`: the status of a reported task is optional (`client.dto.ts:145-147`), but a date none
of whose tasks has one makes the sum of completed tasks NULL, which `lc_usage_daily` refuses
(`usage.service.ts:184-187`). The batch is answered with a 500, which the client takes for
worth retrying (`trial/client.ts:107`), and is rolled back whenever it comes.

### Also seen

One run is kept for each question. These disagreements were met on the way; each can be seen
by changing a configuration as told.

* Two overlapping operations of the manager. `persist` refuses a record made up for an unreadable store by a flag all
  operations share, and an overlapping load clears it (`manager.ts:516-528`): `IdentityKept`, `ManagerOneOp`
  with `Ops = {o1, o2}`. A refresh under way writes its older record over what
  `saveTrialIdentity` stored (`manager.ts:330`): `CredentialsKept`, likewise, without key files and faults.
  A failed load that ends after a successful one leaves `storeReadFailed` set for good
  (`manager.ts:486`, `510`): `AuthorityReturns`, `ManagerServes` with two operations. This is why these runs have one.
* A crash between the two writes of `persist` after a jump was undone brings the raised watermark back
  without its ticket (`manager.ts:530-545`, `499`): `ForwardFaultHeals`, `ManagerJump` with `Faults = {"jump", "crash"}`.
  This is why that run has no crash between the writes.
* Renewals that overlap at the server are all checked on their snapshots (`license.service.ts:210-243`): two copies
  of one renewal renew twice, a second renewal may set an earlier end (`RenewalsExtend`, as a property of
  `Issuing`), and one that waits behind a void takes it back. `RenewedOnce` leaves the licenses in `contended`
  out. Renewing a perpetual license shortens it, too.
* A reissue locks nothing (`license.service.ts:290-304`). When a renewal commits between its read and its commit, the
  credential with the old end becomes the current one. `EnforcesAgreement` and `ReissueKeepsTerms` say what
  holds then: a credential is what was agreed when its transaction read the license.
* A request needs a second connection while it holds its first (`credential.service.ts:60-61`). When the pool is used
  up by requests that all need one, none goes on: those that wait for a row lock until the lock wait times out
  (50 s by default), reissues, which wait for no lock, until the process or a connection ends.
  `HangsOnlyWhenExhausted` says that nothing else hangs.
* A counter that cannot be written or read lets its request in (`rate-limit.service.ts:43-46`), on purpose, as
  its comment says; `LimitKept` allows for as many more.
* A reissued trial credential names neither the address to report to nor the instance
  (`license.service.ts:297-303`), although `trial.config.ts` says that changing the domain takes a
  reissue: `CanReport`, as an invariant of `Trial`.
* A task reported again without times, in a window that ends on another date, leaves the totals of its
  own date stale: `DailyMatchesTasks`, `Usage` with `Content <- MCNoTimes`, `LastTime = 2`, `MaxFaults = 2`.
* A form on which every feature is switched off is stored as NULL, which means all features
  (`license.service.ts:152`); `EnforcesAgreement` says so, and `Console` has such a form.
* `warnDays` is said to start the client's popups (`IssueDrawer.tsx:297`); they start at a constant
  (`notice.ts:30`): `WarnsAsConfirmed`, `Console` with `IssueForms <- MCLongWarning`.
* A reissue takes the customer's present name, against `ReissueModal.tsx:64`; `ReissueKeepsTerms` leaves the name out.
* The buttons of one's own row are meant to be off (`AdminUser.tsx:147`), but after a profile was loaded the
  user has no `id` (the entity's key has another name): `OwnRowOff`, as an invariant of `Accounts`. The server
  refuses the call.
* Two owners who disable one another at the same moment leave none (`auth.service.ts:200`); failed logins
  that overlap count once (`auth.service.ts:71`). `OwnerRemains` and `TriesLimited` leave these moments out and hold at all others.
* With a client clock ahead of the server's, a copy may be let in once more after its nonce expired
  (`nonce.service.ts:20`); `AdmittedOnce` is about the other clocks, `CountsOnce` about all admissions of the run.
* An older batch that comes later turns a completed task back into a running one (`usage.service.ts:100-101`).
* Deadlock victims are answered with a 500 and retried by the client, where comments exclude deadlocks
  (`trial.service.ts:69-70`, `sequence.service.ts:34`); `Registers` shows that it heals.

## 4. Theorems

All are checked by TLAPS for every value of the constants that satisfies the named
assumptions of the modules, so for any number of operations, requests, owners, keys,
licenses, installations, batches, accounts, forms and any dates. The assumptions type the
constants, say that `None` is none of the values it stands in for and that what is summed or
counted is finite (tasks, users, accounts, sessions), and take over what the code's constants have in
common: a nonce lives at least as long as its timestamp is fresh (`nonce.service.ts:6`,
`hmac.service.ts:5`, both 300 s). Where a theorem needs more, it says so in a hypothesis with a name.

* `ClockProofs`. `TypeCorrect`, `TicketStaysBelow`, `CountsCanDecay`,
  `WatermarkLoweredOnlyByUndo`: inductive with the types. `ForwardFaultsHeal` needs to know what
  a clean history leaves (`Healing`): a watermark above the true time has a ticket, the ticket's
  base is not above the true time, and only the first reading of a clock just put right can
  fall below the watermark by more than the tolerance; then every check is an advance, a clamp
  or an undo.
* `LicenseManagerProofs`. `TypeCorrect`, with that records are where the program counter says
  they are. `ForwardClockNeverBlocks` (`EntitledNotBlocked`), assuming `ClockNeverMoved`: the
  clock is not moved and tolerances are at least `MaxOpTime`. The invariant is that no copy of
  the watermark - row, mirror, cache, snapshot or local record - is ahead of the clock, and
  that no operation read the clock more than `MaxOpTime` ago; then every check is a forward one.
  It is needed for all copies at once, because any of them may become any other.
  Four theorems assume `OneAtATime`, which is what `ManagerOneOp` checks (overlapping operations do
  overwrite one another, see "Also seen"): `RecordsBoundToSelf`, `IdentitySurvives`,
  `CredentialsSurvive`, `TrialStartSurvives`, under every fault. Their invariant `OneStory` says how
  the copies are related: row and mirror are bound to the fingerprint of their own identity; what is
  cached, or loaded by the operation under way, continues what the row says (`Continues`: same
  identity and binding, at least its credentials, its trial start); and a mirror that can be read
  never knows of a start that the operation does not (`CoversMirror`). None of it is inductive without the others,
  as each write takes its record from a cache or a snapshot, minus what a lost or torn copy took away.
  `JumpsHeal` (`ForwardFaultHeals`) assumes `Orderly` and `Careful`. `Orderly`: one operation at a
  time, no faults but jumps, clocks set back, lost mirrors and crashes, and jumps above the tolerance (one within it
  leaves no ticket). A failed read or write and a lost database are excluded: each can leave the raised watermark
  without its ticket. `Careful` excludes steps, not faults, and each of its parts is needed as well (TLC finds the
  property violated without it): the process does not stop between the row and the mirror, which would part
  them; the watermark is not reset by a clock that is ahead, which takes the ticket; and, where there are crashes,
  the clock jumps only once a check is recorded and only to above what is recorded, since a check that a crash cut
  off leaves the next one to judge the jump. Crashes at all other awaits, and resets by a clock that is right or
  behind, are covered. `ManagerJump`, which has neither crashes nor resets, satisfies both. The
  invariant `HealInv` follows `Healing` of `ClockProofs` through row, mirror, cache and local records.
* `LicenseIssuingProofs`. `TypeCorrect` with `Sound`: a signing transaction has its key, the rows
  it updates exist. `SignaturesTrusted`, from `SigningSound`: active keys, keys about to be
  promoted or inserted as active, and keys read by transactions are all shipped.
  `HangNeedsExhaustion` (`HangsOnlyWhenExhausted`), for any number of requests and connections, as long as the
  requests are finitely many: who holds a row lock never waits for another (`reissue` locks nothing, the others
  one row each), so somebody waits for nothing but a connection, and then there is none: the requests have them
  all (`Lent`). `StatusNeverEarly`, from `CopiesSound`: the rows that
  transactions carry and the time the refresh read are of the past, and time only grows.
  `AlwaysOneCurrent`, `EndMovesOnlyWithCredential`: action by action on top of it.
* `TrialRegistrationProofs`. `RegistrationKeepsPromise`: `TrialRegistration` implements
  `TrialPromise`. A commit is a grant, an answer taken is a telling, a reinstallation a
  forgetting, and every other step a stutter. That a commit grants an installation that has
  nothing, with a start no later than the deployment's first moment, needs the invariant `Sound`, in
  four parts besides the types. `Guarded`: a transaction that locked its gap has no instance yet, and
  no other holds the gap of an instance that is inserted; this is where the locks matter.
  `OneDeployment`: every request shares a signal with one of the instances, so that a start is found
  wherever there is one. `Timely`: every start found is no later than the first moment. `Truthful`: what
  is answered, and what the client holds, is what a row says, however long the answer took.
  `TypeCorrect` is one of its parts. `WindowKeepsLimit` (`LimitKept`) counts: those let through, and
  those counted and not yet judged, are together no more than the count, and who is let through is
  judged by a count that contains all of them; those whose counter failed are counted apart (`waived`), and
  the limit is exceeded by no more. It assumes that there are finitely many sessions.
* `UsageIngestProofs`. `BatchesCountOnce` (`CountsOnce`): `UsageIngest` implements `UsageLedger`; a
  commit counts its batch, the answer taken by the host confirms it, every other step is a stutter.
  It needs that rows and claims have one holder (`Locked`), that a transaction stores each report of its batch
  once (`Placed`, `Added`), and that only what was counted is answered (`Confirmed`).
  `RequestsAdmittedOnce` (`AdmittedOnce`) needs `Remembered`: a nonce names one message, and is kept for as
  long as the message's stamp is fresh. `TotalsMatch` (`DailyMatchesTasks`) assumes `Steady`: a task is always
  reported for one user and one date. `MCContent` is steady; `MCNoTimes` is not, and the property fails
  there (see "Also seen"). Its invariant `Summed` says that the sums of dates and users are those over the
  reports seen so far. The sums are `SumFunction` of the community modules, whose order is a `CHOOSE`: the first section
  proves that the order does not matter and that a sum splits at any element, by
  well-founded induction on subsets, stated with sets instead of predicates.
* `AdminAccountsProofs`. `Types`, `SomeOwnerRemains` (`OwnerRemains`), `DisabledAccountsFade`,
  `TriesAreLimited`, `GoodTokensKept`, from `Sound`: a handler that is about to disable an owner
  leaves another, and nobody else is about to (`OwnersGuarded`); the tokens of a disabled account expire a token's
  life and the time of a login under way after it was disabled (`TokensFade`); the failures in the row
  are those that happened, unless two handlers had the row at once (`TriesCounted`);
  `Timely` bounds how long a handler holds what it read. `GoodTokensKept` is where seconds and milliseconds meet.
* `LicenseConsoleProofs`. `RenewalsOnce` (`RenewedOnce`): what carries the number of a confirmation carries
  its contents (`Numbered`); on a license whose renewals never overlapped no end comes back, a renewal that was
  carried out has reached its end, and the one under way still wants a later one (`Carried`); since the server
  wants a later end, no copy is accepted again. `ReissuesKeepTerms`: a credential is a row that says what was agreed
  when its transaction read it, signed under a name the customer has had (`InSync`), so that two of one
  agreement differ in the name only. `RemindsInTime` is about days that are rounded
  up. `AgreementsEnforced` (`EnforcesAgreement`): rows, and what transactions read
  of them, say what was agreed then (`RowAsAgreed`), also when they commit behind others; form, request, row, payload and verdict are followed through their
  units. It assumes `NoonIsClear`: a second and the tolerance (301 s together) are less than half a day, as the property
  asks about noons. `Console` satisfies it.

Every invariant and action property of the runs is stated by a theorem. Only model-checked:
`KeyFileServed`, `AuthorityReturns`, `Registers`, `AllConfirmed`, since liveness under fairness
is out of the prover's reach, and the finding of `UsageNoStatus`, which is a liveness property too.
There is no recursive operator in the project.

## 5. Plan

1. Left to prove: `ForwardFaultHeals` of the manager with several operations at a time, or the smallest
   instance that refutes it; what remains of `OwnerRemains` and `TriesLimited` at the moments they leave out.
2. `RenewedOnce` at the moments it leaves out: how far the renewals of one license that overlap can take its
   end back.

### Not modelled

* Cryptography, envelopes and the layout of files: no states to explore; signatures are taken
  to verify exactly under their key. Envelope and fingerprint appear by their results.
* Lists, detail pages, downloads, statistics and the audit log: they read, or append what
  nothing else reads.
* Deployment, schema and scripts, apart from what the schema says of the columns modelled
  (unique indexes, NOT NULL). Load tests and smoke tests are clients of the code, not part of it.
* The SDK's events, message keys and texts; names and limits copied for display.
* Several processes of a host on one database, several servers on one database
  (transactions are modelled as if on several connections, which is the same to InnoDB),
  several tabs that share one `localStorage`.
