--------------------------- MODULE AdminAccounts ---------------------------
(***************************************************************************)
(* The accounts of the administration (packages/server/src/modules/auth)   *)
(* and the sessions of its users (packages/web: userStore, http, the route *)
(* guards, the login, password and account pages).                         *)
(*                                                                         *)
(* A call goes from a tab to a handler, which reads a row, awaits, writes  *)
(* what it made of the row, and answers; handlers overlap.  Tokens carry   *)
(* the account and its role, and nothing looks them up again.              *)
(*                                                                         *)
(* Left out: the audit record of every call, the last login, the strength  *)
(* of new passwords (the forms apply the same rule as the server), several *)
(* tabs that share one localStorage.  JWT_EXPIRES_IN has a unit.           *)
(***************************************************************************)
EXTENDS Integers, FiniteSets

CONSTANTS
    None,
    Accounts,      \* accounts that may exist
    Tabs,          \* browsers, each with one tab
    Passwords,
    Created,       \* roles that new accounts are given
    Sec,           \* time units of a second
    Ttl,           \* JWT_EXPIRES_IN
    MaxFailed,     \* maxFailedAttempts
    LockTime,      \* lockMinutes
    MaxDelay,      \* bound: how long a handler waits between reading and writing
    LastTime,      \* bound: the last time
    MaxCalls       \* bound: calls of all tabs

RoleLevel == [viewer |-> 1, sales |-> 2, ops |-> 3, owner |-> 4]

ASSUME AccountsAssumption ==
    /\ Accounts # {} /\ IsFiniteSet(Accounts) /\ None \notin Accounts
    /\ Created \subseteq DOMAIN RoleLevel
    /\ Sec \in Nat \ {0} /\ Ttl \in Nat /\ Ttl % Sec = 0
    /\ MaxFailed \in Nat \ {0} /\ LockTime \in Nat
    /\ MaxDelay \in Nat /\ LastTime \in Nat /\ MaxCalls \in Nat

VARIABLES
    users,     \* lc_admin_user: a row, or None
    tabs,      \* per tab: the session, and the call it waits for
    now,       \* the time
    calls,     \* how many calls were made
    disabled,  \* history: when an account was disabled last
    wrong,     \* history: wrong passwords in a row, and when the last of them was
    raced      \* history: rows, and the set of owners, that two handlers had in hand

vars == <<users, tabs, now, calls, disabled, wrong, raced>>

Optional(S) == S \cup {None}
Roles == DOMAIN RoleLevel

(* lockedUntil: 0 is NULL. *)
User == [role : Roles, active : BOOLEAN, failed : 0..MaxFailed - 1, lockedUntil : Nat,
         password : Passwords]

(* What a token says, and the user the console shows: a login answers with *)
(* an id, the profile with the entity, whose key has another name.         *)
Token == [sub : Accounts, role : Roles, exp : Nat]
Shown == [id : Optional(Accounts), role : Roles]

Ops == {"login", "profile", "password", "create", "status", "reset"}
OwnerOps == {"create", "status", "reset"}
Codes == {"ok", "refused", "token_invalid", "permission_denied"}

(* What calls carry, and a call that a handler has in hand. *)
Argument == Passwords \cup BOOLEAN \cup User \cup [old : Passwords, new : Passwords]
Held == [op : Ops, account : Accounts, arg : Optional(Argument), pc : {"read"}, since : Nat,
         row : Optional(User)]

(* None is no record. *)
ASSUME NoneAssumption == None \notin User \cup Token \cup Shown \cup Held

TypeOK ==
    /\ users \in [Accounts -> Optional(User)]
    /\ \A t \in Tabs :
         /\ tabs[t].token \in Optional(Token) /\ tabs[t].user \in Optional(Shown)
         /\ (tabs[t].token = None) <=> (tabs[t].user = None)
         /\ tabs[t].expiresAt \in Nat
         /\ tabs[t].call # None =>
              /\ tabs[t].call.op \in Ops
              /\ tabs[t].call.pc \in {"sent", "read", "answered"}
              /\ tabs[t].call.pc = "answered" => tabs[t].call.code \in Codes
    /\ now \in 0..LastTime /\ calls \in 0..MaxCalls
    /\ disabled \in [Accounts -> 0..LastTime]
    /\ wrong \in [Accounts -> [count : Nat, last : 0..LastTime]]
    /\ raced \subseteq Accounts \cup {"owners"}

NewUser(role, password) ==
    [role |-> role, active |-> TRUE, failed |-> 0, lockedUntil |-> 0, password |-> password]

SignedOut == [token |-> None, user |-> None, expiresAt |-> 0, call |-> None]

(* The owner that bootstrap made, and accounts that were created since. *)
Init ==
    /\ users \in [Accounts -> Optional({NewUser(r, p) : r \in Created, p \in Passwords})]
    /\ \E a \in Accounts : users[a] # None /\ users[a].role = "owner"
    /\ tabs = [t \in Tabs |-> SignedOut]
    /\ now = 0 /\ calls = 0
    /\ disabled = [a \in Accounts |-> 0]
    /\ wrong = [a \in Accounts |-> [count |-> 0, last |-> 0]]
    /\ raced = {}

Exists(a) == users[a] # None
ActiveOwners == {a \in Accounts : Exists(a) /\ users[a].role = "owner" /\ users[a].active}
Locked(u) == u.lockedUntil > now

-----------------------------------------------------------------------------
(* The console *)

HasRole(role, min) == RoleLevel[role] >= RoleLevel[min]

(* isTokenValid *)
SessionValid(t) == tabs[t].token # None /\ now < tabs[t].expiresAt

(* A call is sent with the token of the tab; the tab waits for the answer. *)
Call(t, op, account, arg) ==
    /\ tabs[t].call = None /\ calls < MaxCalls
    /\ calls' = calls + 1
    /\ tabs' = [tabs EXCEPT ![t].call =
                  [op |-> op, account |-> account, arg |-> arg, pc |-> "sent",
                   token |-> IF op = "login" THEN None ELSE tabs[t].token]]
    /\ UNCHANGED <<users, now, disabled, wrong, raced>>

(* The login page is shown only without a valid session. *)
Login(t) ==
    /\ ~SessionValid(t)
    /\ \E a \in Accounts, p \in Passwords : Call(t, "login", a, p)

(* Entering the console loads the profile. *)
Profile(t) == SessionValid(t) /\ Call(t, "profile", tabs[t].token.sub, None)

ChangePassword(t) ==
    /\ SessionValid(t)
    /\ \E old, new \in Passwords :
         old # new /\ Call(t, "password", tabs[t].token.sub, [old |-> old, new |-> new])

OnAccounts(t) == SessionValid(t) /\ HasRole(tabs[t].user.role, "owner")

CreateUser(t) ==
    /\ OnAccounts(t)
    /\ \E a \in Accounts, r \in Created, p \in Passwords :
         Call(t, "create", a, NewUser(r, p))

(* isSelf: the buttons of the row whose key is the user's id are off. *)
IsSelf(t, a) == a = tabs[t].user.id

(* The list may be old: a row may be toggled either way. *)
SetStatus(t) ==
    /\ OnAccounts(t)
    /\ \E a \in Accounts, active \in BOOLEAN :
         Exists(a) /\ ~IsSelf(t, a) /\ Call(t, "status", a, active)

ResetPassword(t) ==
    /\ OnAccounts(t)
    /\ \E a \in Accounts, p \in Passwords :
         Exists(a) /\ ~IsSelf(t, a) /\ Call(t, "reset", a, p)

(* There is no logout on the server. *)
Logout(t) ==
    /\ SessionValid(t) /\ tabs[t].call = None /\ calls < MaxCalls
    /\ tabs' = [tabs EXCEPT ![t] = SignedOut]
    /\ UNCHANGED <<users, now, calls, disabled, wrong, raced>>

-----------------------------------------------------------------------------
(* The server *)

Stage(t, pc) == tabs[t].call # None /\ tabs[t].call.pc = pc

(* JwtAuthGuard: exp is in whole seconds, and so is the time it is compared with. *)
TokenDead(c) == c.op # "login" /\ now >= c.token.exp

(* RolesGuard *)
Unprivileged(c) == c.op \in OwnerOps /\ ~HasRole(c.token.role, "owner")

(* Variant for mutation: whether the account is active is not looked at. *)
LoginRefusedWhenLocked(a) == Exists(a) => Locked(users[a])

LoginRefused(a) == Exists(a) => ~users[a].active \/ Locked(users[a])

PasswordRefused(a, old) == Exists(a) => users[a].password # old

(* Variant for mutation: disabled owners count, too. *)
CountedOwnersAny == {a \in Accounts : Exists(a) /\ users[a].role = "owner"}

CountedOwners == ActiveOwners

(* setStatus: not oneself, and not the last active owner. *)
StatusRefused(by, a, active) ==
    Exists(a) =>
        \/ a = by
        \/ users[a].role = "owner" /\ ~active /\ Cardinality(CountedOwners) <= 1

Refused(c) ==
    \/ c.op = "login"    /\ LoginRefused(c.account)
    \/ c.op = "profile"  /\ ~Exists(c.account)
    \/ c.op = "password" /\ PasswordRefused(c.account, c.arg.old)
    \/ c.op = "create"   /\ Exists(c.account)
    \/ c.op = "status"   /\ StatusRefused(c.token.sub, c.account, c.arg)
    \/ c.op = "reset"    /\ ~Exists(c.account)

(* The answer on its way: a code and, of a login or a profile, its data.   *)
(* Errors but one and the answers of the account page leave the session of *)
(* the tab alone.                                                          *)
Answered(t, code, data) ==
    LET op == tabs[t].call.op
        done == IF code = "ok" THEN op \in OwnerOps ELSE code # "token_invalid"
    IN  tabs' = [tabs EXCEPT ![t].call =
            IF done THEN None ELSE [op |-> op, pc |-> "answered", code |-> code, data |-> data]]

(* The guards or the checks of the handler reject the call. *)
Refuse(t) ==
    LET c == tabs[t].call
    IN  /\ Stage(t, "sent")
        /\ TokenDead(c) \/ Unprivileged(c) \/ Refused(c)
        /\ Answered(t, IF TokenDead(c) THEN "token_invalid"
                       ELSE IF Unprivileged(c) THEN "permission_denied" ELSE "refused", None)
        /\ UNCHANGED <<users, now, calls, disabled, wrong, raced>>

Disabling(c) == c.op = "status" /\ ~c.arg
InHand(P(_)) == {t \in Tabs : Stage(t, "read") /\ P(tabs[t].call)}

(* What two handlers have in hand once this one has read its row. *)
Races(c) ==
    {a \in {c.account} : InHand(LAMBDA d : d.account = a) # {}}
      \cup {x \in {"owners"} : Disabling(c) /\ InHand(Disabling) # {}}

(* A verdict on a password: one more in a row, unless a lock went by. *)
Try(a) ==
    [count |-> 1 + IF wrong[a].count >= MaxFailed /\ now >= wrong[a].last + LockTime
                     THEN 0 ELSE wrong[a].count,
     last |-> now]

(* The handler passes its checks and holds what it needs of the row. *)
Read(t) ==
    LET c == tabs[t].call
    IN  /\ Stage(t, "sent")
        /\ ~TokenDead(c) /\ ~Unprivileged(c) /\ ~Refused(c)
        /\ tabs' = [tabs EXCEPT ![t].call =
             [op |-> c.op, account |-> c.account, arg |-> c.arg, pc |-> "read", since |-> now,
              row |-> IF c.op \in {"login", "profile"} THEN users[c.account] ELSE None]]
        /\ wrong' = IF c.op = "login" THEN [wrong EXCEPT ![c.account] = Try(c.account)] ELSE wrong
        /\ raced' = raced \cup Races(c)
        /\ UNCHANGED <<users, now, calls, disabled>>

Reading(t, op) == Stage(t, "read") /\ tabs[t].call.op = op

(* jsonwebtoken: issued in the current second, for Ttl. *)
Signed(a, role) == [sub |-> a, role |-> role, exp |-> (now \div Sec) * Sec + Ttl]

Write(a, row) == users' = [users EXCEPT ![a] = row]

Forgiven(a) == wrong' = [wrong EXCEPT ![a] = [count |-> 0, last |-> 0]]

FinishLogin(t) ==
    LET c == tabs[t].call
    IN  /\ Reading(t, "login") /\ c.arg = c.row.password
        /\ Write(c.account, [users[c.account] EXCEPT !.failed = 0, !.lockedUntil = 0])
        /\ Forgiven(c.account)
        /\ Answered(t, "ok", [token |-> Signed(c.account, c.row.role),
                              user |-> [id |-> c.account, role |-> c.row.role]])
        /\ UNCHANGED <<now, calls, disabled, raced>>

(* Variant for mutation: one attempt too many. *)
AfterFailureLate(row, seen) ==
    LET attempts == seen.failed + 1
        lock == attempts > MaxFailed
    IN  [row EXCEPT !.failed = IF lock THEN 0 ELSE attempts % MaxFailed,
                    !.lockedUntil = IF lock THEN now + LockTime ELSE seen.lockedUntil]

(* onLoginFailed writes back what was read: one more, or a lock. *)
AfterFailure(row, seen) ==
    LET attempts == seen.failed + 1
        shouldLock == attempts >= MaxFailed
    IN  [row EXCEPT !.failed = IF shouldLock THEN 0 ELSE attempts,
                    !.lockedUntil = IF shouldLock THEN now + LockTime ELSE seen.lockedUntil]

FailLogin(t) ==
    LET c == tabs[t].call
    IN  /\ Reading(t, "login") /\ c.arg # c.row.password
        /\ Write(c.account, AfterFailure(users[c.account], c.row))
        /\ Answered(t, "refused", None)
        /\ UNCHANGED <<now, calls, disabled, wrong, raced>>

(* The entity: its key is _id, so that the console sees no id. *)
FinishProfile(t) ==
    /\ Reading(t, "profile")
    /\ Answered(t, "ok", [id |-> None, role |-> tabs[t].call.row.role])
    /\ UNCHANGED <<users, now, calls, disabled, wrong, raced>>

FinishPassword(t) ==
    LET c == tabs[t].call
    IN  /\ Reading(t, "password")
        /\ Write(c.account, [users[c.account] EXCEPT !.password = c.arg.new])
        /\ Answered(t, "ok", None)
        /\ UNCHANGED <<now, calls, disabled, wrong, raced>>

(* A username that was taken meanwhile breaks the unique index. *)
FinishCreate(t) ==
    LET c == tabs[t].call
    IN  /\ Reading(t, "create")
        /\ Write(c.account, IF Exists(c.account) THEN users[c.account] ELSE c.arg)
        /\ Answered(t, IF Exists(c.account) THEN "refused" ELSE "ok", None)
        /\ UNCHANGED <<now, calls, disabled, wrong, raced>>

(* setStatus *)
FinishStatus(t) ==
    LET c == tabs[t].call
    IN  /\ Reading(t, "status")
        /\ Write(c.account,
                 [users[c.account] EXCEPT !.active = c.arg, !.failed = 0, !.lockedUntil = 0])
        /\ disabled' = IF c.arg \/ ~users[c.account].active THEN disabled
                       ELSE [disabled EXCEPT ![c.account] = now]
        /\ Forgiven(c.account)
        /\ Answered(t, "ok", None)
        /\ UNCHANGED <<now, calls, raced>>

FinishReset(t) ==
    LET c == tabs[t].call
    IN  /\ Reading(t, "reset")
        /\ Write(c.account,
                 [users[c.account] EXCEPT !.password = c.arg, !.failed = 0, !.lockedUntil = 0])
        /\ Forgiven(c.account)
        /\ Answered(t, "ok", None)
        /\ UNCHANGED <<now, calls, disabled, raced>>

-----------------------------------------------------------------------------
(* The answer reaches the tab *)

(* Variant for mutation: the seconds of the answer are taken for milliseconds. *)
ExpiresAtUnscaled(expiresIn) == now + expiresIn

ExpiresAt(expiresIn) == now + expiresIn * Sec

(* parseDuration: seconds. *)
ExpiresIn == Ttl \div Sec

(* Variant for mutation: the token is dropped, the user stays. *)
AfterAnswerHalf(tab, call) ==
    CASE call.code = "token_invalid" -> [tab EXCEPT !.token = None, !.call = None]
      [] call.code = "ok" /\ call.op = "login" ->
           [token |-> call.data.token, user |-> call.data.user,
            expiresAt |-> ExpiresAt(ExpiresIn), call |-> None]
      [] OTHER -> [tab EXCEPT !.call = None]

(* setSession, setUser, clearSession: what becomes of the tab. *)
AfterAnswer(tab, call) ==
    CASE call.code = "token_invalid" -> SignedOut
      [] call.code = "ok" /\ call.op = "password" -> SignedOut
      [] call.code = "ok" /\ call.op = "login" ->
           [token |-> call.data.token, user |-> call.data.user,
            expiresAt |-> ExpiresAt(ExpiresIn), call |-> None]
      [] call.code = "ok" /\ call.op = "profile" -> [tab EXCEPT !.user = call.data, !.call = None]

Deliver(t) ==
    /\ Stage(t, "answered")
    /\ tabs' = [tabs EXCEPT ![t] = AfterAnswer(tabs[t], tabs[t].call)]
    /\ UNCHANGED <<users, now, calls, disabled, wrong, raced>>

(* No handler waits longer than MaxDelay between reading and writing. *)
Tick ==
    /\ now < LastTime
    /\ \A t \in Tabs : Stage(t, "read") => now < tabs[t].call.since + MaxDelay
    /\ now' = now + 1
    /\ UNCHANGED <<users, tabs, calls, disabled, wrong, raced>>

Next ==
    \/ \E t \in Tabs :
         \/ Login(t) \/ Profile(t) \/ ChangePassword(t) \/ CreateUser(t)
         \/ SetStatus(t) \/ ResetPassword(t) \/ Logout(t)
         \/ Refuse(t) \/ Read(t)
         \/ FinishLogin(t) \/ FailLogin(t) \/ FinishProfile(t) \/ FinishPassword(t)
         \/ FinishCreate(t) \/ FinishStatus(t) \/ FinishReset(t)
         \/ Deliver(t)
    \/ Tick

Spec == Init /\ [][Next]_vars

-----------------------------------------------------------------------------
(* Properties *)

(* "At least one owner who can log in must remain" (auth.service.ts:200),   *)
(* unless two of them disable one another at the same moment: both count    *)
(* two owners before either writes.                                         *)
OwnerRemains == "owners" \notin raced => ActiveOwners # {}

(* A disabled account fades: it holds no token that is still good a token's *)
(* life after it was disabled (jwt.strategy.ts), plus the time a login that *)
(* was under way may take.                                                  *)
DisabledFades ==
    \A t \in Tabs :
        LET token == tabs[t].token
        IN  token # None =>
              \/ users[token.sub].active
              \/ now >= token.exp
              \/ now < disabled[token.sub] + Ttl + MaxDelay

(* MaxFailed wrong passwords in a row lock the account: no further one gets *)
(* a verdict until LockTime has passed since, however the attempts, status  *)
(* changes and resets of other tabs come in between; unless two handlers    *)
(* had the row in hand at once, of which each writes back its own count.    *)
TriesLimited == \A a \in Accounts \ raced : wrong[a].count <= MaxFailed

(* The console never takes a token that the server accepts for an expired   *)
(* one (userStore: seconds of the answer, milliseconds of the clock).       *)
GoodTokenKept == \A t \in Tabs : tabs[t].token # None /\ now < tabs[t].token.exp => SessionValid(t)

(* "You cannot disable your own account": the buttons of one's own row are  *)
(* off (AdminUser.tsx), so that no call is made for it.                     *)
OwnRowOff ==
    \A t \in Tabs : Stage(t, "sent") /\ tabs[t].call.op \in {"status", "reset"}
                      => tabs[t].call.account # tabs[t].call.token.sub
=============================================================================
