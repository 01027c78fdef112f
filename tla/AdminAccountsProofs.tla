------------------------ MODULE AdminAccountsProofs ------------------------
(***************************************************************************)
(* Proofs about the accounts of the administration: for any number of      *)
(* accounts, tabs and overlapping handlers, any lifetimes and any delay.   *)
(***************************************************************************)
EXTENDS AdminAccounts, FiniteSetTheorems, TLAPS

-----------------------------------------------------------------------------
(* The inductive invariant *)

Session == [token : Token, user : Shown]

(* A call on its way to its handler, and one that is answered. *)
Sent == [op : Ops, account : Accounts, arg : Optional(Argument), pc : {"sent"},
         token : Optional(Token)]
Given == [op : Ops, pc : {"answered"}, code : Codes, data : Optional(Session \cup Shown)]

Tab == [token : Optional(Token), user : Optional(Shown), expiresAt : Nat,
        call : Optional(Sent \cup Held \cup Given)]

ArgFits(c) ==
    /\ c.op \in {"login", "reset"} => c.arg \in Passwords
    /\ c.op = "password" => c.arg \in [old : Passwords, new : Passwords]
    /\ c.op = "create" => c.arg \in User /\ c.arg.failed = 0 /\ c.arg.lockedUntil = 0
    /\ c.op = "status" => c.arg \in BOOLEAN

Is(c, pc) == c # None /\ c.pc = pc

(* What a call carries fits its operation and its stage; only answers that *)
(* concern the session of the tab are waited for.                          *)
Fits(c) ==
    /\ Is(c, "sent") => ArgFits(c) /\ (c.op # "login" => c.token \in Token)
    /\ Is(c, "read") => /\ ArgFits(c)
                        /\ c.op # "create" => Exists(c.account)
                        /\ c.op \in {"login", "profile"} => c.row \in User
    /\ Is(c, "answered") =>
         \/ c.code = "token_invalid"
         \/ c.code = "ok" /\ c.op = "login" /\ c.data \in Session
         \/ c.code = "ok" /\ c.op = "profile" /\ c.data \in Shown
         \/ c.code = "ok" /\ c.op = "password"

(* The profile is the user's of the session. *)
InSession(c, token) == c # None /\ c.op = "profile" => token # None

Typed ==
    /\ users \in [Accounts -> Optional(User)]
    /\ tabs \in [Tabs -> Tab]
    /\ \A t \in Tabs : (tabs[t].token = None <=> tabs[t].user = None)
    /\ \A t \in Tabs : Fits(tabs[t].call)
    /\ \A t \in Tabs : InSession(tabs[t].call, tabs[t].token)
    /\ now \in 0..LastTime /\ calls \in 0..MaxCalls
    /\ disabled \in [Accounts -> 0..LastTime]
    /\ wrong \in [Accounts -> [count : Nat, last : 0..LastTime]]
    /\ raced \subseteq Accounts \cup {"owners"}

(* No handler waits too long, and nothing happened in the future. *)
Timely ==
    /\ \A t \in Tabs : Stage(t, "read") =>
         tabs[t].call.since <= now /\ now <= tabs[t].call.since + MaxDelay
    /\ \A a \in Accounts : disabled[a] <= now /\ wrong[a].last <= now

(* The role of the owners: whoever is about to disable an account leaves   *)
(* another owner, and nobody else is about to.                             *)
OwnersGuarded ==
    "owners" \notin raced =>
        /\ ActiveOwners # {}
        /\ \A t \in Tabs : Stage(t, "read") /\ Disabling(tabs[t].call) =>
             ActiveOwners \ {tabs[t].call.account} # {}
        /\ \A t, u \in Tabs : t # u /\ Stage(t, "read") /\ Stage(u, "read")
             => ~(Disabling(tabs[t].call) /\ Disabling(tabs[u].call))

Fades(token) ==
    /\ token.exp <= now + Ttl
    /\ Exists(token.sub)
    /\ users[token.sub].active \/ token.exp <= disabled[token.sub] + Ttl + MaxDelay

LoginAnswered(t) ==
    Stage(t, "answered") /\ tabs[t].call.op = "login" /\ tabs[t].call.code = "ok"

LoginHeld(t) == Reading(t, "login")

(* Tokens, on their way and in the tab; a login in hand found its account  *)
(* active, so that it was disabled since then if ever.                     *)
TokensFade ==
    \A t \in Tabs :
        /\ tabs[t].token # None => Fades(tabs[t].token) /\ tabs[t].token.exp <= tabs[t].expiresAt
        /\ LoginAnswered(t) => Fades(tabs[t].call.data.token)
        /\ LoginHeld(t) => \/ users[tabs[t].call.account].active
                           \/ tabs[t].call.since <= disabled[tabs[t].call.account]

Holds(t, a) == Stage(t, "read") /\ tabs[t].call.account = a

(* The count that the row has, and the one that history has. *)
Agrees(a) ==
    \/ wrong[a].count < MaxFailed /\ users[a].failed = wrong[a].count
    \/ /\ wrong[a].count = MaxFailed /\ users[a].failed = 0
       /\ wrong[a].last + LockTime <= users[a].lockedUntil

(* A row that only one handler has in hand counts what happened to it; a   *)
(* login in hand is about to be counted.                                   *)
TriesCounted ==
    \A a \in Accounts \ raced :
        /\ \A t, u \in Tabs : Holds(t, a) /\ Holds(u, a) => t = u
        /\ ~Exists(a) => wrong[a].count = 0
        /\ Exists(a) /\ (\A t \in Tabs : LoginHeld(t) => ~Holds(t, a)) => Agrees(a)
        /\ \A t \in Tabs : LoginHeld(t) /\ Holds(t, a) =>
             /\ wrong[a].count \in 1..MaxFailed
             /\ tabs[t].call.row.failed = wrong[a].count - 1

Sound == Typed /\ Timely /\ OwnersGuarded /\ TokensFade /\ TriesCounted

-----------------------------------------------------------------------------
(* What the steps do to the tabs *)

Calls == Sent \cup Held \cup Given

(* The stage of a call tells its shape. *)
LEMMA CallOfStage ==
    ASSUME tabs \in [Tabs -> Tab], NEW t \in Tabs
    PROVE  /\ Stage(t, "sent") => tabs[t].call \in Sent
           /\ Stage(t, "read") => tabs[t].call \in Held
           /\ Stage(t, "answered") => tabs[t].call \in Given
BY DEF Stage, Tab, Sent, Held, Given, Optional

(* A tab whose call changes keeps its session; the other tabs are as they  *)
(* were.                                                                   *)
LEMMA NewCall ==
    ASSUME tabs \in [Tabs -> Tab], NEW t \in Tabs, NEW c \in Optional(Calls),
           tabs' = [tabs EXCEPT ![t].call = c]
    PROVE  /\ tabs' \in [Tabs -> Tab]
           /\ \A u \in Tabs \ {t} : tabs'[u] = tabs[u]
           /\ tabs'[t].call = c /\ tabs'[t].token = tabs[t].token
           /\ tabs'[t].user = tabs[t].user /\ tabs'[t].expiresAt = tabs[t].expiresAt
BY DEF Tab, Calls

(* The calls that the pages make. *)
Calling(t) ==
    \/ Login(t) \/ Profile(t) \/ ChangePassword(t) \/ CreateUser(t)
    \/ SetStatus(t) \/ ResetPassword(t)

(* A row that a page asks for is one. *)
LEMMA NewUserFits ==
    ASSUME NEW r \in Created, NEW p \in Passwords
    PROVE  NewUser(r, p) \in User /\ NewUser(r, p).failed = 0 /\ NewUser(r, p).lockedUntil = 0
BY AccountsAssumption DEF NewUser, User, Roles

(* A page makes a call that fits, with the token of its session. *)
LEMMA CallsFit ==
    ASSUME Typed, NEW t \in Tabs, Calling(t)
    PROVE  \E c \in Sent :
             /\ ArgFits(c) /\ (c.op # "login" => c.token \in Token)
             /\ tabs[t].call = None /\ InSession(c, tabs[t].token)
             /\ tabs' = [tabs EXCEPT ![t].call = c]
             /\ calls' \in 0..MaxCalls
             /\ UNCHANGED <<users, now, disabled, wrong, raced>>
<1> DEFINE Arg == Optional(Argument)
<1>0. tabs[t] \in Tab
  BY DEF Typed
<1>1. ASSUME NEW op \in Ops, NEW a \in Accounts, NEW arg \in Arg, Call(t, op, a, arg),
             op # "login" => tabs[t].token # None,
             ArgFits([op |-> op, arg |-> arg])
      PROVE  \E c \in Sent :
               /\ ArgFits(c) /\ (c.op # "login" => c.token \in Token)
               /\ tabs[t].call = None /\ InSession(c, tabs[t].token)
               /\ tabs' = [tabs EXCEPT ![t].call = c]
               /\ calls' \in 0..MaxCalls
               /\ UNCHANGED <<users, now, disabled, wrong, raced>>
  <2> DEFINE token == IF op = "login" THEN None ELSE tabs[t].token
             c == [op |-> op, account |-> a, arg |-> arg, pc |-> "sent", token |-> token]
  <2>1. token \in Optional(Token) /\ (op # "login" => token \in Token)
    BY <1>0, <1>1 DEF Tab, Optional
  <2>2. c \in Sent
    <3> HIDE DEF token
    <3> QED BY <2>1, <1>1 DEF Sent
  <2>3. ArgFits(c) /\ (c.op # "login" => c.token \in Token)
    BY <1>1, <2>1 DEF ArgFits
  <2>4. tabs[t].call = None /\ tabs' = [tabs EXCEPT ![t].call = c] /\ calls' \in 0..MaxCalls
    BY <1>1, AccountsAssumption DEF Call, Typed
  <2>5. InSession(c, tabs[t].token)
    BY <1>1 DEF InSession
  <2> QED
    BY <2>2, <2>3, <2>4, <2>5, <1>1 DEF Call
<1>2. CASE Login(t)
  BY <1>1, <1>2 DEF Login, ArgFits, Argument, Ops, Optional
<1>3. SessionValid(t) => tabs[t].token # None /\ tabs[t].token.sub \in Accounts
  BY <1>0 DEF SessionValid, Tab, Token, Optional
<1>4. CASE Profile(t)
  BY <1>1, <1>3, <1>4 DEF Profile, ArgFits, Argument, Ops, Optional
<1>5. CASE ChangePassword(t)
  <2>1. PICK old \in Passwords, new \in Passwords :
          Call(t, "password", tabs[t].token.sub, [old |-> old, new |-> new])
    BY <1>5 DEF ChangePassword
  <2>2. [old |-> old, new |-> new] \in [old : Passwords, new : Passwords]
    OBVIOUS
  <2> QED
    BY <1>1, <1>3, <1>5, <2>1, <2>2 DEF ChangePassword, ArgFits, Argument, Ops, Optional
<1>6. CASE CreateUser(t)
  <2>1. PICK a \in Accounts, r \in Created, p \in Passwords : Call(t, "create", a, NewUser(r, p))
    BY <1>6 DEF CreateUser
  <2>2. PICK u \in User : u = NewUser(r, p) /\ u.failed = 0 /\ u.lockedUntil = 0
    BY NewUserFits
  <2> QED
    BY <1>1, <1>3, <1>6, <2>1, <2>2 DEF CreateUser, OnAccounts, ArgFits, Argument, Ops, Optional
<1>7. CASE SetStatus(t)
  BY <1>1, <1>3, <1>7 DEF SetStatus, OnAccounts, ArgFits, Argument, Ops, Optional
<1>8. CASE ResetPassword(t)
  BY <1>1, <1>3, <1>8 DEF ResetPassword, OnAccounts, ArgFits, Argument, Ops, Optional
<1> QED
  BY <1>2, <1>4, <1>5, <1>6, <1>7, <1>8 DEF Calling

(* An answer: the tab waits for it, or the call is over. *)
AnswerGiven(t, code, data) ==
    \E c \in Optional(Calls) :
        /\ tabs' = [tabs EXCEPT ![t].call = c]
        /\ \/ c = None
           \/ /\ c \in Given /\ c.op = tabs[t].call.op /\ c.code = code /\ c.data = data
              /\ code = "token_invalid" \/ (code = "ok" /\ c.op \notin OwnerOps)

(* An answer with a known code is one of these. *)
LEMMA AnswersFit ==
    ASSUME tabs \in [Tabs -> Tab], NEW t \in Tabs, tabs[t].call.op \in Ops,
           NEW code \in Codes, NEW data \in Optional(Session \cup Shown),
           Answered(t, code, data)
    PROVE  AnswerGiven(t, code, data)
<1> DEFINE op == tabs[t].call.op
<1> DEFINE g == [op |-> op, pc |-> "answered", code |-> code, data |-> data]
<1>1. g \in Given
  BY DEF Given
<1> DEFINE done == IF code = "ok" THEN op \in OwnerOps ELSE code # "token_invalid"
<1>2. tabs' = [tabs EXCEPT ![t].call = IF done THEN None ELSE g]
  BY DEF Answered
<1>3. CASE done
  <2>1. None \in Optional(Calls) /\ tabs' = [tabs EXCEPT ![t].call = None]
    BY <1>2, <1>3 DEF Optional
  <2> QED
    BY <2>1 DEF AnswerGiven
<1>4. CASE ~done
  <2>1. g \in Optional(Calls) /\ tabs' = [tabs EXCEPT ![t].call = g]
    BY <1>1, <1>2, <1>4 DEF Optional, Calls
  <2>2. code = "token_invalid" \/ (code = "ok" /\ op \notin OwnerOps)
    BY <1>4
  <2> QED
    BY <1>1, <2>1, <2>2 DEF AnswerGiven
<1> QED
  BY <1>3, <1>4

-----------------------------------------------------------------------------
(* The finishing steps in one form: the call of the tab is over, and the   *)
(* row of the account is written.                                          *)

Finishing(t) ==
    \/ FinishLogin(t) \/ FailLogin(t) \/ FinishProfile(t) \/ FinishPassword(t)
    \/ FinishCreate(t) \/ FinishStatus(t) \/ FinishReset(t)

(* A row written by a handler keeps its role, and its status but for a     *)
(* call that sets it; a new row is as the call asks.                       *)
RowWritten(t) ==
    LET c == tabs[t].call
    IN  \E row \in Optional(User) :
          /\ users' = [users EXCEPT ![c.account] = row]
          /\ Exists(c.account) =>
               /\ row \in User /\ row.role = users[c.account].role
               /\ Disabling(c) \/ (users[c.account].active => row.active)
          /\ c.op \in {"profile", "create"} /\ Exists(c.account) => row = users[c.account]
          /\ c.op = "create" /\ ~Exists(c.account) => row = c.arg
          /\ c.op = "password" => /\ row.failed = users[c.account].failed
                                  /\ row.lockedUntil = users[c.account].lockedUntil
          /\ c.op \in {"status", "reset"} => row.failed = 0 /\ row.lockedUntil = 0
          /\ c.op = "login" => row.active = users[c.account].active
                               
(* A lock ends at a time, and a count below the limit fits a row. *)
LEMMA LockIsTime ==
    ASSUME Typed, NEW seen \in User
    PROVE  /\ now \in Nat /\ now + LockTime \in Nat
           /\ seen.failed + 1 < MaxFailed => seen.failed + 1 \in 0..MaxFailed - 1
           /\ 0 \in 0..MaxFailed - 1
BY AccountsAssumption DEF Typed, User

(* What a failed login leaves in the row. *)
LEMMA FailureWritten ==
    ASSUME Typed, NEW row \in User, NEW seen \in User
    PROVE  /\ AfterFailure(row, seen) \in User
           /\ AfterFailure(row, seen).role = row.role
           /\ AfterFailure(row, seen).active = row.active
           /\ seen.failed + 1 < MaxFailed => AfterFailure(row, seen).failed = seen.failed + 1
           /\ seen.failed + 1 >= MaxFailed =>
                /\ AfterFailure(row, seen).failed = 0
                /\ AfterFailure(row, seen).lockedUntil = now + LockTime
<1>1. seen.failed \in Nat /\ MaxFailed \in Nat /\ seen.lockedUntil \in Nat
  BY AccountsAssumption DEF User
<1> DEFINE after(failed, until) == [row EXCEPT !.failed = failed, !.lockedUntil = until]
<1>2. \A failed \in 0..MaxFailed - 1, until \in Nat :
        /\ after(failed, until) \in User
        /\ after(failed, until).role = row.role /\ after(failed, until).active = row.active
        /\ after(failed, until).failed = failed /\ after(failed, until).lockedUntil = until
  BY DEF User
<1>5. /\ seen.failed + 1 >= MaxFailed => AfterFailure(row, seen) = after(0, now + LockTime)
      /\ ~(seen.failed + 1 >= MaxFailed)
           => AfterFailure(row, seen) = after(seen.failed + 1, seen.lockedUntil)
  BY DEF AfterFailure
<1>6. /\ now + LockTime \in Nat /\ 0 \in 0..MaxFailed - 1
      /\ seen.failed + 1 < MaxFailed => seen.failed + 1 \in 0..MaxFailed - 1
  BY LockIsTime
<1> HIDE DEF after
<1>3. CASE seen.failed + 1 >= MaxFailed
  <2>1. AfterFailure(row, seen) = after(0, now + LockTime)
    BY <1>3, <1>5
  <2> QED
    BY <1>1, <1>2, <1>3, <1>6, <2>1
<1>4. CASE ~(seen.failed + 1 >= MaxFailed)
  <2>1. AfterFailure(row, seen) = after(seen.failed + 1, seen.lockedUntil)
    BY <1>4, <1>5
  <2> QED
    BY <1>1, <1>2, <1>4, <1>6, <2>1
<1> QED
  BY <1>3, <1>4

(* What the other writes leave of a row. *)
LEMMA RowEdited ==
    ASSUME NEW u \in User, NEW p \in Passwords, NEW active \in BOOLEAN
    PROVE  /\ [u EXCEPT !.failed = 0, !.lockedUntil = 0] \in User
           /\ [u EXCEPT !.password = p] \in User
           /\ [u EXCEPT !.active = active, !.failed = 0, !.lockedUntil = 0] \in User
           /\ [u EXCEPT !.password = p, !.failed = 0, !.lockedUntil = 0] \in User
<1>1. 0 \in 0..MaxFailed - 1
  BY AccountsAssumption
<1>2. [u EXCEPT !.failed = 0, !.lockedUntil = 0] \in User
  BY <1>1 DEF User
<1>3. [u EXCEPT !.password = p] \in User
  BY DEF User
<1>4. [u EXCEPT !.active = active, !.failed = 0, !.lockedUntil = 0] \in User
  BY <1>1 DEF User
<1>5. [u EXCEPT !.password = p, !.failed = 0, !.lockedUntil = 0] \in User
  BY <1>1 DEF User
<1> QED
  BY <1>2, <1>3, <1>4, <1>5

(* The row that a finishing step leaves. *)
LEMMA RowsWritten ==
    ASSUME Typed, NEW t \in Tabs, Finishing(t)
    PROVE  /\ Stage(t, "read") /\ RowWritten(t)
           /\ tabs[t].call \in Held /\ ArgFits(tabs[t].call)
<1> DEFINE c == tabs[t].call
           a == c.account
<1>1. Stage(t, "read")
  BY DEF Finishing, FinishLogin, FailLogin, FinishProfile, FinishPassword, FinishCreate,
         FinishStatus, FinishReset, Reading
<1>2. c \in Held /\ ArgFits(c) /\ (c.op # "create" => Exists(a))
        /\ (c.op \in {"login", "profile"} => c.row \in User)
  BY <1>1, CallOfStage DEF Typed, Fits, Is, Stage
<1>3. a \in Accounts /\ users[a] \in Optional(User) /\ (Exists(a) => users[a] \in User)
  BY <1>2 DEF Held, Typed, Optional, Exists
<1>4. users = [users EXCEPT ![a] = users[a]]
  BY DEF Typed
<1>5. CASE FinishLogin(t)
  <2>1. users' = [users EXCEPT ![a] = [users[a] EXCEPT !.failed = 0, !.lockedUntil = 0]]
    BY <1>5 DEF FinishLogin, Write
  <2>2. c.op = "login" /\ users[a] \in User
    BY <1>2, <1>3, <1>5 DEF FinishLogin, Reading
  <2>3. PICK row \in User : /\ row = [users[a] EXCEPT !.failed = 0, !.lockedUntil = 0]
                            /\ row.role = users[a].role /\ row.active = users[a].active
    <3>1. [users[a] EXCEPT !.failed = 0, !.lockedUntil = 0] \in User
      BY <2>2, RowEdited, <1>2 DEF ArgFits
    <3> QED
      BY <2>2, <3>1 DEF User
  <2> QED
    BY <1>1, <1>2, <2>1, <2>2, <2>3 DEF RowWritten, Optional
<1>6. CASE FailLogin(t)
  <2>1. users' = [users EXCEPT ![a] = AfterFailure(users[a], c.row)]
    BY <1>6 DEF FailLogin, Write
  <2>2. c.op = "login" /\ users[a] \in User /\ c.row \in User
    BY <1>2, <1>3, <1>6 DEF FailLogin, Reading
  <2>3. PICK row \in User : /\ row = AfterFailure(users[a], c.row)
                            /\ row.role = users[a].role /\ row.active = users[a].active
    BY <2>2, FailureWritten
  <2> QED
    BY <1>1, <1>2, <2>1, <2>2, <2>3 DEF RowWritten, Optional
<1>7. CASE FinishProfile(t)
  <2>1. users' = users /\ c.op = "profile"
    BY <1>7 DEF FinishProfile, Reading
  <2> QED
    BY <1>1, <1>2, <1>3, <1>4, <2>1 DEF RowWritten
<1>8. CASE FinishPassword(t)
  <2>1. users' = [users EXCEPT ![a] = [users[a] EXCEPT !.password = c.arg.new]]
    BY <1>8 DEF FinishPassword, Write
  <2>2. c.op = "password" /\ users[a] \in User /\ c.arg.new \in Passwords
    BY <1>2, <1>3, <1>8 DEF FinishPassword, Reading, ArgFits
  <2>3. PICK row \in User : /\ row = [users[a] EXCEPT !.password = c.arg.new]
                            /\ row.role = users[a].role /\ row.active = users[a].active
                            /\ row.failed = users[a].failed
                            /\ row.lockedUntil = users[a].lockedUntil
    <3>1. [users[a] EXCEPT !.password = c.arg.new] \in User
      BY <2>2, RowEdited
    <3> QED
      BY <2>2, <3>1 DEF User
  <2> QED
    BY <1>1, <1>2, <2>1, <2>2, <2>3 DEF RowWritten, Optional
<1>9. CASE FinishCreate(t)
  <2>1. users' = [users EXCEPT ![a] = IF Exists(a) THEN users[a] ELSE c.arg] /\ c.op = "create"
    BY <1>9 DEF FinishCreate, Write, Reading
  <2>2. PICK row : row = IF Exists(a) THEN users[a] ELSE c.arg
    OBVIOUS
  <2>3. row \in Optional(User) /\ (Exists(a) => row \in User)
    BY <1>2, <1>3, <2>1, <2>2 DEF ArgFits, Optional
  <2> QED
    BY <1>1, <1>2, <2>1, <2>2, <2>3 DEF RowWritten
<1>10. CASE FinishStatus(t)
  <2>1. users' = [users EXCEPT ![a] =
                    [users[a] EXCEPT !.active = c.arg, !.failed = 0, !.lockedUntil = 0]]
    BY <1>10 DEF FinishStatus, Write
  <2>2. c.op = "status" /\ users[a] \in User /\ c.arg \in BOOLEAN
    BY <1>2, <1>3, <1>10 DEF FinishStatus, Reading, ArgFits
  <2>3. PICK row \in User :
          /\ row = [users[a] EXCEPT !.active = c.arg, !.failed = 0, !.lockedUntil = 0]
          /\ row.role = users[a].role /\ row.active = c.arg
          /\ row.failed = 0 /\ row.lockedUntil = 0
    <3>1. [users[a] EXCEPT !.active = c.arg, !.failed = 0, !.lockedUntil = 0] \in User
      <4>1. users[a].password \in Passwords
        BY <2>2 DEF User
      <4> QED
        BY <2>2, <4>1, RowEdited
    <3> QED
      BY <2>2, <3>1 DEF User
  <2> QED
    BY <1>1, <1>2, <2>1, <2>2, <2>3 DEF RowWritten, Optional, Disabling
<1>11. CASE FinishReset(t)
  <2>1. users' = [users EXCEPT ![a] =
                    [users[a] EXCEPT !.password = c.arg, !.failed = 0, !.lockedUntil = 0]]
    BY <1>11 DEF FinishReset, Write
  <2>2. c.op = "reset" /\ users[a] \in User /\ c.arg \in Passwords
    BY <1>2, <1>3, <1>11 DEF FinishReset, Reading, ArgFits
  <2>3. PICK row \in User :
          /\ row = [users[a] EXCEPT !.password = c.arg, !.failed = 0, !.lockedUntil = 0]
          /\ row.role = users[a].role /\ row.active = users[a].active
          /\ row.failed = 0 /\ row.lockedUntil = 0
    <3>1. [users[a] EXCEPT !.password = c.arg, !.failed = 0, !.lockedUntil = 0] \in User
      BY <2>2, RowEdited
    <3> QED
      BY <2>2, <3>1 DEF User
  <2> QED
    BY <1>1, <1>2, <2>1, <2>2, <2>3 DEF RowWritten, Optional
<1> QED
  BY <1>1, <1>2, <1>5, <1>6, <1>7, <1>8, <1>9, <1>10, <1>11 DEF Finishing

(* The second in which a token is issued is not in the future. *)
LEMMA SecondOf ==
    ASSUME NEW time \in Nat
    PROVE  (time \div Sec) * Sec \in Nat /\ (time \div Sec) * Sec <= time
<1>1. Sec \in Nat /\ Sec > 0
  BY AccountsAssumption
<1> QED
  BY <1>1

(* parseDuration: the lifetime is a number of whole seconds. *)
LEMMA WholeSeconds == ExpiresIn * Sec = Ttl
<1>1. Sec \in Nat /\ Sec > 0 /\ Ttl \in Nat /\ Ttl % Sec = 0
  BY AccountsAssumption
<1> QED
  BY <1>1 DEF ExpiresIn

(* A token lives for Ttl at most. *)
LEMMA SignedToken ==
    ASSUME NEW a \in Accounts, NEW role \in Roles, now \in Nat
    PROVE  /\ Signed(a, role) \in Token
           /\ Signed(a, role).sub = a /\ Signed(a, role).exp <= now + Ttl
<1>1. Ttl \in Nat
  BY AccountsAssumption
<1>2. PICK second \in Nat : second = (now \div Sec) * Sec /\ second <= now
  BY SecondOf
<1> QED
  BY <1>1, <1>2 DEF Signed, Token

(* The answer of a finished handler: only a login, a profile and a change  *)
(* of the password are waited for.                                         *)
LEMMA FinishedCall ==
    ASSUME Typed, NEW t \in Tabs, Finishing(t)
    PROVE  \E c \in Optional(Calls) :
             /\ tabs' = [tabs EXCEPT ![t].call = c]
             /\ \/ c = None
                \/ /\ c \in Given /\ c.code = "ok"
                   /\ \/ /\ c.op = "login" /\ FinishLogin(t)
                         /\ c.data \in Session
                         /\ c.data.token = Signed(tabs[t].call.account, tabs[t].call.row.role)
                      \/ /\ c.op = "profile" /\ c.data \in Shown
                         /\ InSession(c, tabs[t].token)
                      \/ c.op = "password"
<1> DEFINE d == tabs[t].call
           Over(c) ==
             /\ tabs' = [tabs EXCEPT ![t].call = c]
             /\ \/ c = None
                \/ /\ c \in Given /\ c.code = "ok"
                   /\ \/ /\ c.op = "login" /\ FinishLogin(t)
                         /\ c.data \in Session
                         /\ c.data.token = Signed(tabs[t].call.account, tabs[t].call.row.role)
                      \/ /\ c.op = "profile" /\ c.data \in Shown
                         /\ InSession(c, tabs[t].token)
                      \/ c.op = "password"
<1>1. d \in Held /\ d.account \in Accounts /\ d.op \in Ops /\ tabs \in [Tabs -> Tab]
  BY RowsWritten DEF Held, Typed
<1>2. d.op \in {"login", "profile"} => d.row \in User /\ d.row.role \in Roles
  BY RowsWritten DEF Typed, Fits, Is, Stage, User
<1>3. "ok" \in Codes /\ "refused" \in Codes /\ None \in Optional(Session \cup Shown)
  BY DEF Codes, Optional
<1>4. ASSUME NEW op \in Ops, op = d.op, Answered(t, "refused", None)
      PROVE  \E c \in Optional(Calls) : Over(c)
  <2>1. AnswerGiven(t, "refused", None)
    BY <1>1, <1>3, <1>4, AnswersFit
  <2>2. PICK c \in Optional(Calls) : tabs' = [tabs EXCEPT ![t].call = c] /\ c = None
    BY <2>1 DEF AnswerGiven
  <2>3. Over(c)
    BY <2>2
  <2> QED
    BY <2>3
<1>5. ASSUME NEW op \in Ops, op = d.op, NEW data \in Optional(Session \cup Shown),
             Answered(t, "ok", data),
             op = "login" => /\ data \in Session /\ FinishLogin(t)
                             /\ data.token = Signed(d.account, d.row.role),
             op = "profile" => data \in Shown /\ tabs[t].token # None
      PROVE  \E c \in Optional(Calls) : Over(c)
  <2>1. PICK c \in Optional(Calls) :
             /\ tabs' = [tabs EXCEPT ![t].call = c]
             /\ \/ c = None
                \/ /\ c \in Given /\ c.op = op /\ c.code = "ok" /\ c.data = data
                   /\ op \notin OwnerOps
    <3>1. AnswerGiven(t, "ok", data)
      BY <1>1, <1>3, <1>5, AnswersFit
    <3> QED
      BY <1>5, <3>1 DEF AnswerGiven
  <2>2. op \in Ops \ OwnerOps => op \in {"login", "profile", "password"}
    BY DEF Ops, OwnerOps
  <2>3. Over(c)
    BY <1>5, <2>1, <2>2 DEF InSession
  <2> QED
    BY <2>3
<1>6. CASE FinishLogin(t)
  <2>1. d.op = "login"
    BY <1>6 DEF FinishLogin, Reading
  <2>2. PICK role \in Roles : role = d.row.role
    BY <1>2, <2>1
  <2>3. PICK k \in Token : k = Signed(d.account, role)
    <3>1. now \in Nat
      BY AccountsAssumption DEF Typed
    <3> QED
      BY <1>1, <3>1, SignedToken
  <2>4. PICK data \in Session :
          data = [token |-> k, user |-> [id |-> d.account, role |-> role]] /\ data.token = k
    <3>1. [token |-> k, user |-> [id |-> d.account, role |-> role]] \in Session
      BY <1>1 DEF Session, Shown, Optional
    <3> QED
      BY <3>1
  <2>5. Answered(t, "ok", data)
    BY <1>6, <2>2, <2>3, <2>4 DEF FinishLogin
  <2>6. data \in Optional(Session \cup Shown)
    BY DEF Optional
  <2> QED
    BY <1>1, <1>5, <1>6, <2>1, <2>2, <2>3, <2>4, <2>5, <2>6
<1>7. CASE FailLogin(t) \/ (FinishCreate(t) /\ Answered(t, "refused", None))
  <2>1. Answered(t, "refused", None)
    BY <1>7 DEF FailLogin
  <2> QED
    BY <1>1, <1>4, <2>1
<1>8. CASE FinishProfile(t)
  <2>1. d.op = "profile" /\ Answered(t, "ok", [id |-> None, role |-> d.row.role])
    BY <1>8 DEF FinishProfile, Reading
  <2>2. [id |-> None, role |-> d.row.role] \in Shown
    BY <1>2, <2>1 DEF Shown, Optional
  <2>3. tabs[t].token # None
    BY <2>1, RowsWritten DEF Typed, InSession, Stage
  <2> QED
    BY <1>1, <1>5, <2>1, <2>2, <2>3 DEF Optional
<1>9. CASE \/ FinishPassword(t) \/ FinishStatus(t) \/ FinishReset(t)
           \/ (FinishCreate(t) /\ Answered(t, "ok", None))
  <2>1. d.op \in {"password", "status", "reset", "create"} /\ Answered(t, "ok", None)
    BY <1>9 DEF FinishPassword, FinishStatus, FinishReset, FinishCreate, Reading
  <2> QED
    BY <1>1, <1>3, <1>5, <2>1
<1>10. FinishCreate(t) => Answered(t, "ok", None) \/ Answered(t, "refused", None)
  BY DEF FinishCreate
<1> QED
  BY <1>6, <1>7, <1>8, <1>9, <1>10 DEF Finishing

-----------------------------------------------------------------------------
(* Types *)

Kept == \A a \in Accounts : Exists(a) => users'[a] # None

(* A call that fits still does as long as no account goes. *)
LEMMA FitsKept ==
    ASSUME NEW c \in Optional(Calls), Fits(c), Kept
    PROVE  Fits(c)'
BY DEF Fits, Is, ArgFits, Exists, Kept, Calls, Sent, Held, Given, Optional

(* The tabs, when the call of one of them changes. *)
LEMMA TabsTypedWithCall ==
    ASSUME Typed, Kept, NEW t \in Tabs, NEW c \in Optional(Calls), Fits(c)',
           InSession(c, tabs[t].token), tabs' = [tabs EXCEPT ![t].call = c]
    PROVE  /\ tabs' \in [Tabs -> Tab]
           /\ \A u \in Tabs : (tabs'[u].token = None <=> tabs'[u].user = None)
           /\ \A u \in Tabs : InSession(tabs'[u].call, tabs'[u].token)
           /\ \A u \in Tabs : Fits(tabs[u].call)'
<1>1. /\ tabs' \in [Tabs -> Tab] /\ tabs'[t].call = c
      /\ \A u \in Tabs \ {t} : tabs'[u] = tabs[u]
      /\ tabs'[t].token = tabs[t].token /\ tabs'[t].user = tabs[t].user
  BY NewCall DEF Typed
<1>2. \A u \in Tabs : (tabs'[u].token = None <=> tabs'[u].user = None)
  BY <1>1 DEF Typed
<1>4. \A u \in Tabs : InSession(tabs'[u].call, tabs'[u].token)
  BY <1>1 DEF Typed, InSession
<1>3. ASSUME NEW u \in Tabs
      PROVE  Fits(tabs[u].call)'
  <2>1. CASE u = t
    BY <1>1, <2>1
  <2>2. CASE u # t
    <3>1. PICK d \in Optional(Calls) : d = tabs[u].call /\ Fits(d)
      BY DEF Typed, Tab, Calls
    <3>2. tabs'[u].call = d
      BY <1>1, <2>2, <3>1
    <3> QED
      BY <3>1, <3>2, FitsKept
  <2> QED
    BY <2>1, <2>2
<1> QED
  BY <1>1, <1>2, <1>3, <1>4

(* The tabs, when one of them is replaced. *)
LEMMA TabsTypedWithTab ==
    ASSUME Typed, Kept, NEW t \in Tabs, NEW tab \in Tab, tab.call = None,
           tab.token = None <=> tab.user = None,
           tabs' = [tabs EXCEPT ![t] = tab]
    PROVE  /\ tabs' \in [Tabs -> Tab]
           /\ \A u \in Tabs : (tabs'[u].token = None <=> tabs'[u].user = None)
           /\ \A u \in Tabs : InSession(tabs'[u].call, tabs'[u].token)
           /\ \A u \in Tabs : Fits(tabs[u].call)'
<1>1. tabs' \in [Tabs -> Tab] /\ tabs'[t] = tab /\ \A u \in Tabs \ {t} : tabs'[u] = tabs[u]
  BY DEF Typed
<1>2. \A u \in Tabs : (tabs'[u].token = None <=> tabs'[u].user = None)
  BY <1>1 DEF Typed
<1>4. \A u \in Tabs : InSession(tabs'[u].call, tabs'[u].token)
  BY <1>1 DEF Typed, InSession
<1>3. ASSUME NEW u \in Tabs
      PROVE  Fits(tabs[u].call)'
  <2>1. CASE u = t
    BY <1>1, <2>1 DEF Fits, Is
  <2>2. CASE u # t
    <3>1. PICK d \in Optional(Calls) : d = tabs[u].call /\ Fits(d)
      BY DEF Typed, Tab, Calls
    <3>2. tabs'[u].call = d
      BY <1>1, <2>2, <3>1
    <3> QED
      BY <3>1, <3>2, FitsKept
  <2> QED
    BY <2>1, <2>2
<1> QED
  BY <1>1, <1>2, <1>3, <1>4

(* What a handler holds after it has read its row. *)
LEMMA ReadFits ==
    ASSUME Typed, NEW t \in Tabs, Read(t)
    PROVE  \E c \in Held :
             /\ tabs' = [tabs EXCEPT ![t].call = c]
             /\ c.since = now /\ c.account = tabs[t].call.account
             /\ c.op = tabs[t].call.op /\ c.arg = tabs[t].call.arg
             /\ tabs[t].call \in Sent /\ ArgFits(c) /\ Fits(c)
             /\ InSession(c, tabs[t].token)
             /\ c.op # "create" => Exists(c.account)
             /\ c.op \in {"login", "profile"} => c.row = users[c.account]
<1> DEFINE d == tabs[t].call
           row == IF d.op \in {"login", "profile"} THEN users[d.account] ELSE None
           c == [op |-> d.op, account |-> d.account, arg |-> d.arg, pc |-> "read",
                 since |-> now, row |-> row]
<1>1. Stage(t, "sent") /\ ~Refused(d) /\ tabs' = [tabs EXCEPT ![t].call = c]
  BY DEF Read
<1>2. d \in Sent /\ ArgFits(d)
  BY <1>1, CallOfStage DEF Typed, Fits, Is, Stage
<1>3. d.account \in Accounts /\ users[d.account] \in Optional(User)
  BY <1>2 DEF Sent, Typed
<1>4. d.op # "create" => Exists(d.account)
  BY <1>1, <1>2 DEF Refused, LoginRefused, PasswordRefused, StatusRefused, Sent, Ops
<1>5. now \in Nat
  BY AccountsAssumption DEF Typed
<1>6. row \in Optional(User) /\ (d.op \in {"login", "profile"} => row = users[d.account])
  BY <1>3 DEF Optional
<1>7. row \in User \/ d.op \notin {"login", "profile"}
  BY <1>3, <1>4, <1>6 DEF Optional, Exists
<1> HIDE DEF row
<1>8. c \in Held
  BY <1>2, <1>3, <1>5, <1>6 DEF Sent, Held
<1>9. ArgFits(c)
  BY <1>2 DEF ArgFits
<1>10. Fits(c)
  BY <1>4, <1>7, <1>9 DEF Fits, Is
<1>11. InSession(c, tabs[t].token)
  BY <1>1 DEF Typed, InSession, Stage
<1> QED
  BY <1>1, <1>2, <1>4, <1>6, <1>8, <1>9, <1>10, <1>11

(* A refused call is over, or waited for as a dead token. *)
LEMMA RefusedCall ==
    ASSUME Typed, NEW t \in Tabs, Refuse(t)
    PROVE  \E c \in Optional(Calls) :
             /\ tabs' = [tabs EXCEPT ![t].call = c]
             /\ c = None \/ (c \in Given /\ c.code = "token_invalid")
             /\ Stage(t, "sent") /\ InSession(c, tabs[t].token)
<1> DEFINE d == tabs[t].call
           code == IF TokenDead(d) THEN "token_invalid"
                   ELSE IF Unprivileged(d) THEN "permission_denied" ELSE "refused"
<1>1. Stage(t, "sent") /\ Answered(t, code, None)
  BY DEF Refuse
<1>2. d.op \in Ops /\ tabs \in [Tabs -> Tab] /\ None \in Optional(Session \cup Shown)
  BY <1>1, CallOfStage DEF Typed, Sent, Optional
<1>3. code \in Codes /\ code # "ok"
  BY DEF Codes
<1> HIDE DEF code
<1>4. AnswerGiven(t, code, None)
  BY <1>1, <1>2, <1>3, AnswersFit
<1> QED
  BY <1>1, <1>3, <1>4 DEF AnswerGiven, Typed, InSession, Stage

(* The tab after the answer. *)
LEMMA Delivered ==
    ASSUME Typed, NEW t \in Tabs, Deliver(t)
    PROVE  \E tab \in Tab :
             /\ tabs' = [tabs EXCEPT ![t] = tab]
             /\ tab.call = None /\ (tab.token = None <=> tab.user = None)
             /\ \/ tab.token = None
                \/ tab.token = tabs[t].token /\ tab.expiresAt = tabs[t].expiresAt
                \/ /\ LoginAnswered(t) /\ tab.token = tabs[t].call.data.token
                   /\ tab.expiresAt = now + Ttl
<1> DEFINE c == tabs[t].call
           tab == AfterAnswer(tabs[t], c)
<1>1. Stage(t, "answered") /\ tabs' = [tabs EXCEPT ![t] = tab] /\ tabs[t] \in Tab
  BY DEF Deliver, Typed
<1>2. Fits(c) /\ Is(c, "answered")
  BY <1>1 DEF Typed, Stage, Is
<1>3. SignedOut \in Tab /\ SignedOut.call = None /\ SignedOut.token = None
      /\ SignedOut.user = None
  BY DEF SignedOut, Tab, Optional
<1>4. CASE c.code = "token_invalid" \/ (c.code = "ok" /\ c.op = "password")
  <2>1. tab = SignedOut
    BY <1>4 DEF AfterAnswer
  <2> QED
    BY <1>1, <1>3, <2>1
<1>5. CASE c.code = "ok" /\ c.op = "login"
  <2> DEFINE new == [token |-> c.data.token, user |-> c.data.user,
                     expiresAt |-> ExpiresAt(ExpiresIn), call |-> None]
  <2>1. tab = new
    BY <1>5 DEF AfterAnswer
  <2>2. c.data.token \in Token /\ c.data.user \in Shown
    BY <1>2, <1>5 DEF Fits, Session
  <2>3. ExpiresAt(ExpiresIn) = now + Ttl /\ now + Ttl \in Nat
    BY WholeSeconds, AccountsAssumption DEF ExpiresAt, Typed
  <2>4. new \in Tab
    BY <2>2, <2>3 DEF Tab, Optional
  <2>5. new.token # None /\ new.user # None
    BY <2>2, NoneAssumption
  <2> QED
    BY <1>1, <1>5, <2>1, <2>3, <2>4, <2>5 DEF LoginAnswered
<1>6. CASE c.code = "ok" /\ c.op = "profile"
  <2> DEFINE new == [tabs[t] EXCEPT !.user = c.data, !.call = None]
  <2>1. tab = new
    BY <1>6 DEF AfterAnswer
  <2>2. c.data \in Shown /\ c.data # None
    BY <1>2, <1>6, NoneAssumption DEF Fits
  <2>3. new \in Tab /\ new.call = None /\ new.user = c.data /\ new.token = tabs[t].token
        /\ new.expiresAt = tabs[t].expiresAt
    BY <1>1, <2>2 DEF Tab, Optional
  <2>4. tabs[t].token # None
    BY <1>1, <1>6 DEF Typed, InSession, Stage
  <2> QED
    BY <1>1, <2>1, <2>2, <2>3, <2>4
<1> QED
  BY <1>2, <1>4, <1>5, <1>6 DEF Fits

(* Which rows and histories the steps of a tab touch. *)
LEMMA RowsKept ==
    ASSUME Typed, NEW t \in Tabs, Finishing(t)
    PROVE  /\ users' \in [Accounts -> Optional(User)] /\ Kept
           /\ disabled' \in [Accounts -> 0..LastTime]
           /\ wrong' \in [Accounts -> [count : Nat, last : 0..LastTime]]
           /\ UNCHANGED <<now, calls, raced>>
<1>1. tabs[t].call.account \in Accounts
  BY RowsWritten DEF Held
<1>2. PICK row \in Optional(User) :
        /\ users' = [users EXCEPT ![tabs[t].call.account] = row]
        /\ Exists(tabs[t].call.account) => row \in User
  BY RowsWritten DEF RowWritten
<1>3. users' \in [Accounts -> Optional(User)] /\ Kept
  BY <1>1, <1>2, NoneAssumption DEF Typed, Kept, Exists
<1>4. now \in 0..LastTime /\ 0 \in 0..LastTime
  BY AccountsAssumption DEF Typed
<1>5. disabled' \in [Accounts -> 0..LastTime]
  BY <1>1, <1>4 DEF Typed, Finishing, FinishLogin, FailLogin, FinishProfile, FinishPassword,
     FinishCreate, FinishStatus, FinishReset
<1>6. wrong' \in [Accounts -> [count : Nat, last : 0..LastTime]]
  <2>1. \/ wrong' = wrong
        \/ wrong' = [wrong EXCEPT ![tabs[t].call.account] = [count |-> 0, last |-> 0]]
    BY DEF Finishing, FinishLogin, FailLogin, FinishProfile, FinishPassword, FinishCreate,
       FinishStatus, FinishReset, Forgiven
  <2>2. [count |-> 0, last |-> 0] \in [count : Nat, last : 0..LastTime]
    BY <1>4
  <2> QED
    BY <1>1, <2>1, <2>2 DEF Typed
<1>7. UNCHANGED <<now, calls, raced>>
  BY DEF Finishing, FinishLogin, FailLogin, FinishProfile, FinishPassword,
     FinishCreate, FinishStatus, FinishReset
<1> QED
  BY <1>3, <1>5, <1>6, <1>7

(* A try is counted now. *)
LEMMA TryTyped ==
    ASSUME Typed, NEW a \in Accounts
    PROVE  Try(a) \in [count : Nat, last : 0..LastTime]
<1>1. wrong[a].count \in Nat /\ now \in 0..LastTime
  BY DEF Typed
<1>2. PICK n \in Nat : n = 1 + IF wrong[a].count >= MaxFailed /\ now >= wrong[a].last + LockTime
                                 THEN 0 ELSE wrong[a].count
  BY <1>1
<1> QED
  BY <1>1, <1>2 DEF Try

(* What one step of the server or of a page does, with the types of it. *)
LEMMA TypedStep ==
    ASSUME Typed, [Next]_vars
    PROVE  Typed' /\ Kept
<1>0. UNCHANGED users => Kept /\ users' \in [Accounts -> Optional(User)]
  BY DEF Kept, Exists, Typed
<1>1. ASSUME NEW t \in Tabs, Calling(t) PROVE Typed' /\ Kept
  <2>1. PICK c \in Sent :
          /\ ArgFits(c) /\ (c.op # "login" => c.token \in Token)
          /\ InSession(c, tabs[t].token)
          /\ tabs' = [tabs EXCEPT ![t].call = c] /\ calls' \in 0..MaxCalls
          /\ UNCHANGED <<users, now, disabled, wrong, raced>>
    BY <1>1, CallsFit
  <2>2. c \in Optional(Calls) /\ Fits(c)'
    BY <2>1 DEF Optional, Calls, Sent, Fits, Is, ArgFits
  <2>3. /\ tabs' \in [Tabs -> Tab]
        /\ \A u \in Tabs : (tabs'[u].token = None <=> tabs'[u].user = None)
        /\ \A u \in Tabs : InSession(tabs'[u].call, tabs'[u].token)
        /\ \A u \in Tabs : Fits(tabs[u].call)'
    BY <1>0, <2>1, <2>2, TabsTypedWithCall
  <2> QED
    BY <1>0, <2>1, <2>3 DEF Typed
<1>2. ASSUME NEW t \in Tabs, Refuse(t) PROVE Typed' /\ Kept
  <2>1. PICK c \in Optional(Calls) :
          /\ tabs' = [tabs EXCEPT ![t].call = c]
          /\ c = None \/ (c \in Given /\ c.code = "token_invalid")
          /\ InSession(c, tabs[t].token)
    BY <1>2, RefusedCall
  <2>2. UNCHANGED <<users, now, calls, disabled, wrong, raced>>
    BY <1>2 DEF Refuse
  <2>3. Fits(c)'
    BY <2>1 DEF Given, Fits, Is
  <2>4. /\ tabs' \in [Tabs -> Tab]
        /\ \A u \in Tabs : (tabs'[u].token = None <=> tabs'[u].user = None)
        /\ \A u \in Tabs : InSession(tabs'[u].call, tabs'[u].token)
        /\ \A u \in Tabs : Fits(tabs[u].call)'
    BY <1>0, <2>1, <2>2, <2>3, TabsTypedWithCall
  <2> QED
    BY <1>0, <2>2, <2>4 DEF Typed
<1>3. ASSUME NEW t \in Tabs, Read(t) PROVE Typed' /\ Kept
  <2>1. PICK c \in Held :
          /\ tabs' = [tabs EXCEPT ![t].call = c] /\ Fits(c) /\ InSession(c, tabs[t].token)
          /\ c.account = tabs[t].call.account
    BY <1>3, ReadFits
  <2>2. UNCHANGED <<users, now, calls, disabled>> /\ raced' = raced \cup Races(tabs[t].call)
    BY <1>3 DEF Read
  <2>3. c \in Optional(Calls) /\ Fits(c)'
    BY <1>0, <2>1, <2>2, FitsKept DEF Optional, Calls
  <2>4. /\ tabs' \in [Tabs -> Tab]
        /\ \A u \in Tabs : (tabs'[u].token = None <=> tabs'[u].user = None)
        /\ \A u \in Tabs : InSession(tabs'[u].call, tabs'[u].token)
        /\ \A u \in Tabs : Fits(tabs[u].call)'
    BY <1>0, <2>1, <2>2, <2>3, TabsTypedWithCall
  <2>5. tabs[t].call.account \in Accounts
    BY <2>1 DEF Held
  <2>6. wrong' \in [Accounts -> [count : Nat, last : 0..LastTime]]
    BY <1>3, <2>5, TryTyped DEF Read, Typed
  <2>7. raced' \subseteq Accounts \cup {"owners"}
    BY <2>2, <2>5 DEF Races, Typed
  <2> QED
    BY <1>0, <2>2, <2>4, <2>6, <2>7 DEF Typed
<1>4. ASSUME NEW t \in Tabs, Finishing(t) PROVE Typed' /\ Kept
  <2>1. PICK c \in Optional(Calls) :
          /\ tabs' = [tabs EXCEPT ![t].call = c]
          /\ \/ c = None
             \/ /\ c \in Given /\ c.code = "ok"
                /\ \/ c.op = "login" /\ c.data \in Session
                   \/ c.op = "profile" /\ c.data \in Shown /\ InSession(c, tabs[t].token)
                   \/ c.op = "password"
    BY <1>4, FinishedCall
  <2>2. Fits(c)' /\ InSession(c, tabs[t].token)
    BY <2>1 DEF Given, Fits, Is, InSession
  <2>3. Kept
    BY <1>4, RowsKept
  <2>4. /\ tabs' \in [Tabs -> Tab]
        /\ \A u \in Tabs : (tabs'[u].token = None <=> tabs'[u].user = None)
        /\ \A u \in Tabs : InSession(tabs'[u].call, tabs'[u].token)
        /\ \A u \in Tabs : Fits(tabs[u].call)'
    BY <2>1, <2>2, <2>3, TabsTypedWithCall
  <2> QED
    BY <1>4, <2>4, RowsKept DEF Typed
<1>5. ASSUME NEW t \in Tabs, Deliver(t) \/ Logout(t) PROVE Typed' /\ Kept
  <2>1. UNCHANGED <<users, now, calls, disabled, wrong, raced>>
    BY <1>5 DEF Deliver, Logout
  <2>2. SignedOut \in Tab /\ SignedOut.call = None /\ SignedOut.token = None
        /\ SignedOut.user = None
    BY DEF SignedOut, Tab, Optional
  <2>3. PICK tab \in Tab : /\ tabs' = [tabs EXCEPT ![t] = tab] /\ tab.call = None
                           /\ tab.token = None <=> tab.user = None
    BY <1>5, <2>2, Delivered DEF Logout
  <2>4. /\ tabs' \in [Tabs -> Tab]
        /\ \A u \in Tabs : (tabs'[u].token = None <=> tabs'[u].user = None)
        /\ \A u \in Tabs : InSession(tabs'[u].call, tabs'[u].token)
        /\ \A u \in Tabs : Fits(tabs[u].call)'
    BY <1>0, <2>1, <2>3, TabsTypedWithTab
  <2> QED
    BY <1>0, <2>1, <2>4 DEF Typed
<1>6. CASE Tick \/ UNCHANGED vars
  <2>1. UNCHANGED <<users, tabs, calls, disabled, wrong, raced>>
    BY <1>6 DEF Tick, vars
  <2>2. now' \in 0..LastTime
    BY <1>6, AccountsAssumption DEF Tick, vars, Typed
  <2>3. \A u \in Tabs : Fits(tabs[u].call)'
    <3>1. ASSUME NEW u \in Tabs PROVE Fits(tabs[u].call)'
      <4>1. PICK d \in Optional(Calls) : d = tabs[u].call /\ Fits(d)
        BY DEF Typed, Tab, Calls
      <4>2. tabs'[u].call = d
        BY <2>1, <4>1
      <4> QED
        BY <1>0, <2>1, <4>1, <4>2, FitsKept
    <3> QED
      BY <3>1
  <2> QED
    BY <1>0, <2>1, <2>2, <2>3 DEF Typed
<1> QED
  BY <1>1, <1>2, <1>3, <1>4, <1>5, <1>6 DEF Next, Calling, Finishing

-----------------------------------------------------------------------------
(* What a step may do to the calls, the tokens and the rows *)

(* A handler holds what it held, or has just read it. *)
HeldOn(u) ==
    Is(tabs'[u].call, "read") =>
        \/ Stage(u, "read") /\ tabs'[u].call = tabs[u].call
        \/ Read(u)

(* A login was answered before, or is answered now. *)
AnsweredOn(u) ==
    Is(tabs'[u].call, "answered") /\ tabs'[u].call.op = "login" /\ tabs'[u].call.code = "ok" =>
        \/ LoginAnswered(u) /\ tabs'[u].call = tabs[u].call
        \/ /\ FinishLogin(u) /\ tabs'[u].call.data \in Session
           /\ tabs'[u].call.data.token = Signed(tabs[u].call.account, tabs[u].call.row.role)

(* A tab has the token it had, or the one that a login was answered with. *)
SignedInOn(u) ==
    tabs'[u].token # None =>
        \/ tabs'[u].token = tabs[u].token /\ tabs'[u].expiresAt = tabs[u].expiresAt
        \/ /\ LoginAnswered(u) /\ tabs'[u].token = tabs[u].call.data.token
           /\ tabs'[u].expiresAt = now + Ttl

(* A tab that did not change holds what it held. *)
LEMMA SameTab ==
    ASSUME NEW u \in Tabs, tabs'[u] = tabs[u]
    PROVE  HeldOn(u) /\ AnsweredOn(u) /\ SignedInOn(u)
BY DEF HeldOn, AnsweredOn, SignedInOn, Is, Stage, LoginAnswered

(* A tab whose call changes. *)
LEMMA NewCallOn ==
    ASSUME Typed, NEW t \in Tabs, NEW c \in Optional(Calls), tabs' = [tabs EXCEPT ![t].call = c],
           Is(c, "read") => Read(t),
           Is(c, "answered") /\ c.op = "login" /\ c.code = "ok" =>
               /\ FinishLogin(t) /\ c.data \in Session
               /\ c.data.token = Signed(tabs[t].call.account, tabs[t].call.row.role)
    PROVE  \A u \in Tabs : HeldOn(u) /\ AnsweredOn(u) /\ SignedInOn(u)
<1>1. /\ tabs'[t].call = c /\ tabs'[t].token = tabs[t].token
      /\ tabs'[t].expiresAt = tabs[t].expiresAt
      /\ \A u \in Tabs \ {t} : tabs'[u] = tabs[u]
  BY NewCall DEF Typed
<1>2. HeldOn(t)
  BY <1>1 DEF HeldOn
<1>3. AnsweredOn(t)
  BY <1>1 DEF AnsweredOn
<1>4. SignedInOn(t)
  BY <1>1 DEF SignedInOn
<1> QED
  BY <1>1, <1>2, <1>3, <1>4, SameTab

(* A tab whose session changes. *)
LEMMA NewTabOn ==
    ASSUME Typed, NEW t \in Tabs, NEW tab \in Tab, tabs' = [tabs EXCEPT ![t] = tab],
           tab.call = None,
           \/ tab.token = None
           \/ tab.token = tabs[t].token /\ tab.expiresAt = tabs[t].expiresAt
           \/ /\ LoginAnswered(t) /\ tab.token = tabs[t].call.data.token
              /\ tab.expiresAt = now + Ttl
    PROVE  \A u \in Tabs : HeldOn(u) /\ AnsweredOn(u) /\ SignedInOn(u)
<1>1. tabs'[t] = tab /\ \A u \in Tabs \ {t} : tabs'[u] = tabs[u]
  BY DEF Typed
<1>2. HeldOn(t) /\ AnsweredOn(t)
  BY <1>1 DEF HeldOn, AnsweredOn, Is
<1>3. SignedInOn(t)
  BY <1>1 DEF SignedInOn
<1> QED
  BY <1>1, <1>2, <1>3, SameTab

(* A tab after any step. *)
LEMMA TabsOn ==
    ASSUME Typed, [Next]_vars
    PROVE  \A u \in Tabs : HeldOn(u) /\ AnsweredOn(u) /\ SignedInOn(u)
<1> DEFINE Goal == \A u \in Tabs : HeldOn(u) /\ AnsweredOn(u) /\ SignedInOn(u)
<1>1. ASSUME NEW t \in Tabs, Calling(t) PROVE Goal
  <2>1. PICK c \in Sent : tabs' = [tabs EXCEPT ![t].call = c]
    BY <1>1, CallsFit
  <2>2. c \in Optional(Calls) /\ ~Is(c, "read") /\ ~Is(c, "answered")
    BY DEF Optional, Calls, Sent, Is
  <2> QED
    BY <2>1, <2>2, NewCallOn
<1>2. ASSUME NEW t \in Tabs, Refuse(t) PROVE Goal
  <2>1. PICK c \in Optional(Calls) :
          /\ tabs' = [tabs EXCEPT ![t].call = c]
          /\ c = None \/ (c \in Given /\ c.code = "token_invalid")
    BY <1>2, RefusedCall
  <2>2. ~Is(c, "read") /\ ~(Is(c, "answered") /\ c.op = "login" /\ c.code = "ok")
    BY <2>1 DEF Given, Is
  <2> QED
    BY <2>1, <2>2, NewCallOn
<1>3. ASSUME NEW t \in Tabs, Read(t) PROVE Goal
  <2>1. PICK c \in Held : tabs' = [tabs EXCEPT ![t].call = c]
    BY <1>3, ReadFits
  <2>2. c \in Optional(Calls) /\ ~Is(c, "answered")
    BY DEF Optional, Calls, Held, Is
  <2> QED
    BY <1>3, <2>1, <2>2, NewCallOn
<1>4. ASSUME NEW t \in Tabs, Finishing(t) PROVE Goal
  <2>1. PICK c \in Optional(Calls) :
          /\ tabs' = [tabs EXCEPT ![t].call = c]
          /\ \/ c = None
             \/ /\ c \in Given /\ c.code = "ok"
                /\ \/ /\ c.op = "login" /\ FinishLogin(t) /\ c.data \in Session
                      /\ c.data.token = Signed(tabs[t].call.account, tabs[t].call.row.role)
                   \/ c.op = "profile"
                   \/ c.op = "password"
    BY <1>4, FinishedCall
  <2>2. ~Is(c, "read")
    BY <2>1 DEF Given, Is
  <2>3. Is(c, "answered") /\ c.op = "login" /\ c.code = "ok" =>
          /\ FinishLogin(t) /\ c.data \in Session
          /\ c.data.token = Signed(tabs[t].call.account, tabs[t].call.row.role)
    BY <2>1 DEF Is
  <2> QED
    BY <2>1, <2>2, <2>3, NewCallOn
<1>5. ASSUME NEW t \in Tabs, Deliver(t) PROVE Goal
  <2>1. PICK tab \in Tab :
          /\ tabs' = [tabs EXCEPT ![t] = tab] /\ tab.call = None
          /\ \/ tab.token = None
             \/ tab.token = tabs[t].token /\ tab.expiresAt = tabs[t].expiresAt
             \/ /\ LoginAnswered(t) /\ tab.token = tabs[t].call.data.token
                /\ tab.expiresAt = now + Ttl
    BY <1>5, Delivered
  <2> QED
    BY <2>1, NewTabOn
<1>6. ASSUME NEW t \in Tabs, Logout(t) PROVE Goal
  <2>1. SignedOut \in Tab /\ SignedOut.call = None /\ SignedOut.token = None
    BY DEF SignedOut, Tab, Optional
  <2> QED
    BY <1>6, <2>1, NewTabOn DEF Logout
<1>7. CASE Tick \/ UNCHANGED vars
  BY <1>7, SameTab DEF Tick, vars
<1> QED
  BY <1>1, <1>2, <1>3, <1>4, <1>5, <1>6, <1>7 DEF Next, Calling, Finishing

(* A row changes when the handler that holds it finishes, and only then. *)
LEMMA RowsOn ==
    ASSUME Typed, [Next]_vars
    PROVE  \/ UNCHANGED <<users, disabled>>
           \/ \E t \in Tabs : Finishing(t)
BY DEF Next, vars, Finishing, Login, Profile, ChangePassword, CreateUser, SetStatus,
   ResetPassword, Logout, Call, Refuse, Read, Deliver, Tick

(* Time passes by ticks, which no handler is kept waiting beyond. *)
LEMMA TimeOn ==
    ASSUME Typed, [Next]_vars
    PROVE  \/ now' = now
           \/ /\ Tick /\ now' = now + 1
BY DEF Next, vars, Login, Profile, ChangePassword, CreateUser, SetStatus, ResetPassword,
   Logout, Call, Refuse, Read, Deliver, Tick, FinishLogin, FailLogin, FinishProfile,
   FinishPassword, FinishCreate, FinishStatus, FinishReset

(* What was recorded as raced stays so. *)
LEMMA RacedOn ==
    ASSUME Typed, [Next]_vars
    PROVE  /\ raced \subseteq raced'
           /\ \A t \in Tabs : Read(t) => raced' = raced \cup Races(tabs[t].call)
BY DEF Next, vars, Login, Profile, ChangePassword, CreateUser, SetStatus, ResetPassword,
   Logout, Call, Refuse, Read, Deliver, Tick, FinishLogin, FailLogin, FinishProfile,
   FinishPassword, FinishCreate, FinishStatus, FinishReset

-----------------------------------------------------------------------------
(* Time and tokens *)

(* Time passes no handler by. *)
LEMMA TimelyStep ==
    ASSUME Typed, Timely, [Next]_vars
    PROVE  Timely'
<1>1. Typed' /\ now \in Nat /\ now' \in Nat /\ MaxDelay \in Nat
  BY TypedStep, AccountsAssumption DEF Typed
<1>2. ASSUME NEW t \in Tabs, Is(tabs'[t].call, "read")
      PROVE  tabs'[t].call.since <= now' /\ now' <= tabs'[t].call.since + MaxDelay
  <2>1. CASE Stage(t, "read") /\ tabs'[t].call = tabs[t].call
    <3>1. tabs[t].call.since \in Nat /\ tabs[t].call.since <= now
          /\ now <= tabs[t].call.since + MaxDelay
      BY <2>1, CallOfStage DEF Timely, Typed, Held
    <3>2. Tick => now < tabs[t].call.since + MaxDelay
      BY <2>1 DEF Tick
    <3> QED
      BY <1>1, <2>1, <3>1, <3>2, TimeOn
  <2>2. CASE Read(t)
    <3>1. tabs'[t].call.since = now
      <4>1. PICK c \in Held : tabs' = [tabs EXCEPT ![t].call = c] /\ c.since = now
        BY <2>2, ReadFits
      <4>2. c \in Optional(Calls)
        BY DEF Optional, Calls
      <4> QED
        BY <4>1, <4>2, NewCall DEF Typed
    <3>2. now' = now
      BY <2>2 DEF Read
    <3> QED
      BY <1>1, <3>1, <3>2
  <2> QED
    BY <1>2, <2>1, <2>2, TabsOn DEF HeldOn
<1>3. ASSUME NEW a \in Accounts
      PROVE  disabled'[a] <= now' /\ wrong'[a].last <= now'
  <2>1. disabled[a] \in Nat /\ disabled[a] <= now /\ wrong[a].last \in Nat /\ wrong[a].last <= now
    BY <1>1 DEF Timely, Typed
  <2>2. now' = now \/ now' = now + 1
    BY TimeOn
  <2>3. disabled'[a] = disabled[a] \/ disabled'[a] = now
    BY DEF Typed, Next, vars, Login, Profile, ChangePassword, CreateUser, SetStatus,
       ResetPassword, Logout, Call, Refuse, Read, Deliver, Tick, FinishLogin, FailLogin,
       FinishProfile, FinishPassword, FinishCreate, FinishStatus, FinishReset
  <2>4. wrong'[a] = wrong[a] \/ wrong'[a].last = now \/ wrong'[a].last = 0
    <3>1. CASE UNCHANGED wrong
      BY <3>1
    <3>2. ASSUME NEW b, wrong' = [wrong EXCEPT ![b] = Try(b)] \/ Forgiven(b)
          PROVE  wrong'[a] = wrong[a] \/ wrong'[a].last = now \/ wrong'[a].last = 0
      BY <3>2 DEF Typed, Try, Forgiven
    <3>3. \/ UNCHANGED wrong
          \/ \E b : wrong' = [wrong EXCEPT ![b] = Try(b)] \/ Forgiven(b)
      BY DEF Next, vars, Login, Profile, ChangePassword, CreateUser, SetStatus,
         ResetPassword, Logout, Call, Refuse, Read, Deliver, Tick, FinishLogin, FailLogin,
         FinishProfile, FinishPassword, FinishCreate, FinishStatus, FinishReset
    <3> QED
      BY <3>1, <3>2, <3>3
  <2> QED
    BY <1>1, <2>1, <2>2, <2>3, <2>4
<1> QED
  BY <1>2, <1>3 DEF Timely, Stage, Is

(* An account that stops to be active is disabled now; nothing else moves  *)
(* the moment it was disabled.                                             *)
LEMMA DisabledOn ==
    ASSUME Typed, Timely, [Next]_vars, NEW a \in Accounts, Exists(a)
    PROVE  /\ users'[a] # None
           /\ disabled[a] <= disabled'[a]
           /\ users[a].active => users'[a].active \/ disabled'[a] = now
<1>1. disabled[a] \in Nat /\ disabled[a] <= now /\ now \in Nat
  BY AccountsAssumption DEF Typed, Timely
<1>2. users'[a] # None
  BY TypedStep DEF Kept
<1>3. CASE UNCHANGED <<users, disabled>>
  BY <1>1, <1>2, <1>3
<1>4. ASSUME NEW t \in Tabs, Finishing(t)
      PROVE  /\ disabled[a] <= disabled'[a]
             /\ users[a].active => users'[a].active \/ disabled'[a] = now
  <2> DEFINE c == tabs[t].call
  <2>1. c \in Held /\ ArgFits(c)
    BY <1>4, RowsWritten
  <2>2. CASE a # c.account
    <3>1. users'[a] = users[a]
      BY <1>4, <2>2, RowsWritten DEF RowWritten, Typed
    <3>2. disabled'[a] = disabled[a]
      BY <1>4, <2>2 DEF Finishing, FinishLogin, FailLogin, FinishProfile, FinishPassword,
         FinishCreate, FinishStatus, FinishReset, Typed
    <3> QED
      BY <1>1, <3>1, <3>2
  <2>3. CASE a = c.account /\ ~FinishStatus(t)
    <3>1. disabled' = disabled /\ ~Disabling(c)
      BY <1>4, <2>3 DEF Finishing, FinishLogin, FailLogin, FinishProfile, FinishPassword,
         FinishCreate, FinishReset, Disabling, Reading
    <3>2. users[a].active => users'[a].active
      BY <1>4, <2>1, <2>3, <3>1, RowsWritten DEF RowWritten, Typed, Held
    <3> QED
      BY <1>1, <3>1, <3>2
  <2>4. CASE a = c.account /\ FinishStatus(t)
    <3>1. c.op = "status" /\ c.arg \in BOOLEAN
      BY <2>1, <2>4 DEF FinishStatus, Reading, ArgFits
    <3>2. users[a] \in User /\ users' = [users EXCEPT ![a] =
            [users[a] EXCEPT !.active = c.arg, !.failed = 0, !.lockedUntil = 0]]
      BY <2>4 DEF FinishStatus, Write, Typed, Optional, Exists
    <3>3. users'[a].active = c.arg
      BY <3>2 DEF Typed, User
    <3>4. disabled' = IF c.arg \/ ~users[a].active THEN disabled
                      ELSE [disabled EXCEPT ![a] = now]
      BY <2>4 DEF FinishStatus
    <3>5. CASE c.arg \/ ~users[a].active
      BY <1>1, <3>3, <3>4, <3>5
    <3>6. CASE ~(c.arg \/ ~users[a].active)
      <4>1. disabled'[a] = now
        BY <3>4, <3>6 DEF Typed
      <4> QED
        BY <1>1, <4>1
    <3> QED
      BY <3>5, <3>6
  <2> QED
    BY <2>2, <2>3, <2>4
<1> QED
  BY <1>2, <1>3, <1>4, RowsOn

(* A token goes on fading. *)
LEMMA FadesOn ==
    ASSUME Typed, Timely, [Next]_vars, NEW k \in Token, Fades(k)
    PROVE  Fades(k)'
<1>1. k.sub \in Accounts /\ k.exp \in Nat /\ Ttl \in Nat /\ MaxDelay \in Nat
  BY AccountsAssumption DEF Token
<1>2. now \in Nat /\ now' \in Nat /\ disabled[k.sub] \in Nat /\ disabled'[k.sub] \in Nat
  BY <1>1, TypedStep, AccountsAssumption DEF Typed
<1>3. now <= now'
  BY <1>2, TimeOn
<1>4. k.exp <= now + Ttl /\ Exists(k.sub)
      /\ (users[k.sub].active \/ k.exp <= disabled[k.sub] + Ttl + MaxDelay)
  BY DEF Fades
<1>5. /\ users'[k.sub] # None /\ disabled[k.sub] <= disabled'[k.sub]
      /\ users[k.sub].active => users'[k.sub].active \/ disabled'[k.sub] = now
  BY <1>1, <1>4, DisabledOn
<1>6. k.exp <= now' + Ttl
  BY <1>1, <1>2, <1>3, <1>4
<1>7. users'[k.sub].active \/ k.exp <= disabled'[k.sub] + Ttl + MaxDelay
  <2>1. CASE users[k.sub].active /\ ~users'[k.sub].active
    BY <1>1, <1>2, <1>4, <1>5, <2>1
  <2>2. CASE ~users[k.sub].active
    BY <1>1, <1>2, <1>4, <1>5, <2>2
  <2> QED
    BY <2>1, <2>2
<1> QED
  BY <1>5, <1>6, <1>7 DEF Fades, Exists

(* The token of a login that finishes: its account was active when it was  *)
(* read, at most MaxDelay ago.                                             *)
LEMMA LoginFades ==
    ASSUME Typed, Timely, TokensFade, NEW t \in Tabs, FinishLogin(t)
    PROVE  LET k == Signed(tabs[t].call.account, tabs[t].call.row.role)
           IN  k \in Token /\ Fades(k)
<1> DEFINE c == tabs[t].call
<1>1. Stage(t, "read") /\ c.op = "login"
  BY DEF FinishLogin, Reading
<1>2. c \in Held /\ Exists(c.account) /\ c.row \in User
  BY <1>1, CallOfStage DEF Typed, Fits, Is, Stage
<1>3. PICK a \in Accounts, role \in Roles, since \in Nat :
        a = c.account /\ role = c.row.role /\ since = c.since
  BY <1>2 DEF Held, User
<1>4. now \in Nat /\ Ttl \in Nat /\ MaxDelay \in Nat /\ disabled[a] \in Nat
  BY AccountsAssumption DEF Typed
<1>5. PICK k \in Token : k = Signed(a, role) /\ k.sub = a /\ k.exp <= now + Ttl
  BY <1>4, SignedToken
<1>6. since <= now /\ now <= since + MaxDelay
  BY <1>1, <1>3 DEF Timely
<1>7. users[a].active \/ since <= disabled[a]
  BY <1>1, <1>3 DEF TokensFade, LoginHeld, Reading
<1>8. k.exp \in Nat
  BY DEF Token
<1>9. users[a].active \/ k.exp <= disabled[a] + Ttl + MaxDelay
  BY <1>4, <1>5, <1>6, <1>7, <1>8
<1> QED
  BY <1>2, <1>3, <1>5, <1>9 DEF Fades

(* Every step keeps the tokens fading. *)
LEMMA TokensFadeStep ==
    ASSUME Typed, Timely, TokensFade, [Next]_vars
    PROVE  TokensFade'
<1>0. \A u \in Tabs : tabs[u] \in Tab
  BY DEF Typed
<1>1. ASSUME NEW u \in Tabs, tabs'[u].token # None
      PROVE  Fades(tabs[u].token)' /\ tabs'[u].token.exp <= tabs'[u].expiresAt
  <2>1. PICK k : k = tabs'[u].token
    OBVIOUS
  <2>2. CASE tabs'[u].token = tabs[u].token /\ tabs'[u].expiresAt = tabs[u].expiresAt
    <3>1. k \in Token /\ Fades(k) /\ k.exp <= tabs[u].expiresAt
      BY <1>0, <1>1, <2>1, <2>2 DEF TokensFade, Tab, Optional
    <3> QED
      BY <2>1, <2>2, <3>1, FadesOn
  <2>3. CASE /\ LoginAnswered(u) /\ tabs'[u].token = tabs[u].call.data.token
             /\ tabs'[u].expiresAt = now + Ttl
    <3>1. Fits(tabs[u].call) /\ LoginAnswered(u)
      BY <2>3 DEF Typed
    <3>2. tabs[u].call.data \in Session
      BY <3>1 DEF Fits, Is, LoginAnswered, Stage
    <3>3. k \in Token /\ Fades(k)
      BY <2>1, <2>3, <3>2 DEF TokensFade, Session
    <3>4. k.exp <= tabs'[u].expiresAt
      BY <2>3, <3>3 DEF Fades
    <3> QED
      BY <2>1, <3>3, <3>4, FadesOn
  <2> QED
    BY <1>1, <2>2, <2>3, TabsOn DEF SignedInOn
<1>2. ASSUME NEW u \in Tabs, Is(tabs'[u].call, "answered"), tabs'[u].call.op = "login",
             tabs'[u].call.code = "ok"
      PROVE  Fades(tabs[u].call.data.token)'
  <2>1. PICK k : k = tabs'[u].call.data.token
    OBVIOUS
  <2>2. CASE LoginAnswered(u) /\ tabs'[u].call = tabs[u].call
    <3>1. Fits(tabs[u].call)
      BY DEF Typed
    <3>2. tabs[u].call.data \in Session
      BY <2>2, <3>1 DEF Fits, Is, LoginAnswered, Stage
    <3>3. k \in Token /\ Fades(k)
      BY <2>1, <2>2, <3>2 DEF TokensFade, Session
    <3> QED
      BY <2>1, <3>3, FadesOn
  <2>3. CASE FinishLogin(u) /\ tabs'[u].call.data.token
                                 = Signed(tabs[u].call.account, tabs[u].call.row.role)
    <3>1. k \in Token /\ Fades(k)
      BY <2>1, <2>3, LoginFades
    <3> QED
      BY <2>1, <3>1, FadesOn
  <2> QED
    BY <1>2, <2>2, <2>3, TabsOn DEF AnsweredOn
<1>3. ASSUME NEW u \in Tabs, Is(tabs'[u].call, "read"), tabs'[u].call.op = "login"
      PROVE  \/ users'[tabs'[u].call.account].active
             \/ tabs'[u].call.since <= disabled'[tabs'[u].call.account]
  <2>1. CASE Stage(u, "read") /\ tabs'[u].call = tabs[u].call
    <3>1. Fits(tabs[u].call) /\ tabs[u].call \in Held
      BY <2>1, CallOfStage DEF Typed
    <3>2. PICK a \in Accounts, since \in Nat :
            a = tabs[u].call.account /\ since = tabs[u].call.since /\ Exists(a)
      BY <1>3, <2>1, <3>1 DEF Fits, Is, Held
    <3>3. users[a].active \/ since <= disabled[a]
      BY <1>3, <2>1, <3>2 DEF TokensFade, LoginHeld, Reading
    <3>4. /\ disabled[a] <= disabled'[a]
          /\ users[a].active => users'[a].active \/ disabled'[a] = now
      BY <3>2, DisabledOn
    <3>5. since <= now /\ disabled[a] \in Nat /\ disabled'[a] \in Nat /\ now \in Nat
      BY <2>1, <3>2, TypedStep, AccountsAssumption DEF Timely, Typed
    <3>6. users'[a].active \/ since <= disabled'[a]
      BY <3>2, <3>3, <3>4, <3>5
    <3> QED
      BY <2>1, <3>2, <3>6
  <2>2. CASE Read(u)
    <3>1. PICK c \in Held : /\ tabs' = [tabs EXCEPT ![u].call = c]
                            /\ c.op = tabs[u].call.op /\ c.account = tabs[u].call.account
                            /\ c.op # "create" => Exists(c.account)
      BY <2>2, ReadFits
    <3>2. tabs'[u].call = c
      <4>1. c \in Optional(Calls)
        BY DEF Optional, Calls
      <4> QED
        BY <3>1, <4>1, NewCall DEF Typed
    <3>3. Exists(c.account) /\ ~LoginRefused(c.account) /\ users' = users
      BY <1>3, <2>2, <3>1, <3>2 DEF Read, Refused
    <3>4. users'[c.account].active
      BY <3>3 DEF LoginRefused
    <3> QED
      BY <3>2, <3>4
  <2> QED
    BY <1>3, <2>1, <2>2, TabsOn DEF HeldOn
<1> QED
  BY <1>1, <1>2, <1>3 DEF TokensFade, LoginAnswered, LoginHeld, Reading, Stage, Is

-----------------------------------------------------------------------------
(* The owners *)

(* The tabs after a handler has read its row. *)
LEMMA TabsRead ==
    ASSUME Typed, NEW t \in Tabs, Read(t)
    PROVE  /\ \A u \in Tabs \ {t} : tabs'[u] = tabs[u]
           /\ tabs'[t].call \in Held
           /\ tabs'[t].call.op = tabs[t].call.op /\ tabs'[t].call.arg = tabs[t].call.arg
           /\ tabs'[t].call.account = tabs[t].call.account
           /\ tabs[t].call.account \in Accounts
           /\ tabs'[t].call.op # "create" => Exists(tabs[t].call.account)
           /\ tabs'[t].call.op = "login" => tabs'[t].call.row = users[tabs[t].call.account]
<1>1. PICK c \in Held :
        /\ tabs' = [tabs EXCEPT ![t].call = c] /\ c.account = tabs[t].call.account
        /\ c.op = tabs[t].call.op /\ c.arg = tabs[t].call.arg
        /\ c.op # "create" => Exists(c.account)
        /\ c.op \in {"login", "profile"} => c.row = users[c.account]
  BY ReadFits
<1>2. c \in Optional(Calls) /\ c.account \in Accounts
  BY DEF Optional, Calls, Held
<1>3. tabs'[t].call = c /\ \A u \in Tabs \ {t} : tabs'[u] = tabs[u]
  BY <1>1, <1>2, NewCall DEF Typed
<1> QED
  BY <1>1, <1>2, <1>3

(* The tabs after a handler has finished: it holds nothing any more. *)
LEMMA TabsFinished ==
    ASSUME Typed, NEW t \in Tabs, Finishing(t)
    PROVE  ~Is(tabs'[t].call, "read") /\ \A u \in Tabs \ {t} : tabs'[u] = tabs[u]
<1>1. PICK c \in Optional(Calls) :
        tabs' = [tabs EXCEPT ![t].call = c] /\ (c = None \/ c \in Given)
  BY FinishedCall
<1>2. tabs'[t].call = c /\ \A u \in Tabs \ {t} : tabs'[u] = tabs[u]
  BY <1>1, NewCall DEF Typed
<1> QED
  BY <1>1, <1>2 DEF Is, Given

(* What a second handler in hand is recorded as. *)
LEMMA RaceRecorded ==
    ASSUME NEW t \in Tabs, NEW u \in Tabs, Stage(u, "read")
    PROVE  /\ Disabling(tabs[t].call) /\ Disabling(tabs[u].call)
                => "owners" \in Races(tabs[t].call)
           /\ tabs[u].call.account = tabs[t].call.account
                => tabs[t].call.account \in Races(tabs[t].call)
<1> DEFINE c == tabs[t].call
<1>1. Disabling(c) /\ Disabling(tabs[u].call) => "owners" \in Races(c)
  BY DEF Races, InHand
<1>2. tabs[u].call.account = c.account => c.account \in Races(c)
  BY DEF Races, InHand
<1> QED
  BY <1>1, <1>2

(* An active owner remains one, unless a call disables just that account. *)
LEMMA OwnerKept ==
    ASSUME Typed, NEW o \in ActiveOwners,
           \/ UNCHANGED users
           \/ \E t \in Tabs : /\ Finishing(t)
                              /\ ~(Disabling(tabs[t].call) /\ tabs[t].call.account = o)
    PROVE  o \in ActiveOwners'
<1>1. o \in Accounts /\ Exists(o) /\ users[o].role = "owner" /\ users[o].active
  BY DEF ActiveOwners
<1>2. CASE UNCHANGED users
  BY <1>1, <1>2 DEF ActiveOwners, Exists
<1>3. ASSUME NEW t \in Tabs, Finishing(t),
             ~(Disabling(tabs[t].call) /\ tabs[t].call.account = o)
      PROVE  o \in ActiveOwners'
  <2> DEFINE a == tabs[t].call.account
  <2>1. PICK row \in Optional(User) :
          /\ users' = [users EXCEPT ![a] = row]
          /\ Exists(a) => /\ row \in User /\ row.role = users[a].role
                          /\ Disabling(tabs[t].call) \/ (users[a].active => row.active)
    BY <1>3, RowsWritten DEF RowWritten
  <2>2. CASE a = o
    <3>1. users'[o] = row /\ row \in User /\ row.role = "owner" /\ row.active
      BY <1>1, <1>3, <2>1, <2>2 DEF Typed
    <3> QED
      BY <1>1, <3>1, NoneAssumption DEF ActiveOwners, Exists
  <2>3. CASE a # o
    <3>1. users'[o] = users[o]
      BY <1>1, <2>1, <2>3 DEF Typed
    <3> QED
      BY <1>1, <3>1 DEF ActiveOwners, Exists
  <2> QED
    BY <2>2, <2>3
<1> QED
  BY <1>2, <1>3

(* setStatus lets nobody disable the last active owner. *)
LEMMA AnotherOwner ==
    ASSUME NEW by, NEW a \in Accounts, ActiveOwners # {}, Exists(a),
           ~StatusRefused(by, a, FALSE)
    PROVE  ActiveOwners \ {a} # {}
<1>1. ~(users[a].role = "owner" /\ Cardinality(ActiveOwners) <= 1)
  BY DEF StatusRefused, CountedOwners
<1>2. CASE users[a].role # "owner"
  BY <1>2 DEF ActiveOwners
<1>3. CASE users[a].role = "owner"
  <2> SUFFICES ASSUME ActiveOwners \subseteq {a} PROVE FALSE
    OBVIOUS
  <2>1. IsFiniteSet({a}) /\ Cardinality({a}) = 1
    BY FS_Singleton
  <2>2. Cardinality(ActiveOwners) <= 1
    BY <2>1, FS_Subset
  <2> QED
    BY <1>1, <1>3, <2>2
<1> QED
  BY <1>2, <1>3

(* Every step leaves an owner, and one for whoever disables. *)
LEMMA OwnersGuardedStep ==
    ASSUME Typed, OwnersGuarded, [Next]_vars
    PROVE  OwnersGuarded'
<1> SUFFICES ASSUME "owners" \notin raced'
             PROVE  /\ ActiveOwners' # {}
                    /\ \A t \in Tabs : Is(tabs'[t].call, "read") /\ Disabling(tabs'[t].call) =>
                         ActiveOwners' \ {tabs'[t].call.account} # {}
                    /\ \A t, u \in Tabs :
                         t # u /\ Is(tabs'[t].call, "read") /\ Is(tabs'[u].call, "read")
                         => ~(Disabling(tabs'[t].call) /\ Disabling(tabs'[u].call))
  BY DEF OwnersGuarded, Stage, Is, Disabling
<1>1. /\ ActiveOwners # {}
      /\ \A t \in Tabs : Stage(t, "read") /\ Disabling(tabs[t].call) =>
           ActiveOwners \ {tabs[t].call.account} # {}
      /\ \A t, u \in Tabs : t # u /\ Stage(t, "read") /\ Stage(u, "read")
           => ~(Disabling(tabs[t].call) /\ Disabling(tabs[u].call))
  BY RacedOn DEF OwnersGuarded
<1>2. ActiveOwners' # {}
  <2>1. CASE \E t \in Tabs : Finishing(t) /\ Disabling(tabs[t].call)
    <3>1. PICK t \in Tabs : Finishing(t) /\ Disabling(tabs[t].call)
      BY <2>1
    <3>2. PICK o \in ActiveOwners : o # tabs[t].call.account
      BY <1>1, <3>1, RowsWritten
    <3> QED
      BY <3>1, <3>2, OwnerKept
  <2>2. CASE ~\E t \in Tabs : Finishing(t) /\ Disabling(tabs[t].call)
    <3>1. PICK o \in ActiveOwners : TRUE
      BY <1>1
    <3> QED
      BY <2>2, <3>1, OwnerKept, RowsOn
  <2> QED
    BY <2>1, <2>2
<1>3. ASSUME NEW u \in Tabs, Is(tabs'[u].call, "read"), Disabling(tabs'[u].call)
      PROVE  ActiveOwners' \ {tabs'[u].call.account} # {}
  <2>1. CASE Stage(u, "read") /\ tabs'[u].call = tabs[u].call
    <3>1. PICK o \in ActiveOwners : o # tabs[u].call.account
      BY <1>1, <1>3, <2>1
    <3>2. ASSUME NEW t \in Tabs, Finishing(t), Disabling(tabs[t].call) PROVE FALSE
      <4>1. t # u /\ Stage(t, "read")
        BY <1>3, <3>2, TabsFinished, RowsWritten
      <4> QED
        BY <1>1, <1>3, <2>1, <3>2, <4>1
    <3>3. o \in ActiveOwners'
      BY <3>2, OwnerKept, RowsOn
    <3> QED
      BY <2>1, <3>1, <3>3
  <2>2. CASE Read(u)
    <3> DEFINE c == tabs[u].call
    <3>1. tabs'[u].call.account = c.account /\ c.account \in Accounts
          /\ c.op = "status" /\ ~c.arg /\ Exists(c.account) /\ ArgFits(tabs'[u].call)
      <4>1. ArgFits(c) /\ Stage(u, "sent")
        BY <2>2 DEF Read, Typed, Fits, Is, Stage
      <4> QED
        BY <1>3, <2>2, <4>1, TabsRead DEF Disabling, ArgFits
    <3>2. c.arg = FALSE
      BY <3>1, <1>3, <2>2, TabsRead DEF Disabling, ArgFits
    <3>3. ~StatusRefused(c.token.sub, c.account, FALSE) /\ users' = users
      BY <2>2, <3>1, <3>2 DEF Read, Refused
    <3>4. ActiveOwners \ {c.account} # {}
      BY <1>1, <3>1, <3>3, AnotherOwner
    <3>5. ActiveOwners' = ActiveOwners
      BY <3>3 DEF ActiveOwners, Exists
    <3> QED
      BY <3>1, <3>4, <3>5
  <2> QED
    BY <1>3, <2>1, <2>2, TabsOn DEF HeldOn
<1>4. ASSUME NEW t \in Tabs, NEW u \in Tabs, t # u, Is(tabs'[t].call, "read"),
             Is(tabs'[u].call, "read"), Disabling(tabs'[t].call), Disabling(tabs'[u].call)
      PROVE  FALSE
  <2>1. ASSUME NEW r \in Tabs, NEW s \in Tabs, r # s, Read(r), Is(tabs'[s].call, "read"),
               Disabling(tabs'[r].call), Disabling(tabs'[s].call)
        PROVE  FALSE
    <3>1. Disabling(tabs[r].call) /\ tabs'[s] = tabs[s]
      BY <2>1, TabsRead DEF Disabling
    <3>2. Stage(s, "read") /\ Disabling(tabs[s].call)
      BY <2>1, <3>1 DEF Stage, Is
    <3>3. "owners" \in Races(tabs[r].call)
      BY <3>1, <3>2, RaceRecorded
    <3> QED
      BY <2>1, <3>3, RacedOn
  <2>2. CASE Read(t) \/ Read(u)
    BY <1>4, <2>1, <2>2
  <2>3. CASE ~Read(t) /\ ~Read(u)
    BY <1>1, <1>4, <2>3, TabsOn DEF HeldOn
  <2> QED
    BY <2>2, <2>3
<1> QED
  BY <1>2, <1>3, <1>4

-----------------------------------------------------------------------------
(* The tries *)

(* A handler holds its row until it finishes. *)
LEMMA HeldLasts ==
    ASSUME Typed, [Next]_vars, NEW u \in Tabs, Stage(u, "read"), ~Finishing(u)
    PROVE  tabs'[u].call = tabs[u].call
<1> DEFINE Goal == tabs'[u].call = tabs[u].call
<1>1. ASSUME NEW t \in Tabs, Calling(t) PROVE Goal
  <2>1. PICK c \in Sent : tabs[t].call = None /\ tabs' = [tabs EXCEPT ![t].call = c]
    BY <1>1, CallsFit
  <2>2. t # u /\ c \in Optional(Calls)
    BY <2>1 DEF Stage, Optional, Calls
  <2> QED
    BY <2>1, <2>2, NewCall DEF Typed
<1>2. ASSUME NEW t \in Tabs, Refuse(t) PROVE Goal
  <2>1. PICK c \in Optional(Calls) : tabs' = [tabs EXCEPT ![t].call = c] /\ Stage(t, "sent")
    BY <1>2, RefusedCall
  <2> QED
    BY <2>1, NewCall DEF Typed, Stage
<1>3. ASSUME NEW t \in Tabs, Read(t) PROVE Goal
  <2>1. t # u
    BY <1>3 DEF Read, Stage
  <2> QED
    BY <1>3, <2>1, TabsRead
<1>4. ASSUME NEW t \in Tabs, Finishing(t) PROVE Goal
  BY <1>4, TabsFinished
<1>5. ASSUME NEW t \in Tabs, Deliver(t) \/ Logout(t) PROVE Goal
  <2>1. t # u
    BY <1>5 DEF Deliver, Logout, Stage
  <2>2. PICK tab : tabs' = [tabs EXCEPT ![t] = tab]
    BY <1>5 DEF Deliver, Logout
  <2> QED
    BY <2>1, <2>2 DEF Typed
<1>6. CASE Tick \/ UNCHANGED vars
  BY <1>6 DEF Tick, vars
<1> QED
  BY <1>1, <1>2, <1>3, <1>4, <1>5, <1>6 DEF Next, Calling, Finishing

(* The count of an account changes by a login that reads its row, or by a  *)
(* handler that finishes with it.                                          *)
LEMMA CountOn ==
    ASSUME Typed, [Next]_vars, NEW a \in Accounts,
           \A t \in Tabs : Read(t) => tabs[t].call.account # a,
           \A t \in Tabs : Finishing(t) => tabs[t].call.account # a
    PROVE  users'[a] = users[a] /\ wrong'[a] = wrong[a]
<1>1. CASE \E t \in Tabs : Finishing(t)
  <2>1. PICK t \in Tabs : Finishing(t) /\ tabs[t].call.account # a
    BY <1>1
  <2>2. users'[a] = users[a]
    BY <2>1, RowsWritten DEF RowWritten, Typed
  <2>3. wrong'[a] = wrong[a]
    BY <2>1 DEF Finishing, FinishLogin, FailLogin, FinishProfile, FinishPassword, FinishCreate,
       FinishStatus, FinishReset, Forgiven, Typed
  <2> QED
    BY <2>2, <2>3
<1>2. CASE ~\E t \in Tabs : Finishing(t)
  <2>1. users' = users
    BY <1>2, RowsOn
  <2>2. wrong'[a] = wrong[a]
    <3>1. CASE \E t \in Tabs : Read(t)
      BY <3>1 DEF Read, Typed
    <3>2. CASE ~\E t \in Tabs : Read(t)
      <4>1. wrong' = wrong
        BY <1>2, <3>2 DEF Next, vars, Finishing, Login, Profile, ChangePassword, CreateUser,
           SetStatus, ResetPassword, Logout, Call, Refuse, Deliver, Tick
      <4> QED
        BY <4>1
    <3> QED
      BY <3>1, <3>2
  <2> QED
    BY <2>1, <2>2
<1> QED
  BY <1>1, <1>2

(* A handler finishes with a row that nobody else has in hand: the counts  *)
(* agree.                                                                  *)
LEMMA AgreesFinished ==
    ASSUME Typed, Timely, NEW t \in Tabs, Finishing(t), NEW a \in Accounts,
           tabs[t].call.account = a,
           ~Exists(a) => wrong[a].count = 0,
           Exists(a) /\ ~LoginHeld(t) => Agrees(a),
           LoginHeld(t) => /\ wrong[a].count \in 1..MaxFailed
                           /\ tabs[t].call.row.failed = wrong[a].count - 1
    PROVE  users'[a] # None /\ Agrees(a)'
<1> DEFINE c == tabs[t].call
<1>0. /\ MaxFailed \in Nat /\ MaxFailed > 0 /\ LockTime \in Nat /\ now \in Nat
      /\ wrong[a].last \in Nat /\ wrong[a].last <= now /\ wrong[a].count \in Nat
  BY AccountsAssumption DEF Typed, Timely
<1>1. Stage(t, "read") /\ c \in Held /\ ArgFits(c) /\ Fits(c)
  BY RowsWritten DEF Typed
<1>2. c.op # "create" => Exists(a) /\ users[a] \in User
  BY <1>1 DEF Fits, Is, Stage, Exists, Typed, Optional
<1>3. PICK row \in Optional(User) :
        /\ users' = [users EXCEPT ![a] = row]
        /\ Exists(a) => row \in User
        /\ c.op \in {"profile", "create"} /\ Exists(a) => row = users[a]
        /\ c.op = "create" /\ ~Exists(a) => row = c.arg
        /\ c.op = "password" => /\ row.failed = users[a].failed
                                /\ row.lockedUntil = users[a].lockedUntil
        /\ c.op \in {"status", "reset"} => row.failed = 0 /\ row.lockedUntil = 0
  BY RowsWritten DEF RowWritten
<1>4. row \in User
  <2>1. CASE Exists(a)
    BY <1>3, <2>1
  <2>2. CASE ~Exists(a)
    BY <1>1, <1>2, <1>3, <2>2 DEF ArgFits
  <2> QED
    BY <2>1, <2>2
<1>5. users'[a] = row /\ users'[a] # None
  BY <1>3, <1>4, NoneAssumption DEF Typed
<1>6. row.failed \in Nat /\ row.lockedUntil \in Nat
  BY <1>0, <1>4 DEF User
<1>7. ASSUME wrong'[a] = wrong[a], Agrees(a), row.failed = users[a].failed,
             row.lockedUntil = users[a].lockedUntil
      PROVE  Agrees(a)'
  BY <1>5, <1>7 DEF Agrees
<1>8. ASSUME Forgiven(a), row.failed = 0 PROVE Agrees(a)'
  <2>1. wrong'[a].count = 0
    BY <1>8 DEF Forgiven, Typed
  <2> QED
    BY <1>0, <1>5, <1>8, <2>1 DEF Agrees
<1>9. CASE FinishLogin(t)
  <2>1. c.op = "login" /\ Forgiven(a)
    BY <1>9 DEF FinishLogin, Reading
  <2>2. users' = [users EXCEPT ![a] = [users[a] EXCEPT !.failed = 0, !.lockedUntil = 0]]
    BY <1>9 DEF FinishLogin, Write
  <2>3. users[a] \in User
    BY <1>2, <2>1
  <2>4. row.failed = 0
    BY <1>5, <2>2, <2>3 DEF Typed, User
  <2> QED
    BY <1>5, <1>8, <2>1, <2>4
<1>10. CASE FailLogin(t)
  <2>1. c.op = "login" /\ LoginHeld(t) /\ wrong' = wrong
    BY <1>10 DEF FailLogin, LoginHeld, Reading
  <2>2. users' = [users EXCEPT ![a] = AfterFailure(users[a], c.row)]
    BY <1>10 DEF FailLogin, Write
  <2>3. users[a] \in User /\ c.row \in User
    BY <1>1, <1>2, <2>1 DEF Fits, Is, Stage
  <2>4. row = AfterFailure(users[a], c.row)
    BY <1>5, <2>2 DEF Typed
  <2>5. PICK n \in 1..MaxFailed : n = wrong[a].count /\ c.row.failed = n - 1
    BY <2>1
  <2>6. /\ n < MaxFailed => row.failed = n
        /\ n >= MaxFailed => row.failed = 0 /\ row.lockedUntil = now + LockTime
    <3>1. c.row.failed + 1 = n
      BY <1>0, <2>5
    <3> QED
      BY <2>3, <2>4, <3>1, FailureWritten
  <2>7. wrong'[a].count = n /\ wrong'[a].last = wrong[a].last
    BY <2>1, <2>5
  <2> QED
    BY <1>0, <1>5, <1>6, <2>5, <2>6, <2>7 DEF Agrees
<1>11. CASE FinishProfile(t) \/ FinishPassword(t)
  <2>1. c.op \in {"profile", "password"} /\ wrong' = wrong /\ ~LoginHeld(t)
    BY <1>11 DEF FinishProfile, FinishPassword, Reading, LoginHeld
  <2>2. Agrees(a)
    BY <1>2, <2>1
  <2>3. row.failed = users[a].failed /\ row.lockedUntil = users[a].lockedUntil
    BY <1>2, <1>3, <2>1
  <2> QED
    BY <1>5, <1>7, <2>1, <2>2, <2>3
<1>12. CASE FinishCreate(t)
  <2>1. c.op = "create" /\ wrong' = wrong /\ ~LoginHeld(t)
    BY <1>12 DEF FinishCreate, Reading, LoginHeld
  <2>2. CASE Exists(a)
    BY <1>3, <1>5, <1>7, <2>1, <2>2
  <2>3. CASE ~Exists(a)
    <3>1. row.failed = 0 /\ wrong'[a].count = 0
      BY <1>1, <1>3, <2>1, <2>3 DEF ArgFits
    <3> QED
      BY <1>0, <1>5, <3>1 DEF Agrees
  <2> QED
    BY <2>2, <2>3
<1>13. CASE FinishStatus(t) \/ FinishReset(t)
  <2>1. c.op \in {"status", "reset"} /\ Forgiven(a)
    BY <1>13 DEF FinishStatus, FinishReset, Reading
  <2> QED
    BY <1>3, <1>5, <1>8, <2>1
<1> QED
  BY <1>9, <1>10, <1>11, <1>12, <1>13 DEF Finishing

(* A login reads a row that nobody else has in hand. *)
LEMMA CountedRead ==
    ASSUME Typed, Timely, NEW t \in Tabs, Read(t), NEW a \in Accounts,
           tabs[t].call.account = a, tabs[t].call.op = "login", Agrees(a)
    PROVE  /\ wrong'[a].count \in 1..MaxFailed
           /\ tabs'[t].call.row.failed = wrong'[a].count - 1
<1>0. /\ MaxFailed \in Nat /\ MaxFailed > 0 /\ LockTime \in Nat /\ now \in Nat
      /\ wrong[a].last \in Nat /\ wrong[a].last <= now /\ wrong[a].count \in Nat
  BY AccountsAssumption DEF Typed, Timely
<1>1. Exists(a) /\ tabs'[t].call.row = users[a]
  BY TabsRead
<1>2. users[a] \in User /\ ~Locked(users[a])
  BY <1>1 DEF Read, Refused, LoginRefused, Exists, Typed, Optional
<1>3. users[a].lockedUntil \in Nat /\ users[a].lockedUntil <= now
  BY <1>0, <1>2 DEF Locked, User
<1>4. wrong'[a] = Try(a)
  BY DEF Read, Typed
<1>5. CASE wrong[a].count < MaxFailed /\ users[a].failed = wrong[a].count
  <2>1. wrong'[a].count = 1 + wrong[a].count
    BY <1>0, <1>4, <1>5 DEF Try
  <2> QED
    BY <1>0, <1>1, <1>5, <2>1
<1>6. CASE /\ wrong[a].count = MaxFailed /\ users[a].failed = 0
           /\ wrong[a].last + LockTime <= users[a].lockedUntil
  <2>1. now >= wrong[a].last + LockTime
    BY <1>0, <1>3, <1>6
  <2>2. wrong'[a].count = 1
    BY <1>0, <1>4, <1>6, <2>1 DEF Try
  <2> QED
    BY <1>0, <1>1, <1>6, <2>2
<1> QED
  BY <1>5, <1>6 DEF Agrees

(* Every step keeps the counts in agreement. *)
LEMMA TriesCountedStep ==
    ASSUME Typed, Timely, TriesCounted, [Next]_vars
    PROVE  TriesCounted'
<1> DEFINE Has(t, a) == Is(tabs'[t].call, "read") /\ tabs'[t].call.account = a
           Logs(t) == Is(tabs'[t].call, "read") /\ tabs'[t].call.op = "login"
<1> SUFFICES ASSUME NEW a \in Accounts, a \notin raced'
             PROVE  /\ \A t, u \in Tabs : Has(t, a) /\ Has(u, a) => t = u
                    /\ users'[a] = None => wrong'[a].count = 0
                    /\ users'[a] # None /\ (\A t \in Tabs : Logs(t) => ~Has(t, a)) => Agrees(a)'
                    /\ \A t \in Tabs : Logs(t) /\ Has(t, a) =>
                         /\ wrong'[a].count \in 1..MaxFailed
                         /\ tabs'[t].call.row.failed = wrong'[a].count - 1
  BY DEF TriesCounted, Holds, LoginHeld, Reading, Stage, Is, Exists
<1>1. /\ \A t, u \in Tabs : Holds(t, a) /\ Holds(u, a) => t = u
      /\ ~Exists(a) => wrong[a].count = 0
      /\ Exists(a) /\ (\A t \in Tabs : LoginHeld(t) => ~Holds(t, a)) => Agrees(a)
      /\ \A t \in Tabs : LoginHeld(t) /\ Holds(t, a) =>
           /\ wrong[a].count \in 1..MaxFailed
           /\ tabs[t].call.row.failed = wrong[a].count - 1
  BY RacedOn DEF TriesCounted
<1>2. ASSUME NEW t \in Tabs, Has(t, a)
      PROVE  \/ Holds(t, a) /\ tabs'[t].call = tabs[t].call
             \/ Read(t) /\ tabs[t].call.account = a
  BY <1>2, TabsOn, TabsRead DEF HeldOn, Holds
<1>3. ASSUME NEW t \in Tabs, NEW u \in Tabs, Read(t), tabs[t].call.account = a, Holds(u, a)
      PROVE  FALSE
  BY <1>3, RaceRecorded, RacedOn DEF Holds
<1>4. ASSUME NEW t \in Tabs, NEW u \in Tabs, Has(t, a), Has(u, a), t # u PROVE FALSE
  <2>1. ASSUME NEW r \in Tabs, NEW s \in Tabs, r # s, Read(r), tabs[r].call.account = a,
               Has(s, a)
        PROVE  FALSE
    <3>1. Holds(s, a)
      BY <2>1, TabsRead DEF Holds, Stage, Is
    <3> QED
      BY <1>3, <2>1, <3>1
  <2> QED
    BY <1>1, <1>2, <1>4, <2>1
<1>5. CASE \E t \in Tabs : Finishing(t) /\ tabs[t].call.account = a
  <2>1. PICK t \in Tabs : Finishing(t) /\ tabs[t].call.account = a
    BY <1>5
  <2>2. Holds(t, a)
    BY <2>1, RowsWritten DEF Holds
  <2>3. ASSUME NEW u \in Tabs PROVE ~Has(u, a)
    <3>1. CASE u = t
      BY <2>1, <3>1, TabsFinished
    <3>2. CASE u # t
      BY <1>1, <2>1, <2>2, <3>2, TabsFinished DEF Holds, Stage, Is
    <3> QED
      BY <3>1, <3>2
  <2>4. Exists(a) /\ ~LoginHeld(t) => Agrees(a)
    BY <1>1, <2>2
  <2>5. users'[a] # None /\ Agrees(a)'
    BY <1>1, <2>1, <2>2, <2>4, AgreesFinished
  <2> QED
    BY <2>3, <2>5
<1>6. CASE \E t \in Tabs : Read(t) /\ tabs[t].call.account = a
  <2>1. PICK t \in Tabs : Read(t) /\ tabs[t].call.account = a
    BY <1>6
  <2>2. \A u \in Tabs : ~Holds(u, a)
    BY <1>3, <2>1
  <2>3. users' = users /\ (Exists(a) => Agrees(a))
    BY <1>1, <2>1, <2>2 DEF Read
  <2>4. \A u \in Tabs : Has(u, a) => u = t
    BY <1>2, <2>1, <2>2, TabsRead DEF Holds, Stage, Is
  <2>5. Has(t, a)
    BY <2>1, TabsRead, NoneAssumption DEF Held, Is
  <2>6. CASE tabs[t].call.op = "login"
    <3>1. Exists(a) /\ Agrees(a) /\ Logs(t)
      BY <2>1, <2>3, <2>5, <2>6, TabsRead
    <3>2. /\ wrong'[a].count \in 1..MaxFailed
          /\ tabs'[t].call.row.failed = wrong'[a].count - 1
      BY <2>1, <2>6, <3>1, CountedRead
    <3> QED
      BY <1>4, <2>3, <2>4, <2>5, <3>1, <3>2 DEF Exists
  <2>7. CASE tabs[t].call.op # "login"
    <3>1. wrong' = wrong /\ ~Logs(t)
      BY <2>1, <2>7, TabsRead DEF Read
    <3>2. Exists(a) => Agrees(a)'
      BY <2>3, <3>1 DEF Agrees
    <3> QED
      BY <1>1, <1>4, <2>3, <2>4, <3>1, <3>2 DEF Exists
  <2> QED
    BY <2>6, <2>7
<1>7. CASE /\ \A t \in Tabs : Read(t) => tabs[t].call.account # a
           /\ \A t \in Tabs : Finishing(t) => tabs[t].call.account # a
  <2>1. users'[a] = users[a] /\ wrong'[a] = wrong[a]
    BY <1>7, CountOn
  <2>2. \A t \in Tabs : Has(t, a) => Holds(t, a) /\ tabs'[t].call = tabs[t].call
    BY <1>2, <1>7
  <2>3. \A t \in Tabs : Holds(t, a) => tabs'[t].call = tabs[t].call
    BY <1>7, HeldLasts DEF Holds
  <2>4. \A t \in Tabs : LoginHeld(t) /\ Holds(t, a) => Logs(t) /\ Has(t, a)
    BY <2>3 DEF LoginHeld, Holds, Reading, Stage, Is
  <2>5. \A t \in Tabs : Logs(t) /\ Has(t, a) => LoginHeld(t) /\ Holds(t, a)
    BY <2>2 DEF LoginHeld, Holds, Reading
  <2>6. Agrees(a) => Agrees(a)'
    BY <2>1 DEF Agrees
  <2>7. users'[a] # None /\ (\A t \in Tabs : Logs(t) => ~Has(t, a)) => Agrees(a)'
    BY <1>1, <2>1, <2>4, <2>6 DEF Exists
  <2>8. \A t \in Tabs : Logs(t) /\ Has(t, a) =>
          /\ wrong'[a].count \in 1..MaxFailed
          /\ tabs'[t].call.row.failed = wrong'[a].count - 1
    BY <1>1, <2>1, <2>2, <2>5
  <2> QED
    BY <1>1, <1>4, <2>1, <2>7, <2>8 DEF Exists
<1> QED
  BY <1>5, <1>6, <1>7

-----------------------------------------------------------------------------
(* The invariant *)

(* The invariant holds at first. *)
LEMMA SoundInit == Init => Sound
<1> SUFFICES ASSUME Init PROVE Sound
  OBVIOUS
<1>0. /\ 0 \in 0..LastTime /\ 0 \in 0..MaxCalls /\ MaxFailed > 0 /\ MaxFailed \in Nat
  BY AccountsAssumption
<1>1. \A t \in Tabs : tabs[t] = SignedOut
  BY DEF Init
<1>2. SignedOut \in Tab /\ SignedOut.call = None /\ SignedOut.token = None
      /\ SignedOut.user = None
  BY DEF SignedOut, Tab, Optional
<1>3. ASSUME NEW a \in Accounts, users[a] # None
      PROVE  users[a] \in User /\ users[a].active /\ users[a].failed = 0
  <2>1. PICK r \in Created, p \in Passwords : users[a] = NewUser(r, p)
    BY <1>3 DEF Init, Optional
  <2> QED
    BY <2>1, NewUserFits DEF NewUser
<1>4. users \in [Accounts -> Optional(User)]
  BY <1>3 DEF Init, Optional
<1>5. Typed
  <2>1. tabs \in [Tabs -> Tab]
    BY <1>2 DEF Init
  <2>2. \A t \in Tabs : Fits(tabs[t].call) /\ InSession(tabs[t].call, tabs[t].token)
    BY <1>1, <1>2 DEF Fits, Is, InSession
  <2>3. \A t \in Tabs : (tabs[t].token = None <=> tabs[t].user = None)
    BY <1>1, <1>2
  <2>4. wrong \in [Accounts -> [count : Nat, last : 0..LastTime]]
        /\ disabled \in [Accounts -> 0..LastTime]
    BY <1>0 DEF Init
  <2> QED
    BY <1>0, <1>4, <2>1, <2>2, <2>3, <2>4 DEF Init, Typed
<1>6. Timely
  BY <1>0, <1>1, <1>2 DEF Init, Timely, Stage
<1>7. OwnersGuarded
  <2>1. ActiveOwners # {}
    BY <1>3 DEF Init, ActiveOwners, Exists
  <2> QED
    BY <1>1, <1>2, <2>1 DEF OwnersGuarded, Stage
<1>8. TokensFade
  BY <1>1, <1>2 DEF TokensFade, LoginAnswered, LoginHeld, Reading, Stage
<1>9. TriesCounted
  <2>1. \A t \in Tabs, a \in Accounts : ~Holds(t, a) /\ ~LoginHeld(t)
    BY <1>1, <1>2 DEF Holds, LoginHeld, Reading, Stage
  <2>2. \A a \in Accounts : wrong[a].count = 0
    BY DEF Init
  <2>3. \A a \in Accounts : Exists(a) => Agrees(a)
    BY <1>0, <1>3, <2>2 DEF Agrees, Exists
  <2> QED
    BY <2>1, <2>2, <2>3 DEF TriesCounted
<1> QED
  BY <1>5, <1>6, <1>7, <1>8, <1>9 DEF Sound

(* Every step keeps the inductive invariant. *)
LEMMA SoundAlways == Spec => []Sound
<1>1. Sound /\ [Next]_vars => Sound'
  BY TypedStep, TimelyStep, OwnersGuardedStep, TokensFadeStep, TriesCountedStep DEF Sound
<1> QED
  BY <1>1, SoundInit, PTL DEF Spec

-----------------------------------------------------------------------------
(* Theorems *)

(* Types: a tab has a token and a user or neither, and every call is one   *)
(* of the six, at one of three stages, with a known code.                  *)
THEOREM Types == Spec => []TypeOK
<1>1. Sound => TypeOK
  <2> SUFFICES ASSUME Typed PROVE TypeOK
    BY DEF Sound
  <2>1. ASSUME NEW t \in Tabs
        PROVE  /\ tabs[t].token \in Optional(Token) /\ tabs[t].user \in Optional(Shown)
               /\ tabs[t].expiresAt \in Nat
               /\ tabs[t].call # None =>
                    /\ tabs[t].call.op \in Ops
                    /\ tabs[t].call.pc \in {"sent", "read", "answered"}
                    /\ tabs[t].call.pc = "answered" => tabs[t].call.code \in Codes
    <3>1. tabs[t] \in Tab
      BY DEF Typed
    <3>2. tabs[t].call # None => tabs[t].call \in Sent \cup Held \cup Given
      BY <3>1 DEF Tab, Optional
    <3> QED
      BY <3>1, <3>2 DEF Tab, Sent, Held, Given
  <2> QED
    BY <2>1 DEF Typed, TypeOK
<1> QED
  BY <1>1, SoundAlways, PTL

(* setStatus: an active owner remains, for any number of owners and of     *)
(* handlers that overlap, unless two of them disable accounts at once.     *)
THEOREM SomeOwnerRemains == Spec => []OwnerRemains
<1>1. Sound => OwnerRemains
  BY DEF Sound, OwnersGuarded, OwnerRemains
<1> QED
  BY <1>1, SoundAlways, PTL

(* jwt.strategy.ts: a token of a disabled account is good for a token's    *)
(* life and the time of a login that was under way, and no longer.         *)
THEOREM DisabledAccountsFade == Spec => []DisabledFades
<1>1. Sound => DisabledFades
  <2> SUFFICES ASSUME Sound, NEW t \in Tabs, tabs[t].token # None
               PROVE  LET token == tabs[t].token
                      IN  \/ users[token.sub].active
                          \/ now >= token.exp
                          \/ now < disabled[token.sub] + Ttl + MaxDelay
    BY DEF DisabledFades
  <2>1. PICK k \in Token : k = tabs[t].token /\ Fades(k)
    BY DEF Sound, Typed, Tab, Optional, TokensFade
  <2>2. k.sub \in Accounts /\ k.exp \in Nat
    BY DEF Token
  <2>3. disabled[k.sub] \in Nat /\ now \in Nat /\ Ttl \in Nat /\ MaxDelay \in Nat
    BY <2>2, AccountsAssumption DEF Sound, Typed
  <2> QED
    BY <2>1, <2>2, <2>3 DEF Fades
<1> QED
  BY <1>1, SoundAlways, PTL

(* onLoginFailed: no more than MaxFailed wrong passwords in a row get a    *)
(* verdict, unless two handlers had the row in hand at once.               *)
THEOREM TriesAreLimited == Spec => []TriesLimited
<1>1. Sound => TriesLimited
  <2> SUFFICES ASSUME Sound, NEW a \in Accounts \ raced PROVE wrong[a].count <= MaxFailed
    BY DEF TriesLimited
  <2>1. MaxFailed \in Nat /\ wrong[a].count \in Nat
    BY AccountsAssumption DEF Sound, Typed
  <2>2. CASE \E t \in Tabs : LoginHeld(t) /\ Holds(t, a)
    BY <2>1, <2>2 DEF Sound, TriesCounted
  <2>3. CASE ~\E t \in Tabs : LoginHeld(t) /\ Holds(t, a)
    <3>1. ~Exists(a) => wrong[a].count = 0
      BY DEF Sound, TriesCounted
    <3>2. Exists(a) => Agrees(a)
      BY <2>3 DEF Sound, TriesCounted
    <3> QED
      BY <2>1, <3>1, <3>2 DEF Agrees
  <2> QED
    BY <2>2, <2>3
<1> QED
  BY <1>1, SoundAlways, PTL

(* userStore: the console keeps a session for as long as the server        *)
(* accepts its token.                                                      *)
THEOREM GoodTokensKept == Spec => []GoodTokenKept
<1>1. Sound => GoodTokenKept
  <2> SUFFICES ASSUME Sound, NEW t \in Tabs, tabs[t].token # None, now < tabs[t].token.exp
               PROVE  SessionValid(t)
    BY DEF GoodTokenKept
  <2>1. tabs[t].token \in Token /\ tabs[t].token.exp <= tabs[t].expiresAt
    BY DEF Sound, Typed, Tab, Optional, TokensFade
  <2>2. tabs[t].token.exp \in Nat /\ tabs[t].expiresAt \in Nat /\ now \in Nat
    BY <2>1, AccountsAssumption DEF Sound, Typed, Tab, Token
  <2> QED
    BY <2>1, <2>2 DEF SessionValid
<1> QED
  BY <1>1, SoundAlways, PTL
=============================================================================
