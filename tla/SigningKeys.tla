---------------------------- MODULE SigningKeys ----------------------------
(***************************************************************************)
(* The signing keys of the server and their rotation                       *)
(* (packages/server/src/modules/signing-key/signing-key.service.ts).  No   *)
(* operation runs in a transaction: each is cut at its statements, and     *)
(* several administrators may be at it.                                    *)
(*                                                                         *)
(* The administrators follow the order the service prescribes: a key is    *)
(* created without taking over, its public half is shipped with a client   *)
(* release, and only a key that every client knows is activated.  A        *)
(* release keeps the keys of the release before it.  The service starts    *)
(* with a first key, already shipped (ensureBootstrapKey).                 *)
(***************************************************************************)
CONSTANTS
    Kids,         \* bound: the keys that may exist
    FirstKey,     \* the key the service was set up with
    ForeignKeys,  \* keys of another instance that the clients know already
    KeyAdmins     \* owners at work on the keys

ASSUME KeysAssumption == FirstKey \in Kids /\ ForeignKeys \subseteq Kids

VARIABLES
    keys,      \* lc_signing_key: the status of each key, or "absent"
    deployed,  \* the keys every deployed client trusts
    keyOp      \* per owner: the statement that comes next, and the key it is about

keyVars == <<keys, deployed, keyOp>>

KeyStatuses == {"absent", "active", "retiring", "retired"}
KeySteps    == {"none", "demote", "promote", "demoteForImport", "insertActive", "insert",
                "retire"}

KeysTypeOK ==
    /\ keys \in [Kids -> KeyStatuses]
    /\ deployed \subseteq Kids
    /\ keyOp \in [KeyAdmins -> [step : KeySteps, kid : Kids]]

KeysInit ==
    /\ keys = [k \in Kids |-> IF k = FirstKey THEN "active" ELSE "absent"]
    /\ deployed = {FirstKey} \cup ForeignKeys
    /\ keyOp = [a \in KeyAdmins |-> [step |-> "none", kid |-> FirstKey]]

-----------------------------------------------------------------------------
(* getActiveKey returns one of these, the one activated last. *)
ActiveKeys == {k \in Kids : keys[k] = "active"}

(* listPublicKeys: what a client release is given. *)
PublicKeys == {k \in Kids : keys[k] \in {"active", "retiring"}}

Goto(a, step, k) == keyOp' = [keyOp EXCEPT ![a] = [step |-> step, kid |-> k]]

Finish(a) == keyOp' = [keyOp EXCEPT ![a] = [step |-> "none", kid |-> FirstKey]]

(* Variant for mutation: the new key is active at once (the code before    *)
(* activate was an option).                                                *)
CreateActive(a, k) ==
    /\ keyOp[a].step = "none"
    /\ keys[k] = "absent" /\ k \notin ForeignKeys
    /\ keys' = [keys EXCEPT ![k] = "active"]
    /\ UNCHANGED <<deployed, keyOp>>

(* create, without taking over: the key waits to be shipped. *)
Create(a, k) ==
    /\ keyOp[a].step = "none"
    /\ keys[k] = "absent" /\ k \notin ForeignKeys
    /\ keys' = [keys EXCEPT ![k] = "retiring"]
    /\ UNCHANGED <<deployed, keyOp>>

(* importKey, with or without taking over: the key must be new here. *)
Import(a, k) ==
    /\ keyOp[a].step = "none"
    /\ k \in ForeignKeys /\ keys[k] = "absent"
    /\ \/ Goto(a, "insert", k)
       \/ k \in deployed /\ Goto(a, "demoteForImport", k)
    /\ UNCHANGED <<keys, deployed>>

(* activate: the key must not be retired; the others step down first. *)
Activate(a, k) ==
    /\ keyOp[a].step = "none"
    /\ keys[k] \in {"active", "retiring"}
    /\ k \in deployed
    /\ Goto(a, "demote", k)
    /\ UNCHANGED <<keys, deployed>>

Demote(a) ==
    /\ keyOp[a].step \in {"demote", "demoteForImport"}
    /\ keys' = [k \in Kids |-> IF keys[k] = "active" THEN "retiring" ELSE keys[k]]
    /\ Goto(a, IF keyOp[a].step = "demote" THEN "promote" ELSE "insertActive", keyOp[a].kid)
    /\ UNCHANGED deployed

(* Whatever became of the key meanwhile. *)
Promote(a) ==
    /\ keyOp[a].step = "promote"
    /\ keys' = [keys EXCEPT ![keyOp[a].kid] = "active"]
    /\ Finish(a)
    /\ UNCHANGED deployed

(* The row of an imported key; a kid that was inserted meanwhile is        *)
(* refused by the unique index.                                            *)
Insert(a) ==
    /\ keyOp[a].step \in {"insert", "insertActive"}
    /\ keys' = [keys EXCEPT ![keyOp[a].kid] =
                   IF @ # "absent" THEN @
                   ELSE IF keyOp[a].step = "insert" THEN "retiring" ELSE "active"]
    /\ Finish(a)
    /\ UNCHANGED deployed

(* retire: an active key only while another one could be activated. *)
Retire(a, k) ==
    /\ keyOp[a].step = "none"
    /\ keys[k] # "absent"
    /\ keys[k] = "active" => \E j \in Kids : keys[j] = "retiring"
    /\ Goto(a, "retire", k)
    /\ UNCHANGED <<keys, deployed>>

FinishRetire(a) ==
    /\ keyOp[a].step = "retire"
    /\ keys' = [keys EXCEPT ![keyOp[a].kid] = "retired"]
    /\ Finish(a)
    /\ UNCHANGED deployed

(* The request dies between two statements. *)
Abandon(a) ==
    /\ keyOp[a].step # "none"
    /\ Finish(a)
    /\ UNCHANGED <<keys, deployed>>

(* A client release with the present public keys reaches every customer. *)
RollOut ==
    /\ deployed' = deployed \cup PublicKeys
    /\ UNCHANGED <<keys, keyOp>>

KeyStep ==
    \/ \E a \in KeyAdmins, k \in Kids :
          Create(a, k) \/ Import(a, k) \/ Activate(a, k) \/ Retire(a, k)
    \/ \E a \in KeyAdmins :
          Demote(a) \/ Promote(a) \/ Insert(a) \/ FinishRetire(a) \/ Abandon(a)
    \/ RollOut
=============================================================================
