--------------------------- MODULE SignedRequest ---------------------------
(***************************************************************************)
(* The requests of a registered client on their way to the server: signed  *)
(* with a timestamp and a nonce (packages/sdk/src/trial/signer.ts), let in *)
(* by HmacAuthGuard with NonceService (packages/server/src/modules/client/ *)
(* hmac-auth.guard.ts, nonce.service.ts).  The network may delay a         *)
(* request, lose it or deliver it twice.                                   *)
(*                                                                         *)
(* Signatures verify: what is sent is what was signed, under the           *)
(* instance's own secret.  The instance is active.  A nonce is never drawn *)
(* twice: here it stands for another request when the one it stood for is  *)
(* over and no copy of it is left, so that nobody can ask for it again.    *)
(***************************************************************************)
EXTENDS Integers, FiniteSets

CONSTANTS
    None,
    SkewTol,      \* TIMESTAMP_SKEW_TOL_SEC
    NonceTtl,     \* NONCE_TTL_SEC
    Offsets,      \* how far the client's clock may be off
    Nonces,       \* bound: requests that are not over at the same time, numbered
    LastTime      \* bound: the clock stops there

ASSUME RequestAssumption ==
    /\ SkewTol \in Nat /\ NonceTtl \in Nat /\ SkewTol <= NonceTtl
    /\ Offsets \subseteq Int /\ Nonces \subseteq Nat
    /\ LastTime \in Nat
    /\ None \notin Int

VARIABLES
    now,       \* the server's clock
    offset,    \* the client's clock, relative to it
    network,   \* the requests under way: [nonce, stamp, batch]
    nonces,    \* lc_replay_nonce: when the nonce expires, or None
    admitted,  \* history: how often each request was let in
    unguarded  \* history: the requests let in while the nonce table failed

requestVars == <<now, offset, network, nonces, admitted, unguarded>>

Message(Bodies) == [nonce : Nonces, stamp : Int, body : Bodies]

RequestTypeOK(Bodies) ==
    /\ now \in 0 .. LastTime
    /\ offset \in Offsets
    /\ network \subseteq Message(Bodies)
    /\ nonces \in [Nonces -> Nat \cup {None}]
    /\ admitted \in [Nonces -> Nat]
    /\ unguarded \subseteq Nonces

RequestInit ==
    /\ now = 0
    /\ offset \in Offsets
    /\ network = {}
    /\ nonces = [n \in Nonces |-> None]
    /\ admitted = [n \in Nonces |-> 0]
    /\ unguarded = {}

Travelling == {r.nonce : r \in network}

(* signRequest: the client's time, and a nonce of its own. *)
Sign(n, body) ==
    /\ n \notin Travelling
    /\ network' = network \cup {[nonce |-> n, stamp |-> now + offset, body |-> body]}
    /\ nonces' = [nonces EXCEPT ![n] = None]
    /\ admitted' = [admitted EXCEPT ![n] = 0]
    /\ unguarded' = unguarded \ {n}
    /\ UNCHANGED <<now, offset>>

(* Variant for mutation: timestamps are good for longer than nonces. *)
FreshLonger(r) == now - r.stamp <= 2 * SkewTol

(* isTimestampFresh *)
Fresh(r) == now - r.stamp <= SkewTol /\ r.stamp - now <= SkewTol

(* The guard refuses what is not fresh and what it has seen. *)
Refused(r) == ~Fresh(r) \/ nonces[r.nonce] # None

(* The insert of the nonce decides. *)
Admit(r) ==
    /\ ~Refused(r)
    /\ nonces' = [nonces EXCEPT ![r.nonce] = now + NonceTtl]
    /\ admitted' = [admitted EXCEPT ![r.nonce] = @ + 1]
    /\ UNCHANGED <<now, offset, unguarded>>

(* The insert fails for another reason: the request is let in. *)
AdmitUnguarded(r) ==
    /\ Fresh(r)
    /\ admitted' = [admitted EXCEPT ![r.nonce] = @ + 1]
    /\ unguarded' = unguarded \cup {r.nonce}
    /\ UNCHANGED <<now, offset, nonces>>

Refuse(r) ==
    /\ Refused(r)
    /\ UNCHANGED <<now, offset, nonces, admitted, unguarded>>

(* purgeEphemeral, every ten minutes. *)
PurgeNonces ==
    /\ \E n \in Nonces : nonces[n] # None /\ nonces[n] < now
    /\ nonces' = [n \in Nonces |->
           IF nonces[n] # None /\ nonces[n] < now THEN None ELSE nonces[n]]
    /\ UNCHANGED <<now, offset, network, admitted, unguarded>>

RequestTick ==
    /\ now < LastTime
    /\ now' = now + 1
    /\ UNCHANGED <<offset, network, nonces, admitted, unguarded>>

(* A request that arrives twice is let in once, however late its copy, as  *)
(* long as the client's clock is not ahead of the server's and the table   *)
(* of nonces can be written (nonce.service.ts:6, 16-21): a nonce is        *)
(* forgotten only after its timestamp is stale.                            *)
AdmittedOnce == \A n \in Nonces \ unguarded : offset <= 0 => admitted[n] <= 1
=============================================================================
