---------------------------- MODULE TrialPromise ----------------------------
(***************************************************************************)
(* What the registration of trials promises                                *)
(* (packages/server/src/modules/client/trial.service.ts:50-56, 131-137):   *)
(* an installation is granted one trial start, for good; once any          *)
(* installation of a deployment is granted, no later one starts after that *)
(* moment; and a client is told nothing but what was granted.              *)
(***************************************************************************)
EXTENDS Integers

CONSTANTS
    Installs,  \* installations
    None,
    LastTime   \* bound: the clock stops there

VARIABLES
    granted,  \* per installation: the start of its trial, or None
    since,    \* when the first installation was granted, or None
    told      \* what the client holds: an installation and its start, or None

promiseVars == <<granted, since, told>>

PromiseInit ==
    /\ granted = [i \in Installs |-> None]
    /\ since = None
    /\ told = None

(* The first grant sets the moment; no later grant starts after it. *)
Grant(i, start, t) ==
    /\ granted[i] = None
    /\ start <= t
    /\ since # None => start <= since
    /\ granted' = [granted EXCEPT ![i] = start]
    /\ since' = IF since = None THEN t ELSE since
    /\ UNCHANGED told

Tell(i) ==
    /\ granted[i] # None
    /\ told' = [install |-> i, start |-> granted[i]]
    /\ UNCHANGED <<granted, since>>

Forget ==
    /\ told' = None
    /\ UNCHANGED <<granted, since>>

PromiseNext ==
    \/ \E i \in Installs, start, t \in 0 .. LastTime : Grant(i, start, t)
    \/ \E i \in Installs : Tell(i)
    \/ Forget

PromiseSpec == PromiseInit /\ [][PromiseNext]_promiseVars
=============================================================================
