----------------------------- MODULE MCManager -----------------------------
(* Small instances of LicenseManager: the credentials, and the symmetry of *)
(* the ids and operations, which nothing tells apart.                      *)
EXTENDS LicenseManager, TLC

(* A formal credential, a trial one and a file that does not verify. *)
Formal(start, end) ==
    [typ |-> "formal", ours |-> TRUE, start |-> start, end |-> end,
     warnDays |-> None, skewTol |-> None]

Trial(end) ==
    [typ |-> "trial", ours |-> TRUE, start |-> 0, end |-> end,
     warnDays |-> None, skewTol |-> None]

MCCred ==
    [formal |-> [verify |-> "ok", payload |-> Formal(0, None), tofu |-> TRUE],
     trial  |-> [verify |-> "ok", payload |-> Trial(3), tofu |-> TRUE],
     broken |-> [verify |-> "signature", payload |-> Formal(0, None), tofu |-> FALSE]]

Symmetry == Permutations(InstallIds) \cup Permutations(Ops)
=============================================================================
