----------------------------- MODULE MCIssuing -----------------------------
(* Small instances of LicenseIssuing: nothing tells the sessions, the      *)
(* credentials or the owners apart.                                        *)
EXTENDS LicenseIssuing, TLC

Symmetry ==
    Permutations(Sessions) \cup Permutations(Jtis) \cup Permutations(KeyAdmins)
=============================================================================
