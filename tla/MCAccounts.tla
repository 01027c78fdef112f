----------------------------- MODULE MCAccounts -----------------------------
(* Small instances of AdminAccounts: no account, password or tab is special. *)
EXTENDS AdminAccounts, TLC

Symmetry ==
    {p @@ q @@ r : p \in Permutations(Tabs), q \in Permutations(Accounts),
                   r \in Permutations(Passwords)}
=============================================================================
