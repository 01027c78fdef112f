----------------------------- MODULE MCConsole -----------------------------
(* Small instances of LicenseConsole. *)
EXTENDS LicenseConsole

Entry(start, end, warn, features, users, tokens, period) ==
    [customer |-> "c1", start |-> start, end |-> end, warnDays |-> warn, features |-> features,
     limits |-> [users |-> users, tokens |-> tokens, period |-> period]]

(* Limited and unlimited, dated and perpetual; one feature, all and none. *)
MCForms == {Entry(0, 1, 1, {"f1"}, 1, 2, "monthly"),
            Entry(1, None, 2, {"f1", "f2"}, None, None, "total"),
            Entry(0, 1, 1, {}, None, None, "total")}

MCLongWarning == {Entry(0, 3, 1, {"f1"}, None, None, "total"),
                  Entry(0, 3, 3, {"f1"}, None, None, "total")}
=============================================================================
