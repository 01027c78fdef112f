------------------------------ MODULE MCUsage ------------------------------
(* Small instances of UsageIngest: two tasks of two users, reported in two *)
(* batches.                                                                *)
EXTENDS UsageIngest, TLC

Rep(t, u, started, finished, status, amount) ==
    [task |-> t, user |-> u, started |-> started, finished |-> finished,
     status |-> status, amount |-> amount]

(* A long task that runs over both windows, and one of the other user; the *)
(* second batch reports them in the other order.                           *)
MCContent ==
    <<<<Rep("t1", "u1", 0, None, "running", 1), Rep("t2", "u2", None, 1, "completed", 2)>>,
      <<Rep("t2", "u2", None, 1, "completed", 4), Rep("t1", "u1", 0, 1, "completed", 8)>>>>

(* A batch whose one report has no status. *)
MCNoStatus == <<<<Rep("t1", "u1", 0, None, None, 1)>>>>

(* A task without times, reported in two windows that end on two dates. *)
MCNoTimes ==
    <<<<Rep("t1", "u1", None, None, "running", 1)>>,
      <<Rep("t1", "u1", None, None, "completed", 2), Rep("t2", "u2", 1, 1, "completed", 4)>>>>

(* The client's clock is right, or a little behind. *)
MCOffsets == {-1, 0}

MCWindowEnd == <<1, 1>>
MCOneEnd == <<0>>
=============================================================================
