------------------------------ MODULE RunQueue -------------------------------
(***************************************************************************)
(* What the check-job queue promises about one job, without clocks, rows   *)
(* or workers: it waits for its tick, becomes due, is held by a lease and  *)
(* is handed back, and a run somebody asks for is owed until it starts.    *)
(*                                                                         *)
(* A request is asked (the job is due, and only a hold may end that),      *)
(* parked (whoever hands the job back hands it back due) or carried (the   *)
(* run of the hold is the answer).  It ends when that run starts.  The one *)
(* other end is TurnAway: the rate limit refuses the run, and the request  *)
(* goes with it.                                                           *)
(***************************************************************************)
VARIABLES
    status,   \* where the job is
    owed,     \* what is owed to the newest request for a run
    sliced    \* a multi-step run is in progress; a hold is a slice of it

vars == <<status, owed, sliced>>

Init ==
    /\ status \in {"waiting", "due"}
    /\ owed = "no"
    /\ sliced \in BOOLEAN

\* The tick comes, or the job is pulled forward.
BecomeDue ==
    /\ status = "waiting"
    /\ status' = "due"
    /\ UNCHANGED <<owed, sliced>>

\* A job that is held, or between two slices, is not made due.
Ask ==
    /\ status # "gone"
    /\ \/ /\ status = "held" \/ sliced
          /\ owed' = "parked"
          /\ UNCHANGED status
       \/ /\ status # "held"
          /\ owed' \in {"asked", "parked"}
          /\ status' = "due"
    /\ UNCHANGED sliced

\* A run takes the job, and the request with it; a slice leaves it parked.
Hold ==
    /\ status \in {"waiting", "due"}
    /\ status' = "held"
    /\ owed' = IF owed = "asked" \/ (owed = "parked" /\ ~sliced) THEN "carried" ELSE owed
    /\ UNCHANGED sliced

\* The run of the hold starts.
Serve ==
    /\ status = "held" /\ owed = "carried"
    /\ owed' = "no"
    /\ UNCHANGED <<status, sliced>>

\* The rate limit refuses the run of the hold.
TurnAway ==
    /\ status = "held" /\ owed = "carried"
    /\ owed' = "no"
    /\ status' \in {"due", "waiting"}
    /\ UNCHANGED sliced

\* The holder gives the job back, due if a request is parked.
Return ==
    /\ status = "held"
    /\ \/ /\ owed = "parked"
          /\ owed' = "asked"
          /\ status' = "due"
       \/ /\ owed = "no"
          /\ owed' = "no"
          /\ status' \in {"due", "waiting"}
    /\ UNCHANGED sliced

\* The holder is gone; the job comes back by itself.
Lapse ==
    /\ status = "held"
    /\ status' = "due"
    /\ UNCHANGED <<owed, sliced>>

Remove ==
    /\ status # "gone"
    /\ status' = "gone"
    /\ owed' = "no"
    /\ UNCHANGED sliced

Next == BecomeDue \/ Ask \/ Hold \/ Serve \/ TurnAway \/ Return \/ Lapse \/ Remove

Spec == Init /\ [][Next]_vars
=============================================================================
