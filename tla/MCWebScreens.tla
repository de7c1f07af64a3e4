---------------------------- MODULE MCWebScreens ----------------------------
(* An instance of WebScreens for TLC: two days of one month and one of the next. *)
EXTENDS WebScreens, TLC

TwoMonths == (0 :> 0) @@ (1 :> 0) @@ (2 :> 1)

\* The worker's list holds one day: a day is forgotten after a change of a newer one.
ThreeForTheWorker == [p \in {"family", "worker", "period", "profile"} |->
                        IF p = "worker" THEN 3 ELSE 2]
=============================================================================
