--------------------------- MODULE MC_Supervisor ---------------------------
(***************************************************************************)
(* The supervisor for TLC, in three worlds that have the variables in      *)
(* common: one where nothing is pushed and the days go by, one where       *)
(* version 2 needs packages of its own, one where version 2 does not boot. *)
(***************************************************************************)
EXTENDS Supervisor

VARIABLE world

(* The constants of the configuration are those of the days: four of them, *)
(* one record, one day of retention, two of backups.                       *)

(* Two versions, and a database nobody writes to.                          *)
U == INSTANCE Supervisor WITH
        Newest <- 2, Broken <- {}, NewPackages <- {2}, Records <- {},
        LastDay <- 2, Retention <- 1, KeepDays <- 2, KeepMin <- 1

X == INSTANCE Supervisor WITH
        Newest <- 2, Broken <- {2}, NewPackages <- {}, Records <- {},
        LastDay <- 1, Retention <- 1, KeepDays <- 2, KeepMin <- 1

all == <<world, vars>>

In(w) == world = w /\ world' = w

WorldInit ==
    \/ world = "days"    /\ Init
    \/ world = "updates" /\ U!Init
    \/ world = "broken"  /\ X!Init

WorldNext ==
    \/ In("days")    /\ Next
    \/ In("updates") /\ U!Next
    \/ In("broken")  /\ X!Next

(* The fairness of Supervisor, asked in the world that is explored.        *)
Fair(A, B) == (In("updates") /\ A) \/ (In("broken") /\ B)
WorldFairness ==
    /\ WF_all(Fair(U!Cycle, X!Cycle))
    /\ WF_all(Fair(U!Installed \/ U!NotInstalled, X!Installed \/ X!NotInstalled))
    /\ WF_all(Fair(U!ServerComesUp \/ U!ServerDoesNot, X!ServerComesUp \/ X!ServerDoesNot))
    /\ SF_all(Fair(U!Fetch, X!Fetch)) /\ SF_all(Fair(U!UpdateBackup, X!UpdateBackup))
    /\ SF_all(Fair(U!Pull, X!Pull)) /\ SF_all(Fair(U!Pip, X!Pip))

WorldSpec == WorldInit /\ [][WorldNext]_all /\ WorldFairness

(* OkMeansRunning and DailyPurgeIsRecoverable are checked in every world.  *)
(* The others are promised where updates come: a dead server comes back,   *)
(* and what was pushed is pulled in the end, whatever fails in between     *)
(* (serve.py, _watch_once).                                                *)
BackAndUpdated ==
    /\ world = "updates" => U!ComesBack
    /\ world = "broken"  => X!ComesBack
    /\ world # "days"    => U!PulledInTheEnd

(* The docstring of apply_update (serve.py 499): a failure is retried, so  *)
(* the packages of the version that was pulled are installed in the end.   *)
InstalledAtLast == world # "days" => U!InstalledInTheEnd
=============================================================================
