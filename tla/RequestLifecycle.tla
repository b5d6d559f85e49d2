--------------------------- MODULE RequestLifecycle ---------------------------
(***************************************************************************)
(* What the audit trail promises whoever reads it: the administrator's     *)
(* pages, the statistics, the usage accounts.  Per proxied request there   *)
(* is one row and one row per call to an upstream.  Nothing here says how  *)
(* routes are chosen, retried or cooled down.  Executor.tla implements it. *)
(***************************************************************************)
EXTENDS Integers, Sequences

CONSTANT Requests

VARIABLES
    status,   \* request -> its row's status, "none" before there is a row
    trail,    \* request -> the statuses of its attempts' rows, in order
    running,  \* the requests a live process is working on
    trusted   \* no database write has been refused so far

lvars == <<status, trail, running, trusted>>

Final == {"COMPLETED", "FAILED", "CANCELLED"}

LifecycleInit ==
    /\ status = [r \in Requests |-> "none"]
    /\ trail = [r \in Requests |-> <<>>]
    /\ running = {}
    /\ trusted = TRUE

Open(r) == \E i \in DOMAIN trail[r] : trail[r][i] = "IN_PROGRESS"
Won(r)  == trail[r] # <<>> /\ trail[r][Len(trail[r])] = "COMPLETED"

Start(r) ==
    /\ status[r] = "none"
    /\ r \notin running
    /\ running' = running \cup {r}
    /\ UNCHANGED <<status, trail, trusted>>

Record(r) ==
    /\ r \in running
    /\ status[r] = "none"
    /\ status' = [status EXCEPT ![r] = "IN_PROGRESS"]
    /\ UNCHANGED <<trail, running, trusted>>

(* Attempts follow one another, and none follows a successful one.         *)
Begin(r) ==
    /\ r \in running
    /\ status[r] = "IN_PROGRESS"
    /\ ~Open(r) /\ ~Won(r)
    /\ trail' = [trail EXCEPT ![r] = Append(@, "IN_PROGRESS")]
    /\ UNCHANGED <<status, running, trusted>>

(* An attempt ends with one verdict. It may outlive the request's by one   *)
(* step, the process's last on the request.                                *)
End(r) ==
    /\ r \in running
    /\ Open(r)
    /\ \E final \in Final : trail' = [trail EXCEPT ![r][Len(trail[r])] = final]
    /\ \/ UNCHANGED running
       \/ status[r] # "IN_PROGRESS" /\ running' = running \ {r}
    /\ UNCHANGED <<status, trusted>>

(* The request's verdict is given once, and it is a success exactly when   *)
(* its last attempt was one.                                               *)
Settle(r) ==
    /\ r \in running
    /\ status[r] = "IN_PROGRESS"
    /\ \E final \in Final :
          /\ Won(r) <=> final = "COMPLETED"
          /\ status' = [status EXCEPT ![r] = final]
    /\ UNCHANGED <<trail, running, trusted>>

(* The process lets go of a request whose rows are all settled.            *)
Leave(r) ==
    /\ r \in running
    /\ status[r] # "IN_PROGRESS" /\ ~Open(r)
    /\ running' = running \ {r}
    /\ UNCHANGED <<status, trail, trusted>>

(* The process dies, and the next one closes the request rows it left.     *)
Die ==
    /\ running' = {}
    /\ UNCHANGED <<status, trail, trusted>>

Bury ==
    /\ running = {}
    /\ status' = [r \in Requests |->
                     IF status[r] = "IN_PROGRESS" THEN "FAILED" ELSE status[r]]
    /\ UNCHANGED <<trail, running, trusted>>

(* Once the database has refused a write nothing is promised any more.     *)
Degrade == trusted' = FALSE

LifecycleNext ==
    \/ Degrade
    \/ \E r \in Requests : \/ Start(r) \/ Record(r) \/ Begin(r) \/ End(r)
                           \/ Settle(r) \/ Leave(r)
    \/ Die
    \/ Bury

LifecycleSpec == LifecycleInit /\ [][LifecycleNext]_lvars
===============================================================================
