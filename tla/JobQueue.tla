------------------------------ MODULE JobQueue ------------------------------
(***************************************************************************)
(* What the durable job queue promises to the rest of LeonAid, without     *)
(* rows, clocks, retry budgets or processes: a job waits, runs under       *)
(* exactly one claim, and ends done or failed; a claim is only taken away  *)
(* once its lease has run out; only the holder of the claim a job is bound *)
(* to decides how the job ends; done is final, and only done jobs are      *)
(* removed.                                                                *)
(***************************************************************************)
EXTENDS Naturals

CONSTANTS Jobs,     \* the durable jobs that may be submitted
          Claims    \* identities of claims

NoClaim == 0

VARIABLES phase,    \* where each job stands
          owner,    \* the claim a running job is bound to
          late,     \* whether the lease of that claim has run out
          held      \* pairs of a job and a claim somebody still works under

vars == <<phase, owner, late, held>>

Init == /\ phase = [j \in Jobs |-> "unknown"]
        /\ owner = [j \in Jobs |-> NoClaim]
        /\ late = [j \in Jobs |-> FALSE]
        /\ held = {}

(* A business transaction commits together with its job. *)
Submit(j) == /\ phase[j] = "unknown"
             /\ phase' = [phase EXCEPT ![j] = "waiting"]
             /\ UNCHANGED <<owner, late, held>>

(* A waiting job, or one whose lease ran out, is bound to a new claim. *)
Grant(j, c) == /\ \/ phase[j] = "waiting"
                  \/ phase[j] = "running" /\ late[j]
               /\ \A k \in Jobs : owner[k] # c /\ <<k, c>> \notin held
               /\ phase' = [phase EXCEPT ![j] = "running"]
               /\ owner' = [owner EXCEPT ![j] = c]
               /\ late' = [late EXCEPT ![j] = FALSE]
               /\ held' = held \cup {<<j, c>>}

(* The holder of the job's claim ends it in phase p: done, failed for      *)
(* good, or waiting for another attempt.                                   *)
Settle(j, c, p) == /\ phase[j] = "running"
                   /\ owner[j] = c
                   /\ <<j, c>> \in held
                   /\ phase' = [phase EXCEPT ![j] = p]
                   /\ owner' = [owner EXCEPT ![j] = NoClaim]
                   /\ late' = [late EXCEPT ![j] = FALSE]
                   /\ held' = held \ {<<j, c>>}

(* A holder disappears, or its outcome comes too late and is void. *)
Drop(j, c) == /\ <<j, c>> \in held
              /\ held' = held \ {<<j, c>>}
              /\ UNCHANGED <<phase, owner, late>>

(* Leases run out with time. *)
Expire(S) == /\ \A j \in S : phase[j] = "running"
             /\ late' = [j \in Jobs |-> late[j] \/ j \in S]
             /\ UNCHANGED <<phase, owner, held>>

(* An operator revives a failed job; the owning module may also declare a  *)
(* job that is not running done.                                           *)
Revive(j) == /\ phase[j] = "failed"
             /\ phase' = [phase EXCEPT ![j] = "waiting"]
             /\ UNCHANGED <<owner, late, held>>

Resolve(j) == /\ phase[j] \in {"waiting", "failed"}
              /\ phase' = [phase EXCEPT ![j] = "done"]
              /\ UNCHANGED <<owner, late, held>>

Remove(S) == /\ \A j \in S : phase[j] = "done"
             /\ phase' = [j \in Jobs |-> IF j \in S THEN "removed" ELSE phase[j]]
             /\ UNCHANGED <<owner, late, held>>

Next == \/ \E j \in Jobs : \/ Submit(j)
                           \/ Revive(j)
                           \/ Resolve(j)
        \/ \E j \in Jobs, c \in Claims :
             \/ Grant(j, c)
             \/ \E p \in {"done", "failed", "waiting"} : Settle(j, c, p)
             \/ Drop(j, c)
        \/ \E S \in SUBSET Jobs : Expire(S) \/ Remove(S)

Spec == Init /\ [][Next]_vars
=============================================================================
