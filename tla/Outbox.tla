------------------------------- MODULE Outbox -------------------------------
(***************************************************************************)
(* The PostgreSQL job queue (table outbox_event) and its workers: claims   *)
(* with a lease and a fencing token, retries with exponential backoff up   *)
(* to a dead letter, manual restarts, retention, and worker crashes.       *)
(*                                                                         *)
(* Time is relative. A timestamp column is kept as its distance from now,  *)
(* so the clock needs no bound: avail is available_at - now (saturating    *)
(* below at -Horizon), lease what is left of claimed_at + claim_lease, age *)
(* how long ago completed_at was, up to the retention period. Tick lets    *)
(* one unit pass for every column at once. claimed_at is only read while   *)
(* the job is processing, so lease is 0 in every other status.             *)
(***************************************************************************)
EXTENDS Integers, FiniteSets

CONSTANTS Jobs,            \* outbox_event ids
          Workers,         \* worker processes, each running run_once in a loop
          NumTokens,       \* claim tokens are drawn from 1..NumTokens
          MaxAttempts,     \* RetryPolicy.max_attempts
          BaseDelay,       \* RetryPolicy.base_delay
          MaximumDelay,    \* RetryPolicy.maximum_delay
          Lease,           \* AsyncpgOutboxQueue claim_lease
          HandlerTimeout,  \* handler timeout of the event types that have one
          Retention,       \* units after which a completed job may be purged
          PurgeLimit,      \* rows one retention batch deletes at most
          Horizon,         \* overdue jobs are told apart up to this age
          MaxManual,       \* bound on manual restarts of one job
          MaxCrashes,      \* bound on worker crashes
          Parked,          \* jobs whose event type belongs to a disabled module
          Unhandled,       \* jobs whose event type has no registered handler
          Timed,           \* jobs whose event type has a handler timeout
          Resolvable,      \* jobs their module may declare done itself
          Referenced       \* jobs an evidence table points at

ASSUME OutboxAssumption ==
  /\ NumTokens \in Nat
  /\ MaxAttempts \in Nat \ {0}
  /\ BaseDelay \in Nat
  /\ MaximumDelay \in Nat /\ BaseDelay <= MaximumDelay
  /\ Lease \in Nat \ {0}
  /\ HandlerTimeout \in Nat /\ HandlerTimeout < Lease
  /\ Retention \in Nat \ {0}
  /\ PurgeLimit \in Nat \ {0}
  /\ Horizon \in Nat
  /\ MaxManual \in Nat
  /\ MaxCrashes \in Nat

VARIABLES row,       \* the table outbox_event
          worker,    \* what each worker process holds in memory
          crashes    \* crashes so far

vars == <<row, worker, crashes>>

NoToken == 0
Tokens == 1..NumTokens

Status == {"absent", "pending", "processing", "completed", "dead_letter", "purged"}

Row == [status : Status,
        attempts : 0..MaxAttempts,
        avail : (-Horizon)..MaximumDelay,
        lease : 0..Lease,
        token : 0..NumTokens,
        age : 0..Retention,
        manual : 0..MaxManual]

NewRow == [status |-> "absent", attempts |-> 0, avail |-> 0, lease |-> 0,
           token |-> NoToken, age |-> 0, manual |-> 0]

(* A worker is idle, runs a handler, or is about to record its outcome.    *)
(* job, token and attempts are the ClaimedOutboxEvent; delay and dead are  *)
(* the RetryDecision; lease is what is left of the lease it was given,     *)
(* which no worker reads.                                                  *)
WorkerState == [pc : {"handling", "completing", "failing"},
                job : Jobs,
                token : 0..NumTokens,
                attempts : 0..MaxAttempts,
                lease : 0..Lease,
                delay : (-Horizon)..MaximumDelay,
                dead : BOOLEAN]

Idle == [pc |-> "idle"]

Init == /\ row = [j \in Jobs |-> NewRow]
        /\ worker = [w \in Workers |-> Idle]
        /\ crashes = 0

Busy(w) == worker[w].pc # "idle"
Handling(w) == worker[w].pc = "handling"

(***************************************************************************)
(* Retry policy                                                            *)
(***************************************************************************)

(* min(base_delay * 2 ** (attempts - 1), maximum_delay) *)
BackoffDelay(attempts) ==
  LET d == BaseDelay * 2^(attempts - 1)
  IN  IF d \in 0..MaximumDelay THEN d ELSE MaximumDelay

(* Mutant: one attempt too many. *)
AfterFailureLate(attempts) ==
  IF attempts > MaxAttempts
  THEN [dead |-> TRUE, delay |-> 0]
  ELSE [dead |-> FALSE, delay |-> BackoffDelay(attempts)]

AfterFailure(attempts) ==
  IF attempts >= MaxAttempts
  THEN [dead |-> TRUE, delay |-> 0]
  ELSE [dead |-> FALSE, delay |-> BackoffDelay(attempts)]

(* The counter stops at MaxAttempts: every larger value is used alike. *)
NextAttempt(attempts) == IF attempts < MaxAttempts THEN attempts + 1 ELSE attempts

(***************************************************************************)
(* Queue operations                                                        *)
(***************************************************************************)

Enqueue(j) ==
  /\ row[j].status = "absent"
  /\ row' = [row EXCEPT ![j].status = "pending"]
  /\ UNCHANGED <<worker, crashes>>

(* Mutant: processing jobs are taken over without waiting for the lease. *)
ClaimableEarly(j) ==
  /\ \/ row[j].status = "pending" /\ row[j].avail <= 0
     \/ row[j].status = "processing"
  /\ j \notin Parked

(* Mutant: jobs that were left processing are not taken over at all. *)
ClaimablePendingOnly(j) ==
  /\ row[j].status = "pending" /\ row[j].avail <= 0
  /\ j \notin Parked

(* Due or abandoned, and not parked. *)
Claimable(j) ==
  /\ \/ row[j].status = "pending" /\ row[j].avail <= 0
     \/ row[j].status = "processing" /\ row[j].lease = 0
  /\ j \notin Parked

(* ORDER BY available_at, created_at, id: ties are left open. *)
Candidates == {j \in Jobs : Claimable(j) /\
                 \A k \in Jobs : Claimable(k) => row[j].avail <= row[k].avail}

(* uuid4: a token nobody holds. The smallest free one stands for it. *)
TokensInUse == {row[j].token : j \in Jobs} \cup
               {worker[w].token : w \in {v \in Workers : Busy(v)}}

FreshTokens == {t \in Tokens : /\ t \notin TokensInUse
                               /\ \A u \in Tokens \ TokensInUse : t <= u}

ClaimNext(w) ==
  /\ ~Busy(w)
  /\ \E j \in Candidates, t \in FreshTokens :
       LET n == NextAttempt(row[j].attempts) IN
       /\ row' = [row EXCEPT ![j].status = "processing",
                             ![j].attempts = n,
                             ![j].lease = Lease,
                             ![j].token = t]
       /\ worker' = [worker EXCEPT ![w] =
            [pc |-> "handling", job |-> j, token |-> t, attempts |-> n,
             lease |-> Lease, delay |-> 0, dead |-> FALSE]]
  /\ UNCHANGED crashes

(* handler.handle(event) returned. *)
HandlerReturns(w) ==
  /\ Handling(w)
  /\ worker[w].job \notin Unhandled
  /\ worker' = [worker EXCEPT ![w].pc = "completing"]
  /\ UNCHANGED <<row, crashes>>

Decide(w, decision) ==
  /\ worker' = [worker EXCEPT ![w].pc = "failing",
                              ![w].delay = decision.delay,
                              ![w].dead = decision.dead]
  /\ UNCHANGED <<row, crashes>>

(* No handler, or handler.handle(event) raised. *)
HandlerRaises(w) ==
  /\ Handling(w)
  /\ Decide(w, AfterFailure(worker[w].attempts))

(* ... an error that says it is not retryable. *)
HandlerRejects(w) ==
  /\ Handling(w)
  /\ worker[w].job \notin Unhandled
  /\ Decide(w, [dead |-> TRUE, delay |-> 0])

(* asyncio.timeout fired: retried like any failure. *)
HandlerTimesOut(w) ==
  /\ Handling(w)
  /\ worker[w].job \in Timed \ Unhandled
  /\ Lease - worker[w].lease >= HandlerTimeout
  /\ Decide(w, AfterFailure(worker[w].attempts))

(* Mutant: the update is not fenced by the claim token. *)
HoldsAnyClaim(w) == row[worker[w].job].status = "processing"

(* WHERE status = 'processing' AND claim_token = $2; otherwise the update  *)
(* raises OutboxClaimLost and the worker moves on.                         *)
HoldsClaim(w) ==
  LET r == row[worker[w].job] IN r.status = "processing" /\ r.token = worker[w].token

Complete(w) ==
  /\ worker[w].pc = "completing"
  /\ row' = IF HoldsClaim(w)
            THEN [row EXCEPT ![worker[w].job].status = "completed",
                             ![worker[w].job].token = NoToken,
                             ![worker[w].job].lease = 0,
                             ![worker[w].job].age = 0]
            ELSE row
  /\ worker' = [worker EXCEPT ![w] = Idle]
  /\ UNCHANGED crashes

Fail(w) ==
  /\ worker[w].pc = "failing"
  /\ row' = IF HoldsClaim(w)
            THEN [row EXCEPT ![worker[w].job].status =
                               IF worker[w].dead THEN "dead_letter" ELSE "pending",
                             ![worker[w].job].token = NoToken,
                             ![worker[w].job].lease = 0,
                             ![worker[w].job].avail = worker[w].delay]
            ELSE row
  /\ worker' = [worker EXCEPT ![w] = Idle]
  /\ UNCHANGED crashes

(* The process dies, or the database fails it and the loop starts over: in *)
(* both cases the claim in memory is gone and the row stays as it is.      *)
Crash(w) ==
  /\ Busy(w)
  /\ crashes < MaxCrashes
  /\ worker' = [worker EXCEPT ![w] = Idle]
  /\ crashes' = crashes + 1
  /\ UNCHANGED row

ManualRetry(j) ==
  /\ row[j].status = "dead_letter"
  /\ row[j].manual < MaxManual
  /\ row' = [row EXCEPT ![j].status = "pending",
                        ![j].avail = 0,
                        ![j].token = NoToken,
                        ![j].manual = @ + 1]
  /\ UNCHANGED <<worker, crashes>>

CompleteResolvedEvent(j) ==
  /\ j \in Resolvable
  /\ row[j].status \in {"pending", "dead_letter"}
  /\ row' = [row EXCEPT ![j].status = "completed",
                        ![j].token = NoToken,
                        ![j].age = 0]
  /\ UNCHANGED <<worker, crashes>>

(* Retention spares the jobs that OUTBOX_REFERENCES names. *)
Purgeable == {j \in Jobs : /\ row[j].status = "completed"
                           /\ row[j].age = Retention
                           /\ j \notin Referenced}

(* One batch; rows another session has locked are skipped. *)
PurgeCompleted ==
  /\ \E S \in SUBSET Purgeable \ {{}} :
       /\ Cardinality(S) <= PurgeLimit
       /\ row' = [j \in Jobs |->
                    IF j \in S THEN [NewRow EXCEPT !.status = "purged"] ELSE row[j]]
  /\ UNCHANGED <<worker, crashes>>

Sooner(n) == IF n > -Horizon THEN n - 1 ELSE n
Down(n) == IF n > 0 THEN n - 1 ELSE n

Tick ==
  /\ row' = [j \in Jobs |->
       CASE row[j].status = "pending" -> [row[j] EXCEPT !.avail = Sooner(@)]
         [] row[j].status = "processing" ->
              [row[j] EXCEPT !.avail = Sooner(@), !.lease = Down(@)]
         [] row[j].status = "completed" /\ row[j].age < Retention ->
              [row[j] EXCEPT !.age = @ + 1]
         [] OTHER -> row[j]]
  /\ worker' = [w \in Workers |->
       CASE worker[w].pc = "idle" -> worker[w]
         [] worker[w].pc = "failing" ->
              [worker[w] EXCEPT !.lease = Down(@), !.delay = Sooner(@)]
         [] OTHER -> [worker[w] EXCEPT !.lease = Down(@)]]
  /\ UNCHANGED crashes

WorkerStep(w) == \/ ClaimNext(w)
                 \/ HandlerReturns(w)
                 \/ HandlerRaises(w)
                 \/ HandlerRejects(w)
                 \/ HandlerTimesOut(w)
                 \/ Complete(w)
                 \/ Fail(w)

Next == \/ \E w \in Workers : WorkerStep(w) \/ Crash(w)
        \/ \E j \in Jobs : Enqueue(j) \/ ManualRetry(j) \/ CompleteResolvedEvent(j)
        \/ PurgeCompleted
        \/ Tick

Spec == Init /\ [][Next]_vars

(***************************************************************************)
(* Properties                                                              *)
(***************************************************************************)

(* Columns and worker memory hold values of their types. *)
TypeOK == /\ row \in [Jobs -> Row]
          /\ worker \in [Workers -> WorkerState \cup {Idle}]
          /\ crashes \in 0..MaxCrashes

(* While the lease of a claim runs, the claim is good: the job is still    *)
(* processing under the worker's token and attempt, whatever other         *)
(* workers, operators, modules and retention do. So a worker that records  *)
(* its outcome in time never meets OutboxClaimLost, and no second worker   *)
(* runs the job beside it.                                                 *)
LeaseProtectsClaim ==
  \A w \in Workers : Busy(w) /\ worker[w].lease > 0 =>
    /\ HoldsClaim(w)
    /\ row[worker[w].job].attempts = worker[w].attempts
    /\ \A v \in Workers : v # w /\ Busy(v) /\ worker[v].job = worker[w].job =>
         worker[v].lease = 0

(* A job whose attempts are used up never waits for another automatic one: *)
(* only an operator puts it back (after_failure, manual_retry), however    *)
(* crashes and lost claims have moved the counter in between.              *)
BudgetRespected ==
  \A j \in Jobs : row[j].status = "pending" /\ row[j].attempts = MaxAttempts =>
    row[j].manual > 0

(* The queue keeps the promise of module JobQueue: in particular a late    *)
(* worker never moves a job it no longer owns, and completed is final.     *)
Phase(j) == CASE row[j].status = "absent" -> "unknown"
              [] row[j].status = "pending" -> "waiting"
              [] row[j].status = "processing" -> "running"
              [] row[j].status = "completed" -> "done"
              [] row[j].status = "dead_letter" -> "failed"
              [] row[j].status = "purged" -> "removed"

Queue == INSTANCE JobQueue WITH
           Claims <- Tokens,
           phase <- [j \in Jobs |-> Phase(j)],
           owner <- [j \in Jobs |-> row[j].token],
           late <- [j \in Jobs |-> row[j].status = "processing" /\ row[j].lease = 0],
           held <- {<<worker[w].job, worker[w].token>> : w \in {v \in Workers : Busy(v)}}

QueueSpec == Queue!Spec

(***************************************************************************)
(* Liveness                                                                *)
(***************************************************************************)

HandlerEnds(w) == \/ HandlerReturns(w)
                  \/ HandlerRaises(w)
                  \/ HandlerRejects(w)
                  \/ HandlerTimesOut(w)

Record(w) == Complete(w) \/ Fail(w)

(* Time passes, idle workers poll every 0.25 s, handlers end and outcomes  *)
(* are recorded; and, handlers being shorter than a lease, an attempt that *)
(* comes up again and again is some time recorded while it holds its claim.*)
Fairness == /\ WF_vars(Tick)
            /\ \A w \in Workers : /\ WF_vars(ClaimNext(w))
                                  /\ WF_vars(HandlerEnds(w))
                                  /\ WF_vars(Record(w))
                                  /\ SF_vars(HandlerEnds(w) /\ HoldsClaim(w))
                                  /\ SF_vars(Record(w) /\ HoldsClaim(w))

FairSpec == Spec /\ Fairness

(* Every job of an enabled module that waits or runs comes to rest as      *)
(* completed or as a dead letter, also when its worker crashed half-way.   *)
EveryJobSettles ==
  \A j \in Jobs \ Parked :
    row[j].status \in {"pending", "processing"} ~>
      row[j].status \in {"completed", "dead_letter", "purged"}
=============================================================================
