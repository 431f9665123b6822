---------------------------- MODULE OutboxProofs ----------------------------
(***************************************************************************)
(* The queue and the handlers of two kinds of its jobs, for every number   *)
(* of jobs, workers and tokens, every choice of delays and leases, and     *)
(* whatever crashes, fails, overruns its lease or is restarted.            *)
(*                                                                         *)
(* Outbox: it is type correct, a running lease protects its claim, the     *)
(* retry budget is respected, and Outbox implements JobQueue.              *)
(*                                                                         *)
(* MailDelivery: a completed job was mailed, the invoice shows what is on  *)
(* record, and a message whose delivery is on record is only sent again by *)
(* or after a handler that lost its claim.                                 *)
(*                                                                         *)
(* ContactLink: no second person is created for a case, decisions about a  *)
(* contact stand, and job, case, person and consent agree, whatever answer *)
(* is lost, contact confirmed by hand or data erased.                      *)
(***************************************************************************)
EXTENDS MailDelivery, ContactLink, TLAPS

(***************************************************************************)
(* The queue                                                               *)
(***************************************************************************)

(* A row carries a token exactly while it is processing. *)
TokenMeansProcessing ==
  \A j \in Jobs : (row[j].token # NoToken) <=> (row[j].status = "processing")

(* A worker at work has a token. *)
BusyHasToken == \A w \in Workers : Busy(w) => worker[w].token # NoToken

(* No two workers share a token. *)
WorkersDiffer ==
  \A v, w \in Workers : v # w /\ Busy(v) /\ Busy(w) => worker[v].token # worker[w].token

(* A row with a worker's token is that worker's job, and the two agree on  *)
(* the attempt and on what is left of the lease.                           *)
RowAgrees ==
  \A w \in Workers, j \in Jobs : Busy(w) /\ row[j].token = worker[w].token =>
    /\ worker[w].job = j
    /\ row[j].attempts = worker[w].attempts
    /\ row[j].lease = worker[w].lease

(* A claim whose lease runs has not been taken over. *)
RunningLeaseHolds ==
  \A w \in Workers : Busy(w) /\ worker[w].lease > 0 =>
    row[worker[w].job].token = worker[w].token

(* A worker only plans another attempt while the budget lasts. *)
PlansWithinBudget ==
  \A w \in Workers : worker[w].pc = "failing" /\ ~worker[w].dead =>
    worker[w].attempts < MaxAttempts

(* A row that does not exist yet has used no attempt. *)
AbsentIsUnused == \A j \in Jobs : row[j].status = "absent" => row[j].attempts = 0

ClaimInv == /\ TypeOK
            /\ AbsentIsUnused
            /\ TokenMeansProcessing
            /\ BusyHasToken
            /\ WorkersDiffer
            /\ RowAgrees
            /\ RunningLeaseHolds
            /\ PlansWithinBudget
            /\ BudgetRespected

-----------------------------------------------------------------------------

(* A retry is never planned later than maximum_delay. *)
LEMMA DelayBounded == ASSUME NEW a PROVE BackoffDelay(a) \in 0..MaximumDelay
  BY OutboxAssumption DEF BackoffDelay

LEMMA DecisionType ==
  ASSUME NEW a
  PROVE  /\ AfterFailure(a).delay \in 0..MaximumDelay
         /\ AfterFailure(a).dead \in BOOLEAN
         /\ ~AfterFailure(a).dead => ~(a >= MaxAttempts)
  BY DelayBounded, OutboxAssumption DEF AfterFailure

(* One unit of time keeps every timer in its range. *)
LEMMA TickTypes ==
  /\ \A n \in (-Horizon)..MaximumDelay : Sooner(n) \in (-Horizon)..MaximumDelay
  /\ \A n \in 0..Lease : Down(n) \in 0..Lease
  /\ \A n \in 0..Retention : n < Retention => n + 1 \in 0..Retention
  BY OutboxAssumption DEF Sooner, Down

(* What a worker at work holds is a WorkerState. *)
LEMMA BusyType ==
  ASSUME TypeOK, NEW w \in Workers, Busy(w)
  PROVE  worker[w] \in WorkerState
  BY DEF TypeOK, Busy, Idle

LEMMA TypeInit == Init => TypeOK
  BY OutboxAssumption DEF Init, TypeOK, Row, NewRow, Status, NoToken

LEMMA TypeStep == TypeOK /\ [Next]_vars => TypeOK'
<1> SUFFICES ASSUME TypeOK, [Next]_vars PROVE TypeOK'
  OBVIOUS
<1> USE OutboxAssumption
<1>1. ASSUME NEW w \in Workers, ClaimNext(w) PROVE TypeOK'
  <2>1. PICK j \in Candidates, t \in FreshTokens :
          /\ row' = [row EXCEPT ![j].status = "processing",
                                ![j].attempts = NextAttempt(row[j].attempts),
                                ![j].lease = Lease,
                                ![j].token = t]
          /\ worker' = [worker EXCEPT ![w] =
               [pc |-> "handling", job |-> j, token |-> t,
                attempts |-> NextAttempt(row[j].attempts),
                lease |-> Lease, delay |-> 0, dead |-> FALSE]]
          /\ crashes' = crashes
    BY <1>1 DEF ClaimNext
  <2>2. j \in Jobs /\ t \in 0..NumTokens
    BY DEF Candidates, FreshTokens, Tokens
  <2>3. NextAttempt(row[j].attempts) \in 0..MaxAttempts
    BY <2>2 DEF NextAttempt, TypeOK, Row
  <2>4. row' \in [Jobs -> Row]
    <3>1. row[j] \in Row
      BY <2>2 DEF TypeOK
    <3>2. [row[j] EXCEPT !.status = "processing",
                         !.attempts = NextAttempt(row[j].attempts),
                         !.lease = Lease,
                         !.token = t] \in Row
      <4>1. Lease \in 0..Lease /\ "processing" \in Status
        BY DEF Status
      <4> QED
        BY <2>2, <2>3, <3>1, <4>1 DEF Row
    <3> QED
      BY <2>1, <2>2, <3>2 DEF TypeOK
  <2>5. worker' \in [Workers -> WorkerState \cup {Idle}]
    BY <2>1, <2>2, <2>3 DEF TypeOK, WorkerState
  <2> QED
    BY <2>1, <2>4, <2>5 DEF TypeOK
<1>2. ASSUME NEW w \in Workers, HandlerReturns(w) PROVE TypeOK'
  <2>1. worker[w] \in WorkerState
    BY <1>2, BusyType DEF HandlerReturns, Handling, Busy
  <2> QED
    BY <1>2, <2>1 DEF HandlerReturns, TypeOK, WorkerState
<1>3. ASSUME NEW w \in Workers, NEW d, Decide(w, d), Handling(w),
             d.delay \in 0..MaximumDelay, d.dead \in BOOLEAN
      PROVE  TypeOK'
  <2>1. worker[w] \in WorkerState
    BY <1>3, BusyType DEF Handling, Busy
  <2>2. [worker[w] EXCEPT !.pc = "failing", !.delay = d.delay, !.dead = d.dead]
          \in WorkerState
    <3>1. d.delay \in (-Horizon)..MaximumDelay
      BY <1>3
    <3> QED
      BY <1>3, <2>1, <3>1 DEF WorkerState
  <2> QED
    BY <1>3, <2>2 DEF Decide, TypeOK
<1>4. ASSUME NEW w \in Workers, HandlerRaises(w) PROVE TypeOK'
  BY <1>3, <1>4, DecisionType DEF HandlerRaises
<1>5. ASSUME NEW w \in Workers, HandlerRejects(w) PROVE TypeOK'
  <2>1. /\ [dead |-> TRUE, delay |-> 0].delay \in 0..MaximumDelay
        /\ [dead |-> TRUE, delay |-> 0].dead \in BOOLEAN
    OBVIOUS
  <2> QED
    BY <1>3, <1>5, <2>1 DEF HandlerRejects
<1>6. ASSUME NEW w \in Workers, HandlerTimesOut(w) PROVE TypeOK'
  BY <1>3, <1>6, DecisionType DEF HandlerTimesOut
<1>7. ASSUME NEW w \in Workers, Complete(w) PROVE TypeOK'
  <2>1. worker[w] \in WorkerState
    BY <1>7, BusyType DEF Complete, Busy
  <2> QED
    BY <1>7, <2>1 DEF Complete, TypeOK, WorkerState, Row, Status, NoToken
<1>8. ASSUME NEW w \in Workers, Fail(w) PROVE TypeOK'
  <2>1. worker[w] \in WorkerState
    BY <1>8, BusyType DEF Fail, Busy
  <2> QED
    BY <1>8, <2>1 DEF Fail, TypeOK, WorkerState, Row, Status, NoToken
<1>9. ASSUME NEW w \in Workers, Crash(w) PROVE TypeOK'
  BY <1>9 DEF Crash, TypeOK
<1>10. ASSUME NEW j \in Jobs,
              Enqueue(j) \/ ManualRetry(j) \/ CompleteResolvedEvent(j)
       PROVE  TypeOK'
  BY <1>10 DEF Enqueue, ManualRetry, CompleteResolvedEvent, TypeOK, Row, Status, NoToken
<1>11. CASE PurgeCompleted
  BY <1>11 DEF PurgeCompleted, TypeOK, Row, NewRow, Status, NoToken
<1>12. CASE Tick
  <2>1. row' \in [Jobs -> Row]
    <3> SUFFICES ASSUME NEW j \in Jobs PROVE row'[j] \in Row
      BY <1>12 DEF Tick, TypeOK
    <3>1. row[j] \in Row
      BY DEF TypeOK
    <3>2. /\ Sooner(row[j].avail) \in (-Horizon)..MaximumDelay
          /\ Down(row[j].lease) \in 0..Lease
          /\ row[j].age < Retention => row[j].age + 1 \in 0..Retention
      BY <3>1, TickTypes DEF Row
    <3>3. /\ [row[j] EXCEPT !.avail = Sooner(@)] \in Row
          /\ [row[j] EXCEPT !.avail = Sooner(@), !.lease = Down(@)] \in Row
          /\ row[j].age < Retention => [row[j] EXCEPT !.age = @ + 1] \in Row
      BY <3>1, <3>2 DEF Row
    <3> QED
      BY <1>12, <3>1, <3>3 DEF Tick
  <2>2. ASSUME NEW w \in Workers
        PROVE  worker'[w] \in WorkerState \cup {Idle}
    <3>1. CASE worker[w].pc = "idle"
      BY <1>12, <3>1 DEF Tick, TypeOK
    <3>2. CASE worker[w].pc = "failing"
      <4>1. worker[w] \in WorkerState
        BY <3>2, BusyType DEF Busy
      <4> QED
        <5>1. /\ Down(worker[w].lease) \in 0..Lease
              /\ Sooner(worker[w].delay) \in (-Horizon)..MaximumDelay
          BY <4>1, TickTypes DEF WorkerState
        <5>2. [worker[w] EXCEPT !.lease = Down(@), !.delay = Sooner(@)] \in WorkerState
          BY <4>1, <5>1 DEF WorkerState
        <5> QED
          BY <1>12, <3>2, <5>2 DEF Tick
    <3>3. CASE worker[w].pc \notin {"idle", "failing"}
      <4>1. worker[w] \in WorkerState
        BY <3>3, BusyType DEF Busy
      <4> QED
        <5>1. Down(worker[w].lease) \in 0..Lease
          BY <4>1, TickTypes DEF WorkerState
        <5>2. [worker[w] EXCEPT !.lease = Down(@)] \in WorkerState
          BY <4>1, <5>1 DEF WorkerState
        <5> QED
          BY <1>12, <3>3, <5>2 DEF Tick
    <3> QED
      BY <3>1, <3>2, <3>3
  <2> QED
    BY <1>12, <2>1, <2>2 DEF Tick, TypeOK
<1>13. CASE UNCHANGED vars
  BY <1>13 DEF vars, TypeOK
<1> QED
  BY <1>1, <1>2, <1>4, <1>5, <1>6, <1>7, <1>8, <1>9, <1>10, <1>11, <1>12, <1>13
  DEF Next, WorkerStep

(* The columns, worker records and counters keep their types (the table    *)
(* outbox_event and ClaimedOutboxEvent), for every choice of constants.    *)
THEOREM TypeCorrect == Spec => []TypeOK
  BY TypeInit, TypeStep, PTL DEF Spec

-----------------------------------------------------------------------------

LEMMA ClaimInit == Init => ClaimInv
  BY TypeInit, OutboxAssumption
  DEF Init, ClaimInv, AbsentIsUnused, TokenMeansProcessing, BusyHasToken, WorkersDiffer, RowAgrees,
      RunningLeaseHolds, PlansWithinBudget, BudgetRespected, Busy, Idle, NewRow, NoToken

(* A claim takes a token nobody holds, and a job whose last claim has no   *)
(* lease left.                                                             *)
LEMMA ClaimNextKeepsInv ==
  ASSUME ClaimInv, TypeOK', NEW w \in Workers, ClaimNext(w)
  PROVE  ClaimInv'
<1> USE OutboxAssumption
<1>1. PICK j \in Candidates, t \in FreshTokens :
        /\ row' = [row EXCEPT ![j].status = "processing",
                              ![j].attempts = NextAttempt(row[j].attempts),
                              ![j].lease = Lease,
                              ![j].token = t]
        /\ worker' = [worker EXCEPT ![w] =
             [pc |-> "handling", job |-> j, token |-> t,
              attempts |-> NextAttempt(row[j].attempts),
              lease |-> Lease, delay |-> 0, dead |-> FALSE]]
  BY DEF ClaimNext
<1>2. j \in Jobs /\ Claimable(j)
  BY DEF Candidates
<1>3. /\ t # NoToken
      /\ \A k \in Jobs : row[k].token # t
      /\ \A v \in Workers : Busy(v) => worker[v].token # t
  BY DEF FreshTokens, TokensInUse, Tokens, NoToken
<1>4. /\ row'[j].status = "processing"
      /\ row'[j].token = t
      /\ row'[j].lease = Lease
      /\ row'[j].attempts = NextAttempt(row[j].attempts)
      /\ \A k \in Jobs : k # j => row'[k] = row[k]
  BY <1>1, <1>2 DEF ClaimInv, TypeOK, Row
<1>5. /\ worker'[w] = [pc |-> "handling", job |-> j, token |-> t,
                       attempts |-> NextAttempt(row[j].attempts),
                       lease |-> Lease, delay |-> 0, dead |-> FALSE]
      /\ \A v \in Workers : v # w => worker'[v] = worker[v]
  BY <1>1 DEF ClaimInv, TypeOK
<1>6. TokenMeansProcessing'
  BY <1>2, <1>3, <1>4 DEF ClaimInv, TokenMeansProcessing
<1>7. BusyHasToken' /\ WorkersDiffer'
  BY <1>3, <1>5 DEF ClaimInv, BusyHasToken, WorkersDiffer, Busy
<1>8. RowAgrees'
  BY <1>2, <1>3, <1>4, <1>5 DEF ClaimInv, RowAgrees, Busy
<1>9. RunningLeaseHolds'
  <2> SUFFICES ASSUME NEW v \in Workers, Busy(v)', worker'[v].lease > 0
               PROVE  row'[worker'[v].job].token = worker'[v].token
    BY DEF RunningLeaseHolds
  <2>1. CASE v = w
    BY <2>1, <1>4, <1>5
  <2>2. CASE v # w
    <3>1. Busy(v) /\ worker[v].lease > 0 /\ row[worker[v].job].token = worker[v].token
      BY <2>2, <1>5 DEF ClaimInv, RunningLeaseHolds, Busy
    <3>2. worker[v].job \in Jobs
      BY <3>1, BusyType DEF ClaimInv, WorkerState
    <3>3. worker[v].job # j
      BY <1>2, <3>1, <3>2
      DEF Claimable, ClaimInv, TokenMeansProcessing, BusyHasToken, RowAgrees
    <3> QED
      BY <2>2, <3>1, <3>2, <3>3, <1>4, <1>5
  <2> QED
    BY <2>1, <2>2
<1>10. PlansWithinBudget'
  BY <1>5 DEF ClaimInv, PlansWithinBudget
<1>11. BudgetRespected' /\ AbsentIsUnused'
  BY <1>2, <1>4 DEF ClaimInv, BudgetRespected, AbsentIsUnused
<1> QED
  BY <1>6, <1>7, <1>8, <1>9, <1>10, <1>11 DEF ClaimInv

(* The end of a handler only changes what its worker is about to record. *)
LEMMA OutcomeKeepsInv ==
  ASSUME ClaimInv, TypeOK', NEW w \in Workers, Handling(w), row' = row,
         worker'[w].pc \in {"completing", "failing"},
         worker'[w].job = worker[w].job,
         worker'[w].token = worker[w].token,
         worker'[w].attempts = worker[w].attempts,
         worker'[w].lease = worker[w].lease,
         worker'[w].pc = "failing" /\ ~worker'[w].dead => worker[w].attempts < MaxAttempts,
         \A v \in Workers : v # w => worker'[v] = worker[v]
  PROVE  ClaimInv'
<1>1. \A v \in Workers : /\ Busy(v)' <=> Busy(v)
                         /\ Busy(v) => /\ worker'[v].job = worker[v].job
                                       /\ worker'[v].token = worker[v].token
                                       /\ worker'[v].attempts = worker[v].attempts
                                       /\ worker'[v].lease = worker[v].lease
  BY DEF Handling, Busy
<1>2. TokenMeansProcessing' /\ BudgetRespected' /\ AbsentIsUnused'
  BY DEF ClaimInv, TokenMeansProcessing, BudgetRespected, AbsentIsUnused
<1>3. BusyHasToken' /\ WorkersDiffer'
  BY <1>1 DEF ClaimInv, BusyHasToken, WorkersDiffer
<1>4. RowAgrees' /\ RunningLeaseHolds'
  BY <1>1 DEF ClaimInv, RowAgrees, RunningLeaseHolds
<1>5. PlansWithinBudget'
  BY DEF ClaimInv, PlansWithinBudget
<1> QED
  BY <1>2, <1>3, <1>4, <1>5 DEF ClaimInv

(* Recording an outcome touches the row only under the worker's own claim, *)
(* which no other worker shares.                                           *)
LEMMA RecordKeepsInv ==
  ASSUME ClaimInv, TypeOK', NEW w \in Workers, Complete(w) \/ Fail(w)
  PROVE  ClaimInv'
<1> DEFINE j == worker[w].job
<1>1. Busy(w) /\ worker[w] \in WorkerState
  BY BusyType DEF Complete, Fail, Busy, ClaimInv
<1>2. j \in Jobs
  BY <1>1 DEF WorkerState
<1>3. ~Busy(w)' /\ \A v \in Workers : v # w => worker'[v] = worker[v]
  BY DEF Complete, Fail, ClaimInv, TypeOK, Busy, Idle
<1>4. CASE ~HoldsClaim(w)
  <2>1. row' = row
    BY <1>4 DEF Complete, Fail
  <2>2. \A v \in Workers : Busy(v)' => Busy(v) /\ worker'[v] = worker[v]
    BY <1>3 DEF Busy
  <2>3. worker'[w].pc = "idle"
    BY <1>3 DEF Busy
  <2>4. TokenMeansProcessing' /\ BudgetRespected' /\ AbsentIsUnused'
    BY <2>1 DEF ClaimInv, TokenMeansProcessing, BudgetRespected, AbsentIsUnused
  <2>5. BusyHasToken' /\ WorkersDiffer'
    BY <2>2 DEF ClaimInv, BusyHasToken, WorkersDiffer
  <2>6. RowAgrees' /\ RunningLeaseHolds'
    BY <2>1, <2>2 DEF ClaimInv, RowAgrees, RunningLeaseHolds
  <2>7. PlansWithinBudget'
    BY <1>3, <2>3 DEF ClaimInv, PlansWithinBudget
  <2> QED
    BY <2>4, <2>5, <2>6, <2>7 DEF ClaimInv
<1>5. CASE HoldsClaim(w)
  <2>1. /\ row'[j].status \in {"completed", "pending", "dead_letter"}
        /\ row'[j].token = NoToken
        /\ row'[j].attempts = row[j].attempts
        /\ row'[j].status = "pending" => worker[w].pc = "failing" /\ ~worker[w].dead
        /\ \A k \in Jobs : k # j => row'[k] = row[k]
    BY <1>2, <1>5 DEF Complete, Fail, ClaimInv, TypeOK, Row
  <2>2. \A v \in Workers : Busy(v)' => Busy(v) /\ v # w /\ worker'[v] = worker[v]
    BY <1>3 DEF Busy
  <2>3. row[j].token = worker[w].token
    BY <1>5 DEF HoldsClaim
  <2>4. \A v \in Workers : Busy(v)' => worker[v].token # row[j].token
    BY <1>1, <2>2, <2>3 DEF ClaimInv, WorkersDiffer
  <2>5. TokenMeansProcessing' /\ AbsentIsUnused'
    BY <1>2, <2>1 DEF ClaimInv, TokenMeansProcessing, AbsentIsUnused
  <2>6. BusyHasToken' /\ WorkersDiffer'
    BY <2>2 DEF ClaimInv, BusyHasToken, WorkersDiffer
  <2>7. RowAgrees'
    BY <1>2, <2>1, <2>2 DEF ClaimInv, RowAgrees, BusyHasToken
  <2>8. RunningLeaseHolds'
    <3> SUFFICES ASSUME NEW v \in Workers, Busy(v)', worker'[v].lease > 0
                 PROVE  row'[worker'[v].job].token = worker'[v].token
      BY DEF RunningLeaseHolds
    <3>1. Busy(v) /\ worker'[v] = worker[v] /\ worker[v].token # row[j].token
      BY <2>2, <2>4
    <3>2. row[worker[v].job].token = worker[v].token /\ worker[v].job \in Jobs
      BY <3>1, BusyType DEF ClaimInv, RunningLeaseHolds, WorkerState
    <3> QED
      BY <2>1, <3>1, <3>2
  <2>9. PlansWithinBudget'
    BY <1>3 DEF ClaimInv, PlansWithinBudget, Busy
  <2>10. BudgetRespected'
    <3>1. row'[j].status = "pending" => row'[j].attempts # MaxAttempts
      <4>1. row[j].attempts = worker[w].attempts
        BY <1>1, <1>2, <2>3 DEF ClaimInv, RowAgrees
      <4>2. worker[w].attempts \in 0..MaxAttempts
        BY <1>1 DEF WorkerState
      <4> QED
        BY <2>1, <4>1, <4>2, OutboxAssumption DEF ClaimInv, PlansWithinBudget
    <3> QED
      BY <1>2, <2>1, <3>1 DEF ClaimInv, BudgetRespected
  <2> QED
    BY <2>5, <2>6, <2>7, <2>8, <2>9, <2>10 DEF ClaimInv
<1> QED
  BY <1>4, <1>5

LEMMA CrashKeepsInv ==
  ASSUME ClaimInv, TypeOK', NEW w \in Workers, Crash(w)
  PROVE  ClaimInv'
<1>1. \A v \in Workers : Busy(v)' => Busy(v) /\ worker'[v] = worker[v]
  BY DEF Crash, ClaimInv, TypeOK, Busy, Idle
<1>2. \A v \in Workers : worker'[v].pc = "failing" => worker'[v] = worker[v]
  BY <1>1 DEF Busy
<1>3. TokenMeansProcessing' /\ BudgetRespected' /\ AbsentIsUnused'
  BY DEF Crash, ClaimInv, TokenMeansProcessing, BudgetRespected, AbsentIsUnused
<1>4. BusyHasToken' /\ WorkersDiffer' /\ PlansWithinBudget'
  BY <1>1, <1>2 DEF ClaimInv, BusyHasToken, WorkersDiffer, PlansWithinBudget
<1>5. RowAgrees' /\ RunningLeaseHolds'
  BY <1>1 DEF Crash, ClaimInv, RowAgrees, RunningLeaseHolds
<1> QED
  BY <1>3, <1>4, <1>5 DEF ClaimInv

(* Operators, modules and retention only touch rows without a claim. *)
LEMMA RestingKeepsInv ==
  ASSUME ClaimInv, TypeOK', worker' = worker,
         \A k \in Jobs : row'[k] # row[k] =>
           /\ row[k].token = NoToken /\ row'[k].token = NoToken
           /\ row'[k].status \notin {"absent", "processing"}
           /\ row'[k].status = "pending" /\ row'[k].attempts = MaxAttempts =>
                row'[k].manual > 0
  PROVE  ClaimInv'
<1>1. \A v \in Workers : Busy(v)' <=> Busy(v)
  BY DEF Busy
<1>2. TokenMeansProcessing'
  BY DEF ClaimInv, TokenMeansProcessing
<1>3. BusyHasToken' /\ WorkersDiffer' /\ PlansWithinBudget'
  BY <1>1 DEF ClaimInv, BusyHasToken, WorkersDiffer, PlansWithinBudget
<1>4. RowAgrees'
  BY <1>1 DEF ClaimInv, RowAgrees, BusyHasToken
<1>5. RunningLeaseHolds'
  <2> SUFFICES ASSUME NEW v \in Workers, Busy(v), worker[v].lease > 0
               PROVE  row'[worker[v].job].token = worker[v].token
    BY <1>1 DEF RunningLeaseHolds
  <2>1. worker[v].job \in Jobs
    BY BusyType DEF ClaimInv, WorkerState
  <2> QED
    BY <2>1 DEF ClaimInv, RunningLeaseHolds, BusyHasToken
<1>6. BudgetRespected' /\ AbsentIsUnused'
  BY DEF ClaimInv, BudgetRespected, AbsentIsUnused
<1> QED
  BY <1>2, <1>3, <1>4, <1>5, <1>6 DEF ClaimInv

(* Time shortens the lease in the row and in the worker alike. *)
LEMMA TickKeepsInv ==
  ASSUME ClaimInv, TypeOK', Tick
  PROVE  ClaimInv'
<1>1. \A k \in Jobs : /\ row'[k].status = row[k].status
                      /\ row'[k].token = row[k].token
                      /\ row'[k].attempts = row[k].attempts
                      /\ row'[k].manual = row[k].manual
                      /\ row[k].status = "processing" => row'[k].lease = Down(row[k].lease)
  BY DEF Tick, ClaimInv, TypeOK, Row
<1>2. \A v \in Workers : /\ worker'[v].pc = worker[v].pc
                         /\ Busy(v) => /\ worker'[v].job = worker[v].job
                                       /\ worker'[v].token = worker[v].token
                                       /\ worker'[v].attempts = worker[v].attempts
                                       /\ worker'[v].dead = worker[v].dead
                                       /\ worker'[v].lease = Down(worker[v].lease)
  <2> SUFFICES ASSUME NEW v \in Workers
               PROVE  /\ worker'[v].pc = worker[v].pc
                      /\ Busy(v) => /\ worker'[v].job = worker[v].job
                                    /\ worker'[v].token = worker[v].token
                                    /\ worker'[v].attempts = worker[v].attempts
                                    /\ worker'[v].dead = worker[v].dead
                                    /\ worker'[v].lease = Down(worker[v].lease)
    OBVIOUS
  <2>1. CASE ~Busy(v)
    BY <2>1 DEF Tick, Busy
  <2>2. CASE Busy(v)
    <3>1. worker[v] \in WorkerState
      BY <2>2, BusyType DEF ClaimInv
    <3>2. worker'[v] \in {[worker[v] EXCEPT !.lease = Down(@), !.delay = Sooner(@)],
                          [worker[v] EXCEPT !.lease = Down(@)]}
      BY <2>2 DEF Tick, Busy
    <3> QED
      BY <3>1, <3>2 DEF WorkerState
  <2> QED
    BY <2>1, <2>2
<1>3. \A v \in Workers : Busy(v)' <=> Busy(v)
  BY <1>2 DEF Busy
<1>4. TokenMeansProcessing' /\ BudgetRespected' /\ AbsentIsUnused'
  BY <1>1 DEF ClaimInv, TokenMeansProcessing, BudgetRespected, AbsentIsUnused
<1>5. BusyHasToken' /\ WorkersDiffer'
  BY <1>2, <1>3 DEF ClaimInv, BusyHasToken, WorkersDiffer
<1>6. RowAgrees'
  BY <1>1, <1>2, <1>3 DEF ClaimInv, RowAgrees, BusyHasToken, TokenMeansProcessing
<1>7. RunningLeaseHolds'
  <2> SUFFICES ASSUME NEW v \in Workers, Busy(v), worker'[v].lease > 0
               PROVE  row'[worker'[v].job].token = worker'[v].token
    BY <1>3 DEF RunningLeaseHolds
  <2>1. worker[v].job \in Jobs /\ worker[v].lease \in 0..Lease
    BY BusyType DEF ClaimInv, WorkerState
  <2>2. worker[v].lease > 0
    BY <1>2, <2>1, OutboxAssumption DEF Down
  <2> QED
    BY <1>1, <1>2, <2>1, <2>2 DEF ClaimInv, RunningLeaseHolds
<1>8. PlansWithinBudget'
  BY <1>2 DEF ClaimInv, PlansWithinBudget, Busy
<1> QED
  BY <1>4, <1>5, <1>6, <1>7, <1>8 DEF ClaimInv

LEMMA ClaimStep == ClaimInv /\ [Next]_vars => ClaimInv'
<1> SUFFICES ASSUME ClaimInv, [Next]_vars PROVE ClaimInv'
  OBVIOUS
<1>1. TypeOK'
  BY TypeStep DEF ClaimInv
<1>2. ASSUME NEW w \in Workers, ClaimNext(w) PROVE ClaimInv'
  BY <1>1, <1>2, ClaimNextKeepsInv
<1>3. ASSUME NEW w \in Workers, HandlerReturns(w) PROVE ClaimInv'
  <2>1. Handling(w) /\ worker[w] \in WorkerState
    BY <1>3, BusyType DEF HandlerReturns, Handling, Busy, ClaimInv
  <2> QED
    BY <1>1, <1>3, <2>1, OutcomeKeepsInv DEF HandlerReturns, ClaimInv, TypeOK, WorkerState
<1>4. ASSUME NEW w \in Workers, NEW d, Decide(w, d), Handling(w),
             ~d.dead => ~(worker[w].attempts >= MaxAttempts)
      PROVE  ClaimInv'
  <2>1. worker[w] \in WorkerState
    BY <1>4, BusyType DEF Handling, Busy, ClaimInv
  <2>2. /\ worker'[w].pc = "failing"
        /\ worker'[w].dead = d.dead
        /\ worker'[w].job = worker[w].job
        /\ worker'[w].token = worker[w].token
        /\ worker'[w].attempts = worker[w].attempts
        /\ worker'[w].lease = worker[w].lease
        /\ \A v \in Workers : v # w => worker'[v] = worker[v]
        /\ row' = row
    BY <1>4, <2>1 DEF Decide, ClaimInv, TypeOK, WorkerState
  <2>3. ~d.dead => worker[w].attempts < MaxAttempts
    BY <1>4, <2>1, OutboxAssumption DEF WorkerState
  <2> QED
    BY <1>1, <1>4, <2>2, <2>3, OutcomeKeepsInv
<1>5. ASSUME NEW w \in Workers, HandlerRaises(w) \/ HandlerTimesOut(w) PROVE ClaimInv'
  BY <1>4, <1>5, DecisionType DEF HandlerRaises, HandlerTimesOut
<1>6. ASSUME NEW w \in Workers, HandlerRejects(w) PROVE ClaimInv'
  <2>1. [dead |-> TRUE, delay |-> 0].dead
    OBVIOUS
  <2> QED
    BY <1>4, <1>6, <2>1 DEF HandlerRejects
<1>7. ASSUME NEW w \in Workers, Complete(w) \/ Fail(w) PROVE ClaimInv'
  BY <1>1, <1>7, RecordKeepsInv
<1>8. ASSUME NEW w \in Workers, Crash(w) PROVE ClaimInv'
  BY <1>1, <1>8, CrashKeepsInv
<1>9. ASSUME NEW j \in Jobs, Enqueue(j) \/ ManualRetry(j) \/ CompleteResolvedEvent(j)
      PROVE  ClaimInv'
  <2>1. worker' = worker
    BY <1>9 DEF Enqueue, ManualRetry, CompleteResolvedEvent
  <2>2. \A k \in Jobs : k # j => row'[k] = row[k]
    BY <1>9 DEF Enqueue, ManualRetry, CompleteResolvedEvent, ClaimInv, TypeOK
  <2>3. row[j].token = NoToken
    BY <1>9 DEF Enqueue, ManualRetry, CompleteResolvedEvent, ClaimInv, TokenMeansProcessing
  <2>4. row'[j].token = NoToken /\ row'[j].status \notin {"absent", "processing"}
    BY <1>9, <2>3 DEF Enqueue, ManualRetry, CompleteResolvedEvent, ClaimInv, TypeOK, Row
  <2>5. row'[j].status = "pending" /\ row'[j].attempts = MaxAttempts => row'[j].manual > 0
    <3>1. CASE ManualRetry(j)
      BY <3>1, OutboxAssumption DEF ManualRetry, ClaimInv, TypeOK, Row
    <3>2. CASE CompleteResolvedEvent(j)
      BY <3>2 DEF CompleteResolvedEvent, ClaimInv, TypeOK, Row
    <3>3. CASE Enqueue(j)
      BY <3>3, OutboxAssumption DEF Enqueue, ClaimInv, AbsentIsUnused, TypeOK, Row
    <3> QED
      BY <1>9, <3>1, <3>2, <3>3
  <2> QED
    BY <1>1, <2>1, <2>2, <2>3, <2>4, <2>5, RestingKeepsInv
<1>10. CASE PurgeCompleted
  <2>1. PICK S \in SUBSET Purgeable :
          row' = [k \in Jobs |->
                    IF k \in S THEN [NewRow EXCEPT !.status = "purged"] ELSE row[k]]
    BY <1>10 DEF PurgeCompleted
  <2>2. \A k \in Jobs : row'[k] # row[k] =>
          /\ row[k].token = NoToken /\ row'[k].token = NoToken
          /\ row'[k].status = "purged"
    BY <2>1 DEF Purgeable, NewRow, ClaimInv, TokenMeansProcessing
  <2>3. worker' = worker
    BY <1>10 DEF PurgeCompleted
  <2> QED
    BY <1>1, <2>2, <2>3, RestingKeepsInv
<1>11. CASE Tick
  BY <1>1, <1>11, TickKeepsInv
<1>12. CASE UNCHANGED vars
  BY <1>1, <1>12, RestingKeepsInv DEF vars
<1> QED
  BY <1>2, <1>3, <1>5, <1>6, <1>7, <1>8, <1>9, <1>10, <1>11, <1>12 DEF Next, WorkerStep

(* While a lease runs, the worker it was given to is the only one that can *)
(* complete or fail the job (claim_next, complete, fail).                  *)
THEOREM LeaseProtection == Spec => []LeaseProtectsClaim
<1>1. ClaimInv => LeaseProtectsClaim
  <2> SUFFICES ASSUME ClaimInv, NEW w \in Workers, Busy(w), worker[w].lease > 0
               PROVE  /\ HoldsClaim(w)
                      /\ row[worker[w].job].attempts = worker[w].attempts
                      /\ \A v \in Workers : v # w /\ Busy(v) /\ worker[v].job = worker[w].job =>
                           worker[v].lease = 0
    BY DEF LeaseProtectsClaim
  <2>1. worker[w].job \in Jobs
    BY BusyType DEF ClaimInv, WorkerState
  <2>2. row[worker[w].job].token = worker[w].token
    BY DEF ClaimInv, RunningLeaseHolds
  <2>3. HoldsClaim(w) /\ row[worker[w].job].attempts = worker[w].attempts
    BY <2>1, <2>2 DEF HoldsClaim, ClaimInv, TokenMeansProcessing, BusyHasToken, RowAgrees
  <2>4. ASSUME NEW v \in Workers, v # w, Busy(v), worker[v].job = worker[w].job
        PROVE  worker[v].lease = 0
    <3>1. worker[v].lease \in 0..Lease
      BY <2>4, BusyType DEF ClaimInv, WorkerState
    <3>2. ~(worker[v].lease > 0)
      BY <2>2, <2>4 DEF ClaimInv, RunningLeaseHolds, WorkersDiffer
    <3> QED
      BY <3>1, <3>2, OutboxAssumption
  <2> QED
    BY <2>3, <2>4
<1> QED
  BY <1>1, ClaimInit, ClaimStep, PTL DEF Spec

(* Once max_attempts claims are used up, only an operator makes a job wait *)
(* for another one (RetryPolicy.after_failure, manual_retry).              *)
THEOREM RetryBudget == Spec => []BudgetRespected
<1>1. ClaimInv => BudgetRespected
  BY DEF ClaimInv
<1> QED
  BY <1>1, ClaimInit, ClaimStep, PTL DEF Spec

-----------------------------------------------------------------------------
(* A claim that a worker has after a step it had before it. *)
LEMMA BusyKeepsClaim ==
  ASSUME ClaimInv, [Next]_vars, NEW u \in Workers, Busy(u), Busy(u)'
  PROVE  /\ worker'[u].job = worker[u].job
         /\ HoldsClaim(u)' => HoldsClaim(u)
<1>1. worker[u] \in WorkerState /\ worker[u].token # NoToken /\ worker[u].job \in Jobs
  BY BusyType DEF ClaimInv, BusyHasToken, WorkerState
<1>2. ASSUME NEW v \in Workers, ClaimNext(v)
      PROVE  worker'[u].job = worker[u].job /\ (HoldsClaim(u)' => HoldsClaim(u))
  <2>1. PICK j \in Candidates, t \in FreshTokens :
          /\ row' = [row EXCEPT ![j].status = "processing",
                                ![j].attempts = NextAttempt(row[j].attempts),
                                ![j].lease = Lease,
                                ![j].token = t]
          /\ worker' = [worker EXCEPT ![v] =
               [pc |-> "handling", job |-> j, token |-> t,
                attempts |-> NextAttempt(row[j].attempts),
                lease |-> Lease, delay |-> 0, dead |-> FALSE]]
    BY <1>2 DEF ClaimNext
  <2>2. worker'[u] = worker[u] /\ worker[u].token # t
    BY <1>2, <2>1 DEF ClaimNext, FreshTokens, TokensInUse, ClaimInv, TypeOK
  <2>3. j \in Jobs /\ row'[j].token = t /\ \A k \in Jobs : k # j => row'[k] = row[k]
    BY <2>1 DEF Candidates, ClaimInv, TypeOK, Row
  <2> QED
    BY <1>1, <2>2, <2>3 DEF HoldsClaim
<1>3. ASSUME NEW v \in Workers,
             HandlerReturns(v) \/ HandlerRaises(v) \/ HandlerRejects(v) \/ HandlerTimesOut(v)
      PROVE  worker'[u].job = worker[u].job /\ (HoldsClaim(u)' => HoldsClaim(u))
  <2>1. worker'[u].job = worker[u].job /\ worker'[u].token = worker[u].token /\ row' = row
    BY <1>1, <1>3
    DEF HandlerReturns, HandlerRaises, HandlerRejects, HandlerTimesOut, Decide, ClaimInv, TypeOK,
        WorkerState
  <2> QED
    BY <2>1 DEF HoldsClaim
<1>4. ASSUME NEW v \in Workers, Complete(v) \/ Fail(v)
      PROVE  worker'[u].job = worker[u].job /\ (HoldsClaim(u)' => HoldsClaim(u))
  <2>1. worker'[u] = worker[u]
    BY <1>4 DEF Complete, Fail, ClaimInv, TypeOK, Busy, Idle
  <2>2. Busy(v) /\ worker[v].job \in Jobs
    BY <1>4, BusyType DEF Complete, Fail, Busy, ClaimInv, WorkerState
  <2>3. \/ row' = row
        \/ /\ row'[worker[v].job].token = NoToken
           /\ \A k \in Jobs : k # worker[v].job => row'[k] = row[k]
    BY <1>4, <2>2 DEF Complete, Fail, ClaimInv, TypeOK, Row
  <2> QED
    BY <1>1, <2>1, <2>3 DEF HoldsClaim
<1>5. ASSUME NEW v \in Workers, Crash(v)
      PROVE  worker'[u].job = worker[u].job /\ (HoldsClaim(u)' => HoldsClaim(u))
  BY <1>5 DEF Crash, ClaimInv, TypeOK, Busy, Idle, HoldsClaim
<1>6. ASSUME NEW j \in Jobs, Enqueue(j) \/ ManualRetry(j) \/ CompleteResolvedEvent(j)
      PROVE  worker'[u].job = worker[u].job /\ (HoldsClaim(u)' => HoldsClaim(u))
  <2>1. /\ worker' = worker
        /\ row'[j].status # "processing"
        /\ \A k \in Jobs : k # j => row'[k] = row[k]
    BY <1>6 DEF Enqueue, ManualRetry, CompleteResolvedEvent, ClaimInv, TypeOK, Row
  <2> QED
    BY <1>1, <2>1 DEF HoldsClaim
<1>7. CASE PurgeCompleted
  <2>1. worker' = worker /\ \A k \in Jobs : row'[k] = row[k] \/ row'[k].status = "purged"
    BY <1>7 DEF PurgeCompleted, NewRow
  <2> QED
    BY <1>1, <2>1 DEF HoldsClaim
<1>8. CASE Tick
  <2>1. \A k \in Jobs : row'[k].status = row[k].status /\ row'[k].token = row[k].token
    BY <1>8 DEF Tick, ClaimInv, TypeOK, Row
  <2>2. worker'[u] \in {[worker[u] EXCEPT !.lease = Down(@), !.delay = Sooner(@)],
                        [worker[u] EXCEPT !.lease = Down(@)]}
    BY <1>8 DEF Tick, Busy
  <2>3. worker'[u].job = worker[u].job /\ worker'[u].token = worker[u].token
    BY <1>1, <2>2 DEF WorkerState
  <2> QED
    BY <1>1, <2>1, <2>3 DEF HoldsClaim
<1>9. CASE UNCHANGED vars
  BY <1>9 DEF vars, HoldsClaim
<1> QED
  BY <1>2, <1>3, <1>4, <1>5, <1>6, <1>7, <1>8, <1>9 DEF Next, WorkerStep

(* What a failing handler, an outcome, a crash, an operator, retention and *)
(* time leave of workers and rows, for the modules whose handlers run on   *)
(* the queue.                                                              *)
LEMMA QuietMoves ==
  ASSUME ClaimInv,
         \/ \E w \in Workers : \/ HandlerRaises(w) \/ HandlerRejects(w) \/ HandlerTimesOut(w)
                              \/ Complete(w) \/ Fail(w) \/ Crash(w)
         \/ \E j \in Jobs : Enqueue(j) \/ ManualRetry(j)
         \/ PurgeCompleted \/ Tick \/ UNCHANGED vars
  PROVE  /\ [Next]_vars
         /\ \A u \in Workers : Handling(u)' => Handling(u)
         /\ \A u \in Workers : worker'[u].pc = "completing" => worker[u].pc = "completing"
         /\ \A j \in Jobs : row'[j].status \in {"completed", "purged"} =>
              \/ row[j].status \in {"completed", "purged"}
              \/ \E w \in Workers : worker[w].pc = "completing" /\ worker[w].job = j
         /\ \A j \in Jobs : row'[j].status = "purged" =>
              row[j].status = "purged" \/ j \notin Referenced
<1> DEFINE Handlers == \A u \in Workers : Handling(u)' => Handling(u)
           Ends == \A u \in Workers : worker'[u].pc = "completing" => worker[u].pc = "completing"
           Done == \A j \in Jobs : row'[j].status \in {"completed", "purged"} =>
                     \/ row[j].status \in {"completed", "purged"}
                     \/ \E w \in Workers : worker[w].pc = "completing" /\ worker[w].job = j
           Gone == \A j \in Jobs : row'[j].status = "purged" =>
                     row[j].status = "purged" \/ j \notin Referenced
           Goal == Handlers /\ Ends /\ Done /\ Gone
<1>0. TypeOK
  BY DEF ClaimInv
<1>1. [Next]_vars
  BY DEF Next, WorkerStep
<1> SUFFICES Goal
  BY <1>1
<1>2. ASSUME NEW w \in Workers, HandlerRaises(w) \/ HandlerRejects(w) \/ HandlerTimesOut(w)
      PROVE  Goal
  <2>1. row' = row /\ Handling(w)
    BY <1>2 DEF HandlerRaises, HandlerRejects, HandlerTimesOut, Decide
  <2>2. PICK d : Decide(w, d)
    BY <1>2 DEF HandlerRaises, HandlerRejects, HandlerTimesOut
  <2>3. worker[w] \in WorkerState
    BY <1>0, <2>1, BusyType DEF Handling, Busy
  <2>4. worker'[w].pc = "failing" /\ \A u \in Workers : u # w => worker'[u] = worker[u]
    BY <1>0, <2>2, <2>3 DEF Decide, TypeOK, WorkerState
  <2>5. Handlers
    BY <2>1, <2>4 DEF Handling
  <2>6. Ends
    BY <2>4
  <2>7. Done /\ Gone
    BY <2>1
  <2> QED
    BY <2>5, <2>6, <2>7
<1>3. ASSUME NEW w \in Workers, Complete(w) \/ Fail(w) \/ Crash(w) PROVE Goal
  <2>1. \A u \in Workers : worker'[u] \in {worker[u], Idle}
    BY <1>0, <1>3 DEF Complete, Fail, Crash, TypeOK
  <2>2. Busy(w) /\ worker[w].job \in Jobs
    BY <1>0, <1>3, BusyType DEF Complete, Fail, Crash, Busy, WorkerState
  <2>3. \/ row' = row
        \/ /\ \A k \in Jobs : k # worker[w].job => row'[k] = row[k]
           /\ \/ row'[worker[w].job].status \in {"pending", "dead_letter"}
              \/ /\ row'[worker[w].job].status = "completed"
                 /\ worker[w].pc = "completing"
    <3>1. CASE Complete(w)
      BY <1>0, <2>2, <3>1 DEF Complete, TypeOK, Row
    <3>2. CASE Fail(w)
      BY <1>0, <2>2, <3>2 DEF Fail, TypeOK, Row
    <3>3. CASE Crash(w)
      BY <3>3 DEF Crash
    <3> QED
      BY <1>3, <3>1, <3>2, <3>3
  <2>4. Handlers
    BY <2>1 DEF Handling, Idle
  <2>5. Ends
    BY <2>1 DEF Idle
  <2>6. Done
    BY <2>2, <2>3
  <2>7. Gone
    BY <2>2, <2>3
  <2> QED
    BY <2>4, <2>5, <2>6, <2>7
<1>4. ASSUME NEW j \in Jobs, Enqueue(j) \/ ManualRetry(j) PROVE Goal
  <2>1. /\ worker' = worker /\ row'[j].status = "pending"
        /\ \A k \in Jobs : k # j => row'[k] = row[k]
    BY <1>0, <1>4 DEF Enqueue, ManualRetry, TypeOK, Row
  <2>2. Handlers /\ Ends
    BY <2>1 DEF Handling
  <2>3. Done /\ Gone
    BY <2>1
  <2> QED
    BY <2>2, <2>3
<1>5. CASE PurgeCompleted
  <2>1. worker' = worker
    BY <1>5 DEF PurgeCompleted
  <2>2. \A k \in Jobs : row'[k] = row[k] \/ (row[k].status = "completed" /\ k \notin Referenced)
    BY <1>5 DEF PurgeCompleted, Purgeable
  <2>3. Handlers /\ Ends
    BY <2>1, <2>2 DEF Handling
  <2>4. Done /\ Gone
    BY <2>1, <2>2
  <2> QED
    BY <2>3, <2>4
<1>6. CASE Tick
  <2>1. \A k \in Jobs : row'[k].status = row[k].status
    BY <1>0, <1>6 DEF Tick, TypeOK, Row
  <2>2. ASSUME NEW u \in Workers PROVE worker'[u].pc = worker[u].pc
    <3>1. CASE ~Busy(u)
      BY <1>6, <3>1 DEF Tick, Busy
    <3>2. CASE Busy(u)
      <4>1. worker[u] \in WorkerState
        BY <1>0, <3>2, BusyType
      <4>2. worker'[u] \in {[worker[u] EXCEPT !.lease = Down(@), !.delay = Sooner(@)],
                            [worker[u] EXCEPT !.lease = Down(@)]}
        BY <1>6, <3>2 DEF Tick, Busy
      <4> QED
        BY <4>1, <4>2 DEF WorkerState
    <3> QED
      BY <3>1, <3>2
  <2>3. Handlers /\ Ends
    BY <2>1, <2>2 DEF Handling
  <2>4. Done /\ Gone
    BY <2>1, <2>2
  <2> QED
    BY <2>3, <2>4
<1>7. CASE UNCHANGED vars
  <2>1. Handlers /\ Ends
    BY <1>7 DEF vars, Handling
  <2>2. Done /\ Gone
    BY <1>7 DEF vars
  <2> QED
    BY <2>1, <2>2
<1> QED
  BY <1>2, <1>3, <1>4, <1>5, <1>6, <1>7

-----------------------------------------------------------------------------
(* Outbox implements JobQueue. *)

QPhase == [j \in Jobs |-> Phase(j)]
QOwner == [j \in Jobs |-> row[j].token]
QLate == [j \in Jobs |-> row[j].status = "processing" /\ row[j].lease = 0]
QHeld == {<<worker[w].job, worker[w].token>> : w \in {v \in Workers : Busy(v)}}

(* A claim is held by at most one worker. *)
LEMMA HeldOnce ==
  ASSUME ClaimInv, NEW v \in Workers, NEW w \in Workers, Busy(v), Busy(w),
         worker[v].token = worker[w].token
  PROVE  v = w
  BY DEF ClaimInv, WorkersDiffer

(* A worker that goes idle gives up exactly its own claim. *)
LEMMA HeldShrinks ==
  ASSUME ClaimInv, NEW w \in Workers, Busy(w), ~Busy(w)',
         \A v \in Workers : v # w => worker'[v] = worker[v]
  PROVE  QHeld' = QHeld \ {<<worker[w].job, worker[w].token>>}
<1>1. \A v \in Workers : v # w /\ Busy(v) => worker[v].token # worker[w].token
  BY HeldOnce
<1>2. \A v \in Workers : Busy(v)' <=> Busy(v) /\ v # w
  BY DEF Busy
<1>3. QHeld' \subseteq QHeld \ {<<worker[w].job, worker[w].token>>}
  BY <1>1, <1>2 DEF QHeld
<1>4. QHeld \ {<<worker[w].job, worker[w].token>>} \subseteq QHeld'
  BY <1>2 DEF QHeld
<1> QED
  BY <1>3, <1>4

(* Rows whose status, token and lease stay map to an unchanged queue. *)
LEMMA SameRows ==
  ASSUME row' = row
  PROVE  QPhase' = QPhase /\ QOwner' = QOwner /\ QLate' = QLate
  BY DEF QPhase, QOwner, QLate, Phase

LEMMA SameHeld ==
  ASSUME \A v \in Workers : /\ Busy(v)' <=> Busy(v)
                            /\ Busy(v) => /\ worker'[v].job = worker[v].job
                                          /\ worker'[v].token = worker[v].token
  PROVE  QHeld' = QHeld
<1>1. QHeld' \subseteq QHeld
  BY DEF QHeld
<1>2. QHeld \subseteq QHeld'
  BY DEF QHeld
<1> QED
  BY <1>1, <1>2

(* One row that moves to status x moves its job to the phase x stands for. *)
LEMMA PhaseMoves ==
  ASSUME NEW j \in Jobs, \A k \in Jobs : k # j => row'[k] = row[k]
  PROVE  QPhase' = [QPhase EXCEPT ![j] = Phase(j)']
<1>1. \A k \in Jobs : k # j => Phase(k)' = Phase(k)
  BY DEF Phase
<1>2. QPhase = [k \in Jobs |-> Phase(k)] /\ QPhase' = [k \in Jobs |-> Phase(k)']
  BY DEF QPhase
<1> QED
  BY <1>1, <1>2

LEMMA ClaimNextGrants ==
  ASSUME ClaimInv, NEW w \in Workers, ClaimNext(w)
  PROVE  Queue!Next
<1> USE OutboxAssumption
<1>1. PICK j \in Candidates, t \in FreshTokens :
        /\ row' = [row EXCEPT ![j].status = "processing",
                              ![j].attempts = NextAttempt(row[j].attempts),
                              ![j].lease = Lease,
                              ![j].token = t]
        /\ worker' = [worker EXCEPT ![w] =
             [pc |-> "handling", job |-> j, token |-> t,
              attempts |-> NextAttempt(row[j].attempts),
              lease |-> Lease, delay |-> 0, dead |-> FALSE]]
  BY DEF ClaimNext
<1>2. j \in Jobs /\ Claimable(j) /\ t \in Tokens
  BY DEF Candidates, FreshTokens
<1>3. /\ \A k \in Jobs : row[k].token # t
      /\ \A v \in Workers : Busy(v) => worker[v].token # t
  BY DEF FreshTokens, TokensInUse
<1>4. /\ row'[j].status = "processing" /\ row'[j].token = t /\ row'[j].lease = Lease
      /\ \A k \in Jobs : k # j => row'[k] = row[k]
  BY <1>1, <1>2 DEF ClaimInv, TypeOK, Row
<1>5. /\ worker'[w].pc = "handling" /\ worker'[w].job = j /\ worker'[w].token = t
      /\ ~Busy(w)
      /\ \A v \in Workers : v # w => worker'[v] = worker[v]
  BY <1>1 DEF ClaimNext, ClaimInv, TypeOK
<1>6. QPhase[j] = "waiting" \/ (QPhase[j] = "running" /\ QLate[j])
  BY <1>2 DEF QPhase, QLate, Phase, Claimable
<1>7. \A k \in Jobs : QOwner[k] # t /\ <<k, t>> \notin QHeld
  BY <1>3 DEF QOwner, QHeld
<1>8. QPhase' = [QPhase EXCEPT ![j] = "running"]
  BY <1>2, <1>4, PhaseMoves DEF Phase
<1>9. QOwner' = [QOwner EXCEPT ![j] = t]
  BY <1>2, <1>4 DEF QOwner
<1>10. QLate' = [QLate EXCEPT ![j] = FALSE]
  BY <1>2, <1>4 DEF QLate
<1>11. QHeld' = QHeld \cup {<<j, t>>}
  <2>1. \A v \in Workers : Busy(v)' <=> Busy(v) \/ v = w
    BY <1>5 DEF Busy
  <2>2. QHeld' \subseteq QHeld \cup {<<j, t>>}
    BY <1>5, <2>1 DEF QHeld
  <2>3. QHeld \cup {<<j, t>>} \subseteq QHeld'
    BY <1>5, <2>1 DEF QHeld
  <2> QED
    BY <2>2, <2>3
<1>12. Queue!Grant(j, t)
  BY <1>6, <1>7, <1>8, <1>9, <1>10, <1>11 DEF Queue!Grant, QPhase, QOwner, QLate, QHeld
<1> QED
  BY <1>2, <1>12 DEF Queue!Next

(* A worker whose outcome counts settles the job, any other drops out. *)
LEMMA RecordSettles ==
  ASSUME ClaimInv, NEW w \in Workers, Complete(w) \/ Fail(w)
  PROVE  Queue!Next
<1>1. Busy(w) /\ worker[w] \in WorkerState
  BY BusyType DEF Complete, Fail, Busy, ClaimInv
<1>2. PICK j \in Jobs, c \in Tokens : j = worker[w].job /\ c = worker[w].token
  BY <1>1, OutboxAssumption DEF WorkerState, ClaimInv, BusyHasToken, Tokens, NoToken
<1>3. ~Busy(w)' /\ \A v \in Workers : v # w => worker'[v] = worker[v]
  BY DEF Complete, Fail, ClaimInv, TypeOK, Busy, Idle
<1>4. QHeld' = QHeld \ {<<j, c>>} /\ <<j, c>> \in QHeld
  BY <1>1, <1>2, <1>3, HeldShrinks DEF QHeld
<1>5. CASE ~HoldsClaim(w)
  <2>1. row' = row
    BY <1>5 DEF Complete, Fail
  <2>2. Queue!Drop(j, c)
    BY <1>4, <2>1, SameRows DEF Queue!Drop, QPhase, QOwner, QLate, QHeld
  <2> QED
    BY <1>2, <2>2 DEF Queue!Next
<1>6. CASE HoldsClaim(w)
  <2>1. /\ row'[j].status \in {"completed", "dead_letter", "pending"}
        /\ row'[j].token = NoToken
        /\ \A k \in Jobs : k # j => row'[k] = row[k]
    BY <1>2, <1>6 DEF Complete, Fail, ClaimInv, TypeOK, Row
  <2>2. row[j].status = "processing" /\ row[j].token = c
    BY <1>2, <1>6 DEF HoldsClaim
  <2>3. PICK p \in {"done", "failed", "waiting"} : QPhase'[j] = p
    <3>1. QPhase'[j] \in {"done", "failed", "waiting"}
      BY <1>2, <2>1 DEF QPhase, Phase
    <3> QED
      BY <3>1
  <2>4. QPhase' = [QPhase EXCEPT ![j] = p]
    <3>1. Phase(j)' = p
      BY <1>2, <2>3 DEF QPhase
    <3> QED
      BY <1>2, <2>1, <3>1, PhaseMoves
  <2>5. QOwner' = [QOwner EXCEPT ![j] = NoToken]
    BY <1>2, <2>1 DEF QOwner
  <2>6. QLate' = [QLate EXCEPT ![j] = FALSE]
    BY <1>2, <2>1 DEF QLate
  <2>7. QPhase[j] = "running" /\ QOwner[j] = c
    BY <1>2, <2>2 DEF QPhase, QOwner, Phase
  <2>8. Queue!Settle(j, c, p)
    BY <1>4, <2>4, <2>5, <2>6, <2>7
    DEF Queue!Settle, Queue!NoClaim, NoToken, QPhase, QOwner, QLate, QHeld
  <2> QED
    BY <1>2, <2>8 DEF Queue!Next
<1> QED
  BY <1>5, <1>6

LEMMA CrashDrops ==
  ASSUME ClaimInv, NEW w \in Workers, Crash(w)
  PROVE  Queue!Next
<1>1. Busy(w) /\ worker[w] \in WorkerState
  BY BusyType DEF Crash, ClaimInv
<1>2. PICK j \in Jobs, c \in Tokens : j = worker[w].job /\ c = worker[w].token
  BY <1>1, OutboxAssumption DEF WorkerState, ClaimInv, BusyHasToken, Tokens, NoToken
<1>3. ~Busy(w)' /\ \A v \in Workers : v # w => worker'[v] = worker[v]
  BY DEF Crash, ClaimInv, TypeOK, Busy, Idle
<1>4. QHeld' = QHeld \ {<<j, c>>} /\ <<j, c>> \in QHeld
  BY <1>1, <1>2, <1>3, HeldShrinks DEF QHeld
<1>5. Queue!Drop(j, c)
  BY <1>4, SameRows DEF Crash, Queue!Drop, QPhase, QOwner, QLate, QHeld
<1> QED
  BY <1>2, <1>5 DEF Queue!Next

(* What operators, modules and business transactions do to one job. *)
LEMMA RestingMoves ==
  ASSUME ClaimInv, NEW j \in Jobs,
         Enqueue(j) \/ ManualRetry(j) \/ CompleteResolvedEvent(j)
  PROVE  Queue!Next
<1>1. worker' = worker /\ \A k \in Jobs : k # j => row'[k] = row[k]
  BY DEF Enqueue, ManualRetry, CompleteResolvedEvent, ClaimInv, TypeOK
<1>2. /\ row[j].status \notin {"processing"} /\ row[j].token = NoToken
      /\ row'[j].status \notin {"processing"} /\ row'[j].token = NoToken
  BY DEF Enqueue, ManualRetry, CompleteResolvedEvent, ClaimInv, TypeOK, Row,
         TokenMeansProcessing
<1>3. QHeld' = QHeld
  BY <1>1, SameHeld DEF Busy
<1>4. QOwner' = QOwner /\ QLate' = QLate
  BY <1>1, <1>2 DEF QOwner, QLate
<1>5. QPhase' = [QPhase EXCEPT ![j] = Phase(j)']
  BY <1>1, PhaseMoves
<1>6. CASE Enqueue(j)
  <2>1. Phase(j)' = "waiting" /\ QPhase[j] = "unknown"
    BY <1>6 DEF Enqueue, Phase, QPhase, ClaimInv, TypeOK, Row
  <2>2. Queue!Submit(j)
    BY <2>1, <1>3, <1>4, <1>5 DEF Queue!Submit, QPhase, QOwner, QLate, QHeld
  <2> QED
    BY <2>2 DEF Queue!Next
<1>7. CASE ManualRetry(j)
  <2>1. Phase(j)' = "waiting" /\ QPhase[j] = "failed"
    BY <1>7 DEF ManualRetry, Phase, QPhase, ClaimInv, TypeOK, Row
  <2>2. Queue!Revive(j)
    BY <2>1, <1>3, <1>4, <1>5 DEF Queue!Revive, QPhase, QOwner, QLate, QHeld
  <2> QED
    BY <2>2 DEF Queue!Next
<1>8. CASE CompleteResolvedEvent(j)
  <2>1. Phase(j)' = "done" /\ QPhase[j] \in {"waiting", "failed"}
    BY <1>8 DEF CompleteResolvedEvent, Phase, QPhase, ClaimInv, TypeOK, Row
  <2>2. Queue!Resolve(j)
    BY <2>1, <1>3, <1>4, <1>5 DEF Queue!Resolve, QPhase, QOwner, QLate, QHeld
  <2> QED
    BY <2>2 DEF Queue!Next
<1> QED
  BY <1>6, <1>7, <1>8

LEMMA PurgeRemoves ==
  ASSUME ClaimInv, PurgeCompleted
  PROVE  Queue!Next
<1>1. PICK S \in SUBSET Purgeable :
        row' = [k \in Jobs |->
                  IF k \in S THEN [NewRow EXCEPT !.status = "purged"] ELSE row[k]]
  BY DEF PurgeCompleted
<1>2. S \in SUBSET Jobs /\ \A k \in S : row[k].status = "completed" /\ row[k].token = NoToken
  BY DEF Purgeable, ClaimInv, TokenMeansProcessing
<1>3. /\ \A k \in S : row'[k].status = "purged" /\ row'[k].token = NoToken
      /\ \A k \in Jobs : k \notin S => row'[k] = row[k]
  BY <1>1, <1>2 DEF NewRow
<1>4. QHeld' = QHeld
  BY SameHeld DEF PurgeCompleted, Busy
<1>5. QOwner' = QOwner /\ QLate' = QLate
  BY <1>2, <1>3 DEF QOwner, QLate
<1>6. /\ \A k \in S : Phase(k) = "done" /\ Phase(k)' = "removed"
      /\ \A k \in Jobs : k \notin S => Phase(k)' = Phase(k)
  BY <1>2, <1>3 DEF Phase
<1>7. QPhase' = [k \in Jobs |-> IF k \in S THEN "removed" ELSE QPhase[k]]
  <2>1. QPhase = [k \in Jobs |-> Phase(k)] /\ QPhase' = [k \in Jobs |-> Phase(k)']
    BY DEF QPhase
  <2> QED
    BY <1>2, <1>6, <2>1
<1>8. \A k \in S : QPhase[k] = "done"
  BY <1>2, <1>6 DEF QPhase
<1>9. Queue!Remove(S)
  BY <1>4, <1>5, <1>7, <1>8 DEF Queue!Remove, QPhase, QOwner, QLate, QHeld
<1> QED
  BY <1>2, <1>9 DEF Queue!Next

(* Time expires the leases that reach zero. *)
LEMMA TickExpires ==
  ASSUME ClaimInv, Tick
  PROVE  Queue!Next
<1>0. PICK S \in SUBSET Jobs :
        \A k \in Jobs : k \in S <=> row[k].status = "processing" /\ row'[k].lease = 0
  <2>1. {k \in Jobs : row[k].status = "processing" /\ row'[k].lease = 0} \in SUBSET Jobs
    OBVIOUS
  <2> QED
    BY <2>1
<1>1. \A k \in Jobs : /\ row'[k].status = row[k].status
                      /\ row'[k].token = row[k].token
                      /\ row[k].status = "processing" => row'[k].lease = Down(row[k].lease)
  BY DEF Tick, ClaimInv, TypeOK, Row
<1>2. QPhase' = QPhase /\ QOwner' = QOwner
  <2>1. \A k \in Jobs : Phase(k)' = Phase(k)
    BY <1>1 DEF Phase
  <2> QED
    BY <1>1, <2>1 DEF QPhase, QOwner
<1>3. QHeld' = QHeld
  <2>1. ASSUME NEW v \in Workers
        PROVE  /\ Busy(v)' <=> Busy(v)
               /\ Busy(v) => worker'[v].job = worker[v].job /\ worker'[v].token = worker[v].token
    <3>1. CASE ~Busy(v)
      BY <3>1 DEF Tick, Busy
    <3>2. CASE Busy(v)
      <4>1. worker[v] \in WorkerState
        BY <3>2, BusyType DEF ClaimInv
      <4>2. worker'[v] \in {[worker[v] EXCEPT !.lease = Down(@), !.delay = Sooner(@)],
                            [worker[v] EXCEPT !.lease = Down(@)]}
        BY <3>2 DEF Tick, Busy
      <4> QED
        BY <3>2, <4>1, <4>2 DEF WorkerState, Busy
    <3> QED
      BY <3>1, <3>2
  <2> QED
    BY <2>1, SameHeld
<1>4. \A k \in S : QPhase[k] = "running"
  BY <1>0 DEF QPhase, Phase
<1>5. QLate' = [k \in Jobs |-> QLate[k] \/ k \in S]
  <2>1. ASSUME NEW k \in Jobs
        PROVE  (row'[k].status = "processing" /\ row'[k].lease = 0)
                 = ((row[k].status = "processing" /\ row[k].lease = 0) \/ k \in S)
    BY <1>0, <1>1 DEF Down
  <2> QED
    BY <2>1 DEF QLate
<1>6. Queue!Expire(S)
  BY <1>2, <1>3, <1>4, <1>5 DEF Queue!Expire, QPhase, QOwner, QLate, QHeld
<1> QED
  BY <1>6 DEF Queue!Next

LEMMA HandlerStutters ==
  ASSUME ClaimInv, NEW w \in Workers, row' = row, Handling(w),
         worker'[w].pc # "idle", worker'[w].job = worker[w].job,
         worker'[w].token = worker[w].token,
         \A v \in Workers : v # w => worker'[v] = worker[v]
  PROVE  UNCHANGED Queue!vars
<1>1. QHeld' = QHeld
  BY SameHeld DEF Busy, Handling
<1> QED
  BY <1>1, SameRows DEF Queue!vars, QPhase, QOwner, QLate, QHeld

LEMMA QueueStep == ClaimInv /\ [Next]_vars => [Queue!Next]_(Queue!vars)
<1> SUFFICES ASSUME ClaimInv, [Next]_vars PROVE Queue!Next \/ UNCHANGED Queue!vars
  OBVIOUS
<1>1. ASSUME NEW w \in Workers, HandlerReturns(w) PROVE UNCHANGED Queue!vars
  <2>1. Handling(w) /\ worker[w] \in WorkerState
    BY <1>1, BusyType DEF HandlerReturns, Handling, Busy, ClaimInv
  <2>2. /\ worker'[w].pc # "idle" /\ worker'[w].job = worker[w].job
        /\ worker'[w].token = worker[w].token /\ row' = row
        /\ \A v \in Workers : v # w => worker'[v] = worker[v]
    BY <1>1, <2>1 DEF HandlerReturns, ClaimInv, TypeOK, WorkerState
  <2> QED
    BY <2>1, <2>2, HandlerStutters
<1>2. ASSUME NEW w \in Workers, NEW d, Handling(w), Decide(w, d) PROVE UNCHANGED Queue!vars
  <2>1. worker[w] \in WorkerState
    BY <1>2, BusyType DEF Handling, Busy, ClaimInv
  <2>2. /\ worker'[w].pc # "idle" /\ worker'[w].job = worker[w].job
        /\ worker'[w].token = worker[w].token /\ row' = row
        /\ \A v \in Workers : v # w => worker'[v] = worker[v]
    BY <1>2, <2>1 DEF Decide, ClaimInv, TypeOK, WorkerState
  <2> QED
    BY <1>2, <2>2, HandlerStutters
<1>3. ASSUME NEW w \in Workers, HandlerRaises(w) \/ HandlerRejects(w) \/ HandlerTimesOut(w)
      PROVE  UNCHANGED Queue!vars
  BY <1>2, <1>3 DEF HandlerRaises, HandlerRejects, HandlerTimesOut
<1>4. CASE UNCHANGED vars
  <2>1. QHeld' = QHeld
    BY <1>4, SameHeld DEF vars, Busy
  <2> QED
    BY <1>4, <2>1, SameRows DEF vars, Queue!vars, QPhase, QOwner, QLate, QHeld
<1> QED
  BY <1>1, <1>3, <1>4, ClaimNextGrants, RecordSettles, CrashDrops, RestingMoves, PurgeRemoves,
     TickExpires
  DEF Next, WorkerStep

(* The table, its workers, operators and retention together keep the       *)
(* promise of the abstract queue: claims are revoked only after their      *)
(* lease, only the current claim settles a job, done is final.             *)
THEOREM OutboxImplementsJobQueue == Spec => QueueSpec
<1>1. Init => Queue!Init
  <2> SUFFICES ASSUME Init PROVE Queue!Init
    OBVIOUS
  <2>1. \A j \in Jobs : /\ Phase(j) = "unknown"
                        /\ row[j].token = NoToken
                        /\ row[j].status # "processing"
    BY DEF Init, NewRow, Phase
  <2>2. QHeld = {}
    BY DEF Init, QHeld, Busy, Idle
  <2> QED
    BY <2>1, <2>2 DEF Queue!Init, Queue!NoClaim, NoToken, QHeld
<1>2. Spec => []ClaimInv
  BY ClaimInit, ClaimStep, PTL DEF Spec
<1> QED
  BY <1>1, <1>2, QueueStep, PTL DEF Spec, QueueSpec, Queue!Spec

(***************************************************************************)
(* Mail                                                                    *)
(***************************************************************************)

(* A handler that records a confirmation was given one. *)
SentIsAccepted == \A w \in Workers : MailAt(w, "accepted") => worker[w].job \in accepted

(* A handler that returns, and a worker about to complete, left a record.  *)
KnownIsRecorded ==
  \A w \in Workers : MailAt(w, "known") \/ worker[w].pc = "completing" =>
    mail[worker[w].job] # "none"

(* Retention leaves the jobs of invoice mail. *)
EvidenceStays == \A j \in Jobs : row[j].status = "purged" => j \notin Referenced

MailInv == /\ ClaimInv
           /\ MailTypeOK
           /\ SentIsAccepted
           /\ KnownIsRecorded
           /\ CompletedMeansMailed
           /\ EvidenceStays
           /\ InvoiceShowsRecords
           /\ ResendNeedsLostClaim

-----------------------------------------------------------------------------
(* The queue below the handlers, and types.                                *)

LEMMA MailStepIsQueueStep == [MailNext]_allVars => [Next]_vars
  BY DEF MailNext, allVars, mailVars, ClaimMail, WasSent, Send, MarkSent, ReturnSent, RaiseMail, RejectMail,
         RecordMail, DieMailing, Request, RetryMail, PurgeMail, MailTimePasses, Settle, CancelInvoice, Next,
         WorkerStep, vars

(* Every behaviour of the mail jobs is one of the queue: what OutboxProofs *)
(* says of claims, budgets and outcomes holds for them.                    *)
THEOREM MailUsesQueue == MailSpec => Spec
  BY MailStepIsQueueStep, PTL DEF MailSpec, Spec, MailInit

LEMMA MailTypeInit == MailInit => MailTypeOK
  BY DEF MailInit, MailTypeOK, Steps

LEMMA MailTypeStep == TypeOK /\ MailTypeOK /\ [MailNext]_allVars => MailTypeOK'
<1> SUFFICES ASSUME TypeOK, MailTypeOK, [MailNext]_allVars PROVE MailTypeOK'
  OBVIOUS
<1>1. ASSUME NEW w \in Workers, ClaimMail(w) \/ WasSent(w) PROVE MailTypeOK'
  BY <1>1 DEF ClaimMail, WasSent, MailGoto, MailTypeOK, Steps
<1>2. ASSUME NEW w \in Workers, Send(w) PROVE MailTypeOK'
  <2>1. worker[w].job \in Jobs
    BY <1>2, BusyType DEF Send, MailAt, Handling, Busy, WorkerState
  <2> QED
    BY <1>2, <2>1 DEF Send, MailGoto, MailTypeOK, Steps
<1>3. ASSUME NEW w \in Workers, MarkSent(w) PROVE MailTypeOK'
  <2>1. step' \in [Workers -> Steps] /\ accepted' \subseteq Jobs
    BY <1>3 DEF MarkSent, MailGoto, MailTypeOK, Steps
  <2>2. mail' \in [Jobs -> {"none", "claimed", "stray"}]
    BY <1>3 DEF MarkSent, MailTypeOK
  <2>3. invoice' \in {invoice, ShowSent}
    BY <1>3 DEF MarkSent
  <2>4. ShowSent \in [status : {"issued", "sent", "paid", "cancelled"}, settled : BOOLEAN]
    BY DEF ShowSent, MailTypeOK
  <2> QED
    BY <2>1, <2>2, <2>3, <2>4 DEF MailTypeOK
<1>4. ASSUME NEW w \in Workers, ReturnSent(w) \/ RaiseMail(w) \/ RejectMail(w) \/ RecordMail(w) \/ DieMailing(w)
      PROVE  MailTypeOK'
  BY <1>4 DEF ReturnSent, RaiseMail, RejectMail, RecordMail, DieMailing, mailVars, MailTypeOK
<1>5. ASSUME NEW j \in Jobs, Request(j) \/ RetryMail(j) PROVE MailTypeOK'
  BY <1>5 DEF Request, RetryMail, mailVars, MailTypeOK
<1>6. ASSUME NEW settled \in BOOLEAN, Settle(settled) PROVE MailTypeOK'
  BY <1>6 DEF Settle, MailTypeOK
<1>7. CASE CancelInvoice
  BY <1>7 DEF CancelInvoice, MailTypeOK
<1>8. CASE PurgeMail \/ MailTimePasses \/ UNCHANGED allVars
  BY <1>8 DEF PurgeMail, MailTimePasses, allVars, mailVars, MailTypeOK
<1> QED
  BY <1>1, <1>2, <1>3, <1>4, <1>5, <1>6, <1>7, <1>8 DEF MailNext

(* Steps, records and the invoice keep their types (SmtpMailHandler,       *)
(* mail_delivery, invoice.status), for every choice of constants.          *)
THEOREM MailTypeCorrect == MailSpec => []MailTypeOK
<1>1. TypeOK /\ MailTypeOK /\ [MailNext]_allVars => TypeOK' /\ MailTypeOK'
  BY TypeStep, MailStepIsQueueStep, MailTypeStep
<1>2. MailInit => TypeOK /\ MailTypeOK
  BY TypeInit, MailTypeInit DEF MailInit
<1> QED
  BY <1>1, <1>2, PTL DEF MailSpec

-----------------------------------------------------------------------------
(* The invariant.                                                          *)

LEMMA MailInvInit == MailInit => MailInv
<1> SUFFICES ASSUME MailInit PROVE MailInv
  OBVIOUS
<1>1. ClaimInv /\ MailTypeOK
  BY ClaimInit, MailTypeInit DEF MailInit
<1>2. /\ \A w \in Workers : worker[w].pc = "idle"
      /\ \A j \in Jobs : mail[j] = "none" /\ row[j].status = "absent"
  BY DEF MailInit, Init, Idle, NewRow
<1>3. InvoiceShowsRecords
  BY <1>2, MailAssumption DEF MailInit, InvoiceShowsRecords
<1> QED
  BY <1>1, <1>2, <1>3
  DEF MailInv, SentIsAccepted, KnownIsRecorded, CompletedMeansMailed, EvidenceStays,
      ResendNeedsLostClaim, MailAt, Handling

(* Steps of the queue that leave handlers, records and the invoice alone.  *)
LEMMA QuietMailStep ==
  ASSUME MailInv, ClaimInv', MailTypeOK', [Next]_vars, UNCHANGED mailVars,
         \A u \in Workers : Handling(u)' => Handling(u),
         \A u \in Workers : worker'[u].pc = "completing" =>
            worker[u].pc = "completing" \/ MailAt(u, "known"),
         \A j \in Jobs : row'[j].status \in {"completed", "purged"} => mail[j] # "none",
         \A j \in Jobs : row'[j].status = "purged" => j \notin Referenced
  PROVE  MailInv'
<1>1. step' = step /\ mail' = mail /\ accepted' = accepted /\ invoice' = invoice
  BY DEF mailVars
<1>2. ASSUME NEW u \in Workers, Handling(u)'
      PROVE  Handling(u) /\ worker'[u].job = worker[u].job /\ (HoldsClaim(u)' => HoldsClaim(u))
  BY <1>2, BusyKeepsClaim DEF MailInv, Handling, Busy
<1>3. SentIsAccepted'
  BY <1>1, <1>2 DEF MailInv, SentIsAccepted, MailAt
<1>4. KnownIsRecorded'
  <2> SUFFICES ASSUME NEW u \in Workers, MailAt(u, "known")' \/ worker'[u].pc = "completing"
               PROVE  mail'[worker'[u].job] # "none"
    BY DEF KnownIsRecorded
  <2>1. CASE MailAt(u, "known")'
    BY <1>1, <1>2, <2>1 DEF MailInv, KnownIsRecorded, MailAt
  <2>2. CASE worker'[u].pc = "completing"
    <3>1. worker'[u].job = worker[u].job
      BY <2>2, BusyKeepsClaim DEF MailInv, MailAt, Handling, Busy
    <3> QED
      BY <1>1, <2>2, <3>1 DEF MailInv, KnownIsRecorded
  <2> QED
    BY <2>1, <2>2
<1>5. CompletedMeansMailed' /\ EvidenceStays' /\ InvoiceShowsRecords'
  BY <1>1 DEF MailInv, CompletedMeansMailed, EvidenceStays, InvoiceShowsRecords
<1>6. ResendNeedsLostClaim'
  BY <1>1, <1>2 DEF MailInv, ResendNeedsLostClaim, MailAt
<1> QED
  BY <1>3, <1>4, <1>5, <1>6 DEF MailInv

LEMMA ReturnKeepsInv ==
  ASSUME MailInv, ClaimInv', MailTypeOK', NEW w \in Workers, ReturnSent(w)
  PROVE  MailInv'
<1>1. /\ [Next]_vars /\ UNCHANGED mailVars /\ row' = row
      /\ MailAt(w, "known") /\ \A u \in Workers : u # w => worker'[u] = worker[u]
  BY DEF ReturnSent, Next, WorkerStep, HandlerReturns, MailAt, MailInv, ClaimInv, TypeOK
<1>2. \A u \in Workers : Handling(u)' => Handling(u)
  BY <1>1 DEF MailAt, Handling
<1>3. \A u \in Workers : worker'[u].pc = "completing" =>
         worker[u].pc = "completing" \/ MailAt(u, "known")
  BY <1>1
<1>4. \A j \in Jobs : row'[j].status \in {"completed", "purged"} => mail[j] # "none"
  BY <1>1 DEF MailInv, CompletedMeansMailed
<1>5. \A j \in Jobs : row'[j].status = "purged" => j \notin Referenced
  BY <1>1 DEF MailInv, EvidenceStays
<1> QED
  BY <1>1, <1>2, <1>3, <1>4, <1>5, QuietMailStep

(* A handler fails, an outcome is recorded, or somebody else moves a row.  *)
LEMMA QueueMailStep ==
  ASSUME MailInv, ClaimInv', MailTypeOK', UNCHANGED mailVars,
         \/ \E w \in Workers : \/ HandlerRaises(w) \/ HandlerRejects(w) \/ HandlerTimesOut(w)
                              \/ Complete(w) \/ Fail(w) \/ Crash(w)
         \/ \E j \in Jobs : Enqueue(j) \/ ManualRetry(j)
         \/ PurgeCompleted \/ Tick \/ UNCHANGED vars
  PROVE  MailInv'
<1>1. ClaimInv
  BY DEF MailInv
<1>2. \A j \in Jobs : row'[j].status \in {"completed", "purged"} => mail[j] # "none"
  BY <1>1, QuietMoves DEF MailInv, KnownIsRecorded, CompletedMeansMailed
<1>3. \A j \in Jobs : row'[j].status = "purged" => j \notin Referenced
  BY <1>1, QuietMoves DEF MailInv, EvidenceStays
<1> QED
  BY <1>1, <1>2, <1>3, QuietMoves, QuietMailStep

(* A worker that starts on a job has asked nothing yet. *)
LEMMA ClaimKeepsMailInv ==
  ASSUME MailInv, ClaimInv', MailTypeOK', NEW w \in Workers, ClaimMail(w)
  PROVE  MailInv'
<1>1. /\ ClaimNext(w) /\ [Next]_vars /\ mail' = mail /\ accepted' = accepted /\ invoice' = invoice
      /\ step'[w] = "start" /\ \A u \in Workers : u # w => step'[u] = step[u]
  BY DEF ClaimMail, MailGoto, Next, WorkerStep, MailInv, MailTypeOK
<1>2. /\ worker'[w].pc = "handling"
      /\ \A u \in Workers : u # w => worker'[u] = worker[u]
  BY <1>1 DEF ClaimNext, MailInv, ClaimInv, TypeOK
<1>3. ASSUME NEW u \in Workers, u # w, Busy(u)
      PROVE  HoldsClaim(u)' => HoldsClaim(u)
  BY <1>1, <1>2, <1>3, BusyKeepsClaim DEF MailInv, Busy
<1>4. SentIsAccepted' /\ KnownIsRecorded'
  BY <1>1, <1>2 DEF MailInv, SentIsAccepted, KnownIsRecorded, MailAt, Handling
<1>5. ResendNeedsLostClaim'
  <2> SUFFICES ASSUME NEW u \in Workers, MailAt(u, "unsent")', mail'[worker'[u].job] # "none",
                      HoldsClaim(u)'
               PROVE  mail'[worker'[u].job] = "stray"
    BY DEF ResendNeedsLostClaim
  <2>1. u # w /\ MailAt(u, "unsent") /\ worker'[u].job = worker[u].job
    BY <1>1, <1>2 DEF MailAt, Handling
  <2> QED
    BY <1>1, <1>3, <2>1 DEF MailInv, ResendNeedsLostClaim, MailAt, Handling, Busy
<1>6. \A j \in Jobs : row'[j].status \in {row[j].status, "processing"}
  BY <1>1 DEF ClaimNext, MailInv, ClaimInv, TypeOK, Row
<1>7. CompletedMeansMailed' /\ EvidenceStays' /\ InvoiceShowsRecords'
  BY <1>1, <1>6 DEF MailInv, CompletedMeansMailed, EvidenceStays, InvoiceShowsRecords
<1> QED
  BY <1>4, <1>5, <1>7 DEF MailInv

(* Asking the ledger and giving the message to the server. *)
LEMMA SendKeepsInv ==
  ASSUME MailInv, ClaimInv', MailTypeOK', NEW w \in Workers, WasSent(w) \/ Send(w)
  PROVE  MailInv'
<1>1. /\ row' = row /\ worker' = worker /\ mail' = mail /\ invoice' = invoice
      /\ \A u \in Workers : u # w => step'[u] = step[u]
      /\ step'[w] = "accepted" => worker[w].job \in accepted'
      /\ step'[w] = "unsent" => mail[worker[w].job] = "none"
      /\ step'[w] = "known" => mail[worker[w].job] # "none"
      /\ accepted \subseteq accepted'
  BY DEF WasSent, Send, MailGoto, vars, MailInv, MailTypeOK
<1>2. SentIsAccepted' /\ KnownIsRecorded'
  BY <1>1 DEF MailInv, SentIsAccepted, KnownIsRecorded, MailAt, Handling
<1>3. ResendNeedsLostClaim'
  BY <1>1 DEF MailInv, ResendNeedsLostClaim, MailAt, Handling, HoldsClaim
<1>4. CompletedMeansMailed' /\ EvidenceStays' /\ InvoiceShowsRecords'
  BY <1>1 DEF MailInv, CompletedMeansMailed, EvidenceStays, InvoiceShowsRecords
<1> QED
  BY <1>2, <1>3, <1>4 DEF MailInv

(* Two handlers of one job do not both hold its claim. *)
LEMMA OneHolder ==
  ASSUME ClaimInv, NEW v \in Workers, NEW w \in Workers, v # w, Busy(v), Busy(w),
         worker[v].job = worker[w].job, HoldsClaim(v)
  PROVE  ~HoldsClaim(w)
  BY DEF ClaimInv, WorkersDiffer, HoldsClaim

(* Recording the confirmation. *)
LEMMA MarkSentKeepsInv ==
  ASSUME MailInv, ClaimInv', MailTypeOK', NEW w \in Workers, MarkSent(w)
  PROVE  MailInv'
<1> DEFINE j == worker[w].job
<1>1. /\ row' = row /\ worker' = worker /\ accepted' = accepted
      /\ \A u \in Workers : u # w => step'[u] = step[u]
      /\ step'[w] = "known" /\ MailAt(w, "accepted")
  BY DEF MarkSent, MailGoto, vars, MailInv, MailTypeOK
<1>2. j \in Jobs /\ j \in accepted
  BY <1>1, BusyType DEF MailAt, Handling, Busy, WorkerState, MailInv, ClaimInv, SentIsAccepted
<1>3. \/ mail[j] # "none" /\ mail' = mail /\ invoice' = invoice
      \/ /\ mail[j] = "none"
         /\ mail'[j] = IF HoldsClaim(w) THEN "claimed" ELSE "stray"
         /\ \A k \in Jobs : k # j => mail'[k] = mail[k]
         /\ invoice' = IF j \in Referenced THEN ShowSent ELSE invoice
  BY <1>2 DEF MarkSent, MailInv, MailTypeOK
<1>4. mail'[j] # "none" /\ \A k \in Jobs : mail[k] # "none" => mail'[k] = mail[k]
  BY <1>2, <1>3
<1>5. SentIsAccepted'
  BY <1>1 DEF MailInv, SentIsAccepted, MailAt, Handling
<1>6. KnownIsRecorded'
  <2> SUFFICES ASSUME NEW u \in Workers, MailAt(u, "known")' \/ worker'[u].pc = "completing"
               PROVE  mail'[worker'[u].job] # "none"
    BY DEF KnownIsRecorded
  <2>1. CASE u = w
    BY <1>1, <1>4, <2>1
  <2>2. CASE u # w
    <3>1. mail[worker[u].job] # "none"
      BY <1>1, <2>2 DEF MailInv, KnownIsRecorded, MailAt, Handling
    <3>2. worker[u].job \in Jobs
      BY <1>1, BusyType DEF MailAt, Handling, Busy, WorkerState, MailInv, ClaimInv
    <3> QED
      BY <1>1, <1>4, <3>1, <3>2
  <2> QED
    BY <2>1, <2>2
<1>7. CompletedMeansMailed' /\ EvidenceStays'
  BY <1>1, <1>2, <1>3, <1>4 DEF MailInv, CompletedMeansMailed, EvidenceStays
<1>8. InvoiceShowsRecords'
  <2>1. CASE mail' = mail /\ invoice' = invoice
    BY <2>1 DEF MailInv, InvoiceShowsRecords
  <2>2. CASE mail[j] = "none" /\ j \notin Referenced
    <3>1. (\E k \in Referenced : mail'[k] # "none") <=> \E k \in Referenced : mail[k] # "none"
      BY <1>3, <2>2, MailAssumption
    <3> QED
      BY <1>3, <2>2, <3>1 DEF MailInv, InvoiceShowsRecords
  <2>3. CASE mail[j] = "none" /\ j \in Referenced
    <3>1. \E k \in Referenced : mail'[k] # "none"
      BY <1>4, <2>3
    <3>2. /\ invoice'.settled = invoice.settled
          /\ invoice'.status = IF invoice.status = "issued" THEN "sent" ELSE invoice.status
      BY <1>3, <2>3 DEF ShowSent, MailInv, MailTypeOK
    <3> QED
      BY <3>1, <3>2 DEF MailInv, InvoiceShowsRecords
  <2> QED
    BY <1>3, <2>1, <2>2, <2>3
<1>9. ResendNeedsLostClaim'
  <2> SUFFICES ASSUME NEW u \in Workers, MailAt(u, "unsent")', mail'[worker'[u].job] # "none",
                      HoldsClaim(u)'
               PROVE  mail'[worker'[u].job] = "stray"
    BY DEF ResendNeedsLostClaim
  <2>1. u # w /\ MailAt(u, "unsent") /\ HoldsClaim(u) /\ worker'[u].job = worker[u].job
    BY <1>1 DEF MailAt, Handling, HoldsClaim
  <2>2. worker[u].job \in Jobs /\ Busy(u) /\ Busy(w)
    BY <1>1, <2>1, BusyType DEF MailAt, Handling, Busy, WorkerState, MailInv, ClaimInv
  <2>3. CASE mail[worker[u].job] # "none"
    BY <1>4, <2>1, <2>2, <2>3 DEF MailInv, ResendNeedsLostClaim
  <2>4. CASE mail[worker[u].job] = "none"
    <3>1. worker[u].job = j /\ mail[j] = "none"
      BY <1>3, <2>1, <2>2, <2>4
    <3>2. ~HoldsClaim(w)
      BY <2>1, <2>2, <3>1, OneHolder DEF MailInv
    <3> QED
      BY <1>3, <2>1, <3>1, <3>2
  <2> QED
    BY <2>3, <2>4
<1> QED
  BY <1>5, <1>6, <1>7, <1>8, <1>9 DEF MailInv

(* Payments, reversals and the cancellation. *)
LEMMA InvoiceKeepsInv ==
  ASSUME MailInv, ClaimInv', MailTypeOK',
         CancelInvoice \/ \E settled \in BOOLEAN : Settle(settled)
  PROVE  MailInv'
<1>1. row' = row /\ worker' = worker /\ step' = step /\ mail' = mail /\ accepted' = accepted
  BY DEF CancelInvoice, Settle, vars
<1>2. SentIsAccepted' /\ KnownIsRecorded' /\ CompletedMeansMailed' /\ EvidenceStays'
  BY <1>1
  DEF MailInv, SentIsAccepted, KnownIsRecorded, CompletedMeansMailed, EvidenceStays, MailAt, Handling
<1>3. ResendNeedsLostClaim'
  BY <1>1 DEF MailInv, ResendNeedsLostClaim, MailAt, Handling, HoldsClaim
<1>4. InvoiceShowsRecords'
  <2>1. CASE CancelInvoice
    BY <2>1 DEF CancelInvoice, InvoiceShowsRecords, MailInv, MailTypeOK
  <2>2. ASSUME NEW settled \in BOOLEAN, Settle(settled) PROVE InvoiceShowsRecords'
    <3>1. Confirmed <=> \E k \in Referenced : mail[k] # "none"
      BY MailAssumption DEF Confirmed, MailInv, EvidenceStays
    <3> QED
      BY <1>1, <2>2, <3>1 DEF Settle, InvoiceShowsRecords, MailInv, MailTypeOK
  <2> QED
    BY <2>1, <2>2
<1> QED
  BY <1>2, <1>3, <1>4 DEF MailInv

LEMMA MailInvStep == MailInv /\ [MailNext]_allVars => MailInv'
<1> SUFFICES ASSUME MailInv, [MailNext]_allVars PROVE MailInv'
  OBVIOUS
<1>1. ClaimInv'
  BY ClaimStep, MailStepIsQueueStep DEF MailInv
<1>2. MailTypeOK'
  BY MailTypeStep DEF MailInv, ClaimInv
<1>3. ASSUME NEW w \in Workers, RaiseMail(w) \/ RejectMail(w) \/ RecordMail(w) \/ DieMailing(w)
      PROVE  MailInv'
  BY <1>1, <1>2, <1>3, QueueMailStep DEF RaiseMail, RejectMail, RecordMail, DieMailing
<1>4. ASSUME NEW j \in Jobs, Request(j) \/ RetryMail(j) PROVE MailInv'
  BY <1>1, <1>2, <1>4, QueueMailStep DEF Request, RetryMail
<1>5. CASE PurgeMail \/ MailTimePasses \/ UNCHANGED allVars
  BY <1>1, <1>2, <1>5, QueueMailStep DEF PurgeMail, MailTimePasses, allVars
<1>6. ASSUME NEW w \in Workers,
             ClaimMail(w) \/ WasSent(w) \/ Send(w) \/ MarkSent(w) \/ ReturnSent(w)
      PROVE  MailInv'
  BY <1>1, <1>2, <1>6, ClaimKeepsMailInv, SendKeepsInv, MarkSentKeepsInv, ReturnKeepsInv
<1>7. CASE CancelInvoice \/ \E settled \in BOOLEAN : Settle(settled)
  BY <1>1, <1>2, <1>7, InvoiceKeepsInv
<1> QED
  BY <1>3, <1>4, <1>5, <1>6, <1>7 DEF MailNext

LEMMA MailInvHolds == MailSpec => []MailInv
  BY MailInvInit, MailInvStep, PTL DEF MailSpec

-----------------------------------------------------------------------------
(* What follows. *)

(* A completed job was mailed, and what is recorded was accepted           *)
(* (InvoiceSmtpHandler.handle, complete), in every run of the system.      *)
THEOREM CompletedWasMailed == MailSpec => []CompletedMeansMailed
<1>1. MailInv => CompletedMeansMailed
  BY DEF MailInv
<1> QED
  BY <1>1, MailInvHolds, PTL

(* An open invoice shows payment and confirmation as they are on record    *)
(* (mark_sent, _settle_status, OUTBOX_REFERENCES), in every run.           *)
THEOREM InvoiceIsShownRight == MailSpec => []InvoiceShowsRecords
<1>1. MailInv => InvoiceShowsRecords
  BY DEF MailInv
<1> QED
  BY <1>1, MailInvHolds, PTL

(* Without an overrun lease nothing is sent again after a confirmed        *)
(* success (was_sent, mark_sent, claim_next), in every run.                *)
THEOREM ResendMeansLostClaim == MailSpec => []ResendNeedsLostClaim
<1>1. MailInv => ResendNeedsLostClaim
  BY DEF MailInv
<1> QED
  BY <1>1, MailInvHolds, PTL

(***************************************************************************)
(* The sender of an inbox case                                             *)
(***************************************************************************)

(* The handler may still write to the case. *)
Deciding(w) ==
  Handling(w) /\ handler[w].at \in {"looking", "absent", "creating", "sent", "rejected"}

(* The handler has committed its intention and not recorded what became of *)
(* it.                                                                     *)
Requesting(w) == Handling(w) /\ handler[w].at \in {"creating", "sent", "rejected"}

(* While a handler that holds its claim decides, nobody else has decided.  *)
UndecidedYet ==
  \A w \in Workers : Deciding(w) /\ HoldsClaim(w) =>
    case[JobOf(w)].status \in {"pending", "failed"}

(* At most one handler of a case is past its intention. *)
OneRequest ==
  \A v, w \in Workers : v # w /\ Requesting(v) /\ Requesting(w) => JobOf(v) # JobOf(w)

(* The intention stays on record while its outcome is open. *)
RequestIsNoted == \A w \in Workers : Requesting(w) => case[JobOf(w)].started

(* Before a handler sends its request, and after its refusal, there is no  *)
(* request of the case.                                                    *)
NothingSent ==
  \A w \in Workers : Handling(w) /\ handler[w].at \in {"creating", "rejected"} =>
    crm[JobOf(w)].at = "none"

(* A request that is under way or was executed is on record. *)
PersonIsNoted == \A j \in Jobs : crm[j].at # "none" => case[j].started

(* A handler that is done, and a worker about to complete, linked the case.*)
DoneIsLinked ==
  \A w \in Workers :
    (Handling(w) /\ handler[w].at = "linked") \/ worker[w].pc = "completing" =>
      case[JobOf(w)].status = "linked"

(* Consent is not recorded before the link. *)
ConsentNeedsLink == \A j \in Jobs : case[j].status # "linked" => case[j].consent = "none"

ContactInv == /\ ClaimInv
              /\ ContactTypeOK
              /\ UndecidedYet
              /\ OneRequest
              /\ RequestIsNoted
              /\ NothingSent
              /\ PersonIsNoted
              /\ DoneIsLinked
              /\ ConsentNeedsLink
              /\ ContactRecordsAgree

-----------------------------------------------------------------------------
(* The queue below the handler.                                            *)

LEMMA ContactStepIsQueueStep == [ContactNext]_contactVars => [Next]_vars
  BY DEF ContactNext, contactVars, caseVars, Claim, Handle, RecordOutcome, Die, Submit, Execute,
         ConfirmContact, EraseSubject, RevokeConsent, Restart, Purge, TimePasses, ReadCase, AlreadyLinked,
         AlreadyInReview, LinkFound, Mismatch, LookUp, LookUpFails, Review, Intend,
         CreatePerson, LinkCreated, Refused, RecordRefusal, RequestFails, Return, Reject,
         Raise, TimesOut, State, Next, WorkerStep, vars

(* Every behaviour of the contact jobs is one of the queue: what OutboxProofs *)
(* says of claims, budgets and outcomes holds for them.                       *)
THEOREM ContactUsesQueue == ContactSpec => Spec
  BY ContactStepIsQueueStep, PTL DEF ContactSpec, Spec, ContactInit

-----------------------------------------------------------------------------
(* Types.                                                                  *)

LEMMA ContactTypeInit == ContactInit => ContactTypeOK
  BY DEF ContactInit, ContactTypeOK, Fresh, HandlerState, Places, NewCase, Case, NoPerson, Person

LEMMA JobOfType ==
  ASSUME TypeOK, NEW w \in Workers, Busy(w)
  PROVE  JobOf(w) \in Jobs
  BY BusyType DEF JobOf, WorkerState

(* Linking and setting the status of a case gives a case. *)
LEMMA CaseType ==
  ASSUME NEW c \in Case
  PROVE  /\ \A p \in {"own", "chosen"} : Linked(c, p) \in Case
         /\ \A s \in {"pending", "needs_review", "failed"} : [c EXCEPT !.status = s] \in Case
         /\ [[c EXCEPT !.status = "failed"] EXCEPT !.started = FALSE] \in Case
         /\ Erased(c) \in Case
         /\ [c EXCEPT !.consent = "revoked"] \in Case
  BY DEF Case, Linked, Consented, Erased

(* What the transaction of a handler leaves in its case. *)
LEMMA StateType ==
  ASSUME TypeOK, ContactTypeOK, NEW w \in Workers, NEW c \in Case, NEW p \in Places,
         State(w, c, p)
  PROVE  ContactTypeOK'
<1>1. JobOf(w) \in Jobs
  BY JobOfType DEF State, Owns, Handling, Busy
<1>2. case' \in [Jobs -> Case]
  BY <1>1 DEF State, ContactTypeOK
<1>3. handler' \in [Workers -> HandlerState]
  BY DEF State, Goto, ContactTypeOK, HandlerState
<1> QED
  BY <1>2, <1>3 DEF State, ContactTypeOK

LEMMA ContactTypeStep == TypeOK /\ ContactTypeOK /\ [ContactNext]_contactVars => ContactTypeOK'
<1> SUFFICES ASSUME TypeOK, ContactTypeOK, [ContactNext]_contactVars PROVE ContactTypeOK'
  OBVIOUS
<1>1. ASSUME NEW w \in Workers, Claim(w) PROVE ContactTypeOK'
  BY <1>1 DEF Claim, ContactTypeOK, Fresh, HandlerState, Places
<1>2. ASSUME NEW w \in Workers, Handle(w) PROVE ContactTypeOK'
  <2>1. Busy(w) /\ JobOf(w) \in Jobs
    <3>1. Busy(w)
      BY <1>2 DEF Handle, ReadCase, AlreadyLinked, AlreadyInReview, LinkFound, Mismatch, LookUp,
                  LookUpFails, Review, Intend, CreatePerson, LinkCreated, Refused,
                  RecordRefusal, RequestFails, Return, Reject, Raise, TimesOut, At, Owns,
                  Handling, Busy, HandlerRaises, HandlerTimesOut
    <3> QED
      BY <3>1, JobOfType
  <2>2. case[JobOf(w)] \in Case /\ handler[w] \in HandlerState
    BY <2>1 DEF ContactTypeOK
  <2>3. CASE ReadCase(w)
    BY <2>2, <2>3 DEF ReadCase, ContactTypeOK, HandlerState, Places, Case
  <2>4. CASE AlreadyLinked(w) \/ AlreadyInReview(w) \/ Return(w) \/ Reject(w) \/ Raise(w)
               \/ TimesOut(w)
    BY <2>4 DEF AlreadyLinked, AlreadyInReview, Return, Reject, Raise, TimesOut, caseVars,
                ContactTypeOK
  <2>5. CASE LinkFound(w) \/ LinkCreated(w)
    BY <2>2, <2>5, CaseType, StateType DEF LinkFound, LinkCreated, Places
  <2>6. CASE Mismatch(w) \/ LookUpFails(w) \/ Review(w) \/ RequestFails(w)
    BY <2>2, <2>6, CaseType, StateType
    DEF Mismatch, LookUpFails, Review, RequestFails, Unanswered, Set, Places
  <2>7. CASE RecordRefusal(w)
    BY <2>2, <2>7, CaseType, StateType DEF RecordRefusal, Set, Places
  <2>8. CASE LookUp(w)
    BY <2>8 DEF LookUp, Goto, ContactTypeOK, HandlerState, Places
  <2>9. CASE Intend(w)
    BY <2>1, <2>9 DEF Intend, Goto, ContactTypeOK, HandlerState, Places, Case
  <2>10. CASE CreatePerson(w)
    <3>1. [at |-> "flying", erased |-> handler[w].erased] \in Person
      BY <2>2 DEF HandlerState, Person
    <3> QED
      BY <2>10, <3>1 DEF CreatePerson, Goto, ContactTypeOK, HandlerState, Places
  <2>11. CASE Refused(w)
    BY <2>11 DEF Refused, Goto, ContactTypeOK, HandlerState, Places, NoPerson, Person
  <2> QED
    BY <1>2, <2>3, <2>4, <2>5, <2>6, <2>7, <2>8, <2>9, <2>10, <2>11 DEF Handle
<1>3. ASSUME NEW w \in Workers, RecordOutcome(w) \/ Die(w) PROVE ContactTypeOK'
  BY <1>3 DEF RecordOutcome, Die, caseVars, ContactTypeOK
<1>4. ASSUME NEW j \in Jobs, Submit(j) \/ Restart(j) PROVE ContactTypeOK'
  BY <1>4 DEF Submit, Restart, caseVars, ContactTypeOK
<1>5. ASSUME NEW j \in Jobs, Execute(j) PROVE ContactTypeOK'
  BY <1>5 DEF Execute, ContactTypeOK, Person
<1>6. ASSUME NEW j \in Jobs, ConfirmContact(j) \/ EraseSubject(j) \/ RevokeConsent(j)
      PROVE  ContactTypeOK'
  BY <1>6, CaseType DEF ConfirmContact, EraseSubject, RevokeConsent, ContactTypeOK
<1>7. CASE Purge \/ TimePasses \/ UNCHANGED contactVars
  BY <1>7 DEF Purge, TimePasses, contactVars, caseVars, ContactTypeOK
<1> QED
  BY <1>1, <1>2, <1>3, <1>4, <1>5, <1>6, <1>7 DEF ContactNext

(* Handlers, cases and persons keep their types (InboxContactHandler,      *)
(* inbox_case), for every choice of constants.                             *)
THEOREM ContactTypeCorrect == ContactSpec => []ContactTypeOK
<1>1. TypeOK /\ ContactTypeOK /\ [ContactNext]_contactVars => TypeOK' /\ ContactTypeOK'
  BY TypeStep, ContactStepIsQueueStep, ContactTypeStep
<1>2. ContactInit => TypeOK /\ ContactTypeOK
  BY TypeInit, ContactTypeInit DEF ContactInit
<1> QED
  BY <1>1, <1>2, PTL DEF ContactSpec

(* A claim that a worker has after a step it had before it. *)
LEMMA ClaimKept ==
  ASSUME ClaimInv, [Next]_vars, NEW u \in Workers, Busy(u), Busy(u)'
  PROVE  /\ JobOf(u)' = JobOf(u)
         /\ HoldsClaim(u)' => HoldsClaim(u)
  BY BusyKeepsClaim DEF JobOf

-----------------------------------------------------------------------------
(* The invariant.                                                          *)

LEMMA ContactInvInit == ContactInit => ContactInv
<1> SUFFICES ASSUME ContactInit PROVE ContactInv
  OBVIOUS
<1>1. ClaimInv /\ ContactTypeOK
  BY ClaimInit, ContactTypeInit DEF ContactInit
<1>2. /\ \A w \in Workers : worker[w].pc = "idle"
      /\ \A j \in Jobs : /\ case[j] = NewCase /\ crm[j].at = "none"
                        /\ row[j].status = "absent"
  BY DEF ContactInit, Init, Idle, NoPerson, NewRow
<1> QED
  BY <1>1, <1>2
  DEF ContactInv, UndecidedYet, OneRequest, RequestIsNoted, NothingSent, PersonIsNoted,
      DoneIsLinked, ConsentNeedsLink, ContactRecordsAgree, Deciding, Requesting, Handling, NewCase

(* Steps of the queue that leave handlers, cases and the CRM alone. *)
LEMMA QuietStep ==
  ASSUME ContactInv, ClaimInv', ContactTypeOK', [Next]_vars, UNCHANGED caseVars,
         \A u \in Workers : Handling(u)' => Handling(u),
         \A u \in Workers : worker'[u].pc = "completing" =>
            worker[u].pc = "completing" \/ (Handling(u) /\ case[JobOf(u)].status = "linked"),
         \A j \in Jobs : row'[j].status \in {"completed", "purged"} => case[j].status = "linked"
  PROVE  ContactInv'
<1>1. handler' = handler /\ case' = case /\ crm' = crm
  BY DEF caseVars
<1>2. ASSUME NEW u \in Workers, Handling(u)'
      PROVE  Handling(u) /\ JobOf(u)' = JobOf(u) /\ (HoldsClaim(u)' => HoldsClaim(u))
  BY <1>2, ClaimKept DEF ContactInv, Handling, Busy
<1>3. UndecidedYet' /\ OneRequest' /\ RequestIsNoted' /\ NothingSent'
  BY <1>1, <1>2
  DEF ContactInv, UndecidedYet, OneRequest, RequestIsNoted, NothingSent, Deciding, Requesting
<1>4. DoneIsLinked'
  <2> SUFFICES ASSUME NEW u \in Workers,
                      (Handling(u)' /\ handler'[u].at = "linked") \/ worker'[u].pc = "completing"
               PROVE  case'[JobOf(u)'].status = "linked"
    BY DEF DoneIsLinked
  <2>1. CASE Handling(u)' /\ handler'[u].at = "linked"
    BY <1>1, <1>2, <2>1 DEF ContactInv, DoneIsLinked
  <2>2. CASE worker'[u].pc = "completing"
    <3>1. JobOf(u)' = JobOf(u)
      BY <2>2, ClaimKept DEF ContactInv, Handling, Busy
    <3> QED
      BY <1>1, <2>2, <3>1 DEF ContactInv, DoneIsLinked
  <2> QED
    BY <2>1, <2>2
<1>5. PersonIsNoted' /\ ConsentNeedsLink' /\ ContactRecordsAgree'
  BY <1>1 DEF ContactInv, PersonIsNoted, ConsentNeedsLink, ContactRecordsAgree
<1> QED
  BY <1>3, <1>4, <1>5 DEF ContactInv

(* A handler ends, an outcome is recorded, or somebody else moves a row. *)
LEMMA QueueStepKeepsInv ==
  ASSUME ContactInv, ClaimInv', ContactTypeOK', UNCHANGED caseVars,
         \/ \E w \in Workers :
              \/ HandlerReturns(w) /\ case[JobOf(w)].status = "linked"
              \/ HandlerRaises(w) \/ HandlerRejects(w) \/ HandlerTimesOut(w)
              \/ Complete(w) \/ Fail(w) \/ Crash(w)
         \/ \E j \in Jobs : Enqueue(j) \/ ManualRetry(j)
         \/ PurgeCompleted \/ Tick \/ UNCHANGED vars
  PROVE  ContactInv'
<1>0. TypeOK
  BY DEF ContactInv, ClaimInv
<1>1. ASSUME NEW w \in Workers, HandlerReturns(w), case[JobOf(w)].status = "linked"
      PROVE  ContactInv'
  <2>1. [Next]_vars /\ row' = row /\ Handling(w)
    BY <1>1 DEF Next, WorkerStep, HandlerReturns
  <2>2. \A u \in Workers : u # w => worker'[u] = worker[u]
    BY <1>0, <1>1 DEF HandlerReturns, TypeOK
  <2>3. \A u \in Workers : Handling(u)' => Handling(u)
    BY <2>1, <2>2 DEF Handling
  <2>4. \A u \in Workers : worker'[u].pc = "completing" =>
           worker[u].pc = "completing" \/ (Handling(u) /\ case[JobOf(u)].status = "linked")
    BY <1>1, <2>1, <2>2
  <2>5. \A j \in Jobs : row'[j].status \in {"completed", "purged"} => case[j].status = "linked"
    BY <2>1 DEF ContactInv, ContactRecordsAgree
  <2> QED
    BY <2>1, <2>3, <2>4, <2>5, QuietStep
<1>2. CASE \/ \E w \in Workers : \/ HandlerRaises(w) \/ HandlerRejects(w) \/ HandlerTimesOut(w)
                                 \/ Complete(w) \/ Fail(w) \/ Crash(w)
           \/ \E j \in Jobs : Enqueue(j) \/ ManualRetry(j)
           \/ PurgeCompleted \/ Tick \/ UNCHANGED vars
  <2>1. ClaimInv
    BY DEF ContactInv
  <2>2. \A j \in Jobs : row'[j].status \in {"completed", "purged"} => case[j].status = "linked"
    BY <1>2, <2>1, QuietMoves DEF ContactInv, DoneIsLinked, ContactRecordsAgree, JobOf
  <2> QED
    BY <1>2, <2>1, <2>2, QuietMoves, QuietStep
<1> QED
  BY <1>1, <1>2

(* A worker that starts on a case has not looked at it yet. *)
LEMMA ClaimKeepsInv ==
  ASSUME ContactInv, ClaimInv', ContactTypeOK', NEW w \in Workers, Claim(w)
  PROVE  ContactInv'
<1>1. /\ ClaimNext(w) /\ [Next]_vars /\ case' = case /\ crm' = crm
      /\ handler'[w].at = "start"
      /\ \A u \in Workers : u # w => handler'[u] = handler[u]
  BY DEF Claim, Next, WorkerStep, ContactInv, ContactTypeOK, Fresh
<1>2. /\ worker'[w].pc = "handling"
      /\ \A u \in Workers : u # w => worker'[u] = worker[u]
  BY <1>1 DEF ClaimNext, ContactInv, ClaimInv, TypeOK
<1>3. ASSUME NEW u \in Workers, u # w, Busy(u)'
      PROVE  JobOf(u)' = JobOf(u) /\ (HoldsClaim(u)' => HoldsClaim(u))
  BY <1>1, <1>2, <1>3, ClaimKept DEF ContactInv, Busy
<1>4. \A u \in Workers : Deciding(u)' \/ Requesting(u)' => u # w
  BY <1>1 DEF Deciding, Requesting
<1>5. UndecidedYet'
  <2> SUFFICES ASSUME NEW u \in Workers, Deciding(u)', HoldsClaim(u)'
               PROVE  case'[JobOf(u)'].status \in {"pending", "failed"}
    BY DEF UndecidedYet
  <2>1. u # w /\ Deciding(u)
    BY <1>1, <1>2, <1>4 DEF Deciding, Handling
  <2> QED
    BY <1>1, <1>3, <2>1 DEF ContactInv, UndecidedYet, Deciding, Handling, Busy
<1>6. OneRequest' /\ RequestIsNoted' /\ NothingSent'
  <2>1. \A u \in Workers : Requesting(u)' => Requesting(u) /\ JobOf(u)' = JobOf(u) /\ handler'[u] = handler[u]
    BY <1>1, <1>2, <1>4 DEF Requesting, Handling, JobOf
  <2>2. OneRequest' /\ RequestIsNoted'
    BY <1>1, <2>1 DEF ContactInv, OneRequest, RequestIsNoted
  <2>3. NothingSent'
    BY <1>1, <2>1 DEF ContactInv, NothingSent, Requesting
  <2> QED
    BY <2>2, <2>3
<1>7. DoneIsLinked'
  <2> SUFFICES ASSUME NEW u \in Workers,
                      (Handling(u)' /\ handler'[u].at = "linked") \/ worker'[u].pc = "completing"
               PROVE  case'[JobOf(u)'].status = "linked"
    BY DEF DoneIsLinked
  <2>1. u # w
    BY <1>1, <1>2
  <2> QED
    BY <1>1, <1>2, <2>1 DEF ContactInv, DoneIsLinked, Handling, JobOf
<1>8. \A j \in Jobs : row'[j].status \in {row[j].status, "processing"}
  BY <1>1 DEF ClaimNext, ContactInv, ClaimInv, TypeOK, Row
<1>9. PersonIsNoted' /\ ConsentNeedsLink' /\ ContactRecordsAgree'
  BY <1>1, <1>8 DEF ContactInv, PersonIsNoted, ConsentNeedsLink, ContactRecordsAgree
<1> QED
  BY <1>5, <1>6, <1>7, <1>9 DEF ContactInv

(* A handler goes on without touching case or CRM. *)
LEMMA HandlerMovesKeepInv ==
  ASSUME ContactInv, ClaimInv', ContactTypeOK', NEW w \in Workers, ReadCase(w) \/ LookUp(w)
  PROVE  ContactInv'
<1>1. /\ UNCHANGED <<vars, case, crm>> /\ Handling(w)
      /\ \A u \in Workers : u # w => handler'[u] = handler[u]
  BY DEF ReadCase, LookUp, Goto, At, ContactInv, ContactTypeOK
<1>2. /\ handler'[w].at \in {"looking", "absent"}
      /\ HoldsClaim(w) => case[JobOf(w)].status \in {"pending", "failed"}
  <2>1. CASE ReadCase(w)
    BY <2>1 DEF ReadCase, ContactInv, ContactTypeOK
  <2>2. CASE LookUp(w)
    BY <2>2 DEF LookUp, Goto, At, ContactInv, ContactTypeOK, HandlerState, UndecidedYet, Deciding
  <2> QED
    BY <2>1, <2>2
<1>3. \A u \in Workers : /\ Handling(u)' <=> Handling(u)
                         /\ JobOf(u)' = JobOf(u)
                         /\ HoldsClaim(u)' <=> HoldsClaim(u)
                         /\ worker'[u] = worker[u]
  BY <1>1 DEF vars, Handling, JobOf, HoldsClaim
<1>4. UndecidedYet'
  BY <1>1, <1>2, <1>3 DEF ContactInv, UndecidedYet, Deciding
<1>5. \A u \in Workers : Requesting(u)' => Requesting(u) /\ handler'[u] = handler[u]
  BY <1>1, <1>2, <1>3 DEF Requesting
<1>6. OneRequest' /\ RequestIsNoted'
  BY <1>1, <1>3, <1>5 DEF ContactInv, OneRequest, RequestIsNoted
<1>7. NothingSent'
  BY <1>1, <1>2, <1>3 DEF ContactInv, NothingSent
<1>8. DoneIsLinked'
  BY <1>1, <1>2, <1>3 DEF ContactInv, DoneIsLinked
<1>9. PersonIsNoted' /\ ConsentNeedsLink' /\ ContactRecordsAgree'
  BY <1>1 DEF vars, ContactInv, PersonIsNoted, ConsentNeedsLink, ContactRecordsAgree
<1> QED
  BY <1>4, <1>6, <1>7, <1>8, <1>9 DEF ContactInv

(* A handler that holds its claim knows that nobody has decided its case.  *)
LEMMA OwnerDecides ==
  ASSUME ContactInv, NEW w \in Workers, Deciding(w), Owns(w)
  PROVE  /\ JobOf(w) \in Jobs
         /\ case[JobOf(w)] \in Case
         /\ case[JobOf(w)].status \in {"pending", "failed"}
         /\ case[JobOf(w)].consent = "none"
         /\ \A u \in Workers : u # w /\ Busy(u) /\ HoldsClaim(u) => JobOf(u) # JobOf(w)
<1>1. JobOf(w) \in Jobs
  BY JobOfType DEF Owns, Handling, Busy, ContactInv, ClaimInv
<1>2. \A u \in Workers : u # w /\ Busy(u) /\ HoldsClaim(u) => JobOf(u) # JobOf(w)
  BY DEF Owns, HoldsClaim, JobOf, Handling, Busy, ContactInv, ClaimInv, WorkersDiffer
<1> QED
  BY <1>1, <1>2
  DEF Owns, ContactInv, ContactTypeOK, UndecidedYet, ConsentNeedsLink, Case

(* The transaction of _state, under the claim. *)
LEMMA StateKeepsInv ==
  ASSUME ContactInv, ClaimInv', ContactTypeOK', NEW w \in Workers, Deciding(w),
         NEW c, NEW p \in {"linked", "undecided", "failing"}, State(w, c, p),
         c.started = case[JobOf(w)].started \/ handler[w].at = "rejected",
         p = "linked" => c.status = "linked",
         c.status # "linked" => c.consent = "none",
         c.consent = "granted" <=> c.status = "linked" /\ ~c.erased,
         c.person = "own" => crm[JobOf(w)].at = "made"
  PROVE  ContactInv'
<1> DEFINE j == JobOf(w)
<1>1. /\ j \in Jobs
      /\ case[j].status \in {"pending", "failed"}
      /\ \A u \in Workers : u # w /\ Busy(u) /\ HoldsClaim(u) => JobOf(u) # j
  BY OwnerDecides DEF State
<1>2. /\ UNCHANGED <<vars, crm>>
      /\ case'[j] = c
      /\ \A k \in Jobs : k # j => case'[k] = case[k]
      /\ handler'[w].at = p
      /\ \A u \in Workers : u # w => handler'[u] = handler[u]
  BY <1>1 DEF State, Goto, ContactInv, ContactTypeOK, HandlerState
<1>3. \A u \in Workers : /\ Handling(u)' <=> Handling(u)
                         /\ JobOf(u)' = JobOf(u)
                         /\ HoldsClaim(u)' <=> HoldsClaim(u)
                         /\ worker'[u] = worker[u]
  BY <1>2 DEF vars, Handling, JobOf, HoldsClaim
<1>4. \A u \in Workers : Busy(u) => JobOf(u) \in Jobs
  BY JobOfType DEF ContactInv, ClaimInv
<1>5. UndecidedYet'
  <2> SUFFICES ASSUME NEW u \in Workers, Deciding(u)', HoldsClaim(u)'
               PROVE  case'[JobOf(u)'].status \in {"pending", "failed"}
    BY DEF UndecidedYet
  <2>1. u # w
    BY <1>2 DEF Deciding
  <2>2. Deciding(u) /\ HoldsClaim(u) /\ JobOf(u) # j /\ JobOf(u) \in Jobs
    BY <1>1, <1>2, <1>3, <1>4, <2>1 DEF Deciding, Handling, Busy
  <2> QED
    BY <1>2, <1>3, <2>2 DEF ContactInv, UndecidedYet
<1>6. \A u \in Workers : Requesting(u)' => u # w /\ Requesting(u) /\ handler'[u] = handler[u]
  BY <1>2, <1>3 DEF Requesting
<1>7. OneRequest'
  BY <1>3, <1>6 DEF ContactInv, OneRequest
<1>8. RequestIsNoted'
  <2> SUFFICES ASSUME NEW u \in Workers, Requesting(u)' PROVE case'[JobOf(u)'].started
    BY DEF RequestIsNoted
  <2>1. Requesting(u) /\ u # w /\ case[JobOf(u)].started /\ JobOf(u) \in Jobs
    BY <1>4, <1>6 DEF ContactInv, RequestIsNoted, Requesting, Handling, Busy
  <2>2. CASE JobOf(u) # j
    BY <1>2, <1>3, <2>1, <2>2
  <2>3. CASE JobOf(u) = j
    <3>1. handler[w].at # "rejected"
      BY <2>1, <2>3 DEF ContactInv, OneRequest, Requesting, Deciding
    <3> QED
      BY <1>2, <1>3, <2>1, <2>3, <3>1
  <2> QED
    BY <2>2, <2>3
<1>9. NothingSent'
  BY <1>2, <1>3 DEF ContactInv, NothingSent
<1>10. PersonIsNoted'
  <2>1. handler[w].at = "rejected" => crm[j].at = "none"
    BY DEF ContactInv, NothingSent, Deciding
  <2> QED
    BY <1>1, <1>2, <2>1 DEF ContactInv, PersonIsNoted
<1>11. DoneIsLinked'
  <2> SUFFICES ASSUME NEW u \in Workers,
                      (Handling(u)' /\ handler'[u].at = "linked") \/ worker'[u].pc = "completing"
               PROVE  case'[JobOf(u)'].status = "linked"
    BY DEF DoneIsLinked
  <2>1. CASE u = w
    <3>1. worker'[u].pc = "handling"
      BY <1>3, <2>1 DEF Deciding, Handling
    <3> QED
      BY <1>2, <1>3, <2>1, <3>1
  <2>2. CASE u # w
    <3>1. case[JobOf(u)].status = "linked" /\ JobOf(u) \in Jobs
      BY <1>2, <1>3, <1>4, <2>2 DEF ContactInv, DoneIsLinked, Handling, Busy
    <3> QED
      BY <1>1, <1>2, <1>3, <3>1
  <2> QED
    BY <2>1, <2>2
<1>12. ConsentNeedsLink'
  BY <1>2 DEF ContactInv, ConsentNeedsLink
<1>13. ContactRecordsAgree'
  <2>1. row' = row /\ crm' = crm
    BY <1>2 DEF vars
  <2>2. row[j].status \notin {"completed", "purged"}
    BY <1>1 DEF ContactInv, ContactRecordsAgree
  <2> QED
    BY <1>2, <2>1, <2>2 DEF ContactInv, ContactRecordsAgree
<1> QED
  BY <1>5, <1>7, <1>8, <1>9, <1>10, <1>11, <1>12, <1>13 DEF ContactInv

(* What linking and setting the status make of a case nobody has decided. *)
LEMMA LinkedCase ==
  ASSUME NEW c \in Case, c.consent = "none", NEW p \in {"own", "chosen"}
  PROVE  /\ Linked(c, p).status = "linked"
         /\ Linked(c, p).person = p
         /\ Linked(c, p).started = c.started
         /\ Linked(c, p).erased = c.erased
         /\ Linked(c, p).consent = "granted" <=> ~c.erased
  BY DEF Case, Linked, Consented

LEMMA StateStepsKeepInv ==
  ASSUME ContactInv, ClaimInv', ContactTypeOK', NEW w \in Workers,
         \/ LinkFound(w) \/ Mismatch(w) \/ LookUpFails(w) \/ Review(w)
         \/ LinkCreated(w) \/ RecordRefusal(w) \/ RequestFails(w)
  PROVE  ContactInv'
<1>1. Deciding(w) /\ Owns(w)
  BY DEF LinkFound, Mismatch, LookUpFails, Review, LinkCreated, RecordRefusal, RequestFails,
         State, At, Deciding
<1>2. /\ case[JobOf(w)] \in Case
      /\ case[JobOf(w)].status \in {"pending", "failed"}
      /\ case[JobOf(w)].consent = "none"
  BY <1>1, OwnerDecides
<1>3. case[JobOf(w)].person = "own" => crm[JobOf(w)].at = "made"
  BY <1>1, OwnerDecides DEF ContactInv, ContactRecordsAgree
<1>4. CASE LinkFound(w) \/ LinkCreated(w)
  <2>1. crm[JobOf(w)].at = "made" /\ State(w, Linked(case[JobOf(w)], "own"), "linked")
    BY <1>4 DEF LinkFound, LinkCreated, Made
  <2> QED
    BY <1>1, <1>2, <2>1, LinkedCase, StateKeepsInv
<1>5. ASSUME NEW s \in {"needs_review", "failed"}, NEW p \in {"undecided", "failing"},
             State(w, Set(w, s), p)
      PROVE  ContactInv'
  <2>1. /\ Set(w, s).status = s
        /\ Set(w, s).started = case[JobOf(w)].started
        /\ Set(w, s).consent = "none"
        /\ Set(w, s).person = case[JobOf(w)].person
    BY <1>2 DEF Set, Case
  <2> QED
    BY <1>1, <1>3, <1>5, <2>1, StateKeepsInv
<1>6. CASE Mismatch(w) \/ LookUpFails(w) \/ Review(w) \/ RequestFails(w)
  BY <1>5, <1>6 DEF Mismatch, LookUpFails, Review, RequestFails, Unanswered
<1>7. CASE RecordRefusal(w)
  <2> DEFINE c == [Set(w, "failed") EXCEPT !.started = FALSE]
  <2>1. /\ c.status = "failed"
        /\ c.consent = "none"
        /\ c.started = FALSE
        /\ c.person = case[JobOf(w)].person
    BY <1>2 DEF Set, Case
  <2>2. State(w, c, "failing") /\ handler[w].at = "rejected"
    BY <1>7 DEF RecordRefusal, At
  <2>3. c.started = case[JobOf(w)].started \/ handler[w].at = "rejected"
    BY <2>2
  <2> HIDE DEF c
  <2> QED
    BY <1>1, <1>3, <2>1, <2>2, <2>3, StateKeepsInv
<1> QED
  BY <1>4, <1>6, <1>7

(* The intention: no other handler of the case is past its own. *)
LEMMA IntendKeepsInv ==
  ASSUME ContactInv, ClaimInv', ContactTypeOK', NEW w \in Workers, Intend(w)
  PROVE  ContactInv'
<1> DEFINE j == JobOf(w)
<1>0. Deciding(w) /\ Owns(w) /\ ~case[j].started
  BY DEF Intend, At, Deciding
<1>1. /\ j \in Jobs /\ case[j] \in Case
      /\ case[j].status \in {"pending", "failed"}
      /\ case[j].consent = "none"
  BY <1>0, OwnerDecides
<1>2. /\ UNCHANGED <<vars, crm>>
      /\ case'[j] = [case[j] EXCEPT !.status = "pending", !.started = TRUE]
      /\ \A k \in Jobs : k # j => case'[k] = case[k]
      /\ handler'[w].at = "creating"
      /\ \A u \in Workers : u # w => handler'[u] = handler[u]
  BY <1>1 DEF Intend, Goto, ContactInv, ContactTypeOK, HandlerState
<1>3. /\ case'[j].status = "pending" /\ case'[j].started
      /\ case'[j].consent = "none" /\ case'[j].person = case[j].person
  BY <1>1, <1>2 DEF Case
<1>4. \A u \in Workers : /\ Handling(u)' <=> Handling(u)
                         /\ JobOf(u)' = JobOf(u)
                         /\ HoldsClaim(u)' <=> HoldsClaim(u)
                         /\ worker'[u] = worker[u]
                         /\ Busy(u) => JobOf(u) \in Jobs
  BY <1>2, JobOfType DEF vars, Handling, JobOf, HoldsClaim, ContactInv, ClaimInv
<1>5. UndecidedYet'
  <2> SUFFICES ASSUME NEW u \in Workers, Deciding(u)', HoldsClaim(u)'
               PROVE  case'[JobOf(u)'].status \in {"pending", "failed"}
    BY DEF UndecidedYet
  <2>1. JobOf(u) \in Jobs /\ JobOf(u)' = JobOf(u)
    BY <1>4 DEF Deciding, Handling, Busy
  <2>2. CASE JobOf(u) = j
    BY <1>3, <2>1, <2>2
  <2>3. CASE JobOf(u) # j
    <3>1. Deciding(u) /\ HoldsClaim(u)
      BY <1>2, <1>4, <2>3 DEF Deciding
    <3> QED
      BY <1>2, <2>1, <2>3, <3>1 DEF ContactInv, UndecidedYet
  <2> QED
    BY <2>2, <2>3
<1>6. \A u \in Workers : u # w /\ Requesting(u)' =>
         Requesting(u) /\ JobOf(u) # j /\ JobOf(u) \in Jobs
  BY <1>0, <1>2, <1>4 DEF ContactInv, RequestIsNoted, Requesting, Handling, Busy
<1>7. OneRequest' /\ RequestIsNoted'
  <2>1. JobOf(w)' = j
    BY <1>4
  <2>2. OneRequest'
    BY <1>4, <1>6, <2>1 DEF ContactInv, OneRequest
  <2>3. RequestIsNoted'
    <3> SUFFICES ASSUME NEW u \in Workers, Requesting(u)' PROVE case'[JobOf(u)'].started
      BY DEF RequestIsNoted
    <3>1. CASE u = w
      BY <1>3, <2>1, <3>1
    <3>2. CASE u # w
      <4>1. Requesting(u) /\ case'[JobOf(u)] = case[JobOf(u)] /\ JobOf(u)' = JobOf(u)
        BY <1>2, <1>4, <1>6, <3>2
      <4> QED
        BY <4>1 DEF ContactInv, RequestIsNoted
    <3> QED
      BY <3>1, <3>2
  <2> QED
    BY <2>2, <2>3
<1>8. NothingSent'
  <2>1. crm[j].at = "none"
    BY <1>0, <1>1 DEF ContactInv, PersonIsNoted
  <2> QED
    BY <1>2, <1>4, <2>1 DEF ContactInv, NothingSent
<1>9. DoneIsLinked'
  <2> SUFFICES ASSUME NEW u \in Workers,
                      (Handling(u)' /\ handler'[u].at = "linked") \/ worker'[u].pc = "completing"
               PROVE  case'[JobOf(u)'].status = "linked"
    BY DEF DoneIsLinked
  <2>1. u # w
    BY <1>0, <1>2, <1>4 DEF Deciding, Handling
  <2>2. case[JobOf(u)].status = "linked" /\ JobOf(u) \in Jobs
    BY <1>2, <1>4, <2>1 DEF ContactInv, DoneIsLinked, Handling, Busy
  <2> QED
    BY <1>1, <1>2, <1>4, <2>2
<1>10. PersonIsNoted' /\ ConsentNeedsLink'
  BY <1>1, <1>2, <1>3 DEF ContactInv, PersonIsNoted, ConsentNeedsLink
<1>11. ContactRecordsAgree'
  <2>1. row' = row /\ crm' = crm
    BY <1>2 DEF vars
  <2>2. /\ row[j].status \notin {"completed", "purged"}
        /\ case[j].person = "own" => crm[j].at = "made"
    BY <1>1 DEF ContactInv, ContactRecordsAgree
  <2> SUFFICES ASSUME NEW k \in Jobs
               PROVE  /\ row[k].status \in {"completed", "purged"} => case'[k].status = "linked"
                      /\ case'[k].person = "own" => crm[k].at = "made"
                      /\ case'[k].consent = "granted" =>
                           case'[k].status = "linked" /\ ~case'[k].erased
                      /\ case'[k].status = "linked" /\ ~case'[k].erased =>
                           case'[k].consent # "none"
    BY <2>1 DEF ContactRecordsAgree
  <2>3. CASE k = j
    BY <1>3, <2>2, <2>3
  <2>4. CASE k # j
    <3>1. case'[k] = case[k]
      BY <1>2, <2>4
    <3> QED
      BY <3>1 DEF ContactInv, ContactRecordsAgree
  <2> QED
    BY <2>3, <2>4
<1> QED
  BY <1>5, <1>7, <1>8, <1>9, <1>10, <1>11 DEF ContactInv

(* The request leaves, or is refused: it is the only one of its case. *)
LEMMA RequestKeepsInv ==
  ASSUME ContactInv, ClaimInv', ContactTypeOK', NEW w \in Workers, CreatePerson(w) \/ Refused(w)
  PROVE  ContactInv'
<1> DEFINE j == JobOf(w)
<1>1. /\ Requesting(w) /\ j \in Jobs
      /\ UNCHANGED <<vars, case>>
      /\ handler'[w].at \in {"sent", "rejected"}
      /\ \A u \in Workers : u # w => handler'[u] = handler[u]
      /\ \A k \in Jobs : k # j => crm'[k] = crm[k]
  <2>1. Requesting(w)
    BY DEF CreatePerson, Refused, At, Requesting
  <2>2. j \in Jobs
    BY <2>1, JobOfType DEF Requesting, Handling, Busy, ContactInv, ClaimInv
  <2> QED
    BY <2>1, <2>2 DEF CreatePerson, Refused, Goto, ContactInv, ContactTypeOK, HandlerState
<1>2. handler'[w].at = "rejected" => crm'[j].at = "none"
  BY <1>1 DEF CreatePerson, Refused, Goto, NoPerson, ContactInv, ContactTypeOK, HandlerState
<1>3. \A u \in Workers : /\ Handling(u)' <=> Handling(u)
                         /\ JobOf(u)' = JobOf(u)
                         /\ HoldsClaim(u)' <=> HoldsClaim(u)
                         /\ worker'[u] = worker[u]
                         /\ Busy(u) => JobOf(u) \in Jobs
  BY <1>1, JobOfType DEF vars, Handling, JobOf, HoldsClaim, ContactInv, ClaimInv
<1>4. \A u \in Workers : /\ Deciding(u)' => Deciding(u)
                         /\ Requesting(u)' => Requesting(u)
  BY <1>1, <1>3 DEF Deciding, Requesting
<1>5. UndecidedYet' /\ OneRequest' /\ RequestIsNoted'
  BY <1>1, <1>3, <1>4 DEF ContactInv, UndecidedYet, OneRequest, RequestIsNoted
<1>6. NothingSent'
  <2> SUFFICES ASSUME NEW u \in Workers, Handling(u)', handler'[u].at \in {"creating", "rejected"}
               PROVE  crm'[JobOf(u)'].at = "none"
    BY DEF NothingSent
  <2>1. CASE u = w
    BY <1>1, <1>2, <1>3, <2>1
  <2>2. CASE u # w
    <3>1. Requesting(u) /\ crm[JobOf(u)].at = "none" /\ JobOf(u) \in Jobs
      BY <1>1, <1>3, <2>2 DEF ContactInv, NothingSent, Requesting, Handling, Busy
    <3>2. JobOf(u) # j
      BY <1>1, <2>2, <3>1 DEF ContactInv, OneRequest
    <3> QED
      BY <1>1, <1>3, <3>1, <3>2
  <2> QED
    BY <2>1, <2>2
<1>7. PersonIsNoted'
  BY <1>1 DEF ContactInv, PersonIsNoted, RequestIsNoted
<1>8. DoneIsLinked'
  BY <1>1, <1>3 DEF ContactInv, DoneIsLinked
<1>9. ConsentNeedsLink'
  BY <1>1 DEF ContactInv, ConsentNeedsLink
<1>10. ContactRecordsAgree'
  <2>1. crm[j].at # "made"
    BY DEF CreatePerson, Refused, At, ContactInv, NothingSent
  <2> QED
    BY <1>1, <2>1 DEF vars, ContactInv, ContactRecordsAgree
<1> QED
  BY <1>5, <1>6, <1>7, <1>8, <1>9, <1>10 DEF ContactInv

(* The CRM executes a request late: it is on record, and no handler that   *)
(* has one to send, or knows of a refusal, is about.                       *)
LEMMA ExecuteKeepsInv ==
  ASSUME ContactInv, ClaimInv', ContactTypeOK', NEW j \in Jobs, Execute(j)
  PROVE  ContactInv'
<1>1. /\ UNCHANGED <<vars, handler, case>>
      /\ crm[j].at = "flying" /\ crm'[j].at = "made"
      /\ \A k \in Jobs : k # j => crm'[k] = crm[k]
  BY DEF Execute, ContactInv, ContactTypeOK, Person
<1>2. \A u \in Workers : /\ Handling(u)' <=> Handling(u)
                         /\ JobOf(u)' = JobOf(u)
                         /\ HoldsClaim(u)' <=> HoldsClaim(u)
                         /\ worker'[u] = worker[u]
                         /\ Handling(u) => JobOf(u) \in Jobs
  BY <1>1, JobOfType DEF vars, Handling, Busy, JobOf, HoldsClaim, ContactInv, ClaimInv
<1>3. UndecidedYet' /\ OneRequest' /\ RequestIsNoted' /\ DoneIsLinked' /\ ConsentNeedsLink'
  BY <1>1, <1>2
  DEF ContactInv, UndecidedYet, OneRequest, RequestIsNoted, DoneIsLinked, ConsentNeedsLink,
      Deciding, Requesting
<1>4. NothingSent'
  BY <1>1, <1>2 DEF ContactInv, NothingSent
<1>5. PersonIsNoted' /\ ContactRecordsAgree'
  BY <1>1 DEF vars, ContactInv, PersonIsNoted, ContactRecordsAgree
<1> QED
  BY <1>3, <1>4, <1>5 DEF ContactInv

(* A manager decides while no worker has the job. *)
LEMMA ConfirmKeepsInv ==
  ASSUME ContactInv, ClaimInv', ContactTypeOK', NEW j \in Jobs, ConfirmContact(j)
  PROVE  ContactInv'
<1>1. /\ case[j] \in Case /\ case[j].consent = "none"
      /\ case[j].status \in {"needs_review", "failed"}
  BY DEF ConfirmContact, ContactInv, ContactTypeOK, ConsentNeedsLink, Case
<1>2. /\ [Next]_vars /\ UNCHANGED <<worker, handler, crm>>
      /\ case'[j] = Linked(case[j], "chosen")
      /\ \A k \in Jobs : k # j => case'[k] = case[k] /\ row'[k] = row[k]
  BY DEF ConfirmContact, CompleteResolvedEvent, Next, ContactInv, ContactTypeOK, ClaimInv, TypeOK
<1>3. /\ case'[j].status = "linked" /\ case'[j].person = "chosen"
      /\ case'[j].started = case[j].started
      /\ case'[j].consent = "granted" <=> ~case'[j].erased
  BY <1>1, <1>2, LinkedCase
<1>4. row'[j].status = "completed"
  BY DEF ConfirmContact, CompleteResolvedEvent, ContactInv, ClaimInv, TypeOK, Row
<1>5. \A u \in Workers : /\ Handling(u)' <=> Handling(u)
                         /\ JobOf(u)' = JobOf(u)
                         /\ Busy(u) => JobOf(u) \in Jobs
                         /\ Busy(u) /\ HoldsClaim(u)' => HoldsClaim(u) /\ JobOf(u) # j
  <2>1. ASSUME NEW u \in Workers, Busy(u), HoldsClaim(u)'
        PROVE  HoldsClaim(u) /\ JobOf(u) # j
    <3>1. JobOf(u) # j
      BY <1>2, <1>4, <2>1 DEF HoldsClaim, JobOf
    <3> QED
      BY <1>2, <2>1, <3>1, JobOfType DEF HoldsClaim, JobOf, ContactInv, ClaimInv
  <2> QED
    BY <1>2, <2>1, JobOfType DEF Handling, JobOf, ContactInv, ClaimInv
<1>6. UndecidedYet'
  BY <1>2, <1>5 DEF ContactInv, UndecidedYet, Deciding, Handling, Busy
<1>7. OneRequest' /\ NothingSent'
  BY <1>2, <1>5 DEF ContactInv, OneRequest, NothingSent, Requesting
<1>8. RequestIsNoted'
  <2> SUFFICES ASSUME NEW u \in Workers, Requesting(u)' PROVE case'[JobOf(u)].started
    BY <1>5 DEF RequestIsNoted
  <2>1. case[JobOf(u)].started /\ JobOf(u) \in Jobs
    BY <1>2, <1>5 DEF ContactInv, RequestIsNoted, Requesting, Handling, Busy
  <2>2. CASE JobOf(u) = j
    BY <1>3, <2>1, <2>2
  <2>3. CASE JobOf(u) # j
    BY <1>2, <2>1, <2>3
  <2> QED
    BY <2>2, <2>3
<1>9. PersonIsNoted'
  <2> SUFFICES ASSUME NEW k \in Jobs, crm'[k].at # "none" PROVE case'[k].started
    BY DEF PersonIsNoted
  <2>1. case[k].started
    BY <1>2 DEF ContactInv, PersonIsNoted
  <2> QED
    BY <1>2, <1>3, <2>1
<1>10. DoneIsLinked'
  <2> SUFFICES ASSUME NEW u \in Workers,
                      (Handling(u)' /\ handler'[u].at = "linked") \/ worker'[u].pc = "completing"
               PROVE  case'[JobOf(u)].status = "linked"
    BY <1>5 DEF DoneIsLinked
  <2>1. case[JobOf(u)].status = "linked" /\ JobOf(u) \in Jobs
    BY <1>2, <1>5 DEF ContactInv, DoneIsLinked, Handling, Busy
  <2> QED
    BY <1>2, <1>3, <2>1
<1>11. ConsentNeedsLink'
  BY <1>2, <1>3 DEF ContactInv, ConsentNeedsLink
<1>12. ContactRecordsAgree'
  <2> SUFFICES ASSUME NEW k \in Jobs
               PROVE  /\ row'[k].status \in {"completed", "purged"} => case'[k].status = "linked"
                      /\ case'[k].person = "own" => crm[k].at = "made"
                      /\ case'[k].consent = "granted" =>
                           case'[k].status = "linked" /\ ~case'[k].erased
                      /\ case'[k].status = "linked" /\ ~case'[k].erased =>
                           case'[k].consent # "none"
    BY <1>2 DEF ContactRecordsAgree
  <2>1. CASE k = j
    BY <1>3, <2>1
  <2>2. CASE k # j
    <3>1. case'[k] = case[k] /\ row'[k] = row[k]
      BY <1>2, <2>2
    <3> QED
      BY <3>1 DEF ContactInv, ContactRecordsAgree
  <2> QED
    BY <2>1, <2>2
<1> QED
  BY <1>6, <1>7, <1>8, <1>9, <1>10, <1>11, <1>12 DEF ContactInv

(* Erasing and revoking change no link. *)
LEMMA RevocationKeepsInv ==
  ASSUME ContactInv, ClaimInv', ContactTypeOK', NEW j \in Jobs, EraseSubject(j) \/ RevokeConsent(j)
  PROVE  ContactInv'
<1>1. /\ UNCHANGED <<vars, handler, crm>>
      /\ \/ case'[j] = Erased(case[j])
         \/ case[j].consent # "none" /\ case'[j] = [case[j] EXCEPT !.consent = "revoked"]
      /\ case[j] \in Case
      /\ \A k \in Jobs : k # j => case'[k] = case[k]
  BY DEF EraseSubject, RevokeConsent, ContactInv, ContactTypeOK
<1>2. /\ case'[j].status = case[j].status /\ case'[j].started = case[j].started
      /\ case'[j].person = case[j].person
      /\ ~case'[j].erased => ~case[j].erased
      /\ case'[j].consent # "granted"
      /\ case[j].consent = "none" <=> case'[j].consent = "none"
  BY <1>1 DEF Erased, Case
<1>3. \A k \in Jobs : case'[k].status = case[k].status /\ case'[k].started = case[k].started
  BY <1>1, <1>2
<1>4. \A u \in Workers : /\ Handling(u)' <=> Handling(u)
                         /\ JobOf(u)' = JobOf(u)
                         /\ HoldsClaim(u)' <=> HoldsClaim(u)
                         /\ worker'[u] = worker[u]
                         /\ Busy(u) => JobOf(u) \in Jobs
  BY <1>1, JobOfType DEF vars, Handling, JobOf, HoldsClaim, ContactInv, ClaimInv
<1>5. UndecidedYet'
  BY <1>1, <1>3, <1>4 DEF ContactInv, UndecidedYet, Deciding, Handling, Busy
<1>6. OneRequest' /\ NothingSent'
  BY <1>1, <1>4 DEF ContactInv, OneRequest, NothingSent, Requesting
<1>7. RequestIsNoted'
  BY <1>1, <1>3, <1>4 DEF ContactInv, RequestIsNoted, Requesting, Handling, Busy
<1>8. PersonIsNoted'
  BY <1>1, <1>3 DEF ContactInv, PersonIsNoted
<1>9. DoneIsLinked'
  BY <1>1, <1>3, <1>4 DEF ContactInv, DoneIsLinked, Handling, Busy
<1>10. ConsentNeedsLink'
  BY <1>1, <1>2 DEF ContactInv, ConsentNeedsLink
<1>11. ContactRecordsAgree'
  <2> SUFFICES ASSUME NEW k \in Jobs
               PROVE  /\ row[k].status \in {"completed", "purged"} => case'[k].status = "linked"
                      /\ case'[k].person = "own" => crm[k].at = "made"
                      /\ case'[k].consent = "granted" =>
                           case'[k].status = "linked" /\ ~case'[k].erased
                      /\ case'[k].status = "linked" /\ ~case'[k].erased =>
                           case'[k].consent # "none"
    BY <1>1 DEF vars, ContactRecordsAgree
  <2>1. CASE k = j
    BY <1>2, <2>1 DEF ContactInv, ContactRecordsAgree
  <2>2. CASE k # j
    <3>1. case'[k] = case[k]
      BY <1>1, <2>2
    <3> QED
      BY <3>1 DEF ContactInv, ContactRecordsAgree
  <2> QED
    BY <2>1, <2>2
<1> QED
  BY <1>5, <1>6, <1>7, <1>8, <1>9, <1>10, <1>11 DEF ContactInv

LEMMA ContactInvStep == ContactInv /\ [ContactNext]_contactVars => ContactInv'
<1> SUFFICES ASSUME ContactInv, [ContactNext]_contactVars PROVE ContactInv'
  OBVIOUS
<1>1. ClaimInv'
  BY ClaimStep, ContactStepIsQueueStep DEF ContactInv
<1>2. ContactTypeOK'
  BY ContactTypeStep DEF ContactInv, ClaimInv
<1>3. ASSUME NEW w \in Workers, AlreadyLinked(w) \/ Return(w) PROVE ContactInv'
  <2>1. HandlerReturns(w) /\ case[JobOf(w)].status = "linked" /\ UNCHANGED caseVars
    BY <1>3 DEF AlreadyLinked, Return, At, ContactInv, DoneIsLinked
  <2> QED
    BY <1>1, <1>2, <2>1, QueueStepKeepsInv
<1>4. ASSUME NEW w \in Workers, \/ AlreadyInReview(w) \/ Reject(w) \/ Raise(w) \/ TimesOut(w)
                                \/ RecordOutcome(w) \/ Die(w)
      PROVE  ContactInv'
  BY <1>1, <1>2, <1>4, QueueStepKeepsInv
  DEF AlreadyInReview, Reject, Raise, TimesOut, RecordOutcome, Die
<1>5. ASSUME NEW w \in Workers, Handle(w) PROVE ContactInv'
  BY <1>1, <1>2, <1>3, <1>4, <1>5, HandlerMovesKeepInv, StateStepsKeepInv, IntendKeepsInv,
     RequestKeepsInv
  DEF Handle
<1>6. ASSUME NEW j \in Jobs, Submit(j) \/ Restart(j) PROVE ContactInv'
  BY <1>1, <1>2, <1>6, QueueStepKeepsInv DEF Submit, Restart
<1>7. CASE Purge \/ TimePasses \/ UNCHANGED contactVars
  BY <1>1, <1>2, <1>7, QueueStepKeepsInv DEF Purge, TimePasses, contactVars
<1> QED
  BY <1>1, <1>2, <1>4, <1>5, <1>6, <1>7, ClaimKeepsInv, ExecuteKeepsInv, ConfirmKeepsInv,
     RevocationKeepsInv
  DEF ContactNext

LEMMA ContactInvHolds == ContactSpec => []ContactInv
  BY ContactInvInit, ContactInvStep, PTL DEF ContactSpec

-----------------------------------------------------------------------------
(* Job, case, person and consent agree, for any number of cases, workers,  *)
(* crashes, restarts, confirmations, revocations and erasures              *)
(* (record_inbox_consent, revoke_consent, erase_subject, confirm_contact). *)
THEOREM ContactsAgree == ContactSpec => []ContactRecordsAgree
<1>1. ContactInv => ContactRecordsAgree
  BY DEF ContactInv
<1> QED
  BY <1>1, ContactInvHolds, PTL

(* A create request is sent only while there is none under way or executed *)
(* (InboxContactHandler.handle, contact_started_at).                       *)
THEOREM CreatedOnce == ContactSpec => NoSecondCreate
<1>1. ContactInv =>
        [\A w \in Workers : CreatePerson(w) => crm[JobOf(w)].at = "none"]_contactVars
  BY DEF ContactInv, NothingSent, CreatePerson, At
<1> QED
  BY <1>1, ContactInvHolds, PTL DEF NoSecondCreate

(* A link is never changed, only a manager links a case that needs review, *)
(* and a revoked consent stays revoked (_state, confirm_contact,           *)
(* record_inbox_consent).                                                  *)
THEOREM DecisionsAreFinal == ContactSpec => DecisionsStand
<1> DEFINE Stands(j) ==
      /\ case[j].status = "linked" => case'[j].status = "linked" /\ case'[j].person = case[j].person
      /\ case[j].status = "needs_review" =>
           case'[j].status = "needs_review" \/ case'[j].person = "chosen"
      /\ case[j].consent = "revoked" => case'[j].consent = "revoked"
<1>1. ASSUME ContactInv, ContactNext, NEW j \in Jobs PROVE Stands(j)
  <2>0. case[j] \in Case
    BY <1>1 DEF ContactInv, ContactTypeOK
  <2>1. CASE case'[j] = case[j]
    BY <2>1
  <2>2. ASSUME NEW w \in Workers, Deciding(w), Owns(w),
               \A k \in Jobs : k # JobOf(w) => case'[k] = case[k]
        PROVE  Stands(j)
    <3>1. case[JobOf(w)].status \in {"pending", "failed"} /\ case[JobOf(w)].consent = "none"
      BY <1>1, <2>2, OwnerDecides
    <3> QED
      BY <2>1, <2>2, <3>1
  <2>3. ASSUME NEW w \in Workers, NEW c, NEW p, State(w, c, p), Deciding(w) PROVE Stands(j)
    BY <1>1, <2>2, <2>3 DEF State, ContactInv, ContactTypeOK
  <2>4. ASSUME NEW w \in Workers, Handle(w) PROVE Stands(j)
    <3>1. CASE \/ LinkFound(w) \/ Mismatch(w) \/ LookUpFails(w) \/ Review(w)
               \/ LinkCreated(w) \/ RecordRefusal(w) \/ RequestFails(w)
      BY <2>3, <3>1 DEF LinkFound, Mismatch, LookUpFails, Review, LinkCreated, RecordRefusal,
                        RequestFails, At, State, Owns, Deciding
    <3>2. CASE Intend(w)
      BY <1>1, <2>2, <3>2 DEF Intend, At, Owns, Deciding, ContactInv, ContactTypeOK
    <3>3. CASE \/ ReadCase(w) \/ AlreadyLinked(w) \/ AlreadyInReview(w) \/ LookUp(w)
               \/ CreatePerson(w) \/ Refused(w) \/ Return(w) \/ Reject(w) \/ Raise(w)
               \/ TimesOut(w)
      BY <2>1, <3>3 DEF ReadCase, AlreadyLinked, AlreadyInReview, LookUp, CreatePerson, Refused,
                        Return, Reject, Raise, TimesOut, caseVars
    <3> QED
      BY <2>4, <3>1, <3>2, <3>3 DEF Handle
  <2>5. ASSUME NEW k \in Jobs, ConfirmContact(k) PROVE Stands(j)
    <3>1. CASE k = j
      <4>1. case'[j] = Linked(case[j], "chosen") /\ case[j].consent = "none"
        BY <1>1, <2>5, <3>1 DEF ConfirmContact, ContactInv, ContactTypeOK, ConsentNeedsLink
      <4> QED
        BY <2>0, <2>5, <3>1, <4>1, LinkedCase DEF ConfirmContact
    <3>2. CASE k # j
      BY <1>1, <2>1, <2>5, <3>2 DEF ConfirmContact, ContactInv, ContactTypeOK
    <3> QED
      BY <3>1, <3>2
  <2>6. ASSUME NEW k \in Jobs, EraseSubject(k) \/ RevokeConsent(k) PROVE Stands(j)
    <3>1. CASE k = j
      <4>1. case'[j] = Erased(case[j]) \/ case'[j] = [case[j] EXCEPT !.consent = "revoked"]
        BY <1>1, <2>6, <3>1 DEF EraseSubject, RevokeConsent, ContactInv, ContactTypeOK
      <4> QED
        BY <2>0, <4>1 DEF Erased, Case
    <3>2. CASE k # j
      BY <1>1, <2>1, <2>6, <3>2 DEF EraseSubject, RevokeConsent, ContactInv, ContactTypeOK
    <3> QED
      BY <3>1, <3>2
  <2>7. ASSUME \/ \E w \in Workers : Claim(w) \/ RecordOutcome(w) \/ Die(w)
               \/ \E k \in Jobs : Submit(k) \/ Execute(k) \/ Restart(k)
               \/ Purge \/ TimePasses
        PROVE  Stands(j)
    BY <2>1, <2>7 DEF Claim, RecordOutcome, Die, Submit, Execute, Restart, Purge, TimePasses, caseVars
  <2> QED
    BY <1>1, <2>4, <2>5, <2>6, <2>7 DEF ContactNext
<1>2. ContactInv /\ [ContactNext]_contactVars => [\A j \in Jobs : Stands(j)]_contactVars
  BY <1>1
<1> QED
  BY <1>2, ContactInvHolds, PTL DEF ContactSpec, DecisionsStand

==============================================================================
