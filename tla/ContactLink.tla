----------------------------- MODULE ContactLink -----------------------------
(***************************************************************************)
(* Linking the sender of an inbox case to a person of the CRM, by jobs of  *)
(* the outbox: every case has one job, which creates the person and links  *)
(* it, while managers confirm contacts by hand, administrators revoke      *)
(* consents, and the sender's data may be erased.                          *)
(*                                                                         *)
(* The queue is module Outbox. The CRM commits apart from the database: a  *)
(* create request whose answer is lost may have been executed, may be      *)
(* executed later or never. The handler therefore commits its intention    *)
(* before the request, and looks at it before it sends another one. Every  *)
(* write to a case checks the claim of the job in its own transaction.     *)
(***************************************************************************)
EXTENDS Outbox

VARIABLES handler,  \* how far the handler of each worker is, and what it read
          case,     \* inbox_case and its consent_record
          crm       \* the person with contact_create_id, per case

caseVars == <<handler, case, crm>>
contactVars == <<vars, caseVars>>

Places == {"start", "looking", "absent", "creating", "sent", "rejected",
           "linked", "undecided", "failing"}

(* started and erased are columns of the row the handler read first: the   *)
(* personal data of an erased case is not the data the sender entered.     *)
HandlerState == [at : Places, started : BOOLEAN, erased : BOOLEAN]

Fresh == [at |-> "start", started |-> FALSE, erased |-> FALSE]

(* person is the CRM person the case is linked to: the one created for it  *)
(* or one a manager chose. consent is the consent_record.                  *)
Case == [status : {"pending", "linked", "needs_review", "failed"},
         started : BOOLEAN,
         person : {"none", "own", "chosen"},
         consent : {"none", "granted", "revoked"},
         erased : BOOLEAN]

NewCase == [status |-> "pending", started |-> FALSE, person |-> "none",
            consent |-> "none", erased |-> FALSE]

(* The create request of a case: not sent or refused, under way, executed; *)
(* erased tells which personal data it carries.                            *)
Person == [at : {"none", "flying", "made"}, erased : BOOLEAN]

NoPerson == [at |-> "none", erased |-> FALSE]

ContactInit == /\ Init
               /\ handler = [w \in Workers |-> Fresh]
               /\ case = [j \in Jobs |-> NewCase]
               /\ crm = [j \in Jobs |-> NoPerson]

(***************************************************************************)
(* The case                                                                *)
(***************************************************************************)

(* Mutant: consent is recorded for erased cases as well. *)
ConsentedAlways(c) == [c EXCEPT !.consent = "granted"]

(* record_inbox_consent: once, and not after the erasure. *)
Consented(c) == IF c.erased \/ c.consent # "none" THEN c
                ELSE [c EXCEPT !.consent = "granted"]

Linked(c, p) == Consented([c EXCEPT !.status = "linked", !.person = p])

(***************************************************************************)
(* The handler                                                             *)
(***************************************************************************)

At(w, p) == Handling(w) /\ handler[w].at = p
Goto(w, p) == handler' = [handler EXCEPT ![w].at = p]
JobOf(w) == worker[w].job

(* Mutant: the claim is not checked before a case is changed. *)
OwnsUnchecked(w) == Handling(w)

(* _locked_case: the row of the job with this claim, FOR UPDATE. Without   *)
(* it the handler raises inbox_contact_claim_lost, see Raise.              *)
Owns(w) == Handling(w) /\ HoldsClaim(w)

(* The transaction of _state: the case, and then the handler's next step.  *)
State(w, c, p) ==
  /\ Owns(w)
  /\ case' = [case EXCEPT ![JobOf(w)] = IF @.status = "linked" THEN @ ELSE c]
  /\ Goto(w, p)
  /\ UNCHANGED <<vars, crm>>

Set(w, status) == [case[JobOf(w)] EXCEPT !.status = status]

Submit(j) == Enqueue(j) /\ UNCHANGED caseVars

Claim(w) ==
  /\ ClaimNext(w)
  /\ handler' = [handler EXCEPT ![w] = Fresh]
  /\ UNCHANGED <<case, crm>>

ReadCase(w) ==
  LET c == case[JobOf(w)] IN
  /\ At(w, "start") /\ Owns(w)
  /\ c.status \in {"pending", "failed"}
  /\ handler' = [handler EXCEPT ![w] =
                   [at |-> "looking", started |-> c.started, erased |-> c.erased]]
  /\ UNCHANGED <<vars, case, crm>>

AlreadyLinked(w) ==
  /\ At(w, "start") /\ Owns(w)
  /\ case[JobOf(w)].status = "linked"
  /\ HandlerReturns(w)
  /\ UNCHANGED caseVars

AlreadyInReview(w) ==
  /\ At(w, "start") /\ Owns(w)
  /\ case[JobOf(w)].status = "needs_review"
  /\ HandlerRejects(w)
  /\ UNCHANGED caseVars

Made(w) == crm[JobOf(w)].at = "made"

(* get_person found the person with the data of the case: it is linked. *)
LinkFound(w) ==
  /\ At(w, "looking") /\ Made(w)
  /\ crm[JobOf(w)].erased = handler[w].erased
  /\ State(w, Linked(case[JobOf(w)], "own"), "linked")

(* The person has other data, which somebody edited or the erasure removed.*)
Mismatch(w) ==
  /\ (At(w, "looking") \/ At(w, "sent")) /\ Made(w)
  /\ State(w, Set(w, "needs_review"), "undecided")

LookUp(w) ==
  /\ At(w, "looking") /\ ~Made(w)
  /\ Goto(w, "absent")
  /\ UNCHANGED <<vars, case, crm>>

(* get_person failed; the CRM not being configured ends alike. *)
LookUpFails(w) ==
  /\ At(w, "looking")
  /\ State(w, Set(w, "failed"), "failing")

(* An earlier request has no known outcome. *)
Review(w) ==
  /\ At(w, "absent") /\ handler[w].started
  /\ State(w, Set(w, "needs_review"), "undecided")

(* The intention, in a transaction of its own. *)
Intend(w) ==
  /\ At(w, "absent") /\ Owns(w)
  /\ ~handler[w].started /\ ~case[JobOf(w)].started
  /\ case' = [case EXCEPT ![JobOf(w)].status = "pending", ![JobOf(w)].started = TRUE]
  /\ Goto(w, "creating")
  /\ UNCHANGED <<vars, crm>>

(* crm.create_person: the request leaves for the CRM. *)
CreatePerson(w) ==
  /\ At(w, "creating")
  /\ crm' = [crm EXCEPT ![JobOf(w)] = [at |-> "flying", erased |-> handler[w].erased]]
  /\ Goto(w, "sent")
  /\ UNCHANGED <<vars, case>>

LinkCreated(w) ==
  /\ At(w, "sent") /\ Made(w)
  /\ State(w, Linked(case[JobOf(w)], "own"), "linked")

(* The CRM answers with a status of 400 to 499: nothing was created. *)
Refused(w) ==
  /\ At(w, "sent") /\ crm[JobOf(w)].at = "flying"
  /\ crm' = [crm EXCEPT ![JobOf(w)] = NoPerson]
  /\ Goto(w, "rejected")
  /\ UNCHANGED <<vars, case>>

RecordRefusal(w) ==
  /\ At(w, "rejected")
  /\ State(w, [Set(w, "failed") EXCEPT !.started = FALSE], "failing")

(* Mutant: every failed request counts as not executed. *)
UnansweredCleared(w) == [Set(w, "failed") EXCEPT !.started = FALSE]

(* A timeout, a lost connection or a status of 500 and more proves nothing:*)
(* contact_started_at stays.                                               *)
Unanswered(w) == Set(w, "failed")

RequestFails(w) ==
  /\ At(w, "sent")
  /\ State(w, Unanswered(w), "failing")

Return(w) == At(w, "linked") /\ HandlerReturns(w) /\ UNCHANGED caseVars

(* InboxContactError with retryable = False, or a CrmGatewayError that     *)
(* must not be retried.                                                    *)
Reject(w) ==
  /\ At(w, "undecided") \/ At(w, "failing")
  /\ HandlerRejects(w)
  /\ UNCHANGED caseVars

(* A CrmGatewayError that may be retried, a lost claim, or the database    *)
(* failing at any point.                                                   *)
Raise(w) == ~At(w, "undecided") /\ HandlerRaises(w) /\ UNCHANGED caseVars

TimesOut(w) == HandlerTimesOut(w) /\ UNCHANGED caseVars

RecordOutcome(w) == (Complete(w) \/ Fail(w)) /\ UNCHANGED caseVars

Die(w) == Crash(w) /\ UNCHANGED caseVars

(***************************************************************************)
(* The CRM, managers, administrators, operators and the erasure            *)
(***************************************************************************)

(* The CRM executes a request, whoever still waits for the answer. *)
Execute(j) ==
  /\ crm[j].at = "flying"
  /\ crm' = [crm EXCEPT ![j].at = "made"]
  /\ UNCHANGED <<vars, handler, case>>

(* confirm_contact: not while a worker has the job. *)
ConfirmContact(j) ==
  /\ case[j].status \in {"needs_review", "failed"}
  /\ CompleteResolvedEvent(j)
  /\ case' = [case EXCEPT ![j] = Linked(@, "chosen")]
  /\ UNCHANGED <<handler, crm>>

Erased(c) ==
  [c EXCEPT !.erased = TRUE, !.consent = IF @ = "granted" THEN "revoked" ELSE @]

(* erase_subject: anonymize locks the case until the consents are revoked  *)
(* and committed, so that no link can come between.                        *)
EraseSubject(j) ==
  /\ row[j].status # "absent" /\ ~case[j].erased
  /\ case' = [case EXCEPT ![j] = Erased(@)]
  /\ UNCHANGED <<vars, handler, crm>>

(* revoke_consent: an administrator revokes one consent_record, which then *)
(* keeps the time of its first revocation.                                 *)
RevokeConsent(j) ==
  /\ case[j].consent # "none"
  /\ case' = [case EXCEPT ![j].consent = "revoked"]
  /\ UNCHANGED <<vars, handler, crm>>

Restart(j) == ManualRetry(j) /\ UNCHANGED caseVars

(* ON DELETE SET NULL: the case stays, without its job. *)
Purge == PurgeCompleted /\ UNCHANGED caseVars

TimePasses == Tick /\ UNCHANGED caseVars

Handle(w) == \/ ReadCase(w)
             \/ AlreadyLinked(w)
             \/ AlreadyInReview(w)
             \/ LinkFound(w)
             \/ Mismatch(w)
             \/ LookUp(w)
             \/ LookUpFails(w)
             \/ Review(w)
             \/ Intend(w)
             \/ CreatePerson(w)
             \/ LinkCreated(w)
             \/ Refused(w)
             \/ RecordRefusal(w)
             \/ RequestFails(w)
             \/ Return(w)
             \/ Reject(w)
             \/ Raise(w)
             \/ TimesOut(w)

ContactNext == \/ \E w \in Workers : Claim(w) \/ Handle(w) \/ RecordOutcome(w) \/ Die(w)
               \/ \E j \in Jobs : \/ Submit(j)
                                  \/ Execute(j)
                                  \/ ConfirmContact(j)
                                  \/ EraseSubject(j)
                                  \/ RevokeConsent(j)
                                  \/ Restart(j)
               \/ Purge
               \/ TimePasses

ContactSpec == ContactInit /\ [][ContactNext]_contactVars

(***************************************************************************)
(* Properties                                                              *)
(***************************************************************************)

(* The variables of this module hold values of their types. *)
ContactTypeOK == /\ handler \in [Workers -> HandlerState]
                 /\ case \in [Jobs -> Case]
                 /\ crm \in [Jobs -> Person]

(* No second create request is sent while an earlier one is under way or   *)
(* was executed: whatever crashes, times out, loses its claim or is        *)
(* retried, only a refusal by the CRM clears the way for another one       *)
(* (InboxContactHandler.handle, contact_started_at).                       *)
NoSecondCreate ==
  [][\A w \in Workers : CreatePerson(w) => crm[JobOf(w)].at = "none"]_contactVars

(* A link is never changed, neither by a worker that lost its job to a     *)
(* manager nor by a retry; and a case that needs review is only linked by  *)
(* a manager (_state, confirm_contact). A consent that was revoked, by an  *)
(* administrator or by the erasure, is not given again by a job that comes *)
(* later or is repeated (record_inbox_consent, revoke_consent).            *)
DecisionsStand ==
  [][\A j \in Jobs :
       /\ case[j].status = "linked" => case'[j].status = "linked" /\ case'[j].person = case[j].person
       /\ case[j].status = "needs_review" =>
            case'[j].status = "needs_review" \/ case'[j].person = "chosen"
       /\ case[j].consent = "revoked" => case'[j].consent = "revoked"]_contactVars

(* A completed job means a linked case; a case linked to its own person    *)
(* has that person in the CRM. Consent is in force only for linked cases   *)
(* that are not erased, whether the erasure comes before the link, while a *)
(* worker is between reading and linking, or after it; and a linked case   *)
(* that is not erased has its consent on record, in force or revoked       *)
(* (record_inbox_consent, erase_subject, complete_resolved_event).         *)
ContactRecordsAgree ==
  \A j \in Jobs :
    /\ row[j].status \in {"completed", "purged"} => case[j].status = "linked"
    /\ case[j].person = "own" => crm[j].at = "made"
    /\ case[j].consent = "granted" => case[j].status = "linked" /\ ~case[j].erased
    /\ case[j].status = "linked" /\ ~case[j].erased => case[j].consent # "none"
=============================================================================
