---------------------------- MODULE MailDelivery ----------------------------
(***************************************************************************)
(* Sending mail through the outbox: the invoice mail of one invoice and    *)
(* other mail, by workers that crash, fail, overrun their lease or send    *)
(* twice, beside the payments that decide which status the invoice shows.  *)
(*                                                                         *)
(* The queue is module Outbox. A handler asks was_sent, gives the message  *)
(* to the SMTP server, and records the confirmation; each of the three is  *)
(* a step of its own, and nothing but the claim keeps two handlers apart.  *)
(* Payments, reversals and the cancellation are the atomic commands of     *)
(* module InvoiceAccount, which module Settlement implements.              *)
(***************************************************************************)
EXTENDS Outbox

(* The jobs in Referenced are those an invoice_delivery row points at; the *)
(* other jobs carry plain mail (SmtpMailHandler).                          *)
ASSUME MailAssumption == Referenced \subseteq Jobs

VARIABLES step,      \* how far the handler of each worker is
          mail,      \* mail_delivery: none, or recorded with or without a valid claim
          accepted,  \* jobs whose message an SMTP server accepted
          invoice    \* status and balance of the invoice

mailVars == <<step, mail, accepted, invoice>>
allVars == <<vars, mailVars>>

Steps == {"start", "unsent", "accepted", "known"}

MailInit == /\ Init
            /\ step = [w \in Workers |-> "start"]
            /\ mail = [j \in Jobs |-> "none"]
            /\ accepted = {}
            /\ invoice = [status |-> "issued", settled |-> FALSE]

(***************************************************************************)
(* The handler                                                             *)
(***************************************************************************)

MailAt(w, s) == Handling(w) /\ step[w] = s
MailGoto(w, s) == step' = [step EXCEPT ![w] = s]

(* AsyncpgInvoiceDeliveryRepository.create refuses a cancelled invoice. *)
Request(j) ==
  /\ j \in Referenced => invoice.status # "cancelled"
  /\ Enqueue(j)
  /\ UNCHANGED mailVars

ClaimMail(w) ==
  /\ ClaimNext(w)
  /\ MailGoto(w, "start")
  /\ UNCHANGED <<mail, accepted, invoice>>

(* Mutant: the ledger of sent mail is not asked. *)
WasSentNever(w) ==
  /\ MailAt(w, "start")
  /\ MailGoto(w, "unsent")
  /\ UNCHANGED <<vars, mail, accepted, invoice>>

WasSent(w) ==
  /\ MailAt(w, "start")
  /\ MailGoto(w, IF mail[worker[w].job] = "none" THEN "unsent" ELSE "known")
  /\ UNCHANGED <<vars, mail, accepted, invoice>>

(* transport.send returned: the server has taken the message. An error     *)
(* after the server took it is Send followed by RaiseMail.                 *)
Send(w) ==
  /\ MailAt(w, "unsent")
  /\ MailGoto(w, "accepted")
  /\ accepted' = accepted \cup {worker[w].job}
  /\ UNCHANGED <<vars, mail, invoice>>

ShowSent == [invoice EXCEPT !.status = IF @ = "issued" THEN "sent" ELSE @]

(* mark_sent: the first confirmation is kept, and shown on the invoice. *)
MarkSent(w) ==
  LET j == worker[w].job IN
  /\ MailAt(w, "accepted")
  /\ MailGoto(w, "known")
  /\ IF mail[j] = "none"
     THEN /\ mail' = [mail EXCEPT ![j] = IF HoldsClaim(w) THEN "claimed" ELSE "stray"]
          /\ invoice' = IF j \in Referenced THEN ShowSent ELSE invoice
     ELSE UNCHANGED <<mail, invoice>>
  /\ UNCHANGED <<vars, accepted>>

(* Mutant: an SMTP error is logged and not raised. *)
ReturnAnyway(w) ==
  /\ step[w] \in {"unsent", "known"}
  /\ HandlerReturns(w)
  /\ UNCHANGED mailVars

ReturnSent(w) ==
  /\ step[w] = "known"
  /\ HandlerReturns(w)
  /\ UNCHANGED mailVars

(* The database, the object storage or the SMTP server fails. *)
RaiseMail(w) ==
  /\ HandlerRaises(w)
  /\ UNCHANGED mailVars

(* MailTransportError with retryable = False *)
RejectMail(w) ==
  /\ step[w] = "unsent"
  /\ HandlerRejects(w)
  /\ UNCHANGED mailVars

RecordMail(w) == (Complete(w) \/ Fail(w)) /\ UNCHANGED mailVars

DieMailing(w) == Crash(w) /\ UNCHANGED mailVars

(* invoice_deliveries.retry and the retry of the operations page. *)
RetryMail(j) == ManualRetry(j) /\ UNCHANGED mailVars

(* ON DELETE SET NULL: the mail_delivery row stays, without its job. *)
PurgeMail == PurgeCompleted /\ UNCHANGED mailVars

MailTimePasses == Tick /\ UNCHANGED mailVars

(***************************************************************************)
(* The invoice                                                             *)
(***************************************************************************)

(* Mutant: a delivery counts once its job is completed. *)
ConfirmedByJob == \E j \in Referenced : mail[j] # "none" /\ row[j].status = "completed"

(* mail_delivery joined with invoice_delivery over outbox_event_id, which  *)
(* is lost to a job that is gone; retention leaves the jobs of invoices.   *)
Confirmed == \E j \in Referenced : mail[j] # "none" /\ row[j].status # "purged"

(* _settle_status, with a balance that covers the total or not. *)
Settle(settled) ==
  /\ invoice.status # "cancelled"
  /\ invoice.settled # settled
  /\ invoice' = [settled |-> settled,
                 status |-> IF settled THEN "paid"
                            ELSE IF invoice.status = "sent" \/ Confirmed THEN "sent"
                            ELSE "issued"]
  /\ UNCHANGED <<vars, step, mail, accepted>>

CancelInvoice ==
  /\ invoice.status # "cancelled"
  /\ invoice' = [invoice EXCEPT !.status = "cancelled"]
  /\ UNCHANGED <<vars, step, mail, accepted>>

MailNext == \/ \E w \in Workers : \/ ClaimMail(w)
                                  \/ WasSent(w)
                                  \/ Send(w)
                                  \/ MarkSent(w)
                                  \/ ReturnSent(w)
                                  \/ RaiseMail(w)
                                  \/ RejectMail(w)
                                  \/ RecordMail(w)
                                  \/ DieMailing(w)
            \/ \E j \in Jobs : Request(j) \/ RetryMail(j)
            \/ PurgeMail
            \/ MailTimePasses
            \/ \E settled \in BOOLEAN : Settle(settled)
            \/ CancelInvoice

MailSpec == MailInit /\ [][MailNext]_allVars

(***************************************************************************)
(* Properties                                                              *)
(***************************************************************************)

(* The variables of this module hold values of their types. *)
MailTypeOK == /\ step \in [Workers -> Steps]
              /\ mail \in [Jobs -> {"none", "claimed", "stray"}]
              /\ accepted \subseteq Jobs
              /\ invoice \in [status : {"issued", "sent", "paid", "cancelled"},
                              settled : BOOLEAN]

(* A job counts as completed only if its message was accepted and the      *)
(* confirmation is on record, whichever of its attempts got how far, and   *)
(* also after retention removed it; and no confirmation is recorded for a  *)
(* message no server took (InvoiceSmtpHandler.handle).                     *)
CompletedMeansMailed ==
  /\ \A j \in Jobs : row[j].status \in {"completed", "purged"} => mail[j] # "none"
  /\ \A j \in Jobs : mail[j] # "none" => j \in accepted

(* An open invoice shows what is on record: paid while its balance covers  *)
(* the total, otherwise sent if a delivery was ever confirmed, otherwise   *)
(* issued. So it does not fall back to issued when a payment is reversed,  *)
(* be it before the job is completed, while it waits for another attempt,  *)
(* or after a late confirmation by a worker that lost its claim            *)
(* (mark_sent, _settle_status).                                            *)
InvoiceShowsRecords ==
  invoice.status # "cancelled" =>
    invoice.status = IF invoice.settled THEN "paid"
                     ELSE IF \E j \in Referenced : mail[j] # "none" THEN "sent"
                     ELSE "issued"

(* A handler that is about to give the server a message whose delivery is  *)
(* already on record has lost its claim, or the record was written by a    *)
(* handler that had: without an overrun lease nothing is sent again after  *)
(* a confirmed success, whatever crashes, fails or is restarted.           *)
ResendNeedsLostClaim ==
  \A w \in Workers : MailAt(w, "unsent") /\ mail[worker[w].job] # "none" =>
    ~HoldsClaim(w) \/ mail[worker[w].job] = "stray"
=============================================================================
