----------------------------- MODULE Settlement -----------------------------
(***************************************************************************)
(* Payments, reversals and the cancellation of one issued invoice, as API  *)
(* calls that run concurrently in SERIALIZABLE transactions, each retried  *)
(* a few times, each carrying an idempotency key that a client may send    *)
(* again; beside them the mail worker, whose READ COMMITTED transaction    *)
(* confirms a delivery of the invoice.                                     *)
(*                                                                         *)
(* The snapshot of a transaction is taken by its first statement, the one  *)
(* that waits for the advisory lock. So it is stale whenever the lock was  *)
(* not free, and what protects the books is the row version PostgreSQL     *)
(* compares when the invoice row is locked. The lock on the row is held    *)
(* from there to the commit, which makes that part one step.               *)
(***************************************************************************)
EXTENDS Integers, FiniteSetsExt

CONSTANTS Calls,        \* API calls; a payment entry is named by the call that made it
          Keys,         \* idempotency keys
          KeyOf,        \* the key each call carries
          CommandsOf,   \* the commands each call may stand for
          Amounts,      \* amounts a payment call may name, in cents
          Gross,        \* invoice.gross, in cents
          NoCall,       \* no payment entry
          MaxAttempts,  \* SERIALIZABLE_ATTEMPTS
          MaxMails      \* bound on confirmed deliveries of the invoice

(* What a call asks for; the request hash tells two contents apart. *)
Contents == [kind : {"pay"}, amount : Amounts, entry : {NoCall}] \cup
            [kind : {"reverse"}, amount : {0}, entry : Calls] \cup
            [kind : {"cancel"}, amount : {0}, entry : {NoCall}]

ASSUME SettlementAssumption ==
  /\ IsFiniteSet(Calls)
  /\ KeyOf \in [Calls -> Keys]
  /\ CommandsOf \in [Calls -> SUBSET Contents]
  /\ Amounts \subseteq Nat \ {0}
  /\ Gross \in Nat \ {0}
  /\ NoCall \notin Calls
  /\ MaxAttempts \in Nat \ {0}
  /\ MaxMails \in Nat

VARIABLES status,     \* invoice.status
          version,    \* row version of the invoice: grows with every UPDATE
          amount,     \* payment_record.amount_minor by entry, 0 where there is none
          reversedBy, \* payment_reversal: the call that reversed an entry
          cancelledBy,\* invoice_cancellation: the call that made it
          receipt,    \* command_receipt: what was done under a key
          mails,      \* confirmed mail_delivery rows of the invoice
          call        \* the API calls and their transactions

db == <<status, version, amount, reversedBy, cancelledBy, receipt, mails>>
vars == <<db, call>>

NoReceipt == [kind |-> "none", amount |-> 0, entry |-> NoCall]
NoVersion == -1
InvoiceStatus == {"issued", "sent", "paid", "cancelled"}

(* What a serializable transaction reads: the rows as they were when its   *)
(* snapshot was taken.                                                     *)
Snapshot == [status |-> status, version |-> version, amount |-> amount,
             reversedBy |-> reversedBy, receipt |-> receipt, mails |-> mails]

NewCall == [pc |-> "new"]

Init == /\ status = "issued"
        /\ version = 0
        /\ amount = [c \in Calls |-> 0]
        /\ reversedBy = [c \in Calls |-> NoCall]
        /\ cancelledBy = NoCall
        /\ receipt = [k \in Keys |-> NoReceipt]
        /\ mails = 0
        /\ call = [c \in Calls |-> NewCall]

Inside(c) == call[c].pc = "inside"
InFlight(c) == call[c].pc \in {"waiting", "inside"}

(***************************************************************************)
(* Balance                                                                 *)
(***************************************************************************)

EntriesOf(a) == {p \in Calls : a[p] > 0}
Active(a, r) == {p \in EntriesOf(a) : r[p] = NoCall}

(* Entries count once, and once more when reversed. *)
SettlementVersion(a, r) ==
  Cardinality(EntriesOf(a)) + Cardinality(EntriesOf(a) \ Active(a, r))

(* InvoiceBalance.of: the sum of the active entries. *)
Paid(a, r) == MapThenSumSet(LAMBDA p : a[p], Active(a, r))

(* Mutant: the settlement status is stored as the invoice status. *)
StatusOfSettlement(a, r, d) == IF Paid(a, r) > Gross THEN "overpaid"
                               ELSE IF Paid(a, r) = Gross THEN "paid"
                               ELSE IF d THEN "sent"
                               ELSE "issued"

(* InvoiceBalance.invoice_status *)
StatusOf(a, r, d) == IF Paid(a, r) >= Gross THEN "paid"
                     ELSE IF d THEN "sent"
                     ELSE "issued"

(* Sent before, or a delivery was confirmed. *)
Delivered(s) == s.status = "sent" \/ s.mails > 0

(***************************************************************************)
(* API calls                                                               *)
(***************************************************************************)

(* A client opens the invoice, reads the version of its payments and sends *)
(* a command; a reversal names an entry it was shown. Sending the command  *)
(* again, after a lost answer, is another call with the same key.          *)
Submit(c) ==
  /\ call[c].pc = "new"
  /\ \E content \in CommandsOf[c], versioned \in BOOLEAN :
       /\ content.kind = "reverse" => content.entry \in EntriesOf(amount)
       /\ versioned => content.kind # "cancel"
       /\ call' = [call EXCEPT ![c] =
            [pc |-> "ready", content |-> content, attempt |-> 0,
             expected |-> IF versioned THEN SettlementVersion(amount, reversedBy)
                          ELSE NoVersion]]
  /\ UNCHANGED db

(* BEGIN ISOLATION LEVEL SERIALIZABLE; SELECT pg_advisory_xact_lock(...) *)
Begin(c) ==
  /\ call[c].pc = "ready"
  /\ call' = [call EXCEPT ![c] = [pc |-> "waiting", content |-> call[c].content,
                                  attempt |-> call[c].attempt + 1,
                                  expected |-> call[c].expected,
                                  snap |-> Snapshot]]
  /\ UNCHANGED db

(* The call is answered: its command is booked, by this call or an earlier *)
(* one; or nothing was done.                                               *)
Confirm(c) == call' = [call EXCEPT ![c] = [pc |-> "booked", content |-> call[c].content]]

GiveUp(c) == call' = [call EXCEPT ![c] = [pc |-> "failed"]]

(* RETRYABLE_ERRORS: the transaction rolls back and runs again after a     *)
(* pause, or the call ends in a conflict when its attempts are used up.    *)
Retry(c) ==
  IF call[c].attempt < MaxAttempts
  THEN call' = [call EXCEPT ![c] = [pc |-> "ready", content |-> call[c].content,
                                    attempt |-> call[c].attempt,
                                    expected |-> call[c].expected]]
  ELSE GiveUp(c)

LockName(content) == IF content.kind = "cancel" THEN "invoice-cancellation"
                                                ELSE "invoice-payment"

(* The advisory lock is free, and nobody else has an uncommitted receipt   *)
(* for the key.                                                            *)
MayEnter(c) ==
  \A d \in Calls \ {c} : Inside(d) =>
    /\ LockName(call[d].content) # LockName(call[c].content)
    /\ KeyOf[d] # KeyOf[c]

(* The lock is granted and the receipt is inserted. An existing receipt    *)
(* answers the call with the stored result, or refuses a key that was used *)
(* for something else; one that was committed after the snapshot fails the *)
(* transaction (ON CONFLICT DO NOTHING cannot skip a row it cannot see).   *)
Enter(c) ==
  LET seen == call[c].snap.receipt[KeyOf[c]] IN
  /\ call[c].pc = "waiting"
  /\ MayEnter(c)
  /\ IF seen # NoReceipt
     THEN IF seen = call[c].content THEN Confirm(c) ELSE GiveUp(c)
     ELSE IF receipt[KeyOf[c]] # NoReceipt
     THEN Retry(c)
     ELSE call' = [call EXCEPT ![c].pc = "inside"]
  /\ UNCHANGED db

(* Mutant: the row is read without FOR UPDATE and its version not compared. *)
RowIsCurrentAlways(c) == TRUE

(* SELECT ... FOR UPDATE on the invoice row fails a serializable           *)
(* transaction when the row was updated after its snapshot.                *)
RowIsCurrent(c) == version = call[c].snap.version

VersionMatches(c) ==
  call[c].expected \in {NoVersion,
    SettlementVersion(call[c].snap.amount, call[c].snap.reversedBy)}

(* Mutant: a reversal does not look at the invoice status. *)
AcceptedCancelled(c) ==
  LET content == call[c].content
      s == call[c].snap
  IN  /\ content.kind # "reverse" => s.status # "cancelled"
      /\ content.kind = "reverse" => s.reversedBy[content.entry] = NoCall
      /\ content.kind # "cancel" => VersionMatches(c)

(* _invoice_state, the checks against it, and _require_version. *)
Accepted(c) ==
  LET content == call[c].content
      s == call[c].snap
  IN  /\ s.status # "cancelled"
      /\ content.kind = "reverse" => s.reversedBy[content.entry] = NoCall
      /\ content.kind # "cancel" => VersionMatches(c)

Refuse(c) ==
  /\ Inside(c)
  /\ RowIsCurrent(c)
  /\ ~Accepted(c)
  /\ GiveUp(c)
  /\ UNCHANGED db

(* The row lock is not granted, or PostgreSQL sees a dangerous structure   *)
(* or a deadlock at any statement or at the commit.                        *)
FailsSerialization(c) ==
  /\ Inside(c)
  /\ Retry(c)
  /\ UNCHANGED db

(* Mutant: the receipt is left out. *)
CommitForgetful(c, newStatus) ==
  /\ status' = newStatus
  /\ version' = version + 1
  /\ UNCHANGED receipt
  /\ Confirm(c)

(* The statements every accepted command ends with: the status of the      *)
(* invoice, which is written in any case, and the receipt.                 *)
Commit(c, newStatus) ==
  /\ status' = newStatus
  /\ version' = version + 1
  /\ receipt' = [receipt EXCEPT ![KeyOf[c]] = call[c].content]
  /\ Confirm(c)

Ready(c, kind) == Inside(c) /\ call[c].content.kind = kind /\ RowIsCurrent(c) /\ Accepted(c)

RecordPayment(c) ==
  LET s == call[c].snap
      added == [s.amount EXCEPT ![c] = call[c].content.amount]
  IN  /\ Ready(c, "pay")
      /\ amount' = [amount EXCEPT ![c] = call[c].content.amount]
      /\ Commit(c, StatusOf(added, s.reversedBy, Delivered(s)))
      /\ UNCHANGED <<reversedBy, cancelledBy, mails>>

ReversePayment(c) ==
  LET s == call[c].snap
      entry == call[c].content.entry
      marked == [s.reversedBy EXCEPT ![entry] = c]
  IN  /\ Ready(c, "reverse")
      /\ reversedBy' = [reversedBy EXCEPT ![entry] = c]
      /\ Commit(c, StatusOf(s.amount, marked, Delivered(s)))
      /\ UNCHANGED <<amount, cancelledBy, mails>>

CancelInvoice(c) ==
  /\ Ready(c, "cancel")
  /\ cancelledBy' = c
  /\ Commit(c, "cancelled")
  /\ UNCHANGED <<amount, reversedBy, mails>>

(* The API process dies or the client goes away: PostgreSQL rolls back. *)
Abandon(c) ==
  /\ InFlight(c)
  /\ GiveUp(c)
  /\ UNCHANGED db

(***************************************************************************)
(* The mail worker                                                         *)
(***************************************************************************)

(* Mutant: the invoice row is only written when its status changes. *)
MarkSentSparing ==
  /\ mails < MaxMails
  /\ mails' = mails + 1
  /\ status' = IF status = "issued" THEN "sent" ELSE status
  /\ version' = IF status = "issued" THEN version + 1 ELSE version
  /\ UNCHANGED <<amount, reversedBy, cancelledBy, receipt, call>>

(* mark_sent of one more delivery; it writes the invoice row in any case. *)
MarkSent ==
  /\ mails < MaxMails
  /\ mails' = mails + 1
  /\ status' = IF status = "issued" THEN "sent" ELSE status
  /\ version' = version + 1
  /\ UNCHANGED <<amount, reversedBy, cancelledBy, receipt, call>>

CallStep(c) == \/ Submit(c)
               \/ Begin(c)
               \/ Enter(c)
               \/ Refuse(c)
               \/ FailsSerialization(c)
               \/ RecordPayment(c)
               \/ ReversePayment(c)
               \/ CancelInvoice(c)
               \/ Abandon(c)

Next == MarkSent \/ \E c \in Calls : CallStep(c)

Spec == Init /\ [][Next]_vars

(***************************************************************************)
(* Properties                                                              *)
(***************************************************************************)

SnapshotType == [status : InvoiceStatus,
                 version : Nat,
                 amount : [Calls -> Amounts \cup {0}],
                 reversedBy : [Calls -> Calls \cup {NoCall}],
                 receipt : [Keys -> Contents \cup {NoReceipt}],
                 mails : 0..MaxMails]

ReadyCall == [pc : {"ready"}, content : Contents, attempt : 0 .. MaxAttempts - 1,
              expected : Int]
OpenCall == [pc : {"waiting", "inside"}, content : Contents, attempt : 1..MaxAttempts,
             expected : Int, snap : SnapshotType]
BookedCall == [pc : {"booked"}, content : Contents]
RestingCall == [pc : {"new", "failed"}]

(* Rows and calls hold values of their types. *)
TypeOK == /\ status \in InvoiceStatus
          /\ version \in Nat
          /\ amount \in [Calls -> Amounts \cup {0}]
          /\ reversedBy \in [Calls -> Calls \cup {NoCall}]
          /\ cancelledBy \in Calls \cup {NoCall}
          /\ receipt \in [Keys -> Contents \cup {NoReceipt}]
          /\ mails \in 0..MaxMails
          /\ call \in [Calls -> RestingCall \cup ReadyCall \cup OpenCall \cup BookedCall]

(* The stored status is never out of step with the rows it is derived      *)
(* from: whatever the order in which payments, reversals, their retries    *)
(* and the confirmation of a mail commit, an open invoice is paid exactly  *)
(* when its active entries reach the total, and otherwise sent exactly     *)
(* when a delivery was confirmed (_settle_status, mark_sent).              *)
DerivedStatus ==
  /\ status = "cancelled" <=> cancelledBy # NoCall
  /\ status # "cancelled" => status = StatusOf(amount, reversedBy, mails > 0)

(* What was booked under a key. *)
Effects(k) == {c \in Calls : /\ KeyOf[c] = k
                             /\ \/ amount[c] > 0
                                \/ cancelledBy = c
                                \/ \E p \in Calls : reversedBy[p] = c}

(* A key books at most once, however often it is sent and whichever calls  *)
(* were lost, retried or raced; and a call that was told its command is    *)
(* booked, now or before, finds exactly this command booked                *)
(* (_existing_command, _complete_command).                                 *)
ExactlyOnce ==
  \A k \in Keys :
    /\ \A c, d \in Effects(k) : c = d
    /\ \A c \in Calls :
         KeyOf[c] = k /\ call[c].pc = "booked" =>
           \E d \in Effects(k) : call[d].content = call[c].content

(* A command that names the version of the payments it was based on is     *)
(* only ever booked on exactly these payments, although the check reads a  *)
(* snapshot from before the wait for the lock (_require_version).          *)
StaleFormRefused ==
  [][\A c \in Calls : RecordPayment(c) \/ ReversePayment(c) =>
       call[c].expected \in {NoVersion, SettlementVersion(amount, reversedBy)}]_vars

(* The concurrent calls keep the books of module InvoiceAccount.           *)
Account == INSTANCE InvoiceAccount WITH
             Entries <- Calls,
             reversed <- {p \in Calls : reversedBy[p] # NoCall},
             delivered <- mails > 0

AccountSpec == Account!Spec
=============================================================================
