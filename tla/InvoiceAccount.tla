--------------------------- MODULE InvoiceAccount ---------------------------
(***************************************************************************)
(* What the books of one issued invoice promise, without transactions,     *)
(* retries or idempotency keys: payment entries are only added, an entry   *)
(* is reversed at most once, the stored status always follows from the     *)
(* entries and the confirmed mail, and a cancellation closes the books.    *)
(***************************************************************************)
EXTENDS Integers, FiniteSetsExt

CONSTANTS Entries,   \* ids of payment entries
          Amounts,   \* the positive amounts an entry may have, in cents
          Gross      \* the invoice total, in cents

VARIABLES status,    \* invoice.status
          amount,    \* payment_record: the entered amount, 0 where there is no entry
          reversed,  \* payment_reversal: the reversed entries
          delivered  \* a mail server confirmed a delivery

vars == <<status, amount, reversed, delivered>>

(* The sum of the active entries. *)
Paid(a, r) == MapThenSumSet(LAMBDA p : a[p], {p \in Entries : a[p] > 0} \ r)

(* The status a balance and a delivery imply (InvoiceBalance.invoice_status). *)
SettledStatus(a, r, d) == IF Paid(a, r) >= Gross THEN "paid"
                          ELSE IF d THEN "sent"
                          ELSE "issued"

Init == /\ status = "issued"
        /\ amount = [p \in Entries |-> 0]
        /\ reversed = {}
        /\ delivered = FALSE

Open == status # "cancelled"

RecordPayment(p, x) == /\ Open
                       /\ amount[p] = 0
                       /\ amount' = [amount EXCEPT ![p] = x]
                       /\ status' = SettledStatus(amount', reversed, delivered)
                       /\ UNCHANGED <<reversed, delivered>>

ReversePayment(p) == /\ Open
                     /\ amount[p] > 0
                     /\ p \notin reversed
                     /\ reversed' = reversed \cup {p}
                     /\ status' = SettledStatus(amount, reversed', delivered)
                     /\ UNCHANGED <<amount, delivered>>

Cancel == /\ Open
          /\ status' = "cancelled"
          /\ UNCHANGED <<amount, reversed, delivered>>

(* A confirmed mail turns issued into sent and nothing else. *)
ConfirmDelivery == /\ delivered' = TRUE
                   /\ status' = IF status = "issued" THEN "sent" ELSE status
                   /\ UNCHANGED <<amount, reversed>>

Next == \/ \E p \in Entries : \/ \E x \in Amounts : RecordPayment(p, x)
                              \/ ReversePayment(p)
        \/ Cancel
        \/ ConfirmDelivery

Spec == Init /\ [][Next]_vars
=============================================================================
