-------------------------- MODULE SettlementProofs --------------------------
(***************************************************************************)
(* Proofs about module Settlement, for every set of calls, keys, commands  *)
(* and amounts and for every number of attempts.                           *)
(*                                                                         *)
(* DerivedStatus and ExactlyOnce are not inductive by themselves: a commit *)
(* computes the new status from a snapshot. What carries them is Fresh:    *)
(* as long as the row version has not moved since a snapshot was taken,    *)
(* the snapshot equals the committed rows, because every transaction that  *)
(* changes one of them also writes the invoice row.                        *)
(***************************************************************************)
EXTENDS Settlement, FiniteSetTheorems, TLAPS

(* A snapshot whose version is the current one shows the current rows. *)
Fresh ==
  \A c \in Calls : InFlight(c) =>
    /\ call[c].snap.version <= version
    /\ call[c].snap.version = version => call[c].snap = Snapshot

(* A call behind the advisory lock saw no receipt for its key. *)
InsideSawNone ==
  \A c \in Calls : Inside(c) => call[c].snap.receipt[KeyOf[c]] = NoReceipt

(* Bookings leave a receipt, and only calls that are done have booked. *)
BookedHasReceipt ==
  \A c \in Calls :
    /\ call[c].pc = "booked" => receipt[KeyOf[c]] = call[c].content
    /\ c \in Effects(KeyOf[c]) => call[c].pc = "booked"

(* A receipt is somebody's booking. *)
ReceiptHasBooking ==
  \A k \in Keys : receipt[k] # NoReceipt =>
    \E d \in Effects(k) : call[d].content = receipt[k]

(* The receipts a snapshot shows are still there. *)
ReceiptsStay ==
  \A c \in Calls, k \in Keys :
    InFlight(c) /\ call[c].snap.receipt[k] # NoReceipt =>
      receipt[k] = call[c].snap.receipt[k]

(* A key has booked at most once. *)
UniqueEffects == \A k \in Keys : \A c, d \in Effects(k) : c = d

(* A reversal under way names an entry that exists. *)
EntriesStay ==
  \A c \in Calls :
    call[c].pc \in {"ready", "waiting", "inside"} /\ call[c].content.kind = "reverse" =>
      amount[call[c].content.entry] > 0

SettledInv == TypeOK /\ Fresh /\ DerivedStatus

BookInv == /\ SettledInv
           /\ InsideSawNone
           /\ BookedHasReceipt
           /\ ReceiptHasBooking
           /\ ReceiptsStay
           /\ UniqueEffects
           /\ EntriesStay

USE SettlementAssumption

LEMMA ContentFields ==
  ASSUME NEW x \in Contents
  PROVE  /\ x.kind \in {"pay", "reverse", "cancel"}
         /\ x.kind = "pay" => x.amount \in Amounts
         /\ x.kind = "reverse" => x.entry \in Calls
         /\ x # NoReceipt
BY DEF Contents, NoReceipt

LEMMA CallFields ==
  ASSUME TypeOK, NEW c \in Calls
  PROVE  /\ call[c].pc = "ready" => call[c] \in ReadyCall
         /\ InFlight(c) => call[c] \in OpenCall
         /\ call[c].pc = "booked" => call[c] \in BookedCall
BY DEF TypeOK, RestingCall, ReadyCall, OpenCall, BookedCall, InFlight

LEMMA AmountTyped ==
  ASSUME TypeOK, NEW c \in Calls
  PROVE  amount[c] \in Nat
<1>1. amount[c] \in Amounts \/ amount[c] = 0
  BY DEF TypeOK
<1>2. CASE amount[c] \in Amounts
  BY <1>2
<1>3. CASE amount[c] = 0
  BY <1>3
<1> QED BY <1>1, <1>2, <1>3

LEMMA SnapshotTyped == TypeOK => Snapshot \in SnapshotType
BY DEF TypeOK, Snapshot, SnapshotType

LEMMA VersionTyped == SettlementVersion(amount, reversedBy) \in Int
<1>1. EntriesOf(amount) \subseteq Calls /\ IsFiniteSet(EntriesOf(amount))
  BY FS_Subset DEF EntriesOf
<1>2. IsFiniteSet(EntriesOf(amount) \ Active(amount, reversedBy))
  BY <1>1, FS_Subset
<1> QED BY <1>1, <1>2, FS_CardinalityType DEF SettlementVersion

(* Replacing one call by a typed one keeps the type of the table. *)
LEMMA CallUpdate ==
  ASSUME TypeOK, NEW c \in Calls, NEW x,
         x \in RestingCall \cup ReadyCall \cup OpenCall \cup BookedCall,
         call' = [call EXCEPT ![c] = x]
  PROVE  call' \in [Calls -> RestingCall \cup ReadyCall \cup OpenCall \cup BookedCall]
BY DEF TypeOK

LEMMA ConfirmTyped ==
  ASSUME TypeOK, NEW c \in Calls, InFlight(c), Confirm(c)
  PROVE  call' \in [Calls -> RestingCall \cup ReadyCall \cup OpenCall \cup BookedCall]
<1>1. [pc |-> "booked", content |-> call[c].content] \in BookedCall
  BY CallFields DEF OpenCall, BookedCall
<1> QED BY <1>1, CallUpdate DEF Confirm

LEMMA GiveUpTyped ==
  ASSUME TypeOK, NEW c \in Calls, GiveUp(c)
  PROVE  call' \in [Calls -> RestingCall \cup ReadyCall \cup OpenCall \cup BookedCall]
<1>1. [pc |-> "failed"] \in RestingCall
  BY DEF RestingCall
<1> QED BY <1>1, CallUpdate DEF GiveUp

LEMMA RetryTyped ==
  ASSUME TypeOK, NEW c \in Calls, InFlight(c), Retry(c)
  PROVE  call' \in [Calls -> RestingCall \cup ReadyCall \cup OpenCall \cup BookedCall]
<1>1. CASE call[c].attempt < MaxAttempts
  <2>1. [pc |-> "ready", content |-> call[c].content, attempt |-> call[c].attempt,
         expected |-> call[c].expected] \in ReadyCall
    BY <1>1, CallFields DEF OpenCall, ReadyCall
  <2> QED BY <1>1, <2>1, CallUpdate DEF Retry
<1>2. CASE ~(call[c].attempt < MaxAttempts)
  BY <1>2, GiveUpTyped DEF Retry
<1> QED BY <1>1, <1>2

LEMMA StatusTyped ==
  ASSUME NEW a, NEW r, NEW d
  PROVE  StatusOf(a, r, d) \in InvoiceStatus \ {"cancelled"}
BY DEF StatusOf, InvoiceStatus

LEMMA InitTyped == Init => TypeOK
<1> SUFFICES ASSUME Init PROVE TypeOK
  OBVIOUS
<1>1. [pc |-> "new"] \in RestingCall
  BY DEF RestingCall
<1> QED BY <1>1 DEF Init, TypeOK, InvoiceStatus, NewCall

LEMMA StepTyped ==
  ASSUME TypeOK, [Next]_vars
  PROVE  TypeOK'
<1> USE DEF db
<1>1. CASE MarkSent
  BY <1>1 DEF MarkSent, TypeOK, InvoiceStatus
<1>2. ASSUME NEW c \in Calls, Submit(c) PROVE TypeOK'
  <2>1. PICK content \in CommandsOf[c], versioned \in BOOLEAN :
          call' = [call EXCEPT ![c] =
            [pc |-> "ready", content |-> content, attempt |-> 0,
             expected |-> IF versioned THEN SettlementVersion(amount, reversedBy)
                          ELSE NoVersion]]
    BY <1>2 DEF Submit
  <2> DEFINE e == IF versioned THEN SettlementVersion(amount, reversedBy) ELSE NoVersion
  <2>2. e \in Int
    BY VersionTyped DEF NoVersion
  <2>3. content \in Contents
    OBVIOUS
  <2>4. [pc |-> "ready", content |-> content, attempt |-> 0, expected |-> e] \in ReadyCall
    BY <2>2, <2>3 DEF ReadyCall
  <2>5. call' \in [Calls -> RestingCall \cup ReadyCall \cup OpenCall \cup BookedCall]
    BY <2>1, <2>4, CallUpdate
  <2> QED BY <1>2, <2>5 DEF Submit, TypeOK
<1>3. ASSUME NEW c \in Calls, Begin(c) PROVE TypeOK'
  <2> DEFINE x == [pc |-> "waiting", content |-> call[c].content,
                   attempt |-> call[c].attempt + 1, expected |-> call[c].expected,
                   snap |-> Snapshot]
  <2>1. call[c] \in ReadyCall
    BY <1>3, CallFields DEF Begin
  <2>2. call[c].attempt + 1 \in 1..MaxAttempts
    BY <2>1 DEF ReadyCall
  <2>3. x \in OpenCall
    BY <2>1, <2>2, SnapshotTyped DEF ReadyCall, OpenCall
  <2>4. call' = [call EXCEPT ![c] = x]
    BY <1>3 DEF Begin
  <2>5. call' \in [Calls -> RestingCall \cup ReadyCall \cup OpenCall \cup BookedCall]
    BY <2>3, <2>4, CallUpdate
  <2> QED BY <1>3, <2>5 DEF Begin, TypeOK
<1>4. ASSUME NEW c \in Calls, Enter(c) PROVE TypeOK'
  <2>1. InFlight(c)
    BY <1>4 DEF Enter, InFlight
  <2>2. CASE Confirm(c)
    BY <1>4, <2>1, <2>2, ConfirmTyped DEF Enter, TypeOK
  <2>3. CASE GiveUp(c)
    BY <1>4, <2>3, GiveUpTyped DEF Enter, TypeOK
  <2>4. CASE Retry(c)
    BY <1>4, <2>1, <2>4, RetryTyped DEF Enter, TypeOK
  <2>5. CASE call' = [call EXCEPT ![c].pc = "inside"]
    <3>1. [call[c] EXCEPT !.pc = "inside"] \in OpenCall
      BY <2>1, CallFields DEF OpenCall
    <3>2. call' = [call EXCEPT ![c] = [call[c] EXCEPT !.pc = "inside"]]
      BY <2>5
    <3>3. call' \in [Calls -> RestingCall \cup ReadyCall \cup OpenCall \cup BookedCall]
      BY <3>1, <3>2, CallUpdate
    <3> QED BY <1>4, <3>3 DEF Enter, TypeOK
  <2> QED BY <1>4, <2>2, <2>3, <2>4, <2>5 DEF Enter
<1>5. ASSUME NEW c \in Calls, Refuse(c) PROVE TypeOK'
  BY <1>5, GiveUpTyped DEF Refuse, TypeOK
<1>6. ASSUME NEW c \in Calls, FailsSerialization(c) PROVE TypeOK'
  BY <1>6, RetryTyped DEF FailsSerialization, Inside, InFlight, TypeOK
<1>7. ASSUME NEW c \in Calls, NEW s \in InvoiceStatus, Inside(c), Commit(c, s)
      PROVE  /\ status' \in InvoiceStatus
             /\ version' \in Nat
             /\ receipt' \in [Keys -> Contents \cup {NoReceipt}]
             /\ call' \in [Calls -> RestingCall \cup ReadyCall \cup OpenCall \cup BookedCall]
  <2>1. InFlight(c) /\ call[c].content \in Contents
    BY <1>7, CallFields DEF Inside, InFlight, OpenCall
  <2> QED BY <1>7, <2>1, ConfirmTyped DEF Commit, TypeOK
<1>8. ASSUME NEW c \in Calls, RecordPayment(c) PROVE TypeOK'
  <2>1. Inside(c) /\ call[c].content.kind = "pay"
    BY <1>8 DEF RecordPayment, Ready
  <2>2. call[c].content.amount \in Amounts
    BY <2>1, CallFields, ContentFields DEF Inside, InFlight, OpenCall
  <2> QED BY <1>7, <1>8, <2>1, <2>2, StatusTyped DEF RecordPayment, TypeOK
<1>9. ASSUME NEW c \in Calls, ReversePayment(c) PROVE TypeOK'
  BY <1>7, <1>9, StatusTyped DEF ReversePayment, Ready, TypeOK
<1>10. ASSUME NEW c \in Calls, CancelInvoice(c) PROVE TypeOK'
  BY <1>7, <1>10 DEF CancelInvoice, Ready, TypeOK, InvoiceStatus
<1>11. ASSUME NEW c \in Calls, Abandon(c) PROVE TypeOK'
  BY <1>11, GiveUpTyped DEF Abandon, TypeOK
<1>12. CASE UNCHANGED vars
  BY <1>12 DEF vars, TypeOK
<1> QED
  BY <1>1, <1>2, <1>3, <1>4, <1>5, <1>6, <1>8, <1>9, <1>10, <1>11, <1>12 DEF Next, CallStep

(* Rows and calls always hold values of their types. *)
THEOREM SettlementTypeCorrect == Spec => []TypeOK
<1> QED BY InitTyped, StepTyped, PTL DEF Spec


(***************************************************************************)
(* Snapshots                                                               *)
(***************************************************************************)

(* Steps that leave the rows alone and open no new snapshot for another    *)
(* call keep Fresh.                                                        *)
LEMMA RowsKeptFresh ==
  ASSUME TypeOK, Fresh, UNCHANGED db, NEW c \in Calls,
         \A d \in Calls \ {c} : call'[d] = call[d],
         InFlight(c)' => \/ InFlight(c) /\ call'[c].snap = call[c].snap
                         \/ call'[c].snap = Snapshot
  PROVE  Fresh'
<1> SUFFICES ASSUME NEW d \in Calls, InFlight(d)'
             PROVE  /\ call'[d].snap.version <= version'
                    /\ call'[d].snap.version = version' => call'[d].snap = Snapshot'
  BY DEF Fresh
<1>1. Snapshot' = Snapshot /\ version' = version
  BY DEF db, Snapshot
<1>2. version <= version /\ Snapshot.version = version
  BY DEF TypeOK, Snapshot
<1>3. CASE d # c
  BY <1>1, <1>3 DEF Fresh, InFlight
<1>4. CASE d = c
  BY <1>1, <1>2, <1>4 DEF Fresh
<1> QED BY <1>3, <1>4

(* A step that writes the invoice row outdates every snapshot. *)
LEMMA WriteKeepsFresh ==
  ASSUME TypeOK, Fresh, version' = version + 1,
         \A d \in Calls : InFlight(d)' => InFlight(d) /\ call'[d] = call[d]
  PROVE  Fresh'
<1> SUFFICES ASSUME NEW d \in Calls, InFlight(d)'
             PROVE  /\ call'[d].snap.version <= version'
                    /\ call'[d].snap.version = version' => call'[d].snap = Snapshot'
  BY DEF Fresh
<1>1. call[d].snap.version \in Nat /\ version \in Nat
  BY CallFields DEF TypeOK, OpenCall, SnapshotType
<1>2. call[d].snap.version <= version
  BY DEF Fresh
<1> QED BY <1>1, <1>2

LEMMA CommitFresh ==
  ASSUME TypeOK, Fresh, NEW c \in Calls, NEW s, Commit(c, s)
  PROVE  Fresh'
<1>1. \A d \in Calls : InFlight(d)' => InFlight(d) /\ call'[d] = call[d]
  BY DEF Commit, Confirm, InFlight, TypeOK
<1> QED BY <1>1, WriteKeepsFresh DEF Commit

LEMMA RetryShape ==
  ASSUME TypeOK, NEW c \in Calls, Retry(c) \/ GiveUp(c) \/ Confirm(c)
  PROVE  /\ \A d \in Calls \ {c} : call'[d] = call[d]
         /\ ~InFlight(c)'
BY DEF TypeOK, Retry, GiveUp, Confirm, InFlight

LEMMA StepFresh ==
  ASSUME TypeOK, Fresh, [Next]_vars
  PROVE  Fresh'
<1>1. CASE MarkSent
  <2>1. \A d \in Calls : InFlight(d)' => InFlight(d) /\ call'[d] = call[d]
    BY <1>1 DEF MarkSent, InFlight
  <2> QED BY <1>1, <2>1, WriteKeepsFresh DEF MarkSent
<1>2. ASSUME NEW c \in Calls, Submit(c) PROVE Fresh'
  <2>1. \A d \in Calls \ {c} : call'[d] = call[d]
    BY <1>2 DEF Submit, TypeOK
  <2>2. ~InFlight(c)'
    BY <1>2 DEF Submit, TypeOK, InFlight
  <2>3. UNCHANGED db
    BY <1>2 DEF Submit
  <2> QED BY <2>1, <2>2, <2>3, RowsKeptFresh
<1>3. ASSUME NEW c \in Calls, Begin(c) PROVE Fresh'
  <2>1. \A d \in Calls \ {c} : call'[d] = call[d]
    BY <1>3 DEF Begin, TypeOK
  <2>2. call'[c].snap = Snapshot
    BY <1>3 DEF Begin, TypeOK
  <2>3. UNCHANGED db
    BY <1>3 DEF Begin
  <2> QED BY <2>1, <2>2, <2>3, RowsKeptFresh
<1>4. ASSUME NEW c \in Calls, Enter(c) PROVE Fresh'
  <2>1. UNCHANGED db /\ InFlight(c)
    BY <1>4 DEF Enter, InFlight
  <2>2. CASE Retry(c) \/ GiveUp(c) \/ Confirm(c)
    BY <2>1, <2>2, RetryShape, RowsKeptFresh
  <2>3. CASE call' = [call EXCEPT ![c].pc = "inside"]
    <3>1. call[c] \in OpenCall
      BY <2>1, CallFields
    <3>2. call'[c] = [call[c] EXCEPT !.pc = "inside"]
      BY <2>3 DEF TypeOK
    <3>3. call'[c].snap = call[c].snap
      BY <3>1, <3>2 DEF OpenCall
    <3>4. \A d \in Calls \ {c} : call'[d] = call[d]
      BY <2>3 DEF TypeOK
    <3> QED BY <2>1, <3>3, <3>4, RowsKeptFresh
  <2> QED BY <1>4, <2>2, <2>3 DEF Enter
<1>5. ASSUME NEW c \in Calls, Refuse(c) \/ FailsSerialization(c) \/ Abandon(c)
      PROVE  Fresh'
  <2>1. UNCHANGED db /\ (Retry(c) \/ GiveUp(c) \/ Confirm(c))
    BY <1>5 DEF Refuse, FailsSerialization, Abandon
  <2> QED BY <2>1, RetryShape, RowsKeptFresh
<1>6. ASSUME NEW c \in Calls, RecordPayment(c) \/ ReversePayment(c) \/ CancelInvoice(c)
      PROVE  Fresh'
  <2>1. \E s : Commit(c, s)
    BY <1>6 DEF RecordPayment, ReversePayment, CancelInvoice
  <2> QED BY <2>1, CommitFresh
<1>7. CASE UNCHANGED vars
  BY <1>7 DEF vars, db, Fresh, InFlight, Snapshot
<1> QED
  BY <1>1, <1>2, <1>3, <1>4, <1>5, <1>6, <1>7 DEF Next, CallStep

(* A command is booked on the rows it has read. *)
LEMMA BookedOnCurrentRows ==
  ASSUME TypeOK, Fresh, NEW c \in Calls, NEW kind, Ready(c, kind)
  PROVE  /\ call[c].snap.status = status
         /\ call[c].snap.amount = amount
         /\ call[c].snap.reversedBy = reversedBy
         /\ call[c].snap.mails = mails
         /\ call[c].snap.receipt = receipt
         /\ status # "cancelled"
<1>1. call[c].snap = Snapshot
  BY DEF Ready, Inside, InFlight, RowIsCurrent, Fresh
<1> QED BY <1>1 DEF Snapshot, Ready, Accepted

(***************************************************************************)
(* The stored status                                                       *)
(***************************************************************************)

LEMMA DeliveredMeansMail ==
  ASSUME TypeOK, Fresh, DerivedStatus, NEW c \in Calls, NEW kind, Ready(c, kind)
  PROVE  Delivered(call[c].snap) = (mails > 0)
<1>1. status = StatusOf(amount, reversedBy, mails > 0)
  BY BookedOnCurrentRows DEF DerivedStatus
<1>2. status = "sent" => mails > 0
  BY <1>1 DEF StatusOf
<1> QED BY <1>2, BookedOnCurrentRows DEF Delivered

LEMMA StepDerived ==
  ASSUME SettledInv, [Next]_vars
  PROVE  DerivedStatus'
<1> USE DEF SettledInv
<1>1. CASE MarkSent
  <2>1. status' = "cancelled" <=> status = "cancelled"
    BY <1>1 DEF MarkSent
  <2>2. mails' > 0
    BY <1>1 DEF MarkSent, TypeOK
  <2>3. status # "cancelled" => status' = StatusOf(amount, reversedBy, TRUE)
    BY <1>1, <2>2 DEF MarkSent, DerivedStatus, StatusOf
  <2>4. UNCHANGED <<amount, reversedBy, cancelledBy>>
    BY <1>1 DEF MarkSent
  <2>5. status' # "cancelled" => status' = StatusOf(amount', reversedBy', mails' > 0)
    BY <2>1, <2>2, <2>3, <2>4
  <2> QED BY <2>1, <2>4, <2>5 DEF DerivedStatus
<1>2. ASSUME NEW c \in Calls, RecordPayment(c) PROVE DerivedStatus'
  <2>1. Ready(c, "pay")
    BY <1>2 DEF RecordPayment
  <2>2. status' = StatusOf(amount', reversedBy', mails' > 0)
    BY <1>2, <2>1, BookedOnCurrentRows, DeliveredMeansMail DEF RecordPayment, Commit
  <2>3. status' # "cancelled" /\ cancelledBy' = NoCall
    BY <1>2, <2>1, <2>2, StatusTyped, BookedOnCurrentRows DEF RecordPayment, DerivedStatus
  <2> QED BY <2>2, <2>3 DEF DerivedStatus
<1>3. ASSUME NEW c \in Calls, ReversePayment(c) PROVE DerivedStatus'
  <2>1. Ready(c, "reverse")
    BY <1>3 DEF ReversePayment
  <2>2. status' = StatusOf(amount', reversedBy', mails' > 0)
    BY <1>3, <2>1, BookedOnCurrentRows, DeliveredMeansMail DEF ReversePayment, Commit
  <2>3. status' # "cancelled" /\ cancelledBy' = NoCall
    BY <1>3, <2>1, <2>2, StatusTyped, BookedOnCurrentRows DEF ReversePayment, DerivedStatus
  <2> QED BY <2>2, <2>3 DEF DerivedStatus
<1>4. ASSUME NEW c \in Calls, CancelInvoice(c) PROVE DerivedStatus'
  <2>1. status' = "cancelled" /\ cancelledBy' = c
    BY <1>4 DEF CancelInvoice, Commit
  <2> QED BY <2>1 DEF DerivedStatus
<1>5. CASE UNCHANGED db
  BY <1>5 DEF db, DerivedStatus
<1> QED
  BY <1>1, <1>2, <1>3, <1>4, <1>5
  DEF Next, CallStep, Submit, Begin, Enter, Refuse, FailsSerialization, Abandon, vars

(* Nothing is paid as long as there is no entry. *)
LEMMA NothingPaid ==
  ASSUME NEW a, NEW r, Active(a, r) = {}
  PROVE  Paid(a, r) = 0
<1> DEFINE first(S) == CHOOSE p \in S : TRUE
           body(g) == [S \in SUBSET {} |-> IF S = {} THEN 0
                                           ELSE a[first(S)] + g[S \ {first(S)}]]
           sum == CHOOSE g : g = body(g)
           zero == [S \in SUBSET {} |-> 0]
<1>1. Paid(a, r) = sum[{}]
  BY DEF Paid, MapThenSumSet, MapThenFoldSet
<1>2. zero = body(zero)
  <2>1. \A S \in SUBSET {} : S = {}
    OBVIOUS
  <2> QED BY <2>1
<1>3. sum = body(sum)
  <2> HIDE DEF body, zero
  <2> QED BY <1>2
<1>4. sum[{}] = 0
  <2>1. {} \in SUBSET {}
    OBVIOUS
  <2> HIDE DEF sum
  <2> QED BY <1>3, <2>1
<1> HIDE DEF sum
<1> QED BY <1>1, <1>4

LEMMA InitSettled == Init => SettledInv
<1> SUFFICES ASSUME Init PROVE SettledInv
  OBVIOUS
<1>1. Active(amount, reversedBy) = {}
  BY DEF Init, Active, EntriesOf
<1>2. Paid(amount, reversedBy) = 0
  BY <1>1, NothingPaid
<1>3. Fresh /\ DerivedStatus
  BY <1>2 DEF Init, Fresh, InFlight, NewCall, DerivedStatus, StatusOf
<1> QED BY <1>3, InitTyped DEF SettledInv

LEMMA StepSettled == SettledInv /\ [Next]_vars => SettledInv'
BY StepTyped, StepFresh, StepDerived DEF SettledInv

LEMMA AlwaysSettled == Spec => []SettledInv
BY InitSettled, StepSettled, PTL DEF Spec

(* In every interleaving of calls, retries and confirmed mails the stored  *)
(* status is the one the payment rows and the confirmed deliveries imply   *)
(* (_settle_status, mark_sent).                                            *)
THEOREM StatusIsDerived == Spec => []DerivedStatus
<1>1. SettledInv => DerivedStatus
  BY DEF SettledInv
<1> QED BY <1>1, AlwaysSettled, PTL

(* A command that names a version is only booked on that version of the    *)
(* payments (_require_version).                                            *)
THEOREM StaleFormsAreRefused == Spec => StaleFormRefused
<1>1. ASSUME SettledInv, [Next]_vars
      PROVE  [\A c \in Calls : RecordPayment(c) \/ ReversePayment(c) =>
                call[c].expected \in {NoVersion, SettlementVersion(amount, reversedBy)}]_vars
  <2>1. ASSUME NEW c \in Calls, RecordPayment(c) \/ ReversePayment(c)
        PROVE  call[c].expected \in {NoVersion, SettlementVersion(amount, reversedBy)}
    <3>1. PICK kind \in {"pay", "reverse"} : Ready(c, kind)
      BY <2>1 DEF RecordPayment, ReversePayment
    <3>2. VersionMatches(c)
      BY <3>1 DEF Ready, Accepted
    <3> QED BY <1>1, <3>1, <3>2, BookedOnCurrentRows DEF VersionMatches, SettledInv
  <2> QED BY <2>1
<1> QED BY <1>1, AlwaysSettled, PTL DEF Spec, StaleFormRefused

(***************************************************************************)
(* Bookings and receipts                                                   *)
(***************************************************************************)

LEMMA EffectsUnchanged ==
  ASSUME NEW k, UNCHANGED db
  PROVE  Effects(k)' = Effects(k)
BY DEF db, Effects

(* While no row changes, a call may move on as long as it does not become  *)
(* booked without a receipt or get behind the lock having seen one.        *)
LEMMA QuietStep ==
  ASSUME BookInv, UNCHANGED db, NEW c \in Calls,
         call[c].pc # "booked",
         \A d \in Calls \ {c} : call'[d] = call[d],
         Inside(c)' => call'[c].snap.receipt[KeyOf[c]] = NoReceipt,
         call'[c].pc = "booked" => receipt[KeyOf[c]] = call'[c].content,
         InFlight(c)' => \/ InFlight(c) /\ call'[c].snap = call[c].snap
                         \/ call'[c].snap = Snapshot,
         call'[c].pc \in {"ready", "waiting", "inside"}
           /\ call'[c].content.kind = "reverse" => amount[call'[c].content.entry] > 0
  PROVE  /\ InsideSawNone' /\ BookedHasReceipt' /\ ReceiptHasBooking'
         /\ ReceiptsStay' /\ UniqueEffects' /\ EntriesStay'
<1> USE DEF BookInv
<1>0. receipt' = receipt /\ amount' = amount
  BY DEF db
<1>1. InsideSawNone'
  BY DEF InsideSawNone, Inside
<1>2. c \notin Effects(KeyOf[c])
  BY DEF BookedHasReceipt
<1>3. BookedHasReceipt'
  <2> SUFFICES ASSUME NEW d \in Calls
               PROVE  /\ call'[d].pc = "booked" => receipt'[KeyOf[d]] = call'[d].content
                      /\ d \in Effects(KeyOf[d])' => call'[d].pc = "booked"
    BY DEF BookedHasReceipt
  <2>1. Effects(KeyOf[d])' = Effects(KeyOf[d])
    BY EffectsUnchanged
  <2> QED BY <1>0, <1>2, <2>1 DEF BookedHasReceipt
<1>4. ReceiptHasBooking'
  <2> SUFFICES ASSUME NEW k \in Keys, receipt'[k] # NoReceipt
               PROVE  \E d \in Effects(k)' : call'[d].content = receipt'[k]
    BY DEF ReceiptHasBooking
  <2>1. PICK d \in Effects(k) : call[d].content = receipt[k]
    BY <1>0 DEF ReceiptHasBooking
  <2>2. d \in Calls /\ KeyOf[d] = k
    BY DEF Effects
  <2>3. d # c
    BY <1>2, <2>2
  <2> QED BY <1>0, <2>1, <2>2, <2>3, EffectsUnchanged
<1>5. ReceiptsStay'
  <2> SUFFICES ASSUME NEW d \in Calls, NEW k \in Keys, InFlight(d)',
                      call'[d].snap.receipt[k] # NoReceipt
               PROVE  receipt'[k] = call'[d].snap.receipt[k]
    BY DEF ReceiptsStay
  <2>1. CASE d # c
    BY <1>0, <2>1 DEF ReceiptsStay, InFlight
  <2>2. CASE d = c /\ call'[c].snap = Snapshot
    BY <1>0, <2>2 DEF Snapshot
  <2>3. CASE d = c /\ InFlight(c) /\ call'[c].snap = call[c].snap
    BY <1>0, <2>3 DEF ReceiptsStay
  <2> QED BY <2>1, <2>2, <2>3
<1>6. UniqueEffects'
  BY EffectsUnchanged DEF UniqueEffects
<1>7. EntriesStay'
  BY <1>0 DEF EntriesStay
<1> QED BY <1>1, <1>3, <1>4, <1>5, <1>6, <1>7

(* A booking is the first under its key, and adds the call to its effects. *)
LEMMA FirstUnderKey ==
  ASSUME BookInv, NEW c \in Calls, NEW kind, Ready(c, kind)
  PROVE  receipt[KeyOf[c]] = NoReceipt /\ Effects(KeyOf[c]) = {}
<1>1. receipt[KeyOf[c]] = NoReceipt
  BY BookedOnCurrentRows DEF BookInv, SettledInv, InsideSawNone, Ready
<1>2. ASSUME NEW d \in Effects(KeyOf[c]) PROVE FALSE
  <2>1. d \in Calls /\ KeyOf[d] = KeyOf[c]
    BY DEF Effects
  <2>2. call[d].pc = "booked" /\ receipt[KeyOf[d]] = call[d].content
    BY <2>1 DEF BookInv, BookedHasReceipt
  <2>3. call[d].content # NoReceipt
    BY <2>1, <2>2, CallFields, ContentFields DEF BookInv, SettledInv, BookedCall
  <2> QED BY <1>1, <2>1, <2>2, <2>3
<1> QED BY <1>1, <1>2

LEMMA EffectsAfter ==
  ASSUME BookInv, NEW c \in Calls, NEW k,
         RecordPayment(c) \/ ReversePayment(c) \/ CancelInvoice(c)
  PROVE  Effects(k)' = IF k = KeyOf[c] THEN {c} ELSE Effects(k)
<1> USE DEF BookInv, SettledInv
<1>0. PICK kind : Ready(c, kind)
  BY DEF RecordPayment, ReversePayment, CancelInvoice
<1>1. Effects(KeyOf[c]) = {}
  BY <1>0, FirstUnderKey
<1>2. Effects(k)' = IF k = KeyOf[c] THEN Effects(k) \cup {c} ELSE Effects(k)
  <2>1. CASE RecordPayment(c)
    <3>1. call[c].content.amount \in Amounts
      BY <2>1, CallFields, ContentFields
      DEF RecordPayment, Ready, Inside, InFlight, OpenCall
    <3>2. amount' = [amount EXCEPT ![c] = call[c].content.amount]
          /\ UNCHANGED <<reversedBy, cancelledBy>>
      BY <2>1 DEF RecordPayment
    <3>3. amount'[c] > 0 /\ \A d \in Calls \ {c} : amount'[d] = amount[d]
      <4>1. call[c].content.amount \in Nat /\ call[c].content.amount # 0
        BY <3>1
      <4>2. call[c].content.amount > 0
        BY <4>1
      <4>3. amount'[c] = call[c].content.amount
        BY <3>2 DEF TypeOK
      <4> QED BY <3>2, <4>2, <4>3 DEF TypeOK
    <3> QED BY <3>2, <3>3 DEF Effects
  <2>2. CASE ReversePayment(c)
    <3>1. PICK e : e = call[c].content.entry
      OBVIOUS
    <3>2. e \in Calls
      BY <2>2, <3>1, CallFields, ContentFields
      DEF ReversePayment, Ready, Inside, InFlight, OpenCall
    <3>3. reversedBy' = [reversedBy EXCEPT ![e] = c] /\ UNCHANGED <<amount, cancelledBy>>
      BY <2>2, <3>1 DEF ReversePayment
    <3>4. reversedBy[e] = NoCall
      BY <2>2, <3>1, BookedOnCurrentRows DEF ReversePayment, Ready, Accepted
    <3> QED BY <3>2, <3>3, <3>4 DEF Effects, TypeOK
  <2>3. CASE CancelInvoice(c)
    <3>1. cancelledBy = NoCall
      BY <1>0, BookedOnCurrentRows DEF DerivedStatus
    <3>2. cancelledBy' = c /\ UNCHANGED <<amount, reversedBy>>
      BY <2>3 DEF CancelInvoice
    <3> QED BY <3>1, <3>2 DEF Effects
  <2> QED BY <2>1, <2>2, <2>3
<1> QED BY <1>1, <1>2

LEMMA BookingStep ==
  ASSUME BookInv, NEW c \in Calls,
         RecordPayment(c) \/ ReversePayment(c) \/ CancelInvoice(c)
  PROVE  /\ InsideSawNone' /\ BookedHasReceipt' /\ ReceiptHasBooking'
         /\ ReceiptsStay' /\ UniqueEffects' /\ EntriesStay'
<1> USE DEF BookInv, SettledInv
<1>0. PICK kind : Ready(c, kind)
  BY DEF RecordPayment, ReversePayment, CancelInvoice
<1>1. PICK k \in Keys : k = KeyOf[c]
  OBVIOUS
<1>2. receipt[k] = NoReceipt /\ Effects(k) = {}
  BY <1>0, <1>1, FirstUnderKey
<1>3. /\ receipt' = [receipt EXCEPT ![k] = call[c].content]
      /\ call' = [call EXCEPT ![c] = [pc |-> "booked", content |-> call[c].content]]
  BY <1>1 DEF RecordPayment, ReversePayment, CancelInvoice, Commit, Confirm
<1>4. \A d \in Calls \ {c} : call'[d] = call[d]
  BY <1>3 DEF TypeOK
<1>5. call'[c].pc = "booked" /\ call'[c].content = call[c].content
  BY <1>3 DEF TypeOK
<1>6. receipt'[k] = call[c].content /\ \A l \in Keys \ {k} : receipt'[l] = receipt[l]
  BY <1>3 DEF TypeOK
<1>7. InsideSawNone'
  BY <1>4, <1>5 DEF InsideSawNone, Inside
<1>8. BookedHasReceipt'
  <2> SUFFICES ASSUME NEW d \in Calls
               PROVE  /\ call'[d].pc = "booked" => receipt'[KeyOf[d]] = call'[d].content
                      /\ d \in Effects(KeyOf[d])' => call'[d].pc = "booked"
    BY DEF BookedHasReceipt
  <2>1. CASE d = c
    BY <1>1, <1>5, <1>6, <2>1
  <2>2. CASE d # c
    <3>1. Effects(KeyOf[d])' = IF KeyOf[d] = KeyOf[c] THEN {c} ELSE Effects(KeyOf[d])
      BY EffectsAfter
    <3>2. call[d].pc = "booked" => KeyOf[d] # k
      <4> SUFFICES ASSUME call[d].pc = "booked", KeyOf[d] = k PROVE FALSE
        OBVIOUS
      <4>1. call[d].content = NoReceipt
        BY <1>2 DEF BookedHasReceipt
      <4>2. call[d].content \in Contents
        BY CallFields DEF BookedCall
      <4> QED BY <4>1, <4>2, ContentFields
    <3> QED BY <1>1, <1>4, <1>6, <2>2, <3>1, <3>2 DEF BookedHasReceipt
  <2> QED BY <2>1, <2>2
<1>9. ReceiptHasBooking'
  <2> SUFFICES ASSUME NEW l \in Keys, receipt'[l] # NoReceipt
               PROVE  \E d \in Effects(l)' : call'[d].content = receipt'[l]
    BY DEF ReceiptHasBooking
  <2>1. Effects(l)' = IF l = KeyOf[c] THEN {c} ELSE Effects(l)
    BY EffectsAfter
  <2>2. CASE l = k
    BY <1>1, <1>5, <1>6, <2>1, <2>2
  <2>3. CASE l # k
    <3>1. PICK d \in Effects(l) : call[d].content = receipt[l]
      BY <1>6, <2>3 DEF ReceiptHasBooking
    <3>2. d \in Calls /\ d # c
      BY <1>1, <2>3 DEF Effects
    <3> QED BY <1>1, <1>4, <1>6, <2>1, <2>3, <3>1, <3>2
  <2> QED BY <2>2, <2>3
<1>10. ReceiptsStay'
  BY <1>2, <1>4, <1>5, <1>6 DEF ReceiptsStay, InFlight
<1>11. UniqueEffects'
  <2> SUFFICES ASSUME NEW l \in Keys PROVE \A d, e \in Effects(l)' : d = e
    BY DEF UniqueEffects
  <2>1. Effects(l)' = IF l = KeyOf[c] THEN {c} ELSE Effects(l)
    BY EffectsAfter
  <2> QED BY <2>1 DEF UniqueEffects
<1>12. EntriesStay'
  <2>1. \A p \in Calls : amount[p] > 0 => amount'[p] > 0
    <3>1. CASE RecordPayment(c)
      <4>1. call[c].content.amount \in Amounts
        BY <3>1, CallFields, ContentFields
        DEF RecordPayment, Ready, Inside, InFlight, OpenCall
      <4>2. call[c].content.amount > 0
        <5>1. call[c].content.amount \in Nat /\ call[c].content.amount # 0
          BY <4>1
        <5> QED BY <5>1
      <4>3. amount' = [amount EXCEPT ![c] = call[c].content.amount]
        BY <3>1 DEF RecordPayment
      <4> QED BY <4>2, <4>3 DEF TypeOK
    <3>2. CASE ~RecordPayment(c)
      BY <3>2 DEF ReversePayment, CancelInvoice
    <3> QED BY <3>1, <3>2
  <2> SUFFICES ASSUME NEW d \in Calls, call'[d].pc \in {"ready", "waiting", "inside"},
                      call'[d].content.kind = "reverse"
               PROVE  amount'[call'[d].content.entry] > 0
    BY DEF EntriesStay
  <2>2. d # c /\ call'[d] = call[d]
    BY <1>4, <1>5
  <2>3. call[d] \in ReadyCall \cup OpenCall
    BY <2>2, CallFields DEF InFlight
  <2>4. call[d].content.entry \in Calls
    BY <2>2, <2>3, ContentFields DEF ReadyCall, OpenCall
  <2> QED BY <2>1, <2>2, <2>4 DEF EntriesStay
<1> QED BY <1>7, <1>8, <1>9, <1>10, <1>11, <1>12

LEMMA StepBooks ==
  ASSUME BookInv, [Next]_vars
  PROVE  BookInv'
<1> USE DEF BookInv, SettledInv
<1>0. SettledInv'
  BY StepSettled
<1> DEFINE Books == /\ InsideSawNone /\ BookedHasReceipt /\ ReceiptHasBooking
                    /\ ReceiptsStay /\ UniqueEffects /\ EntriesStay
<1> SUFFICES Books'
  BY <1>0
<1>1. CASE MarkSent
  BY <1>1 DEF MarkSent, InsideSawNone, Inside, BookedHasReceipt, ReceiptHasBooking,
              ReceiptsStay, InFlight, UniqueEffects, EntriesStay, Effects
<1>2. ASSUME NEW c \in Calls, Submit(c) PROVE Books'
  <2>1. PICK x \in CommandsOf[c], versioned \in BOOLEAN :
          /\ x.kind = "reverse" => x.entry \in EntriesOf(amount)
          /\ call' = [call EXCEPT ![c] =
               [pc |-> "ready", content |-> x, attempt |-> 0,
                expected |-> IF versioned THEN SettlementVersion(amount, reversedBy)
                             ELSE NoVersion]]
    BY <1>2 DEF Submit
  <2>2. call'[c].pc = "ready" /\ call'[c].content = x
    BY <2>1 DEF TypeOK
  <2>3. x.kind = "reverse" => amount[x.entry] > 0
    BY <2>1 DEF EntriesOf
  <2>4. \A d \in Calls \ {c} : call'[d] = call[d]
    BY <2>1 DEF TypeOK
  <2>5. UNCHANGED db /\ call[c].pc # "booked"
    BY <1>2 DEF Submit
  <2> QED BY <2>2, <2>3, <2>4, <2>5, QuietStep DEF Inside, InFlight
<1>3. ASSUME NEW c \in Calls, Begin(c) PROVE Books'
  <2>1. /\ call'[c].pc = "waiting"
        /\ call'[c].content = call[c].content
        /\ call'[c].snap = Snapshot
    BY <1>3 DEF Begin, TypeOK
  <2>2. \A d \in Calls \ {c} : call'[d] = call[d]
    BY <1>3 DEF Begin, TypeOK
  <2>3. UNCHANGED db /\ call[c].pc = "ready"
    BY <1>3 DEF Begin
  <2>4. call[c].content.kind = "reverse" => amount[call[c].content.entry] > 0
    BY <2>3 DEF EntriesStay
  <2> QED BY <2>1, <2>2, <2>3, <2>4, QuietStep DEF Inside, InFlight
<1>4. ASSUME NEW c \in Calls, UNCHANGED db, InFlight(c), Retry(c) \/ GiveUp(c)
      PROVE  Books'
  <2>1. \A d \in Calls \ {c} : call'[d] = call[d]
    BY <1>4 DEF Retry, GiveUp, TypeOK
  <2>2. call'[c].pc \in {"ready", "failed"}
    BY <1>4 DEF Retry, GiveUp, TypeOK
  <2>3. call'[c].pc = "ready" => call'[c].content = call[c].content
    BY <1>4 DEF Retry, GiveUp, TypeOK
  <2>4. call[c].content.kind = "reverse" => amount[call[c].content.entry] > 0
    BY <1>4 DEF EntriesStay, InFlight
  <2>5. call[c].pc # "booked"
    BY <1>4 DEF InFlight
  <2> QED BY <1>4, <2>1, <2>2, <2>3, <2>4, <2>5, QuietStep DEF Inside, InFlight
<1>5. ASSUME NEW c \in Calls, Enter(c) PROVE Books'
  <2>1. UNCHANGED db /\ InFlight(c) /\ call[c].pc = "waiting"
    BY <1>5 DEF Enter, InFlight
  <2>2. CASE Retry(c) \/ GiveUp(c)
    BY <1>4, <2>1, <2>2
  <2>3. CASE /\ call[c].snap.receipt[KeyOf[c]] # NoReceipt
             /\ call[c].snap.receipt[KeyOf[c]] = call[c].content
             /\ Confirm(c)
    <3>1. call'[c].pc = "booked" /\ call'[c].content = call[c].content
      BY <2>3 DEF Confirm, TypeOK
    <3>2. receipt[KeyOf[c]] = call[c].content
      BY <2>1, <2>3 DEF ReceiptsStay
    <3>3. \A d \in Calls \ {c} : call'[d] = call[d]
      BY <2>3 DEF Confirm, TypeOK
    <3> QED BY <2>1, <3>1, <3>2, <3>3, QuietStep DEF Inside, InFlight
  <2>4. CASE /\ call[c].snap.receipt[KeyOf[c]] = NoReceipt
             /\ call' = [call EXCEPT ![c].pc = "inside"]
    <3>1. call[c] \in OpenCall
      BY <2>1, CallFields
    <3>2. call'[c] = [call[c] EXCEPT !.pc = "inside"]
      BY <2>4 DEF TypeOK
    <3>3. /\ call'[c].snap = call[c].snap
          /\ call'[c].content = call[c].content
          /\ call'[c].pc = "inside"
      BY <3>1, <3>2 DEF OpenCall
    <3>4. \A d \in Calls \ {c} : call'[d] = call[d]
      BY <2>4 DEF TypeOK
    <3>5. call[c].content.kind = "reverse" => amount[call[c].content.entry] > 0
      BY <2>1 DEF EntriesStay
    <3> QED BY <2>1, <2>4, <3>3, <3>4, <3>5, QuietStep DEF Inside, InFlight
  <2> QED BY <1>5, <2>2, <2>3, <2>4 DEF Enter
<1>6. ASSUME NEW c \in Calls, Refuse(c) \/ FailsSerialization(c) \/ Abandon(c)
      PROVE  Books'
  BY <1>4, <1>6 DEF Refuse, FailsSerialization, Abandon, Inside, InFlight
<1>7. ASSUME NEW c \in Calls, RecordPayment(c) \/ ReversePayment(c) \/ CancelInvoice(c)
      PROVE  Books'
  BY <1>7, BookingStep
<1>8. CASE UNCHANGED vars
  BY <1>8 DEF vars, db, InsideSawNone, Inside, BookedHasReceipt, ReceiptHasBooking,
              ReceiptsStay, InFlight, UniqueEffects, EntriesStay, Effects
<1> HIDE DEF Books
<1> QED
  BY <1>1, <1>2, <1>3, <1>5, <1>6, <1>7, <1>8 DEF Next, CallStep

LEMMA InitBooks == Init => BookInv
<1> SUFFICES ASSUME Init PROVE BookInv
  OBVIOUS
<1>1. SettledInv
  BY InitSettled
<1>2. \A k : Effects(k) = {}
  BY DEF Init, Effects
<1> QED
  BY <1>1, <1>2 DEF Init, NewCall, BookInv, InsideSawNone, Inside, BookedHasReceipt,
     ReceiptHasBooking, ReceiptsStay, InFlight, UniqueEffects, EntriesStay

LEMMA AlwaysBooks == Spec => []BookInv
BY InitBooks, StepBooks, PTL DEF Spec

(* However often a command is sent, retried, lost or raced, its key books  *)
(* it at most once, and a confirmed call finds exactly its command booked  *)
(* (_existing_command, _complete_command).                                 *)
THEOREM BookedExactlyOnce == Spec => []ExactlyOnce
<1>1. BookInv => ExactlyOnce
  <2> SUFFICES ASSUME BookInv, NEW k \in Keys
               PROVE  /\ \A c, d \in Effects(k) : c = d
                      /\ \A c \in Calls : KeyOf[c] = k /\ call[c].pc = "booked" =>
                           \E d \in Effects(k) : call[d].content = call[c].content
    BY DEF ExactlyOnce
  <2>1. \A c, d \in Effects(k) : c = d
    BY DEF BookInv, UniqueEffects
  <2>2. ASSUME NEW c \in Calls, KeyOf[c] = k, call[c].pc = "booked"
        PROVE  \E d \in Effects(k) : call[d].content = call[c].content
    <3>1. receipt[k] = call[c].content
      BY <2>2 DEF BookInv, BookedHasReceipt
    <3>2. receipt[k] # NoReceipt
      BY <2>2, <3>1, CallFields, ContentFields DEF BookInv, SettledInv, BookedCall
    <3> QED BY <3>1, <3>2 DEF BookInv, ReceiptHasBooking
  <2> QED BY <2>1, <2>2
<1> QED BY <1>1, AlwaysBooks, PTL

(***************************************************************************)
(* Implementation of InvoiceAccount                                        *)
(***************************************************************************)

Reversed(r) == {p \in Calls : r[p] # NoCall}

LEMMA SamePaid ==
  ASSUME NEW a, NEW r
  PROVE  Account!Paid(a, Reversed(r)) = Paid(a, r)
<1> DEFINE first(S) == CHOOSE p \in S : TRUE
           sum(T) == CHOOSE g : g = [S \in SUBSET T |->
                       IF S = {} THEN 0 ELSE a[first(S)] + g[S \ {first(S)}]]
<1>1. Paid(a, r) = sum(Active(a, r))[Active(a, r)]
  BY DEF Paid, MapThenSumSet, MapThenFoldSet
<1>2. Account!Paid(a, Reversed(r)) =
        sum({p \in Calls : a[p] > 0} \ Reversed(r))[{p \in Calls : a[p] > 0} \ Reversed(r)]
  BY DEF Account!Paid, Account!MapThenSumSet, Account!MapThenFoldSet
<1>3. {p \in Calls : a[p] > 0} \ Reversed(r) = Active(a, r)
  BY DEF Reversed, Active, EntriesOf
<1> HIDE DEF sum
<1> QED BY <1>1, <1>2, <1>3

LEMMA SameStatus ==
  ASSUME NEW a, NEW r, NEW d
  PROVE  Account!SettledStatus(a, Reversed(r), d) = StatusOf(a, r, d)
BY SamePaid DEF Account!SettledStatus, StatusOf

LEMMA StepImplements ==
  ASSUME BookInv, [Next]_vars
  PROVE  [Account!Next]_(Account!vars)
<1> USE DEF BookInv, SettledInv
<1> DEFINE reversed == Reversed(reversedBy)
           delivered == mails > 0
<1>1. CASE MarkSent
  <2>1. delivered' = TRUE
    BY <1>1 DEF MarkSent, TypeOK
  <2>2. Account!ConfirmDelivery
    BY <1>1, <2>1 DEF MarkSent, Account!ConfirmDelivery
  <2> QED BY <2>2 DEF Account!Next
<1>2. ASSUME NEW c \in Calls, RecordPayment(c) PROVE Account!Next
  <2>1. PICK x : x = call[c].content.amount
    OBVIOUS
  <2>2. Ready(c, "pay") /\ InFlight(c)
    BY <1>2 DEF RecordPayment, Ready, Inside, InFlight
  <2>3. x \in Amounts
    BY <2>1, <2>2, CallFields, ContentFields DEF Ready, OpenCall
  <2>4. amount[c] = 0
    <3>1. ~(amount[c] > 0)
      BY <2>2 DEF BookedHasReceipt, Effects, InFlight
    <3>2. amount[c] \in Nat
      BY AmountTyped
    <3> QED BY <3>1, <3>2
  <2>5. status' = Account!SettledStatus(amount', reversed, delivered)
    <3>1. status' = StatusOf(amount', reversedBy, delivered)
      BY <1>2, <2>2, BookedOnCurrentRows, DeliveredMeansMail DEF RecordPayment, Commit
    <3> QED BY <3>1, SameStatus
  <2>6. amount' = [amount EXCEPT ![c] = x] /\ UNCHANGED <<reversedBy, mails>>
    BY <1>2, <2>1 DEF RecordPayment
  <2>7. status # "cancelled"
    BY <2>2, BookedOnCurrentRows
  <2>8. Account!RecordPayment(c, x)
    BY <2>4, <2>5, <2>6, <2>7 DEF Account!RecordPayment, Account!Open, Reversed
  <2> QED BY <2>3, <2>8 DEF Account!Next
<1>3. ASSUME NEW c \in Calls, ReversePayment(c) PROVE Account!Next
  <2>1. PICK e : e = call[c].content.entry
    OBVIOUS
  <2>2. Ready(c, "reverse") /\ InFlight(c)
    BY <1>3 DEF ReversePayment, Ready, Inside, InFlight
  <2>3. e \in Calls
    BY <2>1, <2>2, CallFields, ContentFields DEF Ready, OpenCall
  <2>4. amount[e] > 0
    BY <2>1, <2>2 DEF EntriesStay, Ready, Inside
  <2>5. reversedBy[e] = NoCall /\ status # "cancelled"
    BY <2>1, <2>2, BookedOnCurrentRows DEF Ready, Accepted
  <2>6. reversedBy' = [reversedBy EXCEPT ![e] = c] /\ UNCHANGED <<amount, mails>>
    BY <1>3, <2>1 DEF ReversePayment
  <2>7. reversed' = reversed \cup {e}
    BY <2>3, <2>6 DEF Reversed, TypeOK
  <2>8. status' = Account!SettledStatus(amount, reversed', delivered)
    <3>1. status' = StatusOf(amount, reversedBy', delivered)
      BY <1>3, <2>2, BookedOnCurrentRows, DeliveredMeansMail DEF ReversePayment, Commit
    <3> QED BY <3>1, SameStatus DEF Reversed
  <2>9. Account!ReversePayment(e)
    BY <2>4, <2>5, <2>6, <2>7, <2>8 DEF Account!ReversePayment, Account!Open, Reversed
  <2> QED BY <2>3, <2>9 DEF Account!Next
<1>4. ASSUME NEW c \in Calls, CancelInvoice(c) PROVE Account!Next
  <2>1. status # "cancelled"
    BY <1>4, BookedOnCurrentRows DEF CancelInvoice
  <2>2. Account!Cancel
    BY <1>4, <2>1 DEF CancelInvoice, Commit, Account!Cancel, Account!Open
  <2> QED BY <2>2 DEF Account!Next
<1>5. CASE UNCHANGED db
  BY <1>5 DEF db, Account!vars
<1> QED
  BY <1>1, <1>2, <1>3, <1>4, <1>5
  DEF Next, CallStep, Submit, Begin, Enter, Refuse, FailsSerialization, Abandon, vars

(* The concurrent, retried and repeated calls implement the atomic books   *)
(* of module InvoiceAccount: no entry is lost or booked on a stale         *)
(* balance, and nothing happens to a cancelled invoice.                    *)
THEOREM SettlementImplementsAccount == Spec => AccountSpec
<1>1. Init => Account!Init
  BY DEF Init, Account!Init
<1> QED BY <1>1, StepImplements, AlwaysBooks, PTL DEF Spec, AccountSpec, Account!Spec
=============================================================================
