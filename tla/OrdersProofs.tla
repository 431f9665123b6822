--------------------------- MODULE OrdersProofs ---------------------------
(***************************************************************************)
(* For any number of orders, windows and calls: Orders is type correct,    *)
(* order and invoice agree, the numbers are gapless, a cancelled order is  *)
(* not delivered, a cancellation repeats at most once for its locks, and   *)
(* bookings and invoices obey what is in force when they are made.         *)
(***************************************************************************)
EXTENDS Orders, TLAPS

USE OrdersAssumption, NoInvoiceAssumption

-----------------------------------------------------------------------------
(* The program counter tells what a call holds.                            *)
LEMMA CallShapes ==
  ASSUME OrdersTypeOK, NEW c \in Calls
  PROVE  /\ call[c].pc = "waiting" => call[c] \in Waiting
         /\ call[c].pc = "running" => call[c] \in InTransaction
         /\ call[c].pc = "targets" => call[c] \in WithTargets
         /\ call[c].pc = "ticking" => call[c] \in Ticking
         /\ call[c].pc \notin {"new", "done"} =>
              call[c].req \in Requests /\ call[c].req.order \in Orders /\ call[c].redo \in 0..2
<1>1. call[c] \in CallStates
  BY DEF OrdersTypeOK
<1>2. CASE call[c] \in Idle
  BY <1>2 DEF Idle
<1>3. CASE call[c] \in Waiting
  BY <1>3 DEF Waiting, Requests
<1>4. CASE call[c] \in InTransaction
  BY <1>4 DEF InTransaction, Requests
<1>5. CASE call[c] \in WithTargets
  BY <1>5 DEF WithTargets, Requests
<1>6. CASE call[c] \in Ticking
  BY <1>6 DEF Ticking, Requests
<1> QED BY <1>1, <1>2, <1>3, <1>4, <1>5, <1>6 DEF CallStates

(* What a transaction holds: its request and its snapshot.                 *)
LEMMA RunningTyped ==
  ASSUME OrdersTypeOK, NEW c \in Calls, call[c].pc = "running"
  PROVE  /\ call[c].req \in Requests
         /\ call[c].req.order \in Orders
         /\ call[c].redo \in 0..2
         /\ call[c].snap \in Snapshots
  BY CallShapes DEF InTransaction

LEMMA BlankTyped == Captured \in Details /\ Blank \in OrderRows
<1>1. Captured \in Details
  BY DEF Captured
<1> QED BY <1>1 DEF Blank, OrderRows, Slots

LEMMA RowsTyped ==
  ASSUME OrdersTypeOK, NEW o \in Orders
  PROVE  Rows(o) \in Snapshots
  BY DEF OrdersTypeOK, Rows, Snapshots

LEMMA DoneTyped ==
  ASSUME OrdersTypeOK, NEW c \in Calls, Done(c)
  PROVE  /\ call' \in [Calls -> CallStates]
         /\ call'[c] = [pc |-> "done"]
         /\ \A b \in Calls \ {c} : call'[b] = call[b]
  BY DEF Done, OrdersTypeOK, CallStates, Idle

LEMMA SubmitTyped ==
  ASSUME OrdersTypeOK, NEW c \in Calls, NEW req \in Requests, Submit(c, req)
  PROVE  OrdersTypeOK'
<1>1. [pc |-> "waiting", req |-> req, redo |-> 0] \in CallStates
  BY DEF CallStates, Waiting
<1> QED BY <1>1 DEF Submit, OrdersTypeOK, schedule, books

(* The steps that write orders, deliveries, invoices or the number.        *)
LEMMA Writers ==
  ASSUME [Next]_vars
  PROVE  \/ UNCHANGED books
         \/ \E c \in Calls : \/ Create(c) \/ CompleteDraft(c) \/ CompleteDelivery(c)
                             \/ Issue(c) \/ CancelOrder(c) \/ SetState(c)
         \/ \E o \in Orders : \/ \E w \in Slots : PublicOrder(o, w)
                              \/ RecordPayment(o) \/ ReversePayments(o) \/ CancelInvoice(o)
<1>1. ASSUME NEW c \in Calls, NEW o \in Orders, NEW w \in Slots, NEW override \in BOOLEAN,
             Fill(c, o, w, override)
      PROVE  UNCHANGED books
  BY <1>1 DEF Fill, Submit
<1>2. ASSUME NEW c \in Calls, NEW o \in Orders, Press(c, o)
      PROVE  UNCHANGED books
  BY <1>2 DEF Press, Submit
<1>3. ASSUME NEW c \in Calls,
             \/ Begin(c) \/ Restart(c) \/ Withdraw(c)
             \/ ReadLockTargets(c) \/ LockTargetsChanged(c) \/ LockWindow(c)
      PROVE  UNCHANGED books
  BY <1>3 DEF Begin, Restart, Withdraw, ReadLockTargets, LockTargetsChanged, LockWindow
<1>4. ASSUME NEW w \in Windows, StartWindow(w) \/ \E on \in BOOLEAN : SetFullyBooked(w, on)
      PROVE  UNCHANGED books
  BY <1>4 DEF StartWindow, SetFullyBooked
<1>5. ASSUME \/ \E ws \in SUBSET Windows, on \in BOOLEAN : SaveSchedule(ws, on)
             \/ \E on \in BOOLEAN : ReplaceCapabilities(on)
             \/ ActivateLaw \/ AdvanceAction \/ UNCHANGED vars
      PROVE  UNCHANGED books
  BY <1>5 DEF SaveSchedule, ReplaceCapabilities, ActivateLaw, AdvanceAction, vars
<1> QED BY <1>1, <1>2, <1>3, <1>4, <1>5 DEF Next

LEMMA InitTyped == Init => OrdersTypeOK
<1> SUFFICES ASSUME Init PROVE OrdersTypeOK
  OBVIOUS
<1>1. order \in [Orders -> OrderRows]
  BY BlankTyped DEF Init, OrderRows, Slots
<1>2. call \in [Calls -> CallStates]
  BY DEF Init, CallStates, Idle
<1> QED BY <1>1, <1>2 DEF Init, OrdersTypeOK, Phases, Laws

LEMMA StepTyped ==
  ASSUME OrdersTypeOK, [Next]_vars
  PROVE  OrdersTypeOK'
<1> USE DEF schedule, books
<1>1. ASSUME NEW c \in Calls, NEW o \in Orders, NEW w \in Slots, NEW override \in BOOLEAN,
             Fill(c, o, w, override)
      PROVE  OrdersTypeOK'
  <2> DEFINE Form(kind, seen, details, draft) ==
               [kind |-> kind, order |-> o, seen |-> seen, target |-> w,
                details |-> details, override |-> override, draft |-> draft]
  <2>1. \A kind \in Kinds, seen \in OrderRows, details \in Details, draft \in BOOLEAN :
          Form(kind, seen, details, draft) \in Requests
    BY DEF Requests
  <2>2. order[o] \in OrderRows
    BY DEF OrdersTypeOK
  <2>3. \E req \in Requests : Submit(c, req)
    <3>1. CASE \E draft \in BOOLEAN : Submit(c, Form("create", Blank, Captured, draft))
      BY <2>1, <3>1, BlankTyped DEF Kinds
    <3>2. CASE Submit(c, Form("complete_draft", Blank, Captured, FALSE))
      BY <2>1, <3>2, BlankTyped DEF Kinds
    <3>3. CASE \E details \in Details :
                 Submit(c, Form("complete_delivery", order[o], details, FALSE))
      BY <2>1, <2>2, <3>3 DEF Kinds
    <3> QED BY <1>1, <3>1, <3>2, <3>3 DEF Fill
  <2> QED BY <2>3, SubmitTyped
<1>2. ASSUME NEW c \in Calls, NEW o \in Orders, Press(c, o)
      PROVE  OrdersTypeOK'
  <2>1. PICK kind \in {"issue", "cancel", "tick"} :
          Submit(c, [kind |-> kind, order |-> o,
                     seen |-> IF kind = "cancel" THEN order[o] ELSE Blank,
                     target |-> NoWindow, details |-> Captured,
                     override |-> FALSE, draft |-> FALSE])
    BY <1>2 DEF Press
  <2>2. (IF kind = "cancel" THEN order[o] ELSE Blank) \in OrderRows
    BY BlankTyped DEF OrdersTypeOK
  <2>3. [kind |-> kind, order |-> o,
         seen |-> IF kind = "cancel" THEN order[o] ELSE Blank,
         target |-> NoWindow, details |-> Captured,
         override |-> FALSE, draft |-> FALSE] \in Requests
    BY <2>2, BlankTyped DEF Requests, Kinds, Slots
  <2> QED BY <2>1, <2>3, SubmitTyped
<1>3. ASSUME NEW c \in Calls, Begin(c) PROVE OrdersTypeOK'
  <2>1. [pc |-> "running", req |-> call[c].req, redo |-> call[c].redo,
         snap |-> Rows(call[c].req.order)] \in CallStates
    BY <1>3, CallShapes, RowsTyped DEF Begin, CallStates, InTransaction
  <2> QED BY <1>3, <2>1 DEF Begin, OrdersTypeOK
<1>4. ASSUME NEW c \in Calls, Restart(c) PROVE OrdersTypeOK'
  <2>1. [pc |-> "waiting", req |-> call[c].req, redo |-> call[c].redo] \in CallStates
    BY <1>4, CallShapes DEF Restart, CallStates, Waiting
  <2> QED BY <1>4, <2>1 DEF Restart, OrdersTypeOK
<1>5. ASSUME NEW c \in Calls, Withdraw(c) PROVE OrdersTypeOK'
  <2>1. [pc |-> "done"] \in CallStates
    BY DEF CallStates, Idle
  <2> QED BY <1>5, <2>1 DEF Withdraw, OrdersTypeOK
<1>6. ASSUME NEW c \in Calls, Create(c) PROVE OrdersTypeOK'
  <2> DEFINE req == call[c].req
  <2>1. req \in Requests /\ call' \in [Calls -> CallStates]
    BY <1>6, RunningTyped, DoneTyped DEF Create, Running
  <2>2. [status |-> IF req.draft THEN "draft" ELSE "review_ready",
         window |-> req.target, details |-> req.details] \in OrderRows
    BY <2>1 DEF Requests, OrderRows
  <2> QED BY <1>6, <2>1, <2>2 DEF Create, OrdersTypeOK
<1>7. ASSUME NEW c \in Calls, CompleteDraft(c) PROVE OrdersTypeOK'
  <2> DEFINE req == call[c].req
  <2>1. req \in Requests /\ call' \in [Calls -> CallStates]
    BY <1>7, RunningTyped, DoneTyped DEF CompleteDraft, Running
  <2>2. order' \in [Orders -> OrderRows]
    BY <1>7, <2>1 DEF CompleteDraft, Requests, OrderRows, OrdersTypeOK
  <2> QED BY <1>7, <2>1, <2>2 DEF CompleteDraft, OrdersTypeOK
<1>8. ASSUME NEW c \in Calls, CompleteDelivery(c) PROVE OrdersTypeOK'
  <2> DEFINE req == call[c].req
  <2>1. req \in Requests /\ call' \in [Calls -> CallStates]
    BY <1>8, RunningTyped, DoneTyped DEF CompleteDelivery, Running
  <2>2. [status |-> "review_ready", window |-> req.target, details |-> req.details]
          \in OrderRows
    BY <2>1 DEF Requests, OrderRows
  <2> QED BY <1>8, <2>1, <2>2 DEF CompleteDelivery, OrdersTypeOK
<1>9. ASSUME NEW c \in Calls, Issue(c) PROVE OrdersTypeOK'
  <2> DEFINE s == call[c].snap
             o == call[c].req.order
             new == [number |-> s.next, law |-> s.profileLaw, details |-> s.order.details,
                     cancelled |-> FALSE, paid |-> FALSE]
  <2>1. s \in Snapshots /\ o \in Orders /\ call' \in [Calls -> CallStates]
    BY <1>9, RunningTyped, DoneTyped DEF Issue, Running
  <2>2. new \in InvoiceRows /\ s.next + 1 \in Nat \ {0}
    BY <2>1 DEF Snapshots, InvoiceRows, OrderRows
  <2>3. /\ invoice' = [invoice EXCEPT ![o] = new]
        /\ next' = s.next + 1
        /\ order' = [order EXCEPT ![o].status = "invoiced"]
        /\ UNCHANGED <<phase, enabled, started, retired, full, delivered, law,
                       profileLaw, changes>>
    BY <1>9 DEF Issue
  <2>4. order' \in [Orders -> OrderRows]
    BY <2>3 DEF OrderRows, OrdersTypeOK
  <2> QED BY <2>1, <2>2, <2>3, <2>4 DEF OrdersTypeOK
<1>10. ASSUME NEW c \in Calls, ReadLockTargets(c) PROVE OrdersTypeOK'
  <2> DEFINE o == call[c].req.order
  <2>1. [pc |-> "targets", req |-> call[c].req, redo |-> call[c].redo,
         window |-> order[o].window, invoiced |-> invoice[o] # NoInvoice] \in CallStates
    BY <1>10, CallShapes DEF ReadLockTargets, CallStates, WithTargets, OrdersTypeOK, OrderRows
  <2> QED BY <1>10, <2>1 DEF ReadLockTargets, OrdersTypeOK
<1>11. ASSUME NEW c \in Calls, LockTargetsChanged(c) PROVE OrdersTypeOK'
  <2>1. [pc |-> "waiting", req |-> call[c].req, redo |-> call[c].redo + 1] \in CallStates
    BY <1>11, CallShapes DEF LockTargetsChanged, CallStates, Waiting
  <2> QED BY <1>11, <2>1 DEF LockTargetsChanged, OrdersTypeOK
<1>12. ASSUME NEW c \in Calls, CancelOrder(c) PROVE OrdersTypeOK'
  <2>1. call' \in [Calls -> CallStates]
    BY <1>12, DoneTyped DEF CancelOrder
  <2>2. order' \in [Orders -> OrderRows]
    BY <1>12 DEF CancelOrder, OrdersTypeOK, OrderRows
  <2>3. invoice' \in [Orders -> InvoiceRows \cup {NoInvoice}]
    BY <1>12 DEF CancelOrder, OrdersTypeOK, InvoiceRows
  <2> QED BY <1>12, <2>1, <2>2, <2>3 DEF CancelOrder, OrdersTypeOK
<1>13. ASSUME NEW c \in Calls, LockWindow(c) PROVE OrdersTypeOK'
  <2> DEFINE o == call[c].req.order
  <2>1. [pc |-> "ticking", req |-> call[c].req, redo |-> call[c].redo,
         window |-> order[o].window] \in CallStates
    BY <1>13, CallShapes DEF LockWindow, CallStates, Ticking, OrdersTypeOK, OrderRows, Slots
  <2> QED BY <1>13, <2>1 DEF LockWindow, OrdersTypeOK
<1>14. ASSUME NEW c \in Calls, SetState(c) PROVE OrdersTypeOK'
  <2>1. call' \in [Calls -> CallStates] /\ call[c].req.order \in Orders
    BY <1>14, DoneTyped, CallShapes DEF SetState
  <2> QED BY <1>14, <2>1 DEF SetState, OrdersTypeOK
<1>15. ASSUME NEW o \in Orders, NEW w \in Slots, PublicOrder(o, w) PROVE OrdersTypeOK'
  <2>1. [status |-> "review_ready", window |-> w, details |-> Captured] \in OrderRows
    BY BlankTyped DEF OrderRows
  <2> QED BY <1>15, <2>1 DEF PublicOrder, OrdersTypeOK
<1>16. ASSUME NEW o \in Orders, RecordPayment(o) \/ ReversePayments(o) \/ CancelInvoice(o)
       PROVE  OrdersTypeOK'
  <2>1. invoice' \in [Orders -> InvoiceRows \cup {NoInvoice}]
    <3>1. invoice[o] \in InvoiceRows
      BY <1>16 DEF RecordPayment, ReversePayments, Reversible, CancelInvoice, OrdersTypeOK
    <3>2. \A flag \in BOOLEAN : /\ [invoice[o] EXCEPT !.paid = flag] \in InvoiceRows
                               /\ [invoice[o] EXCEPT !.cancelled = flag] \in InvoiceRows
      BY <3>1 DEF InvoiceRows
    <3>3. \E row \in InvoiceRows : invoice' = [invoice EXCEPT ![o] = row]
      BY <1>16, <3>2 DEF RecordPayment, ReversePayments, CancelInvoice
    <3> QED BY <3>3 DEF OrdersTypeOK
  <2> QED BY <1>16, <2>1 DEF RecordPayment, ReversePayments, CancelInvoice, OrdersTypeOK
<1>17. ASSUME NEW w \in Windows, StartWindow(w) \/ \E on \in BOOLEAN : SetFullyBooked(w, on)
       PROVE  OrdersTypeOK'
  BY <1>17 DEF StartWindow, SetFullyBooked, Changed, OrdersTypeOK
<1>18. ASSUME NEW ws \in SUBSET Windows, NEW on \in BOOLEAN, SaveSchedule(ws, on)
       PROVE  OrdersTypeOK'
  BY <1>18 DEF SaveSchedule, Changed, OrdersTypeOK
<1>19. ASSUME NEW on \in BOOLEAN, ReplaceCapabilities(on) PROVE OrdersTypeOK'
  BY <1>19 DEF ReplaceCapabilities, Changed, OrdersTypeOK
<1>20. ASSUME ActivateLaw PROVE OrdersTypeOK'
  BY <1>20 DEF ActivateLaw, Changed, OrdersTypeOK, Laws
<1>21. ASSUME AdvanceAction PROVE OrdersTypeOK'
  BY <1>21 DEF AdvanceAction, Changed, OrdersTypeOK, Phases
<1>22. CASE UNCHANGED vars
  BY <1>22 DEF vars, OrdersTypeOK
<1> QED
  BY <1>1, <1>2, <1>3, <1>4, <1>5, <1>6, <1>7, <1>8, <1>9, <1>10, <1>11, <1>12, <1>13,
     <1>14, <1>15, <1>16, <1>17, <1>18, <1>19, <1>20, <1>21, <1>22 DEF Next

(***************************************************************************)
(* The tables and the calls of Orders keep their types.                    *)
(***************************************************************************)
THEOREM OrdersTypeCorrect == Spec => []OrdersTypeOK
<1> QED BY InitTyped, StepTyped, PTL DEF Spec

-----------------------------------------------------------------------------
(* Order and invoice.                                                      *)

AgreeInv == OrdersTypeOK /\ OrderAndInvoiceAgree

(* What a serializable command knows of the order it has locked.           *)
LEMMA LockedOrder ==
  ASSUME AgreeInv, NEW c \in Calls, call[c].pc = "running", OrderLocked(c)
  PROVE  LET o == call[c].req.order IN
         /\ o \in Orders
         /\ order[o] = call[c].snap.order
         /\ order[o].status \notin {"invoiced", "cancelled"} => invoice[o] = NoInvoice
  BY RunningTyped DEF OrderLocked, AgreeInv, OrderAndInvoiceAgree

LEMMA AgreeStep ==
  ASSUME AgreeInv, [Next]_vars
  PROVE  OrderAndInvoiceAgree'
<1> USE DEF schedule, books
<1>1. CASE UNCHANGED <<order, invoice>>
  BY <1>1 DEF AgreeInv, OrderAndInvoiceAgree
<1>2. ASSUME NEW c \in Calls, Create(c) PROVE OrderAndInvoiceAgree'
  <2>1. call[c].req.order \in Orders
    BY <1>2, RunningTyped DEF Create, Running, AgreeInv
  <2> QED BY <1>2, <2>1 DEF Create, AgreeInv, OrderAndInvoiceAgree, OrdersTypeOK
<1>3. ASSUME NEW o \in Orders, NEW w \in Slots, PublicOrder(o, w) PROVE OrderAndInvoiceAgree'
  BY <1>3 DEF PublicOrder, AgreeInv, OrderAndInvoiceAgree, OrdersTypeOK
<1>4. ASSUME NEW c \in Calls, CompleteDraft(c) PROVE OrderAndInvoiceAgree'
  <2> DEFINE o == call[c].req.order
  <2>1. o \in Orders /\ invoice[o] = NoInvoice
    BY <1>4, LockedOrder DEF CompleteDraft, Running
  <2>2. order'[o].status = "review_ready"
    BY <1>4, <2>1 DEF CompleteDraft, AgreeInv, OrdersTypeOK, OrderRows
  <2>3. \A p \in Orders \ {o} : order'[p] = order[p]
    BY <1>4 DEF CompleteDraft, AgreeInv, OrdersTypeOK
  <2> QED BY <1>4, <2>1, <2>2, <2>3 DEF CompleteDraft, AgreeInv, OrderAndInvoiceAgree
<1>5. ASSUME NEW c \in Calls, CompleteDelivery(c) PROVE OrderAndInvoiceAgree'
  <2> DEFINE o == call[c].req.order
  <2>1. o \in Orders /\ invoice[o] = NoInvoice
    BY <1>5, LockedOrder DEF CompleteDelivery, Running
  <2>2. order'[o].status = "review_ready"
    BY <1>5, <2>1 DEF CompleteDelivery, AgreeInv, OrdersTypeOK
  <2>3. \A p \in Orders \ {o} : order'[p] = order[p]
    BY <1>5 DEF CompleteDelivery, AgreeInv, OrdersTypeOK
  <2> QED BY <1>5, <2>1, <2>2, <2>3 DEF CompleteDelivery, AgreeInv, OrderAndInvoiceAgree
<1>6. ASSUME NEW c \in Calls, Issue(c) PROVE OrderAndInvoiceAgree'
  <2> DEFINE o == call[c].req.order
  <2>1. o \in Orders /\ order[o] = call[c].snap.order
    BY <1>6, LockedOrder DEF Issue, Running
  <2>2. /\ order'[o].status = "invoiced"
        /\ order'[o].details = order[o].details
        /\ invoice'[o].details = order[o].details
    BY <1>6, <2>1 DEF Issue, AgreeInv, OrdersTypeOK, OrderRows
  <2>3. invoice'[o] # NoInvoice
    <3>1. call[c].snap \in Snapshots
      BY <1>6, RunningTyped DEF Issue, Running, AgreeInv
    <3>2. invoice'[o] \in InvoiceRows
      BY <1>6, <2>1, <3>1 DEF Issue, AgreeInv, OrdersTypeOK, Snapshots, InvoiceRows, OrderRows
    <3> QED BY <3>2
  <2>4. \A p \in Orders \ {o} : order'[p] = order[p] /\ invoice'[p] = invoice[p]
    BY <1>6 DEF Issue, AgreeInv, OrdersTypeOK
  <2> QED BY <2>1, <2>2, <2>3, <2>4 DEF AgreeInv, OrderAndInvoiceAgree
<1>7. ASSUME NEW o \in Orders, RecordPayment(o) \/ ReversePayments(o) \/ CancelInvoice(o)
      PROVE  OrderAndInvoiceAgree'
  <2>1. /\ invoice[o] \in InvoiceRows
        /\ ~invoice[o].cancelled
        /\ order' = order
        /\ \A p \in Orders \ {o} : invoice'[p] = invoice[p]
    BY <1>7 DEF RecordPayment, ReversePayments, Reversible, CancelInvoice, AgreeInv, OrdersTypeOK
  <2>2. order[o].status # "cancelled"
    BY <2>1 DEF AgreeInv, OrderAndInvoiceAgree
  <2>3. invoice'[o].details = invoice[o].details
    BY <1>7, <2>1 DEF RecordPayment, ReversePayments, CancelInvoice, AgreeInv,
                      OrdersTypeOK, InvoiceRows
  <2>4. invoice'[o] # NoInvoice
    <3>1. \A flag \in BOOLEAN : /\ [invoice[o] EXCEPT !.paid = flag] \in InvoiceRows
                               /\ [invoice[o] EXCEPT !.cancelled = flag] \in InvoiceRows
      BY <2>1 DEF InvoiceRows
    <3>2. invoice'[o] \in InvoiceRows
      BY <1>7, <3>1 DEF RecordPayment, ReversePayments, CancelInvoice, AgreeInv, OrdersTypeOK
    <3> QED BY <3>2
  <2> QED BY <2>1, <2>2, <2>3, <2>4 DEF AgreeInv, OrderAndInvoiceAgree
<1>8. ASSUME NEW c \in Calls, CancelOrder(c) PROVE OrderAndInvoiceAgree'
  <2> DEFINE o == call[c].req.order
  <2>1. o \in Orders /\ MayCancel(o)
    BY <1>8, CallShapes DEF CancelOrder, AgreeInv
  <2>2. /\ order'[o].status = "cancelled"
        /\ order'[o].details = order[o].details
        /\ \A p \in Orders \ {o} : order'[p] = order[p] /\ invoice'[p] = invoice[p]
    BY <1>8, <2>1 DEF CancelOrder, AgreeInv, OrdersTypeOK, OrderRows
  <2>3. CASE invoice[o] = NoInvoice
    <3>1. invoice'[o] = NoInvoice
      BY <1>8, <2>1, <2>3 DEF CancelOrder, AgreeInv, OrdersTypeOK
    <3> QED BY <2>1, <2>2, <3>1 DEF AgreeInv, OrderAndInvoiceAgree
  <2>4. CASE invoice[o] # NoInvoice
    <3>1. invoice[o] \in InvoiceRows /\ ~invoice[o].paid
      BY <2>1, <2>4 DEF AgreeInv, OrdersTypeOK, MayCancel, PaymentRecorded
    <3>2. invoice'[o] = [invoice[o] EXCEPT !.cancelled = TRUE]
      BY <1>8, <2>1, <2>4 DEF CancelOrder, AgreeInv, OrdersTypeOK
    <3>3. invoice'[o].cancelled /\ ~invoice'[o].paid /\ invoice'[o].details = invoice[o].details
      BY <3>1, <3>2 DEF InvoiceRows
    <3> QED BY <2>1, <2>2, <2>4, <3>3 DEF AgreeInv, OrderAndInvoiceAgree
  <2> QED BY <2>3, <2>4
<1> QED BY <1>1, <1>2, <1>3, <1>4, <1>5, <1>6, <1>7, <1>8, Writers DEF SetState

LEMMA AgreeInvariant == Spec => []AgreeInv
<1>1. Init => OrderAndInvoiceAgree
  BY DEF Init, OrderAndInvoiceAgree
<1> QED BY <1>1, InitTyped, StepTyped, AgreeStep, PTL DEF Spec, AgreeInv

(***************************************************************************)
(* Order and invoice agree, whatever completions, issuings, payments and   *)
(* cancellations run at the same time.                                     *)
(***************************************************************************)
THEOREM OrdersAgree == Spec => []OrderAndInvoiceAgree
<1> QED BY AgreeInvariant, PTL DEF AgreeInv

-----------------------------------------------------------------------------
(* Invoice numbers.                                                        *)

NumberInv == AgreeInv /\ NumbersGapless

(* Only issuing makes an invoice or a number; no step takes one away.      *)
LEMMA InvoicesKept ==
  ASSUME AgreeInv, [Next]_vars, ~\E c \in Calls : Issue(c)
  PROVE  /\ next' = next
         /\ Invoiced' = Invoiced
         /\ \A o \in Invoiced : invoice'[o].number = invoice[o].number
<1> USE DEF schedule, books
<1>1. CASE UNCHANGED <<invoice, next>>
  BY <1>1 DEF Invoiced
<1>2. ASSUME NEW o \in Orders, NEW row \in InvoiceRows, invoice[o] \in InvoiceRows,
             row.number = invoice[o].number,
             invoice' = [invoice EXCEPT ![o] = row], next' = next
      PROVE  /\ next' = next
             /\ Invoiced' = Invoiced
             /\ \A p \in Invoiced : invoice'[p].number = invoice[p].number
  BY <1>2 DEF Invoiced, AgreeInv, OrdersTypeOK
<1>3. ASSUME NEW o \in Orders, RecordPayment(o) \/ ReversePayments(o) \/ CancelInvoice(o)
      PROVE  /\ next' = next
             /\ Invoiced' = Invoiced
             /\ \A p \in Invoiced : invoice'[p].number = invoice[p].number
  <2>1. invoice[o] \in InvoiceRows
    BY <1>3 DEF RecordPayment, ReversePayments, Reversible, CancelInvoice, AgreeInv, OrdersTypeOK
  <2>2. \A flag \in BOOLEAN :
          /\ [invoice[o] EXCEPT !.paid = flag] \in InvoiceRows
          /\ [invoice[o] EXCEPT !.paid = flag].number = invoice[o].number
          /\ [invoice[o] EXCEPT !.cancelled = flag] \in InvoiceRows
          /\ [invoice[o] EXCEPT !.cancelled = flag].number = invoice[o].number
    BY <2>1 DEF InvoiceRows
  <2>3. \E row \in InvoiceRows : /\ row.number = invoice[o].number
                                 /\ invoice' = [invoice EXCEPT ![o] = row]
                                 /\ next' = next
    BY <1>3, <2>2 DEF RecordPayment, ReversePayments, CancelInvoice
  <2> QED BY <1>2, <2>1, <2>3
<1>4. ASSUME NEW c \in Calls, CancelOrder(c)
      PROVE  /\ next' = next
             /\ Invoiced' = Invoiced
             /\ \A p \in Invoiced : invoice'[p].number = invoice[p].number
  <2> DEFINE o == call[c].req.order
  <2>1. o \in Orders /\ next' = next
    BY <1>4, CallShapes DEF CancelOrder, AgreeInv
  <2>2. CASE invoice[o] = NoInvoice
    <3>1. invoice' = invoice
      BY <1>4, <2>1, <2>2 DEF CancelOrder, AgreeInv, OrdersTypeOK
    <3> QED BY <2>1, <3>1 DEF Invoiced
  <2>3. CASE invoice[o] # NoInvoice
    <3> DEFINE row == [invoice[o] EXCEPT !.cancelled = TRUE]
    <3>1. invoice[o] \in InvoiceRows
      BY <2>1, <2>3 DEF AgreeInv, OrdersTypeOK
    <3>2. row \in InvoiceRows /\ row.number = invoice[o].number
      BY <3>1 DEF InvoiceRows
    <3>3. invoice' = [invoice EXCEPT ![o] = row]
      BY <1>4, <2>3 DEF CancelOrder
    <3> QED BY <1>2, <2>1, <3>1, <3>2, <3>3
  <2> QED BY <2>2, <2>3
<1>5. \/ UNCHANGED <<invoice, next>>
      \/ \E o \in Orders : RecordPayment(o) \/ ReversePayments(o) \/ CancelInvoice(o)
      \/ \E c \in Calls : CancelOrder(c)
  BY Writers DEF Create, CompleteDraft, CompleteDelivery, SetState, PublicOrder
<1> QED BY <1>1, <1>3, <1>4, <1>5

(* The invoice that issuing adds: one order more, with the next number.    *)
LEMMA IssueAdds ==
  ASSUME AgreeInv, NEW c \in Calls, Issue(c)
  PROVE  LET o == call[c].req.order IN
         /\ o \in Orders \ Invoiced
         /\ invoice'[o] # NoInvoice
         /\ invoice'[o].number = next
         /\ next' = next + 1
         /\ \A p \in Orders \ {o} : invoice'[p] = invoice[p]
<1> DEFINE o == call[c].req.order
           s == call[c].snap
<1>1. o \in Orders /\ invoice[o] = NoInvoice /\ s.next = next
  BY LockedOrder DEF Issue, Running, ProfileLocked
<1>2. s \in Snapshots
  BY RunningTyped DEF Issue, Running, AgreeInv
<1>3. invoice'[o] \in InvoiceRows
  BY <1>1, <1>2 DEF Issue, AgreeInv, OrdersTypeOK, Snapshots, InvoiceRows, OrderRows
<1>4. invoice'[o].number = next /\ next' = next + 1
  BY <1>1 DEF Issue, AgreeInv, OrdersTypeOK
<1> QED BY <1>1, <1>3, <1>4 DEF Issue, AgreeInv, OrdersTypeOK, Invoiced

LEMMA NumbersStep ==
  ASSUME NumberInv, [Next]_vars
  PROVE  NumbersGapless'
<1>1. CASE ~\E c \in Calls : Issue(c)
  BY <1>1, InvoicesKept DEF NumberInv, NumbersGapless
<1>2. ASSUME NEW c \in Calls, Issue(c) PROVE NumbersGapless'
  <2> DEFINE o == call[c].req.order
  <2>1. /\ o \in Orders \ Invoiced
        /\ invoice'[o] # NoInvoice
        /\ invoice'[o].number = next
        /\ next' = next + 1
        /\ \A p \in Orders \ {o} : invoice'[p] = invoice[p]
    BY <1>2, IssueAdds DEF NumberInv
  <2>2. Invoiced' = Invoiced \cup {o}
    BY <2>1 DEF Invoiced
  <2>3. \A p \in Invoiced : invoice'[p].number = invoice[p].number
    BY <2>1 DEF Invoiced
  <2>4. next \in Nat \ {0}
    BY DEF NumberInv, AgreeInv, OrdersTypeOK
  <2>5. \A p \in Invoiced : invoice[p].number \in 1..(next - 1)
    BY DEF NumberInv, NumbersGapless
  <2>6. {invoice'[p].number : p \in Invoiced'} = 1..(next' - 1)
    <3>1. {invoice'[p].number : p \in Invoiced'}
            = {invoice[p].number : p \in Invoiced} \cup {next}
      BY <2>1, <2>2, <2>3
    <3>2. (1..(next - 1)) \cup {next} = 1..next
      BY <2>4
    <3>3. {invoice[p].number : p \in Invoiced} = 1..(next - 1)
      BY DEF NumberInv, NumbersGapless
    <3>4. next' - 1 = next
      BY <2>1, <2>4
    <3> QED BY <3>1, <3>2, <3>3, <3>4
  <2>7. ASSUME NEW p \in Invoiced', NEW q \in Invoiced', invoice'[p].number = invoice'[q].number
        PROVE  p = q
    <3>1. CASE p \in Invoiced /\ q \in Invoiced
      BY <2>3, <2>7, <3>1 DEF NumberInv, NumbersGapless
    <3>2. CASE p = o /\ q \in Invoiced
      BY <2>1, <2>3, <2>4, <2>5, <2>7, <3>2
    <3>3. CASE q = o /\ p \in Invoiced
      BY <2>1, <2>3, <2>4, <2>5, <2>7, <3>3
    <3> QED BY <2>2, <3>1, <3>2, <3>3
  <2> QED BY <2>6, <2>7 DEF NumbersGapless
<1> QED BY <1>1, <1>2

(***************************************************************************)
(* Invoice numbers are 1, 2, 3, ... without gap or repetition, for any     *)
(* number of orders and concurrent issuing transactions.                   *)
(***************************************************************************)
THEOREM NumbersAreGapless == Spec => []NumbersGapless
<1>1. Init => NumbersGapless
  <2> SUFFICES ASSUME Init PROVE NumbersGapless
    OBVIOUS
  <2>1. Invoiced = {}
    BY DEF Init, Invoiced
  <2>2. next = 1
    BY DEF Init
  <2> QED BY <2>1, <2>2 DEF NumbersGapless
<1>2. AgreeInv /\ NumbersGapless /\ [Next]_vars => NumbersGapless'
  BY NumbersStep DEF NumberInv
<1> QED BY <1>1, <1>2, AgreeInvariant, PTL DEF Spec

-----------------------------------------------------------------------------
(* Ticks and cancellations.                                                *)

(* A tick under way holds the window of a binding order.                   *)
TickHoldsOrder ==
    \A c \in Calls : call[c].pc = "ticking" =>
        LET o == call[c].req.order IN
        /\ order[o].status \in {"review_ready", "invoiced"}
        /\ order[o].window = call[c].window

DeliveryInv == OrdersTypeOK /\ TickHoldsOrder /\ CancelledStaysUndelivered

(* Only LockWindow starts a tick.                                          *)
LEMMA TicksKept ==
  ASSUME OrdersTypeOK, [Next]_vars, ~\E c \in Calls : LockWindow(c)
  PROVE  \A b \in Calls : call'[b].pc = "ticking" => call'[b] = call[b]
<1> DEFINE Kept == \A b \in Calls : call'[b].pc = "ticking" => call'[b] = call[b]
<1> USE DEF schedule, books
<1>1. ASSUME NEW c \in Calls, NEW row, call' = [call EXCEPT ![c] = row],
             row.pc # "ticking"
      PROVE  Kept
  BY <1>1 DEF OrdersTypeOK
<1>2. ASSUME NEW c \in Calls, NEW req, Submit(c, req) PROVE Kept
  BY <1>1, <1>2 DEF Submit
<1>3. ASSUME NEW c \in Calls, Done(c) PROVE Kept
  BY <1>1, <1>3 DEF Done
<1>4. ASSUME NEW c \in Calls,
             \/ Begin(c) \/ Restart(c) \/ Withdraw(c)
             \/ ReadLockTargets(c) \/ LockTargetsChanged(c)
      PROVE  Kept
  <2>1. CASE Begin(c)
    BY <1>1, <2>1 DEF Begin
  <2>2. CASE Restart(c)
    BY <1>1, <2>2 DEF Restart
  <2>3. CASE Withdraw(c)
    BY <1>1, <2>3 DEF Withdraw
  <2>4. CASE ReadLockTargets(c)
    BY <1>1, <2>4 DEF ReadLockTargets
  <2>5. CASE LockTargetsChanged(c)
    BY <1>1, <2>5 DEF LockTargetsChanged
  <2> QED BY <1>4, <2>1, <2>2, <2>3, <2>4, <2>5
<1>5. ASSUME NEW c \in Calls,
             \/ Create(c) \/ CompleteDraft(c) \/ CompleteDelivery(c) \/ Issue(c)
             \/ CancelOrder(c) \/ SetState(c)
      PROVE  Kept
  BY <1>3, <1>5 DEF Create, CompleteDraft, CompleteDelivery, Issue, CancelOrder, SetState
<1>6. ASSUME NEW c \in Calls, NEW o \in Orders, NEW w \in Slots, NEW override \in BOOLEAN,
             Fill(c, o, w, override)
      PROVE  Kept
  BY <1>2, <1>6 DEF Fill
<1>7. ASSUME NEW c \in Calls, NEW o \in Orders, Press(c, o) PROVE Kept
  BY <1>2, <1>7 DEF Press
<1>8. ASSUME NEW o \in Orders,
             \/ \E w \in Slots : PublicOrder(o, w)
             \/ RecordPayment(o) \/ ReversePayments(o) \/ CancelInvoice(o)
      PROVE  call' = call
  BY <1>8 DEF PublicOrder, RecordPayment, ReversePayments, CancelInvoice
<1>9. ASSUME \/ \E w \in Windows : StartWindow(w) \/ \E on \in BOOLEAN : SetFullyBooked(w, on)
             \/ \E ws \in SUBSET Windows, on \in BOOLEAN : SaveSchedule(ws, on)
             \/ \E on \in BOOLEAN : ReplaceCapabilities(on)
             \/ ActivateLaw \/ AdvanceAction \/ UNCHANGED vars
      PROVE  call' = call
  BY <1>9 DEF StartWindow, SetFullyBooked, SaveSchedule, ReplaceCapabilities, ActivateLaw,
              AdvanceAction, vars
<1> QED BY <1>4, <1>5, <1>6, <1>7, <1>8, <1>9 DEF Next

(* An order a tick is under way for keeps its window and is not cancelled. *)
LEMMA TickedOrderKept ==
  ASSUME DeliveryInv, [Next]_vars, NEW b \in Calls, call[b].pc = "ticking"
  PROVE  LET o == call[b].req.order IN
         /\ order'[o].status \in {"review_ready", "invoiced"}
         /\ order'[o].window = order[o].window
<1> USE DEF schedule, books
<1> DEFINE o == call[b].req.order
           Kept == /\ order'[o].status \in {"review_ready", "invoiced"}
                   /\ order'[o].window = order[o].window
<1>1. /\ o \in Orders
      /\ call[b].window \in Windows
      /\ order[o] \in OrderRows
      /\ order[o].status \in {"review_ready", "invoiced"}
      /\ order[o].window = call[b].window
  BY CallShapes DEF DeliveryInv, TickHoldsOrder, Ticking, OrdersTypeOK
<1>2. CASE order'[o] = order[o]
  BY <1>1, <1>2
<1>3. ASSUME NEW c \in Calls, Create(c) PROVE Kept
  BY <1>1, <1>2, <1>3 DEF Create, DeliveryInv, OrdersTypeOK
<1>4. ASSUME NEW p \in Orders, NEW w \in Slots, PublicOrder(p, w) PROVE Kept
  BY <1>1, <1>2, <1>4 DEF PublicOrder, DeliveryInv, OrdersTypeOK
<1>5. ASSUME NEW c \in Calls, CompleteDraft(c) PROVE Kept
  BY <1>1, <1>2, <1>5 DEF CompleteDraft, OrderLocked, DeliveryInv, OrdersTypeOK
<1>6. ASSUME NEW c \in Calls, CompleteDelivery(c) PROVE Kept
  <2>1. CASE call[c].req.order # o
    BY <1>2, <1>6, <2>1 DEF CompleteDelivery, DeliveryInv, OrdersTypeOK
  <2>2. CASE call[c].req.order = o
    <3>1. WindowFree(order[o].window)
      BY <1>1, <1>6, <2>2 DEF CompleteDelivery, OrderLocked, WindowsLocked
    <3> QED BY <1>1, <3>1 DEF WindowFree
  <2> QED BY <2>1, <2>2
<1>7. ASSUME NEW c \in Calls, Issue(c) PROVE Kept
  BY <1>1, <1>2, <1>7 DEF Issue, DeliveryInv, OrdersTypeOK, OrderRows
<1>8. ASSUME NEW c \in Calls, CancelOrder(c) PROVE Kept
  <2>1. CASE call[c].req.order # o
    BY <1>2, <1>8, <2>1 DEF CancelOrder, DeliveryInv, OrdersTypeOK
  <2>2. CASE call[c].req.order = o
    <3>1. WindowFree(order[o].window)
      BY <1>8, <2>2 DEF CancelOrder
    <3> QED BY <1>1, <3>1 DEF WindowFree
  <2> QED BY <2>1, <2>2
<1>9. \/ order' = order
      \/ \E c \in Calls : \/ Create(c) \/ CompleteDraft(c) \/ CompleteDelivery(c)
                          \/ Issue(c) \/ CancelOrder(c)
      \/ \E p \in Orders, w \in Slots : PublicOrder(p, w)
  BY Writers DEF SetState, RecordPayment, ReversePayments, CancelInvoice
<1> QED BY <1>2, <1>3, <1>4, <1>5, <1>6, <1>7, <1>8, <1>9
LEMMA DeliveryStep ==
  ASSUME DeliveryInv, [Next]_vars
  PROVE  TickHoldsOrder' /\ CancelledStaysUndelivered'
<1> USE DEF schedule, books
<1>1. TickHoldsOrder'
  <2>1. ASSUME NEW c \in Calls, LockWindow(c) PROVE TickHoldsOrder'
    <3> DEFINE o == call[c].req.order
    <3>1. o \in Orders
      BY <2>1, CallShapes DEF LockWindow, DeliveryInv
    <3>2. /\ call'[c].req.order = o
          /\ call'[c].window = order[o].window
          /\ order[o].status \in {"review_ready", "invoiced"}
          /\ order' = order
          /\ \A b \in Calls \ {c} : call'[b] = call[b]
      BY <2>1 DEF LockWindow, DeliveryInv, OrdersTypeOK
    <3> QED BY <3>2 DEF DeliveryInv, TickHoldsOrder
  <2>2. CASE ~\E c \in Calls : LockWindow(c)
    <3>1. ASSUME NEW b \in Calls, call'[b].pc = "ticking"
          PROVE  LET o == call'[b].req.order IN
                 /\ order'[o].status \in {"review_ready", "invoiced"}
                 /\ order'[o].window = call'[b].window
      <4>1. call'[b] = call[b]
        BY <2>2, <3>1, TicksKept DEF DeliveryInv
      <4>2. call[b].pc = "ticking"
        BY <3>1, <4>1
      <4>3. order[call[b].req.order].window = call[b].window
        BY <4>2 DEF DeliveryInv, TickHoldsOrder
      <4> QED BY <4>1, <4>2, <4>3, TickedOrderKept
    <3> QED BY <3>1 DEF TickHoldsOrder
  <2> QED BY <2>1, <2>2
<1>2. CancelledStaysUndelivered'
  <2>1. ASSUME NEW c \in Calls, SetState(c) PROVE CancelledStaysUndelivered'
    <3>1. order[call[c].req.order].status # "cancelled"
      BY <2>1 DEF SetState, DeliveryInv, TickHoldsOrder
    <3> QED BY <2>1, <3>1 DEF SetState, DeliveryInv, CancelledStaysUndelivered
  <2>2. ASSUME NEW c \in Calls, CancelOrder(c) PROVE CancelledStaysUndelivered'
    <3> DEFINE o == call[c].req.order
    <3>1. o \notin delivered /\ delivered' = delivered
      BY <2>2 DEF CancelOrder, MayCancel
    <3>2. \A p \in Orders \ {o} : order'[p] = order[p]
      BY <2>2 DEF CancelOrder, DeliveryInv, OrdersTypeOK
    <3> QED BY <3>1, <3>2 DEF DeliveryInv, CancelledStaysUndelivered
  <2>3. ASSUME NEW o \in Orders, NEW row \in OrderRows, row.status # "cancelled",
               order' = [order EXCEPT ![o] = row], delivered' = delivered
        PROVE  CancelledStaysUndelivered'
    BY <2>3 DEF DeliveryInv, CancelledStaysUndelivered, OrdersTypeOK
  <2>4. ASSUME NEW c \in Calls, Create(c) \/ CompleteDelivery(c) PROVE CancelledStaysUndelivered'
    <3>1. call[c].req \in Requests /\ call[c].req.order \in Orders
      BY <2>4, RunningTyped DEF Create, CompleteDelivery, Running, DeliveryInv
    <3>2. \A st \in {"draft", "review_ready"} :
            [status |-> st, window |-> call[c].req.target, details |-> call[c].req.details]
              \in OrderRows
      BY <3>1 DEF Requests, OrderRows
    <3> QED BY <2>3, <2>4, <3>1, <3>2 DEF Create, CompleteDelivery
  <2>5. ASSUME NEW c \in Calls, CompleteDraft(c) \/ Issue(c) PROVE CancelledStaysUndelivered'
    <3> DEFINE o == call[c].req.order
    <3>1. o \in Orders /\ delivered' = delivered
      BY <2>5, RunningTyped DEF CompleteDraft, Issue, Running, DeliveryInv
    <3>2. order'[o].status # "cancelled"
      <4>1. CASE CompleteDraft(c)
        BY <3>1, <4>1 DEF CompleteDraft, DeliveryInv, OrdersTypeOK, OrderRows
      <4>2. CASE Issue(c)
        BY <3>1, <4>2 DEF Issue, DeliveryInv, OrdersTypeOK, OrderRows
      <4> QED BY <2>5, <4>1, <4>2
    <3>3. \A p \in Orders \ {o} : order'[p] = order[p]
      BY <2>5 DEF CompleteDraft, Issue, DeliveryInv, OrdersTypeOK
    <3> QED BY <3>1, <3>2, <3>3 DEF DeliveryInv, CancelledStaysUndelivered
  <2>6. ASSUME NEW o \in Orders, NEW w \in Slots, PublicOrder(o, w)
        PROVE  CancelledStaysUndelivered'
    <3>1. [status |-> "review_ready", window |-> w, details |-> Captured] \in OrderRows
      BY BlankTyped DEF OrderRows
    <3> QED BY <2>3, <2>6, <3>1 DEF PublicOrder
  <2>7. CASE UNCHANGED <<order, delivered>>
    BY <2>7 DEF DeliveryInv, CancelledStaysUndelivered
  <2> QED BY <2>1, <2>2, <2>4, <2>5, <2>6, <2>7, Writers
          DEF RecordPayment, ReversePayments, CancelInvoice
<1> QED BY <1>1, <1>2

(***************************************************************************)
(* A cancelled order is not delivered: ticks and cancellations of the same *)
(* order exclude each other through the window they both lock.             *)
(***************************************************************************)
THEOREM CancelledOrdersUndelivered == Spec => []CancelledStaysUndelivered
<1>1. Init => TickHoldsOrder /\ CancelledStaysUndelivered
  BY DEF Init, TickHoldsOrder, CancelledStaysUndelivered
<1> QED BY <1>1, InitTyped, StepTyped, DeliveryStep, PTL DEF Spec, DeliveryInv

-----------------------------------------------------------------------------
(* The locks of a cancellation.                                            *)

(* A call whose locks were wrong has met an invoice, and knows of it when  *)
(* it has read its locks again.                                            *)
RedoSound(r) ==
    r.pc \notin {"new", "done"} =>
        /\ r.redo \in 0..1
        /\ r.redo = 1 => r.req.order \in Invoiced
        /\ r.pc = "targets" => /\ r.invoiced => r.req.order \in Invoiced
                               /\ r.redo = 1 => r.invoiced

RedoInv == AgreeInv /\ \A c \in Calls : RedoSound(call[c])

LEMMA InvoicedGrows ==
  ASSUME AgreeInv, [Next]_vars
  PROVE  Invoiced \subseteq Invoiced'
<1>1. CASE ~\E c \in Calls : Issue(c)
  BY <1>1, InvoicesKept
<1>2. ASSUME NEW c \in Calls, Issue(c) PROVE Invoiced \subseteq Invoiced'
  BY <1>2, IssueAdds DEF Invoiced
<1> QED BY <1>1, <1>2

LEMMA RedoStep ==
  ASSUME RedoInv, [Next]_vars
  PROVE  \A c \in Calls : RedoSound(call[c])'
<1> DEFINE Sound == \A c \in Calls : RedoSound(call[c])'
<1> USE DEF schedule, books
<1>0. Invoiced \subseteq Invoiced'
  BY InvoicedGrows DEF RedoInv
<1>1. ASSUME NEW b \in Calls, call'[b] = call[b] PROVE RedoSound(call[b])'
  BY <1>0, <1>1 DEF RedoInv, RedoSound
<1>2. ASSUME NEW c \in Calls, RedoSound(call[c])',
             \A b \in Calls \ {c} : call'[b] = call[b]
      PROVE  Sound
  BY <1>1, <1>2
<1>3. ASSUME NEW c \in Calls, NEW row, call' = [call EXCEPT ![c] = row]
      PROVE  call'[c] = row /\ \A b \in Calls \ {c} : call'[b] = call[b]
  BY <1>3 DEF RedoInv, AgreeInv, OrdersTypeOK
<1>4. ASSUME NEW c \in Calls, NEW req, Submit(c, req) PROVE Sound
  <2>1. call'[c] = [pc |-> "waiting", req |-> req, redo |-> 0]
    BY <1>3, <1>4 DEF Submit
  <2>2. RedoSound(call[c])'
    BY <2>1 DEF RedoSound
  <2> QED BY <1>2, <1>3, <1>4, <2>2 DEF Submit
<1>5. ASSUME NEW c \in Calls, call' = [call EXCEPT ![c] = [pc |-> "done"]] PROVE Sound
  <2>1. call'[c] = [pc |-> "done"]
    BY <1>3, <1>5
  <2>2. RedoSound(call[c])'
    BY <2>1 DEF RedoSound
  <2> QED BY <1>2, <1>3, <1>5, <2>2
<1>6. ASSUME NEW c \in Calls, Begin(c) \/ Restart(c) \/ LockWindow(c) PROVE Sound
  <2>1. /\ call[c].pc \notin {"new", "done"}
        /\ call'[c].pc \in {"running", "waiting", "ticking"}
        /\ call'[c].req = call[c].req
        /\ call'[c].redo = call[c].redo
        /\ \A b \in Calls \ {c} : call'[b] = call[b]
    <3>1. CASE Begin(c)
      BY <1>3, <3>1 DEF Begin
    <3>2. CASE Restart(c)
      <4> DEFINE row == [pc |-> "waiting", req |-> call[c].req, redo |-> call[c].redo]
      <4>1. call[c].pc \in {"running", "targets"} /\ call' = [call EXCEPT ![c] = row]
        BY <3>2 DEF Restart
      <4>2. call'[c] = row /\ \A b \in Calls \ {c} : call'[b] = call[b]
        BY <1>3, <4>1
      <4> QED BY <4>1, <4>2
    <3>3. CASE LockWindow(c)
      BY <1>3, <3>3 DEF LockWindow
    <3> QED BY <1>6, <3>1, <3>2, <3>3
  <2>2. RedoSound(call[c])'
    BY <1>0, <2>1 DEF RedoInv, RedoSound
  <2> QED BY <1>2, <2>1, <2>2
<1>7. ASSUME NEW c \in Calls, ReadLockTargets(c) PROVE Sound
  <2> DEFINE o == call[c].req.order
  <2>1. /\ call[c].pc = "waiting"
        /\ call'[c] = [pc |-> "targets", req |-> call[c].req, redo |-> call[c].redo,
                       window |-> order[o].window, invoiced |-> invoice[o] # NoInvoice]
        /\ \A b \in Calls \ {c} : call'[b] = call[b]
    BY <1>3, <1>7 DEF ReadLockTargets
  <2>2. o \in Orders
    BY <2>1, CallShapes DEF RedoInv, AgreeInv
  <2>3. /\ call'[c].pc = "targets" /\ call'[c].req = call[c].req
        /\ call'[c].redo = call[c].redo
        /\ call'[c].invoiced <=> o \in Invoiced
    <3> DEFINE found == invoice[o] # NoInvoice
    <3>1. o \in Invoiced <=> found
      BY <2>2 DEF Invoiced
    <3>2. call'[c] = [pc |-> "targets", req |-> call[c].req, redo |-> call[c].redo,
                      window |-> order[o].window, invoiced |-> found]
      BY <2>1
    <3> HIDE DEF found
    <3>3. call'[c].pc = "targets" /\ call'[c].req = call[c].req /\ call'[c].redo = call[c].redo
      BY <3>2
    <3>4. call'[c].invoiced = found
      BY <3>2
    <3> QED BY <3>1, <3>3, <3>4, Zenon
  <2>4. call[c].redo \in 0..1 /\ (call[c].redo = 1 => o \in Invoiced)
    BY <2>1 DEF RedoInv, RedoSound
  <2>5. RedoSound(call[c])'
    BY <1>0, <2>3, <2>4 DEF RedoSound
  <2> QED BY <1>2, <2>1, <2>5
<1>8. ASSUME NEW c \in Calls, LockTargetsChanged(c) PROVE Sound
  <2> DEFINE o == call[c].req.order
  <2>1. /\ call[c].pc = "targets"
        /\ call'[c] = [pc |-> "waiting", req |-> call[c].req, redo |-> call[c].redo + 1]
        /\ \A b \in Calls \ {c} : call'[b] = call[b]
    BY <1>3, <1>8 DEF LockTargetsChanged
  <2>2. o \in Orders /\ call[c].invoiced \in BOOLEAN
    BY <2>1, CallShapes DEF RedoInv, AgreeInv, WithTargets
  <2>3. o \in Invoiced /\ ~call[c].invoiced
    <3>1. (invoice[o] # NoInvoice) # call[c].invoiced
      BY <1>8 DEF LockTargetsChanged
    <3>2. call[c].invoiced => o \in Invoiced
      BY <2>1 DEF RedoInv, RedoSound
    <3>3. o \in Invoiced <=> invoice[o] # NoInvoice
      BY <2>2 DEF Invoiced
    <3> QED BY <2>2, <3>1, <3>2, <3>3
  <2>4. call[c].redo = 0
    BY <2>1, <2>3 DEF RedoInv, RedoSound
  <2>5. RedoSound(call[c])'
    BY <1>0, <2>1, <2>3, <2>4 DEF RedoSound
  <2> QED BY <1>2, <2>1, <2>5
<1>9. ASSUME NEW c \in Calls,
             \/ Withdraw(c) \/ Create(c) \/ CompleteDraft(c) \/ CompleteDelivery(c)
             \/ Issue(c) \/ CancelOrder(c) \/ SetState(c)
      PROVE  Sound
  BY <1>5, <1>9 DEF Withdraw, Create, CompleteDraft, CompleteDelivery, Issue, CancelOrder,
                    SetState, Done
<1>10. ASSUME NEW c \in Calls, NEW o \in Orders, NEW w \in Slots, NEW override \in BOOLEAN,
              Fill(c, o, w, override)
       PROVE  Sound
  BY <1>4, <1>10 DEF Fill
<1>11. ASSUME NEW c \in Calls, NEW o \in Orders, Press(c, o) PROVE Sound
  BY <1>4, <1>11 DEF Press
<1>12. CASE call' = call
  BY <1>1, <1>12
<1>13. ASSUME NEW o \in Orders,
              \/ \E w \in Slots : PublicOrder(o, w)
              \/ RecordPayment(o) \/ ReversePayments(o) \/ CancelInvoice(o)
       PROVE  call' = call
  BY <1>13 DEF PublicOrder, RecordPayment, ReversePayments, CancelInvoice
<1>14. ASSUME \/ \E w \in Windows : StartWindow(w) \/ \E on \in BOOLEAN : SetFullyBooked(w, on)
              \/ \E ws \in SUBSET Windows, on \in BOOLEAN : SaveSchedule(ws, on)
              \/ \E on \in BOOLEAN : ReplaceCapabilities(on)
              \/ ActivateLaw \/ AdvanceAction \/ UNCHANGED vars
       PROVE  call' = call
  BY <1>14 DEF StartWindow, SetFullyBooked, SaveSchedule, ReplaceCapabilities, ActivateLaw,
               AdvanceAction, vars
<1> QED
  BY <1>6, <1>7, <1>8, <1>9, <1>10, <1>11, <1>12, <1>13, <1>14 DEF Next

(***************************************************************************)
(* A cancellation repeats at most once because an invoice has appeared,    *)
(* so _LockTargetsChanged cannot use up its five attempts.                 *)
(***************************************************************************)
THEOREM TargetsChangeAtMostOnce == Spec => []TargetsChangeOnce
<1>1. Init => \A c \in Calls : RedoSound(call[c])
  BY DEF Init, RedoSound
<1>2. (\A c \in Calls : RedoSound(call[c])) => TargetsChangeOnce
  BY DEF RedoSound, TargetsChangeOnce
<1>3. AgreeInv /\ (\A c \in Calls : RedoSound(call[c])) /\ [Next]_vars
        => (\A c \in Calls : RedoSound(call[c]))'
  BY RedoStep DEF RedoInv
<1> QED BY <1>1, <1>2, <1>3, AgreeInvariant, PTL DEF Spec

-----------------------------------------------------------------------------
(* Bookings and invoices obey what is in force at the step that makes      *)
(* them. Snapshots may be old, so each argument goes through the row       *)
(* locks: what a transaction decides by and locks is the current row.      *)

(* Who changes an order, and how: the fields that the properties read.     *)
LEMMA OrderChanges ==
  ASSUME OrdersTypeOK, [Next]_vars, NEW o \in Orders, order'[o] # order[o]
  PROVE  \/ \E w \in Slots :
              /\ PublicOrder(o, w)
              /\ order'[o].status = "review_ready" /\ order'[o].window = w
         \/ \E c \in Calls :
              /\ call[c].req.order = o
              /\ \/ /\ Create(c)
                    /\ order'[o].status = (IF call[c].req.draft THEN "draft" ELSE "review_ready")
                    /\ order'[o].window = call[c].req.target
                 \/ /\ CompleteDraft(c) \/ CompleteDelivery(c)
                    /\ order[o] = call[c].snap.order
                    /\ order'[o].status = "review_ready"
                    /\ order'[o].window = call[c].req.target
                 \/ /\ Issue(c) \/ CancelOrder(c)
                    /\ order'[o].status \in {"invoiced", "cancelled"}
                    /\ order'[o].window = order[o].window
<1> USE DEF schedule, books
<1>1. order \in [Orders -> OrderRows]
  BY DEF OrdersTypeOK
<1>2. ASSUME NEW p \in Orders, NEW row, order' = [order EXCEPT ![p] = row]
      PROVE  p = o /\ order'[o] = row
  BY <1>1, <1>2
<1>3. ASSUME NEW p \in Orders, NEW w \in Slots, PublicOrder(p, w)
      PROVE  p = o /\ order'[o].status = "review_ready" /\ order'[o].window = w
  BY <1>2, <1>3 DEF PublicOrder
<1>4. ASSUME NEW c \in Calls, Create(c)
      PROVE  /\ call[c].req.order = o
             /\ order'[o].status = (IF call[c].req.draft THEN "draft" ELSE "review_ready")
             /\ order'[o].window = call[c].req.target
  <2>1. call[c].req.order \in Orders
    BY <1>4, RunningTyped DEF Create, Running
  <2> QED BY <1>2, <1>4, <2>1 DEF Create
<1>5. ASSUME NEW c \in Calls, CompleteDraft(c) \/ CompleteDelivery(c)
      PROVE  /\ call[c].req.order = o /\ order[o] = call[c].snap.order
             /\ order'[o].status = "review_ready"
             /\ order'[o].window = call[c].req.target
  <2> DEFINE p == call[c].req.order
  <2>1. p \in Orders /\ order[p] = call[c].snap.order
    BY <1>5, RunningTyped DEF CompleteDraft, CompleteDelivery, Running, OrderLocked
  <2>2. order' = [order EXCEPT ![p] = order'[p]]
        /\ order'[p].status = "review_ready" /\ order'[p].window = call[c].req.target
    <3>1. order[p] \in OrderRows
      BY <1>1, <2>1
    <3>2. CASE CompleteDraft(c)
      BY <1>1, <2>1, <3>1, <3>2 DEF CompleteDraft, OrderRows
    <3>3. CASE CompleteDelivery(c)
      BY <1>1, <2>1, <3>3 DEF CompleteDelivery
    <3> QED BY <1>5, <3>2, <3>3
  <2>3. p = o
    BY <1>2, <2>1, <2>2
  <2> QED BY <2>1, <2>2, <2>3
<1>6. ASSUME NEW c \in Calls, Issue(c) \/ CancelOrder(c)
      PROVE  /\ call[c].req.order = o
             /\ order'[o].status \in {"invoiced", "cancelled"}
             /\ order'[o].window = order[o].window
  <2> DEFINE p == call[c].req.order
  <2>1. p \in Orders
    BY <1>6, CallShapes DEF Issue, CancelOrder, Running
  <2>2. \E status \in {"invoiced", "cancelled"} :
           order' = [order EXCEPT ![p] = [order[p] EXCEPT !.status = status]]
    BY <1>6 DEF Issue, CancelOrder
  <2>3. order[p] \in OrderRows
    BY <1>1, <2>1
  <2>4. PICK status \in {"invoiced", "cancelled"} :
           order' = [order EXCEPT ![p] = [order[p] EXCEPT !.status = status]]
    BY <2>2
  <2>5. p = o /\ order'[o] = [order[p] EXCEPT !.status = status]
    BY <1>2, <2>1, <2>4
  <2> QED BY <2>3, <2>4, <2>5 DEF OrderRows
<1>7. \/ \E c \in Calls : \/ Create(c) \/ CompleteDraft(c) \/ CompleteDelivery(c)
                          \/ Issue(c) \/ CancelOrder(c)
      \/ \E p \in Orders, w \in Slots : PublicOrder(p, w)
  BY Writers DEF SetState, RecordPayment, ReversePayments, CancelInvoice
<1> QED BY <1>3, <1>4, <1>5, <1>6, <1>7

(***************************************************************************)
(* The booked window of a binding order never changes: completion keeps    *)
(* it and everything else leaves it alone, for the order row is locked.    *)
(***************************************************************************)
THEOREM BookedWindowsStay == Spec => BookedWindowStays
<1> DEFINE Stays(o) ==
      order[o].status \notin {"none", "draft"} /\ order[o].window # NoWindow
          => order'[o].window = order[o].window
<1>1. ASSUME OrdersTypeOK, [Next]_vars, NEW o \in Orders PROVE Stays(o)
  <2>1. CASE order'[o] = order[o]
    BY <2>1
  <2>2. CASE order'[o] # order[o]
    <3>1. ASSUME NEW w \in Slots, PublicOrder(o, w) PROVE Stays(o)
      BY <3>1 DEF PublicOrder
    <3>2. ASSUME NEW c \in Calls, call[c].req.order = o, Create(c) PROVE Stays(o)
      BY <3>2 DEF Create
    <3>3. ASSUME NEW c \in Calls, order[o] = call[c].snap.order,
                 order'[o].window = call[c].req.target,
                 CompleteDraft(c) \/ CompleteDelivery(c)
          PROVE  Stays(o)
      BY <3>3 DEF CompleteDraft, CompleteDelivery, CompletesWindow
    <3> QED BY <1>1, <2>2, <3>1, <3>2, <3>3, OrderChanges
  <2> QED BY <2>1, <2>2
<1>2. OrdersTypeOK /\ [Next]_vars => [\A o \in Orders : Stays(o)]_vars
  BY <1>1
<1> QED BY <1>2, OrdersTypeCorrect, PTL DEF Spec, BookedWindowStays

(***************************************************************************)
(* Whoever books a full window that has not started says so, and a retired *)
(* one is only kept, never chosen: the window rows a booking locks show    *)
(* the switches as they are.                                               *)
(***************************************************************************)
THEOREM BookingsRespectSwitches == Spec => BookingRespectsSwitches
<1> DEFINE Respects(o) ==
      Books(o) =>
         /\ order'[o].window \in full \ started => Overridden(o)
         /\ order'[o].window \in retired \ started => order'[o].window = order[o].window
<1>1. ASSUME OrdersTypeOK, [Next]_vars, NEW o \in Orders, Books(o) PROVE Respects(o)
  <2> DEFINE w == order'[o].window
  <2>1. order'[o] # order[o]
    BY <1>1 DEF Books
  <2>2. full \subseteq Windows /\ retired \subseteq Windows /\ w # NoWindow
        /\ order'[o].status = "review_ready"
    BY <1>1 DEF Books, OrdersTypeOK
  <2>3. ASSUME NEW c \in Calls, call[c].req.order = o, call[c].pc = "running", Done(c),
               call[c].req.override
        PROVE  Overridden(o)
    <3>1. call'[c].pc = "done"
      BY <1>1, <2>3, DoneTyped
    <3> QED BY <2>3, <3>1 DEF Overridden
  <2>4. ASSUME NEW v \in Slots, PublicOrder(o, v), w = v PROVE Respects(o)
    BY <2>2, <2>4 DEF PublicOrder, ValidOrder, Available, MayBook, Rows
  <2>5. ASSUME NEW c \in Calls, call[c].req.order = o, Create(c),
               order'[o].status = (IF call[c].req.draft THEN "draft" ELSE "review_ready"),
               w = call[c].req.target
        PROVE  Respects(o)
    <3>1. ~call[c].req.draft
      BY <2>2, <2>5
    <3>2. /\ w \in full => call[c].req.override
          /\ w \notin retired \ started
          /\ call[c].pc = "running" /\ Done(c)
      BY <2>2, <2>5, <3>1 DEF Create, Running, ActionLocked, WindowsLocked, ValidOrder,
                              Available, MayBook
    <3> QED BY <2>3, <2>5, <3>2
  <2>6. ASSUME NEW c \in Calls, call[c].req.order = o, CompleteDraft(c),
               w = call[c].req.target
        PROVE  Respects(o)
    <3>1. /\ w \in full => call[c].req.override
          /\ w \notin retired \ started
          /\ call[c].pc = "running" /\ Done(c)
      BY <2>2, <2>6 DEF CompleteDraft, Running, ActionLocked, WindowsLocked, ValidOrder,
                        Available, MayBook
    <3> QED BY <2>3, <2>6, <3>1
  <2>7. ASSUME NEW c \in Calls, call[c].req.order = o, CompleteDelivery(c),
               order[o] = call[c].snap.order, w = call[c].req.target
        PROVE  Respects(o)
    <3>1. /\ w \in full \ started => call[c].req.override
          /\ w \in retired \ started => w = order[o].window
          /\ call[c].pc = "running" /\ Done(c)
      <4> USE DEF CompleteDelivery, Running, ActionLocked, WindowsLocked, CompletesWindow,
                  ValidOrder, Available, MayBook
      <4>1. CASE order[o].window = NoWindow
        BY <2>2, <2>7, <4>1
      <4>2. CASE order[o].window # NoWindow
        <5>1. call[c].snap.order.status = "draft"
          BY <1>1, <2>7, <4>2 DEF Books
        <5> QED BY <2>2, <2>7, <4>2, <5>1
      <4> QED BY <4>1, <4>2
    <3> QED BY <2>3, <2>7, <3>1
  <2> QED BY <1>1, <2>1, <2>2, <2>4, <2>5, <2>6, <2>7, OrderChanges
<1>2. OrdersTypeOK /\ [Next]_vars => [\A o \in Orders : Respects(o)]_vars
  BY <1>1
<1> QED BY <1>2, OrdersTypeCorrect, PTL DEF Spec, BookingRespectsSwitches

(***************************************************************************)
(* An invoice is issued under the legal configuration in force and, where  *)
(* deliveries are planned, for an order with a delivery window.            *)
(***************************************************************************)
THEOREM IssuedOnTermsInForce == Spec => IssuedOnCurrentTerms
<1> DEFINE Terms(o) ==
      invoice[o] = NoInvoice /\ invoice'[o] # NoInvoice =>
         /\ invoice'[o].law = law
         /\ enabled => order[o].window # NoWindow
<1>1. ASSUME AgreeInv, [Next]_vars, NEW o \in Orders PROVE Terms(o)
  <2>1. CASE ~\E c \in Calls : Issue(c)
    BY <1>1, <2>1, InvoicesKept DEF Invoiced
  <2>2. ASSUME NEW c \in Calls, Issue(c) PROVE Terms(o)
    <3> DEFINE p == call[c].req.order
               s == call[c].snap
    <3>1. p \in Orders /\ (o # p => invoice'[o] = invoice[o])
      BY <1>1, <2>2, IssueAdds
    <3>2. s.law = law /\ s.profileLaw = s.law /\ s.enabled = enabled /\ s.order = order[p]
          /\ (s.enabled => s.order.window # NoWindow)
      BY <2>2 DEF Issue, LawLocked, ActionLocked, OrderLocked
    <3>3. invoice'[p].law = s.profileLaw
      BY <1>1, <2>2, <3>1 DEF Issue, AgreeInv, OrdersTypeOK
    <3> QED BY <3>1, <3>2, <3>3
  <2> QED BY <2>1, <2>2
<1>2. AgreeInv /\ [Next]_vars => [\A o \in Orders : Terms(o)]_vars
  BY <1>1
<1> QED BY <1>2, AgreeInvariant, PTL DEF Spec, IssuedOnCurrentTerms
===========================================================================
