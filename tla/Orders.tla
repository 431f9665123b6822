------------------------------- MODULE Orders -------------------------------
(***************************************************************************)
(* The orders of one action from capture to invoice or cancellation:       *)
(* commitments.py, public_orders.py, delivery_completion.py, invoices.py,  *)
(* order_cancellation.py and the commands of delivery.py that they race.   *)
(*                                                                         *)
(* Capture, completion and issuing run SERIALIZABLE: they decide by the    *)
(* rows of their snapshot, and PostgreSQL fails them when a row they lock  *)
(* has been written since. Here such a row is compared by its contents,    *)
(* which lets more transactions commit than PostgreSQL does. The public    *)
(* form and the cancellation run READ COMMITTED and read what the lock     *)
(* they hold guards; the cancellation reads once before, to learn which    *)
(* locks it needs. Payments, reversals and invoice cancellations are the   *)
(* atomic commands of InvoiceAccount, which Settlement implements.         *)
(***************************************************************************)
EXTENDS Naturals

CONSTANTS Orders,     \* commitment rows, also those not captured yet
          Windows,    \* delivery windows of the action
          Calls,      \* API calls, each made once and retried by the server
          KindsOf,    \* the commands each call may stand for
          Details,    \* invoice recipients an order may name
          NoWindow, NoInvoice,
          MaxLaw,     \* bound on activated legal configurations
          MaxChanges  \* bound on what administrators and the clock change

Kinds == {"create", "complete_draft", "complete_delivery", "issue", "cancel", "tick"}

ASSUME OrdersAssumption ==
  /\ KindsOf \in [Calls -> SUBSET Kinds]
  /\ Details # {}
  /\ NoWindow \notin Windows
  /\ MaxLaw \in Nat \ {0}
  /\ MaxChanges \in Nat

VARIABLES phase,      \* charity_action.status
          enabled,    \* action_delivery_configuration.enabled
          started,    \* windows whose starts_at has passed
          retired,    \* action_delivery_window.retired
          full,       \* action_delivery_window.fully_booked
          order,      \* commitment rows
          delivered,  \* orders whose commitment_delivery.state is delivered
          invoice,    \* the invoice of each order
          next,       \* invoice_profile.next_number
          law,        \* legal_configuration_state.active_version_id
          profileLaw, \* invoice_profile.legal_configuration_version_id
          call,       \* API calls and their transactions
          changes     \* changes made to the action, its schedule and the law

schedule == <<enabled, started, retired, full>>
books == <<order, delivered, invoice, next>>
vars == <<phase, schedule, books, law, profileLaw, call, changes>>

\* planned: draft or scheduled
Phases == {"planned", "active", "completed", "archived"}
Slots == Windows \cup {NoWindow}
Laws == 1..MaxLaw

OrderRows == [status : {"none", "draft", "review_ready", "invoiced", "cancelled"},
              window : Slots, details : Details]
InvoiceRows == [number : Nat \ {0}, law : Laws, details : Details,
                cancelled : BOOLEAN, paid : BOOLEAN]

ASSUME NoInvoiceAssumption == NoInvoice \notin InvoiceRows

\* What a serializable transaction about one order reads.
Rows(o) == [phase |-> phase, enabled |-> enabled, retired |-> retired, full |-> full,
            order |-> order[o], invoice |-> invoice[o],
            next |-> next, law |-> law, profileLaw |-> profileLaw]

Snapshots == [phase : Phases, enabled : BOOLEAN, retired : SUBSET Windows,
              full : SUBSET Windows, order : OrderRows,
              invoice : InvoiceRows \cup {NoInvoice},
              next : Nat \ {0}, law : Laws, profileLaw : Laws]

\* What the user asks for. seen is the order as the form showed it, which
\* delivery_completion_version turns into expected_version.
Requests == [kind : Kinds, order : Orders, seen : OrderRows, target : Slots,
             details : Details, override : BOOLEAN, draft : BOOLEAN]

\* A call is new, waits for its (next) transaction, runs it, or is done.
\* redo counts how often a cancellation had read the wrong locks.
Idle == [pc : {"new", "done"}]
Waiting == [pc : {"waiting"}, req : Requests, redo : 0..2]
InTransaction == [pc : {"running"}, req : Requests, redo : 0..2, snap : Snapshots]
WithTargets == [pc : {"targets"}, req : Requests, redo : 0..2,
                window : Slots, invoiced : BOOLEAN]
Ticking == [pc : {"ticking"}, req : Requests, redo : 0..2, window : Windows]

CallStates == Idle \cup Waiting \cup InTransaction \cup WithTargets \cup Ticking

\* Recipients are told apart per order: an order starts with this one.
Captured == CHOOSE d \in Details : TRUE
Blank == [status |-> "none", window |-> NoWindow, details |-> Captured]

Init == /\ phase \in {"planned", "active"}
        /\ enabled \in BOOLEAN
        /\ started = {} /\ retired = {} /\ full = {}
        /\ order \in [Orders -> [status : {"none", "draft", "review_ready"},
                              window : {NoWindow}, details : {Captured}]]
        /\ delivered = {}
        /\ invoice = [o \in Orders |-> NoInvoice]
        /\ next = 1
        /\ law = 1 /\ profileLaw = 1
        /\ call = [c \in Calls |-> [pc |-> "new"]]
        /\ changes = 0

-----------------------------------------------------------------------------
(* Calls. *)

Submit(c, req) ==
    /\ call[c].pc = "new"
    /\ call' = [call EXCEPT ![c] = [pc |-> "waiting", req |-> req, redo |-> 0]]
    /\ UNCHANGED <<phase, schedule, books, law, profileLaw, changes>>

\* The forms: capture names a new order, the others one they show. Only for
\* a window can the user confirm that it is full.
Fill(c, o, target, override) ==
    LET Form(kind, seen, details, draft) ==
          [kind |-> kind, order |-> o, seen |-> seen, target |-> target,
           details |-> details, override |-> override, draft |-> draft]
    IN  /\ override => target # NoWindow
        /\ \/ /\ "create" \in KindsOf[c] /\ order[o].status = "none"
              /\ \E draft \in BOOLEAN : Submit(c, Form("create", Blank, Captured, draft))
           \/ /\ "complete_draft" \in KindsOf[c] /\ order[o].status # "none"
              /\ Submit(c, Form("complete_draft", Blank, Captured, FALSE))
           \/ /\ "complete_delivery" \in KindsOf[c] /\ order[o].status # "none"
              /\ \E details \in Details :
                    Submit(c, Form("complete_delivery", order[o], details, FALSE))

\* Commands without a form.
Press(c, o) ==
    \E kind \in KindsOf[c] \cap {"issue", "cancel", "tick"} :
        /\ order[o].status # "none"
        /\ Submit(c, [kind |-> kind, order |-> o,
                      seen |-> IF kind = "cancel" THEN order[o] ELSE Blank,
                      target |-> NoWindow, details |-> Captured,
                      override |-> FALSE, draft |-> FALSE])

\* The snapshot of a serializable attempt, taken by its first statement.
Begin(c) ==
    /\ call[c].pc = "waiting"
    /\ call[c].req.kind \notin {"cancel", "tick"}
    /\ call' = [call EXCEPT ![c] = [pc |-> "running", req |-> @.req, redo |-> @.redo,
                                    snap |-> Rows(@.req.order)]]
    /\ UNCHANGED <<phase, schedule, books, law, profileLaw, changes>>

\* A serialization failure or a deadlock: rolled back and tried again.
Restart(c) ==
    /\ call[c].pc \in {"running", "targets"}
    /\ call' = [call EXCEPT ![c] = [pc |-> "waiting", req |-> @.req, redo |-> @.redo]]
    /\ UNCHANGED <<phase, schedule, books, law, profileLaw, changes>>

\* Refused, given up or lost: rolled back, nothing written.
Withdraw(c) ==
    /\ call[c].pc \notin {"new", "done"}
    /\ call' = [call EXCEPT ![c] = [pc |-> "done"]]
    /\ UNCHANGED <<phase, schedule, books, law, profileLaw, changes>>

Done(c) == call' = [call EXCEPT ![c] = [pc |-> "done"]]

Running(c, kind) == call[c].pc = "running" /\ call[c].req.kind = kind

\* Nobody holds the window row FOR UPDATE.
WindowFree(w) == \A c \in Calls : call[c].pc = "ticking" => call[c].window # w

Changed == changes < MaxChanges /\ changes' = changes + 1

-----------------------------------------------------------------------------
(* Rows that a transaction locks are those of its snapshot.                *)

\* Mutants: the row is read without a lock.
NotLocked(c) == TRUE
WindowsNotLocked(c, ws) == TRUE

\* charity_action FOR SHARE and lock_configuration: every save of the
\* schedule writes the configuration row.
ActionLocked(c) ==
    LET s == call[c].snap IN
    s.phase = phase /\ s.enabled = enabled /\ s.retired = retired

\* lock_order_windows and guard_window_booking: window rows FOR SHARE.
WindowsLocked(c, ws) ==
    \A w \in ws \cap Windows :
        /\ WindowFree(w)
        /\ w \in call[c].snap.full <=> w \in full
        /\ w \in call[c].snap.retired <=> w \in retired

\* commitment FOR UPDATE.
OrderLocked(c) == call[c].snap.order = order[call[c].req.order]

\* invoice_profile FOR UPDATE.
ProfileLocked(c) == call[c].snap.next = next /\ call[c].snap.profileLaw = profileLaw

\* legal_configuration_state FOR SHARE.
LawLocked(c) == call[c].snap.law = law

-----------------------------------------------------------------------------
(* Rules of domain/delivery.py; s is a snapshot.                           *)
Available(s, w) == w \notin s.retired /\ w \notin started

\* validate_order
ValidOrder(s, w, complete) ==
    IF s.enabled
    THEN (complete => w # NoWindow) /\ (w # NoWindow => Available(s, w))
    ELSE w = NoWindow

\* guard_window_booking
MayBook(s, w, override) == w \in s.full => override

-----------------------------------------------------------------------------
(* Capture and completion.                                                 *)

\* commitments.py create: an order or a draft; a draft books nothing yet.
Create(c) ==
    LET req == call[c].req  s == call[c].snap IN
    /\ Running(c, "create")
    /\ ActionLocked(c) /\ (~req.draft => WindowsLocked(c, {req.target}))
    /\ order[req.order].status = "none"
    /\ s.phase \in {"planned", "active"}
    /\ ValidOrder(s, req.target, ~req.draft)
    /\ ~req.draft => MayBook(s, req.target, req.override)
    /\ order' = [order EXCEPT ![req.order] =
         [status |-> IF req.draft THEN "draft" ELSE "review_ready",
          window |-> req.target, details |-> req.details]]
    /\ Done(c)
    /\ UNCHANGED <<phase, schedule, delivered, invoice, next, law, profileLaw, changes>>

\* public_orders.py: READ COMMITTED, and never into a full window.
PublicOrder(o, w) ==
    /\ order[o].status = "none"
    /\ phase = "active"
    /\ ValidOrder(Rows(o), w, TRUE)
    /\ WindowFree(w)
    /\ MayBook(Rows(o), w, FALSE)
    /\ order' = [order EXCEPT ![o] =
         [status |-> "review_ready", window |-> w, details |-> Captured]]
    /\ UNCHANGED <<phase, schedule, delivered, invoice, next, law, profileLaw, call, changes>>

\* commitments.py complete_draft: the draft is confirmed, in any window; the
\* invoice recipient remains that of the draft.
CompleteDraft(c) ==
    LET req == call[c].req  s == call[c].snap IN
    /\ Running(c, "complete_draft")
    /\ ActionLocked(c) /\ WindowsLocked(c, {s.order.window, req.target}) /\ OrderLocked(c)
    /\ s.order.status = "draft"
    /\ s.phase \in {"planned", "active"}
    /\ ValidOrder(s, req.target, TRUE)
    /\ MayBook(s, req.target, req.override)
    /\ order' = [order EXCEPT ![req.order].status = "review_ready",
                              ![req.order].window = req.target]
    /\ Done(c)
    /\ UNCHANGED <<phase, schedule, delivered, invoice, next, law, profileLaw, changes>>

\* A booked time never moves; a draft books its window only now, unless the
\* window has started. An order without a window may also record one that
\* has started, retired or not (validate_manager_completion).
CompletesWindow(s, req) ==
    LET w == req.target IN
    IF s.order.window # NoWindow
    THEN /\ w = s.order.window
         /\ s.order.status = "draft" /\ w \notin started => MayBook(s, w, req.override)
    ELSE \/ ValidOrder(s, w, TRUE) /\ MayBook(s, w, req.override)
         \/ s.enabled /\ w \in started

\* delivery_completion.py: a manager completes or corrects what is not
\* invoiced yet, on the version shown.
CompleteDelivery(c) ==
    LET req == call[c].req  s == call[c].snap IN
    /\ Running(c, "complete_delivery")
    /\ ActionLocked(c) /\ WindowsLocked(c, {s.order.window, req.target}) /\ OrderLocked(c)
    /\ s.phase # "archived"
    /\ s.order.status \in {"draft", "review_ready"}
    /\ s.invoice = NoInvoice
    /\ s.order = req.seen
    /\ CompletesWindow(s, req)
    /\ order' = [order EXCEPT ![req.order] =
         [status |-> "review_ready", window |-> req.target, details |-> req.details]]
    /\ Done(c)
    /\ UNCHANGED <<phase, schedule, delivered, invoice, next, law, profileLaw, changes>>

-----------------------------------------------------------------------------
(* Invoices.                                                               *)

\* invoices.py: number, invoice, document job and order status in one
\* transaction. An order that has an invoice is answered with it.
Issue(c) ==
    LET o == call[c].req.order  s == call[c].snap IN
    /\ Running(c, "issue")
    /\ ActionLocked(c) /\ OrderLocked(c) /\ ProfileLocked(c) /\ LawLocked(c)
    /\ s.phase # "archived"
    /\ s.invoice = NoInvoice
    /\ s.enabled => s.order.window # NoWindow
    /\ s.profileLaw = s.law
    /\ s.order.status = "review_ready"
    /\ invoice' = [invoice EXCEPT ![o] =
         [number |-> s.next, law |-> s.profileLaw, details |-> s.order.details,
          cancelled |-> FALSE, paid |-> FALSE]]
    /\ next' = s.next + 1
    /\ order' = [order EXCEPT ![o].status = "invoiced"]
    /\ Done(c)
    /\ UNCHANGED <<phase, schedule, delivered, law, profileLaw, changes>>

\* The commands of InvoiceAccount; paid: some payment is not reversed.
RecordPayment(o) ==
    /\ invoice[o] # NoInvoice /\ ~invoice[o].cancelled
    /\ invoice' = [invoice EXCEPT ![o].paid = TRUE]
    /\ UNCHANGED <<phase, schedule, order, delivered, next, law, profileLaw, call, changes>>

Reversible(o) == invoice[o] # NoInvoice /\ ~invoice[o].cancelled /\ invoice[o].paid

ReversePayments(o) ==
    /\ Reversible(o)
    /\ invoice' = [invoice EXCEPT ![o].paid = FALSE]
    /\ UNCHANGED <<phase, schedule, order, delivered, next, law, profileLaw, call, changes>>

CancelInvoice(o) ==
    /\ invoice[o] # NoInvoice /\ ~invoice[o].cancelled
    /\ invoice' = [invoice EXCEPT ![o].cancelled = TRUE]
    /\ UNCHANGED <<phase, schedule, order, delivered, next, law, profileLaw, call, changes>>

\* legal_configuration.py: a version is activated and every profile with it.
ActivateLaw ==
    /\ Changed
    /\ law < MaxLaw
    /\ law' = law + 1
    /\ profileLaw' = law + 1
    /\ UNCHANGED <<phase, schedule, books, call>>

-----------------------------------------------------------------------------
(* Cancellation and the delivery board.                                    *)

\* Mutant: a retry keeps the locks it read first.
LocksKept(c) ==
    /\ call[c].pc = "waiting" /\ call[c].req.kind = "cancel"
    /\ call' = [call EXCEPT ![c] =
         [pc |-> "targets", req |-> @.req, redo |-> @.redo,
          window |-> @.req.seen.window, invoiced |-> @.req.seen.status = "invoiced"]]
    /\ UNCHANGED <<phase, schedule, books, law, profileLaw, changes>>

\* _lock_targets, read without a lock.
ReadLockTargets(c) ==
    /\ call[c].pc = "waiting" /\ call[c].req.kind = "cancel"
    /\ call' = [call EXCEPT ![c] =
         [pc |-> "targets", req |-> @.req, redo |-> @.redo,
          window |-> order[@.req.order].window,
          invoiced |-> invoice[@.req.order] # NoInvoice]]
    /\ UNCHANGED <<phase, schedule, books, law, profileLaw, changes>>

\* With the window and the order locked: the order has gained an invoice,
\* whose locks come first.
LockTargetsChanged(c) ==
    LET o == call[c].req.order IN
    /\ call[c].pc = "targets"
    /\ WindowFree(call[c].window)
    /\ (invoice[o] # NoInvoice) # call[c].invoiced
    /\ call[c].redo < 2
    /\ call' = [call EXCEPT ![c] = [pc |-> "waiting", req |-> @.req, redo |-> @.redo + 1]]
    /\ UNCHANGED <<phase, schedule, books, law, profileLaw, changes>>

PaymentRecorded(o) == invoice[o] # NoInvoice /\ invoice[o].paid

\* cancellation_block
MayCancel(o) ==
    /\ order[o].status \in {"draft", "review_ready", "invoiced"}
    /\ o \notin delivered
    /\ ~PaymentRecorded(o)

\* Mutant: the window is not locked.
CancelOrderUnlocked(c) ==
    LET o == call[c].req.order IN
    /\ call[c].pc = "targets"
    /\ (invoice[o] # NoInvoice) = call[c].invoiced
    /\ order[o].window = call[c].window
    /\ phase # "archived"
    /\ MayCancel(o)
    /\ order[o] = call[c].req.seen
    /\ order' = [order EXCEPT ![o].status = "cancelled"]
    /\ invoice' = [invoice EXCEPT ![o] =
         IF @ = NoInvoice THEN @ ELSE [@ EXCEPT !.cancelled = TRUE]]
    /\ Done(c)
    /\ UNCHANGED <<phase, schedule, delivered, next, law, profileLaw, changes>>

\* order_cancellation.py _cancel_once: the order and its open invoice.
CancelOrder(c) ==
    LET o == call[c].req.order IN
    /\ call[c].pc = "targets"
    /\ WindowFree(call[c].window)
    /\ (invoice[o] # NoInvoice) = call[c].invoiced
    /\ order[o].window = call[c].window
    /\ phase # "archived"
    /\ MayCancel(o)
    /\ order[o] = call[c].req.seen
    /\ order' = [order EXCEPT ![o].status = "cancelled"]
    /\ invoice' = [invoice EXCEPT ![o] =
         IF @ = NoInvoice THEN @ ELSE [@ EXCEPT !.cancelled = TRUE]]
    /\ Done(c)
    /\ UNCHANGED <<phase, schedule, delivered, next, law, profileLaw, changes>>

\* delivery_board.py set_state: the window is locked, the drop read ...
LockWindow(c) ==
    LET o == call[c].req.order IN
    /\ call[c].pc = "waiting" /\ call[c].req.kind = "tick"
    /\ enabled
    /\ order[o].status \in {"review_ready", "invoiced"}
    /\ order[o].window # NoWindow
    /\ WindowFree(order[o].window)
    /\ call' = [call EXCEPT ![c] = [pc |-> "ticking", req |-> @.req, redo |-> @.redo,
                                    window |-> order[o].window]]
    /\ UNCHANGED <<phase, schedule, books, law, profileLaw, changes>>

\* ... and its state written: ticked off, or the tick taken back.
SetState(c) ==
    LET o == call[c].req.order IN
    /\ call[c].pc = "ticking"
    /\ delivered' = IF o \in delivered THEN delivered \ {o} ELSE delivered \cup {o}
    /\ Done(c)
    /\ UNCHANGED <<phase, schedule, order, invoice, next, law, profileLaw, changes>>

-----------------------------------------------------------------------------
(* The action and its windows.                                             *)

\* actions.py transition; going live takes a bookable window.
AdvanceAction ==
    /\ Changed
    /\ \/ /\ phase = "planned" /\ phase' = "active"
          /\ enabled => \E w \in Windows : Available([retired |-> retired], w)
       \/ phase = "active" /\ phase' = "completed"
       \/ phase = "completed" /\ phase' = "archived"
    /\ UNCHANGED <<schedule, books, law, profileLaw, call>>

\* delivery.py save: delivery may be switched on but not off, windows are
\* retired for good, which clears their switch; every window row is written.
SaveSchedule(ws, on) ==
    /\ Changed
    /\ phase # "archived"
    /\ \A w \in Windows : WindowFree(w)
    /\ enabled' = (enabled \/ on)
    /\ retired' = retired \cup ws
    /\ full' = full \ ws
    /\ UNCHANGED <<phase, started, books, law, profileLaw, call>>

\* actions.py replace_capabilities, before the action is active: with the
\* capability, delivery planning goes on or, once every window is retired, off.
ReplaceCapabilities(on) ==
    /\ Changed
    /\ phase = "planned"
    /\ on \/ retired = Windows
    /\ enabled' = on
    /\ UNCHANGED <<phase, started, retired, full, books, law, profileLaw, call>>

SetFullyBooked(w, on) ==
    /\ Changed
    /\ phase # "archived"
    /\ WindowFree(w)
    /\ w \notin retired /\ w \notin started
    /\ full' = IF on THEN full \cup {w} ELSE full \ {w}
    /\ UNCHANGED <<phase, enabled, started, retired, books, law, profileLaw, call>>

\* Time: a window starts.
StartWindow(w) ==
    /\ Changed
    /\ started' = started \cup {w}
    /\ UNCHANGED <<phase, enabled, retired, full, books, law, profileLaw, call>>

Next ==
    \/ \E c \in Calls :
         \/ \E o \in Orders, w \in Slots, override \in BOOLEAN : Fill(c, o, w, override)
         \/ \E o \in Orders : Press(c, o)
         \/ Begin(c) \/ Restart(c) \/ Withdraw(c)
         \/ Create(c) \/ CompleteDraft(c) \/ CompleteDelivery(c) \/ Issue(c)
         \/ ReadLockTargets(c) \/ LockTargetsChanged(c) \/ CancelOrder(c)
         \/ LockWindow(c) \/ SetState(c)
    \/ \E o \in Orders :
         \/ \E w \in Slots : PublicOrder(o, w)
         \/ RecordPayment(o) \/ ReversePayments(o) \/ CancelInvoice(o)
    \/ \E w \in Windows : StartWindow(w) \/ \E on \in BOOLEAN : SetFullyBooked(w, on)
    \/ \E ws \in SUBSET Windows, on \in BOOLEAN : SaveSchedule(ws, on)
    \/ \E on \in BOOLEAN : ReplaceCapabilities(on)
    \/ ActivateLaw \/ AdvanceAction

Spec == Init /\ [][Next]_vars

-----------------------------------------------------------------------------
\* The tables and the calls keep their types.
OrdersTypeOK ==
    /\ phase \in Phases
    /\ enabled \in BOOLEAN
    /\ started \subseteq Windows /\ retired \subseteq Windows /\ full \subseteq Windows
    /\ order \in [Orders -> OrderRows]
    /\ delivered \subseteq Orders
    /\ invoice \in [Orders -> InvoiceRows \cup {NoInvoice}]
    /\ next \in Nat \ {0}
    /\ law \in Laws /\ profileLaw \in Laws
    /\ call \in [Calls -> CallStates]
    /\ changes \in 0..MaxChanges

Invoiced == {o \in Orders : invoice[o] # NoInvoice}

(***************************************************************************)
(* The numbers of the issued invoices are 1, 2, 3, ... without a gap and   *)
(* without a repetition, however many issuing transactions run, fail and   *)
(* are retried: a failed one uses up no number (_issue_once, ADR-0004).    *)
(***************************************************************************)
NumbersGapless ==
    /\ {invoice[o].number : o \in Invoiced} = 1..(next - 1)
    /\ \A o1, o2 \in Invoiced :
          invoice[o1].number = invoice[o2].number => o1 = o2

(***************************************************************************)
(* Order and invoice tell the same story: an invoiced order has its one    *)
(* invoice, with the recipient the order still shows; an invoice belongs   *)
(* to an invoiced or a cancelled order; a cancelled order leaves neither   *)
(* an open invoice nor an active payment. Completion, issuing, payments    *)
(* and cancellation all meet on it.                                        *)
(***************************************************************************)
OrderAndInvoiceAgree ==
    \A o \in Orders :
        /\ order[o].status = "invoiced" => invoice[o] # NoInvoice
        /\ invoice[o] # NoInvoice =>
             /\ order[o].status \in {"invoiced", "cancelled"}
             /\ invoice[o].details = order[o].details
        /\ order[o].status = "cancelled" /\ invoice[o] # NoInvoice =>
             invoice[o].cancelled /\ ~invoice[o].paid

(***************************************************************************)
(* A tick on the board and a cancellation of the same order exclude each   *)
(* other although the tick locks no order row and may find no delivery     *)
(* row to lock: both hold the window.                                      *)
(***************************************************************************)
CancelledStaysUndelivered ==
    \A o \in Orders : order[o].status = "cancelled" => o \notin delivered

(***************************************************************************)
(* A cancellation learns of changed locks at most once: an order gains one *)
(* invoice and never loses it, so _LockTargetsChanged cannot use up the    *)
(* five attempts.                                                          *)
(***************************************************************************)
TargetsChangeOnce ==
    \A c \in Calls : call[c].pc \notin {"new", "done"} => call[c].redo <= 1

\* The order is booked into a window by this step.
Books(o) ==
    /\ order'[o].status = "review_ready" /\ order'[o].window # NoWindow
    /\ order[o].status # "review_ready" \/ order[o].window = NoWindow

\* A call for the order that confirms booking a full window ends.
Overridden(o) ==
    \E c \in Calls :
        /\ call[c].pc = "running" /\ call'[c].pc = "done"
        /\ call[c].req.order = o /\ call[c].req.override

(***************************************************************************)
(* The switch "ausgebucht" and the retirement of a window bind every       *)
(* booking from the moment they are set: before its start, nobody books a  *)
(* full window without saying so, nor a retired one that was not already   *)
(* the order's own. The snapshot a booking decides by may be older.        *)
(***************************************************************************)
BookingRespectsSwitches ==
    [][\A o \in Orders : Books(o) =>
         /\ order'[o].window \in full \ started => Overridden(o)
         /\ order'[o].window \in retired \ started => order'[o].window = order[o].window]_vars

(***************************************************************************)
(* The booked window of a binding order never changes, as                  *)
(* delivery_completion.py promises the customer.                           *)
(***************************************************************************)
BookedWindowStays ==
    [][\A o \in Orders :
         order[o].status \notin {"none", "draft"} /\ order[o].window # NoWindow
             => order'[o].window = order[o].window]_vars

(***************************************************************************)
(* An invoice is issued on the terms in force at that moment: the active   *)
(* legal configuration, and where deliveries are planned never for an      *)
(* order without a delivery window.                                        *)
(***************************************************************************)
IssuedOnCurrentTerms ==
    [][\A o \in Orders : invoice[o] = NoInvoice /\ invoice'[o] # NoInvoice =>
         /\ invoice'[o].law = law
         /\ enabled => order[o].window # NoWindow]_vars

(***************************************************************************)
(* What cancellation_block and the user documentation tell the user whose  *)
(* order has a recorded payment: reverse the payment in the invoice, then  *)
(* cancel the order. So while the order is refused for the payment, the    *)
(* payment can be reversed.                                                *)
(***************************************************************************)
PaymentBlockCanBeLifted ==
    \A o \in Orders :
        order[o].status = "invoiced" /\ PaymentRecorded(o) => Reversible(o)

=============================================================================
