----------------------------- MODULE OrderLocks -----------------------------
(***************************************************************************)
(* The locks of the commands on one action's orders, delivery windows,     *)
(* invoices and follow-up tasks. retry.py gives the order in which they    *)
(* should be taken: action, configuration, advisory locks of the invoice,  *)
(* windows, order, delivery, invoice, lists and tasks.                     *)
(*                                                                         *)
(* A command is the sequence of its statements that lock rows, the ones    *)
(* foreign keys take included (an audit event locks its action FOR KEY     *)
(* SHARE); what it writes is modelled where another command's locks depend *)
(* on it: the list and the assignee of a follow-up task. The lock on the   *)
(* command's key comes first and alone and is left out, as are the users'  *)
(* rows, which no command here updates. Every command may end at any point *)
(* (a refusal, a serialization failure, a deadlock's victim); a retry is a *)
(* new command. Orders keep their windows: one that finds its order in     *)
(* another window than it read ends. Every order has had its follow-up     *)
(* task, in the list of who closed its window before.                      *)
(***************************************************************************)
EXTENDS Integers

CONSTANTS Orders, Windows,   \* their ids, which give the order of locking
          Users,             \* a follow-up list each, by the list's id
          WindowOf,          \* the window an order has booked
          FirstCloser,       \* who closed a window before and has its tasks
          Invoiced,          \* the orders that have an invoice
          Looks,             \* attempts of _lock_current
          Calls, MaxCommands \* bounds

ASSUME OrderLocksAssumption ==
  /\ Orders \subseteq Nat \ {0} /\ Windows \subseteq Nat /\ Users \subseteq Nat
  /\ WindowOf \in [Orders -> Windows]
  /\ FirstCloser \in [Windows -> Users]
  /\ Invoiced \subseteq Orders
  /\ Looks \in Nat \ {0}
  /\ MaxCommands \in Nat

VARIABLES list,      \* task.list_id of the order's follow-up task
          assignee,  \* task.assignee_user_id
          call,      \* the commands' transactions
          commands   \* commands so far

vars == <<list, assignee, call, commands>>

Lock(table, id, mode) == [table |-> table, id |-> id, mode |-> mode]
\* A statement that locks rows ORDER BY id
Rows(table, ids, mode) == {Lock(table, i, mode) : i \in ids}
Row(table, id, mode) == Rows(table, {id}, mode)
Action(mode) == Row("action", 0, mode)
Configuration(mode) == Row("configuration", 0, mode)
Audit == Action("keyshare")
NoRow == {}

Statement(i, rows) == {[step |-> i, lock |-> l] : l \in rows}
Statements(s) == UNION {Statement(i, s[i]) : i \in DOMAIN s}

\* plan: the locks still to take, each with its statement; todo: the orders
\* whose follow-up tasks are still to be synchronised for user; seen: the
\* task as it was read.
Idle == [kind |-> "none", plan |-> {}, locks |-> {}, todo |-> {}, done |-> {}, moved |-> {},
         user |-> 0, needed |-> FALSE, at |-> 0, seen |-> <<0, 0>>, looks |-> 0]
Command(kind, plan) == [Idle EXCEPT !.kind = kind, !.plan = plan]
ThenSync(cmd, todo, user, needed) ==
  [cmd EXCEPT !.todo = todo, !.user = user, !.needed = needed]

-----------------------------------------------------------------------------
create(w) ==
  Command("create",
          Statements(<<Action("share"), Configuration("share"), Row("window", w, "share")>>))

\* Mutant: the order is locked before its windows.
completeOrderFirst(o, w) ==
  Command("complete", Statements(<<Action("share"), Configuration("share"),
                                   Row("order", o, "update"),
                                   Rows("window", {WindowOf[o], w}, "share")>>))

\* complete_draft and complete_delivery: lock_order_windows and
\* guard_window_booking, which locks a window they have already
complete(o, w) ==
  Command("complete", Statements(<<Action("share"), Configuration("share"),
                                   Rows("window", {WindowOf[o], w}, "share"),
                                   Row("order", o, "update")>>))

issue(o) ==
  Command("issue", Statements(<<Action("share"), Configuration("share"), Row("order", o, "update"),
                                Row("profile", 0, "update"), Row("legal", 0, "share")>>))

OfInvoice(o, rows) == IF o \in Invoiced THEN rows ELSE NoRow

cancel(o) ==
  ThenSync(Command("cancel", Statements(<<Action("share"),
                                          OfInvoice(o, Row("payments", o, "update")),
                                          OfInvoice(o, Row("cancellation", o, "update")),
                                          Row("window", WindowOf[o], "update"),
                                          Row("order", o, "update"), Row("delivery", o, "update"),
                                          OfInvoice(o, Row("invoice", o, "update"))>>)),
           {o}, 0, FALSE)

\* record_payment, reverse_payment
settle_invoice(o) ==
  Command("settle_invoice",
          Statements(<<Row("payments", o, "update"), Row("invoice", o, "update"), Audit>>))

cancel_invoice(o) ==
  Command("cancel_invoice",
          Statements(<<Row("cancellation", o, "update"), Row("invoice", o, "update"), Audit>>))

\* The request for a mail, and its confirmation
request_mail(o) == Command("request_mail", Statements(<<Row("invoice", o, "update"), Audit>>))
mark_sent(o) ==
  Command("mark_sent", Statements(<<Row("mail", o, "update"), Row("invoice", o, "nokey"), Audit>>))

set_fully_booked(w) ==
  Command("set_fully_booked", Statements(<<Action("share"), Row("window", w, "update")>>))

\* The windows are updated one by one, as the form lists them.
save(form) ==
  Command("save", Statements(<<Action("update"), Configuration("nokey")>>)
                  \cup UNION {Statement(3 + form[w], Row("window", w, "nokey")) : w \in Windows})

\* A tick that changes no task, closes one, or reopens one for the closer. A
\* new row of commitment_delivery refers to its order and to the action.
set_state(o) ==
  Command("set_state",
          Statements(<<Row("window", WindowOf[o], "update"), Row("delivery", o, "update"),
                       Row("order", o, "keyshare"), Audit>>))
delivered_late(o) == ThenSync(set_state(o), {o}, 0, FALSE)
missed_again(o, u) == ThenSync(set_state(o), {o}, u, TRUE)

close_window(w, missed, u) ==
  ThenSync(Command("close_window",
                   Statements(<<Row("window", w, "update"), Rows("delivery", missed, "update"),
                                Rows("order", missed, "keyshare"), Audit>>)),
           missed, u, TRUE)

reopen_window(w, missed) ==
  ThenSync(Command("reopen_window",
                   Statements(<<Row("window", w, "update"), Rows("delivery", missed, "update"),
                                Audit>>)),
           missed, 0, FALSE)

assign_driver(os) ==
  Command("assign_driver",
          Statements(<<Rows("window", {WindowOf[o] : o \in os}, "share"),
                       Rows("order", os, "update"), Rows("delivery", os, "update"),
                       Rows("order", os, "keyshare"), Audit>>))

\* update_task: the follow-up task of o is given to u by hand.
update_task(o, u) == ThenSync(Command("update_task", {}), {o}, u, FALSE)

activate ==
  Command("activate", Statements(<<Row("legal", 0, "update"), Row("profile", 0, "nokey")>>))

\* update_details of an action; a change of its status locks the same rows
update_details ==
  Command("update_details", Statements(<<Action("nokey"), Configuration("share")>>))

\* A closure or reopening without a missed drop takes the first of these
\* locks only and is left out.
Forms == {f \in [Windows -> Windows] : \A v, w \in Windows : f[v] = f[w] => v = w}
OrdersIn(w) == {o \in Orders : WindowOf[o] = w}

Commands ==
  UNION {
    {create(w) : w \in Windows}, {complete(o, w) : o \in Orders, w \in Windows},
    {issue(o) : o \in Orders \ Invoiced}, {cancel(o) : o \in Orders},
    {settle_invoice(o) : o \in Invoiced}, {cancel_invoice(o) : o \in Invoiced},
    {request_mail(o) : o \in Invoiced}, {mark_sent(o) : o \in Invoiced},
    {set_fully_booked(w) : w \in Windows}, {save(f) : f \in Forms},
    {set_state(o) : o \in Orders}, {delivered_late(o) : o \in Orders},
    {missed_again(o, u) : o \in Orders, u \in Users},
    UNION {{close_window(w, missed, u) : missed \in SUBSET OrdersIn(w) \ {{}}, u \in Users}
             : w \in Windows},
    UNION {{reopen_window(w, missed) : missed \in SUBSET OrdersIn(w) \ {{}}} : w \in Windows},
    {assign_driver(os) : os \in SUBSET Orders \ {{}}},
    {update_task(o, u) : o \in Orders, u \in Users},
    {activate, update_details}}

-----------------------------------------------------------------------------
\* The lock of n is the one that the command takes next.
Before(k, l) == k.step < l.step \/ (k.step = l.step /\ k.lock.id < l.lock.id)
Upcoming(m, n) == n \in m.plan /\ \A k \in m.plan : ~Before(k, n)

Strength(mode) ==
  CASE mode = "keyshare" -> 1 [] mode = "share" -> 2 [] mode = "nokey" -> 3 [] mode = "update" -> 4
Conflict(m1, m2) == Strength(m1) + Strength(m2) >= 5
SameRow(k, l) == k.table = l.table /\ k.id = l.id

Holds(d, n) == \E l \in call[d].locks : SameRow(n, l) /\ Conflict(n.mode, l.mode)
\* c's next lock is one that d's transaction holds.
Waits(c, d) == c # d /\ \E n \in call[c].plan : Upcoming(call[c], n) /\ Holds(d, n.lock)

Begin(c) ==
  /\ call[c].kind = "none"
  /\ commands < MaxCommands
  /\ commands' = commands + 1
  /\ \E cmd \in Commands : call' = [call EXCEPT ![c] = cmd]
  /\ UNCHANGED <<list, assignee>>

TakeLock(c) ==
  LET m == call[c] IN
  /\ \E n \in m.plan :
       /\ Upcoming(m, n)
       /\ \A d \in Calls \ {c} : ~Holds(d, n.lock)
       /\ call' = [call EXCEPT ![c] =
            [m EXCEPT !.plan = m.plan \ {n}, !.locks = m.locks \cup {n.lock}]]
  /\ UNCHANGED <<list, assignee, commands>>

\* The list an open task must move to, when it is another closer's
MovesTo(m, o) == IF m.needed /\ assignee[o] # m.user THEN {m.user} ELSE {}

\* _lock_current reads the task and then locks its lists and the task;
\* update_task does so with the one list.
Look(c, o) ==
  LET m == call[c] IN
  /\ m.plan = {}
  /\ o \in m.todo /\ m.at \in {0, o}
  /\ m.looks < Looks
  /\ call' = [call EXCEPT ![c] =
       [m EXCEPT !.at = o, !.seen = <<list[o], assignee[o]>>, !.looks = m.looks + 1,
                 !.plan = Statements(<<Rows("list", {list[o]} \cup MovesTo(m, o), "update"),
                                       Row("task", o, "update")>>),
                 !.todo = m.todo \ {o}]]
  /\ UNCHANGED <<list, assignee, commands>>

\* Mutant: the task is not compared with what was read before the locks.
Unchecked(m) == TRUE
Unchanged(m) == m.seen = <<list[m.at], assignee[m.at]>>

\* Looks again, with the locks of the first look kept
LookAgain(c) ==
  LET m == call[c] IN
  /\ m.plan = {} /\ m.at # 0 /\ m.at \notin m.todo
  /\ m.kind # "update_task"
  /\ ~Unchanged(m)
  /\ call' = [call EXCEPT ![c] = [m EXCEPT !.todo = m.todo \cup {m.at}]]
  /\ UNCHANGED <<list, assignee, commands>>

\* sync has the task; done are the tasks it moves when the command commits.
Synced(c) ==
  LET m == call[c] IN
  /\ m.plan = {} /\ m.at # 0 /\ m.at \notin m.todo
  /\ m.kind # "update_task" => Unchanged(m)
  /\ call' = [call EXCEPT ![c] =
       [m EXCEPT !.at = 0, !.looks = 0, !.seen = <<0, 0>>, !.done = m.done \cup {m.at},
                 !.moved = m.moved \cup (IF m.kind = "update_task" \/ m.seen[2] # m.user
                                        THEN {m.at} ELSE {})]]
  /\ UNCHANGED <<list, assignee, commands>>

Commit(c) ==
  LET m == call[c] IN
  /\ m.kind # "none"
  /\ m.plan = {} /\ m.todo = {} /\ m.at = 0
  /\ list' = [o \in Orders |-> IF m.needed /\ o \in m.moved THEN m.user ELSE list[o]]
  /\ assignee' = [o \in Orders |->
       IF (m.needed \/ m.kind = "update_task") /\ o \in m.moved THEN m.user ELSE assignee[o]]
  /\ call' = [call EXCEPT ![c] = Idle]
  /\ UNCHANGED commands

RollBack(c) ==
  /\ call[c].kind # "none"
  /\ call' = [call EXCEPT ![c] = Idle]
  /\ UNCHANGED <<list, assignee, commands>>

Init ==
  /\ list = [o \in Orders |-> FirstCloser[WindowOf[o]]]
  /\ assignee = list
  /\ call = [c \in Calls |-> Idle]
  /\ commands = 0

Next ==
  \E c \in Calls :
    \/ Begin(c) \/ TakeLock(c) \/ LookAgain(c) \/ Synced(c) \/ Commit(c) \/ RollBack(c)
    \/ \E o \in Orders : Look(c, o)

Spec == Init /\ [][Next]_vars

-----------------------------------------------------------------------------
Kinds == {"create", "complete", "issue", "cancel", "settle_invoice", "cancel_invoice",
          "request_mail", "mark_sent", "set_fully_booked", "save", "set_state", "close_window",
          "reopen_window", "assign_driver", "update_task", "activate", "update_details"}
Tables == {"action", "configuration", "payments", "cancellation", "mail", "window", "order",
           "delivery", "invoice", "list", "task", "profile", "legal"}
Locks == [table : Tables, id : Nat, mode : {"keyshare", "share", "nokey", "update"}]
CallRows == [kind : Kinds \cup {"none"}, plan : SUBSET [step : Nat, lock : Locks],
             locks : SUBSET Locks, todo : SUBSET Orders, done : SUBSET Orders,
             moved : SUBSET Orders, user : Nat, needed : BOOLEAN, at : Orders \cup {0},
             seen : Nat \X Nat, looks : 0..Looks]

TypeOK ==
  /\ list \in [Orders -> Users] /\ assignee \in [Orders -> Users]
  /\ call \in [Calls -> CallRows]
  /\ commands \in Nat

\* c is not part of a cycle: some set of calls contains all c waits for and
\* all that they wait for, but not c.
NotInCycle(c) ==
  \E R \in SUBSET (Calls \ {c}) :
    /\ \A d \in Calls : Waits(c, d) => d \in R
    /\ \A d \in R, e \in Calls : Waits(d, e) => e \in R

Unordered == {"save", "activate", "set_state", "close_window", "reopen_window"}

\* The commands that take their locks in another order than a command does:
\* the edit of a task holds the list it read before it waits for the task,
\* while one that synchronises several tasks holds the first task as it waits
\* for the list it moves the next one to.
OutOfOrderFor(kind) ==
  CASE kind = "assign_driver" -> {"save"}
    [] kind = "issue" -> {"activate"}
    [] kind = "update_task" -> {"close_window", "reopen_window", "set_state"}
    [] OTHER -> {}

\* Commands that follow the order of retry.py "cannot deadlock with each
\* other", nor can the ones of this action that do not follow it make them
\* wait in a cycle: an order, its completion, cancellation, payment, invoice's
\* cancellation and mail and the switch for full windows always go through, an
\* invoice unless a legal configuration is activated, a driver unless the
\* delivery planning is saved, the edit of a task unless the day board moves
\* tasks.
OrderCommandsGoThrough ==
  \A c \in Calls :
    \/ call[c].kind \in Unordered \cup {"none"}
    \/ \E d \in Calls : call[d].kind \in OutOfOrderFor(call[c].kind)
    \/ NotInCycle(c)

\* A closure, or a drop missed again, gives every task it has synchronised to
\* the closer when it commits, whoever edits the tasks by hand meanwhile: it
\* moves the task, or the task is the closer's.
ClosureTakesTasks ==
  \A c \in Calls : call[c].needed =>
    \A o \in call[c].done : o \in call[c].moved \/ assignee[o] = call[c].user
=============================================================================
