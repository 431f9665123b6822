--------------------------- MODULE DeliveryBoard ---------------------------
(***************************************************************************)
(* The delivery day board of one delivery window: drops (orders booked     *)
(* into the window) are ticked off by drivers and managers, managers close *)
(* and reopen the window, and a missed drop has a "Nachliefern" task.      *)
(*                                                                         *)
(* Every command locks the window row FOR UPDATE (the bookings and driver  *)
(* assignments take it FOR SHARE), so the bodies of two commands never     *)
(* overlap and each body is one step.  But `_lock_window' reads whether    *)
(* the window is closed with a subquery of the locking statement itself:   *)
(* at READ COMMITTED that subquery sees the snapshot taken when the        *)
(* statement began, before it waited for the lock.  A request is therefore *)
(* sent in one step, which reads the closure, and carried out in another.  *)
(***************************************************************************)
EXTENDS Naturals

CONSTANTS
    Drops,        \* the orders that are, or may come to be, in the window
    Managers,     \* users who manage the action
    Drivers,      \* users with the driver role only
    Requests,     \* requests that may be under way at the same time
    NoOne,        \* NULL for a user
    NoTask,       \* the drop has no follow-up task
    Idle,         \* the request slot is unused
    MaxRevision   \* bound on the revision of a drop

VARIABLES
    drop,      \* per order: its status, its commitment_delivery row
    closedBy,  \* delivery_window_closure.closed_by_user_id, NoOne when open
    task,      \* per order: its task_delivery_follow_up task
    request    \* per slot: the board request being prepared or waiting

vars == <<drop, closedBy, task, request>>

States == {"open", "delivered", "missed"}
DropRecords ==
    [order: {"draft", "booked", "cancelled"}, state: States,
     missedAtClosure: BOOLEAN, driver: Drivers \cup {NoOne},
     revision: 0..MaxRevision]

\* `edited' remembers that a user changed the task by hand since the board
\* last synchronised it: the tasks module lets its readers do so.
TaskRecords ==
    [status: {"open", "done"}, assignee: Managers \cup {NoOne}, edited: BOOLEAN]

\* `seen' and `expected' are the state and the revision of the drop on the
\* user's screen, `closed' what the locking statement read of the closure.
StateRequests ==
    [command: {"tick", "undo"}, by: Managers \cup Drivers, drop: Drops,
     seen: States, expected: 0..MaxRevision, closed: {"unread", "yes", "no"}]
WindowRequests ==
    [command: {"close", "reopen"}, by: Managers, closed: {"yes", "no"}]

ASSUME BoardAssumption ==
    /\ MaxRevision \in Nat
    /\ NoOne \notin Managers \cup Drivers
    /\ NoTask \notin TaskRecords
    /\ Idle \notin StateRequests \cup WindowRequests

(***************************************************************************)
(* The state is well formed: rows, tasks and requests have their types.    *)
(***************************************************************************)
BoardTypeOK ==
    /\ drop \in [Drops -> DropRecords]
    /\ closedBy \in Managers \cup {NoOne}
    /\ task \in [Drops -> TaskRecords \cup {NoTask}]
    /\ request \in [Requests -> StateRequests \cup WindowRequests \cup {Idle}]

Init ==
    /\ drop = [d \in Drops |-> [order |-> "draft", state |-> "open",
                                missedAtClosure |-> FALSE, driver |-> NoOne,
                                revision |-> 0]]
    /\ closedBy = NoOne
    /\ task = [d \in Drops |-> NoTask]
    /\ request = [r \in Requests |-> Idle]

-----------------------------------------------------------------------------
(* The drops a command reads: deliverable orders, and for managers the     *)
(* delivered ones that were cancelled.                                     *)
Deliverable(d) == drop[d].order = "booked"
OnBoard(d) == Deliverable(d) \/ (drop[d].order = "cancelled" /\ drop[d].state = "delivered")

\* decide_state_change: when it raises nothing ...
MayChange(row, tick, closed, manager, assigned) ==
    /\ manager \/ assigned
    /\ ~closed => row.state # "missed"
    /\ closed => manager
    /\ closed /\ ~tick /\ row.state = "delivered" => row.missedAtClosure

\* ... the state it decides on; an unchanged state is its None.
Decided(row, tick, closed) ==
    IF tick THEN "delivered"
    ELSE IF ~closed THEN "open"
    ELSE IF row.state = "delivered" THEN "missed" ELSE row.state

\* Mutant: the expected revision is not compared.
IsCurrentAlways(row, req) == TRUE

\* The optimistic check: the drop is still the one on the user's screen.
IsCurrent(row, req) == row.revision = req.expected

\* TaskDeliveryFollowUp.sync: a needed task is created, reopened or moved to
\* the assignee; one that is not needed is marked done if there is one.
Synced(t, needed, assignee) ==
    CASE needed -> [status |-> "open", assignee |-> assignee, edited |-> FALSE]
      [] ~needed /\ t = NoTask -> NoTask
      [] ~needed /\ t # NoTask -> [t EXCEPT !.status = "done", !.edited = FALSE]

\* Mutant: the insert and the update branch of the upsert both count.
WrittenTwice(row, state) ==
    [row EXCEPT !.state = state, !.revision = @ + 2]

\* A row written by a command: every write of a state counts the revision.
Written(row, state) ==
    [row EXCEPT !.state = state, !.revision = @ + 1]

\* Mutant: the closure marks the drops without counting their revision.
ClosesQuietly(row) == [row EXCEPT !.state = "missed", !.missedAtClosure = TRUE]

Closes(row) == [Written(row, "missed") EXCEPT !.missedAtClosure = TRUE]

Reopens(row) ==
    [(IF row.state = "missed" THEN Written(row, "open") ELSE row)
        EXCEPT !.missedAtClosure = FALSE]

Waiting(r, commands) ==
    /\ request[r] # Idle
    /\ request[r].command \in commands
    /\ request[r].closed # "unread"

Done(r) == request' = [request EXCEPT ![r] = Idle]

-----------------------------------------------------------------------------
(* Orders: a draft is booked into the window, open or closed; drivers are  *)
(* assigned in bulk; an order that is not delivered may be cancelled.      *)
Book(d) ==
    /\ drop[d].order = "draft"
    /\ drop' = [drop EXCEPT ![d].order = "booked"]
    /\ UNCHANGED <<closedBy, task, request>>

AssignDriver(ds, u) ==
    LET changed == {d \in ds : drop[d].revision = 0 \/ drop[d].driver # u} IN
    /\ ds # {} /\ \A d \in ds : Deliverable(d)
    /\ \A d \in changed : drop[d].revision < MaxRevision
    /\ drop' = [d \in Drops |->
                  IF d \in changed
                  THEN [drop[d] EXCEPT !.driver = u, !.revision = @ + 1]
                  ELSE drop[d]]
    /\ UNCHANGED <<closedBy, task, request>>

\* Mutant: the cancellation leaves the task alone.
CancelOrderOnly(d, m) ==
    /\ drop[d].order = "booked"
    /\ drop[d].state # "delivered"
    /\ drop' = [drop EXCEPT ![d].order = "cancelled"]
    /\ UNCHANGED <<closedBy, task, request>>

CancelOrder(d, m) ==
    /\ drop[d].order = "booked"
    /\ drop[d].state # "delivered"
    /\ drop' = [drop EXCEPT ![d].order = "cancelled"]
    /\ task' = [task EXCEPT ![d] = Synced(@, FALSE, m)]
    /\ UNCHANGED <<closedBy, request>>

\* The tasks module: its users mark the task done, reopen or reassign it.
EditTask(d, status, m) ==
    /\ task[d] # NoTask
    /\ task' = [task EXCEPT ![d] = [status |-> status, assignee |-> m, edited |-> TRUE]]
    /\ UNCHANGED <<drop, closedBy, request>>

-----------------------------------------------------------------------------
(* A user looks at a drop and picks a command; the request checks that a   *)
(* driver is assigned and then reads the closure and waits for the window. *)
View(r, u, d, command) ==
    /\ request[r] = Idle
    /\ IF u \in Managers THEN OnBoard(d) ELSE Deliverable(d) /\ drop[d].driver = u
    /\ request' = [request EXCEPT ![r] =
         [command |-> command, by |-> u, drop |-> d, seen |-> drop[d].state,
          expected |-> drop[d].revision, closed |-> "unread"]]
    /\ UNCHANGED <<drop, closedBy, task>>

ClosureRead == IF closedBy = NoOne THEN "no" ELSE "yes"

Send(r) ==
    /\ request[r] # Idle
    /\ request[r].closed = "unread"
    /\ \/ request[r].by \in Managers
       \/ drop[request[r].drop].driver = request[r].by
    /\ request' = [request EXCEPT ![r].closed = ClosureRead]
    /\ UNCHANGED <<drop, closedBy, task>>

SendWindowCommand(r, m, command) ==
    /\ request[r] = Idle
    /\ request' = [request EXCEPT ![r] =
         [command |-> command, by |-> m, closed |-> ClosureRead]]
    /\ UNCHANGED <<drop, closedBy, task>>

\* The user leaves the page, the 403 of an unassigned driver, a lost
\* connection: the transaction, if there is one, is rolled back.
Withdraw(r) ==
    /\ request[r] # Idle
    /\ Done(r)
    /\ UNCHANGED <<drop, closedBy, task>>

-----------------------------------------------------------------------------
(* The bodies of the commands, with the window locked.                     *)
SetState(r) ==
    LET req == request[r]
        d == req.drop
        row == drop[d]
        tick == req.command = "tick"
        closed == req.closed = "yes"
        new == Decided(row, tick, closed)
        applies == /\ Deliverable(d)
                   /\ MayChange(row, tick, closed, req.by \in Managers, row.driver = req.by)
                   /\ new # row.state
                   /\ IsCurrent(row, req)
        followUp == row.state = "missed" \/ new = "missed"
        closer == IF closedBy = NoOne THEN req.by ELSE closedBy
    IN
    /\ Waiting(r, {"tick", "undo"})
    /\ IF applies
       THEN /\ row.revision < MaxRevision
            /\ drop' = [drop EXCEPT ![d] = Written(@, new)]
            /\ task' = IF followUp
                       THEN [task EXCEPT ![d] = Synced(@, new = "missed", closer)]
                       ELSE task
       ELSE UNCHANGED <<drop, task>>
    /\ Done(r)
    /\ UNCHANGED closedBy

\* A closure read as existing is answered from its row; one that another
\* request created since the read is a duplicate key: nothing happens.
CloseWindow(r) ==
    LET missed == {d \in Drops : Deliverable(d) /\ drop[d].state = "open"}
        m == request[r].by
    IN
    /\ Waiting(r, {"close"})
    /\ IF request[r].closed = "no" /\ closedBy = NoOne
       THEN /\ \A d \in missed : drop[d].revision < MaxRevision
            /\ drop' = [d \in Drops |-> IF d \in missed THEN Closes(drop[d]) ELSE drop[d]]
            /\ task' = [d \in Drops |-> IF d \in missed THEN Synced(task[d], TRUE, m) ELSE task[d]]
            /\ closedBy' = m
       ELSE UNCHANGED <<drop, task, closedBy>>
    /\ Done(r)

ReopenWindow(r) ==
    LET drops == {d \in Drops : OnBoard(d)}
        missed == {d \in drops : drop[d].state = "missed"}
    IN
    /\ Waiting(r, {"reopen"})
    /\ IF request[r].closed = "yes"
       THEN /\ \A d \in missed : drop[d].revision < MaxRevision
            /\ drop' = [d \in Drops |-> IF d \in drops THEN Reopens(drop[d]) ELSE drop[d]]
            /\ task' = [d \in Drops |->
                          IF d \in missed THEN Synced(task[d], FALSE, request[r].by) ELSE task[d]]
            /\ closedBy' = NoOne
       ELSE UNCHANGED <<drop, task, closedBy>>
    /\ Done(r)

-----------------------------------------------------------------------------
Next ==
    \/ \E d \in Drops :
         \/ Book(d)
         \/ \E m \in Managers : CancelOrder(d, m)
         \/ \E m \in Managers \cup {NoOne}, s \in {"open", "done"} : EditTask(d, s, m)
    \/ \E ds \in SUBSET Drops, u \in Drivers \cup {NoOne} : AssignDriver(ds, u)
    \/ \E r \in Requests :
         \/ \E u \in Managers \cup Drivers, d \in Drops, c \in {"tick", "undo"} :
              View(r, u, d, c)
         \/ \E m \in Managers, c \in {"close", "reopen"} : SendWindowCommand(r, m, c)
         \/ Send(r)
         \/ Withdraw(r)
         \/ SetState(r)
         \/ CloseWindow(r)
         \/ ReopenWindow(r)

Spec == Init /\ [][Next]_vars

-----------------------------------------------------------------------------
(***************************************************************************)
(* The "Nachliefern" task mirrors the drop, as delivery_follow_up.py says: *)
(* until a user edits it, the task is open exactly while the order is      *)
(* still to be delivered and its drop is missed, and then it belongs to    *)
(* the person who closed the window.                                       *)
(***************************************************************************)
FollowUpMirrorsDrop ==
    \A d \in Drops :
        LET missing == Deliverable(d) /\ drop[d].state = "missed" IN
        /\ missing => task[d] # NoTask
        /\ task[d] # NoTask /\ ~task[d].edited =>
             /\ (task[d].status = "open") = missing
             /\ missing => task[d].assignee = closedBy

(***************************************************************************)
(* The mark missed_at_closure says what a closure did: a missed drop has   *)
(* it, no drop that counts as open has it, and while the order is          *)
(* deliverable it is only set in a closed window.  decide_state_change     *)
(* relies on it to send an undone delivery back to missed.                 *)
(***************************************************************************)
ClosureMarkSound ==
    \A d \in Drops :
        /\ drop[d].state = "missed" => drop[d].missedAtClosure
        /\ drop[d].missedAtClosure =>
             /\ drop[d].state # "open"
             /\ Deliverable(d) => closedBy # NoOne

(***************************************************************************)
(* The revision names the state: a user whose screen shows the current     *)
(* revision of a drop sees its current state, whatever was closed,         *)
(* reopened or assigned since, so set_state's revision check is enough to  *)
(* refuse a tick on an outdated view.                                      *)
(***************************************************************************)
RevisionNamesState ==
    \A r \in Requests :
        LET req == request[r] IN
        req \in StateRequests /\ req.expected = drop[req.drop].revision
            => req.seen = drop[req.drop].state

(***************************************************************************)
(* A cancelled order is never marked delivered: a tick and a cancellation  *)
(* of the same order exclude each other, whichever gets the window first.  *)
(***************************************************************************)
CancelledNeverDelivered ==
    \A d \in Drops : drop[d].order = "cancelled" => drop[d].state # "delivered"

\* Some manager's request ends in this step.
ByManager ==
    \E r \in Requests :
        request[r] # Idle /\ request'[r] = Idle /\ request[r].by \in Managers

(***************************************************************************)
(* A missed drop is a manager's: whatever closure a driver's request read, *)
(* only a manager's command moves a drop out of missed.                    *)
(***************************************************************************)
MissedMovesByManager ==
    [][\A d \in Drops :
         drop[d].state = "missed" /\ drop'[d].state # "missed" => ByManager]_vars

(***************************************************************************)
(* What the board's documentation promises drivers: once the window is     *)
(* closed, no request of theirs changes the state of a drop.               *)
(***************************************************************************)
ClosedWindowIsFinalForDrivers ==
    [][\A d \in Drops :
         closedBy # NoOne /\ drop'[d].state # drop[d].state => ByManager]_vars
=============================================================================
