------------------------ MODULE DeliveryBoardProofs ------------------------
(***************************************************************************)
(* For any number of drops, users and requests: DeliveryBoard is type      *)
(* correct, closure marks and revisions mean what the board takes them     *)
(* for, follow-up tasks mirror the drops, and missed drops are moved by    *)
(* managers only.                                                          *)
(***************************************************************************)
EXTENDS DeliveryBoard, TLAPS

(* No screen is ahead of the table. *)
ExpectedNotAhead ==
    \A r \in Requests :
        request[r] \in StateRequests =>
            request[r].expected <= drop[request[r].drop].revision

(* An order that is not booked yet has an untouched drop. *)
DraftIsBlank ==
    \A d \in Drops : drop[d].order = "draft" =>
        drop[d].state = "open" /\ ~drop[d].missedAtClosure

(* A request that read an open window and still shows the current revision *)
(* meets no mark of a closure: what it did not see counted the revision.   *)
OpenReadingUnmarked ==
    \A r \in Requests :
        LET req == request[r] IN
        /\ req \in StateRequests
        /\ req.closed = "no"
        /\ req.expected = drop[req.drop].revision
        /\ Deliverable(req.drop)
        => ~drop[req.drop].missedAtClosure

RevisionInv == BoardTypeOK /\ ExpectedNotAhead /\ RevisionNamesState

MarkInv == /\ RevisionInv
           /\ DraftIsBlank
           /\ OpenReadingUnmarked
           /\ ClosureMarkSound

MirrorInv == MarkInv /\ FollowUpMirrorsDrop

USE BoardAssumption

-----------------------------------------------------------------------------
(* What a request in the table looks like.                                 *)
LEMMA RequestKinds ==
  ASSUME BoardTypeOK, NEW r \in Requests
  PROVE  /\ request[r] # Idle => request[r] \in StateRequests \cup WindowRequests
         /\ Waiting(r, {"tick", "undo"}) =>
              request[r] \in StateRequests /\ request[r].closed \in {"yes", "no"}
         /\ Waiting(r, {"close"}) \/ Waiting(r, {"reopen"}) =>
              request[r] \in WindowRequests
  BY DEF BoardTypeOK, Waiting, StateRequests, WindowRequests

LEMMA SyncedTyped ==
  ASSUME NEW t \in TaskRecords \cup {NoTask}, NEW needed \in BOOLEAN,
         NEW m, needed => m \in Managers \cup {NoOne}
  PROVE  Synced(t, needed, m) \in TaskRecords \cup {NoTask}
<1>1. CASE needed
  BY <1>1 DEF Synced, TaskRecords
<1>2. CASE ~needed /\ t = NoTask
  BY <1>2 DEF Synced
<1>3. CASE ~needed /\ t # NoTask
  BY <1>3 DEF Synced, TaskRecords
<1> QED BY <1>1, <1>2, <1>3

(* A board command writes rows of the table's type.                        *)
LEMMA RowsTyped ==
  ASSUME NEW row \in DropRecords
  PROVE  /\ row.revision < MaxRevision =>
              \A s \in States : Written(row, s) \in DropRecords
         /\ row.revision < MaxRevision => Closes(row) \in DropRecords
         /\ (row.state = "missed" => row.revision < MaxRevision) =>
              Reopens(row) \in DropRecords
<1>1. ASSUME row.revision < MaxRevision, NEW s \in States
      PROVE  Written(row, s) \in DropRecords
  <2>1. row.revision + 1 \in 0..MaxRevision
    BY <1>1 DEF DropRecords
  <2> QED BY <2>1 DEF Written, DropRecords
<1>2. ASSUME row.revision < MaxRevision PROVE Closes(row) \in DropRecords
  <2>1. Written(row, "missed") \in DropRecords
    BY <1>1, <1>2 DEF States
  <2> QED BY <2>1 DEF Closes, DropRecords
<1>3. ASSUME row.state = "missed" => row.revision < MaxRevision
      PROVE  Reopens(row) \in DropRecords
  <2>1. CASE row.state = "missed"
    <3>1. Written(row, "open") \in DropRecords
      BY <1>1, <1>3, <2>1 DEF States
    <3> QED BY <3>1, <2>1 DEF Reopens, DropRecords
  <2>2. CASE row.state # "missed"
    BY <2>2 DEF Reopens, DropRecords
  <2> QED BY <2>1, <2>2
<1> QED BY <1>1, <1>2, <1>3

LEMMA DoneTyped ==
  ASSUME BoardTypeOK, NEW r \in Requests, Done(r)
  PROVE  /\ request' \in [Requests -> StateRequests \cup WindowRequests \cup {Idle}]
         /\ request'[r] = Idle
         /\ \A q \in Requests \ {r} : request'[q] = request[q]
  BY DEF Done, BoardTypeOK

LEMMA InitTyped == Init => BoardTypeOK
  BY DEF Init, BoardTypeOK, DropRecords, States

LEMMA StepTyped ==
  ASSUME BoardTypeOK, [Next]_vars
  PROVE  BoardTypeOK'
<1>1. ASSUME NEW d \in Drops, Book(d) PROVE BoardTypeOK'
  BY <1>1 DEF Book, BoardTypeOK, DropRecords
<1>2. ASSUME NEW d \in Drops, NEW m \in Managers, CancelOrder(d, m) PROVE BoardTypeOK'
  <2>1. Synced(task[d], FALSE, m) \in TaskRecords \cup {NoTask}
    BY SyncedTyped DEF BoardTypeOK
  <2>2. drop' \in [Drops -> DropRecords]
    BY <1>2 DEF CancelOrder, BoardTypeOK, DropRecords
  <2> QED BY <1>2, <2>1, <2>2 DEF CancelOrder, BoardTypeOK
<1>3. ASSUME NEW d \in Drops, NEW m \in Managers \cup {NoOne}, NEW s \in {"open", "done"},
             EditTask(d, s, m)
      PROVE  BoardTypeOK'
  BY <1>3 DEF EditTask, BoardTypeOK, TaskRecords
<1>4. ASSUME NEW ds \in SUBSET Drops, NEW u \in Drivers \cup {NoOne}, AssignDriver(ds, u)
      PROVE  BoardTypeOK'
  <2> DEFINE changed == {d \in ds : drop[d].revision = 0 \/ drop[d].driver # u}
  <2>1. ASSUME NEW d \in Drops PROVE drop'[d] \in DropRecords
    <3>1. CASE d \in changed
      <4>1. drop[d].revision + 1 \in 0..MaxRevision
        <5>1. drop[d].revision < MaxRevision
          BY <1>4, <3>1 DEF AssignDriver
        <5> QED BY <5>1 DEF BoardTypeOK, DropRecords
      <4>2. drop'[d] = [drop[d] EXCEPT !.driver = u, !.revision = @ + 1]
        BY <1>4, <3>1 DEF AssignDriver
      <4> QED BY <4>1, <4>2 DEF BoardTypeOK, DropRecords
    <3>2. CASE d \notin changed
      BY <1>4, <3>2 DEF AssignDriver, BoardTypeOK
    <3> QED BY <3>1, <3>2
  <2>2. drop' = [d \in Drops |-> drop'[d]]
    BY <1>4 DEF AssignDriver
  <2> QED BY <1>4, <2>1, <2>2 DEF AssignDriver, BoardTypeOK
<1>5. ASSUME NEW r \in Requests, NEW u \in Managers \cup Drivers, NEW d \in Drops,
             NEW c \in {"tick", "undo"}, View(r, u, d, c)
      PROVE  BoardTypeOK'
  BY <1>5 DEF View, BoardTypeOK, DropRecords, StateRequests
<1>6. ASSUME NEW r \in Requests, NEW m \in Managers, NEW c \in {"close", "reopen"},
             SendWindowCommand(r, m, c)
      PROVE  BoardTypeOK'
  BY <1>6 DEF SendWindowCommand, BoardTypeOK, WindowRequests, ClosureRead
<1>7. ASSUME NEW r \in Requests, Send(r) PROVE BoardTypeOK'
  <2>1. request[r] \in StateRequests
    BY <1>7 DEF Send, BoardTypeOK, WindowRequests
  <2>2. [request[r] EXCEPT !.closed = ClosureRead] \in StateRequests
    BY <2>1 DEF StateRequests, ClosureRead
  <2> QED BY <1>7, <2>2 DEF Send, BoardTypeOK
<1>8. ASSUME NEW r \in Requests, Withdraw(r) PROVE BoardTypeOK'
  BY <1>8, DoneTyped DEF Withdraw, BoardTypeOK
<1>9. ASSUME NEW r \in Requests, SetState(r) PROVE BoardTypeOK'
  <2> DEFINE req == request[r]
             d == req.drop
             row == drop[d]
             new == Decided(row, req.command = "tick", req.closed = "yes")
             closer == IF closedBy = NoOne THEN req.by ELSE closedBy
  <2>1. req \in StateRequests
    BY <1>9, RequestKinds DEF SetState
  <2>2. d \in Drops /\ row \in DropRecords /\ new \in States
    BY <2>1 DEF StateRequests, BoardTypeOK, DropRecords, Decided, States
  <2>3. request' \in [Requests -> StateRequests \cup WindowRequests \cup {Idle}]
    BY <1>9, DoneTyped DEF SetState
  <2>4. CASE UNCHANGED <<drop, task>>
    BY <1>9, <2>3, <2>4 DEF SetState, BoardTypeOK
  <2>5. CASE ~UNCHANGED <<drop, task>>
    <3>1. /\ row.revision < MaxRevision
          /\ MayChange(row, req.command = "tick", req.closed = "yes",
                       req.by \in Managers, row.driver = req.by)
          /\ drop' = [drop EXCEPT ![d] = Written(@, new)]
          /\ task' = IF row.state = "missed" \/ new = "missed"
                     THEN [task EXCEPT ![d] = Synced(@, new = "missed", closer)]
                     ELSE task
          /\ new # row.state
          /\ UNCHANGED closedBy
      BY <1>9, <2>5 DEF SetState
    <3>2. Written(row, new) \in DropRecords
      BY <2>2, <3>1, RowsTyped
    <3>3. new = "missed" => closer \in Managers \cup {NoOne}
      BY <3>1 DEF MayChange, Decided, BoardTypeOK
    <3>4. Synced(task[d], new = "missed", closer) \in TaskRecords \cup {NoTask}
      BY <2>2, <3>3, SyncedTyped DEF BoardTypeOK
    <3> QED BY <2>2, <2>3, <3>1, <3>2, <3>4 DEF BoardTypeOK
  <2> QED BY <2>4, <2>5
<1>10. ASSUME NEW r \in Requests, CloseWindow(r) PROVE BoardTypeOK'
  <2> DEFINE missed == {d \in Drops : Deliverable(d) /\ drop[d].state = "open"}
             m == request[r].by
  <2>1. m \in Managers
    BY <1>10, RequestKinds DEF CloseWindow, WindowRequests
  <2>2. request' \in [Requests -> StateRequests \cup WindowRequests \cup {Idle}]
    BY <1>10, DoneTyped DEF CloseWindow
  <2>3. CASE request[r].closed = "no" /\ closedBy = NoOne
    <3>1. /\ \A d \in missed : drop[d].revision < MaxRevision
          /\ drop' = [d \in Drops |-> IF d \in missed THEN Closes(drop[d]) ELSE drop[d]]
          /\ task' = [d \in Drops |->
                        IF d \in missed THEN Synced(task[d], TRUE, m) ELSE task[d]]
          /\ closedBy' = m
      BY <1>10, <2>3 DEF CloseWindow
    <3>2. \A d \in missed : Closes(drop[d]) \in DropRecords
      BY <3>1, RowsTyped DEF BoardTypeOK
    <3>3. \A d \in Drops : Synced(task[d], TRUE, m) \in TaskRecords \cup {NoTask}
      BY <2>1, SyncedTyped DEF BoardTypeOK
    <3> QED BY <2>1, <2>2, <3>1, <3>2, <3>3 DEF BoardTypeOK
  <2>4. CASE ~(request[r].closed = "no" /\ closedBy = NoOne)
    BY <1>10, <2>2, <2>4 DEF CloseWindow, BoardTypeOK
  <2> QED BY <2>3, <2>4
<1>11. ASSUME NEW r \in Requests, ReopenWindow(r) PROVE BoardTypeOK'
  <2> DEFINE drops == {d \in Drops : OnBoard(d)}
             missed == {d \in drops : drop[d].state = "missed"}
  <2>1. request' \in [Requests -> StateRequests \cup WindowRequests \cup {Idle}]
    BY <1>11, DoneTyped DEF ReopenWindow
  <2>2. CASE request[r].closed = "yes"
    <3>1. /\ \A d \in missed : drop[d].revision < MaxRevision
          /\ drop' = [d \in Drops |-> IF d \in drops THEN Reopens(drop[d]) ELSE drop[d]]
          /\ task' = [d \in Drops |->
                        IF d \in missed THEN Synced(task[d], FALSE, request[r].by) ELSE task[d]]
          /\ closedBy' = NoOne
      BY <1>11, <2>2 DEF ReopenWindow
    <3>2. \A d \in drops : Reopens(drop[d]) \in DropRecords
      BY <3>1, RowsTyped DEF BoardTypeOK
    <3>3. \A d \in Drops : Synced(task[d], FALSE, request[r].by) \in TaskRecords \cup {NoTask}
      BY SyncedTyped DEF BoardTypeOK
    <3> QED BY <2>1, <3>1, <3>2, <3>3 DEF BoardTypeOK
  <2>3. CASE request[r].closed # "yes"
    BY <1>11, <2>1, <2>3 DEF ReopenWindow, BoardTypeOK
  <2> QED BY <2>2, <2>3
<1>12. CASE UNCHANGED vars
  BY <1>12 DEF vars, BoardTypeOK
<1> QED BY <1>1, <1>2, <1>3, <1>4, <1>5, <1>6, <1>7, <1>8, <1>9, <1>10, <1>11, <1>12 DEF Next

(***************************************************************************)
(* Rows, tasks and requests keep their types, whoever writes them.         *)
(***************************************************************************)
THEOREM BoardTypeCorrect == Spec => []BoardTypeOK
<1>1. Init => BoardTypeOK
  BY InitTyped
<1>2. BoardTypeOK /\ [Next]_vars => BoardTypeOK'
  BY StepTyped
<1> QED BY <1>1, <1>2, PTL DEF Spec

-----------------------------------------------------------------------------
(* The three ways the body of a command changes a row.                     *)
LEMMA RowWrites ==
  ASSUME NEW row \in DropRecords
  PROVE  /\ \A s \in States : /\ Written(row, s).revision = row.revision + 1
                              /\ Written(row, s).state = s
                              /\ Written(row, s).missedAtClosure = row.missedAtClosure
                              /\ Written(row, s).order = row.order
         /\ Closes(row).revision = row.revision + 1
         /\ Closes(row).state = "missed"
         /\ Closes(row).missedAtClosure
         /\ Closes(row).order = row.order
         /\ ~Reopens(row).missedAtClosure
         /\ Reopens(row).order = row.order
         /\ row.state = "missed" =>
              Reopens(row).revision = row.revision + 1 /\ Reopens(row).state = "open"
         /\ row.state # "missed" =>
              Reopens(row).revision = row.revision /\ Reopens(row).state = row.state
  BY DEF Written, Closes, Reopens, DropRecords, States

(* set_state either leaves the rows alone or writes one, decided with the  *)
(* closure its locking statement read.                                     *)
LEMMA SetStateWrites ==
  ASSUME BoardTypeOK, NEW r \in Requests, SetState(r), ~UNCHANGED <<drop, task>>
  PROVE  LET req == request[r]
             d == req.drop
             row == drop[d]
             tick == req.command = "tick"
             closed == req.closed = "yes"
             new == Decided(row, tick, closed)
         IN  /\ req \in StateRequests
             /\ req.closed \in {"yes", "no"}
             /\ d \in Drops /\ row \in DropRecords /\ new \in States
             /\ row.order = "booked"
             /\ MayChange(row, tick, closed, req.by \in Managers, row.driver = req.by)
             /\ new # row.state
             /\ row.revision = req.expected
             /\ drop' = [drop EXCEPT ![d] = Written(row, new)]
             /\ task' = IF row.state = "missed" \/ new = "missed"
                        THEN [task EXCEPT ![d] =
                                Synced(task[d], new = "missed",
                                       IF closedBy = NoOne THEN req.by ELSE closedBy)]
                        ELSE task
             /\ UNCHANGED closedBy
<1>1. request[r] \in StateRequests /\ request[r].closed \in {"yes", "no"}
  BY RequestKinds DEF SetState
<1>2. request[r].drop \in Drops /\ drop[request[r].drop] \in DropRecords
  BY <1>1 DEF StateRequests, BoardTypeOK
<1>3. \A t, c \in BOOLEAN : Decided(drop[request[r].drop], t, c) \in States
  BY <1>2 DEF Decided, States, DropRecords
<1> QED BY <1>1, <1>2, <1>3 DEF SetState, IsCurrent, Deliverable

(* Every change of a drop's state, and every mark of a closure, counts its *)
(* revision, and a revision never goes back.                               *)
LEMMA RevisionCounts ==
  ASSUME BoardTypeOK, [Next]_vars, NEW d \in Drops
  PROVE  /\ drop'[d].revision >= drop[d].revision
         /\ drop'[d].revision = drop[d].revision =>
              /\ drop'[d].state = drop[d].state
              /\ drop'[d].missedAtClosure => drop[d].missedAtClosure
<1> DEFINE Counts == /\ drop'[d].revision >= drop[d].revision
                     /\ drop'[d].revision = drop[d].revision =>
                          /\ drop'[d].state = drop[d].state
                          /\ drop'[d].missedAtClosure => drop[d].missedAtClosure
<1>0. drop[d] \in DropRecords /\ drop[d].revision \in Nat
  BY DEF BoardTypeOK, DropRecords
<1>1. CASE UNCHANGED drop
  BY <1>0, <1>1
<1>2. ASSUME NEW e \in Drops, Book(e) \/ \E m \in Managers : CancelOrder(e, m) PROVE Counts
  <2>1. \/ drop'[d] = drop[d]
        \/ \E o \in {"booked", "cancelled"} : drop'[d] = [drop[d] EXCEPT !.order = o]
    BY <1>2 DEF Book, CancelOrder, BoardTypeOK
  <2>2. /\ drop'[d].revision = drop[d].revision
        /\ drop'[d].state = drop[d].state
        /\ drop'[d].missedAtClosure = drop[d].missedAtClosure
    BY <1>0, <2>1 DEF DropRecords
  <2> QED BY <1>0, <2>2
<1>3. ASSUME NEW ds \in SUBSET Drops, NEW u \in Drivers \cup {NoOne}, AssignDriver(ds, u)
      PROVE  Counts
  <2>1. \/ drop'[d] = drop[d]
        \/ drop'[d] = [drop[d] EXCEPT !.driver = u, !.revision = @ + 1]
    BY <1>3 DEF AssignDriver
  <2>2. CASE drop'[d] = drop[d]
    BY <1>0, <2>2
  <2>3. CASE drop'[d] = [drop[d] EXCEPT !.driver = u, !.revision = @ + 1]
    <3>1. drop'[d].revision = drop[d].revision + 1
      BY <1>0, <2>3 DEF DropRecords
    <3> QED BY <1>0, <3>1
  <2> QED BY <2>1, <2>2, <2>3
<1>4. ASSUME NEW r \in Requests, SetState(r) PROVE Counts
  <2>1. CASE UNCHANGED <<drop, task>>
    BY <1>1, <2>1
  <2>2. CASE ~UNCHANGED <<drop, task>>
    <3>1. PICK e \in Drops, s \in States : drop' = [drop EXCEPT ![e] = Written(drop[e], s)]
      BY <1>4, <2>2, SetStateWrites
    <3>2. drop'[d] = drop[d] \/ drop'[d] = Written(drop[d], s)
      BY <3>1 DEF BoardTypeOK
    <3> QED BY <1>0, <3>2, RowWrites
  <2> QED BY <2>1, <2>2
<1>5. ASSUME NEW r \in Requests, CloseWindow(r) PROVE Counts
  <2>1. drop'[d] = drop[d] \/ drop'[d] = Closes(drop[d])
    BY <1>5 DEF CloseWindow
  <2> QED BY <1>0, <2>1, RowWrites
<1>6. ASSUME NEW r \in Requests, ReopenWindow(r) PROVE Counts
  <2>1. drop'[d] = drop[d] \/ drop'[d] = Reopens(drop[d])
    BY <1>6 DEF ReopenWindow
  <2> QED BY <1>0, <2>1, RowWrites
<1> QED
  BY <1>1, <1>2, <1>3, <1>4, <1>5, <1>6
  DEF Next, vars, EditTask, View, SendWindowCommand, Send, Withdraw

(* A request about a drop stays as it is, reads the closure, or is opened  *)
(* with what the table shows.                                              *)
LEMMA RequestMoves ==
  ASSUME BoardTypeOK, [Next]_vars, NEW q \in Requests, request'[q] \in StateRequests
  PROVE  \/ request'[q] = request[q]
         \/ /\ UNCHANGED <<drop, closedBy>>
            /\ request[q] \in StateRequests
            /\ request'[q] = [request[q] EXCEPT !.closed = ClosureRead]
         \/ /\ UNCHANGED <<drop, closedBy>>
            /\ request'[q].expected = drop[request'[q].drop].revision
            /\ request'[q].seen = drop[request'[q].drop].state
            /\ request'[q].closed = "unread"
<1> DEFINE Moves == \/ request'[q] = request[q]
                    \/ /\ UNCHANGED <<drop, closedBy>>
                       /\ request[q] \in StateRequests
                       /\ request'[q] = [request[q] EXCEPT !.closed = ClosureRead]
                    \/ /\ UNCHANGED <<drop, closedBy>>
                       /\ request'[q].expected = drop[request'[q].drop].revision
                       /\ request'[q].seen = drop[request'[q].drop].state
                       /\ request'[q].closed = "unread"
<1>1. CASE UNCHANGED request
  BY <1>1
<1>2. ASSUME NEW r \in Requests, NEW u \in Managers \cup Drivers, NEW d \in Drops,
             NEW c \in {"tick", "undo"}, View(r, u, d, c)
      PROVE  Moves
  BY <1>2 DEF View, BoardTypeOK
<1>3. ASSUME NEW r \in Requests, NEW m \in Managers, NEW c \in {"close", "reopen"},
             SendWindowCommand(r, m, c)
      PROVE  Moves
  <2>1. q # r => request'[q] = request[q]
    BY <1>3 DEF SendWindowCommand, BoardTypeOK
  <2>2. q = r => request'[q].command \in {"close", "reopen"}
    BY <1>3 DEF SendWindowCommand, BoardTypeOK
  <2> QED BY <2>1, <2>2 DEF StateRequests
<1>4. ASSUME NEW r \in Requests, Send(r) PROVE Moves
  <2>1. request[r] \in StateRequests
    BY <1>4 DEF Send, BoardTypeOK, WindowRequests
  <2> QED BY <1>4, <2>1 DEF Send, BoardTypeOK
<1>5. ASSUME NEW r \in Requests, Done(r) PROVE Moves
  BY <1>5, DoneTyped
<1> QED
  BY <1>1, <1>2, <1>3, <1>4, <1>5
  DEF Next, vars, Book, CancelOrder, EditTask, AssignDriver, Withdraw, SetState,
      CloseWindow, ReopenWindow

LEMMA StepRevision ==
  ASSUME RevisionInv, [Next]_vars
  PROVE  RevisionInv'
<1> USE DEF RevisionInv
<1>1. BoardTypeOK'
  BY StepTyped
<1>2. ASSUME NEW q \in Requests, request'[q] \in StateRequests
      PROVE  /\ request'[q].expected <= drop'[request'[q].drop].revision
             /\ request'[q].expected = drop'[request'[q].drop].revision =>
                  request'[q].seen = drop'[request'[q].drop].state
  <2>1. /\ request'[q].drop \in Drops
        /\ request'[q].expected \in Nat
        /\ drop[request'[q].drop].revision \in Nat
        /\ drop'[request'[q].drop].revision \in Nat
    BY <1>1, <1>2 DEF StateRequests, BoardTypeOK, DropRecords
  <2>2. CASE request'[q] = request[q]
    BY <1>2, <2>1, <2>2, RevisionCounts DEF ExpectedNotAhead, RevisionNamesState
  <2>3. CASE /\ UNCHANGED <<drop, closedBy>>
             /\ request[q] \in StateRequests
             /\ request'[q] = [request[q] EXCEPT !.closed = ClosureRead]
    BY <2>3 DEF ExpectedNotAhead, RevisionNamesState, StateRequests
  <2>4. CASE /\ UNCHANGED <<drop, closedBy>>
             /\ request'[q].expected = drop[request'[q].drop].revision
             /\ request'[q].seen = drop[request'[q].drop].state
             /\ request'[q].closed = "unread"
    BY <2>1, <2>4
  <2> QED BY <1>2, <2>2, <2>3, <2>4, RequestMoves
<1> QED BY <1>1, <1>2 DEF ExpectedNotAhead, RevisionNamesState, StateRequests

LEMMA AlwaysRevision == Spec => []RevisionInv
<1>1. Init => RevisionInv
  BY InitTyped DEF Init, RevisionInv, ExpectedNotAhead, RevisionNamesState, StateRequests
<1>2. RevisionInv /\ [Next]_vars => RevisionInv'
  BY StepRevision
<1> QED BY <1>1, <1>2, PTL DEF Spec

(***************************************************************************)
(* The revision names the state of a drop, so set_state's comparison of    *)
(* revisions refuses every request that was made from another state.       *)
(***************************************************************************)
THEOREM RevisionsNameStates == Spec => []RevisionNamesState
<1>1. RevisionInv => RevisionNamesState
  BY DEF RevisionInv
<1> QED BY <1>1, AlwaysRevision, PTL

-----------------------------------------------------------------------------
(* What the marks of one row have to satisfy. *)
MarkOf(row, closer) ==
    /\ row.order = "draft" => row.state = "open" /\ ~row.missedAtClosure
    /\ row.state = "missed" => row.missedAtClosure
    /\ row.missedAtClosure => /\ row.state # "open"
                              /\ row.order = "booked" => closer # NoOne

LEMMA MarksRowByRow ==
  DraftIsBlank /\ ClosureMarkSound <=> \A d \in Drops : MarkOf(drop[d], closedBy)
  BY DEF DraftIsBlank, ClosureMarkSound, MarkOf, Deliverable

(* An undo that read an open window meets a delivered drop without mark:   *)
(* the revision it names is the one it saw in that open window.            *)
LEMMA SetStateKeepsMarks ==
  ASSUME MarkInv, NEW r \in Requests, SetState(r), NEW d \in Drops
  PROVE  MarkOf(drop'[d], closedBy')
<1> USE DEF MarkInv, RevisionInv
<1>1. MarkOf(drop[d], closedBy)
  BY MarksRowByRow
<1>2. CASE UNCHANGED <<drop, task>>
  BY <1>1, <1>2 DEF SetState
<1>3. CASE ~UNCHANGED <<drop, task>>
  <2> DEFINE req == request[r]
             e == req.drop
             row == drop[e]
             tick == req.command = "tick"
             closed == req.closed = "yes"
             new == Decided(row, tick, closed)
  <2>1. /\ req \in StateRequests
        /\ req.closed \in {"yes", "no"}
        /\ e \in Drops /\ row \in DropRecords /\ new \in States
        /\ row.order = "booked"
        /\ MayChange(row, tick, closed, req.by \in Managers, row.driver = req.by)
        /\ new # row.state
        /\ row.revision = req.expected
        /\ drop' = [drop EXCEPT ![e] = Written(row, new)]
        /\ UNCHANGED closedBy
    BY <1>3, SetStateWrites
  <2>2. CASE d # e
    BY <1>1, <2>1, <2>2 DEF BoardTypeOK
  <2>3. CASE d = e
    <3>1. /\ drop'[d].order = "booked"
          /\ drop'[d].state = new
          /\ drop'[d].missedAtClosure = row.missedAtClosure
      BY <2>1, <2>3, RowWrites DEF BoardTypeOK
    <3>2. new = "missed" => row.missedAtClosure
      BY <2>1 DEF Decided, MayChange
    <3>3. new = "open" => ~row.missedAtClosure
      <4>1. new = "open" => req.closed = "no"
        BY <2>1 DEF Decided
      <4> QED BY <2>1, <4>1 DEF OpenReadingUnmarked, Deliverable
    <3> QED BY <1>1, <2>1, <2>3, <3>1, <3>2, <3>3 DEF MarkOf
  <2> QED BY <2>2, <2>3
<1> QED BY <1>2, <1>3

LEMMA StepMarks ==
  ASSUME MarkInv, [Next]_vars
  PROVE  \A d \in Drops : MarkOf(drop'[d], closedBy')
<1> USE DEF MarkInv, RevisionInv
<1> SUFFICES ASSUME NEW d \in Drops PROVE MarkOf(drop'[d], closedBy')
  OBVIOUS
<1> DEFINE Goal == MarkOf(drop'[d], closedBy')
<1>0. MarkOf(drop[d], closedBy) /\ drop[d] \in DropRecords
  BY MarksRowByRow DEF BoardTypeOK
<1>1. CASE UNCHANGED <<drop, closedBy>>
  BY <1>0, <1>1
<1>2. ASSUME NEW e \in Drops, Book(e) \/ \E m \in Managers : CancelOrder(e, m) PROVE Goal
  <2>1. \/ drop'[d] = drop[d]
        \/ drop[d].order = "draft" /\ drop'[d] = [drop[d] EXCEPT !.order = "booked"]
        \/ drop'[d] = [drop[d] EXCEPT !.order = "cancelled"]
    BY <1>2 DEF Book, CancelOrder, BoardTypeOK
  <2>2. UNCHANGED closedBy
    BY <1>2 DEF Book, CancelOrder
  <2> QED BY <1>0, <2>1, <2>2 DEF MarkOf, DropRecords
<1>3. ASSUME NEW ds \in SUBSET Drops, NEW u \in Drivers \cup {NoOne}, AssignDriver(ds, u)
      PROVE  Goal
  <2>1. \/ drop'[d] = drop[d]
        \/ drop'[d] = [drop[d] EXCEPT !.driver = u, !.revision = @ + 1]
    BY <1>3 DEF AssignDriver
  <2>2. /\ drop'[d].order = drop[d].order
        /\ drop'[d].state = drop[d].state
        /\ drop'[d].missedAtClosure = drop[d].missedAtClosure
    BY <1>0, <2>1 DEF DropRecords
  <2> QED BY <1>0, <1>3, <2>2 DEF MarkOf, AssignDriver
<1>4. ASSUME NEW r \in Requests, SetState(r) PROVE Goal
  BY <1>4, SetStateKeepsMarks
<1>5. ASSUME NEW r \in Requests, CloseWindow(r) PROVE Goal
  <2>1. CASE request[r].closed = "no" /\ closedBy = NoOne
    <3>1. closedBy' \in Managers
      BY <1>5, <2>1, RequestKinds DEF CloseWindow, WindowRequests
    <3>2. \/ drop'[d] = drop[d]
          \/ drop[d].order = "booked" /\ drop'[d] = Closes(drop[d])
      BY <1>5, <2>1 DEF CloseWindow, Deliverable
    <3> QED BY <1>0, <3>1, <3>2, RowWrites DEF MarkOf
  <2>2. CASE ~(request[r].closed = "no" /\ closedBy = NoOne)
    BY <1>1, <1>5, <2>2 DEF CloseWindow
  <2> QED BY <2>1, <2>2
<1>6. ASSUME NEW r \in Requests, ReopenWindow(r) PROVE Goal
  <2>1. CASE request[r].closed = "yes"
    <3>1. CASE OnBoard(d)
      <4>1. drop'[d] = Reopens(drop[d])
        BY <1>6, <2>1, <3>1 DEF ReopenWindow
      <4>2. drop[d].order # "draft"
        BY <3>1 DEF OnBoard, Deliverable
      <4> QED BY <1>0, <4>1, <4>2, RowWrites DEF MarkOf
    <3>2. CASE ~OnBoard(d)
      <4>1. drop'[d] = drop[d]
        BY <1>6, <2>1, <3>2 DEF ReopenWindow
      <4>2. drop[d].order # "booked"
        BY <3>2 DEF OnBoard, Deliverable
      <4> QED BY <1>0, <4>1, <4>2 DEF MarkOf
    <3> QED BY <3>1, <3>2
  <2>2. CASE request[r].closed # "yes"
    BY <1>1, <1>6, <2>2 DEF ReopenWindow
  <2> QED BY <2>1, <2>2
<1> QED
  BY <1>1, <1>2, <1>3, <1>4, <1>5, <1>6
  DEF Next, vars, EditTask, View, SendWindowCommand, Send, Withdraw

(* A drop that is deliverable after a step was so before, or was a draft. *)
LEMMA DeliverableBefore ==
  ASSUME BoardTypeOK, [Next]_vars, NEW d \in Drops, drop'[d].order = "booked"
  PROVE  drop[d].order \in {"draft", "booked"}
<1>0. drop[d] \in DropRecords
  BY DEF BoardTypeOK
<1> SUFFICES drop[d].order = "draft" \/ drop'[d].order = drop[d].order
  OBVIOUS
<1> DEFINE Goal == drop[d].order = "draft" \/ drop'[d].order = drop[d].order
<1>1. CASE UNCHANGED drop
  BY <1>1
<1>2. ASSUME NEW e \in Drops, Book(e) \/ \E m \in Managers : CancelOrder(e, m) PROVE Goal
  BY <1>2 DEF Book, CancelOrder, BoardTypeOK, DropRecords
<1>3. ASSUME NEW ds \in SUBSET Drops, NEW u \in Drivers \cup {NoOne}, AssignDriver(ds, u)
      PROVE  Goal
  <2>1. \/ drop'[d] = drop[d]
        \/ drop'[d] = [drop[d] EXCEPT !.driver = u, !.revision = @ + 1]
    BY <1>3 DEF AssignDriver
  <2> QED BY <1>0, <2>1 DEF DropRecords
<1>4. ASSUME NEW r \in Requests, SetState(r) PROVE Goal
  <2>1. CASE UNCHANGED <<drop, task>>
    BY <1>1, <2>1
  <2>2. CASE ~UNCHANGED <<drop, task>>
    <3>1. PICK e \in Drops, s \in States : drop' = [drop EXCEPT ![e] = Written(drop[e], s)]
      BY <1>4, <2>2, SetStateWrites
    <3>2. drop'[d] = drop[d] \/ drop'[d] = Written(drop[d], s)
      BY <3>1 DEF BoardTypeOK
    <3> QED BY <1>0, <3>2, RowWrites
  <2> QED BY <2>1, <2>2
<1>5. ASSUME NEW r \in Requests, CloseWindow(r) PROVE Goal
  <2>1. drop'[d] = drop[d] \/ drop'[d] = Closes(drop[d])
    BY <1>5 DEF CloseWindow
  <2> QED BY <1>0, <2>1, RowWrites
<1>6. ASSUME NEW r \in Requests, ReopenWindow(r) PROVE Goal
  <2>1. drop'[d] = drop[d] \/ drop'[d] = Reopens(drop[d])
    BY <1>6 DEF ReopenWindow
  <2> QED BY <1>0, <2>1, RowWrites
<1> QED
  BY <1>1, <1>2, <1>3, <1>4, <1>5, <1>6
  DEF Next, vars, EditTask, View, SendWindowCommand, Send, Withdraw

LEMMA StepOpenReading ==
  ASSUME MarkInv, [Next]_vars
  PROVE  OpenReadingUnmarked'
<1> USE DEF MarkInv, RevisionInv
<1> SUFFICES ASSUME NEW q \in Requests,
                    request'[q] \in StateRequests,
                    request'[q].closed = "no",
                    request'[q].expected = drop'[request'[q].drop].revision,
                    drop'[request'[q].drop].order = "booked"
             PROVE  ~drop'[request'[q].drop].missedAtClosure
  BY DEF OpenReadingUnmarked, Deliverable, StateRequests
<1> DEFINE d == request'[q].drop
<1>1. /\ d \in Drops
      /\ request'[q].expected \in Nat
      /\ drop[d].revision \in Nat
  BY DEF StateRequests, BoardTypeOK, DropRecords
<1>2. drop[d].order \in {"draft", "booked"}
  BY <1>1, DeliverableBefore
<1>3. CASE request'[q] = request[q]
  <2>1. request[q].expected <= drop[d].revision
    BY <1>3 DEF ExpectedNotAhead
  <2>2. drop'[d].revision = drop[d].revision
    <3>1. BoardTypeOK'
      BY StepTyped
    <3>2. drop'[d].revision \in Nat
      BY <1>1, <3>1 DEF BoardTypeOK, DropRecords
    <3> QED BY <1>1, <1>3, <2>1, <3>2, RevisionCounts
  <2>3. ~drop[d].missedAtClosure
    BY <1>1, <1>2, <1>3, <2>2 DEF OpenReadingUnmarked, DraftIsBlank, Deliverable
  <2> QED BY <1>1, <2>2, <2>3, RevisionCounts
<1>4. CASE /\ UNCHANGED <<drop, closedBy>>
           /\ request[q] \in StateRequests
           /\ request'[q] = [request[q] EXCEPT !.closed = ClosureRead]
  <2>1. closedBy = NoOne
    BY <1>4 DEF ClosureRead, StateRequests
  <2> QED BY <1>1, <1>4, <2>1 DEF ClosureMarkSound, Deliverable
<1> QED BY <1>3, <1>4, RequestMoves

LEMMA StepMarkInv ==
  ASSUME MarkInv, [Next]_vars
  PROVE  MarkInv'
<1>1. RevisionInv'
  BY StepRevision DEF MarkInv
<1>2. OpenReadingUnmarked'
  BY StepOpenReading
<1>3. DraftIsBlank' /\ ClosureMarkSound'
  BY StepMarks DEF DraftIsBlank, ClosureMarkSound, MarkOf, Deliverable
<1> QED BY <1>1, <1>2, <1>3 DEF MarkInv

LEMMA InitMarked == Init => MarkInv
  BY InitTyped
  DEF Init, MarkInv, RevisionInv, ExpectedNotAhead, RevisionNamesState, DraftIsBlank,
      OpenReadingUnmarked, ClosureMarkSound, Deliverable, StateRequests

(***************************************************************************)
(* Closure marks mean what decide_state_change takes them for, although    *)
(* commands act on readings of the closure from before they had the lock.  *)
(***************************************************************************)
THEOREM ClosureMarksAreSound == Spec => []ClosureMarkSound
<1>1. MarkInv /\ [Next]_vars => MarkInv'
  BY StepMarkInv
<1>2. MarkInv => ClosureMarkSound
  BY DEF MarkInv
<1> QED BY <1>1, <1>2, InitMarked, PTL DEF Spec

-----------------------------------------------------------------------------
(* What the task of one drop has to satisfy. *)
Missing(row) == row.order = "booked" /\ row.state = "missed"

MirrorOf(row, t, closer) ==
    /\ Missing(row) => t # NoTask
    /\ t # NoTask /\ ~t.edited =>
         /\ t.status = "open" <=> Missing(row)
         /\ Missing(row) => t.assignee = closer

LEMMA MirrorRowByRow ==
  FollowUpMirrorsDrop <=> \A d \in Drops : MirrorOf(drop[d], task[d], closedBy)
  BY DEF FollowUpMirrorsDrop, MirrorOf, Missing, Deliverable

(* A task that is needed is open and belongs to the given user; one that   *)
(* is not needed is done, or does not exist.                               *)
LEMMA SyncedMirrors ==
  ASSUME NEW t \in TaskRecords \cup {NoTask}, NEW row, NEW closer
  PROVE  /\ closer \in Managers /\ Missing(row) =>
              MirrorOf(row, Synced(t, TRUE, closer), closer)
         /\ ~Missing(row) => \A m : MirrorOf(row, Synced(t, FALSE, m), closer)
<1>1. ASSUME closer \in Managers, Missing(row)
      PROVE  MirrorOf(row, Synced(t, TRUE, closer), closer)
  <2> DEFINE n == [status |-> "open", assignee |-> closer, edited |-> FALSE]
  <2>1. Synced(t, TRUE, closer) = n
    BY DEF Synced
  <2>2. n \in TaskRecords
    BY <1>1 DEF TaskRecords
  <2>3. n # NoTask
    BY <2>2
  <2>4. MirrorOf(row, n, closer)
    <3>1. n.status = "open" /\ n.assignee = closer
      OBVIOUS
    <3> HIDE DEF n
    <3> QED BY <1>1, <2>3, <3>1 DEF MirrorOf
  <2> QED BY <2>1, <2>4
<1>2. ASSUME ~Missing(row), NEW m
      PROVE  MirrorOf(row, Synced(t, FALSE, m), closer)
  <2>1. CASE t = NoTask
    BY <1>2, <2>1 DEF MirrorOf, Synced
  <2>2. CASE t # NoTask
    <3>1. Synced(t, FALSE, m) = [t EXCEPT !.status = "done", !.edited = FALSE]
      BY <2>2 DEF Synced
    <3>2. Synced(t, FALSE, m).status = "done"
      BY <2>2, <3>1 DEF TaskRecords
    <3> QED BY <1>2, <3>2 DEF MirrorOf
  <2> QED BY <2>1, <2>2
<1> QED BY <1>1, <1>2

(* A drop that was missing and still is, or neither before nor after,      *)
(* keeps its task.                                                         *)
LEMMA MirrorKept ==
  ASSUME NEW row, NEW after, NEW t, NEW closer, NEW next,
         MirrorOf(row, t, closer),
         Missing(after) <=> Missing(row),
         Missing(row) => next = closer
  PROVE  MirrorOf(after, t, next)
  BY DEF MirrorOf

LEMMA SetStateMirrors ==
  ASSUME MirrorInv, NEW r \in Requests, SetState(r), NEW d \in Drops
  PROVE  MirrorOf(drop'[d], task'[d], closedBy')
<1> USE DEF MirrorInv, MarkInv, RevisionInv
<1>1. MirrorOf(drop[d], task[d], closedBy)
  BY MirrorRowByRow
<1>2. CASE UNCHANGED <<drop, task>>
  BY <1>1, <1>2 DEF SetState
<1>3. CASE ~UNCHANGED <<drop, task>>
  <2> DEFINE req == request[r]
             e == req.drop
             row == drop[e]
             tick == req.command = "tick"
             closed == req.closed = "yes"
             new == Decided(row, tick, closed)
             closer == IF closedBy = NoOne THEN req.by ELSE closedBy
  <2>1. /\ e \in Drops /\ row \in DropRecords /\ new \in States
        /\ row.order = "booked"
        /\ MayChange(row, tick, closed, req.by \in Managers, row.driver = req.by)
        /\ new # row.state
        /\ drop' = [drop EXCEPT ![e] = Written(row, new)]
        /\ task' = IF row.state = "missed" \/ new = "missed"
                   THEN [task EXCEPT ![e] = Synced(task[e], new = "missed", closer)]
                   ELSE task
        /\ UNCHANGED closedBy
    BY <1>3, SetStateWrites
  <2>2. CASE d # e
    BY <1>1, <2>1, <2>2 DEF BoardTypeOK
  <2>3. CASE d = e
    <3>1. drop'[d].order = "booked" /\ drop'[d].state = new
      BY <2>1, <2>3, RowWrites DEF BoardTypeOK
    <3>2. task[d] \in TaskRecords \cup {NoTask}
      BY DEF BoardTypeOK
    <3>3. CASE new = "missed"
      <4>1. row.missedAtClosure
        BY <2>1, <3>3 DEF Decided, MayChange
      <4>2. closedBy \in Managers
        BY <2>1, <4>1 DEF ClosureMarkSound, Deliverable, BoardTypeOK
      <4>3. task'[d] = Synced(task[d], TRUE, closedBy)
        BY <2>1, <2>3, <3>3, <4>2 DEF BoardTypeOK
      <4> QED BY <2>1, <3>1, <3>2, <3>3, <4>2, <4>3, SyncedMirrors DEF Missing
    <3>4. CASE new # "missed" /\ row.state = "missed"
      <4>1. task'[d] = Synced(task[d], FALSE, closer)
        BY <2>1, <2>3, <3>4 DEF BoardTypeOK
      <4>2. ~Missing(drop'[d])
        BY <3>1, <3>4 DEF Missing
      <4> QED BY <3>2, <4>1, <4>2, SyncedMirrors
    <3>5. CASE new # "missed" /\ row.state # "missed"
      <4>1. task'[d] = task[d]
        BY <2>1, <3>5
      <4>2. ~Missing(drop'[d]) /\ ~Missing(drop[d])
        BY <2>3, <3>1, <3>5 DEF Missing
      <4> QED BY <1>1, <4>1, <4>2, MirrorKept
    <3> QED BY <3>3, <3>4, <3>5
  <2> QED BY <2>2, <2>3
<1> QED BY <1>2, <1>3

LEMMA StepMirrors ==
  ASSUME MirrorInv, [Next]_vars
  PROVE  \A d \in Drops : MirrorOf(drop'[d], task'[d], closedBy')
<1> USE DEF MirrorInv, MarkInv, RevisionInv
<1> SUFFICES ASSUME NEW d \in Drops PROVE MirrorOf(drop'[d], task'[d], closedBy')
  OBVIOUS
<1> DEFINE Goal == MirrorOf(drop'[d], task'[d], closedBy')
<1>0. /\ MirrorOf(drop[d], task[d], closedBy)
      /\ drop[d] \in DropRecords
      /\ task[d] \in TaskRecords \cup {NoTask}
  BY MirrorRowByRow DEF BoardTypeOK
<1>1. CASE UNCHANGED <<drop, task, closedBy>>
  BY <1>0, <1>1
<1>2. ASSUME NEW e \in Drops, Book(e) PROVE Goal
  <2>1. \/ drop'[d] = drop[d]
        \/ drop[d].order = "draft" /\ drop'[d] = [drop[d] EXCEPT !.order = "booked"]
    BY <1>2 DEF Book, BoardTypeOK
  <2>2. Missing(drop'[d]) <=> Missing(drop[d])
    BY <1>0, <2>1 DEF Missing, DropRecords, DraftIsBlank
  <2> QED BY <1>0, <1>2, <2>2, MirrorKept DEF Book
<1>3. ASSUME NEW e \in Drops, NEW m \in Managers, CancelOrder(e, m) PROVE Goal
  <2>1. CASE d = e
    <3>1. task'[d] = Synced(task[d], FALSE, m)
      BY <1>3, <2>1 DEF CancelOrder, BoardTypeOK
    <3>2. ~Missing(drop'[d])
      BY <1>0, <1>3, <2>1 DEF CancelOrder, BoardTypeOK, Missing, DropRecords
    <3> QED BY <1>0, <3>1, <3>2, SyncedMirrors
  <2>2. CASE d # e
    BY <1>0, <1>3, <2>2 DEF CancelOrder, BoardTypeOK
  <2> QED BY <2>1, <2>2
<1>4. ASSUME NEW e \in Drops, NEW m \in Managers \cup {NoOne}, NEW s \in {"open", "done"},
             EditTask(e, s, m)
      PROVE  Goal
  <2>1. CASE d = e
    <3> DEFINE n == [status |-> s, assignee |-> m, edited |-> TRUE]
    <3>1. task'[d] = n
      BY <1>4, <2>1 DEF EditTask, BoardTypeOK
    <3>2. n # NoTask
      <4>1. n \in TaskRecords
        BY DEF TaskRecords
      <4> QED BY <4>1
    <3> QED BY <3>1, <3>2 DEF MirrorOf
  <2>2. CASE d # e
    BY <1>0, <1>4, <2>2 DEF EditTask, BoardTypeOK
  <2> QED BY <2>1, <2>2
<1>5. ASSUME NEW ds \in SUBSET Drops, NEW u \in Drivers \cup {NoOne}, AssignDriver(ds, u)
      PROVE  Goal
  <2>1. \/ drop'[d] = drop[d]
        \/ drop'[d] = [drop[d] EXCEPT !.driver = u, !.revision = @ + 1]
    BY <1>5 DEF AssignDriver
  <2>2. drop'[d].order = drop[d].order /\ drop'[d].state = drop[d].state
    BY <1>0, <2>1 DEF DropRecords
  <2>3. Missing(drop'[d]) <=> Missing(drop[d])
    BY <2>2 DEF Missing
  <2>4. UNCHANGED <<task, closedBy>>
    BY <1>5 DEF AssignDriver
  <2> QED BY <1>0, <2>3, <2>4, MirrorKept
<1>6. ASSUME NEW r \in Requests, SetState(r) PROVE Goal
  BY <1>6, SetStateMirrors
<1>7. ASSUME NEW r \in Requests, CloseWindow(r) PROVE Goal
  <2>1. CASE request[r].closed = "no" /\ closedBy = NoOne
    <3> DEFINE m == request[r].by
    <3>1. closedBy' = m /\ m \in Managers
      BY <1>7, <2>1, RequestKinds DEF CloseWindow, WindowRequests
    <3>2. ~Missing(drop[d])
      BY <2>1 DEF Missing, ClosureMarkSound, Deliverable
    <3>3. CASE Deliverable(d) /\ drop[d].state = "open"
      <4>1. drop'[d] = Closes(drop[d]) /\ task'[d] = Synced(task[d], TRUE, m)
        BY <1>7, <2>1, <3>3 DEF CloseWindow
      <4>2. Missing(drop'[d])
        BY <1>0, <3>3, <4>1, RowWrites DEF Missing, Deliverable
      <4> QED BY <1>0, <3>1, <4>1, <4>2, SyncedMirrors
    <3>4. CASE ~(Deliverable(d) /\ drop[d].state = "open")
      <4>1. drop'[d] = drop[d] /\ task'[d] = task[d]
        BY <1>7, <2>1, <3>4 DEF CloseWindow
      <4> QED BY <1>0, <3>2, <4>1, MirrorKept
    <3> QED BY <3>3, <3>4
  <2>2. CASE ~(request[r].closed = "no" /\ closedBy = NoOne)
    BY <1>1, <1>7, <2>2 DEF CloseWindow
  <2> QED BY <2>1, <2>2
<1>8. ASSUME NEW r \in Requests, ReopenWindow(r) PROVE Goal
  <2>1. CASE request[r].closed = "yes"
    <3>1. CASE OnBoard(d) /\ drop[d].state = "missed"
      <4>1. drop'[d] = Reopens(drop[d]) /\ task'[d] = Synced(task[d], FALSE, request[r].by)
        BY <1>8, <2>1, <3>1 DEF ReopenWindow
      <4>2. ~Missing(drop'[d])
        BY <1>0, <3>1, <4>1, RowWrites DEF Missing
      <4> QED BY <1>0, <4>1, <4>2, SyncedMirrors
    <3>2. CASE ~(OnBoard(d) /\ drop[d].state = "missed")
      <4>1. task'[d] = task[d]
        BY <1>8, <2>1, <3>2 DEF ReopenWindow
      <4>2. ~Missing(drop[d])
        BY <3>2 DEF Missing, OnBoard, Deliverable
      <4>3. \/ drop'[d] = drop[d]
            \/ drop'[d] = Reopens(drop[d]) /\ drop[d].state # "missed"
        BY <1>8, <2>1, <3>2 DEF ReopenWindow
      <4>4. ~Missing(drop'[d])
        BY <1>0, <4>2, <4>3, RowWrites DEF Missing
      <4> QED BY <1>0, <4>1, <4>2, <4>4, MirrorKept
    <3> QED BY <3>1, <3>2
  <2>2. CASE request[r].closed # "yes"
    BY <1>1, <1>8, <2>2 DEF ReopenWindow
  <2> QED BY <2>1, <2>2
<1> QED
  BY <1>1, <1>2, <1>3, <1>4, <1>5, <1>6, <1>7, <1>8
  DEF Next, vars, View, SendWindowCommand, Send, Withdraw

(***************************************************************************)
(* Until somebody edits it, the "Nachliefern" task is open exactly while   *)
(* its drop is missed, and belongs to whoever closed the window.           *)
(***************************************************************************)
THEOREM FollowUpsMirrorDrops == Spec => []FollowUpMirrorsDrop
<1>1. Init => MirrorInv
  BY InitMarked DEF Init, MirrorInv, FollowUpMirrorsDrop, Deliverable
<1>2. MirrorInv /\ [Next]_vars => MirrorInv'
  <2> SUFFICES ASSUME MirrorInv, [Next]_vars PROVE MirrorInv'
    OBVIOUS
  <2>1. MarkInv'
    BY StepMarkInv DEF MirrorInv
  <2>2. FollowUpMirrorsDrop'
    BY StepMirrors DEF FollowUpMirrorsDrop, MirrorOf, Missing, Deliverable
  <2> QED BY <2>1, <2>2 DEF MirrorInv
<1>3. MirrorInv => FollowUpMirrorsDrop
  BY DEF MirrorInv
<1> QED BY <1>1, <1>2, <1>3, PTL DEF Spec

-----------------------------------------------------------------------------
(***************************************************************************)
(* A drop only leaves missed by a manager's request: a driver's, whatever  *)
(* closure it read, is refused by decide_state_change.                     *)
(***************************************************************************)
THEOREM ManagersMoveMissed == Spec => MissedMovesByManager
<1>1. ASSUME BoardTypeOK, [Next]_vars, NEW d \in Drops,
             drop[d].state = "missed", drop'[d].state # "missed"
      PROVE  ByManager
  <2>0. drop[d] \in DropRecords
    BY <1>1 DEF BoardTypeOK
  <2>1. CASE UNCHANGED drop
    BY <1>1, <2>1
  <2>2. ASSUME NEW e \in Drops, Book(e) \/ \E m \in Managers : CancelOrder(e, m)
        PROVE  FALSE
    <3>1. \/ drop'[d] = drop[d]
          \/ \E o \in {"booked", "cancelled"} : drop'[d] = [drop[d] EXCEPT !.order = o]
      BY <1>1, <2>2 DEF Book, CancelOrder, BoardTypeOK
    <3> QED BY <1>1, <2>0, <3>1 DEF DropRecords
  <2>3. ASSUME NEW ds \in SUBSET Drops, NEW u \in Drivers \cup {NoOne}, AssignDriver(ds, u)
        PROVE  FALSE
    <3>1. \/ drop'[d] = drop[d]
          \/ drop'[d] = [drop[d] EXCEPT !.driver = u, !.revision = @ + 1]
      BY <2>3 DEF AssignDriver
    <3> QED BY <1>1, <2>0, <3>1 DEF DropRecords
  <2>4. ASSUME NEW r \in Requests, SetState(r) PROVE ByManager
    <3>1. ~UNCHANGED <<drop, task>>
      BY <1>1
    <3>2. request[r].drop = d
      BY <1>1, <2>4, <3>1, SetStateWrites DEF BoardTypeOK
    <3>3. request[r].by \in Managers
      BY <1>1, <2>4, <3>1, <3>2, SetStateWrites DEF MayChange
    <3> QED BY <1>1, <2>4, <3>3, DoneTyped DEF ByManager, SetState, Waiting
  <2>5. ASSUME NEW r \in Requests, CloseWindow(r) \/ ReopenWindow(r) PROVE ByManager
    <3>1. Done(r) /\ request[r] # Idle
      BY <2>5 DEF CloseWindow, ReopenWindow, Waiting
    <3>2. request[r] \in WindowRequests
      BY <1>1, <2>5, RequestKinds DEF CloseWindow, ReopenWindow
    <3> QED BY <1>1, <3>1, <3>2, DoneTyped DEF ByManager, WindowRequests
  <2> QED
    BY <1>1, <2>1, <2>2, <2>3, <2>4, <2>5
    DEF Next, vars, EditTask, View, SendWindowCommand, Send, Withdraw
<1>2. BoardTypeOK /\ [Next]_vars =>
        [\A d \in Drops :
           drop[d].state = "missed" /\ drop'[d].state # "missed" => ByManager]_vars
  BY <1>1
<1> QED BY <1>2, BoardTypeCorrect, PTL DEF Spec, MissedMovesByManager

(***************************************************************************)
(* A tick and a cancellation of the same order exclude each other: no      *)
(* cancelled order is ever marked delivered.                               *)
(***************************************************************************)
THEOREM CancelledOrdersStayUndelivered == Spec => []CancelledNeverDelivered
<1>1. Init => CancelledNeverDelivered
  BY DEF Init, CancelledNeverDelivered
<1>2. ASSUME BoardTypeOK, CancelledNeverDelivered, [Next]_vars
      PROVE  CancelledNeverDelivered'
  <2> SUFFICES ASSUME NEW d \in Drops,
                      drop'[d].order = "cancelled", drop'[d].state = "delivered"
               PROVE  FALSE
    BY DEF CancelledNeverDelivered
  <2>0. /\ drop[d] \in DropRecords
        /\ ~(drop[d].order = "cancelled" /\ drop[d].state = "delivered")
    BY <1>2 DEF BoardTypeOK, CancelledNeverDelivered
  <2>1. CASE UNCHANGED drop
    BY <2>0, <2>1
  <2>2. ASSUME NEW e \in Drops, Book(e) \/ \E m \in Managers : CancelOrder(e, m)
        PROVE  FALSE
    <3>1. \/ drop'[d] = drop[d]
          \/ drop'[d] = [drop[d] EXCEPT !.order = "booked"]
          \/ /\ drop[d].state # "delivered"
             /\ drop'[d] = [drop[d] EXCEPT !.order = "cancelled"]
      BY <1>2, <2>2 DEF Book, CancelOrder, BoardTypeOK
    <3> QED BY <2>0, <3>1 DEF DropRecords
  <2>3. ASSUME NEW ds \in SUBSET Drops, NEW u \in Drivers \cup {NoOne}, AssignDriver(ds, u)
        PROVE  FALSE
    <3>1. \/ drop'[d] = drop[d]
          \/ drop'[d] = [drop[d] EXCEPT !.driver = u, !.revision = @ + 1]
      BY <2>3 DEF AssignDriver
    <3> QED BY <2>0, <3>1 DEF DropRecords
  <2>4. ASSUME NEW r \in Requests, SetState(r) PROVE FALSE
    <3>1. CASE UNCHANGED <<drop, task>>
      BY <2>1, <3>1
    <3>2. CASE ~UNCHANGED <<drop, task>>
      <4>1. PICK e \in Drops, s \in States :
              /\ drop[e].order = "booked"
              /\ drop' = [drop EXCEPT ![e] = Written(drop[e], s)]
        BY <1>2, <2>4, <3>2, SetStateWrites
      <4>2. \/ drop'[d] = drop[d]
            \/ drop[d].order = "booked" /\ drop'[d] = Written(drop[d], s)
        BY <1>2, <4>1 DEF BoardTypeOK
      <4> QED BY <2>0, <4>2, RowWrites
    <3> QED BY <3>1, <3>2
  <2>5. ASSUME NEW r \in Requests, CloseWindow(r) \/ ReopenWindow(r) PROVE FALSE
    <3>1. drop'[d] \in {drop[d], Closes(drop[d]), Reopens(drop[d])}
      BY <2>5 DEF CloseWindow, ReopenWindow
    <3> QED BY <2>0, <3>1, RowWrites
  <2> QED
    BY <1>2, <2>1, <2>2, <2>3, <2>4, <2>5
    DEF Next, vars, EditTask, View, SendWindowCommand, Send, Withdraw
<1> QED BY <1>1, <1>2, BoardTypeCorrect, PTL DEF Spec
=============================================================================
