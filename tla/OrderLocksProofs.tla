-------------------------- MODULE OrderLocksProofs --------------------------
(***************************************************************************)
(* For every number of orders, windows, lists and commands at once: no     *)
(* command on an order that keeps retry.py's order of locks is caught in a *)
(* cycle of waiting, and a closure takes its follow-up tasks.              *)
(*                                                                         *)
(* The first half shows the invariant: what commands lock, that their      *)
(* statements follow one order of rows, and that what is locked excludes   *)
(* others. The second half gives, for each row a command can wait for, a   *)
(* set of commands that holds all who wait for one of them and none that   *)
(* it waits for.                                                           *)
(***************************************************************************)
EXTENDS OrderLocks, TLAPS

-----------------------------------------------------------------------------
(* What is known of a command at every moment                              *)

ByAction == {"create", "complete", "issue", "cancel", "set_fully_booked"}
Billing == {"settle_invoice", "cancel_invoice", "request_mail", "mark_sent"}
Board == {"set_state", "close_window", "reopen_window"}

(* The order of the rows: the one of retry.py, and after it the rows it does *)
(* not name. Foreign keys are checked after the rows that have them are     *)
(* written; an activation locks the legal configuration before the profile. *)
Level == [action |-> 1, configuration |-> 2, payments |-> 3, cancellation |-> 4, mail |-> 5,
          window |-> 6, order |-> 7, delivery |-> 8, invoice |-> 9, list |-> 12, task |-> 13,
          profile |-> 14, legal |-> 15]
Turn(kind, l) ==
  CASE l.mode = "keyshare" /\ l.table = "order" -> 10
    [] l.mode = "keyshare" /\ l.table = "action" -> 11
    [] kind = "activate" /\ l.table = "profile" -> 16
    [] OTHER -> Level[l.table]
Precedes(kind, k, l) ==
  \/ Turn(kind, k) < Turn(kind, l)
  \/ Turn(kind, k) = Turn(kind, l) /\ kind # "save" /\ k.id < l.id

(* The locks of a plan, and the ones a command has or is to take *)
LocksOf(plan) == {p.lock : p \in plan}
Planned(m) == LocksOf(m.plan)
Has(m) == Planned(m) \cup m.locks

(* The statements of a plan follow that order, and no two take one lock. *)
Ordered(kind, plan) ==
  /\ plan \subseteq [step : Nat, lock : Locks]
  /\ \A p, q \in plan : /\ Precedes(kind, p.lock, q.lock) => Before(p, q)
                        /\ p.lock = q.lock => p = q

(* No lock of the plan comes before n. *)
Foremost(m, n) == n \in Planned(m) /\ \A k \in Planned(m) : ~Precedes(m.kind, k, n)

(* The orders whose follow-up tasks a command synchronises *)
Worked(m) == m.todo \cup m.done \cup ({m.at} \ {0})

(* Which rows the commands of a kind lock, and how strongly *)
ActionMode(kind) ==
  CASE kind \in ByAction -> "share" [] kind = "save" -> "update"
    [] kind = "update_details" -> "nokey" [] OTHER -> "keyshare"
Fits(kind, l) ==
  /\ l.table = "action" =>
       /\ l.id = 0 /\ l.mode = ActionMode(kind)
       /\ kind \in ByAction \cup Billing \cup Board \cup {"save", "update_details", "assign_driver"}
  /\ l.table = "configuration" =>
       /\ l.id = 0
       /\ \/ kind \in {"create", "complete", "issue", "update_details"} /\ l.mode = "share"
          \/ kind = "save" /\ l.mode = "nokey"
  /\ l.table = "payments" => kind \in {"cancel", "settle_invoice"} /\ l.mode = "update"
  /\ l.table = "cancellation" => kind \in {"cancel", "cancel_invoice"} /\ l.mode = "update"
  /\ l.table = "mail" => kind = "mark_sent" /\ l.mode = "update"
  /\ l.table = "window" =>
       \/ kind \in {"create", "complete", "assign_driver"} /\ l.mode = "share"
       \/ kind \in {"cancel", "set_fully_booked"} \cup Board /\ l.mode = "update"
       \/ kind = "save" /\ l.mode = "nokey"
  /\ l.table = "order" =>
       \/ kind \in {"complete", "issue", "cancel", "assign_driver"} /\ l.mode = "update"
       \/ kind \in Board \cup {"assign_driver"} /\ l.mode = "keyshare"
  /\ l.table = "delivery" => kind \in {"cancel", "assign_driver"} \cup Board /\ l.mode = "update"
  /\ l.table = "invoice" =>
       \/ /\ kind \in {"cancel", "settle_invoice", "cancel_invoice", "request_mail"}
          /\ l.mode = "update"
       \/ kind = "mark_sent" /\ l.mode = "nokey"
  /\ l.table \in {"list", "task"} =>
       kind \in {"cancel", "update_task"} \cup Board /\ l.mode = "update"
  /\ l.table = "profile" =>
       /\ l.id = 0
       /\ \/ kind = "issue" /\ l.mode = "update"
          \/ kind = "activate" /\ l.mode = "nokey"
  /\ l.table = "legal" =>
       /\ l.id = 0
       /\ \/ kind = "issue" /\ l.mode = "share"
          \/ kind = "activate" /\ l.mode = "update"

(* The locks of tasks aside, nothing that is still to be locked comes before *)
(* what is held.                                                            *)
InTurn(m) ==
  \A h \in m.locks, l \in Planned(m) : l.table \in {"list", "task"} \/ ~Precedes(m.kind, l, h)

(* What a kind of command locks before other rows *)
Covered(m) ==
  /\ m.kind \in ByAction \cup {"save", "update_details"} =>
       Lock("action", 0, ActionMode(m.kind)) \in Has(m)
  /\ m.kind # "issue" =>
       \A l \in Has(m) : l.table \in {"order", "delivery"} =>
         \E k \in Has(m) : k.table = "window" /\ k.id = WindowOf[l.id]
  /\ m.kind = "assign_driver" =>
       \A l \in Has(m) : l.table = "order" => Lock("order", l.id, "update") \in Has(m)
  /\ m.kind = "issue" => \A k, l \in Has(m) : k.table = l.table => k = l

(* Tasks are locked last, one after the other, by commands that have locked *)
(* the window of their orders or edit one task.                             *)
Tasks(m) ==
  /\ m.kind \notin Board \cup {"cancel", "update_task"} => Worked(m) = {}
  /\ m.kind \in Board \cup {"cancel"} =>
       \A o \in Worked(m) : \E k \in Has(m) : k.table = "window" /\ k.id = WindowOf[o]
  /\ m.at # 0 \/ m.done # {} => \A l \in Planned(m) : l.table \in {"list", "task"}
  /\ \A l \in Has(m) : l.table \in {"list", "task"} => m.at # 0 \/ m.done # {}
  /\ \A l \in Planned(m) : /\ l.table \in {"list", "task"} => m.at # 0
                           /\ l.table = "task" => l.id = m.at
  /\ \A l \in m.locks : l.table = "task" => l.id \in Worked(m)
  /\ m.at # 0 /\ m.at \notin m.todo => Lock("task", m.at, "update") \in Has(m)
  /\ \A o \in m.done : Lock("task", o, "update") \in m.locks
  /\ m.moved \subseteq m.done
  /\ m.needed => m.kind \in Board
  /\ m.needed \/ m.kind = "update_task" => m.user \in Users
  /\ m.kind \in {"cancel", "update_task"} => \A o, p \in Worked(m) : o = p
  /\ m.kind = "update_task" =>
       /\ m.todo # {} => Has(m) = {} /\ m.at = 0 /\ m.done = {}
       /\ \A l \in m.locks : l.table = "task" => Planned(m) = {}
       /\ \A k, l \in Has(m) : k.table = "list" /\ l.table = "list" => k = l

(* A cancellation locks the list its task is in, which stays so: the        *)
(* commands that move tasks lock their window.                              *)
ListKnown(m, lists) ==
  m.kind = "cancel" =>
    /\ \A l \in Has(m) : l.table = "list" => \A o \in Worked(m) : l.id = lists[o]
    /\ \A l \in Planned(m) : l.table = "task" => Lock("list", lists[l.id], "update") \in Has(m)
    /\ \A l \in m.locks : l.table = "task" => Lock("list", lists[l.id], "update") \in m.locks

Shaped(m) == /\ Ordered(m.kind, m.plan)
             /\ \A l \in Has(m) : Fits(m.kind, l)
             /\ InTurn(m)
             /\ Covered(m)
             /\ Tasks(m)

(* Two commands never hold locks on one row that conflict. *)
LocksExclusive ==
  \A c, d \in Calls : c # d =>
    \A k \in call[c].locks, l \in call[d].locks : SameRow(k, l) => ~Conflict(k.mode, l.mode)

LockInv == /\ TypeOK
           /\ \A c \in Calls : Shaped(call[c]) /\ ListKnown(call[c], list)
           /\ LocksExclusive
           /\ ClosureTakesTasks

-----------------------------------------------------------------------------
(* What commands begin with                                                *)

(* The locks a command sets out to take, and the tasks it is to synchronise *)
Start(kind, locks, todo) ==
  /\ locks \subseteq Locks /\ todo \subseteq Orders
  /\ \A l \in locks : Fits(kind, l) /\ l.table \notin {"list", "task"}
  /\ kind \in ByAction \cup {"save", "update_details"} =>
       Lock("action", 0, ActionMode(kind)) \in locks
  /\ kind # "issue" =>
       \A l \in locks : l.table \in {"order", "delivery"} =>
         \E k \in locks : k.table = "window" /\ k.id = WindowOf[l.id]
  /\ kind = "assign_driver" =>
       \A l \in locks : l.table = "order" => Lock("order", l.id, "update") \in locks
  /\ kind = "issue" => \A k, l \in locks : k.table = l.table => k = l
  /\ kind \notin Board \cup {"cancel", "update_task"} => todo = {}
  /\ kind \in Board \cup {"cancel"} =>
       \A o \in todo : \E k \in locks : k.table = "window" /\ k.id = WindowOf[o]
  /\ kind \in {"cancel", "update_task"} => \A o, p \in todo : o = p
  /\ kind = "update_task" => locks = {}

(* What a plain command leaves out *)
LEMMA CommandRow ==
  ASSUME NEW kind \in Kinds, NEW plan \in SUBSET [step : Nat, lock : Locks]
  PROVE  /\ Command(kind, plan) \in CallRows
         /\ Command(kind, plan).kind = kind /\ Command(kind, plan).plan = plan
         /\ Command(kind, plan).locks = {} /\ Command(kind, plan).todo = {}
         /\ Command(kind, plan).done = {} /\ Command(kind, plan).moved = {}
         /\ Command(kind, plan).at = 0 /\ ~Command(kind, plan).needed
<1>1. Idle \in CallRows
  BY OrderLocksAssumption DEF Idle, CallRows
<1>2. Command(kind, plan) \in CallRows
  BY <1>1 DEF Command, CallRows
<1>3. /\ Idle.locks = {} /\ Idle.todo = {} /\ Idle.done = {} /\ Idle.moved = {}
      /\ Idle.at = 0 /\ ~Idle.needed
  BY DEF Idle
<1> QED
  BY <1>1, <1>2, <1>3 DEF Command, CallRows

(* A command that has taken no lock yet *)
Begun(m) ==
  /\ m \in CallRows /\ m.kind \in Kinds
  /\ m.locks = {} /\ m.done = {} /\ m.moved = {} /\ m.at = 0
  /\ m.needed => m.kind \in Board
  /\ m.needed \/ m.kind = "update_task" => m.user \in Users
  /\ Ordered(m.kind, m.plan)
  /\ Start(m.kind, Planned(m), m.todo)

(* A command with a plan and no task to synchronise has begun. *)
LEMMA BegunPlain ==
  ASSUME NEW kind \in Kinds, NEW plan, Ordered(kind, plan), Start(kind, LocksOf(plan), {}),
         kind # "update_task"
  PROVE  Begun(Command(kind, plan))
<1> DEFINE m == Command(kind, plan)
<1>0. plan \in SUBSET [step : Nat, lock : Locks]
  BY DEF Ordered
<1>1. /\ m \in CallRows /\ m.kind = kind /\ m.plan = plan /\ m.locks = {} /\ m.todo = {}
      /\ m.done = {} /\ m.moved = {} /\ m.at = 0 /\ ~m.needed
  BY <1>0, CommandRow
<1> HIDE DEF m
<1>2. Begun(m)
  BY <1>1 DEF Begun, Planned
<1> QED
  BY <1>2 DEF m

(* So has one with tasks to synchronise after its plan. *)
LEMMA BegunSync ==
  ASSUME NEW kind \in Kinds, NEW plan, NEW todo, NEW user \in Nat, NEW needed \in BOOLEAN,
         Ordered(kind, plan), Start(kind, LocksOf(plan), todo), needed => kind \in Board,
         needed \/ kind = "update_task" => user \in Users
  PROVE  Begun(ThenSync(Command(kind, plan), todo, user, needed))
<1> DEFINE m == Command(kind, plan)
           n == ThenSync(m, todo, user, needed)
<1>0. plan \in SUBSET [step : Nat, lock : Locks]
  BY DEF Ordered
<1>1. /\ m \in CallRows /\ m.kind = kind /\ m.plan = plan /\ m.locks = {}
      /\ m.done = {} /\ m.moved = {} /\ m.at = 0
  BY <1>0, CommandRow
<1> HIDE DEF m
<1>2. /\ n \in CallRows /\ n.kind = kind /\ n.plan = plan /\ n.locks = {} /\ n.todo = todo
      /\ n.done = {} /\ n.moved = {} /\ n.at = 0 /\ (n.needed <=> needed) /\ n.user = user
  BY <1>1 DEF ThenSync, CallRows, Start
<1> HIDE DEF n
<1>3. Begun(n)
  BY <1>2 DEF Begun, Planned
<1> QED
  BY <1>3 DEF n, m

(* A command that has begun meets the invariant. *)
LEMMA BegunShaped == ASSUME NEW m, Begun(m) PROVE Shaped(m) /\ ListKnown(m, list)
<1>1. Has(m) = Planned(m) /\ Worked(m) = m.todo
  BY DEF Begun, Has, Worked
<1>2. InTurn(m) /\ Covered(m)
  BY <1>1 DEF Begun, Start, InTurn, Covered
<1>3. Tasks(m)
  BY <1>1 DEF Begun, Start, Tasks
<1> QED
  BY <1>1, <1>2, <1>3 DEF Begun, Start, Shaped, ListKnown

(* Membership of what a statement locks *)
LEMMA RowIs ==
  ASSUME NEW table, NEW id, NEW mode, NEW l
  PROVE  l \in Row(table, id, mode) <=> l = Lock(table, id, mode)
  BY DEF Row, Rows

(* The parts of a lock *)
LEMMA LockRow ==
  ASSUME NEW table \in Tables, NEW id \in Nat,
         NEW mode \in {"keyshare", "share", "nokey", "update"}
  PROVE  /\ Lock(table, id, mode) \in Locks
         /\ Lock(table, id, mode).table = table /\ Lock(table, id, mode).id = id
         /\ Lock(table, id, mode).mode = mode
  BY DEF Lock, Locks

(* What the statements of a command lock *)
LEMMA StatementsOf ==
  ASSUME NEW s, NEW p
  PROVE  p \in Statements(s) <=> \E i \in DOMAIN s : \E l \in s[i] : p = [step |-> i, lock |-> l]
  BY DEF Statements, Statement

(* A statement locks its rows; *)
LEMMA LocksOfStatements ==
  ASSUME NEW s, NEW l
  PROVE  l \in LocksOf(Statements(s)) <=> \E i \in DOMAIN s : l \in s[i]
<1>1. ASSUME l \in LocksOf(Statements(s)) PROVE \E i \in DOMAIN s : l \in s[i]
  <2>1. PICK p \in Statements(s) : l = p.lock
    BY <1>1 DEF LocksOf
  <2> QED
    BY <2>1, StatementsOf
<1>2. ASSUME NEW i \in DOMAIN s, l \in s[i] PROVE l \in LocksOf(Statements(s))
  <2>1. [step |-> i, lock |-> l] \in Statements(s)
    BY <1>2, StatementsOf
  <2> QED
    BY <2>1 DEF LocksOf
<1> QED
  BY <1>1, <1>2

(* two statements, those of both; *)
LEMMA TwoStatements ==
  ASSUME NEW a, NEW b, NEW l
  PROVE  l \in LocksOf(Statements(<<a, b>>)) <=>
           l \in a \/ l \in b
<1> DEFINE s == <<a, b>>
<1>1. /\ DOMAIN s = 1..2
      /\ s[1] = a /\ s[2] = b
  OBVIOUS
<1> HIDE DEF s
<1>2. (\E i \in DOMAIN s : l \in s[i]) <=> l \in a \/ l \in b
  BY <1>1
<1> QED
  BY <1>2, LocksOfStatements DEF s

(* three; *)
LEMMA ThreeStatements ==
  ASSUME NEW a, NEW b, NEW c, NEW l
  PROVE  l \in LocksOf(Statements(<<a, b, c>>)) <=>
           l \in a \/ l \in b \/ l \in c
<1> DEFINE s == <<a, b, c>>
<1>1. /\ DOMAIN s = 1..3
      /\ s[1] = a /\ s[2] = b /\ s[3] = c
  OBVIOUS
<1> HIDE DEF s
<1>2. (\E i \in DOMAIN s : l \in s[i]) <=> l \in a \/ l \in b \/ l \in c
  BY <1>1
<1> QED
  BY <1>2, LocksOfStatements DEF s

(* four; *)
LEMMA FourStatements ==
  ASSUME NEW a, NEW b, NEW c, NEW d, NEW l
  PROVE  l \in LocksOf(Statements(<<a, b, c, d>>)) <=>
           l \in a \/ l \in b \/ l \in c \/ l \in d
<1> DEFINE s == <<a, b, c, d>>
<1>1. /\ DOMAIN s = 1..4
      /\ s[1] = a /\ s[2] = b /\ s[3] = c /\ s[4] = d
  OBVIOUS
<1> HIDE DEF s
<1>2. (\E i \in DOMAIN s : l \in s[i]) <=> l \in a \/ l \in b \/ l \in c \/ l \in d
  BY <1>1
<1> QED
  BY <1>2, LocksOfStatements DEF s

(* five; *)
LEMMA FiveStatements ==
  ASSUME NEW a, NEW b, NEW c, NEW d, NEW e, NEW l
  PROVE  l \in LocksOf(Statements(<<a, b, c, d, e>>)) <=>
           l \in a \/ l \in b \/ l \in c \/ l \in d \/ l \in e
<1> DEFINE s == <<a, b, c, d, e>>
<1>1. /\ DOMAIN s = 1..5
      /\ s[1] = a /\ s[2] = b /\ s[3] = c /\ s[4] = d /\ s[5] = e
  OBVIOUS
<1> HIDE DEF s
<1>2. (\E i \in DOMAIN s : l \in s[i]) <=> l \in a \/ l \in b \/ l \in c \/ l \in d \/ l \in e
  BY <1>1
<1> QED
  BY <1>2, LocksOfStatements DEF s

(* and seven, those of all. *)
LEMMA SevenStatements ==
  ASSUME NEW a, NEW b, NEW c, NEW d, NEW e, NEW f, NEW g, NEW l
  PROVE  l \in LocksOf(Statements(<<a, b, c, d, e, f, g>>)) <=>
           l \in a \/ l \in b \/ l \in c \/ l \in d \/ l \in e \/ l \in f \/ l \in g
<1> DEFINE s == <<a, b, c, d, e, f, g>>
<1>1. /\ DOMAIN s = 1..7
      /\ s[1] = a /\ s[2] = b /\ s[3] = c /\ s[4] = d /\ s[5] = e /\ s[6] = f /\ s[7] = g
  OBVIOUS
<1> HIDE DEF s
<1>2. (\E i \in DOMAIN s : l \in s[i]) <=>
        l \in a \/ l \in b \/ l \in c \/ l \in d \/ l \in e \/ l \in f \/ l \in g
  BY <1>1
<1> QED
  BY <1>2, LocksOfStatements DEF s

(* t are the turns of the statements. *)
InTurns(kind, s, t) ==
  /\ DOMAIN s \subseteq Nat
  /\ \A i \in DOMAIN s : t[i] \in Nat /\ \A l \in s[i] : Turn(kind, l) = t[i]
  /\ \A i, j \in DOMAIN s : i < j => t[i] < t[j]

(* Statements whose turns rise follow the order. *)
LEMMA OrderedStatements ==
  ASSUME NEW kind, NEW s, NEW t, InTurns(kind, s, t), LocksOf(Statements(s)) \subseteq Locks
  PROVE  Ordered(kind, Statements(s))
<1>1. ASSUME NEW p \in Statements(s)
      PROVE  /\ p.step \in DOMAIN s /\ p.step \in Nat /\ p.lock \in s[p.step]
             /\ p = [step |-> p.step, lock |-> p.lock] /\ p.lock \in Locks
  <2>1. PICK i \in DOMAIN s : \E l \in s[i] : p = [step |-> i, lock |-> l]
    BY StatementsOf
  <2>2. p.lock \in LocksOf(Statements(s))
    BY DEF LocksOf
  <2> QED
    BY <2>1, <2>2 DEF InTurns
<1>2. ASSUME NEW p \in Statements(s), NEW q \in Statements(s)
      PROVE  /\ Precedes(kind, p.lock, q.lock) => Before(p, q)
             /\ p.lock = q.lock => p = q
  <2> DEFINE i == p.step
             j == q.step
  <2>1. /\ i \in DOMAIN s /\ i \in Nat /\ p.lock \in s[i] /\ p = [step |-> i, lock |-> p.lock]
        /\ j \in DOMAIN s /\ j \in Nat /\ q.lock \in s[j] /\ q = [step |-> j, lock |-> q.lock]
    BY <1>1
  <2>2. /\ t[i] \in Nat /\ Turn(kind, p.lock) = t[i]
        /\ t[j] \in Nat /\ Turn(kind, q.lock) = t[j]
        /\ i < j => t[i] < t[j]
        /\ j < i => t[j] < t[i]
    BY <2>1 DEF InTurns
  <2> QED
    BY <2>1, <2>2 DEF Precedes, Before
<1>3. Statements(s) \subseteq [step : Nat, lock : Locks]
  BY <1>1
<1> QED
  BY <1>2, <1>3 DEF Ordered

(* Each command sets out with the locks the invariant gives to its kind:   *)
(* an order taken down,                                                    *)
LEMMA CreateBegins == ASSUME NEW w \in Windows PROVE Begun(create(w))
<1>0. w \in Nat
  BY OrderLocksAssumption
<1> DEFINE s == <<Action("share"), Configuration("share"), Row("window", w, "share")>>
           plan == LocksOf(Statements(s))
<1>1. \A l \in plan : l \in {Lock("action", 0, "share"),
                            Lock("configuration", 0, "share"),
                            Lock("window", w, "share")}
  BY ThreeStatements, RowIs DEF Action, Configuration
<1>2. Lock("action", 0, "share") \in plan
  BY ThreeStatements, RowIs DEF Action
<1> HIDE DEF plan
<1>3. \A l \in plan : l \in Locks /\ l.table \notin {"list", "task"}
  BY <1>0, <1>1, LockRow, SMTT(30) DEF Tables
<1>4. \A l \in plan : Fits("create", l)
  BY <1>0, <1>1, LockRow, SMTT(30) DEF Fits, ActionMode, ByAction, Board, Billing, Tables
<1>5. \A l \in plan : l.table \notin {"order", "delivery"}
  BY <1>0, <1>1, LockRow, SMTT(30) DEF Tables
<1>6. Start("create", plan, {})
  BY <1>2, <1>3, <1>4, <1>5 DEF Start, ActionMode, ByAction, Board
<1>7. Ordered("create", Statements(s))
  <2>1. InTurns("create", s, <<1, 2, 6>>)
    BY DEF InTurns, Action, Configuration, Row, Rows, Lock, Turn, Level
  <2>2. plan \subseteq Locks
    BY <1>3
  <2> QED
    BY <2>1, <2>2, OrderedStatements DEF plan
<1> QED
  BY <1>0, <1>6, <1>7, BegunPlain DEF create, Kinds, Board, plan

(* completed, *)
LEMMA CompleteBegins == ASSUME NEW o \in Orders, NEW w \in Windows PROVE Begun(complete(o, w))
<1>0. o \in Nat /\ w \in Nat /\ WindowOf[o] \in Nat
  BY OrderLocksAssumption
<1> DEFINE s == <<Action("share"), Configuration("share"),
                  Rows("window", {WindowOf[o], w}, "share"), Row("order", o, "update")>>
           plan == LocksOf(Statements(s))
<1>1. \A l \in plan : l \in {Lock("action", 0, "share"),
                            Lock("configuration", 0, "share"),
                            Lock("window", WindowOf[o], "share"),
                            Lock("window", w, "share"),
                            Lock("order", o, "update")}
  BY FourStatements, RowIs DEF Action, Configuration, Rows
<1>2. Lock("action", 0, "share") \in plan /\ Lock("window", WindowOf[o], "share") \in plan
  BY FourStatements, RowIs DEF Action, Rows
<1> HIDE DEF plan
<1>3. \A l \in plan : l \in Locks /\ l.table \notin {"list", "task"}
  BY <1>0, <1>1, LockRow, SMTT(30) DEF Tables
<1>4. \A l \in plan : Fits("complete", l)
  BY <1>0, <1>1, LockRow, SMTT(30) DEF Fits, ActionMode, ByAction, Board, Billing, Tables
<1>5. \A l \in plan : l.table \in {"order", "delivery"} => l.id = o
  BY <1>0, <1>1, LockRow, SMTT(30) DEF Tables
<1>6. \E k \in plan : k.table = "window" /\ k.id = WindowOf[o]
  BY <1>0, <1>2, LockRow, SMTT(30) DEF Tables
<1>7. Start("complete", plan, {})
  BY <1>2, <1>3, <1>4, <1>5, <1>6 DEF Start, ActionMode, ByAction, Board
<1>8. Ordered("complete", Statements(s))
  <2>1. InTurns("complete", s, <<1, 2, 6, 7>>)
    BY DEF InTurns, Action, Configuration, Row, Rows, Lock, Turn, Level
  <2>2. plan \subseteq Locks
    BY <1>3
  <2> QED
    BY <2>1, <2>2, OrderedStatements DEF plan
<1> QED
  BY <1>0, <1>7, <1>8, BegunPlain DEF complete, Kinds, Board, plan

(* invoiced, *)
LEMMA IssueBegins == ASSUME NEW o \in Orders PROVE Begun(issue(o))
<1>0. o \in Nat /\ WindowOf[o] \in Nat
  BY OrderLocksAssumption
<1> DEFINE s == <<Action("share"), Configuration("share"), Row("order", o, "update"),
                  Row("profile", 0, "update"), Row("legal", 0, "share")>>
           plan == LocksOf(Statements(s))
<1>1. \A l \in plan : l \in {Lock("action", 0, "share"),
                            Lock("configuration", 0, "share"),
                            Lock("order", o, "update"),
                            Lock("profile", 0, "update"),
                            Lock("legal", 0, "share")}
  BY FiveStatements, RowIs DEF Action, Configuration
<1>2. Lock("action", 0, "share") \in plan
  BY FiveStatements, RowIs DEF Action
<1> HIDE DEF plan
<1>3. \A l \in plan : l \in Locks /\ l.table \notin {"list", "task"}
  BY <1>0, <1>1, LockRow, SMTT(30) DEF Tables
<1>4. \A l \in plan : Fits("issue", l)
  BY <1>0, <1>1, LockRow, SMTT(30) DEF Fits, ActionMode, ByAction, Board, Billing, Tables
<1>5. \A l \in plan : \A k \in plan : k.table = l.table => k = l
  BY <1>0, <1>1, LockRow, SMTT(30) DEF Tables
<1>6. Start("issue", plan, {})
  BY <1>2, <1>3, <1>4, <1>5 DEF Start, ActionMode, ByAction, Board
<1>7. Ordered("issue", Statements(s))
  <2>1. InTurns("issue", s, <<1, 2, 7, 14, 15>>)
    BY DEF InTurns, Action, Configuration, Row, Rows, Lock, Turn, Level
  <2>2. plan \subseteq Locks
    BY <1>3
  <2> QED
    BY <2>1, <2>2, OrderedStatements DEF plan
<1> QED
  BY <1>0, <1>6, <1>7, BegunPlain DEF issue, Kinds, Board, plan

(* cancelled; *)
LEMMA CancelBegins == ASSUME NEW o \in Orders PROVE Begun(cancel(o))
<1>0. o \in Nat /\ WindowOf[o] \in Nat
  BY OrderLocksAssumption
<1> DEFINE s == <<Action("share"), OfInvoice(o, Row("payments", o, "update")),
                  OfInvoice(o, Row("cancellation", o, "update")),
                  Row("window", WindowOf[o], "update"), Row("order", o, "update"),
                  Row("delivery", o, "update"), OfInvoice(o, Row("invoice", o, "update"))>>
           plan == LocksOf(Statements(s))
<1>1. \A l \in plan : l \in {Lock("action", 0, "share"),
                            Lock("payments", o, "update"),
                            Lock("cancellation", o, "update"),
                            Lock("window", WindowOf[o], "update"),
                            Lock("order", o, "update"),
                            Lock("delivery", o, "update"),
                            Lock("invoice", o, "update")}
  BY SevenStatements, RowIs DEF Action, OfInvoice, NoRow
<1>2. Lock("action", 0, "share") \in plan /\ Lock("window", WindowOf[o], "update") \in plan
  BY SevenStatements, RowIs DEF Action
<1> HIDE DEF plan
<1>3. \A l \in plan : l \in Locks /\ l.table \notin {"list", "task"}
  BY <1>0, <1>1, LockRow, SMTT(30) DEF Tables
<1>4. \A l \in plan : Fits("cancel", l)
  BY <1>0, <1>1, LockRow, SMTT(30) DEF Fits, ActionMode, ByAction, Board, Billing, Tables
<1>5. \A l \in plan : l.table \in {"order", "delivery"} => l.id = o
  BY <1>0, <1>1, LockRow, SMTT(30) DEF Tables
<1>6. \E k \in plan : k.table = "window" /\ k.id = WindowOf[o]
  BY <1>0, <1>2, LockRow, SMTT(30) DEF Tables
<1>7. Start("cancel", plan, {o})
  BY <1>2, <1>3, <1>4, <1>5, <1>6 DEF Start, ActionMode, ByAction, Board
<1>8. Ordered("cancel", Statements(s))
  <2>1. InTurns("cancel", s, <<1, 3, 4, 6, 7, 8, 9>>)
    BY DEF InTurns, Action, Row, Rows, Lock, OfInvoice, NoRow, Turn, Level
  <2>2. plan \subseteq Locks
    BY <1>3
  <2> QED
    BY <2>1, <2>2, OrderedStatements DEF plan
<1> QED
  BY <1>0, <1>7, <1>8, BegunSync DEF cancel, Kinds, Board, plan

(* an invoice paid, *)
LEMMA SettleBegins == ASSUME NEW o \in Invoiced PROVE Begun(settle_invoice(o))
<1>0. o \in Nat
  BY OrderLocksAssumption
<1> DEFINE s == <<Row("payments", o, "update"), Row("invoice", o, "update"), Audit>>
           plan == LocksOf(Statements(s))
<1>1. \A l \in plan : l \in {Lock("payments", o, "update"),
                            Lock("invoice", o, "update"),
                            Lock("action", 0, "keyshare")}
  BY ThreeStatements, RowIs DEF Action, Audit
<1> HIDE DEF plan
<1>3. \A l \in plan : l \in Locks /\ l.table \notin {"list", "task"}
  BY <1>0, <1>1, LockRow, SMTT(30) DEF Tables
<1>4. \A l \in plan : Fits("settle_invoice", l)
  BY <1>0, <1>1, LockRow, SMTT(30) DEF Fits, ActionMode, ByAction, Board, Billing, Tables
<1>5. \A l \in plan : l.table \notin {"order", "delivery"}
  BY <1>0, <1>1, LockRow, SMTT(30) DEF Tables
<1>6. Start("settle_invoice", plan, {})
  BY <1>3, <1>4, <1>5 DEF Start, ActionMode, ByAction, Board
<1>7. Ordered("settle_invoice", Statements(s))
  <2>1. InTurns("settle_invoice", s, <<3, 9, 11>>)
    BY DEF InTurns, Action, Audit, Row, Rows, Lock, Turn, Level
  <2>2. plan \subseteq Locks
    BY <1>3
  <2> QED
    BY <2>1, <2>2, OrderedStatements DEF plan
<1> QED
  BY <1>0, <1>6, <1>7, BegunPlain DEF settle_invoice, Kinds, Board, plan

(* cancelled, *)
LEMMA CancelInvoiceBegins == ASSUME NEW o \in Invoiced PROVE Begun(cancel_invoice(o))
<1>0. o \in Nat
  BY OrderLocksAssumption
<1> DEFINE s == <<Row("cancellation", o, "update"), Row("invoice", o, "update"), Audit>>
           plan == LocksOf(Statements(s))
<1>1. \A l \in plan : l \in {Lock("cancellation", o, "update"),
                            Lock("invoice", o, "update"),
                            Lock("action", 0, "keyshare")}
  BY ThreeStatements, RowIs DEF Action, Audit
<1> HIDE DEF plan
<1>3. \A l \in plan : l \in Locks /\ l.table \notin {"list", "task"}
  BY <1>0, <1>1, LockRow, SMTT(30) DEF Tables
<1>4. \A l \in plan : Fits("cancel_invoice", l)
  BY <1>0, <1>1, LockRow, SMTT(30) DEF Fits, ActionMode, ByAction, Board, Billing, Tables
<1>5. \A l \in plan : l.table \notin {"order", "delivery"}
  BY <1>0, <1>1, LockRow, SMTT(30) DEF Tables
<1>6. Start("cancel_invoice", plan, {})
  BY <1>3, <1>4, <1>5 DEF Start, ActionMode, ByAction, Board
<1>7. Ordered("cancel_invoice", Statements(s))
  <2>1. InTurns("cancel_invoice", s, <<4, 9, 11>>)
    BY DEF InTurns, Action, Audit, Row, Rows, Lock, Turn, Level
  <2>2. plan \subseteq Locks
    BY <1>3
  <2> QED
    BY <2>1, <2>2, OrderedStatements DEF plan
<1> QED
  BY <1>0, <1>6, <1>7, BegunPlain DEF cancel_invoice, Kinds, Board, plan

(* sent by mail, *)
LEMMA RequestMailBegins == ASSUME NEW o \in Invoiced PROVE Begun(request_mail(o))
<1>0. o \in Nat
  BY OrderLocksAssumption
<1> DEFINE s == <<Row("invoice", o, "update"), Audit>>
           plan == LocksOf(Statements(s))
<1>1. \A l \in plan : l \in {Lock("invoice", o, "update"),
                            Lock("action", 0, "keyshare")}
  BY TwoStatements, RowIs DEF Action, Audit
<1> HIDE DEF plan
<1>3. \A l \in plan : l \in Locks /\ l.table \notin {"list", "task"}
  BY <1>0, <1>1, LockRow, SMTT(30) DEF Tables
<1>4. \A l \in plan : Fits("request_mail", l)
  BY <1>0, <1>1, LockRow, SMTT(30) DEF Fits, ActionMode, ByAction, Board, Billing, Tables
<1>5. \A l \in plan : l.table \notin {"order", "delivery"}
  BY <1>0, <1>1, LockRow, SMTT(30) DEF Tables
<1>6. Start("request_mail", plan, {})
  BY <1>3, <1>4, <1>5 DEF Start, ActionMode, ByAction, Board
<1>7. Ordered("request_mail", Statements(s))
  <2>1. InTurns("request_mail", s, <<9, 11>>)
    BY DEF InTurns, Action, Audit, Row, Rows, Lock, Turn, Level
  <2>2. plan \subseteq Locks
    BY <1>3
  <2> QED
    BY <2>1, <2>2, OrderedStatements DEF plan
<1> QED
  BY <1>0, <1>6, <1>7, BegunPlain DEF request_mail, Kinds, Board, plan

(* and its mail confirmed; *)
LEMMA MarkSentBegins == ASSUME NEW o \in Invoiced PROVE Begun(mark_sent(o))
<1>0. o \in Nat
  BY OrderLocksAssumption
<1> DEFINE s == <<Row("mail", o, "update"), Row("invoice", o, "nokey"), Audit>>
           plan == LocksOf(Statements(s))
<1>1. \A l \in plan : l \in {Lock("mail", o, "update"),
                            Lock("invoice", o, "nokey"),
                            Lock("action", 0, "keyshare")}
  BY ThreeStatements, RowIs DEF Action, Audit
<1> HIDE DEF plan
<1>3. \A l \in plan : l \in Locks /\ l.table \notin {"list", "task"}
  BY <1>0, <1>1, LockRow, SMTT(30) DEF Tables
<1>4. \A l \in plan : Fits("mark_sent", l)
  BY <1>0, <1>1, LockRow, SMTT(30) DEF Fits, ActionMode, ByAction, Board, Billing, Tables
<1>5. \A l \in plan : l.table \notin {"order", "delivery"}
  BY <1>0, <1>1, LockRow, SMTT(30) DEF Tables
<1>6. Start("mark_sent", plan, {})
  BY <1>3, <1>4, <1>5 DEF Start, ActionMode, ByAction, Board
<1>7. Ordered("mark_sent", Statements(s))
  <2>1. InTurns("mark_sent", s, <<5, 9, 11>>)
    BY DEF InTurns, Action, Audit, Row, Rows, Lock, Turn, Level
  <2>2. plan \subseteq Locks
    BY <1>3
  <2> QED
    BY <2>1, <2>2, OrderedStatements DEF plan
<1> QED
  BY <1>0, <1>6, <1>7, BegunPlain DEF mark_sent, Kinds, Board, plan

(* a window marked as full; *)
LEMMA SetFullyBookedBegins == ASSUME NEW w \in Windows PROVE Begun(set_fully_booked(w))
<1>0. w \in Nat
  BY OrderLocksAssumption
<1> DEFINE s == <<Action("share"), Row("window", w, "update")>>
           plan == LocksOf(Statements(s))
<1>1. \A l \in plan : l \in {Lock("action", 0, "share"),
                            Lock("window", w, "update")}
  BY TwoStatements, RowIs DEF Action
<1>2. Lock("action", 0, "share") \in plan
  BY TwoStatements, RowIs DEF Action
<1> HIDE DEF plan
<1>3. \A l \in plan : l \in Locks /\ l.table \notin {"list", "task"}
  BY <1>0, <1>1, LockRow, SMTT(30) DEF Tables
<1>4. \A l \in plan : Fits("set_fully_booked", l)
  BY <1>0, <1>1, LockRow, SMTT(30) DEF Fits, ActionMode, ByAction, Board, Billing, Tables
<1>5. \A l \in plan : l.table \notin {"order", "delivery"}
  BY <1>0, <1>1, LockRow, SMTT(30) DEF Tables
<1>6. Start("set_fully_booked", plan, {})
  BY <1>2, <1>3, <1>4, <1>5 DEF Start, ActionMode, ByAction, Board
<1>7. Ordered("set_fully_booked", Statements(s))
  <2>1. InTurns("set_fully_booked", s, <<1, 6>>)
    BY DEF InTurns, Action, Row, Rows, Lock, Turn, Level
  <2>2. plan \subseteq Locks
    BY <1>3
  <2> QED
    BY <2>1, <2>2, OrderedStatements DEF plan
<1> QED
  BY <1>0, <1>6, <1>7, BegunPlain DEF set_fully_booked, Kinds, Board, plan

(* a tick on the board that changes no task, *)
LEMMA SetStateBegins == ASSUME NEW o \in Orders PROVE Begun(set_state(o))
<1>0. o \in Nat /\ WindowOf[o] \in Nat
  BY OrderLocksAssumption
<1> DEFINE s == <<Row("window", WindowOf[o], "update"), Row("delivery", o, "update"),
                  Row("order", o, "keyshare"), Audit>>
           plan == LocksOf(Statements(s))
<1>1. \A l \in plan : l \in {Lock("window", WindowOf[o], "update"),
                            Lock("delivery", o, "update"),
                            Lock("order", o, "keyshare"),
                            Lock("action", 0, "keyshare")}
  BY FourStatements, RowIs DEF Action, Audit
<1>2. Lock("window", WindowOf[o], "update") \in plan
  BY FourStatements, RowIs
<1> HIDE DEF plan
<1>3. \A l \in plan : l \in Locks /\ l.table \notin {"list", "task"}
  BY <1>0, <1>1, LockRow, SMTT(30) DEF Tables
<1>4. \A l \in plan : Fits("set_state", l)
  BY <1>0, <1>1, LockRow, SMTT(30) DEF Fits, ActionMode, ByAction, Board, Billing, Tables
<1>5. \A l \in plan : l.table \in {"order", "delivery"} => l.id = o
  BY <1>0, <1>1, LockRow, SMTT(30) DEF Tables
<1>6. \E k \in plan : k.table = "window" /\ k.id = WindowOf[o]
  BY <1>0, <1>2, LockRow, SMTT(30) DEF Tables
<1>7. Start("set_state", plan, {})
  BY <1>2, <1>3, <1>4, <1>5, <1>6 DEF Start, ActionMode, ByAction, Board
<1>8. Ordered("set_state", Statements(s))
  <2>1. InTurns("set_state", s, <<6, 8, 10, 11>>)
    BY DEF InTurns, Action, Audit, Row, Rows, Lock, Turn, Level
  <2>2. plan \subseteq Locks
    BY <1>3
  <2> QED
    BY <2>1, <2>2, OrderedStatements DEF plan
<1> QED
  BY <1>0, <1>7, <1>8, BegunPlain DEF set_state, Kinds, Board, plan

(* and one that does; *)
LEMMA SyncStateBegins ==
  ASSUME NEW o \in Orders, NEW u \in Nat, NEW needed \in BOOLEAN, needed => u \in Users
  PROVE  Begun(ThenSync(set_state(o), {o}, u, needed))
<1>0. o \in Nat /\ WindowOf[o] \in Nat
  BY OrderLocksAssumption
<1> DEFINE s == <<Row("window", WindowOf[o], "update"), Row("delivery", o, "update"),
                  Row("order", o, "keyshare"), Audit>>
           plan == LocksOf(Statements(s))
<1>1. \A l \in plan : l \in {Lock("window", WindowOf[o], "update"),
                            Lock("delivery", o, "update"),
                            Lock("order", o, "keyshare"),
                            Lock("action", 0, "keyshare")}
  BY FourStatements, RowIs DEF Action, Audit
<1>2. Lock("window", WindowOf[o], "update") \in plan
  BY FourStatements, RowIs
<1> HIDE DEF plan
<1>3. \A l \in plan : l \in Locks /\ l.table \notin {"list", "task"}
  BY <1>0, <1>1, LockRow, SMTT(30) DEF Tables
<1>4. \A l \in plan : Fits("set_state", l)
  <2>1. Fits("set_state", Lock("window", WindowOf[o], "update"))
    BY <1>0, LockRow, SMTT(30) DEF Fits, ActionMode, ByAction, Board, Billing, Tables
  <2>2. Fits("set_state", Lock("delivery", o, "update"))
    BY <1>0, LockRow, SMTT(30) DEF Fits, ActionMode, ByAction, Board, Billing, Tables
  <2>3. Fits("set_state", Lock("order", o, "keyshare"))
    BY <1>0, LockRow, SMTT(30) DEF Fits, ActionMode, ByAction, Board, Billing, Tables
  <2>4. Fits("set_state", Lock("action", 0, "keyshare"))
    BY <1>0, LockRow, SMTT(30) DEF Fits, ActionMode, ByAction, Board, Billing, Tables
  <2> QED
    BY <1>1, <2>1, <2>2, <2>3, <2>4
<1>5. \A l \in plan : l.table \in {"order", "delivery"} => l.id = o
  BY <1>0, <1>1, LockRow, SMTT(30) DEF Tables
<1>6. \E k \in plan : k.table = "window" /\ k.id = WindowOf[o]
  BY <1>0, <1>2, LockRow, SMTT(30) DEF Tables
<1>7. Start("set_state", plan, {o})
  BY <1>2, <1>3, <1>4, <1>5, <1>6 DEF Start, ActionMode, ByAction, Board
<1>8. Ordered("set_state", Statements(s))
  <2>1. InTurns("set_state", s, <<6, 8, 10, 11>>)
    BY DEF InTurns, Action, Audit, Row, Rows, Lock, Turn, Level
  <2>2. plan \subseteq Locks
    BY <1>3
  <2> QED
    BY <2>1, <2>2, OrderedStatements DEF plan
<1> QED
  BY <1>0, <1>7, <1>8, BegunSync DEF set_state, Kinds, Board, plan

(* a window closed *)
LEMMA CloseBegins ==
  ASSUME NEW w \in Windows, NEW missed \in SUBSET OrdersIn(w), NEW u \in Users
  PROVE  Begun(close_window(w, missed, u))
<1>0. w \in Nat /\ u \in Nat /\ \A o \in missed : o \in Orders /\ o \in Nat /\ WindowOf[o] = w
  BY OrderLocksAssumption DEF OrdersIn
<1> DEFINE s == <<Row("window", w, "update"), Rows("delivery", missed, "update"),
                  Rows("order", missed, "keyshare"), Audit>>
           plan == LocksOf(Statements(s))
<1>1. \A l \in plan :
        \/ l = Lock("window", w, "update")
        \/ l = Lock("action", 0, "keyshare")
        \/ \E o \in missed : l \in {Lock("delivery", o, "update"), Lock("order", o, "keyshare")}
  BY FourStatements, RowIs DEF Action, Audit, Rows
<1>2. Lock("window", w, "update") \in plan
  BY FourStatements, RowIs DEF Rows
<1> HIDE DEF plan
<1>3. \A l \in plan : l \in Locks /\ l.table \notin {"list", "task"}
  BY <1>0, <1>1, LockRow, SMTT(30) DEF Tables
<1>4. \A l \in plan : Fits("close_window", l)
  BY <1>0, <1>1, LockRow, SMTT(30) DEF Fits, ActionMode, ByAction, Board, Billing, Tables
<1>5. \A l \in plan : l.table \in {"order", "delivery"} => l.id \in missed
  BY <1>0, <1>1, LockRow, SMTT(30) DEF Tables
<1>6. \E k \in plan : k.table = "window" /\ k.id = w
  BY <1>0, <1>2, LockRow, SMTT(30) DEF Tables
<1>7. Start("close_window", plan, missed)
  BY <1>0, <1>2, <1>3, <1>4, <1>5, <1>6 DEF Start, ActionMode, ByAction, Board
<1>8. Ordered("close_window", Statements(s))
  <2>1. InTurns("close_window", s, <<6, 8, 10, 11>>)
    BY DEF InTurns, Action, Audit, Row, Rows, Lock, Turn, Level
  <2>2. plan \subseteq Locks
    BY <1>3
  <2> QED
    BY <2>1, <2>2, OrderedStatements DEF plan
<1> QED
  BY <1>0, <1>7, <1>8, BegunSync DEF close_window, Kinds, Board, plan

(* and opened again; *)
LEMMA ReopenBegins ==
  ASSUME NEW w \in Windows, NEW missed \in SUBSET OrdersIn(w)
  PROVE  Begun(reopen_window(w, missed))
<1>0. w \in Nat /\ \A o \in missed : o \in Orders /\ o \in Nat /\ WindowOf[o] = w
  BY OrderLocksAssumption DEF OrdersIn
<1> DEFINE s == <<Row("window", w, "update"), Rows("delivery", missed, "update"), Audit>>
           plan == LocksOf(Statements(s))
<1>1. \A l \in plan :
        \/ l = Lock("window", w, "update")
        \/ l = Lock("action", 0, "keyshare")
        \/ \E o \in missed : l \in {Lock("delivery", o, "update"), Lock("order", o, "keyshare")}
  BY ThreeStatements, RowIs DEF Action, Audit, Rows
<1>2. Lock("window", w, "update") \in plan
  BY ThreeStatements, RowIs DEF Rows
<1> HIDE DEF plan
<1>3. \A l \in plan : l \in Locks /\ l.table \notin {"list", "task"}
  BY <1>0, <1>1, LockRow, SMTT(30) DEF Tables
<1>4. \A l \in plan : Fits("reopen_window", l)
  BY <1>0, <1>1, LockRow, SMTT(30) DEF Fits, ActionMode, ByAction, Board, Billing, Tables
<1>5. \A l \in plan : l.table \in {"order", "delivery"} => l.id \in missed
  BY <1>0, <1>1, LockRow, SMTT(30) DEF Tables
<1>6. \E k \in plan : k.table = "window" /\ k.id = w
  BY <1>0, <1>2, LockRow, SMTT(30) DEF Tables
<1>7. Start("reopen_window", plan, missed)
  BY <1>0, <1>2, <1>3, <1>4, <1>5, <1>6 DEF Start, ActionMode, ByAction, Board
<1>8. Ordered("reopen_window", Statements(s))
  <2>1. InTurns("reopen_window", s, <<6, 8, 11>>)
    BY DEF InTurns, Action, Audit, Row, Rows, Lock, Turn, Level
  <2>2. plan \subseteq Locks
    BY <1>3
  <2> QED
    BY <2>1, <2>2, OrderedStatements DEF plan
<1> QED
  BY <1>0, <1>7, <1>8, BegunSync DEF reopen_window, Kinds, Board, plan

(* a driver assigned; *)
LEMMA AssignBegins == ASSUME NEW os \in SUBSET Orders PROVE Begun(assign_driver(os))
<1>0. \A o \in os : o \in Nat /\ WindowOf[o] \in Nat
  BY OrderLocksAssumption
<1> DEFINE s == <<Rows("window", {WindowOf[o] : o \in os}, "share"), Rows("order", os, "update"),
                  Rows("delivery", os, "update"), Rows("order", os, "keyshare"), Audit>>
           plan == LocksOf(Statements(s))
<1>1. \A l \in plan :
        \/ l = Lock("action", 0, "keyshare")
        \/ \E o \in os : l \in {Lock("window", WindowOf[o], "share"), Lock("order", o, "update"),
                               Lock("delivery", o, "update"), Lock("order", o, "keyshare")}
  BY FiveStatements, RowIs DEF Action, Audit, Rows
<1>2. \A o \in os : /\ Lock("window", WindowOf[o], "share") \in plan
                    /\ Lock("order", o, "update") \in plan
  BY FiveStatements, RowIs DEF Rows
<1> HIDE DEF plan
<1>3. \A l \in plan : l \in Locks /\ l.table \notin {"list", "task"}
  BY <1>0, <1>1, LockRow, SMTT(30) DEF Tables
<1>4. \A l \in plan : Fits("assign_driver", l)
  <2>1. Fits("assign_driver", Lock("action", 0, "keyshare"))
    BY <1>0, LockRow, SMTT(30) DEF Fits, ActionMode, ByAction, Board, Billing, Tables
  <2>2. \A o \in os : Fits("assign_driver", Lock("window", WindowOf[o], "share"))
    BY <1>0, LockRow, SMTT(30) DEF Fits, ActionMode, ByAction, Board, Billing, Tables
  <2>3. \A o \in os : Fits("assign_driver", Lock("order", o, "update"))
    BY <1>0, LockRow, SMTT(30) DEF Fits, ActionMode, ByAction, Board, Billing, Tables
  <2>4. \A o \in os : Fits("assign_driver", Lock("delivery", o, "update"))
    BY <1>0, LockRow, SMTT(30) DEF Fits, ActionMode, ByAction, Board, Billing, Tables
  <2>5. \A o \in os : Fits("assign_driver", Lock("order", o, "keyshare"))
    BY <1>0, LockRow, SMTT(30) DEF Fits, ActionMode, ByAction, Board, Billing, Tables
  <2> QED
    BY <1>1, <2>1, <2>2, <2>3, <2>4, <2>5
<1>5. \A l \in plan : l.table \in {"order", "delivery"} => l.id \in os
  BY <1>0, <1>1, LockRow, SMTT(30) DEF Tables
<1>6. \A o \in os : \E k \in plan : k.table = "window" /\ k.id = WindowOf[o]
  BY <1>0, <1>2, LockRow, SMTT(30) DEF Tables
<1>7. Start("assign_driver", plan, {})
  BY <1>2, <1>3, <1>4, <1>5, <1>6 DEF Start, ActionMode, ByAction, Board
<1>8. Ordered("assign_driver", Statements(s))
  <2>1. InTurns("assign_driver", s, <<6, 7, 8, 10, 11>>)
    BY DEF InTurns, Action, Audit, Row, Rows, Lock, Turn, Level
  <2>2. plan \subseteq Locks
    BY <1>3
  <2> QED
    BY <2>1, <2>2, OrderedStatements DEF plan
<1> QED
  BY <1>0, <1>7, <1>8, BegunPlain DEF assign_driver, Kinds, Board, plan

(* a legal configuration activated; *)
LEMMA ActivateBegins == Begun(activate)
<1> DEFINE s == <<Row("legal", 0, "update"), Row("profile", 0, "nokey")>>
           plan == LocksOf(Statements(s))
<1>1. \A l \in plan : l \in {Lock("legal", 0, "update"),
                            Lock("profile", 0, "nokey")}
  BY TwoStatements, RowIs
<1> HIDE DEF plan
<1>3. \A l \in plan : l \in Locks /\ l.table \notin {"list", "task"}
  BY <1>1, LockRow, SMTT(30) DEF Tables
<1>4. \A l \in plan : Fits("activate", l)
  BY <1>1, LockRow, SMTT(30) DEF Fits, ActionMode, ByAction, Board, Billing, Tables
<1>5. \A l \in plan : l.table \notin {"order", "delivery"}
  BY <1>1, LockRow, SMTT(30) DEF Tables
<1>6. Start("activate", plan, {})
  BY <1>3, <1>4, <1>5 DEF Start, ActionMode, ByAction, Board
<1>7. Ordered("activate", Statements(s))
  <2>1. InTurns("activate", s, <<15, 16>>)
    BY DEF InTurns, Row, Rows, Lock, Turn, Level
  <2>2. plan \subseteq Locks
    BY <1>3
  <2> QED
    BY <2>1, <2>2, OrderedStatements DEF plan
<1> QED
  BY <1>6, <1>7, BegunPlain DEF activate, Kinds, Board, plan

(* an action edited; *)
LEMMA UpdateDetailsBegins == Begun(update_details)
<1> DEFINE s == <<Action("nokey"), Configuration("share")>>
           plan == LocksOf(Statements(s))
<1>1. \A l \in plan : l \in {Lock("action", 0, "nokey"),
                            Lock("configuration", 0, "share")}
  BY TwoStatements, RowIs DEF Action, Configuration
<1>2. Lock("action", 0, "nokey") \in plan
  BY TwoStatements, RowIs DEF Action
<1> HIDE DEF plan
<1>3. \A l \in plan : l \in Locks /\ l.table \notin {"list", "task"}
  BY <1>1, LockRow, SMTT(30) DEF Tables
<1>4. \A l \in plan : Fits("update_details", l)
  BY <1>1, LockRow, SMTT(30) DEF Fits, ActionMode, ByAction, Board, Billing, Tables
<1>5. \A l \in plan : l.table \notin {"order", "delivery"}
  BY <1>1, LockRow, SMTT(30) DEF Tables
<1>6. Start("update_details", plan, {})
  BY <1>2, <1>3, <1>4, <1>5 DEF Start, ActionMode, ByAction, Board
<1>7. Ordered("update_details", Statements(s))
  <2>1. InTurns("update_details", s, <<1, 2>>)
    BY DEF InTurns, Action, Configuration, Row, Rows, Lock, Turn, Level
  <2>2. plan \subseteq Locks
    BY <1>3
  <2> QED
    BY <2>1, <2>2, OrderedStatements DEF plan
<1> QED
  BY <1>6, <1>7, BegunPlain DEF update_details, Kinds, Board, plan

(* the delivery planning saved; *)
LEMMA SaveBegins == ASSUME NEW f \in Forms PROVE Begun(save(f))
<1> DEFINE first == Statements(<<Action("update"), Configuration("nokey")>>)
           windows == UNION {Statement(3 + f[w], Row("window", w, "nokey")) : w \in Windows}
           plan == first \cup windows
           locks == LocksOf(plan)
<1>1. ASSUME NEW w \in Windows
      PROVE  /\ w \in Nat /\ f[w] \in Nat
             /\ \A v \in Windows : f[v] = f[w] => v = w
  BY OrderLocksAssumption DEF Forms
<1>2. ASSUME NEW p \in plan
      PROVE  \/ p = [step |-> 1, lock |-> Lock("action", 0, "update")]
             \/ p = [step |-> 2, lock |-> Lock("configuration", 0, "nokey")]
             \/ \E w \in Windows : p = [step |-> 3 + f[w], lock |-> Lock("window", w, "nokey")]
  <2>1. CASE p \in first
    <3> DEFINE s == <<Action("update"), Configuration("nokey")>>
    <3>1. PICK i \in DOMAIN s : \E l \in s[i] : p = [step |-> i, lock |-> l]
      BY <2>1, StatementsOf
    <3>2. i \in {1, 2} /\ s[1] = Action("update") /\ s[2] = Configuration("nokey")
      OBVIOUS
    <3> QED
      BY <3>1, <3>2, RowIs DEF Action, Configuration
  <2>2. ASSUME NEW w \in Windows, p \in Statement(3 + f[w], Row("window", w, "nokey"))
        PROVE  p = [step |-> 3 + f[w], lock |-> Lock("window", w, "nokey")]
    BY <2>2, RowIs DEF Statement
  <2> QED
    BY <2>1, <2>2
<1>3. Lock("action", 0, "update") \in locks
  <2>1. Lock("action", 0, "update") \in LocksOf(first)
    BY TwoStatements, RowIs DEF Action
  <2> QED
    BY <2>1 DEF LocksOf
<1> HIDE DEF plan
<1>4. \A l \in locks : \/ l \in {Lock("action", 0, "update"), Lock("configuration", 0, "nokey")}
                       \/ \E w \in Windows : l = Lock("window", w, "nokey")
  BY <1>2 DEF LocksOf
<1>5. ASSUME NEW p \in plan PROVE p \in [step : Nat, lock : Locks]
  <2>1. /\ Lock("action", 0, "update") \in Locks /\ Lock("configuration", 0, "nokey") \in Locks
        /\ \A w \in Windows : Lock("window", w, "nokey") \in Locks /\ 3 + f[w] \in Nat
    BY <1>1, LockRow DEF Tables
  <2> QED
    BY <1>2, <2>1
<1>6. ASSUME NEW p \in plan, NEW q \in plan
      PROVE  /\ Precedes("save", p.lock, q.lock) => Before(p, q)
             /\ p.lock = q.lock => p = q
  <2>1. ASSUME NEW r \in plan
        PROVE  \/ /\ r = [step |-> 1, lock |-> r.lock] /\ r.lock.table = "action"
                  /\ Turn("save", r.lock) = 1
               \/ /\ r = [step |-> 2, lock |-> r.lock] /\ r.lock.table = "configuration"
                  /\ Turn("save", r.lock) = 2
               \/ /\ r = [step |-> 3 + f[r.lock.id], lock |-> r.lock] /\ r.lock.table = "window"
                  /\ Turn("save", r.lock) = 6 /\ f[r.lock.id] \in Nat
    BY <1>1, <1>2 DEF Lock, Turn, Level
  <2> QED
    BY <2>1 DEF Precedes, Before
<1>7. Ordered("save", plan)
  BY <1>5, <1>6 DEF Ordered
<1> HIDE DEF locks
<1>8. \A l \in locks : l \in Locks /\ l.table \notin {"list", "task", "order", "delivery"}
  BY <1>1, <1>4, LockRow DEF Tables
<1>9. \A l \in locks : Fits("save", l)
  BY <1>1, <1>4, LockRow, SMTT(30) DEF Fits, ActionMode, ByAction, Board, Billing, Tables
<1>10. Start("save", locks, {})
  BY <1>3, <1>8, <1>9 DEF Start, ActionMode, ByAction, Board
<1> QED
  BY <1>7, <1>10, BegunPlain DEF save, Kinds, plan, locks

(* and a task edited by hand. *)
LEMMA UpdateTaskBegins ==
  ASSUME NEW o \in Orders, NEW u \in Users
  PROVE  Begun(update_task(o, u))
<1>1. LocksOf({}) = {} /\ u \in Nat
  BY OrderLocksAssumption DEF LocksOf
<1>2. Start("update_task", LocksOf({}), {o}) /\ Ordered("update_task", {})
  BY <1>1 DEF Start, Ordered, ByAction, Board
<1> QED
  BY <1>1, <1>2, BegunSync DEF update_task, Kinds

(* These are all the commands. *)
LEMMA CommandsBegin == ASSUME NEW cmd \in Commands PROVE Begun(cmd)
<1>1. Users \subseteq Nat
  BY OrderLocksAssumption
<1>2. \A o \in Orders, u \in Users : Begun(missed_again(o, u))
  BY <1>1, SyncStateBegins DEF missed_again
<1>3. \A o \in Orders : Begun(delivered_late(o))
  BY SyncStateBegins DEF delivered_late
<1>4. \/ cmd \in {create(w) : w \in Windows}
      \/ cmd \in {complete(o, w) : o \in Orders, w \in Windows}
      \/ cmd \in {issue(o) : o \in Orders \ Invoiced} \/ cmd \in {cancel(o) : o \in Orders}
      \/ cmd \in {settle_invoice(o) : o \in Invoiced}
      \/ cmd \in {cancel_invoice(o) : o \in Invoiced}
      \/ cmd \in {request_mail(o) : o \in Invoiced} \/ cmd \in {mark_sent(o) : o \in Invoiced}
      \/ cmd \in {set_fully_booked(w) : w \in Windows} \/ cmd \in {save(f) : f \in Forms}
      \/ cmd \in {set_state(o) : o \in Orders} \/ cmd \in {delivered_late(o) : o \in Orders}
      \/ cmd \in {missed_again(o, u) : o \in Orders, u \in Users}
      \/ \E w \in Windows : \E missed \in SUBSET OrdersIn(w), u \in Users :
           cmd = close_window(w, missed, u)
      \/ \E w \in Windows : \E missed \in SUBSET OrdersIn(w) : cmd = reopen_window(w, missed)
      \/ cmd \in {assign_driver(os) : os \in SUBSET Orders \ {{}}}
      \/ cmd \in {update_task(o, u) : o \in Orders, u \in Users}
      \/ cmd \in {activate, update_details}
  BY DEF Commands
<1>5. Invoiced \subseteq Orders
  BY OrderLocksAssumption
<1> QED
  BY <1>1, <1>2, <1>3, <1>4, <1>5, CreateBegins, CompleteBegins, IssueBegins, CancelBegins,
     SettleBegins, CancelInvoiceBegins, RequestMailBegins, MarkSentBegins, SetFullyBookedBegins,
     SaveBegins, SetStateBegins, CloseBegins, ReopenBegins, AssignBegins, UpdateTaskBegins,
     ActivateBegins, UpdateDetailsBegins

-----------------------------------------------------------------------------
(* What one step does to a command's record                                *)

(* No transaction *)
LEMMA IdleShaped == Idle \in CallRows /\ Shaped(Idle) /\ ListKnown(Idle, list)
<1>1. Idle \in CallRows
  BY OrderLocksAssumption DEF Idle, CallRows
<1>2. /\ Idle.kind = "none" /\ Has(Idle) = {} /\ Worked(Idle) = {} /\ Planned(Idle) = {}
      /\ Idle.locks = {} /\ Idle.done = {} /\ Idle.moved = {} /\ Idle.at = 0 /\ ~Idle.needed
  BY DEF Idle, Has, Worked, Planned, LocksOf
<1>3. Tasks(Idle) /\ Covered(Idle) /\ InTurn(Idle) /\ ListKnown(Idle, list)
  BY <1>2 DEF Tasks, Covered, InTurn, ListKnown, Board, ByAction
<1>4. Ordered(Idle.kind, Idle.plan)
  BY DEF Idle, Ordered
<1> QED
  BY <1>1, <1>2, <1>3, <1>4 DEF Shaped

(* An empty plan *)
LEMMA NothingPlanned == ASSUME NEW m PROVE Planned(m) = {} <=> m.plan = {}
  BY DEF Planned, LocksOf

(* What is planned and what is held are locks. *)
LEMMA PlannedLocks ==
  ASSUME NEW m \in CallRows
  PROVE  /\ \A l \in Planned(m) : l \in Locks /\ \E p \in m.plan : l = p.lock
         /\ \A p \in m.plan : p.lock \in Planned(m) /\ p.lock \in Locks
         /\ \A l \in m.locks : l \in Locks
  BY DEF Planned, LocksOf, CallRows

(* The statement that comes next has the lock that does. *)
LEMMA UpcomingForemost ==
  ASSUME NEW m \in CallRows, Shaped(m), NEW p, Upcoming(m, p)
  PROVE  Foremost(m, p.lock)
<1>1. p \in m.plan /\ p.lock \in Planned(m)
  BY PlannedLocks DEF Upcoming
<1> SUFFICES ASSUME NEW k \in Planned(m), Precedes(m.kind, k, p.lock) PROVE FALSE
  BY <1>1 DEF Foremost
<1>2. PICK q \in m.plan : k = q.lock
  BY PlannedLocks
<1>3. Ordered(m.kind, m.plan)
  BY DEF Shaped
<1>4. Before(q, p)
  BY <1>1, <1>2, <1>3 DEF Ordered
<1> QED
  BY <1>2, <1>4 DEF Upcoming

(* What is covered depends on the kind and the locks alone. *)
LEMMA CoveredSame ==
  ASSUME NEW m, NEW m2, m2.kind = m.kind, Has(m2) = Has(m), Covered(m)
  PROVE  Covered(m2)
  BY DEF Covered

(* A list is locked before the task. *)
LEMMA ListsFirst ==
  ASSUME NEW kind, NEW k, NEW l, k.table = "list", l.table = "task"
  PROVE  Precedes(kind, k, l)
  BY DEF Precedes, Turn, Level

(* TakeLock takes the next lock of the plan. *)
LEMMA TakeShaped ==
  ASSUME NEW m \in CallRows, Shaped(m), ListKnown(m, list), NEW p \in m.plan, Upcoming(m, p),
         NEW m2, m2 = [m EXCEPT !.plan = m.plan \ {p}, !.locks = m.locks \cup {p.lock}]
  PROVE  m2 \in CallRows /\ Shaped(m2) /\ ListKnown(m2, list)
<1> DEFINE n == p.lock
<1>0. n \in Planned(m) /\ n \in Locks /\ Foremost(m, n)
  BY PlannedLocks, UpcomingForemost
<1>1. /\ m2 \in CallRows /\ m2.plan = m.plan \ {p} /\ m2.locks = m.locks \cup {n}
      /\ m2.kind = m.kind /\ m2.todo = m.todo /\ m2.done = m.done
      /\ m2.moved = m.moved /\ m2.at = m.at /\ m2.needed = m.needed /\ m2.user = m.user
  BY <1>0 DEF CallRows
<1>2. Planned(m2) = Planned(m) \ {n}
  <2>1. \A q \in m.plan : q.lock = n => q = p
    <3>1. Ordered(m.kind, m.plan)
      BY DEF Shaped
    <3> QED
      BY <3>1 DEF Ordered
  <2> QED
    BY <1>1, <2>1 DEF Planned, LocksOf
<1> HIDE DEF n
<1>3. Has(m2) = Has(m) /\ Worked(m2) = Worked(m)
  BY <1>0, <1>1, <1>2 DEF Has, Worked
<1>4. InTurn(m2)
  BY <1>0, <1>1, <1>2 DEF InTurn, Foremost, Shaped
<1>5. Covered(m2)
  BY <1>1, <1>3, CoveredSame DEF Shaped
<1>6. /\ n.table = "task" => n.id = m.at /\ m.at \in Worked(m)
      /\ n.mode = "update" \/ n.table # "task"
  <2>1. Tasks(m) /\ Fits(m.kind, n)
    BY <1>0 DEF Shaped, Has
  <2> QED
    BY <1>0, <2>1 DEF Tasks, Worked, Fits
<1>7. m.kind = "update_task" /\ n.table = "task" => Planned(m) = {n}
  <2> SUFFICES ASSUME m.kind = "update_task", n.table = "task", NEW l \in Planned(m) PROVE l = n
    BY <1>0
  <2>1. m.at # 0 \/ m.done # {}
    BY <1>0 DEF Shaped, Tasks, Has
  <2>2. l.table \in {"list", "task"} /\ l.mode = "update" /\ n.mode = "update"
    BY <1>0, <2>1 DEF Shaped, Tasks, Fits, Has
  <2>3. l.table # "list"
    <3>1. ~Precedes(m.kind, l, n)
      BY <1>0 DEF Foremost
    <3> QED
      BY <3>1, ListsFirst
  <2>4. l.id = m.at /\ n.id = m.at
    BY <1>0, <2>2, <2>3 DEF Shaped, Tasks
  <2> QED
    BY <1>0, <2>2, <2>3, <2>4, PlannedLocks DEF Locks
<1>8. Tasks(m2)
  <2>1. \A l \in m2.locks : l.table = "task" => l.id \in Worked(m2)
    BY <1>1, <1>3, <1>6 DEF Tasks, Shaped
  <2>2. m.kind = "update_task" => \A l \in m2.locks : l.table = "task" => Planned(m2) = {}
    BY <1>1, <1>2, <1>7 DEF Tasks, Shaped
  <2>3. /\ m2.at # 0 \/ m2.done # {} => \A l \in Planned(m2) : l.table \in {"list", "task"}
        /\ \A l \in Planned(m2) : /\ l.table \in {"list", "task"} => m2.at # 0
                                  /\ l.table = "task" => l.id = m2.at
        /\ \A o \in m2.done : Lock("task", o, "update") \in m2.locks
    BY <1>1, <1>2 DEF Tasks, Shaped
  <2> QED
    BY <1>1, <1>3, <2>1, <2>2, <2>3 DEF Tasks, Shaped
<1>9. ListKnown(m2, list)
  <2> SUFFICES ASSUME m.kind = "cancel", n.table = "task"
               PROVE  Lock("list", list[n.id], "update") \in m.locks
    BY <1>1, <1>2, <1>3 DEF ListKnown
  <2>1. Lock("list", list[n.id], "update") \in Has(m)
    BY <1>0 DEF ListKnown
  <2>2. Lock("list", list[n.id], "update") \notin Planned(m)
    BY <1>0, ListsFirst DEF Foremost, Lock
  <2> QED
    BY <2>1, <2>2 DEF Has
<1>10. Ordered(m2.kind, m2.plan)
  BY <1>1 DEF Ordered, Shaped
<1> QED
  BY <1>1, <1>3, <1>4, <1>5, <1>8, <1>9, <1>10 DEF Shaped

(* Look plans the locks of a task and its lists. *)
LEMMA LookShaped ==
  ASSUME NEW m \in CallRows, Shaped(m), ListKnown(m, list), list \in [Orders -> Users],
         NEW o \in Orders, m.plan = {}, o \in m.todo, m.at \in {0, o}, m.looks < Looks,
         NEW m2,
         m2 = [m EXCEPT !.at = o, !.seen = <<list[o], assignee[o]>>, !.looks = m.looks + 1,
                        !.plan = Statements(<<Rows("list", {list[o]} \cup MovesTo(m, o), "update"),
                                              Row("task", o, "update")>>),
                        !.todo = m.todo \ {o}],
         assignee \in [Orders -> Users]
  PROVE  m2 \in CallRows /\ Shaped(m2) /\ ListKnown(m2, list)
<1> DEFINE ids == {list[o]} \cup MovesTo(m, o)
           s == <<Rows("list", ids, "update"), Row("task", o, "update")>>
           plan == LocksOf(Statements(s))
<1>1. /\ ids \subseteq Nat /\ o \in Nat /\ o # 0 /\ list[o] \in Nat /\ assignee[o] \in Nat
      /\ Looks \in Nat
      /\ ~m.needed => ids = {list[o]}
  BY OrderLocksAssumption DEF MovesTo, CallRows
<1> HIDE DEF ids
<1>2. /\ \A l \in plan : \/ l.table = "list" /\ l.id \in ids /\ l = Lock("list", l.id, "update")
                         \/ l = Lock("task", o, "update")
      /\ Lock("task", o, "update") \in plan /\ \A i \in ids : Lock("list", i, "update") \in plan
  BY TwoStatements, RowIs DEF Rows, Lock
<1> HIDE DEF plan
<1>3. \A l \in plan : l \in Locks
  <2>1. Lock("task", o, "update") \in Locks /\ \A i \in ids : Lock("list", i, "update") \in Locks
    BY <1>1, LockRow DEF Tables
  <2> QED
    BY <1>2, <2>1
<1>4. Planned(m) = {} /\ Ordered(m.kind, Statements(s))
  <2>1. InTurns(m.kind, s, <<12, 13>>)
    BY DEF InTurns, Row, Rows, Lock, Turn, Level
  <2> QED
    BY <1>3, <2>1, NothingPlanned, OrderedStatements DEF plan
<1> HIDE DEF s
<1>5. /\ m2 \in CallRows /\ Planned(m2) = plan /\ m2.plan = Statements(s) /\ m2.locks = m.locks
      /\ m2.kind = m.kind /\ m2.todo = m.todo \ {o} /\ m2.done = m.done
      /\ m2.moved = m.moved /\ m2.at = o /\ m2.needed = m.needed /\ m2.user = m.user
  <2>1. m2 = [m EXCEPT !.at = o, !.seen = <<list[o], assignee[o]>>, !.looks = m.looks + 1,
                       !.plan = Statements(s), !.todo = m.todo \ {o}]
    BY DEF s, ids
  <2>2. m.looks + 1 \in 0..Looks
    BY <1>1 DEF CallRows
  <2>3. /\ <<list[o], assignee[o]>> \in Nat \X Nat
        /\ Statements(s) \in SUBSET [step : Nat, lock : Locks]
    BY <1>4, <1>1 DEF Ordered
  <2>4. m.todo \ {o} \in SUBSET Orders /\ o \in Orders \cup {0}
    BY DEF CallRows
  <2>5. m2 \in CallRows
    BY <2>1, <2>2, <2>3, <2>4 DEF CallRows
  <2>6. m2.plan = Statements(s) /\ m2.todo = m.todo \ {o} /\ m2.at = o
    BY <2>1 DEF CallRows
  <2>7. /\ m2.locks = m.locks /\ m2.kind = m.kind /\ m2.done = m.done
        /\ m2.moved = m.moved /\ m2.needed = m.needed /\ m2.user = m.user
    BY <2>1 DEF CallRows
  <2> QED
    BY <2>5, <2>6, <2>7 DEF Planned, plan
<1>6. /\ Has(m) = m.locks /\ Has(m2) = m.locks \cup plan /\ Worked(m2) = Worked(m)
      /\ o \in Worked(m)
  BY <1>4, <1>1, <1>5 DEF Has, Worked
<1>7. m.kind \in Board \cup {"cancel", "update_task"}
  BY <1>6 DEF Shaped, Tasks
<1>8. \A l \in plan : l.table \in {"list", "task"} /\ l.mode = "update"
  BY <1>1, <1>2, LockRow DEF Tables
<1>9. \A l \in Has(m2) : Fits(m2.kind, l)
  <2>1. \A l \in plan : Fits(m.kind, l)
    BY <1>7, <1>8 DEF Fits
  <2> QED
    BY <1>5, <1>6, <2>1 DEF Shaped
<1>10. InTurn(m2)
  BY <1>5, <1>8 DEF InTurn
<1>11. Covered(m2)
  <2>1. \A l \in plan : l.table \notin {"order", "delivery"}
    BY <1>8
  <2>2. m.kind \notin {"issue", "assign_driver"}
    BY <1>7 DEF Board
  <2> QED
    BY <1>5, <1>6, <2>1, <2>2 DEF Covered, Shaped
<1>12. Tasks(m2)
  <2>1. \A l \in plan : l.table = "task" => l.id = o
    BY <1>2 DEF Lock
  <2>2. m.kind = "update_task" => m.todo \ {o} = {} /\ m.locks = {} /\ ids = {list[o]}
    BY <1>1, <1>6 DEF Shaped, Tasks, Worked, Board
  <2>3. m.kind = "update_task" => \A k, l \in plan : k.table = "list" /\ l.table = "list" => k = l
    <3>1. \A l \in plan : l.table = "list" => l = Lock("list", l.id, "update") /\ l.id \in ids
      BY <1>1, <1>2, LockRow DEF Tables
    <3> QED
      BY <2>2, <3>1
  <2>4. /\ \A l \in m2.locks : l.table = "task" => l.id \in Worked(m2)
        /\ \A x \in m2.done : Lock("task", x, "update") \in m2.locks
        /\ m2.moved \subseteq m2.done
        /\ m2.needed => m2.kind \in Board
        /\ m2.needed \/ m2.kind = "update_task" => m2.user \in Users
        /\ m2.kind \notin Board \cup {"cancel", "update_task"} => Worked(m2) = {}
        /\ m2.kind \in {"cancel", "update_task"} => \A x, p \in Worked(m2) : x = p
    BY <1>5, <1>6 DEF Tasks, Shaped
  <2>5. m2.kind \in Board \cup {"cancel"} =>
          \A x \in Worked(m2) : \E k \in Has(m2) : k.table = "window" /\ k.id = WindowOf[x]
    BY <1>5, <1>6 DEF Tasks, Shaped
  <2>6. m2.kind = "update_task" =>
         /\ m2.todo # {} => Has(m2) = {} /\ m2.at = 0 /\ m2.done = {}
         /\ \A l \in m2.locks : l.table = "task" => Planned(m2) = {}
         /\ \A k, l \in Has(m2) : k.table = "list" /\ l.table = "list" => k = l
    BY <1>5, <1>6, <2>2, <2>3
  <2>7. m2.at # 0
    BY <1>1, <1>5
  <2>8. Lock("task", m2.at, "update") \in Has(m2)
    BY <1>2, <1>5, <1>6
  <2> QED
    BY <1>5, <1>8, <2>1, <2>4, <2>5, <2>6, <2>7, <2>8 DEF Tasks
<1>13. ListKnown(m2, list)
  <2> SUFFICES ASSUME m.kind = "cancel" PROVE ListKnown(m2, list)
    BY <1>5 DEF ListKnown
  <2>1. ids = {list[o]} /\ \A p \in Worked(m) : p = o
    BY <1>1, <1>6 DEF Shaped, Tasks, Board
  <2>2. \A l \in plan : /\ l.table = "list" => l.id = list[o]
                        /\ l.table = "task" => l.id = o
    BY <1>1, <1>2, <2>1, LockRow DEF Tables
  <2>3. Lock("list", list[o], "update") \in plan
    BY <1>2, <2>1
  <2>4. /\ \A l \in m.locks : l.table = "list" => l.id = list[o]
        /\ \A l \in m.locks : l.table = "task" => Lock("list", list[l.id], "update") \in m.locks
    BY <1>6 DEF ListKnown
  <2>5. \A l \in Has(m2) : l.table = "list" => l.id = list[o]
    BY <1>6, <2>2, <2>4
  <2>6. \A l \in Planned(m2) : l.table = "task" => Lock("list", list[l.id], "update") \in Has(m2)
    BY <1>5, <1>6, <2>2, <2>3
  <2> QED
    BY <1>5, <1>6, <2>1, <2>4, <2>5, <2>6 DEF ListKnown
<1> QED
  BY <1>4, <1>5, <1>9, <1>10, <1>11, <1>12, <1>13 DEF Shaped

(* LookAgain puts the task back. *)
LEMMA LookAgainShaped ==
  ASSUME NEW m \in CallRows, Shaped(m), ListKnown(m, list),
         m.plan = {}, m.at # 0, m.kind # "update_task",
         NEW m2, m2 = [m EXCEPT !.todo = m.todo \cup {m.at}]
  PROVE  m2 \in CallRows /\ Shaped(m2) /\ ListKnown(m2, list)
<1>1. /\ m2 \in CallRows /\ m2.plan = m.plan /\ m2.locks = m.locks
      /\ m2.kind = m.kind /\ m2.todo = m.todo \cup {m.at} /\ m2.done = m.done
      /\ m2.moved = m.moved /\ m2.at = m.at /\ m2.needed = m.needed /\ m2.user = m.user
  BY DEF CallRows
<1>2. Planned(m2) = {} /\ Planned(m) = {} /\ Has(m2) = Has(m) /\ Worked(m2) = Worked(m)
  BY <1>1, NothingPlanned DEF Has, Worked
<1>3. InTurn(m2) /\ Covered(m2) /\ ListKnown(m2, list)
  <2>1. InTurn(m2)
    BY <1>1, <1>2 DEF InTurn
  <2>2. Covered(m) /\ m2.kind = m.kind /\ Has(m2) = Has(m)
    BY <1>1, <1>2 DEF Shaped
  <2>3. Covered(m2)
    BY <2>2, CoveredSame, Zenon
  <2> QED
    BY <1>1, <1>2, <2>1, <2>3 DEF ListKnown
<1>4. Tasks(m2)
  <2>1. /\ m.kind \notin Board \cup {"cancel", "update_task"} => Worked(m) = {}
        /\ m.kind \in Board \cup {"cancel"} =>
             \A o \in Worked(m) : \E k \in Has(m) : k.table = "window" /\ k.id = WindowOf[o]
        /\ \A l \in m.locks : l.table = "task" => l.id \in Worked(m)
        /\ \A o \in m.done : Lock("task", o, "update") \in m.locks
        /\ m.moved \subseteq m.done
        /\ m.needed => m.kind \in Board
        /\ m.needed \/ m.kind = "update_task" => m.user \in Users
        /\ m.kind \in {"cancel", "update_task"} => \A o, p \in Worked(m) : o = p
    BY DEF Tasks, Shaped
  <2> QED
    BY <1>1, <1>2, <2>1 DEF Tasks
<1>5. Ordered(m2.kind, m2.plan)
  BY <1>1 DEF Shaped
<1> QED
  BY <1>1, <1>2, <1>3, <1>4, <1>5 DEF Shaped

(* Synced is done with the task. *)
LEMMA SyncedShaped ==
  ASSUME NEW m \in CallRows, Shaped(m), ListKnown(m, list),
         m.plan = {}, m.at # 0, m.at \notin m.todo,
         NEW m2,
         m2 = [m EXCEPT !.at = 0, !.looks = 0, !.seen = <<0, 0>>, !.done = m.done \cup {m.at},
                 !.moved = m.moved \cup (IF m.kind = "update_task" \/ m.seen[2] # m.user
                                        THEN {m.at} ELSE {})]
  PROVE  m2 \in CallRows /\ Shaped(m2) /\ ListKnown(m2, list)
<1>1. /\ m2 \in CallRows /\ m2.plan = m.plan /\ m2.locks = m.locks
      /\ m2.kind = m.kind /\ m2.todo = m.todo /\ m2.done = m.done \cup {m.at}
      /\ m2.moved \subseteq m.moved \cup {m.at} /\ m2.at = 0
      /\ m2.needed = m.needed /\ m2.user = m.user
  <2> DEFINE moved == m.moved \cup (IF m.kind = "update_task" \/ m.seen[2] # m.user
                                   THEN {m.at} ELSE {})
  <2>1. /\ moved \in SUBSET Orders /\ moved \subseteq m.moved \cup {m.at}
        /\ m.done \cup {m.at} \in SUBSET Orders
    BY DEF CallRows
  <2>2. <<0, 0>> \in Nat \X Nat /\ 0 \in 0..Looks
    BY OrderLocksAssumption
  <2>3. m2 = [m EXCEPT !.at = 0, !.looks = 0, !.seen = <<0, 0>>, !.done = m.done \cup {m.at},
                       !.moved = moved]
    OBVIOUS
  <2> HIDE DEF moved
  <2> QED
    BY <2>1, <2>2, <2>3 DEF CallRows
<1>2. /\ Planned(m2) = {} /\ Planned(m) = {} /\ Has(m2) = Has(m)
      /\ Worked(m2) = Worked(m) /\ m.at \in Worked(m)
  BY <1>1, NothingPlanned, OrderLocksAssumption DEF Has, Worked, CallRows
<1>3. InTurn(m2) /\ Covered(m2) /\ ListKnown(m2, list)
  <2>1. InTurn(m2)
    BY <1>1, <1>2 DEF InTurn
  <2>2. Covered(m) /\ m2.kind = m.kind /\ Has(m2) = Has(m)
    BY <1>1, <1>2 DEF Shaped
  <2>3. Covered(m2)
    BY <2>2, CoveredSame, Zenon
  <2> QED
    BY <1>1, <1>2, <2>1, <2>3 DEF ListKnown
<1>4. Lock("task", m.at, "update") \in m.locks
  BY <1>2 DEF Shaped, Tasks, Has
<1>5. m.kind = "update_task" => m.todo = {}
  BY DEF Shaped, Tasks
<1>6. Tasks(m2)
  BY <1>1, <1>2, <1>4, <1>5 DEF Tasks, Shaped
<1>7. Ordered(m2.kind, m2.plan)
  BY <1>1 DEF Shaped
<1> QED
  BY <1>1, <1>2, <1>3, <1>6, <1>7 DEF Shaped

-----------------------------------------------------------------------------
(* The invariant, step by step                                             *)

(* A command that has come to its tasks holds the window of their orders.  *)
LEMMA WindowHeld ==
  ASSUME NEW m \in CallRows, Shaped(m), m.kind \in Board \cup {"cancel"},
         m.at # 0 \/ m.done # {}, NEW o \in Worked(m)
  PROVE  \E k \in m.locks : k.table = "window" /\ k.id = WindowOf[o] /\ k.mode = "update"
<1>1. PICK k \in Has(m) : k.table = "window" /\ k.id = WindowOf[o]
  BY DEF Shaped, Tasks
<1>2. k \notin Planned(m)
  BY <1>1 DEF Shaped, Tasks
<1>3. k.mode = "update"
  BY <1>1 DEF Shaped, Fits, Board
<1> QED
  BY <1>1, <1>2, <1>3 DEF Has

(* A row locked for update is locked by one command. *)
LEMMA UpdatesExclude ==
  ASSUME LocksExclusive, NEW c \in Calls, NEW d \in Calls,
         NEW k \in call[c].locks, NEW l \in call[d].locks,
         SameRow(k, l), k.mode = "update", l.mode \in {"keyshare", "share", "nokey", "update"}
  PROVE  c = d
  BY DEF LocksExclusive, Conflict, Strength

(* Conflicts are mutual. *)
LEMMA ConflictsMutual ==
  ASSUME NEW k \in Locks, NEW l \in Locks
  PROVE  SameRow(k, l) /\ Conflict(k.mode, l.mode) <=> SameRow(l, k) /\ Conflict(l.mode, k.mode)
  BY DEF SameRow, Conflict, Strength, Locks

(* No two commands that synchronise tasks have come to one task. *)
LEMMA OneWorker ==
  ASSUME LockInv, NEW c \in Calls, NEW d \in Calls,
         NEW o \in Worked(call[c]), o \in Worked(call[d]),
         call[c].kind \in Board \cup {"cancel"}, call[d].kind \in Board \cup {"cancel"},
         call[c].at # 0 \/ call[c].done # {}, call[d].at # 0 \/ call[d].done # {}
  PROVE  c = d
<1>1. /\ call[c] \in CallRows /\ Shaped(call[c]) /\ call[d] \in CallRows /\ Shaped(call[d])
      /\ LocksExclusive
  BY DEF LockInv, TypeOK
<1>2. PICK k \in call[c].locks : k.table = "window" /\ k.id = WindowOf[o] /\ k.mode = "update"
  BY <1>1, WindowHeld
<1>3. PICK l \in call[d].locks : l.table = "window" /\ l.id = WindowOf[o] /\ l.mode = "update"
  BY <1>1, WindowHeld
<1> QED
  BY <1>1, <1>2, <1>3, UpdatesExclude DEF SameRow

(* No two commands have synchronised one task. *)
LEMMA OneSynced ==
  ASSUME LockInv, NEW c \in Calls, NEW d \in Calls, NEW o \in call[c].done, o \in call[d].done
  PROVE  c = d
<1>1. Lock("task", o, "update") \in call[c].locks /\ Lock("task", o, "update") \in call[d].locks
  BY DEF LockInv, Shaped, Tasks
<1> QED
  BY <1>1, UpdatesExclude DEF LockInv, SameRow, Lock

(* Nothing is locked at first. *)
LEMMA InitLock == Init => LockInv
<1> SUFFICES ASSUME Init PROVE LockInv
  OBVIOUS
<1>1. \A c \in Calls : call[c] = Idle
  BY DEF Init
<1>2. TypeOK
  BY IdleShaped, OrderLocksAssumption DEF Init, TypeOK
<1>3. Idle.locks = {} /\ ~Idle.needed
  BY DEF Idle
<1>4. LocksExclusive /\ ClosureTakesTasks
  BY <1>1, <1>3 DEF LocksExclusive, ClosureTakesTasks
<1> QED
  BY <1>1, <1>2, <1>4, IdleShaped DEF LockInv

(* A step that leaves the tasks alone, takes no lock and gives c the record m *)
LEMMA StepInv ==
  ASSUME LockInv, NEW c \in Calls, NEW m, m \in CallRows, Shaped(m), ListKnown(m, list),
         call' = [call EXCEPT ![c] = m], UNCHANGED <<list, assignee>>, commands' \in Nat,
         \A d \in Calls \ {c} : \A k \in m.locks, l \in call[d].locks :
           SameRow(k, l) => ~Conflict(k.mode, l.mode),
         m.needed => \A o \in m.done : o \in m.moved \/ assignee[o] = m.user
  PROVE  LockInv'
<1>1. call'[c] = m /\ \A d \in Calls \ {c} : call'[d] = call[d]
  BY DEF LockInv, TypeOK
<1>2. TypeOK'
  BY DEF LockInv, TypeOK
<1>3. (\A d \in Calls : Shaped(call[d]) /\ ListKnown(call[d], list))'
  BY <1>1 DEF LockInv
<1>4. LocksExclusive'
  <2> SUFFICES ASSUME NEW d \in Calls, NEW e \in Calls, d # e,
                      NEW k \in call'[d].locks, NEW l \in call'[e].locks, SameRow(k, l)
               PROVE  ~Conflict(k.mode, l.mode)
    BY DEF LocksExclusive, SameRow, Conflict, Strength
  <2>1. k \in Locks /\ l \in Locks
    BY <1>2 DEF TypeOK, CallRows
  <2>2. CASE d = c
    BY <1>1, <2>2
  <2>3. CASE e = c
    <3>1. ~(SameRow(l, k) /\ Conflict(l.mode, k.mode))
      BY <1>1, <2>3
    <3> QED
      BY <2>1, <3>1, ConflictsMutual
  <2>4. CASE d # c /\ e # c
    BY <1>1, <2>4 DEF LockInv, LocksExclusive
  <2> QED
    BY <2>2, <2>3, <2>4
<1>5. ClosureTakesTasks'
  BY <1>1 DEF LockInv, ClosureTakesTasks
<1> QED
  BY <1>2, <1>3, <1>4, <1>5 DEF LockInv

(* A commit moves tasks that no other command has come to. *)
LEMMA CommitInv == ASSUME LockInv, NEW c \in Calls, Commit(c) PROVE LockInv'
<1> DEFINE m == call[c]
<1>1. /\ m \in CallRows /\ Shaped(m) /\ m.plan = {} /\ m.todo = {} /\ m.at = 0
      /\ call'[c] = Idle /\ \A d \in Calls \ {c} : call'[d] = call[d]
      /\ call' = [call EXCEPT ![c] = Idle]
  BY DEF Commit, LockInv, TypeOK
<1>2. /\ \A o \in Orders : list'[o] = IF m.needed /\ o \in m.moved THEN m.user ELSE list[o]
      /\ \A o \in Orders : assignee'[o] =
            IF (m.needed \/ m.kind = "update_task") /\ o \in m.moved THEN m.user ELSE assignee[o]
  BY DEF Commit
<1>3. TypeOK'
  <2>1. m.needed \/ m.kind = "update_task" => m.user \in Users
    BY <1>1 DEF Shaped, Tasks
  <2>2. list' \in [Orders -> Users]
    BY <2>1 DEF Commit, LockInv, TypeOK
  <2>3. assignee' \in [Orders -> Users]
    BY <2>1 DEF Commit, LockInv, TypeOK
  <2>4. call' \in [Calls -> CallRows]
    BY <1>1, IdleShaped DEF LockInv, TypeOK
  <2> QED
    BY <2>2, <2>3, <2>4 DEF Commit, LockInv, TypeOK
<1>4. m.moved \subseteq m.done /\ (m.needed => m.kind \in Board) /\ m.done \subseteq Worked(m)
  BY <1>1 DEF Shaped, Tasks, Worked
<1>5. ASSUME NEW d \in Calls \ {c} PROVE ListKnown(call[d], list')
  <2> DEFINE n == call[d]
  <2> SUFFICES ASSUME n.kind = "cancel", n.at # 0 \/ n.done # {}
               PROVE  ListKnown(n, list')
    <3>1. n.at # 0 \/ n.done # {} \/ \A l \in Has(n) : l.table \notin {"list", "task"}
      BY DEF LockInv, Shaped, Tasks
    <3> QED
      BY <3>1 DEF ListKnown, Has
  <2>1. n \in CallRows /\ Shaped(n) /\ ListKnown(n, list) /\ Worked(n) \subseteq Orders
    BY OrderLocksAssumption DEF LockInv, TypeOK, CallRows, Worked
  <2>2. \A o \in Worked(n) : list'[o] = list[o]
    <3> SUFFICES ASSUME NEW o \in Worked(n), m.needed, o \in m.moved PROVE FALSE
      BY <1>2, <2>1
    <3> QED
      BY <1>4, OneWorker
  <2>3. /\ \A l \in Planned(n) : l.table = "task" => l.id \in Worked(n)
        /\ \A l \in n.locks : l.table = "task" => l.id \in Worked(n)
    BY <2>1 DEF Shaped, Tasks, Worked
  <2> QED
    BY <2>1, <2>2, <2>3 DEF ListKnown
<1>6. (\A d \in Calls : Shaped(call[d]) /\ ListKnown(call[d], list))'
  <2>1. ListKnown(Idle, list')
    BY DEF ListKnown, Idle
  <2> QED
    BY <1>1, <1>5, <2>1, IdleShaped DEF LockInv
<1>7. Idle.locks = {} /\ ~Idle.needed
  BY DEF Idle
<1>8. LocksExclusive'
  BY <1>1, <1>7 DEF LockInv, LocksExclusive, SameRow, Conflict
<1>9. ClosureTakesTasks'
  <2> SUFFICES ASSUME NEW d \in Calls \ {c}, call[d].needed, NEW o \in call[d].done
               PROVE  assignee'[o] = assignee[o]
    BY <1>1, <1>7 DEF LockInv, ClosureTakesTasks
  <2>1. o \notin m.moved
    BY <1>4, OneSynced
  <2>2. o \in Orders
    BY DEF LockInv, TypeOK, CallRows
  <2> QED
    BY <1>2, <2>1, <2>2
<1> QED
  BY <1>3, <1>6, <1>8, <1>9 DEF LockInv

(* Every step keeps the invariant. *)
LEMMA NextLock == LockInv /\ [Next]_vars => LockInv'
<1> SUFFICES ASSUME LockInv, [Next]_vars PROVE LockInv'
  OBVIOUS
<1>1. /\ TypeOK /\ LocksExclusive /\ ClosureTakesTasks /\ commands \in Nat
      /\ list \in [Orders -> Users] /\ assignee \in [Orders -> Users]
      /\ \A c \in Calls : call[c] \in CallRows /\ Shaped(call[c]) /\ ListKnown(call[c], list)
  BY DEF LockInv, TypeOK
<1>2. ASSUME NEW c \in Calls, Begin(c) PROVE LockInv'
  <2>1. PICK cmd \in Commands : call' = [call EXCEPT ![c] = cmd]
    BY <1>2 DEF Begin
  <2>2. Begun(cmd)
    BY CommandsBegin
  <2>3. /\ cmd \in CallRows /\ cmd.locks = {} /\ cmd.done = {}
        /\ Shaped(cmd) /\ ListKnown(cmd, list)
    BY <2>2, BegunShaped DEF Begun
  <2>4. commands' \in Nat /\ UNCHANGED <<list, assignee>>
    BY <1>1, <1>2 DEF Begin
  <2> QED
    BY <2>1, <2>3, <2>4, StepInv
<1>3. ASSUME NEW c \in Calls, TakeLock(c) PROVE LockInv'
  <2> DEFINE m == call[c]
  <2>1. PICK p \in m.plan :
          /\ Upcoming(m, p) /\ \A d \in Calls \ {c} : ~Holds(d, p.lock)
          /\ call' = [call EXCEPT ![c] =
                        [m EXCEPT !.plan = m.plan \ {p}, !.locks = m.locks \cup {p.lock}]]
    BY <1>3 DEF TakeLock
  <2> DEFINE n == p.lock
             m2 == [m EXCEPT !.plan = m.plan \ {p}, !.locks = m.locks \cup {p.lock}]
  <2>2. m2 \in CallRows /\ Shaped(m2) /\ ListKnown(m2, list)
    BY <1>1, <2>1, TakeShaped
  <2>3. /\ m2.locks = m.locks \cup {n} /\ m2.done = m.done /\ m2.moved = m.moved
        /\ m2.needed = m.needed /\ m2.user = m.user
    BY <1>1 DEF CallRows
  <2>4. call' = [call EXCEPT ![c] = m2]
    BY <2>1
  <2> HIDE DEF m2
  <2>5. \A d \in Calls \ {c} : \A k \in m2.locks, l \in call[d].locks :
          SameRow(k, l) => ~Conflict(k.mode, l.mode)
    BY <1>1, <2>1, <2>3 DEF LocksExclusive, Holds
  <2>6. m2.needed => \A o \in m2.done : o \in m2.moved \/ assignee[o] = m2.user
    BY <1>1, <2>3 DEF ClosureTakesTasks
  <2>7. commands' \in Nat /\ UNCHANGED <<list, assignee>>
    BY <1>1, <1>3 DEF TakeLock
  <2> QED
    BY <2>2, <2>4, <2>5, <2>6, <2>7, StepInv
<1>4. ASSUME NEW c \in Calls, NEW o \in Orders, Look(c, o) PROVE LockInv'
  <2> DEFINE m == call[c]
             m2 == [m EXCEPT !.at = o, !.seen = <<list[o], assignee[o]>>, !.looks = m.looks + 1,
                             !.plan = Statements(
                               <<Rows("list", {list[o]} \cup MovesTo(m, o), "update"),
                                 Row("task", o, "update")>>),
                             !.todo = m.todo \ {o}]
  <2>1. /\ m.plan = {} /\ o \in m.todo /\ m.at \in {0, o} /\ m.looks < Looks
        /\ call' = [call EXCEPT ![c] = m2]
        /\ UNCHANGED <<list, assignee, commands>>
    BY <1>4 DEF Look
  <2>2. m2 \in CallRows /\ Shaped(m2) /\ ListKnown(m2, list)
    BY <1>1, <2>1, LookShaped
  <2>3. /\ m2.locks = m.locks /\ m2.done = m.done /\ m2.moved = m.moved
        /\ m2.needed = m.needed /\ m2.user = m.user
    BY <1>1 DEF CallRows
  <2> HIDE DEF m2
  <2>4. \A d \in Calls \ {c} : \A k \in m2.locks, l \in call[d].locks :
          SameRow(k, l) => ~Conflict(k.mode, l.mode)
    BY <1>1, <2>3 DEF LocksExclusive
  <2>5. m2.needed => \A p \in m2.done : p \in m2.moved \/ assignee[p] = m2.user
    BY <1>1, <2>3 DEF ClosureTakesTasks
  <2>6. commands' \in Nat /\ UNCHANGED <<list, assignee>>
    BY <1>1, <2>1
  <2> QED
    BY <2>1, <2>2, <2>4, <2>5, <2>6, StepInv
<1>5. ASSUME NEW c \in Calls, LookAgain(c) PROVE LockInv'
  <2> DEFINE m == call[c]
             m2 == [m EXCEPT !.todo = m.todo \cup {m.at}]
  <2>1. /\ m.plan = {} /\ m.at # 0 /\ m.kind # "update_task"
        /\ call' = [call EXCEPT ![c] = m2]
        /\ UNCHANGED <<list, assignee, commands>>
    BY <1>5 DEF LookAgain
  <2>2. m2 \in CallRows /\ Shaped(m2) /\ ListKnown(m2, list)
    BY <1>1, <2>1, LookAgainShaped
  <2>3. /\ m2.locks = m.locks /\ m2.done = m.done /\ m2.moved = m.moved
        /\ m2.needed = m.needed /\ m2.user = m.user
    BY <1>1 DEF CallRows
  <2> HIDE DEF m2
  <2>4. \A d \in Calls \ {c} : \A k \in m2.locks, l \in call[d].locks :
          SameRow(k, l) => ~Conflict(k.mode, l.mode)
    BY <1>1, <2>3 DEF LocksExclusive
  <2>5. m2.needed => \A p \in m2.done : p \in m2.moved \/ assignee[p] = m2.user
    BY <1>1, <2>3 DEF ClosureTakesTasks
  <2>6. commands' \in Nat /\ UNCHANGED <<list, assignee>>
    BY <1>1, <2>1
  <2> QED
    BY <2>1, <2>2, <2>4, <2>5, <2>6, StepInv
<1>6. ASSUME NEW c \in Calls, Synced(c) PROVE LockInv'
  <2> DEFINE m == call[c]
             moves == m.kind = "update_task" \/ m.seen[2] # m.user
             m2 == [m EXCEPT !.at = 0, !.looks = 0, !.seen = <<0, 0>>, !.done = m.done \cup {m.at},
                             !.moved = m.moved \cup (IF moves THEN {m.at} ELSE {})]
  <2>1. /\ m.plan = {} /\ m.at # 0 /\ m.at \notin m.todo
        /\ m.kind # "update_task" => m.seen = <<list[m.at], assignee[m.at]>>
        /\ call' = [call EXCEPT ![c] = m2]
        /\ UNCHANGED <<list, assignee, commands>>
    BY <1>6 DEF Synced, Unchanged
  <2>2. m2 \in CallRows /\ Shaped(m2) /\ ListKnown(m2, list)
    BY <1>1, <2>1, SyncedShaped
  <2>3. /\ m2.locks = m.locks /\ m2.done = m.done \cup {m.at}
        /\ m2.moved = m.moved \cup (IF moves THEN {m.at} ELSE {})
        /\ m2.needed = m.needed /\ m2.user = m.user
    BY <1>1 DEF CallRows
  <2>4. moves \/ assignee[m.at] = m.user
    BY <2>1
  <2> HIDE DEF m2, moves
  <2>5. \A d \in Calls \ {c} : \A k \in m2.locks, l \in call[d].locks :
          SameRow(k, l) => ~Conflict(k.mode, l.mode)
    BY <1>1, <2>3 DEF LocksExclusive
  <2>6. m2.needed => \A p \in m2.done : p \in m2.moved \/ assignee[p] = m2.user
    BY <1>1, <2>3, <2>4 DEF ClosureTakesTasks
  <2>7. commands' \in Nat /\ UNCHANGED <<list, assignee>>
    BY <1>1, <2>1
  <2> QED
    BY <2>1, <2>2, <2>5, <2>6, <2>7, StepInv
<1>7. ASSUME NEW c \in Calls, RollBack(c) PROVE LockInv'
  <2>1. Idle.locks = {} /\ ~Idle.needed
    BY DEF Idle
  <2> QED
    BY <1>1, <1>7, <2>1, IdleShaped, StepInv DEF RollBack
<1>8. CASE UNCHANGED vars
  BY <1>8 DEF vars, LockInv, TypeOK, LocksExclusive, ClosureTakesTasks
<1> QED
  BY <1>2, <1>3, <1>4, <1>5, <1>6, <1>7, <1>8, CommitInv DEF Next

(* The invariant always holds. *)
LEMMA AlwaysLock == Spec => []LockInv
  BY InitLock, NextLock, PTL DEF Spec

(* The commands' rows and the follow-up tasks' lists and assignees keep     *)
(* their types.                                                            *)
THEOREM TypeCorrect == Spec => []TypeOK
  BY AlwaysLock, PTL DEF LockInv

(* A closure, or a drop missed again, gives every task it has synchronised  *)
(* to the closer when it commits, whoever edits the tasks by hand meanwhile: *)
(* _lock_current compares the task it has locked with the one it read.     *)
THEOREM ClosuresTakeTheirTasks == Spec => []ClosureTakesTasks
  BY AlwaysLock, PTL DEF LockInv

-----------------------------------------------------------------------------
(* Who waits for whom                                                      *)

(* The order of the rows, whoever locks them *)
RowBefore(k, l) == Level[k.table] < Level[l.table] \/ (k.table = l.table /\ k.id < l.id)

(* Each table has a level of its own. *)
LEMMA Levels ==
  ASSUME NEW s \in Tables, NEW t \in Tables
  PROVE  /\ Level[s] \in Nat /\ (Level[s] = Level[t] => s = t)
         /\ Level[s] \notin {10, 11, 16}
         /\ (Level[s] <= 9 => s \notin {"list", "task", "profile", "legal"})
  BY DEF Level, Tables

(* A lock's turn is its table's level; foreign keys and activation differ. *)
LEMMA Turns ==
  ASSUME NEW kind, NEW l \in Locks
  PROVE  /\ l.mode = "keyshare" /\ l.table = "order" => Turn(kind, l) = 10
         /\ l.mode = "keyshare" /\ l.table = "action" => Turn(kind, l) = 11
         /\ l.table = "profile" => Turn(kind, l) \in {14, 16}
         /\ l.mode # "keyshare" \/ l.table \notin {"order", "action"} =>
              Turn(kind, l) = Level[l.table] \/ (l.table = "profile" /\ Turn(kind, l) = 16)
         /\ Turn(kind, l) \in Nat
  BY Levels DEF Turn, Locks, Level, Tables

(* What a command holds it has locked in turn. *)
LEMMA HeldBefore ==
  ASSUME NEW m \in CallRows, Shaped(m), m.kind # "save", NEW k \in Planned(m), NEW h \in m.locks,
         k.table \notin {"list", "task"}
  PROVE  Turn(m.kind, h) < Turn(m.kind, k) \/ (Turn(m.kind, h) = Turn(m.kind, k) /\ h.id <= k.id)
<1>1. k \in Locks /\ h \in Locks
  BY PlannedLocks
<1>2. Turn(m.kind, h) \in Nat /\ Turn(m.kind, k) \in Nat /\ h.id \in Nat /\ k.id \in Nat
  BY <1>1, Turns DEF Locks
<1>3. ~Precedes(m.kind, k, h)
  BY DEF Shaped, InTurn
<1> QED
  BY <1>2, <1>3 DEF Precedes

(* The locks a command may take next are on one row. *)
LEMMA UpcomingRow ==
  ASSUME NEW m \in CallRows, m.kind # "save", NEW k \in Planned(m), NEW n \in Planned(m),
         Foremost(m, k), Foremost(m, n)
  PROVE  SameRow(k, n)
<1>1. k \in Locks /\ n \in Locks
  BY PlannedLocks
<1>2. Turn(m.kind, k) \in Nat /\ Turn(m.kind, n) \in Nat /\ k.id \in Nat /\ n.id \in Nat
  BY <1>1, Turns DEF Locks
<1>3. Turn(m.kind, k) = Turn(m.kind, n) /\ k.id = n.id
  BY <1>2 DEF Foremost, Precedes
<1>4. k.table = n.table
  BY <1>1, <1>3, Turns, Levels DEF Locks
<1> QED
  BY <1>3, <1>4 DEF SameRow

(* What a command holds, no other holds against it. *)
LEMMA OwnLock ==
  ASSUME LockInv, NEW c \in Calls, NEW n \in call[c].locks, NEW d \in Calls, c # d
  PROVE  ~Holds(d, n)
  BY DEF LockInv, LocksExclusive, Holds

(* A command waits for a lock of its plan that none comes before. *)
LEMMA WaitsForLock ==
  ASSUME LockInv, NEW c \in Calls, NEW d \in Calls, Waits(c, d)
  PROVE  c # d /\ \E n \in Planned(call[c]) : Holds(d, n) /\ Foremost(call[c], n)
<1>1. call[c] \in CallRows /\ Shaped(call[c])
  BY DEF LockInv, TypeOK
<1>2. PICK p \in call[c].plan : Upcoming(call[c], p) /\ Holds(d, p.lock)
  BY DEF Waits
<1> QED
  BY <1>1, <1>2, PlannedLocks, UpcomingForemost DEF Waits

(* Who waits for nobody is in no cycle. *)
LEMMA WaitsForNobody ==
  ASSUME NEW c \in Calls, \A d \in Calls : ~Waits(c, d)
  PROVE  NotInCycle(c)
<1> USE DEF NotInCycle
<1> WITNESS {} \in SUBSET (Calls \ {c})
<1> QED
  OBVIOUS

(* c is in no cycle when it waits for none of a set of calls that holds c   *)
(* and all that wait for one of the set.                                   *)
LEMMA OutOfReach ==
  ASSUME NEW c \in Calls, NEW W \in SUBSET Calls, c \in W,
         \A d \in Calls, e \in W : Waits(d, e) => d \in W,
         \A e \in W : ~Waits(c, e)
  PROVE  NotInCycle(c)
<1> DEFINE R == Calls \ W
<1>1. R \in SUBSET (Calls \ {c})
  OBVIOUS
<1>2. \A d \in Calls : Waits(c, d) => d \in R
  OBVIOUS
<1>3. \A d \in R, e \in Calls : Waits(d, e) => e \in R
  OBVIOUS
<1> HIDE DEF R
<1> QED
  BY <1>1, <1>2, <1>3 DEF NotInCycle

(* Nobody waits for a command that holds nothing. *)
LEMMA HoldsNothing ==
  ASSUME NEW c \in Calls, call[c].locks = {}
  PROVE  NotInCycle(c)
<1>1. \A d \in Calls : ~Waits(d, c)
  BY DEF Waits, Holds
<1> QED
  <2> DEFINE W == {c}
  <2>1. \A d \in Calls, e \in W : ~Waits(d, e)
    BY <1>1
  <2>2. W \in SUBSET Calls /\ c \in W
    OBVIOUS
  <2> HIDE DEF W
  <2> QED
    BY <2>1, <2>2, OutOfReach

-----------------------------------------------------------------------------
(* The row of the action *)

(* Who locks the action first and holds anything holds the action. *)
LEMMA ActionHeld ==
  ASSUME LockInv, NEW c \in Calls, call[c].kind \in ByAction \cup {"save", "update_details"},
         call[c].locks # {}
  PROVE  Lock("action", 0, ActionMode(call[c].kind)) \in call[c].locks
<1> DEFINE m == call[c]
           a == Lock("action", 0, ActionMode(m.kind))
<1>1. m \in CallRows /\ Shaped(m)
  BY DEF LockInv, TypeOK
<1>2. a \in Has(m)
  BY <1>1 DEF Shaped, Covered
<1>3. ActionMode(m.kind) \in {"share", "update", "nokey"}
  BY DEF ActionMode
<1>4. a \in Locks /\ a.table = "action" /\ a.id = 0 /\ a.mode = ActionMode(m.kind)
  BY <1>3, LockRow DEF Tables
<1>5. PICK h \in m.locks : TRUE
  OBVIOUS
<1>6. h \in Locks
  BY <1>1 DEF CallRows
<1> HIDE DEF a
<1>7. ASSUME a \in Planned(m) PROVE h = a
  <2>1. ~Precedes(m.kind, a, h)
    BY <1>1, <1>4, <1>7 DEF Shaped, InTurn
  <2>2. Turn(m.kind, a) = 1
    BY <1>3, <1>4 DEF Turn, Level
  <2>3. Turn(m.kind, h) <= 1
    BY <1>6, <2>1, <2>2, Turns DEF Precedes
  <2>4. h.table = "action"
    BY <1>6, <2>3, Turns DEF Locks, Level, Tables
  <2>5. h.id = 0 /\ h.mode = ActionMode(m.kind)
    BY <1>1, <2>4 DEF Shaped, Fits, Has
  <2> QED
    BY <1>4, <1>6, <2>4, <2>5 DEF Locks
<1>8. a \in m.locks
  BY <1>2, <1>5, <1>7 DEF Has
<1> QED
  BY <1>8 DEF a

(* A save of the delivery planning that holds anything keeps the commands  *)
(* that lock the action first from holding anything.                       *)
LEMMA SaveAlone ==
  ASSUME LockInv, NEW s \in Calls, call[s].kind = "save", call[s].locks # {},
         NEW d \in Calls, d # s
  PROVE  /\ \A l \in call[d].locks : l.table # "action"
         /\ call[d].kind \in ByAction \cup {"update_details"} => call[d].locks = {}
<1>1. Lock("action", 0, "update") \in call[s].locks
  BY ActionHeld DEF ActionMode, ByAction
<1>2. ASSUME NEW l \in call[d].locks, l.table = "action" PROVE FALSE
  <2>1. l.id = 0 /\ l \in Locks
    BY <1>2 DEF LockInv, TypeOK, CallRows, Shaped, Fits, Has
  <2>2. SameRow(Lock("action", 0, "update"), l)
    BY <1>2, <2>1 DEF SameRow, Lock
  <2>3. LocksExclusive /\ l.mode \in {"keyshare", "share", "nokey", "update"}
    BY <2>1 DEF LockInv, Locks
  <2> QED
    BY <1>1, <2>2, <2>3, UpdatesExclude DEF Lock
<1>3. ASSUME call[d].kind \in ByAction \cup {"update_details"}, call[d].locks # {} PROVE FALSE
  <2>1. Lock("action", 0, ActionMode(call[d].kind)) \in call[d].locks
    BY <1>3, ActionHeld
  <2> QED
    BY <1>2, <2>1 DEF Lock
<1> QED
  BY <1>2, <1>3

-----------------------------------------------------------------------------
(* The wait for a task, or for its list *)

(* A cancellation and an edit that hold a task wait for nobody: they hold  *)
(* its list.                                                               *)
LEMMA TaskHolderWaits ==
  ASSUME LockInv, NEW e \in Calls, call[e].kind \in {"cancel", "update_task"},
         NEW l \in call[e].locks, l.table = "task", NEW f \in Calls
  PROVE  ~Waits(e, f)
<1> DEFINE m == call[e]
<1>1. m \in CallRows /\ Shaped(m) /\ ListKnown(m, list)
  BY DEF LockInv, TypeOK
<1> SUFFICES ASSUME e # f, NEW k \in Planned(m), Holds(f, k) PROVE FALSE
  BY WaitsForLock
<1>2. m.kind = "cancel"
  BY <1>1 DEF Shaped, Tasks
<1>3. /\ (m.at # 0 \/ m.done # {}) /\ l.id \in Worked(m)
      /\ \A o, p \in Worked(m) : o = p
  BY <1>1, <1>2 DEF Shaped, Tasks, Has
<1>4. /\ k.table \in {"list", "task"} /\ k.mode = "update" /\ l.mode = "update"
      /\ k \in Locks /\ l \in Locks
  BY <1>1, <1>3, PlannedLocks DEF Shaped, Tasks, Fits, Has
<1>5. CASE k.table = "task"
  <2>1. m.at # 0 /\ k.id = m.at
    BY <1>1, <1>4, <1>5 DEF Shaped, Tasks
  <2>2. k.id \in Worked(m)
    BY <2>1 DEF Worked
  <2>3. k = l
    BY <1>3, <1>4, <1>5, <2>2 DEF Locks
  <2> QED
    BY <2>3, OwnLock
<1>6. CASE k.table = "list"
  <2>1. k.id = list[l.id]
    BY <1>1, <1>2, <1>3, <1>6 DEF ListKnown, Has
  <2>2. Lock("list", list[l.id], "update") \in m.locks
    BY <1>1, <1>2 DEF ListKnown
  <2>3. k = Lock("list", list[l.id], "update")
    BY <1>4, <1>6, <2>1 DEF Lock, Locks
  <2> QED
    BY <2>2, <2>3, OwnLock
<1> QED
  BY <1>4, <1>5, <1>6

(* Who waits for a task waits for one of those. *)
LEMMA TaskWait ==
  ASSUME LockInv, NEW c \in Calls, call[c].kind \in {"cancel", "update_task"},
         NEW n \in Planned(call[c]), n.table = "task", Foremost(call[c], n),
         call[c].kind = "update_task" => \A d \in Calls : call[d].kind \notin Board
  PROVE  NotInCycle(c)
<1> DEFINE m == call[c]
           R == {e \in Calls : Waits(c, e)}
<1>1. m \in CallRows /\ Shaped(m)
  BY DEF LockInv, TypeOK
<1>2. ASSUME NEW e \in R, NEW f \in Calls PROVE ~Waits(e, f)
  <2>1. PICK k \in Planned(m) : Holds(e, k) /\ Foremost(m, k)
    BY <1>2, WaitsForLock
  <2>2. k.table = "task" /\ k.id = n.id
    BY <1>1, <2>1, UpcomingRow DEF SameRow
  <2>3. PICK l \in call[e].locks : l.table = "task" /\ l.id = n.id
    BY <2>1, <2>2 DEF Holds, SameRow
  <2>4. call[e] \in CallRows /\ Shaped(call[e]) /\ c # e
    BY <1>2 DEF LockInv, TypeOK, Waits
  <2>5. call[e].kind \in {"cancel", "update_task"} \cup Board
    BY <2>3, <2>4 DEF Shaped, Fits, Has
  <2>6. ASSUME call[e].kind \in Board PROVE FALSE
    <3>1. m.kind = "cancel"
      BY <2>6
    <3>2. m.at # 0 /\ n.id = m.at /\ n.id \in Worked(m)
      BY <1>1 DEF Shaped, Tasks, Worked
    <3>3. n.id \in Worked(call[e]) /\ (call[e].at # 0 \/ call[e].done # {})
      BY <2>3, <2>4 DEF Shaped, Tasks, Has
    <3> QED
      BY <2>4, <2>6, <3>1, <3>2, <3>3, OneWorker
  <2> QED
    BY <2>3, <2>5, <2>6, TaskHolderWaits
<1>3. R \in SUBSET (Calls \ {c}) /\ \A d \in Calls : Waits(c, d) => d \in R
  BY DEF Waits
<1> HIDE DEF R
<1> QED
  BY <1>2, <1>3 DEF NotInCycle

(* Who waits for a list and holds none is in no cycle: what waits for a    *)
(* command that holds no list or task holds neither.                       *)
LEMMA ListWait ==
  ASSUME LockInv, NEW c \in Calls, call[c].kind # "save", NEW n \in Planned(call[c]),
         n.table = "list", Foremost(call[c], n),
         \A h \in call[c].locks : h.table \notin {"list", "task"}
  PROVE  NotInCycle(c)
<1> DEFINE W == {d \in Calls : \A h \in call[d].locks : h.table \notin {"list", "task"}}
<1>1. ASSUME NEW d \in Calls, NEW e \in W, Waits(d, e) PROVE d \in W
  <2>1. PICK k \in Planned(call[d]) : k.table \notin {"list", "task"}
    BY <1>1, WaitsForLock DEF Holds, SameRow
  <2>2. Shaped(call[d])
    BY DEF LockInv
  <2> QED
    BY <2>1, <2>2 DEF Shaped, Tasks, Has
<1>2. ASSUME NEW e \in W PROVE ~Waits(c, e)
  <2>1. call[c] \in CallRows
    BY DEF LockInv, TypeOK
  <2>2. \A k \in Planned(call[c]) : Foremost(call[c], k) => k.table = "list"
    BY <2>1, UpcomingRow DEF SameRow
  <2> QED
    BY <2>2, WaitsForLock DEF Holds, SameRow
<1>3. W \in SUBSET Calls /\ c \in W
  OBVIOUS
<1> HIDE DEF W
<1> QED
  BY <1>1, <1>2, <1>3, OutOfReach

-----------------------------------------------------------------------------
(* The wait of issuing for the profile and the legal configuration *)

(* Invoices lock the profile before the legal configuration, which they share. *)
LEMMA IssueWait ==
  ASSUME LockInv, \A d \in Calls : call[d].kind # "activate",
         NEW c \in Calls, call[c].kind = "issue",
         NEW n \in Planned(call[c]), n.table \in {"profile", "legal"}, Foremost(call[c], n),
         n \notin call[c].locks
  PROVE  NotInCycle(c)
<1> DEFINE W == {d \in Calls : \A h \in call[d].locks : h.table # "profile"}
<1>0. ASSUME NEW d \in Calls PROVE call[d] \in CallRows /\ Shaped(call[d])
  BY DEF LockInv, TypeOK
<1>1. ASSUME NEW d \in Calls, call[d].kind = "issue", NEW k \in Planned(call[d]), k.table = "legal",
             NEW e \in Calls
      PROVE  ~Holds(e, k)
  <2> SUFFICES ASSUME NEW l \in call[e].locks, l.table = "legal", Conflict(k.mode, l.mode)
               PROVE  FALSE
    BY <1>1 DEF Holds, SameRow
  <2>1. k.mode = "share"
    BY <1>0, <1>1 DEF Shaped, Fits, Has
  <2>2. l.mode = "share"
    BY <1>0 DEF Shaped, Fits, Has
  <2> QED
    BY <2>1, <2>2 DEF Conflict, Strength
<1>2. \A k \in Planned(call[c]) : Foremost(call[c], k) => k.table = n.table
  BY <1>0, UpcomingRow DEF SameRow
<1>3. CASE n.table = "legal"
  <2>1. \A d \in Calls : ~Waits(c, d)
    BY <1>1, <1>2, <1>3, WaitsForLock
  <2> QED
    BY <2>1, WaitsForNobody
<1>4. CASE n.table = "profile"
  <2>1. ASSUME NEW d \in Calls, NEW e \in W, Waits(d, e) PROVE d \in W
    <3>1. PICK k \in Planned(call[d]) : Holds(e, k)
      BY <2>1, WaitsForLock
    <3>2. k.table # "profile"
      BY <2>1, <3>1 DEF Holds, SameRow
    <3> SUFFICES ASSUME NEW h \in call[d].locks, h.table = "profile" PROVE FALSE
      OBVIOUS
    <3>3. call[d].kind = "issue"
      BY <1>0 DEF Shaped, Fits, Has
    <3>4. /\ k \in Locks /\ h \in Locks /\ h.mode = "update"
          /\ k.table \in {"action", "configuration", "order", "legal"}
      <4>1. k \in Locks /\ h \in Locks /\ Fits("issue", k) /\ Fits("issue", h)
        BY <1>0, <3>1, <3>3, PlannedLocks DEF Shaped, Has
      <4> QED
        BY <3>2, <4>1 DEF Fits, Locks, Tables, Board, Billing
    <3>5. k.table # "legal"
      BY <1>1, <3>1, <3>3
    <3>6. Turn(call[d].kind, h) \in {14, 16} /\ Turn(call[d].kind, k) \in 0..11
      BY <3>4, <3>5, Turns DEF Level
    <3>7. \/ Turn(call[d].kind, h) < Turn(call[d].kind, k)
          \/ Turn(call[d].kind, h) = Turn(call[d].kind, k)
      BY <1>0, <3>1, <3>3, <3>4, HeldBefore
    <3> QED
      BY <3>6, <3>7
  <2>2. c \in W
    <3> SUFFICES ASSUME NEW h \in call[c].locks, h.table = "profile" PROVE FALSE
      OBVIOUS
    <3>1. h = n
      BY <1>0, <1>4 DEF Shaped, Covered, Has
    <3> QED
      BY <3>1
  <2>3. ASSUME NEW e \in W PROVE ~Waits(c, e)
    BY <1>2, <1>4, WaitsForLock DEF Holds, SameRow
  <2>4. W \in SUBSET Calls
    OBVIOUS
  <2> HIDE DEF W
  <2> QED
    BY <2>1, <2>2, <2>3, <2>4, OutOfReach
<1> QED
  BY <1>3, <1>4

-----------------------------------------------------------------------------
(* The wait for a row that is locked in the same order by all *)

InOrder == {"payments", "cancellation", "mail", "window", "order", "delivery", "invoice"}

(* What is locked in turn before a row comes before that row. *)
LEMMA RowsInTurn ==
  ASSUME NEW m \in CallRows, Shaped(m), m.kind # "save", NEW k \in Planned(m), NEW h \in m.locks,
         k.table \in InOrder, k.mode # "keyshare"
  PROVE  /\ Level[h.table] < Level[k.table] \/ (h.table = k.table /\ h.id <= k.id)
         /\ h.mode # "keyshare" \/ h.table \notin {"order", "action"}
<1>1. k \in Locks /\ h \in Locks
  BY PlannedLocks
<1>2. Turn(m.kind, k) = Level[k.table] /\ Level[k.table] \in 3..9 /\ k.table \notin {"list", "task"}
  BY <1>1, Turns DEF InOrder, Level
<1>3. Turn(m.kind, h) < Turn(m.kind, k) \/ (Turn(m.kind, h) = Turn(m.kind, k) /\ h.id <= k.id)
  BY <1>2, HeldBefore
<1>4. /\ Turn(m.kind, h) = Level[h.table]
      /\ h.mode # "keyshare" \/ h.table \notin {"order", "action"}
  BY <1>1, <1>2, <1>3, Turns
<1>5. Level[h.table] = Level[k.table] => h.table = k.table
  BY <1>1, Levels DEF Locks
<1> QED
  BY <1>2, <1>3, <1>4, <1>5

(* A row that a command has yet to lock comes after all that it holds. *)
LEMMA NextRowLast ==
  ASSUME NEW m \in CallRows, Shaped(m), m.kind # "save", NEW n \in Planned(m), n \notin m.locks,
         NEW h \in m.locks, n.table \in InOrder, n.mode # "keyshare"
  PROVE  RowBefore(h, n)
<1>1. n \in Locks /\ h \in Locks
  BY PlannedLocks
<1>2. /\ Level[h.table] < Level[n.table] \/ (h.table = n.table /\ h.id <= n.id)
      /\ h.mode # "keyshare" \/ h.table \notin {"order", "action"}
  BY RowsInTurn
<1>3. ASSUME h.table = n.table, h.id = n.id PROVE FALSE
  <2>1. h.mode = n.mode
    BY <1>2, <1>3 DEF Shaped, Fits, Has, InOrder, Board
  <2> QED
    BY <1>1, <1>3, <2>1 DEF Locks
<1>4. h.id \in Nat /\ n.id \in Nat
  BY <1>1 DEF Locks
<1> QED
  BY <1>2, <1>3, <1>4 DEF RowBefore

(* Before and before is before. *)
LEMMA RowBeforeRow ==
  ASSUME NEW h \in Locks, NEW k \in Locks, NEW l \in Locks, NEW n \in Locks,
         Level[h.table] < Level[k.table] \/ (h.table = k.table /\ h.id <= k.id),
         SameRow(k, l), RowBefore(l, n)
  PROVE  RowBefore(h, n)
<1>1. /\ Level[h.table] \in Nat /\ Level[k.table] \in Nat /\ Level[n.table] \in Nat
      /\ h.id \in Nat /\ k.id \in Nat /\ n.id \in Nat
  BY Levels DEF Locks
<1> QED
  BY <1>1 DEF SameRow, RowBefore

(* A driver's assignment locks its orders before it refers to them. *)
LEMMA OwnOrder ==
  ASSUME LockInv, NEW c \in Calls, call[c].kind = "assign_driver", NEW k \in Planned(call[c]),
         Foremost(call[c], k), k.table = "order", k.mode = "keyshare", NEW e \in Calls, c # e
  PROVE  ~Holds(e, k)
<1> DEFINE m == call[c]
           own == Lock("order", k.id, "update")
<1>1. m \in CallRows /\ Shaped(m) /\ call[e] \in CallRows /\ k \in Locks
  BY PlannedLocks DEF LockInv, TypeOK
<1>2. own \in Has(m) /\ own.table = "order" /\ own.id = k.id /\ own.mode = "update"
  BY <1>1 DEF Shaped, Covered, Has, Lock
<1>3. own \notin Planned(m)
  <2>1. Turn(m.kind, own) = 7 /\ Turn(m.kind, k) = 10
    BY <1>2 DEF Turn, Level
  <2>2. Precedes(m.kind, own, k)
    BY <2>1 DEF Precedes
  <2> QED
    BY <2>2 DEF Foremost
<1>4. own \in m.locks
  BY <1>2, <1>3 DEF Has
<1> HIDE DEF own
<1>5. ASSUME NEW l \in call[e].locks, SameRow(k, l) PROVE FALSE
  <2>1. SameRow(own, l)
    BY <1>2, <1>5 DEF SameRow
  <2>2. l.mode \in {"keyshare", "share", "nokey", "update"}
    BY <1>1 DEF CallRows, Locks
  <2> QED
    BY <1>2, <1>4, <2>1, <2>2, UpdatesExclude DEF LockInv
<1> QED
  BY <1>5 DEF Holds

(* A change on the board and a command that holds an order's row have       *)
(* locked one window, unless an invoice is issued.                          *)
LEMMA BoardOrder ==
  ASSUME LockInv, NEW d \in Calls, call[d].kind \in Board, NEW k \in Planned(call[d]),
         Foremost(call[d], k), k.table = "order", NEW e \in Calls, call[e].kind # "issue", d # e
  PROVE  ~Holds(e, k)
<1> DEFINE m == call[d]
<1>1. m \in CallRows /\ Shaped(m) /\ call[e] \in CallRows /\ Shaped(call[e]) /\ k \in Locks
  BY PlannedLocks DEF LockInv, TypeOK
<1>2. k.mode = "keyshare"
  BY <1>1 DEF Shaped, Fits, Has, Board
<1> SUFFICES ASSUME NEW l \in call[e].locks, SameRow(k, l), Conflict(k.mode, l.mode) PROVE FALSE
  BY DEF Holds
<1>3. l \in Locks /\ l.table = "order" /\ l.id = k.id /\ l.mode = "update"
  <2>1. l \in Locks /\ l.table = "order" /\ l.id = k.id
    BY <1>1 DEF SameRow, CallRows
  <2> QED
    BY <1>2, <2>1 DEF Conflict, Strength, Locks
<1>4. PICK w \in m.locks : w.table = "window" /\ w.id = WindowOf[k.id] /\ w.mode = "update"
  <2>1. PICK w \in Has(m) : w.table = "window" /\ w.id = WindowOf[k.id]
    BY <1>1 DEF Shaped, Covered, Has, Board
  <2>2. w.mode = "update"
    BY <1>1, <2>1 DEF Shaped, Fits, Board
  <2>3. Turn(m.kind, w) = 6 /\ Turn(m.kind, k) = 10
    BY <1>2, <2>1, <2>2 DEF Turn, Level
  <2>4. Precedes(m.kind, w, k)
    BY <2>3 DEF Precedes
  <2> QED
    BY <2>1, <2>2, <2>4 DEF Foremost, Has
<1>5. PICK v \in call[e].locks : v.table = "window" /\ v.id = WindowOf[k.id]
  <2>1. PICK v \in Has(call[e]) : v.table = "window" /\ v.id = WindowOf[k.id]
    BY <1>1, <1>3 DEF Shaped, Covered, Has
  <2>2. v.mode # "keyshare"
    BY <1>1, <2>1 DEF Shaped, Fits
  <2>3. Turn(call[e].kind, v) = 6 /\ Turn(call[e].kind, l) = 7
    BY <1>3, <2>1, <2>2 DEF Turn, Level
  <2>4. Precedes(call[e].kind, v, l)
    BY <2>3 DEF Precedes
  <2>5. v \notin Planned(call[e])
    BY <1>1, <2>1, <2>4 DEF Shaped, InTurn
  <2> QED
    BY <2>1, <2>5 DEF Has
<1>6. v.mode \in {"keyshare", "share", "nokey", "update"}
  BY <1>1 DEF CallRows, Locks
<1> QED
  BY <1>4, <1>5, <1>6, UpdatesExclude DEF LockInv, SameRow

(* While no delivery planning is saved, what waits for a command that holds *)
(* only rows before n's holds only rows before n's.                        *)
LEMMA RowWait ==
  ASSUME LockInv, \A s \in Calls : call[s].kind = "save" => call[s].locks = {},
         NEW c \in Calls, call[c].kind # "save", NEW n \in Planned(call[c]), Foremost(call[c], n),
         n \notin call[c].locks, n.table \in InOrder, n.mode # "keyshare"
  PROVE  NotInCycle(c)
<1> DEFINE IssuesOrder(d) ==
             call[d].kind = "issue" /\ \E h \in call[d].locks : h.table = "order"
           W == {d \in Calls : ~IssuesOrder(d) /\ \A h \in call[d].locks : RowBefore(h, n)}
<1>0. ASSUME NEW d \in Calls
      PROVE  /\ call[d] \in CallRows /\ Shaped(call[d])
             /\ \A l \in Planned(call[d]) \cup call[d].locks : l \in Locks
  BY PlannedLocks DEF LockInv, TypeOK
<1>1. n \in Locks /\ Level[n.table] \in 3..9
  BY <1>0 DEF InOrder, Level
<1>2. c \in W
  <2>1. \A h \in call[c].locks : RowBefore(h, n)
    BY <1>0, NextRowLast
  <2>2. ASSUME call[c].kind = "issue", NEW h \in call[c].locks, h.table = "order" PROVE FALSE
    <3>1. n.table = "order"
      BY <1>0, <2>2 DEF Shaped, Fits, Has, InOrder, Board, Billing
    <3> QED
      BY <1>0, <2>2, <3>1 DEF Shaped, Covered, Has
  <2> QED
    BY <2>1, <2>2
<1>3. ASSUME NEW d \in Calls, NEW e \in W, Waits(d, e) PROVE d \in W
  <2>1. PICK k \in Planned(call[d]) : Holds(e, k) /\ Foremost(call[d], k) /\ d # e
    BY <1>3, WaitsForLock
  <2>2. PICK l \in call[e].locks : SameRow(k, l) /\ Conflict(k.mode, l.mode)
    BY <2>1 DEF Holds
  <2>3. RowBefore(l, n) /\ ~IssuesOrder(e) /\ k \in Locks /\ l \in Locks
    BY <1>0
  <2>4. Level[k.table] \in 1..9 /\ k.table \notin {"list", "task", "profile", "legal"}
    BY <1>1, <2>2, <2>3, Levels DEF RowBefore, SameRow, Locks, Level, Tables
  <2>5. CASE call[d].locks = {}
    BY <2>5
  <2>6. CASE call[d].kind = "save"
    BY <2>5, <2>6
  <2>7. ASSUME call[d].kind # "save", k.table \in {"action", "configuration"}, k.mode # "keyshare",
               call[d].locks # {}
        PROVE  d \in W
    <3>1. \A h \in call[d].locks : h.table \in {"action", "configuration"}
      <4> SUFFICES ASSUME NEW h \in call[d].locks PROVE h.table \in {"action", "configuration"}
        OBVIOUS
      <4>1. Turn(call[d].kind, k) \in 1..2
        BY <2>3, <2>7, Turns DEF Level
      <4>2. Turn(call[d].kind, h) <= 2
        BY <1>0, <2>4, <2>7, <4>1, HeldBefore, Turns
      <4> QED
        BY <1>0, <4>2, Turns DEF Locks, Level, Tables
    <3>2. \A h \in call[d].locks : RowBefore(h, n)
      BY <1>1, <3>1 DEF RowBefore, Level
    <3> QED
      BY <3>1, <3>2
  <2>8. ASSUME call[d].kind # "save", k.table = "action", k.mode = "keyshare" PROVE FALSE
    <3>1. l.mode = "update" /\ l.table = "action"
      BY <2>2, <2>3, <2>8 DEF Conflict, Strength, SameRow, Locks
    <3>2. call[e].kind = "save"
      BY <1>0, <3>1 DEF Shaped, Fits, Has, ActionMode
    <3> QED
      BY <3>2
  <2>9. ASSUME call[d].kind # "save", k.table = "order", k.mode = "keyshare" PROVE FALSE
    <3>1. call[d].kind \in Board \cup {"assign_driver"}
      BY <1>0, <2>9 DEF Shaped, Fits, Has
    <3>2. call[e].kind # "issue"
      BY <2>2, <2>3, <2>9 DEF SameRow
    <3> QED
      BY <2>1, <2>9, <3>1, <3>2, OwnOrder, BoardOrder
  <2>10. ASSUME call[d].kind # "save", k.table \in InOrder, k.mode # "keyshare" PROVE d \in W
    <3>1. ASSUME NEW h \in call[d].locks PROVE RowBefore(h, n)
      <4>1. Level[h.table] < Level[k.table] \/ (h.table = k.table /\ h.id <= k.id)
        BY <1>0, <2>10, RowsInTurn
      <4> QED
        BY <1>0, <1>1, <2>2, <2>3, <4>1, RowBeforeRow
    <3>2. ASSUME call[d].kind = "issue", NEW h \in call[d].locks, h.table = "order" PROVE FALSE
      <4>1. k.table = "order"
        BY <1>0, <2>10, <3>2 DEF Shaped, Fits, Has, InOrder, Board, Billing
      <4>2. h = k
        BY <1>0, <3>2, <4>1 DEF Shaped, Covered, Has
      <4> QED
        BY <2>1, <4>2, OwnLock
    <3> QED
      BY <3>1, <3>2
  <2>11. /\ k.table \in InOrder \cup {"action", "configuration"}
         /\ k.mode = "keyshare" => k.table \in {"order", "action"}
    <3>1. Fits(call[d].kind, k)
      BY <1>0 DEF Shaped, Has
    <3> QED
      BY <2>3, <2>4, <3>1 DEF Fits, InOrder, Locks, Level, Tables
  <2> QED
    BY <2>5, <2>6, <2>7, <2>8, <2>9, <2>10, <2>11
<1>4. ASSUME NEW e \in W PROVE ~Waits(c, e)
  <2> SUFFICES ASSUME NEW k \in Planned(call[c]), Foremost(call[c], k),
                      NEW l \in call[e].locks, SameRow(k, l)
               PROVE  FALSE
    BY WaitsForLock DEF Holds
  <2>1. SameRow(k, n)
    BY <1>0, UpcomingRow
  <2>2. RowBefore(l, n) /\ l.table = n.table /\ l.id = n.id
    BY <2>1 DEF SameRow
  <2>3. n.id \in Nat /\ Level[n.table] \in Nat
    BY <1>1 DEF Locks
  <2> QED
    BY <2>2, <2>3 DEF RowBefore
<1>5. W \in SUBSET Calls
  OBVIOUS
<1> HIDE DEF W
<1> QED
  BY <1>2, <1>3, <1>4, <1>5, OutOfReach

(* While the delivery planning is saved, the invoices' commands wait for    *)
(* the action or for each other, in order.                                  *)
LEMMA BillingWait ==
  ASSUME LockInv, NEW s \in Calls, call[s].kind = "save", call[s].locks # {},
         NEW c \in Calls, call[c].kind \in Billing, NEW n \in Planned(call[c]),
         Foremost(call[c], n), n \notin call[c].locks
  PROVE  NotInCycle(c)
<1> DEFINE Billed == {"payments", "cancellation", "mail", "invoice"}
           W == {d \in Calls : \A h \in call[d].locks :
                   h.table \in Billed /\ (n.table = "action" \/ RowBefore(h, n))}
<1>0. ASSUME NEW d \in Calls
      PROVE  /\ call[d] \in CallRows /\ Shaped(call[d])
             /\ \A l \in Planned(call[d]) \cup call[d].locks : l \in Locks
  BY PlannedLocks DEF LockInv, TypeOK
<1>1. ASSUME NEW d \in Calls, call[d].kind \in Billing
      PROVE  /\ \A l \in call[d].locks : l.table \in Billed
             /\ \A l \in Planned(call[d]) : l.table \in Billed \cup {"action"}
  <2>1. \A l \in Has(call[d]) : l.table \in Billed \cup {"action"}
    BY <1>0, <1>1 DEF Shaped, Fits, Has, Billing, Board, Locks, Level, Tables
  <2>2. d # s
    BY <1>1 DEF Billing
  <2> QED
    BY <2>1, <2>2, SaveAlone DEF Has
<1>2. c \in W
  <2>1. ASSUME NEW h \in call[c].locks, n.table # "action" PROVE RowBefore(h, n)
    <3>1. n.table \in InOrder /\ n.mode # "keyshare"
      BY <1>0, <1>1, <2>1 DEF Shaped, Fits, Has, InOrder
    <3> QED
      BY <1>0, <3>1, NextRowLast DEF Billing
  <2> QED
    BY <1>1, <2>1
<1>3. ASSUME NEW d \in Calls, NEW e \in W, Waits(d, e) PROVE d \in W
  <2>1. PICK k \in Planned(call[d]) : Holds(e, k) /\ Foremost(call[d], k)
    BY <1>3, WaitsForLock
  <2>2. PICK l \in call[e].locks : SameRow(k, l)
    BY <2>1 DEF Holds
  <2>3. k.table \in Billed
    BY <2>2 DEF SameRow
  <2>4. call[d].kind \in Billing \cup {"cancel"} /\ k.mode # "keyshare" /\ k.table \in InOrder
    BY <1>0, <2>3 DEF Shaped, Fits, Has, Billing, InOrder
  <2>5. CASE call[d].kind = "cancel"
    <3>1. call[d].locks = {}
      BY <2>5, SaveAlone DEF ByAction
    <3> QED
      BY <3>1
  <2>6. ASSUME call[d].kind \in Billing, NEW h \in call[d].locks, n.table # "action"
        PROVE  RowBefore(h, n)
    <3>1. Level[h.table] < Level[k.table] \/ (h.table = k.table /\ h.id <= k.id)
      BY <1>0, <2>4, <2>6, RowsInTurn DEF Billing
    <3> QED
      BY <1>0, <2>2, <2>6, <3>1, RowBeforeRow
  <2> QED
    BY <1>1, <2>4, <2>5, <2>6
<1>4. ASSUME NEW e \in W PROVE ~Waits(c, e)
  <2> SUFFICES ASSUME NEW k \in Planned(call[c]), Foremost(call[c], k),
                      NEW l \in call[e].locks, SameRow(k, l)
               PROVE  FALSE
    BY WaitsForLock DEF Holds
  <2>1. SameRow(k, n)
    BY <1>0, UpcomingRow DEF Billing
  <2>2. l.table \in Billed /\ RowBefore(l, n) /\ l.table = n.table /\ l.id = n.id
    BY <2>1 DEF SameRow
  <2>3. n.id \in Nat /\ Level[n.table] \in Nat
    BY <1>0, Levels DEF Locks
  <2> QED
    BY <2>2, <2>3 DEF RowBefore
<1>5. W \in SUBSET Calls
  OBVIOUS
<1> HIDE DEF W
<1> QED
  BY <1>2, <1>3, <1>4, <1>5, OutOfReach

-----------------------------------------------------------------------------
(* The cases: a task, a list, the profile; then the rows in order, with and *)
(* without a save of the delivery planning.                                *)
LEMMA LocksGoThrough == LockInv => OrderCommandsGoThrough
<1> SUFFICES ASSUME LockInv, NEW c \in Calls, call[c].kind \notin Unordered \cup {"none"},
                    \A d \in Calls : call[d].kind \notin OutOfOrderFor(call[c].kind)
             PROVE  NotInCycle(c)
  BY DEF OrderCommandsGoThrough
<1> DEFINE m == call[c]
<1>0. ASSUME NEW d \in Calls
      PROVE  /\ call[d] \in CallRows /\ Shaped(call[d]) /\ ListKnown(call[d], list)
             /\ \A l \in Planned(call[d]) \cup call[d].locks : l \in Locks
  BY PlannedLocks DEF LockInv, TypeOK
<1>1. m.kind \in ByAction \cup Billing \cup {"assign_driver", "update_task", "update_details"}
  BY <1>0 DEF CallRows, Kinds, Unordered, ByAction, Billing
<1>2. m.kind # "save"
  BY DEF Unordered
<1>3. CASE \A d \in Calls : ~Waits(c, d)
  BY <1>3, WaitsForNobody
<1>4. ASSUME NEW d \in Calls, Waits(c, d) PROVE NotInCycle(c)
  <2>1. PICK n \in Planned(m) : Holds(d, n) /\ Foremost(m, n) /\ c # d
    BY <1>4, WaitsForLock
  <2>2. n \notin m.locks
    BY <2>1, OwnLock
  <2>3. PICK l \in call[d].locks : SameRow(n, l) /\ Conflict(n.mode, l.mode)
    BY <2>1 DEF Holds
  <2>4. n \in Locks /\ l \in Locks /\ Fits(m.kind, n) /\ Fits(call[d].kind, l)
    BY <1>0 DEF Shaped, Has
  <2>5. CASE n.table = "task"
    <3>1. m.kind \in {"cancel", "update_task"}
      BY <1>1, <2>4, <2>5 DEF Fits, Unordered, Board
    <3>2. m.kind = "update_task" => \A e \in Calls : call[e].kind \notin Board
      BY DEF OutOfOrderFor, Board
    <3> QED
      BY <2>1, <2>5, <3>1, <3>2, TaskWait
  <2>6. CASE n.table = "list"
    <3>1. m.kind \in {"cancel", "update_task"} /\ n.mode = "update"
      BY <1>1, <2>4, <2>6 DEF Fits, Unordered, Board
    <3>2. ASSUME NEW h \in m.locks, h.table = "task" PROVE FALSE
      BY <1>4, <3>1, <3>2, TaskHolderWaits
    <3>3. ASSUME NEW h \in m.locks, h.table = "list", m.kind = "update_task" PROVE FALSE
      <4>1. h = n
        BY <1>0, <2>6, <3>3 DEF Shaped, Tasks, Has
      <4> QED
        BY <2>2, <4>1
    <3>4. ASSUME NEW h \in m.locks, h.table = "list", m.kind = "cancel" PROVE FALSE
      <4>1. m.at \in Worked(m)
        BY <1>0, <2>6 DEF Shaped, Tasks, Worked
      <4>2. h.id = list[m.at] /\ n.id = list[m.at]
        BY <1>0, <2>6, <3>4, <4>1 DEF ListKnown, Has
      <4>3. h.mode = "update" /\ h \in Locks
        BY <1>0, <3>4 DEF Shaped, Fits, Has
      <4>4. h = n
        BY <2>4, <2>6, <3>1, <3>4, <4>2, <4>3 DEF Locks
      <4> QED
        BY <2>2, <4>4
    <3> QED
      BY <1>2, <2>1, <2>6, <3>1, <3>2, <3>3, <3>4, ListWait
  <2>7. CASE n.table \in {"profile", "legal"}
    <3>1. m.kind = "issue"
      BY <2>4, <2>7 DEF Fits, Unordered
    <3>2. \A e \in Calls : call[e].kind # "activate"
      BY <3>1 DEF OutOfOrderFor
    <3> QED
      BY <2>1, <2>2, <2>7, <3>1, <3>2, IssueWait
  <2>8. ASSUME NEW s \in Calls, call[s].kind = "save", call[s].locks # {},
               n.table \notin {"list", "task", "profile", "legal"}
        PROVE  NotInCycle(c)
    <3>1. CASE m.kind \in ByAction \cup {"update_details"}
      <4>1. m.locks = {}
        BY <1>2, <2>8, <3>1, SaveAlone
      <4> QED
        BY <4>1, HoldsNothing
    <3>2. CASE m.kind \in Billing
      BY <2>1, <2>2, <2>8, <3>2, BillingWait
    <3>3. m.kind # "assign_driver"
      BY <2>8 DEF OutOfOrderFor
    <3>4. m.kind # "update_task"
      BY <2>4, <2>8 DEF Fits, ByAction, Billing, Board, Locks, Level, Tables
    <3> QED
      BY <1>1, <3>1, <3>2, <3>3, <3>4
  <2>9. ASSUME \A s \in Calls : call[s].kind = "save" => call[s].locks = {},
               n.table \notin {"list", "task", "profile", "legal"}
        PROVE  NotInCycle(c)
    <3>1. call[d].kind # "save"
      BY <2>3, <2>9
    <3>2. CASE n.table = "action"
      <4>1. CASE m.kind \in ByAction \cup {"update_details"}
        <5>1. n = Lock("action", 0, ActionMode(m.kind))
          BY <2>4, <3>2 DEF Fits, Lock, Locks
        <5>2. m.locks = {}
          BY <2>2, <4>1, <5>1, ActionHeld
        <5> QED
          BY <5>2, HoldsNothing
      <4>2. CASE m.kind \notin ByAction \cup {"update_details"}
        <5>1. n.mode = "keyshare" /\ l.table = "action"
          BY <1>2, <2>3, <2>4, <3>2, <4>2 DEF Fits, ActionMode, SameRow
        <5>2. l.mode = "update"
          BY <2>3, <2>4, <5>1 DEF Conflict, Strength, Locks
        <5> QED
          BY <2>4, <3>1, <5>1, <5>2 DEF Fits, ActionMode
      <4> QED
        BY <4>1, <4>2
    <3>3. CASE n.table = "configuration"
      <4>1. n.mode = "share" /\ l.table = "configuration"
        BY <1>2, <2>3, <2>4, <3>3 DEF Fits, SameRow
      <4>2. l.mode = "share"
        BY <2>4, <3>1, <4>1 DEF Fits
      <4> QED
        BY <2>3, <4>1, <4>2 DEF Conflict, Strength
    <3>4. CASE n.table \in InOrder /\ n.mode = "keyshare"
      <4>1. n.table = "order" /\ m.kind \in Board \cup {"assign_driver"}
        BY <2>4, <3>4 DEF Fits, InOrder
      <4>2. m.kind = "assign_driver"
        BY <4>1 DEF Unordered, Board
      <4> QED
        BY <2>1, <3>4, <4>1, <4>2, OwnOrder
    <3>5. CASE n.table \in InOrder /\ n.mode # "keyshare"
      BY <1>2, <2>1, <2>2, <2>9, <3>5, RowWait
    <3>6. n.table \in InOrder \cup {"action", "configuration"}
      BY <2>4, <2>9 DEF InOrder, Locks, Tables
    <3> QED
      BY <3>2, <3>3, <3>4, <3>5, <3>6
  <2> QED
    BY <2>5, <2>6, <2>7, <2>8, <2>9
<1> QED
  BY <1>3, <1>4

(* The commands that keep the order of retry.py, and those whose rows the   *)
(* others do not lock in another order, never wait in a cycle: Postgres has *)
(* no reason to abort one of them as a deadlock's victim.                  *)
THEOREM NoCommandIsCaught == Spec => []OrderCommandsGoThrough
  BY AlwaysLock, LocksGoThrough, PTL
=============================================================================
