--------------------------- MODULE IdentityProofs ---------------------------
(***************************************************************************)
(* Proofs about Identity. The inductive invariant says that at most one    *)
(* command holds the lock and that what it checked is still true: steps    *)
(* outside the lock only add accounts and leads or close actions, and the  *)
(* rows a command decided by are locked against them.                      *)
(***************************************************************************)
EXTENDS Identity, TLAPS

InFlight(c) == call[c].step \in {"sent", "checked", "applied"}

KnownCommands == \A c \in Calls : InFlight(c) => call[c].cmd \in Commands

LockExclusive ==
  \A c, d \in Calls : call[c].step = "checked" /\ call[d].step = "checked" => c = d

CheckedStillOk ==
  \A c \in Calls : call[c].step = "checked" => CommandOk(call[c].cmd, call[c].rev)

LeadsChosen ==
  \A c \in Calls : InFlight(c) /\ call[c].cmd.kind = "leads" => call[c].cmd.chosen # {}

IInv == /\ TypeOK /\ KnownCommands /\ LockExclusive /\ CheckedStillOk /\ LeadsChosen
        /\ SystemAdminRemains /\ OpenActionKeepsLead

-----------------------------------------------------------------------------
LEMMA InitInv == Init => IInv
BY IdentityAssumption DEF Init, IInv, TypeOK, KnownCommands, LockExclusive, CheckedStillOk,
   LeadsChosen, InFlight, SystemAdminRemains, OpenActionKeepsLead, ActiveAdmins, ActiveLeads,
   NoCall, CallRows, InviteRows, Invitation, Statuses, Phases

\* Types, step by step.
LEMMA TypeStep == IInv /\ [Next]_vars => TypeOK'
<1> SUFFICES ASSUME IInv, [Next]_vars PROVE TypeOK'
    OBVIOUS
<1> USE DEF IInv, TypeOK, accounts, leadership
<1>1. CASE UNCHANGED vars
  BY <1>1 DEF vars
<1>2. ASSUME NEW c \in Calls, CallNext(c) PROVE TypeOK'
  <2>0. /\ call[c] \in CallRows
        /\ \A s \in {"idle", "ok", "refused"} : Ended(c, s) \in CallRows
        /\ \A s \in {"sent", "checked", "applied"} : [call[c] EXCEPT !.step = s] \in CallRows
    BY DEF Ended, NoCall, CallRows, Statuses
  <2>1. CASE Send(c)
    BY <2>1 DEF Send, CallRows, Commands, RevisionOf, Statuses
  <2>2. CASE Check(c)
    <3>1. call' \in [Calls -> CallRows]
      BY <2>0, <2>2 DEF Check
    <3> QED
      BY <2>2, <3>1 DEF Check
  <2>3. CASE RollBack(c)
    BY <2>3 DEF RollBack, CallRows
  <2>4. CASE Answer(c)
    BY <2>4 DEF Answer, Ended, NoCall, CallRows, Statuses
  <2>5. CASE AnswerLost(c)
    <3>1. call' \in [Calls -> CallRows]
      BY <2>0, <2>5 DEF AnswerLost
    <3> QED
      BY <2>5, <3>1 DEF AnswerLost
  <2> DEFINE m == call[c].cmd
  <2>6. ASSUME call[c].step = "checked" PROVE m \in Commands
    BY <2>6 DEF KnownCommands, InFlight
  <2>61. ASSUME NEW kind, Commit(c, kind)
         PROVE call' \in [Calls -> CallRows] /\ receipts' \in SUBSET Calls
    BY <2>61 DEF Commit, CallRows
  <2>7. CASE transition_account_status(c)
    <3>1. m \in Commands /\ m.to \in Statuses
      BY <2>6, <2>7 DEF transition_account_status, Commit, Commands, CommandOk, StatusOk,
         CheckedStillOk, StatusTransitions, Statuses
    <3>2. call' \in [Calls -> CallRows] /\ receipts' \in SUBSET Calls
      BY <2>7, <2>61 DEF transition_account_status
    <3>3. account' \in [Users -> Statuses] /\ revision' \in [Users -> Nat]
      BY <2>7, <3>1 DEF transition_account_status, Commands
    <3> QED
      BY <2>7, <3>2, <3>3 DEF transition_account_status, Commit
  <2>8. CASE grant_global_role(c)
    BY <2>6, <2>8 DEF grant_global_role, Commit, CallRows, Commands
  <2>9. CASE grant_action_membership(c)
    BY <2>6, <2>9 DEF grant_action_membership, Commit, CallRows, Commands
  <2>10. CASE replace_responsible_administrators(c)
    <3>1. call' \in [Calls -> CallRows] /\ receipts' \in SUBSET Calls
      BY <2>10, <2>61 DEF replace_responsible_administrators
    <3>2. lead' \in [Actions -> [Users -> {"none", "running", "ended"}]]
      BY <2>6, <2>10 DEF replace_responsible_administrators, Commit, Commands
    <3>3. edition' \in [Actions -> Nat]
      BY <2>6, <2>10 DEF replace_responsible_administrators, Commit, Commands
    <3> QED
      BY <2>10, <3>1, <3>2, <3>3 DEF replace_responsible_administrators, Commit
  <2>11. CASE create(c)
    BY <2>6, <2>11 DEF create, Commit, CallRows, Commands, Phases
  <2> QED
    BY <1>2, <2>1, <2>2, <2>3, <2>4, <2>5, <2>7, <2>8, <2>9, <2>10, <2>11 DEF CallNext
<1>3. ASSUME NEW a \in Actions, transition(a) PROVE TypeOK'
  BY <1>3 DEF transition, Phases
<1>4. \A s \in {"none", "pending", "accepted", "expired", "revoked"} :
        Invitation(s) \in InviteRows
  BY IdentityAssumption DEF Invitation, InviteRows
<1>5. ASSUME NEW a \in Actions, NEW u \in Users, InviteNext(a, u) PROVE TypeOK'
  <2>1. CASE accept(a, u)
    BY <1>4, <2>1 DEF accept, Statuses
  <2>2. CASE Elapse(a, u)
    <3>0. ASSUME NEW r \in InviteRows PROVE [r EXCEPT !.overdue = TRUE] \in InviteRows
      BY DEF InviteRows
    <3>1. invite' \in [Actions -> [Users -> InviteRows]]
      BY <2>2, <3>0 DEF Elapse
    <3> QED
      BY <2>2, <3>1 DEF Elapse
  <2>3. CASE InviteExpire(a, u)
    BY <1>4, <2>3 DEF InviteExpire
  <2>4. ASSUME NEW v \in Users, InviteCreate(v, a, u) PROVE TypeOK'
    BY <1>4, <2>4 DEF InviteCreate
  <2>5. ASSUME NEW v \in Users, InviteRevoke(v, a, u) PROVE TypeOK'
    BY <1>4, <2>5 DEF InviteRevoke
  <2>6. ASSUME NEW v \in Users, NEW w \in Users, InviteReplace(v, a, u, w) PROVE TypeOK'
    <3>1. invite' \in [Actions -> [Users -> InviteRows]]
      BY <1>4, <2>6 DEF InviteReplace
    <3> QED
      BY <2>6, <3>1 DEF InviteReplace
  <2> QED
    BY <1>5, <2>1, <2>2, <2>3, <2>4, <2>5, <2>6 DEF InviteNext
<1>6. ASSUME NEW u \in Users, WrongCode(u) PROVE TypeOK'
  <2>1. ASSUME NEW r \in InviteRows PROVE AfterWrongCode(r) \in InviteRows
    <3>1. r.attempts \in 0..(MaxAttempts - 1)
      BY DEF InviteRows
    <3>2. CASE r.attempts + 1 >= MaxAttempts
      BY <1>4, <3>2 DEF AfterWrongCode
    <3>3. CASE ~(r.attempts + 1 >= MaxAttempts)
      <4>1. r.attempts + 1 \in 0..(MaxAttempts - 1)
        BY <3>1, <3>3, IdentityAssumption
      <4>2. [r EXCEPT !.attempts = r.attempts + 1] \in InviteRows
        BY <4>1 DEF InviteRows
      <4> QED
        BY <1>4, <3>3, <4>2 DEF AfterWrongCode
    <3> QED
      BY <3>2, <3>3
  <2>2. invite' \in [Actions -> [Users -> InviteRows]]
    BY <1>6, <2>1 DEF WrongCode
  <2> QED
    BY <1>6, <2>2 DEF WrongCode
<1> QED
  BY <1>1, <1>2, <1>3, <1>5, <1>6 DEF Next

-----------------------------------------------------------------------------
\* Steps that leave accounts and leadership alone.
LEMMA RequestStep ==
  ASSUME IInv, NEW c \in Calls, Send(c) \/ Check(c) \/ RollBack(c) \/ Answer(c) \/ AnswerLost(c)
  PROVE KnownCommands' /\ LockExclusive' /\ CheckedStillOk' /\ LeadsChosen'
<1> USE DEF IInv, TypeOK, accounts, leadership
<1> DEFINE Same == UNCHANGED <<account, revision, admins, phase, edition, lead>>
<1>1. Same /\ \A d \in Calls \ {c} : call'[d] = call[d]
  BY DEF Send, Check, RollBack, Answer, AnswerLost
<1>2. KnownCommands' /\ LeadsChosen'
  <2>1. CASE Send(c)
    BY <2>1 DEF Send, Offered, KnownCommands, LeadsChosen, InFlight
  <2>2. CASE Check(c)
    BY <2>2 DEF Check, Ended, NoCall, KnownCommands, LeadsChosen, InFlight
  <2>3. CASE RollBack(c)
    BY <2>3 DEF RollBack, KnownCommands, LeadsChosen, InFlight
  <2>4. CASE Answer(c)
    BY <2>4 DEF Answer, Ended, NoCall, KnownCommands, LeadsChosen, InFlight
  <2>5. CASE AnswerLost(c)
    BY <2>5 DEF AnswerLost, Ended, NoCall, KnownCommands, LeadsChosen, InFlight, CallRows
  <2> QED
    BY <2>1, <2>2, <2>3, <2>4, <2>5
<1>3. \/ call'[c].step # "checked"
      \/ /\ AdminLockFree
         /\ call'[c].cmd = call[c].cmd /\ call'[c].rev = call[c].rev
         /\ CommandOk(call[c].cmd, call[c].rev)
  <2>1. CASE Check(c)
    BY <2>1 DEF Check, Ended, NoCall, CallRows
  <2>2. CASE Send(c)
    BY <2>2 DEF Send
  <2>3. CASE RollBack(c) \/ Answer(c)
    BY <2>3 DEF RollBack, Answer, Ended, NoCall, CallRows
  <2>4. CASE AnswerLost(c)
    BY <2>4 DEF AnswerLost, Ended, NoCall, CallRows
  <2> QED
    BY <2>1, <2>2, <2>3, <2>4
<1>4. LockExclusive'
  BY <1>1, <1>3 DEF LockExclusive, AdminLockFree
<1>5. CheckedStillOk'
  <2>1. SUFFICES ASSUME NEW d \in Calls, call'[d].step = "checked"
                 PROVE CommandOk(call[d].cmd, call[d].rev)'
    BY DEF CheckedStillOk
  <2>2. /\ call'[d].cmd = call[d].cmd /\ call'[d].rev = call[d].rev
        /\ CommandOk(call[d].cmd, call[d].rev)
    BY <1>1, <1>3, <2>1 DEF CheckedStillOk
  <2>3. ActiveAdmins' = ActiveAdmins /\ \A a \in Actions : ActiveLeads(a)' = ActiveLeads(a)
    BY <1>1 DEF ActiveAdmins, ActiveLeads
  <2>4. call[d].cmd \in Commands
    BY <1>2, <2>1, <2>2 DEF KnownCommands, InFlight
  <2> QED
    BY <1>1, <2>2, <2>3, <2>4 DEF CommandOk, StatusOk, RoleOk, LeadOk, LeadsOk, CreateOk,
       LeavesGap, IsAdmin, Manages, Commands
<1> QED
  BY <1>2, <1>4, <1>5

\* After a commit nobody holds the lock.
LEMMA CommitStep ==
  ASSUME IInv, NEW c \in Calls, NEW kind, Commit(c, kind)
  PROVE /\ KnownCommands' /\ LockExclusive' /\ CheckedStillOk' /\ LeadsChosen'
        /\ call[c].cmd \in Commands /\ call[c].cmd.kind = kind
        /\ CommandOk(call[c].cmd, call[c].rev)
<1> USE DEF IInv, TypeOK
<1>1. \A d \in Calls : call'[d].step # "checked"
  BY DEF Commit, LockExclusive, CallRows
<1>2. \A d \in Calls : InFlight(d)' => InFlight(d) /\ call'[d].cmd = call[d].cmd
  BY DEF Commit, InFlight, CallRows
<1> QED
  BY <1>1, <1>2 DEF Commit, KnownCommands, LockExclusive, CheckedStillOk, LeadsChosen, InFlight

LEMMA Another ==
  ASSUME NEW S, NEW x, S # {}, S # {x}
  PROVE \E y \in S : y # x
OBVIOUS

\* What each commit leaves behind.
LEMMA CoverageStep ==
  ASSUME IInv, NEW c \in Calls,
         \/ transition_account_status(c) \/ grant_global_role(c) \/ grant_action_membership(c)
         \/ replace_responsible_administrators(c) \/ create(c)
  PROVE SystemAdminRemains' /\ OpenActionKeepsLead'
<1> DEFINE m == call[c].cmd
<1> USE DEF IInv, TypeOK, accounts, leadership
<1>0. ASSUME NEW x \in Users, ActiveAdmins # {x} PROVE \E v \in ActiveAdmins : v # x
  BY <1>0, Another DEF SystemAdminRemains
<1>00. ASSUME NEW x \in Users, NEW a \in Actions, phase[a] = "open", ActiveLeads(a) # {x}
       PROVE \E v \in ActiveLeads(a) : v # x
  BY <1>00, Another DEF OpenActionKeepsLead
<1>1. CASE transition_account_status(c)
  <2>1. m \in Commands /\ StatusOk(m, call[c].rev)
    BY <1>1, CommitStep DEF transition_account_status, CommandOk
  <2>2. /\ \E v \in ActiveAdmins : v # m.user
        /\ \A a \in Actions : phase[a] = "open" => \E v \in ActiveLeads(a) : v # m.user
    <3>1. CASE account[m.user] = "active"
      <4>1. m.user \in Users /\ ~LeavesGap(m.user, TRUE, Actions)
        BY <2>1, <3>1 DEF StatusOk, Commands
      <4>2. \E v \in ActiveAdmins : v # m.user
        BY <1>0, <4>1 DEF LeavesGap
      <4>3. ASSUME NEW a \in Actions, phase[a] = "open" PROVE \E v \in ActiveLeads(a) : v # m.user
        BY <1>00, <4>1, <4>3 DEF LeavesGap
      <4> QED
        BY <4>2, <4>3
    <3>2. CASE account[m.user] # "active"
      BY <3>2 DEF SystemAdminRemains, OpenActionKeepsLead, ActiveAdmins, ActiveLeads
    <3> QED
      BY <3>1, <3>2
  <2>3. /\ \A v \in Users \ {m.user} : account'[v] = account[v]
        /\ admins' = admins /\ lead' = lead /\ phase' = phase
    BY <1>1 DEF transition_account_status
  <2>4. SystemAdminRemains'
    BY <2>2, <2>3 DEF SystemAdminRemains, ActiveAdmins
  <2>5. ASSUME NEW a \in Actions, phase'[a] = "open" PROVE ActiveLeads(a)' # {}
    <3>1. PICK v \in ActiveLeads(a) : v # m.user
      BY <2>2, <2>3, <2>5
    <3>2. v \in ActiveLeads(a)'
      BY <2>3, <3>1 DEF ActiveLeads
    <3> QED
      BY <3>2
  <2> QED
    BY <2>4, <2>5 DEF OpenActionKeepsLead
<1>2. CASE grant_global_role(c)
  <2>1. m \in Commands /\ RoleOk(m, call[c].rev)
    BY <1>2, CommitStep DEF grant_global_role, CommandOk
  <2>2. m.to = "on" \/ \E v \in ActiveAdmins : v # m.user
    BY <1>0, <2>1 DEF RoleOk, LeavesGap, Commands
  <2> QED
    BY <1>2, <2>1, <2>2 DEF grant_global_role, Commands, SystemAdminRemains,
       OpenActionKeepsLead, ActiveAdmins, ActiveLeads
<1>3. CASE grant_action_membership(c)
  <2>1. m \in Commands /\ LeadOk(m, call[c].rev)
    BY <1>3, CommitStep DEF grant_action_membership, CommandOk
  <2>2. phase[m.action] = "open" /\ m.to # "on" =>
          \E w \in ActiveLeads(m.action) : w # m.user
    BY <1>00, <2>1 DEF LeadOk, LeavesGap, Commands
  <2>3. /\ accounts' = <<account, revision', admins>> /\ phase' = phase
        /\ \A a \in Actions, v \in Users : <<a, v>> # <<m.action, m.user>> => lead'[a][v] = lead[a][v]
        /\ m.to = "on" => \A a \in Actions, v \in Users :
                              lead[a][v] = "running" => lead'[a][v] = "running"
    BY <1>3, <2>1 DEF grant_action_membership, Commands
  <2>4. SystemAdminRemains'
    BY <2>3 DEF SystemAdminRemains, ActiveAdmins
  <2>5. ASSUME NEW a \in Actions, phase'[a] = "open" PROVE ActiveLeads(a)' # {}
    <3>1. PICK w \in ActiveLeads(a) : m.to # "on" /\ a = m.action => w # m.user
      BY <2>2, <2>3, <2>5 DEF OpenActionKeepsLead
    <3>2. w \in ActiveLeads(a)'
      BY <2>3, <3>1 DEF ActiveLeads
    <3> QED
      BY <3>2
  <2> QED
    BY <2>4, <2>5 DEF OpenActionKeepsLead
<1>4. CASE replace_responsible_administrators(c)
  <2>1. m \in Commands /\ LeadsOk(m, call[c].rev) /\ m.chosen # {} /\ m.chosen \subseteq Users
    BY <1>4, CommitStep DEF replace_responsible_administrators, CommandOk, Commit, LeadsChosen,
       InFlight, Commands
  <2>2. \A u \in m.chosen : lead'[m.action][u] = "running"
    BY <1>4, <2>1 DEF replace_responsible_administrators, Commands
  <2>3. \A a \in Actions \ {m.action} : lead'[a] = lead[a]
    BY <1>4 DEF replace_responsible_administrators
  <2> QED
    BY <1>4, <2>1, <2>2, <2>3 DEF replace_responsible_administrators, LeadsOk,
       SystemAdminRemains, OpenActionKeepsLead, ActiveAdmins, ActiveLeads
<1>5. CASE create(c)
  <2>1. m \in Commands /\ CreateOk(m)
    BY <1>5, CommitStep DEF create, CommandOk
  <2> QED
    BY <1>5, <2>1 DEF create, CreateOk, Commands,
       SystemAdminRemains, OpenActionKeepsLead, ActiveAdmins, ActiveLeads
<1> QED
  BY <1>1, <1>2, <1>3, <1>4, <1>5

\* Outside the lock: an acceptance only adds, a closed action asks for less.
LEMMA OutsideStep ==
  ASSUME IInv, NEW a \in Actions, NEW u \in Users, accept(a, u) \/ transition(a)
  PROVE CheckedStillOk' /\ SystemAdminRemains' /\ OpenActionKeepsLead'
<1> USE DEF IInv, TypeOK, accounts, leadership
<1>1. call' = call /\ admins' = admins /\ revision' = revision
  BY DEF accept, transition
<1>2. \A v \in Users : account[v] = "active" => account'[v] = "active"
  BY DEF accept, transition
<1>3. \A b \in Actions, v \in Users : lead[b][v] = "running" => lead'[b][v] = "running"
  BY DEF accept, transition
<1>4. \A b \in Actions : /\ phase'[b] = "open" => phase[b] = "open"
                         /\ phase[b] = "none" => phase'[b] = "none"
  BY DEF accept, transition
<1>5. ActiveAdmins \subseteq ActiveAdmins' /\ \A b \in Actions : ActiveLeads(b) \subseteq ActiveLeads(b)'
  BY <1>1, <1>2, <1>3 DEF ActiveAdmins, ActiveLeads
<1>6. SystemAdminRemains' /\ OpenActionKeepsLead'
  BY <1>4, <1>5 DEF SystemAdminRemains, OpenActionKeepsLead
<1>7. CheckedStillOk'
  <2> SUFFICES ASSUME NEW c \in Calls, call[c].step = "checked"
               PROVE CommandOk(call[c].cmd, call[c].rev)'
    BY <1>1 DEF CheckedStillOk
  <2> DEFINE m == call[c].cmd
  <2>1. m \in Commands /\ CommandOk(m, call[c].rev)
    BY DEF KnownCommands, InFlight, CheckedStillOk
  <2>2. m.kind \in {"status", "role", "lead"} =>
          account'[m.user] = account[m.user] /\ \A b \in Actions : lead'[b][m.user] = lead[b][m.user]
    BY <2>1 DEF accept, transition, RowLocked, Commands
  <2>3. m.kind \in {"lead", "leads"} => edition'[m.action] = edition[m.action]
    BY <2>1 DEF accept, transition, ActionLocked, Commands
  <2>4. IsAdmin(m.actor) => IsAdmin(m.actor)'
    BY <1>1, <1>5 DEF IsAdmin
  <2>5. Manages(m.actor, m.action) => Manages(m.actor, m.action)'
    BY <1>1, <1>5, <2>1, <2>4 DEF Manages, Commands
  <2>6. ActiveAdmins # {m.user} => ActiveAdmins' # {m.user}
    BY <1>5 DEF SystemAdminRemains
  <2>7. ASSUME NEW b \in Actions, ~(phase[b] = "open" /\ ActiveLeads(b) = {m.user})
        PROVE ~(phase'[b] = "open" /\ ActiveLeads(b)' = {m.user})
    BY <1>4, <1>5, <2>7 DEF OpenActionKeepsLead
  <2>8. CASE m.kind = "status"
    BY <1>1, <2>1, <2>2, <2>4, <2>6, <2>7, <2>8 DEF CommandOk, StatusOk, LeavesGap
  <2>9. CASE m.kind = "role"
    BY <1>1, <2>1, <2>2, <2>4, <2>6, <2>9 DEF CommandOk, RoleOk, LeavesGap
  <2>10. CASE m.kind = "lead"
    BY <1>1, <2>1, <2>2, <2>5, <2>7, <2>10 DEF CommandOk, LeadOk, LeavesGap, Commands
  <2>11. CASE m.kind = "leads"
    BY <1>1, <1>2, <2>1, <2>3, <2>5, <2>11 DEF CommandOk, LeadsOk, Commands
  <2>12. CASE m.kind = "create"
    BY <1>1, <1>2, <1>4, <2>1, <2>12 DEF CommandOk, CreateOk, Commands
  <2> QED
    BY <2>1, <2>8, <2>9, <2>10, <2>11, <2>12 DEF Commands
<1> QED
  BY <1>6, <1>7

\* A step of the invitations other than an acceptance.
InviteOnly == UNCHANGED <<accounts, leadership, call, receipts, requests>>

LEMMA NextKinds ==
  ASSUME Next
  PROVE \/ \E c \in Calls : Send(c) \/ Check(c) \/ RollBack(c) \/ Answer(c) \/ AnswerLost(c)
        \/ \E c \in Calls :
             \/ transition_account_status(c) \/ grant_global_role(c) \/ grant_action_membership(c)
             \/ replace_responsible_administrators(c) \/ create(c)
        \/ \E a \in Actions, u \in Users : accept(a, u)
        \/ \E a \in Actions : transition(a)
        \/ InviteOnly
<1>1. CASE \E c \in Calls : CallNext(c)
  BY <1>1 DEF CallNext
<1>2. CASE \E a \in Actions, u \in Users : InviteNext(a, u)
  BY <1>2 DEF InviteNext, Elapse, InviteExpire, InviteCreate, InviteRevoke, InviteReplace, InviteOnly
<1>3. CASE \E u \in Users : WrongCode(u)
  BY <1>3 DEF WrongCode, InviteOnly
<1> QED
  BY <1>1, <1>2, <1>3 DEF Next

\* Nothing the invariant speaks of changes, types aside.
LEMMA Untouched ==
  ASSUME IInv, UNCHANGED <<accounts, leadership, call>>
  PROVE /\ KnownCommands' /\ LockExclusive' /\ CheckedStillOk' /\ LeadsChosen'
        /\ SystemAdminRemains' /\ OpenActionKeepsLead'
<1> USE DEF IInv, accounts, leadership
<1>1. KnownCommands' /\ LockExclusive' /\ LeadsChosen'
  BY DEF KnownCommands, LockExclusive, LeadsChosen, InFlight
<1>2. SystemAdminRemains' /\ OpenActionKeepsLead'
  BY DEF SystemAdminRemains, OpenActionKeepsLead, ActiveAdmins, ActiveLeads
<1>3. CheckedStillOk'
  BY DEF CheckedStillOk, CommandOk, StatusOk, RoleOk, LeadOk, LeadsOk, CreateOk,
     LeavesGap, IsAdmin, Manages, ActiveAdmins, ActiveLeads
<1> QED
  BY <1>1, <1>2, <1>3

LEMMA NextInv == IInv /\ [Next]_vars => IInv'
<1> SUFFICES ASSUME IInv, [Next]_vars PROVE IInv'
    OBVIOUS
<1>0. TypeOK'
  BY TypeStep
<1>1. CASE UNCHANGED vars
  BY <1>0, <1>1, Untouched DEF vars, IInv, accounts, leadership
<1>2. ASSUME NEW c \in Calls, Send(c) \/ Check(c) \/ RollBack(c) \/ Answer(c) \/ AnswerLost(c)
      PROVE IInv'
  <2>1. UNCHANGED <<accounts, leadership>>
    BY <1>2 DEF Send, Check, RollBack, Answer, AnswerLost
  <2>2. SystemAdminRemains' /\ OpenActionKeepsLead'
    BY <2>1 DEF accounts, leadership, IInv, SystemAdminRemains, OpenActionKeepsLead,
       ActiveAdmins, ActiveLeads
  <2> QED
    BY <1>0, <1>2, <2>2, RequestStep DEF IInv
<1>3. ASSUME NEW c \in Calls,
             \/ transition_account_status(c) \/ grant_global_role(c) \/ grant_action_membership(c)
             \/ replace_responsible_administrators(c) \/ create(c)
      PROVE IInv'
  <2>1. \E kind \in {"status", "role", "lead", "leads", "create"} : Commit(c, kind)
    BY <1>3 DEF transition_account_status, grant_global_role, grant_action_membership,
       replace_responsible_administrators, create
  <2>2. KnownCommands' /\ LockExclusive' /\ CheckedStillOk' /\ LeadsChosen'
    BY <2>1, CommitStep
  <2> QED
    BY <1>0, <1>3, <2>2, CoverageStep DEF IInv
<1>4. ASSUME NEW a \in Actions, NEW u \in Users, accept(a, u) PROVE IInv'
  <2>1. KnownCommands' /\ LockExclusive' /\ LeadsChosen'
    BY <1>4 DEF accept, IInv, KnownCommands, LockExclusive, LeadsChosen, InFlight
  <2> QED
    BY <1>0, <1>4, <2>1, OutsideStep DEF IInv
<1>5. ASSUME NEW a \in Actions, transition(a) PROVE IInv'
  <2>1. KnownCommands' /\ LockExclusive' /\ LeadsChosen'
    BY <1>5 DEF transition, IInv, KnownCommands, LockExclusive, LeadsChosen, InFlight
  <2>2. PICK u \in Users : TRUE
    BY DEF IInv, SystemAdminRemains, ActiveAdmins, TypeOK
  <2> QED
    BY <1>0, <1>5, <2>1, <2>2, OutsideStep DEF IInv
<1>6. CASE InviteOnly
  BY <1>0, <1>6, Untouched DEF InviteOnly, IInv
<1> QED
  BY <1>1, <1>2, <1>3, <1>4, <1>5, <1>6, NextKinds

\* The inductive invariant holds in every reachable state.
THEOREM Invariance == Spec => []IInv
BY InitInv, NextInv, PTL DEF Spec

\* user_account, user_global_role, action_membership, action_invitation and
\* the requests keep their types; no pending invitation has used up its codes.
THEOREM TypeCorrect == Spec => []TypeOK
<1>1. IInv => TypeOK
  BY DEF IInv
<1> QED
  BY <1>1, Invariance, PTL

\* However administrators' commands interleave, an active system admin is left.
THEOREM AdminCoverage == Spec => []SystemAdminRemains
<1>1. IInv => SystemAdminRemains
  BY DEF IInv
<1> QED
  BY <1>1, Invariance, PTL

\* ... and every open action keeps an active lead.
THEOREM LeadCoverage == Spec => []OpenActionKeepsLead
<1>1. IInv => OpenActionKeepsLead
  BY DEF IInv
<1> QED
  BY <1>1, Invariance, PTL

-----------------------------------------------------------------------------
(***************************************************************************)
(* Requests that are repeated.                                             *)
(***************************************************************************)
WritesKnown ==
  \A c \in Calls :
    /\ call[c].writes <= 1
    /\ call[c].step \in {"checked", "refused"} => call[c].writes = 0
    /\ call[c].step = "sent" /\ call[c].writes > 0 => c \in receipts

LEMMA WritesStep == IInv /\ WritesKnown /\ [Next]_vars => WritesKnown'
<1> SUFFICES ASSUME IInv, WritesKnown, [Next]_vars PROVE WritesKnown'
    OBVIOUS
<1> USE DEF IInv, TypeOK
<1>0. call \in [Calls -> CallRows] /\ \A c \in Calls : call[c].writes \in Nat
  BY DEF CallRows
<1>1. CASE UNCHANGED vars
  BY <1>1 DEF vars, WritesKnown
<1>2. ASSUME NEW c \in Calls, Send(c) \/ Check(c) \/ RollBack(c) \/ Answer(c) \/ AnswerLost(c)
      PROVE WritesKnown'
  <2>1. CASE Send(c)
    BY <1>0, <2>1 DEF Send, WritesKnown
  <2>2. CASE Check(c)
    <3>1. call[c].step = "sent" /\ (c \notin receipts => call[c].writes = 0)
      BY <1>0, <2>2 DEF Check, WritesKnown
    <3>2. /\ call'[c].writes = call[c].writes
          /\ call'[c].step \in {"ok", "checked", "refused"}
          /\ call'[c].step # "ok" => c \notin receipts
      BY <1>0, <2>2 DEF Check, Ended, NoCall, CallRows
    <3>3. receipts' = receipts /\ \A d \in Calls \ {c} : call'[d] = call[d]
      BY <2>2 DEF Check
    <3> QED
      BY <1>0, <3>1, <3>2, <3>3 DEF WritesKnown
  <2>3. CASE RollBack(c)
    BY <1>0, <2>3 DEF RollBack, WritesKnown, CallRows
  <2>4. CASE Answer(c)
    BY <1>0, <2>4 DEF Answer, Ended, NoCall, WritesKnown
  <2>5. CASE AnswerLost(c)
    <3>1. /\ call'[c].writes = call[c].writes
          /\ call'[c].step \in {"sent", "idle"}
      BY <1>0, <2>5 DEF AnswerLost, Ended, NoCall, CallRows
    <3>2. receipts' = receipts /\ c \in receipts /\ \A d \in Calls \ {c} : call'[d] = call[d]
      BY <2>5 DEF AnswerLost
    <3> QED
      BY <1>0, <3>1, <3>2 DEF WritesKnown
  <2> QED
    BY <1>2, <2>1, <2>2, <2>3, <2>4, <2>5
<1>3. ASSUME NEW c \in Calls, NEW kind, Commit(c, kind) PROVE WritesKnown'
  <2>1. /\ call'[c].writes = call[c].writes + 1 /\ call'[c].step = "applied"
        /\ call[c].writes = 0
        /\ \A d \in Calls \ {c} : call'[d] = call[d]
    BY <1>0, <1>3 DEF Commit, CallRows, WritesKnown
  <2>2. receipts \subseteq receipts'
    BY <1>3 DEF Commit
  <2> QED
    BY <1>0, <2>1, <2>2 DEF WritesKnown
<1>4. CASE UNCHANGED <<call, receipts>>
  BY <1>4 DEF WritesKnown
<1>5. CASE \E a \in Actions, u \in Users : accept(a, u) \/ transition(a)
  BY <1>4, <1>5 DEF accept, transition
<1>6. CASE \E a \in Actions : transition(a)
  BY <1>4, <1>6 DEF transition
<1>7. CASE InviteOnly
  BY <1>4, <1>7 DEF InviteOnly
<1> QED
  BY <1>1, <1>2, <1>3, <1>5, <1>6, <1>7, NextKinds DEF transition_account_status, grant_global_role,
     grant_action_membership, replace_responsible_administrators, create

\* A command repeated with its idempotency key after a lost answer is applied
\* once and never answered with a conflict after it was applied.
THEOREM ExactlyOnce == Spec => []AppliedOnce
<1>1. Init => WritesKnown
  BY DEF Init, NoCall, WritesKnown
<1>2. WritesKnown => AppliedOnce
  BY DEF WritesKnown, AppliedOnce
<1> QED
  BY <1>1, <1>2, WritesStep, Invariance, PTL DEF Spec

(***************************************************************************)
(* What an administrator saw when the change was requested.                *)
(***************************************************************************)
SeenKnown ==
  \A c \in Calls : InFlight(c) /\ call[c].cmd.kind = "status" =>
    LET u == call[c].cmd.user IN
    /\ call[c].rev <= revision[u]
    /\ account[u] # "none" /\ call[c].seen # "none"
    /\ call[c].rev = revision[u] => account[u] = call[c].seen \/ call[c].seen = "invited"

LEMMA Squeeze ==
  ASSUME NEW i \in Nat, NEW j \in Nat, NEW k \in Nat, i <= j, j <= k
  PROVE i <= k /\ (i = k => i = j)
OBVIOUS

LEMMA SeenStep == IInv /\ SeenKnown /\ [Next]_vars => SeenKnown'
<1> SUFFICES ASSUME IInv, SeenKnown, [Next]_vars PROVE SeenKnown'
    OBVIOUS
<1> USE DEF IInv, TypeOK, accounts, leadership
<1> DEFINE Kept(d) == InFlight(d)' => /\ InFlight(d)
                                      /\ call'[d].cmd = call[d].cmd
                                      /\ call'[d].rev = call[d].rev
                                      /\ call'[d].seen = call[d].seen
<1>0. \A d \in Calls : /\ call[d] \in CallRows /\ call[d].rev \in Nat
                       /\ InFlight(d) => call[d].cmd \in Commands
  BY DEF CallRows, KnownCommands
<1>1. CASE UNCHANGED <<account, revision, call>>
  BY <1>1 DEF SeenKnown, InFlight
<1>2. ASSUME NEW c \in Calls, Send(c) \/ Check(c) \/ RollBack(c) \/ Answer(c) \/ AnswerLost(c)
      PROVE SeenKnown'
  <2>1. account' = account /\ revision' = revision
    BY <1>2 DEF Send, Check, RollBack, Answer, AnswerLost
  <2>2. \A d \in Calls \ {c} : Kept(d)
    BY <1>2 DEF Send, Check, RollBack, Answer, AnswerLost, InFlight
  <2>3. CASE ~Send(c)
    <3>1. Kept(c)
      <4>1. CASE Check(c)
        BY <1>0, <4>1 DEF Check, Ended, NoCall, CallRows, InFlight
      <4>2. CASE RollBack(c)
        BY <1>0, <4>2 DEF RollBack, CallRows, InFlight
      <4>3. CASE Answer(c)
        BY <1>0, <4>3 DEF Answer, Ended, NoCall, InFlight
      <4>4. CASE AnswerLost(c)
        BY <1>0, <4>4 DEF AnswerLost, Ended, NoCall, CallRows, InFlight
      <4> QED
        BY <1>2, <2>3, <4>1, <4>2, <4>3, <4>4
    <3> QED
      BY <2>1, <2>2, <3>1 DEF SeenKnown
  <2>4. CASE Send(c)
    <3>1. PICK m \in Commands :
            /\ Offered(m)
            /\ call'[c] = [step |-> "sent", cmd |-> m, rev |-> RevisionOf(m),
                           seen |-> account[m.user], writes |-> 0]
      BY <2>4 DEF Send
    <3>2. m.kind = "status" => /\ RevisionOf(m) = revision[m.user] /\ revision[m.user] \in Nat
                               /\ account[m.user] # "none"
      BY <3>1 DEF Offered, RevisionOf, Commands
    <3> QED
      BY <2>1, <2>2, <3>1, <3>2 DEF SeenKnown
  <2> QED
    BY <2>3, <2>4
<1>3. ASSUME NEW c \in Calls,
             \/ transition_account_status(c) \/ grant_global_role(c) \/ grant_action_membership(c)
             \/ replace_responsible_administrators(c) \/ create(c)
      PROVE SeenKnown'
  <2>1. \E kind \in {"status", "role", "lead", "leads", "create"} : Commit(c, kind)
    BY <1>3 DEF transition_account_status, grant_global_role, grant_action_membership,
       replace_responsible_administrators, create
  <2>2. \A d \in Calls : Kept(d)
    BY <1>0, <2>1 DEF Commit, CallRows, InFlight
  <2>3. CASE transition_account_status(c)
    <3> DEFINE m == call[c].cmd
    <3>1. m \in Commands /\ <<account[m.user], m.to>> \in StatusTransitions
      <4>1. m \in Commands /\ m.kind = "status" /\ CommandOk(m, call[c].rev)
        BY <2>3, CommitStep DEF transition_account_status
      <4> QED
        BY <4>1 DEF CommandOk, StatusOk
    <3>2. m.user \in Users /\ m.to # "none"
      BY <3>1 DEF Commands, StatusTransitions
    <3>3. /\ revision'[m.user] = revision[m.user] + 1 /\ account'[m.user] = m.to
          /\ \A u \in Users \ {m.user} : revision'[u] = revision[u] /\ account'[u] = account[u]
      BY <2>3, <3>2 DEF transition_account_status
    <3>4. ASSUME NEW d \in Calls, InFlight(d)', call'[d].cmd.kind = "status"
          PROVE LET u == call'[d].cmd.user IN
                /\ call'[d].rev <= revision'[u]
                /\ account'[u] # "none" /\ call'[d].seen # "none"
                /\ call'[d].rev = revision'[u] => account'[u] = call'[d].seen \/ call'[d].seen = "invited"
      <4>1. /\ InFlight(d) /\ call'[d].cmd = call[d].cmd /\ call'[d].rev = call[d].rev
            /\ call'[d].seen = call[d].seen /\ call[d].rev \in Nat
            /\ call[d].cmd.user \in Users
        BY <1>0, <2>2, <3>4 DEF Commands
      <4>2. CASE call[d].cmd.user = m.user
        <5>1. revision[m.user] \in Nat /\ call[d].rev <= revision[m.user] /\ call[d].seen # "none"
          BY <3>2, <3>4, <4>1, <4>2 DEF SeenKnown
        <5> QED
          BY <3>2, <3>3, <4>1, <4>2, <5>1
      <4>3. CASE call[d].cmd.user # m.user
        BY <3>3, <3>4, <4>1, <4>3 DEF SeenKnown
      <4> QED
        BY <4>2, <4>3
    <3> QED
      BY <3>4 DEF SeenKnown
  <2>4. CASE ~transition_account_status(c)
    <3>1. /\ account' = account
          /\ \A u \in Users : revision'[u] \in Nat /\ revision[u] \in Nat /\ revision[u] <= revision'[u]
      BY <1>3, <2>4 DEF grant_global_role, grant_action_membership,
         replace_responsible_administrators, create
    <3>2. ASSUME NEW d \in Calls, InFlight(d)', call'[d].cmd.kind = "status"
          PROVE LET u == call'[d].cmd.user IN
                /\ call'[d].rev <= revision'[u]
                /\ account'[u] # "none" /\ call'[d].seen # "none"
                /\ call'[d].rev = revision'[u] => account'[u] = call'[d].seen \/ call'[d].seen = "invited"
      <4>1. /\ InFlight(d) /\ call'[d].cmd = call[d].cmd /\ call'[d].rev = call[d].rev
            /\ call'[d].seen = call[d].seen /\ call[d].rev \in Nat
            /\ call[d].cmd.user \in Users
        BY <1>0, <2>2, <3>2 DEF Commands
      <4>2. LET u == call[d].cmd.user IN
            /\ call[d].rev <= revision[u]
            /\ account[u] # "none" /\ call[d].seen # "none"
            /\ call[d].rev = revision[u] => account[u] = call[d].seen \/ call[d].seen = "invited"
        BY <3>2, <4>1 DEF SeenKnown
      <4> DEFINE old == revision[call[d].cmd.user]
                 new == revision'[call[d].cmd.user]
                 rev == call[d].rev
      <4>3. rev \in Nat /\ old \in Nat /\ new \in Nat /\ rev <= old /\ old <= new
        BY <3>1, <4>1, <4>2
      <4>4. rev <= new /\ (rev = new => rev = old)
        <5> HIDE DEF old, new, rev
        <5> QED
          BY <4>3, Squeeze
      <4> QED
        BY <3>1, <4>1, <4>2, <4>4
    <3> QED
      BY <3>2 DEF SeenKnown
  <2> QED
    BY <2>3, <2>4
<1>4. ASSUME NEW a \in Actions, NEW u \in Users, accept(a, u) PROVE SeenKnown'
  <2>1. /\ call' = call /\ revision' = revision
        /\ account[u] \in {"none", "invited", "active"} /\ account' = [account EXCEPT ![u] = "active"]
    BY <1>4 DEF accept
  <2> QED
    BY <1>0, <2>1 DEF SeenKnown, InFlight, Commands
<1>5. CASE \E a \in Actions : transition(a)
  BY <1>1, <1>5 DEF transition
<1>6. CASE InviteOnly
  BY <1>1, <1>6 DEF InviteOnly
<1>7. CASE UNCHANGED vars
  BY <1>1, <1>7 DEF vars
<1> QED
  BY <1>2, <1>3, <1>4, <1>5, <1>6, <1>7, NextKinds

\* A status is changed only from the one its administrator looked at.
THEOREM NoLostStatus == Spec => SeenIsWhatChanges
<1>1. Init => SeenKnown
  BY DEF Init, NoCall, SeenKnown, InFlight
<1>2. IInv /\ SeenKnown /\ [Next]_vars =>
        [\A c \in Calls : Committing(c) /\ call[c].cmd.kind = "status" =>
           account[call[c].cmd.user] = call[c].seen \/ call[c].seen = "invited"]_vars
  BY DEF IInv, SeenKnown, Committing, InFlight, CheckedStillOk, CommandOk, StatusOk
<1> QED
  BY <1>1, <1>2, SeenStep, Invariance, PTL DEF Spec, SeenIsWhatChanges

(***************************************************************************)
(* Who changes access.                                                     *)
(***************************************************************************)
\* Access changes only by a command whose author manages it at that moment.
THEOREM OnlyManagersChange == Spec => ChangesByManagers
<1> DEFINE ByManager(c) ==
      LET m == call[c].cmd IN
      \/ m.kind \in {"status", "role"} /\ IsAdmin(m.actor)
      \/ m.kind \in {"lead", "leads"} /\ Manages(m.actor, m.action)
      \/ m.kind = "create" /\ phase[m.action] = "none"
    Kept ==
      /\ admins' = admins
      /\ \A u \in Users : account[u] \in {"active", "suspended", "archived"} =>
                            account'[u] = account[u]
      /\ \A a \in Actions, u \in Users : lead[a][u] # "none" => lead'[a][u] = lead[a][u]
    Good == /\ \A c \in Calls : Committing(c) => ByManager(c)
            /\ (\E c \in Calls : Committing(c)) \/ Kept
<1>1. IInv /\ [Next]_vars => [Good]_vars
  <2> SUFFICES ASSUME IInv, Next PROVE Good
    OBVIOUS
  <2> USE DEF IInv, TypeOK
  <2>1. \A c \in Calls : Committing(c) => ByManager(c)
    BY DEF Committing, CheckedStillOk, CommandOk, StatusOk, RoleOk, LeadOk, LeadsOk, CreateOk
  <2>2. CASE UNCHANGED <<accounts, leadership>>
    BY <2>1, <2>2 DEF accounts, leadership
  <2>3. ASSUME NEW c \in Calls, NEW kind, Commit(c, kind) PROVE Good
    <3>1. Committing(c)
      BY <2>3 DEF Commit, Committing, CallRows
    <3> QED
      BY <2>1, <3>1
  <2>4. ASSUME NEW a \in Actions, NEW u \in Users, accept(a, u) PROVE Good
    BY <2>1, <2>4 DEF accept
  <2>5. ASSUME NEW a \in Actions, transition(a) PROVE Good
    BY <2>1, <2>5 DEF transition, accounts
  <2>6. ASSUME NEW c \in Calls, Send(c) \/ Check(c) \/ RollBack(c) \/ Answer(c) \/ AnswerLost(c)
        PROVE Good
    BY <2>2, <2>6 DEF Send, Check, RollBack, Answer, AnswerLost
  <2>7. CASE InviteOnly
    BY <2>2, <2>7 DEF InviteOnly
  <2> QED
    BY <2>3, <2>4, <2>5, <2>6, <2>7, NextKinds DEF transition_account_status, grant_global_role,
       grant_action_membership, replace_responsible_administrators, create
<1> QED
  BY <1>1, Invariance, PTL DEF Spec, ChangesByManagers
=============================================================================
