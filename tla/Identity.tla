------------------------------ MODULE Identity ------------------------------
(***************************************************************************)
(* Accounts, the system-admin role, the leads of the actions and the       *)
(* invitations to lead: identity.py, invitations.py and the commands of    *)
(* actions.py that change who leads an action.                             *)
(*                                                                         *)
(* A command that can take access away is authorised before its            *)
(* transaction, takes the advisory lock identity.admin_access, re-reads    *)
(* everything it decides by (Check) and writes (Commit). Invitations and   *)
(* the status of an action change without that lock, between the two.      *)
(* Memberships of roles other than charity_admin and the finance roles     *)
(* take the same path without the guard and are left out. A person stands  *)
(* for an address: changes of address belong to Sessions.                  *)
(***************************************************************************)
EXTENDS Naturals

CONSTANTS Users,        \* persons, each with one address
          Actions,      \* charity actions, by their unique archive slug
          Calls,        \* administrators' requests in flight
          Nobody,
          MaxAttempts,  \* MAX_INVITATION_CODE_ATTEMPTS
          MaxRequests   \* bound on requests and changes of an action's status

ASSUME IdentityAssumption ==
  /\ Nobody \notin Users
  /\ MaxAttempts \in Nat \ {0}
  /\ MaxRequests \in Nat

VARIABLES account,    \* user_account.status, "none" without a row
          revision,   \* user_account.revision
          admins,     \* users with the global role system_admin
          phase,      \* charity_action.status
          edition,    \* charity_action.revision
          lead,       \* charity_admin memberships: running, ended or no row
          invite,     \* the last action_invitation of an action to an address
          call,       \* requests and their transactions
          receipts,   \* calls whose command_receipt is completed
          requests    \* requests made so far

accounts == <<account, revision, admins>>
leadership == <<phase, edition, lead>>
vars == <<accounts, leadership, invite, call, receipts, requests>>

Statuses == {"none", "invited", "active", "suspended", "archived"}
Phases == {"none", "open", "completed", "archived"}  \* open: OPEN_ACTION_STATUSES

\* What a request asks for; fields its kind does not use are held constant.
Commands == [kind : {"status", "role", "lead", "leads", "create"},
             actor : Users, user : Users, action : Actions,
             to : {"active", "suspended", "archived", "on", "off"},
             chosen : SUBSET Users]
CallRows == [step : {"idle", "sent", "checked", "applied", "ok", "refused"},
             cmd : Commands \cup {Nobody},
             rev : Nat, seen : Statuses, writes : Nat]
\* The fields of a row that is no longer pending play no part and are cleared.
InviteRows == [status : {"none", "pending", "accepted", "expired", "revoked"},
               overdue : BOOLEAN, attempts : 0..(MaxAttempts - 1)]

NoCall == [step |-> "idle", cmd |-> Nobody, rev |-> 0, seen |-> "none", writes |-> 0]
Invitation(status) == [status |-> status, overdue |-> FALSE, attempts |-> 0]

(***************************************************************************)
(* Who keeps the installation and its open actions manageable.             *)
(***************************************************************************)
ActiveAdmins == {u \in admins : account[u] = "active"}
ActiveLeads(a) == {u \in Users : account[u] = "active" /\ lead[a][u] = "running"}

\* actor_still_manages, without and with an action
IsAdmin(u) == u \in ActiveAdmins
Manages(u, a) == IsAdmin(u) \/ u \in ActiveLeads(a)

\* Mutant: the leads are counted without their account's status.
LeavesGapAnyStatus(u, asAdmin, asLead) ==
  \/ asAdmin /\ ActiveAdmins = {u}
  \/ \E a \in asLead : phase[a] = "open" /\ {v \in Users : lead[a][v] = "running"} = {u}

\* admin_invariant_violation: taking the named access from u takes the last one
LeavesGap(u, asAdmin, asLead) ==
  \/ asAdmin /\ ActiveAdmins = {u}
  \/ \E a \in asLead : phase[a] = "open" /\ ActiveLeads(a) = {u}

StatusTransitions == {<<"active", "suspended">>, <<"active", "archived">>,
                      <<"suspended", "active">>, <<"suspended", "archived">>}

(***************************************************************************)
(* Requests. The application layer authorises with the principal of the    *)
(* session; the adapter decides again by what it reads under the lock.     *)
(***************************************************************************)
Authorized(m) ==
  \/ m.kind = "status" /\ IsAdmin(m.actor) /\ (m.actor = m.user => m.to = "active")
  \/ m.kind = "role" /\ IsAdmin(m.actor)
  \/ m.kind \in {"lead", "leads"} /\ Manages(m.actor, m.action)
  \/ m.kind = "create" /\ \E a \in Actions : Manages(m.actor, a)

\* What the forms offer: accounts that exist, roles to switch, actions that
\* can change.
Offered(m) ==
  /\ m.kind \in {"status", "role", "lead"} => account[m.user] # "none" /\ m.chosen = {}
  /\ m.kind \in {"leads", "create"} => m.user = m.actor /\ m.to = "on"
  /\ m.kind = "status" => m.to \in {"active", "suspended", "archived"}
  /\ m.kind = "role" => m.to = IF m.user \in admins THEN "off" ELSE "on"
  /\ m.kind \in {"lead", "leads"} => phase[m.action] # "none"
  /\ m.kind = "lead" => m.to = IF lead[m.action][m.user] = "running" THEN "off" ELSE "on"
  /\ m.kind = "leads" => /\ phase[m.action] # "archived"
                         /\ m.chosen \notin {{}, ActiveLeads(m.action)}
  /\ m.kind = "create" => phase[m.action] = "none" /\ m.chosen = {}

RevisionOf(m) == IF m.kind = "leads" THEN edition[m.action] ELSE revision[m.user]

\* Mutant: the command does not wait for the lock.
AdminLockIgnored == TRUE

\* lock_admin_access: held from the checks to the end of the transaction
AdminLockFree == \A c \in Calls : call[c].step # "checked"

\* Account rows a checked command holds (FOR NO KEY UPDATE or FOR SHARE)
RowLocked(u) ==
  \E c \in Calls : call[c].step = "checked" /\
    LET m == call[c].cmd IN
    \/ m.kind # "leads" /\ u = m.user
    \/ m.kind = "leads" /\ u \in m.chosen

\* Action rows a checked command holds
ActionLocked(a) ==
  \E c \in Calls : /\ call[c].step = "checked"
                   /\ call[c].cmd.kind \in {"lead", "leads"}
                   /\ call[c].cmd.action = a

\* Mutant: the expected revision is not compared.
StatusOkAnyRevision(m, rev) ==
  /\ IsAdmin(m.actor)
  /\ <<account[m.user], m.to>> \in StatusTransitions
  /\ account[m.user] = "active" => ~LeavesGap(m.user, TRUE, Actions)

StatusOk(m, rev) ==
  /\ IsAdmin(m.actor)
  /\ revision[m.user] = rev
  /\ <<account[m.user], m.to>> \in StatusTransitions
  /\ account[m.user] = "active" => ~LeavesGap(m.user, TRUE, Actions)

RoleOk(m, rev) ==
  /\ IsAdmin(m.actor)
  /\ revision[m.user] = rev
  /\ (m.to = "on") # (m.user \in admins)
  /\ m.to # "on" => ~LeavesGap(m.user, TRUE, {})

LeadOk(m, rev) ==
  /\ revision[m.user] = rev
  /\ Manages(m.actor, m.action)
  /\ (m.to = "on") # (lead[m.action][m.user] = "running")
  /\ m.to # "on" => ~LeavesGap(m.user, FALSE, {m.action})

\* Mutant: the request's authorisation is trusted under the lock.
LeadsOkTrusting(m, rev) ==
  /\ \A u \in m.chosen : account[u] = "active"
  /\ edition[m.action] = rev

LeadsOk(m, rev) ==
  /\ Manages(m.actor, m.action)
  /\ \A u \in m.chosen : account[u] = "active"
  /\ edition[m.action] = rev

CreateOk(m) == account[m.actor] = "active" /\ phase[m.action] = "none"

CommandOk(m, rev) ==
  \/ m.kind = "status" /\ StatusOk(m, rev)
  \/ m.kind = "role" /\ RoleOk(m, rev)
  \/ m.kind = "lead" /\ LeadOk(m, rev)
  \/ m.kind = "leads" /\ LeadsOk(m, rev)
  \/ m.kind = "create" /\ CreateOk(m)

Send(c) ==
  /\ call[c].step \in {"idle", "ok", "refused"}
  /\ requests < MaxRequests
  /\ requests' = requests + 1
  /\ \E m \in Commands :
       /\ Offered(m) /\ Authorized(m)
       /\ call' = [call EXCEPT ![c] =
            [step |-> "sent", cmd |-> m, rev |-> RevisionOf(m),
             seen |-> account[m.user], writes |-> 0]]
  /\ receipts' = receipts \ {c}     \* a new idempotency key
  /\ UNCHANGED <<accounts, leadership, invite>>

Ended(c, answer) == [NoCall EXCEPT !.step = answer, !.writes = call[c].writes]

\* Mutant: the command is judged before its receipt is looked up.
CheckThenReplay(c) ==
  /\ call[c].step = "sent"
  /\ AdminLockFree
  /\ call' = [call EXCEPT ![c] =
       IF ~CommandOk(call[c].cmd, call[c].rev) THEN Ended(c, "refused")
       ELSE IF c \in receipts THEN Ended(c, "ok") ELSE [call[c] EXCEPT !.step = "checked"]]
  /\ UNCHANGED <<accounts, leadership, invite, receipts, requests>>

Check(c) ==
  /\ call[c].step = "sent"
  /\ AdminLockFree
  /\ call' = [call EXCEPT ![c] =
       IF c \in receipts THEN Ended(c, "ok")     \* replayed from the receipt
       ELSE IF CommandOk(call[c].cmd, call[c].rev)
       THEN [call[c] EXCEPT !.step = "checked"]
       ELSE Ended(c, "refused")]
  /\ UNCHANGED <<accounts, leadership, invite, receipts, requests>>

\* The writes of a command and, where it has one, its receipt
Commit(c, kind) ==
  /\ call[c].step = "checked"
  /\ call[c].cmd.kind = kind
  /\ call' = [call EXCEPT ![c].step = "applied", ![c].writes = @ + 1]
  /\ receipts' = IF kind \in {"status", "role", "lead"}
                 THEN receipts \cup {c} ELSE receipts
  /\ UNCHANGED <<invite, requests>>

transition_account_status(c) ==
  LET m == call[c].cmd IN
  /\ Commit(c, "status")
  /\ account' = [account EXCEPT ![m.user] = m.to]
  /\ revision' = [revision EXCEPT ![m.user] = @ + 1]
  /\ UNCHANGED <<admins, leadership>>

grant_global_role(c) ==
  LET m == call[c].cmd IN
  /\ Commit(c, "role")
  /\ admins' = IF m.to = "on" THEN admins \cup {m.user} ELSE admins \ {m.user}
  /\ revision' = [revision EXCEPT ![m.user] = @ + 1]
  /\ UNCHANGED <<account, leadership>>

grant_action_membership(c) ==
  LET m == call[c].cmd IN
  /\ Commit(c, "lead")
  /\ lead' = [lead EXCEPT ![m.action][m.user] = IF m.to = "on" THEN "running" ELSE "ended"]
  /\ revision' = [revision EXCEPT ![m.user] = @ + 1]
  /\ UNCHANGED <<account, admins, phase, edition>>

replace_responsible_administrators(c) ==
  LET m == call[c].cmd IN
  /\ Commit(c, "leads")
  /\ lead' = [lead EXCEPT ![m.action] =
       [u \in Users |-> IF u \in m.chosen THEN "running"
                        ELSE IF @[u] = "running" THEN "ended" ELSE @[u]]]
  /\ edition' = [edition EXCEPT ![m.action] = @ + 1]
  /\ UNCHANGED <<accounts, phase>>

create(c) ==
  LET m == call[c].cmd IN
  /\ Commit(c, "create")
  /\ phase' = [phase EXCEPT ![m.action] = "open"]
  /\ lead' = [lead EXCEPT ![m.action][m.actor] = "running"]
  /\ UNCHANGED <<accounts, edition>>

\* The connection breaks: PostgreSQL rolls back, the client sends again.
RollBack(c) ==
  /\ call[c].step = "checked"
  /\ call' = [call EXCEPT ![c].step = "sent"]
  /\ UNCHANGED <<accounts, leadership, invite, receipts, requests>>

Answer(c) ==
  /\ call[c].step = "applied"
  /\ call' = [call EXCEPT ![c] = Ended(c, "ok")]
  /\ UNCHANGED <<accounts, leadership, invite, receipts, requests>>

\* The answer is lost; a client with a key repeats it if still authorised.
AnswerLost(c) ==
  /\ call[c].step = "applied"
  /\ c \in receipts
  /\ call' = [call EXCEPT ![c] =
       IF Authorized(call[c].cmd) THEN [call[c] EXCEPT !.step = "sent"] ELSE Ended(c, "idle")]
  /\ UNCHANGED <<accounts, leadership, invite, receipts, requests>>

\* actions.py transition: no admin lock, the row's revision guards it
transition(a) ==
  /\ phase[a] \in {"open", "completed"}
  /\ ~ActionLocked(a)
  /\ requests < MaxRequests
  /\ requests' = requests + 1
  /\ phase' = [phase EXCEPT ![a] = IF @ = "open" THEN "completed" ELSE "archived"]
  /\ edition' = [edition EXCEPT ![a] = @ + 1]
  /\ UNCHANGED <<accounts, lead, invite, call, receipts>>

(***************************************************************************)
(* Invitations. The index over pending rows allows one for an action, an   *)
(* address and a role; the links and codes of earlier rows find a row that *)
(* is not pending and change nothing.                                      *)
(***************************************************************************)
Pending(a, u) == invite[a][u].status = "pending"
Valid(a, u) == Pending(a, u) /\ ~invite[a][u].overdue

\* _authorized_context
MayInvite(v, a) == phase[a] = "open" /\ Manages(v, a)

\* create: an overdue row expires first, a valid one is returned instead
InviteCreate(v, a, u) ==
  /\ MayInvite(v, a)
  /\ ~Valid(a, u)
  /\ invite' = [invite EXCEPT ![a][u] = Invitation("pending")]
  /\ UNCHANGED <<accounts, leadership, call, receipts, requests>>

\* accept, revoke or list_authorized come upon an overdue row
InviteExpire(a, u) ==
  /\ Pending(a, u) /\ invite[a][u].overdue
  /\ invite' = [invite EXCEPT ![a][u] = Invitation("expired")]
  /\ UNCHANGED <<accounts, leadership, call, receipts, requests>>

accept(a, u) ==
  /\ Valid(a, u)
  /\ ~RowLocked(u)
  /\ account[u] \in {"none", "invited", "active"}
  /\ account' = [account EXCEPT ![u] = "active"]
  /\ lead' = [lead EXCEPT ![a][u] = IF @ = "none" THEN "running" ELSE @]
  /\ invite' = [invite EXCEPT ![a][u] = Invitation("accepted")]
  /\ UNCHANGED <<revision, admins, phase, edition, call, receipts, requests>>

AfterWrongCode(r) ==
  IF r.status # "pending" THEN r
  ELSE IF r.overdue THEN Invitation("expired")
  ELSE IF r.attempts + 1 >= MaxAttempts THEN Invitation("revoked")
  ELSE [r EXCEPT !.attempts = r.attempts + 1]

\* _record_invalid_code: counts for every pending invitation of the address
WrongCode(u) ==
  /\ \E a \in Actions : Pending(a, u)
  /\ invite' = [a \in Actions |-> [invite[a] EXCEPT ![u] = AfterWrongCode(invite[a][u])]]
  /\ UNCHANGED <<accounts, leadership, call, receipts, requests>>

InviteRevoke(v, a, u) ==
  /\ Valid(a, u)
  /\ MayInvite(v, a)
  /\ invite' = [invite EXCEPT ![a][u] = Invitation("revoked")]
  /\ UNCHANGED <<accounts, leadership, call, receipts, requests>>

\* replace: sent again, or to a corrected address that has none pending
InviteReplace(v, a, u, w) ==
  /\ Valid(a, u)
  /\ MayInvite(v, a)
  /\ w = u \/ ~Pending(a, w)
  /\ invite' = [invite EXCEPT ![a] = [@ EXCEPT ![u] = Invitation("revoked"),
                                              ![w] = Invitation("pending")]]
  /\ UNCHANGED <<accounts, leadership, call, receipts, requests>>

\* expires_at passes
Elapse(a, u) ==
  /\ Valid(a, u)
  /\ invite' = [invite EXCEPT ![a][u] = [invite[a][u] EXCEPT !.overdue = TRUE]]
  /\ UNCHANGED <<accounts, leadership, call, receipts, requests>>

-----------------------------------------------------------------------------
\* An installation as it is seeded: active system admins, other accounts,
\* and actions not created yet or open with active leads.
Init ==
  /\ account \in [Users -> {"none", "invited", "active"}]
  /\ admins \in SUBSET {u \in Users : account[u] # "none"}
  /\ ActiveAdmins # {}
  /\ phase \in [Actions -> {"none", "open"}]
  /\ lead \in [Actions -> [Users -> {"none", "running"}]]
  /\ \A a \in Actions : /\ phase[a] = "open" <=> ActiveLeads(a) # {}
                        /\ \A u \in Users : lead[a][u] = "running" => account[u] = "active"
  /\ revision = [u \in Users |-> 1]
  /\ edition = [a \in Actions |-> 1]
  /\ invite = [a \in Actions |-> [u \in Users |-> Invitation("none")]]
  /\ call = [c \in Calls |-> NoCall]
  /\ receipts = {}
  /\ requests = 0

CallNext(c) ==
  \/ Send(c) \/ Check(c) \/ RollBack(c) \/ Answer(c) \/ AnswerLost(c)
  \/ transition_account_status(c)
  \/ grant_global_role(c)
  \/ grant_action_membership(c)
  \/ replace_responsible_administrators(c)
  \/ create(c)

InviteNext(a, u) ==
  \/ accept(a, u) \/ Elapse(a, u) \/ InviteExpire(a, u)
  \/ \E v \in Users : InviteCreate(v, a, u) \/ InviteRevoke(v, a, u)
  \/ \E v, w \in Users : InviteReplace(v, a, u, w)

Next ==
  \/ \E c \in Calls : CallNext(c)
  \/ \E a \in Actions : transition(a)
  \/ \E a \in Actions, u \in Users : InviteNext(a, u)
  \/ \E u \in Users : WrongCode(u)

Spec == Init /\ [][Next]_vars

-----------------------------------------------------------------------------
\* The variables keep the values of their columns.
TypeOK ==
  /\ account \in [Users -> Statuses]
  /\ revision \in [Users -> Nat]
  /\ admins \in SUBSET Users
  /\ phase \in [Actions -> Phases]
  /\ edition \in [Actions -> Nat]
  /\ lead \in [Actions -> [Users -> {"none", "running", "ended"}]]
  /\ invite \in [Actions -> [Users -> InviteRows]]
  /\ call \in [Calls -> CallRows]
  /\ receipts \in SUBSET Calls
  /\ requests \in Nat

\* domain/identity.py admin_invariant_violation: "The installation keeps at
\* least one active system admin", whatever two administrators do at once.
SystemAdminRemains == ActiveAdmins # {}

\* "... and every open action keeps at least one active lead": suspensions,
\* removed roles, a replaced list of leads and a new action included.
OpenActionKeepsLead ==
  \A a \in Actions : phase[a] = "open" => ActiveLeads(a) # {}

Committing(c) == call[c].step = "checked" /\ call'[c].step = "applied"

\* A role or status is taken, given back or granted on request only by
\* someone who manages it when it commits, although the request was
\* authorised long before: no account loses access, no ended membership
\* runs again and nobody becomes system admin in any other way.
ChangesByManagers ==
  [][/\ \A c \in Calls : Committing(c) =>
          LET m == call[c].cmd IN
          \/ m.kind \in {"status", "role"} /\ IsAdmin(m.actor)
          \/ m.kind \in {"lead", "leads"} /\ Manages(m.actor, m.action)
          \/ m.kind = "create" /\ phase[m.action] = "none"
     /\ \/ \E c \in Calls : Committing(c)
        \/ /\ admins' = admins
           /\ \A u \in Users : account[u] \in {"active", "suspended", "archived"} =>
                                 account'[u] = account[u]
           /\ \A a \in Actions, u \in Users : lead[a][u] # "none" =>
                                                lead'[a][u] = lead[a][u]]_vars

\* A repeated request is applied once, and one that was applied is never
\* answered with a conflict (the receipt is read before anything is judged).
AppliedOnce ==
  \A c \in Calls : call[c].writes <= 1 /\ (call[c].step = "refused" => call[c].writes = 0)

\* A status change starts from the status the administrator saw (the
\* expected revision), except that an acceptance in between, which keeps the
\* revision, may have made an invited account active.
SeenIsWhatChanges ==
  [][\A c \in Calls : Committing(c) /\ call[c].cmd.kind = "status" =>
       account[call[c].cmd.user] = call[c].seen \/ call[c].seen = "invited"]_vars
=============================================================================
