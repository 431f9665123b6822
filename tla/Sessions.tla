------------------------------ MODULE Sessions ------------------------------
(***************************************************************************)
(* Login challenges, sessions and changes of the login address:            *)
(* sessions.py, email_changes.py, and the change of an account's status in *)
(* identity.py that ends its sessions.                                     *)
(*                                                                         *)
(* Every request is one transaction at READ COMMITTED. It takes its row    *)
(* locks one statement after the other (Plan), decides by the rows as they *)
(* are once it holds them (Advance), writes and commits. The locks that    *)
(* foreign keys take count: an audit event locks its actor's account FOR   *)
(* KEY SHARE. Time is the number of requests sent; a request carries the   *)
(* time at which it was sent, as the services read the clock before they   *)
(* open the transaction. The links and codes of earlier challenges find a  *)
(* row that is no longer pending and change nothing. The expiry of a       *)
(* session only refuses, which RollBack may do at any time. Archiving is   *)
(* suspending for good and is left out.                                    *)
(***************************************************************************)
EXTENDS Integers, Sequences

CONSTANTS Users,
          Addresses,
          Slots,        \* places for sessions; a place is free again once revoked
          Calls,        \* requests in flight
          Nobody,
          Holders,      \* users who have codes, sessions or a change to begin with
          MaxAttempts,  \* MAX_LOGIN_CODE_ATTEMPTS
          MaxRequests   \* bound on the requests

ASSUME SessionsAssumption ==
  /\ Nobody \notin Users \cup Addresses \cup Slots
  /\ Holders \subseteq Users
  /\ MaxAttempts \in Nat \ {0}
  /\ MaxRequests \in Nat

VARIABLES account,    \* user_account.status
          email,      \* user_account.email
          challenge,  \* the last login_challenge of a user and purpose
          change,     \* the last email_change_request of a user
          session,    \* user_session
          call,       \* requests and their transactions
          requests    \* requests sent so far

rows == <<account, email, challenge, change, session>>
vars == <<rows, call, requests>>

Purposes == {"login", "fresh"}
Expiries == {"ahead", "past"}

\* A challenge (address: email_snapshot) or a request for a change (from
\* address to the address wanted). The time of its creation stands for its
\* token and code. attempts is failed_code_attempts; guesses (history) are
\* the wrong codes that were recorded.
Credentials == [status : {"none", "pending", "used", "expired", "revoked"},
                address : Addresses \cup {Nobody}, wanted : Addresses \cup {Nobody},
                created : Nat, expiry : Expiries, attempts : 0..(MaxAttempts - 1),
                guesses : Nat]
NoCredential == [status |-> "none", address |-> Nobody, wanted |-> Nobody,
                 created |-> 0, expiry |-> "ahead", attempts |-> 0, guesses |-> 0]
Pending(address, wanted, at) ==
  [NoCredential EXCEPT !.status = "pending", !.address = address,
                       !.wanted = wanted, !.created = at]
\* A row that is no longer pending never is again; the rest of it is not used.
Closed(status) == [NoCredential EXCEPT !.status = status]

\* token: the time of the request that set it; proof: the address at which
\* the holder was last reached, or the account's when the session began.
\* Nobody's is one that is revoked, or a free place.
SessionRows == [user : Users \cup {Nobody}, token : Nat, created : Nat,
                proof : Addresses \cup {Nobody}]
NoSession == [user |-> Nobody, token |-> 0, created |-> 0, proof |-> Nobody]
Live(s) == session[s].user # Nobody
LiveOf(u) == {s \in Slots : session[s].user = u}

Kinds == {"challenge", "login", "wrong", "issue", "logout", "revoke_all",
          "status", "change", "confirm", "misconfirm"}
NoCall == [kind |-> "none", user |-> Nobody, actor |-> Nobody, purpose |-> "login",
           slot |-> Nobody, token |-> 0, address |-> Nobody, wanted |-> Nobody,
           to |-> "active", at |-> 0, no |-> 0, expiry |-> "ahead", step |-> 1,
           row |-> NoCredential, outcome |-> "pending", locks |-> {}]

ByLogin == {"challenge", "login", "wrong"}
ByChange == {"change", "confirm", "misconfirm"}

(***************************************************************************)
(* Requests arrive with what was read outside their transaction.           *)
(***************************************************************************)
CredentialOf(kind, u, p) == IF kind \in ByLogin THEN challenge[u][p] ELSE change[u]

\* A request about r: its token, and whether it has expired by now
About(r) == [NoCall EXCEPT !.no = r.created, !.expiry = r.expiry]

Send(c, kind, u, r) ==
  /\ call[c].kind = "none"
  /\ requests < MaxRequests
  /\ requests' = requests + 1
  /\ call' = [call EXCEPT ![c] =
       [r EXCEPT !.kind = kind, !.user = u, !.at = requests + 1]]
  /\ UNCHANGED rows

\* request_login, request_fresh_login
RequestLogin(c, u, p) ==
  /\ account[u] = "active"
  /\ p = "fresh" => LiveOf(u) # {}
  /\ Send(c, "challenge", u, [About(challenge[u][p]) EXCEPT !.purpose = p, !.address = email[u]])

\* The right link or code; a fresh login also sends a session's token.
EnterCode(c, u, p, s) ==
  /\ challenge[u][p].status = "pending"
  /\ s \in IF p = "fresh" THEN {t \in Slots : Live(t)} ELSE {Nobody}
  /\ Send(c, "login", u, [About(challenge[u][p]) EXCEPT !.purpose = p, !.slot = s,
                            !.token = IF s = Nobody THEN 0 ELSE session[s].token])

EnterWrongCode(c, u, p) ==
  Send(c, "wrong", u, [About(challenge[u][p]) EXCEPT !.purpose = p])

\* After an accepted invitation, in a transaction of its own
FinishAcceptance(c, u) == account[u] = "active" /\ Send(c, "issue", u, NoCall)

Logout(c, s) ==
  /\ Live(s)
  /\ Send(c, "logout", session[s].user, [NoCall EXCEPT !.slot = s, !.token = session[s].token])

RevokeAll(c, a, u) ==
  account[a] = "active" /\ Send(c, "revoke_all", u, [NoCall EXCEPT !.actor = a])

\* Administrators suspend and reactivate others.
ChangeStatus(c, a, u, to) ==
  /\ account[a] = "active"
  /\ a # u
  /\ Send(c, "status", u, [NoCall EXCEPT !.actor = a, !.to = to])

RequestChange(c, a, u, e) ==
  /\ account[a] = "active" /\ account[u] = "active"
  /\ e # email[u]
  /\ Send(c, "change", u, [About(change[u]) EXCEPT !.actor = a, !.address = email[u], !.wanted = e])

ConfirmChange(c, u) ==
  change[u].status = "pending" /\ Send(c, "confirm", u, About(change[u]))

MistypeChange(c, u) == Send(c, "misconfirm", u, About(change[u]))

(***************************************************************************)
(* Transactions: which rows they lock, in which order and how strongly.    *)
(***************************************************************************)
Plan(m) ==
  CASE m.kind = "challenge" -> <<"account", "credential", "write">>
    [] m.kind = "login" /\ m.outcome = "expired" -> <<"credential", "audit", "write">>
    [] m.kind = "login" /\ m.outcome # "expired" ->
         IF m.purpose = "fresh" THEN <<"credential", "account", "session", "write">>
         ELSE <<"credential", "account", "write">>
    [] m.kind = "wrong" -> IF m.outcome = "expired" THEN <<"credential", "audit", "write">>
                           ELSE <<"credential", "write">>
    [] m.kind = "issue" -> <<"account", "write">>
    [] m.kind = "logout" -> <<"session", "audit", "write">>
    [] m.kind = "revoke_all" -> <<"account", "sessions", "audit", "write">>
    [] m.kind = "status" -> <<"admin", "account", "sessions", "audit", "write">>
    [] m.kind = "change" -> IF m.outcome = "refused" THEN <<"account", "credential", "write">>
                            ELSE <<"account", "credential", "audit", "write">>
    [] m.kind = "confirm" /\ m.outcome = "expired" -> <<"credential", "write">>
    [] m.kind = "confirm" /\ m.outcome = "revoked" -> <<"credential", "account", "write">>
    [] m.kind = "confirm" /\ m.outcome \in {"pending", "used"} ->
         <<"credential", "account", "sessions", "challenges", "write">>
    [] m.kind = "misconfirm" -> <<"credential", "write">>
    [] OTHER -> <<"idle">>

Stage(m) == Plan(m)[m.step]

AdminRow == <<"admin", Nobody>>   \* the lock of all administrators' commands
AccountRow(u) == <<"account", u>>
SessionRow(s) == <<"session", s>>
ChallengeRow(u, p) == <<"challenge", <<u, p>>>>
ChangeRow(u) == <<"change", u>>
CredentialRow(m) == IF m.kind \in ByLogin THEN ChallengeRow(m.user, m.purpose)
                    ELSE ChangeRow(m.user)

\* Mutant: the account is locked as strongly as everywhere else.
AccountModeStrong(kind) == "update"

\* FOR NO KEY UPDATE in transition_account_status, FOR UPDATE elsewhere
AccountMode(kind) == IF kind = "status" THEN "nokey" ELSE "update"

\* The session of a token, if it is the user's: rows that do not match are
\* not locked either.
Current(m) == {s \in LiveOf(m.user) : s = m.slot /\ session[s].token = m.token}

Lock(row, mode) == [row |-> row, mode |-> mode]

\* Mutant: challenges and requests for a change are read without FOR UPDATE.
NeedsUnlockedCredential(m) ==
  CASE Stage(m) = "admin" -> {Lock(AdminRow, "update")}
    [] Stage(m) = "account" -> {Lock(AccountRow(m.user), AccountMode(m.kind))}
    [] Stage(m) = "session" -> {Lock(SessionRow(s), "update") : s \in Current(m)}
    [] Stage(m) = "sessions" -> {Lock(SessionRow(s), "update") : s \in LiveOf(m.user)}
    [] Stage(m) = "audit" ->
         {Lock(AccountRow(IF m.actor = Nobody THEN m.user ELSE m.actor), "keyshare")}
    [] OTHER -> {}

\* Mutant: a login reads the account without FOR UPDATE.
NeedsUnlockedAccount(m) ==
  CASE Stage(m) = "admin" -> {Lock(AdminRow, "update")}
    [] Stage(m) = "account" -> IF m.kind = "login" THEN {}
                               ELSE {Lock(AccountRow(m.user), AccountMode(m.kind))}
    [] Stage(m) = "credential" -> {Lock(CredentialRow(m), "update")}
    [] Stage(m) = "session" -> {Lock(SessionRow(s), "update") : s \in Current(m)}
    [] Stage(m) = "sessions" -> {Lock(SessionRow(s), "update") : s \in LiveOf(m.user)}
    [] Stage(m) = "challenges" -> {Lock(ChallengeRow(m.user, p), "update") : p \in Purposes}
    [] Stage(m) = "audit" ->
         {Lock(AccountRow(IF m.actor = Nobody THEN m.user ELSE m.actor), "keyshare")}
    [] OTHER -> {}

Needs(m) ==
  CASE Stage(m) = "admin" -> {Lock(AdminRow, "update")}
    [] Stage(m) = "account" -> {Lock(AccountRow(m.user), AccountMode(m.kind))}
    [] Stage(m) = "credential" -> {Lock(CredentialRow(m), "update")}
    [] Stage(m) = "session" -> {Lock(SessionRow(s), "update") : s \in Current(m)}
    [] Stage(m) = "sessions" -> {Lock(SessionRow(s), "update") : s \in LiveOf(m.user)}
    [] Stage(m) = "challenges" -> {Lock(ChallengeRow(m.user, p), "update") : p \in Purposes}
    [] Stage(m) = "audit" ->
         {Lock(AccountRow(IF m.actor = Nobody THEN m.user ELSE m.actor), "keyshare")}
    [] OTHER -> {}

Conflict(m1, m2) == ~(m1 = "keyshare" /\ m2 # "update") /\ ~(m2 = "keyshare" /\ m1 # "update")

Waits(c, d) ==
  /\ c # d
  /\ \E n \in Needs(call[c]), l \in call[d].locks :
       n.row = l.row /\ Conflict(n.mode, l.mode)

\* The row's expires_at against the time of the request
Late(m, r) == m.expiry = "past" /\ m.no = r.created

Occupied(e, u) == \E v \in Users \ {u} : email[v] = e

\* revoked_at: the clock under the lock in transition_account_status, the
\* time of the request elsewhere
RevokedAt(m) == IF m.kind = "status" THEN requests ELSE m.at

(***************************************************************************)
(* What a statement finds once it has its locks. A check that fails ends   *)
(* the transaction without a write; the one of "sessions" is the table's   *)
(* constraint ck_user_session_revocation.                                  *)
(***************************************************************************)
AccountPasses(m) ==
  CASE m.kind = "challenge" -> account[m.user] = "active" /\ email[m.user] = m.address
    [] m.kind \in {"login", "confirm"} ->
         account[m.user] = "active" /\ email[m.user] = m.row.address
    [] m.kind = "issue" -> account[m.user] = "active"
    [] m.kind = "status" -> account[m.actor] = "active" /\ account[m.user] # m.to
    [] m.kind = "change" -> account[m.user] = "active" /\ email[m.user] = m.address
    [] OTHER -> TRUE

CredentialPasses(m) ==
  LET r == CredentialOf(m.kind, m.user, m.purpose) IN
  CASE m.kind \in {"challenge", "change"} -> r.status # "pending" \/ Late(m, r)
    [] m.kind \in {"login", "confirm"} -> r.status = "pending" /\ r.created = m.no
    [] OTHER -> r.status = "pending"

Passes(m) ==
  CASE Stage(m) = "account" -> AccountPasses(m)
    [] Stage(m) = "credential" -> CredentialPasses(m)
    [] Stage(m) = "session" -> Current(m) # {}
    [] Stage(m) = "sessions" -> \A s \in LiveOf(m.user) : session[s].created <= RevokedAt(m)
    [] OTHER -> TRUE

\* after_failed_login_code, _failed_code
AfterWrongCode(r) == IF r.attempts + 1 >= MaxAttempts THEN "revoked" ELSE "pending"

\* What the transaction will make of the credential's row
Decide(m) ==
  LET r == CredentialOf(m.kind, m.user, m.purpose) IN
  CASE Stage(m) = "credential" /\ m.kind \notin {"challenge", "change"} ->
         IF Late(m, r) THEN "expired"
         ELSE IF m.kind \in {"wrong", "misconfirm"} THEN AfterWrongCode(r) ELSE "used"
    [] Stage(m) = "credential" /\ m.kind = "change" /\ \E v \in Users : email[v] = m.wanted -> "refused"
    [] Stage(m) = "account" /\ m.kind = "confirm" /\ Occupied(m.row.wanted, m.user) -> "revoked"
    [] OTHER -> m.outcome

Advance(c) ==
  LET m == call[c] IN
  /\ Stage(m) \notin {"idle", "write"}
  /\ \A d \in Calls : ~Waits(c, d)
  /\ call' = [call EXCEPT ![c] =
       IF ~Passes(m) THEN NoCall
       ELSE [m EXCEPT !.step = m.step + 1, !.locks = m.locks \cup Needs(m),
                      !.row = IF Stage(m) = "credential"
                              THEN CredentialOf(m.kind, m.user, m.purpose) ELSE m.row,
                      !.outcome = Decide(m)]]
  /\ UNCHANGED <<rows, requests>>

Ends(c) == call' = [call EXCEPT ![c] = NoCall]

Writes(c, kind) == call[c].kind = kind /\ Stage(call[c]) = "write" /\ Ends(c)

create_challenge(c) ==
  LET m == call[c] IN
  /\ Writes(c, "challenge")
  /\ challenge' = [challenge EXCEPT ![m.user][m.purpose] = Pending(m.address, Nobody, m.at)]
  /\ UNCHANGED <<account, email, change, session, requests>>

NewSession(m, s, proof) ==
  session' = [session EXCEPT ![s] = [user |-> m.user, token |-> m.at,
                                     created |-> m.at, proof |-> proof]]

complete_login(c) ==
  LET m == call[c] IN
  /\ Writes(c, "login")
  /\ m.outcome = "used"
  /\ challenge' = [challenge EXCEPT ![m.user][m.purpose] = Closed("used")]
  /\ \/ /\ m.purpose = "login"
        /\ \E s \in Slots : ~Live(s) /\ NewSession(m, s, m.row.address)
     \/ /\ m.purpose = "fresh"
        /\ session' = [session EXCEPT ![m.slot] =
                         [session[m.slot] EXCEPT !.token = m.at, !.proof = m.row.address]]
  /\ UNCHANGED <<account, email, change, requests>>

_expire_challenge(c) ==
  LET m == call[c] IN
  /\ Writes(c, "login") \/ Writes(c, "wrong")
  /\ m.outcome = "expired"
  /\ challenge' = [challenge EXCEPT ![m.user][m.purpose] = Closed("expired")]
  /\ UNCHANGED <<account, email, change, session, requests>>

\* The counter is written as it was read, plus one.
Counted(m, r) == IF m.outcome # "pending" THEN Closed(m.outcome)
                 ELSE [r EXCEPT !.attempts = m.row.attempts + 1, !.guesses = r.guesses + 1]

_record_invalid_code(c) ==
  LET m == call[c] IN
  /\ Writes(c, "wrong")
  /\ m.outcome # "expired"
  /\ challenge' = [challenge EXCEPT ![m.user][m.purpose] =
                     Counted(m, challenge[m.user][m.purpose])]
  /\ UNCHANGED <<account, email, change, session, requests>>

issue_session(c) ==
  /\ Writes(c, "issue")
  /\ \E s \in Slots : ~Live(s) /\ NewSession(call[c], s, email[call[c].user])
  /\ UNCHANGED <<account, email, challenge, change, requests>>

Revoked(gone) == [s \in Slots |-> IF s \in gone THEN NoSession ELSE session[s]]

revoke_session(c) ==
  /\ Writes(c, "logout")
  /\ session' = Revoked({call[c].slot})
  /\ UNCHANGED <<account, email, challenge, change, requests>>

revoke_user_sessions(c) ==
  /\ Writes(c, "revoke_all")
  /\ session' = Revoked(LiveOf(call[c].user))
  /\ UNCHANGED <<account, email, challenge, change, requests>>

transition_account_status(c) ==
  LET m == call[c] IN
  /\ Writes(c, "status")
  /\ account' = [account EXCEPT ![m.user] = m.to]
  /\ session' = IF m.to = "suspended" THEN Revoked(LiveOf(m.user)) ELSE session
  /\ UNCHANGED <<email, challenge, change, requests>>

create_change(c) ==
  LET m == call[c] IN
  /\ Writes(c, "change")
  /\ change' = [change EXCEPT ![m.user] =
       IF m.outcome = "refused"   \* the address is in use; an overdue request has expired
       THEN IF m.row.status = "pending" THEN Closed("expired") ELSE change[m.user]
       ELSE Pending(m.address, m.wanted, m.at)]
  /\ UNCHANGED <<account, email, challenge, session, requests>>

\* Mutant: codes sent to the old address stay valid.
RevokedChallengesKept(u) == challenge[u]

RevokedChallenges(u) ==
  [p \in Purposes |-> IF challenge[u][p].status = "pending"
                      THEN Closed("revoked") ELSE challenge[u][p]]

\* The unique address is checked by the update itself; a transaction it
\* refuses can only roll back.
confirm(c) ==
  LET m == call[c] IN
  /\ Writes(c, "confirm")
  /\ m.outcome = "used"
  /\ ~Occupied(m.row.wanted, m.user)
  /\ email' = [email EXCEPT ![m.user] = m.row.wanted]
  /\ session' = Revoked(LiveOf(m.user))
  /\ challenge' = [challenge EXCEPT ![m.user] = RevokedChallenges(m.user)]
  /\ change' = [change EXCEPT ![m.user] = Closed("used")]
  /\ UNCHANGED <<account, requests>>

\* confirm of an overdue request or one whose address is taken
confirm_refused(c) ==
  LET m == call[c] IN
  /\ Writes(c, "confirm")
  /\ m.outcome \in {"expired", "revoked"}
  /\ change' = [change EXCEPT ![m.user] = Closed(m.outcome)]
  /\ UNCHANGED <<account, email, challenge, session, requests>>

_failed_code(c) ==
  LET m == call[c] IN
  /\ Writes(c, "misconfirm")
  /\ change' = [change EXCEPT ![m.user] = Counted(m, change[m.user])]
  /\ UNCHANGED <<account, email, challenge, session, requests>>

\* A lost connection, a deadlock's victim, a violated constraint
RollBack(c) ==
  /\ call[c].kind # "none"
  /\ Ends(c)
  /\ UNCHANGED <<rows, requests>>

\* expires_at passes
ElapseChallenge(u, p) ==
  /\ challenge[u][p].status = "pending" /\ challenge[u][p].expiry = "ahead"
  /\ challenge' = [challenge EXCEPT ![u][p] = [challenge[u][p] EXCEPT !.expiry = "past"]]
  /\ UNCHANGED <<account, email, change, session, call, requests>>

ElapseChange(u) ==
  /\ change[u].status = "pending" /\ change[u].expiry = "ahead"
  /\ change' = [change EXCEPT ![u] = [change[u] EXCEPT !.expiry = "past"]]
  /\ UNCHANGED <<account, email, challenge, session, call, requests>>

-----------------------------------------------------------------------------
FirstChallenges == {NoCredential} \cup {Pending(e, Nobody, 0) : e \in Addresses}
FirstChanges == {NoCredential} \cup {Pending(e, f, 0) : e \in Addresses, f \in Addresses}
FirstSessions == {NoSession} \cup {[NoSession EXCEPT !.user = u, !.proof = email[u]] : u \in Holders}

\* Nothing is in flight; users are active and have addresses of their own.
Init ==
  /\ account = [u \in Users |-> "active"]
  /\ email \in [Users -> Addresses]
  /\ \A u, v \in Users : email[u] = email[v] => u = v
  /\ challenge \in [Users -> [Purposes -> FirstChallenges]]
  /\ \A u \in Users, p \in Purposes :
       challenge[u][p].status = "pending" => u \in Holders /\ challenge[u][p].address = email[u]
  /\ change \in [Users -> FirstChanges]
  /\ \A u \in Users : change[u].status = "pending" =>
       /\ u \in Holders /\ change[u].address = email[u]
       /\ \A v \in Users : change[u].wanted # email[v]
  /\ session \in [Slots -> FirstSessions]
  /\ call = [c \in Calls |-> NoCall]
  /\ requests = 0

SendNext(c) ==
  \/ \E u \in Users, p \in Purposes : \/ RequestLogin(c, u, p)
                                      \/ EnterWrongCode(c, u, p)
                                      \/ \E s \in Slots \cup {Nobody} : EnterCode(c, u, p, s)
  \/ \E u \in Users : FinishAcceptance(c, u) \/ ConfirmChange(c, u) \/ MistypeChange(c, u)
  \/ \E s \in Slots : Logout(c, s)
  \/ \E a, u \in Users : \/ RevokeAll(c, a, u)
                         \/ \E to \in {"active", "suspended"} : ChangeStatus(c, a, u, to)
                         \/ \E e \in Addresses : RequestChange(c, a, u, e)

WriteNext(c) ==
  \/ create_challenge(c) \/ complete_login(c) \/ _expire_challenge(c)
  \/ _record_invalid_code(c) \/ issue_session(c) \/ revoke_session(c)
  \/ revoke_user_sessions(c) \/ transition_account_status(c)
  \/ create_change(c) \/ confirm(c) \/ confirm_refused(c) \/ _failed_code(c)

Next ==
  \/ \E c \in Calls : SendNext(c) \/ Advance(c) \/ WriteNext(c) \/ RollBack(c)
  \/ \E u \in Users, p \in Purposes : ElapseChallenge(u, p)
  \/ \E u \in Users : ElapseChange(u)

Spec == Init /\ [][Next]_vars

-----------------------------------------------------------------------------
Locks == [row : {AdminRow} \cup {AccountRow(u) : u \in Users} \cup {SessionRow(s) : s \in Slots}
                  \cup {ChallengeRow(u, p) : u \in Users, p \in Purposes}
                  \cup {ChangeRow(u) : u \in Users},
          mode : {"keyshare", "nokey", "update"}]

CallRows == [kind : Kinds \cup {"none"}, user : Users \cup {Nobody}, actor : Users \cup {Nobody},
             purpose : Purposes, slot : Slots \cup {Nobody}, token : Nat,
             address : Addresses \cup {Nobody}, wanted : Addresses \cup {Nobody},
             to : {"active", "suspended"}, at : Nat, no : Nat, expiry : Expiries,
             step : 1..5, row : Credentials,
             outcome : {"pending", "used", "expired", "revoked", "refused"},
             locks : SUBSET Locks]

\* The rows keep the values of their columns: a pending challenge has seen
\* fewer wrong codes than the limit.
TypeOK ==
  /\ account \in [Users -> {"active", "suspended"}]
  /\ email \in [Users -> Addresses]
  /\ challenge \in [Users -> [Purposes -> Credentials]]
  /\ change \in [Users -> Credentials]
  /\ session \in [Slots -> SessionRows]
  /\ call \in [Calls -> CallRows]
  /\ \A c \in Calls : call[c].kind # "none" => call[c].user \in Users
  /\ requests \in Nat

\* Whatever is suspended, revoked or moved to another address while a login
\* is under way: a session that is not revoked belongs to an active account
\* and was opened or confirmed at the address the account has now.
LiveSessionSound ==
  \A s \in Slots : Live(s) =>
    account[session[s].user] = "active" /\ session[s].proof = email[session[s].user]

\* A code that was mailed to an address the account no longer has is not
\* pending, nor is a change that starts from one: confirm ends them, and
\* create_challenge does not bring one back.
OldAddressOpensNothing ==
  \A u \in Users :
    /\ \A p \in Purposes : challenge[u][p].status = "pending" => challenge[u][p].address = email[u]
    /\ change[u].status = "pending" => change[u].address = email[u]

\* A link or code works once (the mail says "koennen nur einmal verwendet
\* werden"): a login that opens a session or renews its token uses up a
\* challenge that was pending until then, also when it is sent twice.
ChallengeWorksOnce ==
  [][\A c \in Calls :
       call[c].kind = "login" /\ call'[c].kind = "none" /\ session' # session =>
         /\ challenge[call[c].user][call[c].purpose].status = "pending"
         /\ challenge'[call[c].user][call[c].purpose].status = "used"]_vars

\* Codes are guessed in parallel as little as one after the other: while a
\* challenge or a request for a change is pending, fewer wrong codes than the
\* limit have been recorded for it, however many transactions read its
\* counter at once.
GuessesLimited ==
  \A u \in Users : /\ \A p \in Purposes : challenge[u][p].guesses < MaxAttempts
                   /\ change[u].guesses < MaxAttempts

\* c is not part of a cycle: some set of calls contains all c waits for and
\* all that they wait for, but not c.
NotInCycle(c) ==
  \E R \in SUBSET (Calls \ {c}) :
    /\ \A d \in Calls : Waits(c, d) => d \in R
    /\ \A d \in R, e \in Calls : Waits(d, e) => e \in R

\* A suspension that found its account is never a deadlock's victim and is
\* never refused by the constraint on revoked_at, although logins,
\* logouts, changes of address and other administrators do end so.
SuspensionGoesThrough ==
  \A c \in Calls : call[c].kind = "status" =>
    NotInCycle(c) /\ (Stage(call[c]) = "sessions" => Passes(call[c]))
=============================================================================
