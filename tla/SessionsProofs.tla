--------------------------- MODULE SessionsProofs ---------------------------
(***************************************************************************)
(* Sessions, login challenges, changes of the login address and            *)
(* suspensions, statement by statement, for every number of accounts,      *)
(* addresses, sessions and requests at once.                               *)
(*                                                                         *)
(* The argument: what a request holds locked is exactly what the stages    *)
(* behind it have locked (Held, Explained), locks that conflict are never  *)
(* held together (LocksExclusive), and a row is written only by a request  *)
(* that holds its lock (WriteFrame). So what a request has seen of a row   *)
(* it has locked is still so when it writes (AccountKnown,                 *)
(* CredentialKnown), and the properties follow write by write.             *)
(***************************************************************************)
EXTENDS Sessions, TLAPS

(* The stages a request has behind it *)
Past(m) == {Plan(m)[i] : i \in 1..(m.step - 1)}

(* How far a request is and what it has decided fit its kind. *)
Shaped(m) ==
  /\ m.step \in DOMAIN Plan(m)
  /\ m.kind = "login" => IF m.step = 1 THEN m.outcome = "pending"
                         ELSE m.outcome \in {"used", "expired"}
  /\ m.kind \in {"wrong", "misconfirm"} =>
       IF m.step = 1 THEN m.outcome = "pending"
       ELSE m.outcome \in {"pending", "revoked", "expired"}
  /\ m.kind = "confirm" => CASE m.step = 1 -> m.outcome = "pending"
                             [] m.step = 2 -> m.outcome \in {"used", "expired"}
                             [] m.step = 3 -> m.outcome \in {"used", "revoked"}
                             [] OTHER -> m.outcome = "used"
  /\ m.kind = "change" => IF m.step <= 2 THEN m.outcome = "pending"
                          ELSE m.outcome \in {"pending", "refused"}
  /\ m.kind \notin {"login", "wrong", "misconfirm", "confirm", "change"} =>
       m.outcome = "pending"

(* Two requests never hold locks on one row that conflict. *)
LocksExclusive ==
  \A c, d \in Calls : c # d =>
    \A k \in call[c].locks, l \in call[d].locks : k.row = l.row => ~Conflict(k.mode, l.mode)

(* What a stage locks is held from then on; the sessions are those the user *)
(* has now, as nobody opens one for an account that is locked.              *)
Held(m) ==
  /\ "admin" \in Past(m) => Lock(AdminRow, "update") \in m.locks
  /\ "account" \in Past(m) => Lock(AccountRow(m.user), AccountMode(m.kind)) \in m.locks
  /\ "credential" \in Past(m) => Lock(CredentialRow(m), "update") \in m.locks
  /\ "session" \in Past(m) => Lock(SessionRow(m.slot), "update") \in m.locks
  /\ "sessions" \in Past(m) => \A s \in LiveOf(m.user) : Lock(SessionRow(s), "update") \in m.locks
  /\ "challenges" \in Past(m) =>
       \A p \in Purposes : Lock(ChallengeRow(m.user, p), "update") \in m.locks

(* Nothing else is held, and a session that is locked stays its user's. *)
Explained(m) ==
  \A l \in m.locks :
    \/ "admin" \in Past(m) /\ l = Lock(AdminRow, "update")
    \/ "account" \in Past(m) /\ l = Lock(AccountRow(m.user), AccountMode(m.kind))
    \/ "credential" \in Past(m) /\ l = Lock(CredentialRow(m), "update")
    \/ /\ "session" \in Past(m) \/ "sessions" \in Past(m)
       /\ \E s \in LiveOf(m.user) : l = Lock(SessionRow(s), "update")
    \/ "challenges" \in Past(m) /\ \E p \in Purposes : l = Lock(ChallengeRow(m.user, p), "update")
    \/ "audit" \in Past(m) /\ \E u \in Users : l = Lock(AccountRow(u), "keyshare")

(* What a request saw of the account it has locked is still so. *)
AccountKnown(m) ==
  "account" \in Past(m) =>
    /\ m.kind = "login" => account[m.user] = "active" /\ email[m.user] = m.row.address
    /\ m.kind \in {"challenge", "change"} => email[m.user] = m.address
    /\ m.kind = "issue" => account[m.user] = "active"

(* What a request saw of the challenge it has locked is still so; a wrong   *)
(* code that does not end it leaves room for another one.                   *)
CredentialKnown(m) ==
  "credential" \in Past(m) =>
    /\ m.kind = "login" => challenge[m.user][m.purpose].status = "pending"
    /\ m.kind \in {"wrong", "misconfirm"} /\ m.outcome = "pending" =>
         /\ CredentialOf(m.kind, m.user, m.purpose).attempts = m.row.attempts
         /\ m.row.attempts + 1 < MaxAttempts
    /\ m.kind = "confirm" => m.row.wanted \in Addresses

(* The wrong codes that were recorded are the ones the counter shows. *)
CountersAgree ==
  \A u \in Users : /\ \A p \in Purposes : challenge[u][p].guesses = challenge[u][p].attempts
                   /\ change[u].guesses = change[u].attempts

(* A change that may be confirmed leads to an address. *)
WantedIsAddress ==
  /\ \A u \in Users : change[u].status = "pending" => change[u].wanted \in Addresses
  /\ \A c \in Calls : call[c].kind = "change" => call[c].wanted \in Addresses

(* Nothing carries a time that is still to come. *)
Clock == /\ \A s \in Slots : session[s].created <= requests
         /\ \A c \in Calls : call[c].at <= requests

(* What the locks are worth                                                 *)
LockInv == /\ TypeOK
           /\ \A c \in Calls : Shaped(call[c]) /\ Held(call[c]) /\ Explained(call[c])
           /\ LocksExclusive

(* The inductive invariant                                                  *)
KnownInv == /\ LockInv
            /\ \A c \in Calls : AccountKnown(call[c]) /\ CredentialKnown(call[c])
            /\ CountersAgree
            /\ WantedIsAddress
            /\ Clock

-----------------------------------------------------------------------------
(* Which stages a request has behind it, kind by kind                      *)

(* The stages of each kind of request                                       *)
LEMMA PlanOf ==
  ASSUME NEW m
  PROVE  /\ m.kind = "challenge" => Plan(m) = <<"account", "credential", "write">>
         /\ m.kind = "login" /\ m.outcome = "expired" => Plan(m) = <<"credential", "audit", "write">>
         /\ m.kind = "login" /\ m.outcome # "expired" /\ m.purpose = "fresh" =>
              Plan(m) = <<"credential", "account", "session", "write">>
         /\ m.kind = "login" /\ m.outcome # "expired" /\ m.purpose # "fresh" =>
              Plan(m) = <<"credential", "account", "write">>
         /\ m.kind = "wrong" /\ m.outcome = "expired" => Plan(m) = <<"credential", "audit", "write">>
         /\ m.kind = "wrong" /\ m.outcome # "expired" => Plan(m) = <<"credential", "write">>
         /\ m.kind = "issue" => Plan(m) = <<"account", "write">>
         /\ m.kind = "logout" => Plan(m) = <<"session", "audit", "write">>
         /\ m.kind = "revoke_all" => Plan(m) = <<"account", "sessions", "audit", "write">>
         /\ m.kind = "status" => Plan(m) = <<"admin", "account", "sessions", "audit", "write">>
         /\ m.kind = "change" /\ m.outcome = "refused" => Plan(m) = <<"account", "credential", "write">>
         /\ m.kind = "change" /\ m.outcome # "refused" =>
              Plan(m) = <<"account", "credential", "audit", "write">>
         /\ m.kind = "confirm" /\ m.outcome = "expired" => Plan(m) = <<"credential", "write">>
         /\ m.kind = "confirm" /\ m.outcome = "revoked" => Plan(m) = <<"credential", "account", "write">>
         /\ m.kind = "confirm" /\ m.outcome \in {"pending", "used"} =>
              Plan(m) = <<"credential", "account", "sessions", "challenges", "write">>
         /\ m.kind = "misconfirm" => Plan(m) = <<"credential", "write">>
         /\ m.kind = "none" => Plan(m) = <<"idle">>
  BY DEF Plan

(* A suspension, step by step                                               *)
LEMMA StatusPast ==
  ASSUME NEW m, m.kind = "status", m.step \in 1..5
  PROVE  /\ m.step = 1 => Past(m) = {} /\ Stage(m) = "admin"
         /\ m.step = 2 => Past(m) = {"admin"} /\ Stage(m) = "account"
         /\ m.step = 3 => Past(m) = {"admin", "account"} /\ Stage(m) = "sessions"
         /\ m.step = 4 => Past(m) = {"admin", "account", "sessions"} /\ Stage(m) = "audit"
         /\ m.step = 5 => Past(m) = {"admin", "account", "sessions", "audit"} /\ Stage(m) = "write"
<1>1. Plan(m) = <<"admin", "account", "sessions", "audit", "write">>
  BY PlanOf
<1> DEFINE p == <<"admin", "account", "sessions", "audit", "write">>
<1>2. Past(m) = {p[i] : i \in 1..(m.step - 1)} /\ Stage(m) = p[m.step]
  BY <1>1 DEF Past, Stage
<1> QED
  BY <1>2

(* An advance adds the stage it was at to the ones behind it, whatever the *)
(* request has decided there. *)
LEMMA PastGrows ==
  ASSUME NEW m, NEW n, m.kind \in Kinds, m.step \in 1..5, Shaped(m), Stage(m) # "write",
         n.kind = m.kind, n.purpose = m.purpose, n.step = m.step + 1, n.outcome = Decide(m),
         m.row \in Credentials
  PROVE  /\ Past(n) = Past(m) \cup {Stage(m)}
         /\ Shaped(n)
         /\ n.step \in 1..5
<1>1. CASE m.kind = "challenge"
  BY <1>1, PlanOf DEF Past, Stage, Shaped, Decide
<1>2. CASE m.kind = "login"
  BY <1>2, PlanOf DEF Past, Stage, Shaped, Decide
<1>3. CASE m.kind = "wrong"
  BY <1>3, PlanOf DEF Past, Stage, Shaped, Decide, AfterWrongCode
<1>4. CASE m.kind = "misconfirm"
  BY <1>4, PlanOf DEF Past, Stage, Shaped, Decide, AfterWrongCode
<1>5. CASE m.kind = "confirm"
  BY <1>5, PlanOf DEF Past, Stage, Shaped, Decide
<1>6. CASE m.kind = "change"
  BY <1>6, PlanOf DEF Past, Stage, Shaped, Decide
<1>7. CASE m.kind = "issue"
  BY <1>7, PlanOf DEF Past, Stage, Shaped, Decide
<1>8. CASE m.kind = "logout"
  BY <1>8, PlanOf DEF Past, Stage, Shaped, Decide
<1>9. CASE m.kind = "revoke_all"
  BY <1>9, PlanOf DEF Past, Stage, Shaped, Decide
<1>10. CASE m.kind = "status"
  BY <1>10, PlanOf DEF Past, Stage, Shaped, Decide
<1> QED
  BY <1>1, <1>2, <1>3, <1>4, <1>5, <1>6, <1>7, <1>8, <1>9, <1>10 DEF Kinds

(* Which stages lie behind a request, by the one it is at *)
LEMMA StageTells ==
  ASSUME NEW m, m.kind \in Kinds, m.step \in 1..5, Shaped(m)
  PROVE  /\ Stage(m) = "admin" => Past(m) = {} /\ m.step = 1 /\ m.kind = "status"
         /\ Stage(m) = "account" =>
              \/ Past(m) = {} /\ m.step = 1 /\ m.kind \in {"challenge", "issue", "revoke_all", "change"}
              \/ Past(m) = {"credential"} /\ m.kind \in {"login", "confirm"}
              \/ Past(m) = {"admin"} /\ m.kind = "status"
         /\ Stage(m) = "credential" =>
              \/ Past(m) = {} /\ m.step = 1 /\ m.kind \in {"login", "wrong", "confirm", "misconfirm"}
              \/ Past(m) = {"account"} /\ m.kind \in {"challenge", "change"}
         /\ Stage(m) = "session" =>
              \/ Past(m) = {} /\ m.step = 1 /\ m.kind = "logout"
              \/ Past(m) = {"credential", "account"} /\ m.kind = "login"
         /\ Stage(m) = "sessions" =>
              \/ Past(m) = {"account"} /\ m.kind = "revoke_all"
              \/ Past(m) = {"admin", "account"} /\ m.kind = "status"
              \/ Past(m) = {"credential", "account"} /\ m.kind = "confirm"
         /\ Stage(m) = "challenges" =>
              Past(m) = {"credential", "account", "sessions"} /\ m.kind = "confirm"
         /\ Stage(m) = "audit" =>
              \/ Past(m) = {"credential"} /\ m.kind \in {"login", "wrong"}
              \/ Past(m) = {"session"} /\ m.kind = "logout"
              \/ Past(m) = {"account", "sessions"} /\ m.kind = "revoke_all"
              \/ Past(m) = {"admin", "account", "sessions"} /\ m.kind = "status"
              \/ Past(m) = {"account", "credential"} /\ m.kind = "change"
         /\ Stage(m) = "write" =>
              CASE m.kind = "challenge" -> Past(m) = {"account", "credential"}
                [] m.kind = "login" ->
                     IF m.outcome = "expired" THEN Past(m) = {"credential", "audit"}
                     ELSE IF m.purpose = "fresh" THEN Past(m) = {"credential", "account", "session"}
                     ELSE Past(m) = {"credential", "account"}
                [] m.kind = "wrong" -> "credential" \in Past(m)
                [] m.kind = "issue" -> Past(m) = {"account"}
                [] m.kind = "logout" -> Past(m) = {"session", "audit"}
                [] m.kind = "revoke_all" -> Past(m) = {"account", "sessions", "audit"}
                [] m.kind = "status" -> Past(m) = {"admin", "account", "sessions", "audit"}
                [] m.kind = "change" -> {"account", "credential"} \subseteq Past(m)
                [] m.kind = "confirm" -> /\ "credential" \in Past(m)
                                         /\ m.outcome = "used" => Past(m) = {"credential", "account", "sessions", "challenges"}
                [] OTHER -> Past(m) = {"credential"}
         /\ Stage(m) \in {"admin", "account", "credential", "session", "sessions", "challenges", "audit", "write"}
<1>1. CASE m.kind = "challenge"
  BY <1>1, PlanOf DEF Past, Stage, Shaped
<1>2. CASE m.kind = "login"
  BY <1>2, PlanOf DEF Past, Stage, Shaped
<1>3. CASE m.kind = "wrong"
  BY <1>3, PlanOf DEF Past, Stage, Shaped
<1>4. CASE m.kind = "issue"
  BY <1>4, PlanOf DEF Past, Stage, Shaped
<1>5. CASE m.kind = "logout"
  BY <1>5, PlanOf DEF Past, Stage, Shaped
<1>6. CASE m.kind = "revoke_all"
  BY <1>6, PlanOf DEF Past, Stage, Shaped
<1>7. CASE m.kind = "status"
  BY <1>7, PlanOf DEF Past, Stage, Shaped
<1>8. CASE m.kind = "change"
  BY <1>8, PlanOf DEF Past, Stage, Shaped
<1>9. CASE m.kind = "confirm"
  BY <1>9, PlanOf DEF Past, Stage, Shaped
<1>10. CASE m.kind = "misconfirm"
  BY <1>10, PlanOf DEF Past, Stage, Shaped
<1> QED
  BY <1>1, <1>2, <1>3, <1>4, <1>5, <1>6, <1>7, <1>8, <1>9, <1>10 DEF Kinds

(* Which stages lie behind a request, by another one that does *)
LEMMA PastTells ==
  ASSUME NEW m, m.kind \in Kinds, m.step \in 1..5, Shaped(m)
  PROVE  /\ m.step = 1 => Past(m) = {}
         /\ "admin" \in Past(m) => m.kind = "status"
         /\ "sessions" \in Past(m) => "account" \in Past(m) /\ m.kind \in {"revoke_all", "status", "confirm"}
         /\ "session" \in Past(m) => \/ m.kind = "logout" /\ Past(m) \subseteq {"session", "audit"}
                                     \/ m.kind = "login" /\ "account" \in Past(m)
         /\ "challenges" \in Past(m) => "account" \in Past(m) /\ m.kind = "confirm"
         /\ m.kind = "logout" => "account" \notin Past(m)
         /\ Past(m) \subseteq {"admin", "account", "credential", "session", "sessions", "challenges", "audit"}
<1>1. CASE m.kind = "challenge"
  BY <1>1, PlanOf DEF Past, Stage, Shaped
<1>2. CASE m.kind = "login"
  BY <1>2, PlanOf DEF Past, Stage, Shaped
<1>3. CASE m.kind = "wrong"
  BY <1>3, PlanOf DEF Past, Stage, Shaped
<1>4. CASE m.kind = "issue"
  BY <1>4, PlanOf DEF Past, Stage, Shaped
<1>5. CASE m.kind = "logout"
  BY <1>5, PlanOf DEF Past, Stage, Shaped
<1>6. CASE m.kind = "revoke_all"
  BY <1>6, PlanOf DEF Past, Stage, Shaped
<1>7. CASE m.kind = "status"
  BY <1>7, PlanOf DEF Past, Stage, Shaped
<1>8. CASE m.kind = "change"
  BY <1>8, PlanOf DEF Past, Stage, Shaped
<1>9. CASE m.kind = "confirm"
  BY <1>9, PlanOf DEF Past, Stage, Shaped
<1>10. CASE m.kind = "misconfirm"
  BY <1>10, PlanOf DEF Past, Stage, Shaped
<1> QED
  BY <1>1, <1>2, <1>3, <1>4, <1>5, <1>6, <1>7, <1>8, <1>9, <1>10 DEF Kinds

-----------------------------------------------------------------------------
(* Types, and what sending a request makes                                 *)

(* Challenges and changes have the type of their rows.                      *)
LEMMA CredentialTypes ==
  /\ NoCredential \in Credentials
  /\ \A e, f \in Addresses \cup {Nobody}, n \in Nat : Pending(e, f, n) \in Credentials
  /\ \A s \in {"none", "pending", "used", "expired", "revoked"} : Closed(s) \in Credentials
<1>1. 0 \in 0..(MaxAttempts - 1)
  BY SessionsAssumption
<1> QED
  BY <1>1 DEF Credentials, NoCredential, Pending, Closed, Expiries

(* No request                                                               *)
LEMMA NoCallType == NoCall \in CallRows /\ NoCall.kind = "none" /\ NoCall.step = 1 /\ NoCall.locks = {}
  BY CredentialTypes DEF NoCall, CallRows, Kinds, Purposes, Expiries

(* Only rows that exist are locked.                                         *)
LEMMA NeedsType ==
  ASSUME NEW m \in CallRows, m.user \in Users
  PROVE  Needs(m) \subseteq Locks
<1>1. CredentialRow(m) \in {ChallengeRow(u, p) : u \in Users, p \in Purposes}
                            \cup {ChangeRow(u) : u \in Users}
  BY DEF CredentialRow, CallRows
<1>2. AccountRow(IF m.actor = Nobody THEN m.user ELSE m.actor) \in {AccountRow(u) : u \in Users}
  BY DEF CallRows
<1>3. AccountMode(m.kind) \in {"nokey", "update"}
  BY DEF AccountMode
<1>4. \A s \in Slots : SessionRow(s) \in {SessionRow(t) : t \in Slots}
  OBVIOUS
<1>5. \A p \in Purposes : ChallengeRow(m.user, p) \in {ChallengeRow(u, q) : u \in Users, q \in Purposes}
  OBVIOUS
<1>6. AccountRow(m.user) \in {AccountRow(u) : u \in Users}
  OBVIOUS
<1>7. Current(m) \subseteq Slots /\ LiveOf(m.user) \subseteq Slots
  BY DEF Current, LiveOf
<1> QED
  BY <1>1, <1>2, <1>3, <1>4, <1>5, <1>6, <1>7 DEF Needs, Lock, Locks

(* What a request decides is an outcome.                                    *)
LEMMA DecideType ==
  ASSUME NEW m \in CallRows
  PROVE  Decide(m) \in {"pending", "used", "expired", "revoked", "refused"}
  BY DEF Decide, AfterWrongCode, CallRows

(* What a request reads is a challenge or a change.                         *)
LEMMA CredentialOfType ==
  ASSUME TypeOK, NEW m \in CallRows, m.user \in Users
  PROVE  CredentialOf(m.kind, m.user, m.purpose) \in Credentials
  BY DEF TypeOK, CredentialOf, CallRows

(* Types hold at first.                                                     *)
LEMMA TypeInit == Init => TypeOK
<1> SUFFICES ASSUME Init PROVE TypeOK
  OBVIOUS
<1>1. challenge \in [Users -> [Purposes -> Credentials]]
  <2>1. FirstChallenges \subseteq Credentials
    BY CredentialTypes DEF FirstChallenges
  <2> QED
    BY <2>1 DEF Init
<1>2. change \in [Users -> Credentials]
  <2>1. FirstChanges \subseteq Credentials
    BY CredentialTypes DEF FirstChanges
  <2> QED
    BY <2>1 DEF Init
<1>3. session \in [Slots -> SessionRows]
  <2>1. FirstSessions \subseteq SessionRows
    <3>1. email \in [Users -> Addresses]
      BY DEF Init
    <3>2. NoSession \in SessionRows
      BY DEF NoSession, SessionRows
    <3>3. \A u \in Holders : [NoSession EXCEPT !.user = u, !.proof = email[u]] \in SessionRows
      BY <3>1, SessionsAssumption DEF NoSession, SessionRows
    <3> QED
      BY <3>2, <3>3 DEF FirstSessions
  <2> QED
    BY <2>1 DEF Init
<1> QED
  BY <1>1, <1>2, <1>3, NoCallType DEF Init, TypeOK

(* A request that has been sent and has done nothing yet *)
Sent(m, at) == /\ m \in CallRows /\ m.kind \in Kinds /\ m.user \in Users
               /\ m.step = 1 /\ m.outcome = "pending" /\ m.locks = {} /\ m.at = at
               /\ m.kind = "change" => m.wanted \in Addresses

(* What a request is made of before it is sent                              *)
Template(r) == r \in CallRows /\ r.step = 1 /\ r.outcome = "pending" /\ r.locks = {}

(* A request that is sent has done nothing yet.                             *)
LEMMA SendMakes ==
  ASSUME TypeOK, NEW c \in Calls, NEW kind \in Kinds, NEW u \in Users, NEW r, Template(r),
         kind = "change" => r.wanted \in Addresses,
         Send(c, kind, u, r)
  PROVE  Sent(call'[c], requests + 1) /\ \A d \in Calls \ {c} : call'[d] = call[d]
<1> DEFINE n == [r EXCEPT !.kind = kind, !.user = u, !.at = requests + 1]
<1>1. call'[c] = n /\ \A d \in Calls \ {c} : call'[d] = call[d]
  BY DEF Send, TypeOK
<1>2. requests + 1 \in Nat
  BY DEF TypeOK
<1>3. n \in CallRows /\ n.kind = kind /\ n.user = u /\ n.at = requests + 1 /\ n.step = 1
      /\ n.outcome = "pending" /\ n.locks = {} /\ n.wanted = r.wanted
  BY <1>2 DEF CallRows, Template
<1> HIDE DEF n
<1> QED
  BY <1>1, <1>3 DEF Sent

(* Requests are made of nothing, or of a credential.                        *)
LEMMA Templates ==
  /\ Template(NoCall)
  /\ \A r \in Credentials : Template(About(r))
<1>1. NoCall \in CallRows /\ NoCall.step = 1 /\ NoCall.outcome = "pending" /\ NoCall.locks = {}
  BY NoCallType DEF NoCall
<1>2. ASSUME NEW r \in Credentials PROVE Template(About(r))
  <2>1. r.created \in Nat /\ r.expiry \in Expiries
    BY DEF Credentials
  <2> DEFINE n == [NoCall EXCEPT !.no = r.created, !.expiry = r.expiry]
  <2>2. n \in CallRows /\ n.step = 1 /\ n.outcome = "pending" /\ n.locks = {}
    BY <1>1, <2>1 DEF CallRows
  <2> QED
    BY <2>2 DEF About, Template
<1> QED
  BY <1>1, <1>2 DEF Template

(* Sending changes no row and no other request.                             *)
LEMMA SendDoes ==
  ASSUME TypeOK, NEW c \in Calls, SendNext(c)
  PROVE  /\ UNCHANGED rows /\ requests' = requests + 1
         /\ Sent(call'[c], requests + 1)
         /\ \A d \in Calls \ {c} : call'[d] = call[d]
<1> DEFINE Goal == /\ UNCHANGED rows /\ requests' = requests + 1
                   /\ Sent(call'[c], requests + 1)
                   /\ \A d \in Calls \ {c} : call'[d] = call[d]
<1>0. ASSUME NEW kind \in Kinds, NEW u \in Users, NEW r, Template(r),
             kind = "change" => r.wanted \in Addresses,
         Send(c, kind, u, r)
      PROVE  Goal
  BY <1>0, SendMakes DEF Send
<1> HIDE DEF Goal
<1>1. ASSUME NEW u \in Users, NEW p \in Purposes, RequestLogin(c, u, p) PROVE Goal
  <2> DEFINE a == About(challenge[u][p])
             r == [a EXCEPT !.purpose = p, !.address = email[u]]
  <2>1. Template(a) /\ email[u] \in Addresses
    BY Templates DEF TypeOK
  <2> HIDE DEF a
  <2>2. Template(r)
    BY <2>1 DEF Template, CallRows
  <2>3. Send(c, "challenge", u, r)
    BY <1>1 DEF RequestLogin, a
  <2> QED
    BY <1>0, <2>2, <2>3 DEF Kinds
<1>2. ASSUME NEW u \in Users, NEW p \in Purposes, NEW s \in Slots \cup {Nobody}, EnterCode(c, u, p, s)
      PROVE  Goal
  <2> DEFINE a == About(challenge[u][p])
             t == IF s = Nobody THEN 0 ELSE session[s].token
             r == [a EXCEPT !.purpose = p, !.slot = s, !.token = t]
  <2>1. Template(a) /\ t \in Nat
    BY Templates DEF TypeOK, SessionRows
  <2> HIDE DEF a, t
  <2>2. Template(r)
    BY <2>1 DEF Template, CallRows
  <2>3. Send(c, "login", u, r)
    BY <1>2 DEF EnterCode, a, t
  <2> QED
    BY <1>0, <2>2, <2>3 DEF Kinds
<1>3. ASSUME NEW u \in Users, NEW p \in Purposes, EnterWrongCode(c, u, p) PROVE Goal
  <2> DEFINE a == About(challenge[u][p])
             r == [a EXCEPT !.purpose = p]
  <2>1. Template(a)
    BY Templates DEF TypeOK
  <2> HIDE DEF a
  <2>2. Template(r)
    BY <2>1 DEF Template, CallRows
  <2>3. Send(c, "wrong", u, r)
    BY <1>3 DEF EnterWrongCode, a
  <2> QED
    BY <1>0, <2>2, <2>3 DEF Kinds
<1>4. ASSUME NEW u \in Users, FinishAcceptance(c, u) PROVE Goal
  BY <1>0, <1>4, Templates DEF FinishAcceptance, Kinds
<1>5. ASSUME NEW u \in Users, ConfirmChange(c, u) PROVE Goal
  BY <1>0, <1>5, Templates DEF ConfirmChange, Kinds, TypeOK
<1>6. ASSUME NEW u \in Users, MistypeChange(c, u) PROVE Goal
  BY <1>0, <1>6, Templates DEF MistypeChange, Kinds, TypeOK
<1>7. ASSUME NEW s \in Slots, Logout(c, s) PROVE Goal
  <2> DEFINE r == [NoCall EXCEPT !.slot = s, !.token = session[s].token]
  <2>1. session[s].user \in Users /\ session[s].token \in Nat
    BY <1>7 DEF Logout, Live, TypeOK, SessionRows
  <2>2. Template(r)
    BY <2>1, Templates DEF Template, CallRows
  <2>3. Send(c, "logout", session[s].user, r)
    BY <1>7 DEF Logout
  <2> QED
    BY <1>0, <2>1, <2>2, <2>3 DEF Kinds
<1>8. ASSUME NEW a \in Users, NEW u \in Users, RevokeAll(c, a, u) PROVE Goal
  <2> DEFINE r == [NoCall EXCEPT !.actor = a]
  <2>1. Template(r)
    BY Templates DEF Template, CallRows
  <2> QED
    BY <1>0, <1>8, <2>1 DEF RevokeAll, Kinds
<1>9. ASSUME NEW a \in Users, NEW u \in Users, NEW to \in {"active", "suspended"}, ChangeStatus(c, a, u, to)
      PROVE  Goal
  <2> DEFINE r == [NoCall EXCEPT !.actor = a, !.to = to]
  <2>1. Template(r) /\ r.actor = a
    BY Templates DEF Template, CallRows
  <2>2. Send(c, "status", u, r) /\ a # u
    BY <1>9 DEF ChangeStatus
  <2> HIDE DEF r
  <2> QED
    BY <1>0, <2>1, <2>2 DEF Kinds
<1>10. ASSUME NEW a \in Users, NEW u \in Users, NEW e \in Addresses, RequestChange(c, a, u, e) PROVE Goal
  <2> DEFINE b == About(change[u])
             r == [b EXCEPT !.actor = a, !.address = email[u], !.wanted = e]
  <2>1. Template(b) /\ email[u] \in Addresses
    BY Templates DEF TypeOK
  <2> HIDE DEF b
  <2>2. Template(r) /\ r.wanted = e
    BY <2>1 DEF Template, CallRows
  <2>3. Send(c, "change", u, r)
    BY <1>10 DEF RequestChange, b
  <2> QED
    BY <1>0, <2>2, <2>3 DEF Kinds
<1> QED
  BY <1>1, <1>2, <1>3, <1>4, <1>5, <1>6, <1>7, <1>8, <1>9, <1>10 DEF SendNext, Goal

-----------------------------------------------------------------------------
(* An advance locks what the stage needs                                   *)

(* What an advance that passes makes of a request m *)
Advanced(m, n) ==
  /\ n \in CallRows
  /\ n.kind = m.kind /\ n.user = m.user /\ n.actor = m.actor /\ n.purpose = m.purpose
  /\ n.slot = m.slot /\ n.token = m.token /\ n.address = m.address /\ n.wanted = m.wanted /\ n.at = m.at
  /\ n.step = m.step + 1
  /\ n.locks = m.locks \cup Needs(m)
  /\ n.row = IF Stage(m) = "credential" THEN CredentialOf(m.kind, m.user, m.purpose) ELSE m.row
  /\ n.outcome = Decide(m)
  /\ Past(n) = Past(m) \cup {Stage(m)}
  /\ Shaped(n)

(* An advance waits for no one, and changes the request alone.              *)
LEMMA AdvanceDoes ==
  ASSUME TypeOK, NEW c \in Calls, Shaped(call[c]), Advance(c)
  PROVE  /\ UNCHANGED rows /\ requests' = requests
         /\ call[c].kind \in Kinds /\ call[c].user \in Users
         /\ Stage(call[c]) # "write"
         /\ \A d \in Calls : ~Waits(c, d)
         /\ \A d \in Calls \ {c} : call'[d] = call[d]
         /\ call'[c] = NoCall \/ (Passes(call[c]) /\ Advanced(call[c], call'[c]))
<1> DEFINE m == call[c]
           held == m.locks \cup Needs(m)
           row == IF Stage(m) = "credential" THEN CredentialOf(m.kind, m.user, m.purpose) ELSE m.row
           outcome == Decide(m)
           n == [m EXCEPT !.step = m.step + 1, !.locks = held, !.row = row, !.outcome = outcome]
<1>1. m \in CallRows /\ m.step \in 1..5 /\ m.row \in Credentials
  BY DEF TypeOK, CallRows
<1>2. m.kind \in Kinds
  <2>1. m.kind = "none" => Stage(m) = "idle"
    BY <1>1, PlanOf DEF Shaped, Stage
  <2> QED
    BY <1>1, <2>1 DEF Advance, CallRows
<1>3. m.user \in Users
  BY <1>2 DEF TypeOK, Kinds
<1>4. /\ call' = [call EXCEPT ![c] = IF ~Passes(m) THEN NoCall ELSE n]
      /\ UNCHANGED rows /\ requests' = requests /\ Stage(m) # "write"
      /\ \A d \in Calls : ~Waits(c, d)
  BY DEF Advance
<1>5. held \subseteq Locks
  BY <1>1, <1>3, NeedsType DEF CallRows
<1>6. row \in Credentials
  BY <1>1, <1>3, CredentialOfType
<1>7. outcome \in {"pending", "used", "expired", "revoked", "refused"}
  BY <1>1, DecideType
<1>8. Shaped(m)
  OBVIOUS
<1> HIDE DEF held, row, outcome
<1>9. /\ n.kind = m.kind /\ n.user = m.user /\ n.actor = m.actor /\ n.purpose = m.purpose
      /\ n.slot = m.slot /\ n.token = m.token /\ n.address = m.address /\ n.wanted = m.wanted /\ n.at = m.at
      /\ n.step = m.step + 1 /\ n.locks = held /\ n.row = row /\ n.outcome = outcome
  BY <1>1 DEF CallRows
<1>10. m.step + 1 \in 1..5 => n \in CallRows
  BY <1>1, <1>5, <1>6, <1>7 DEF CallRows
<1>11. call'[c] = (IF ~Passes(m) THEN NoCall ELSE n) /\ \A d \in Calls \ {c} : call'[d] = call[d]
  BY <1>4 DEF TypeOK
<1> HIDE DEF n, m
<1>12. Past(n) = Past(m) \cup {Stage(m)} /\ Shaped(n) /\ n.step \in 1..5
  BY <1>1, <1>2, <1>4, <1>8, <1>9, PastGrows DEF outcome
<1>13. Advanced(m, n)
  BY <1>9, <1>10, <1>12 DEF Advanced, held, row, outcome
<1>14. call'[c] = NoCall \/ (Passes(m) /\ Advanced(m, call'[c]))
  BY <1>11, <1>13
<1> QED
  BY <1>2, <1>3, <1>4, <1>11, <1>14 DEF m

-----------------------------------------------------------------------------
(* A write and the rows it writes                                          *)

(* What a request has locked, and what it leaves to others                  *)
AccountLocked(c, u) == Lock(AccountRow(u), AccountMode(call[c].kind)) \in call[c].locks
AccountKept(u) == /\ account'[u] = account[u] /\ email'[u] = email[u]
                  /\ \A s \in Slots : session'[s].user = u => session[s].user = u
Locked(c, r) == Lock(r, "update") \in call[c].locks

(* A row is written only by a transaction that holds its lock; no session   *)
(* is opened for an account without the account's.                          *)
Frame(c) ==
  /\ requests' = requests
  /\ call[c].kind \in Kinds /\ Stage(call[c]) = "write"
  /\ call'[c] = NoCall /\ \A d \in Calls \ {c} : call'[d] = call[d]
  /\ \A u \in Users : AccountLocked(c, u) \/ AccountKept(u)
  /\ \A u \in Users, p \in Purposes : Locked(c, ChallengeRow(u, p)) \/ challenge'[u][p] = challenge[u][p]
  /\ \A u \in Users : Locked(c, ChangeRow(u)) \/ change'[u] = change[u]
  /\ \A s \in Slots : Live(s) => Locked(c, SessionRow(s)) \/ session'[s].user = session[s].user

(* What a transaction that writes holds *)
LEMMA WriterHolds ==
  ASSUME LockInv, NEW c \in Calls, NEW kind \in Kinds, Writes(c, kind)
  PROVE  /\ call[c].kind = kind /\ Stage(call[c]) = "write"
         /\ call[c].user \in Users /\ call[c].purpose \in Purposes
         /\ call[c].row \in Credentials /\ call[c].address \in Addresses \cup {Nobody} /\ call[c].at \in Nat
         /\ call'[c] = NoCall /\ \A d \in Calls \ {c} : call'[d] = call[d]
         /\ kind \in {"challenge", "login", "wrong"} => Locked(c, ChallengeRow(call[c].user, call[c].purpose))
         /\ kind \in {"change", "confirm", "misconfirm"} => Locked(c, ChangeRow(call[c].user))
         /\ kind \in {"challenge", "issue", "revoke_all", "status", "change"} => AccountLocked(c, call[c].user)
         /\ kind \in {"login", "confirm"} /\ call[c].outcome = "used" => AccountLocked(c, call[c].user)
         /\ kind = "logout" \/ (kind = "login" /\ call[c].outcome = "used" /\ call[c].purpose = "fresh") =>
              /\ Locked(c, SessionRow(call[c].slot))
              /\ call[c].slot \in LiveOf(call[c].user)
         /\ kind \in {"revoke_all", "status"} \/ (kind = "confirm" /\ call[c].outcome = "used") =>
              \A s \in LiveOf(call[c].user) : Locked(c, SessionRow(s))
         /\ kind = "confirm" /\ call[c].outcome = "used" =>
              \A p \in Purposes : Locked(c, ChallengeRow(call[c].user, p))
<1> DEFINE m == call[c]
<1>1. m \in CallRows /\ m.kind = kind /\ m.step \in 1..5 /\ Shaped(m) /\ Held(m) /\ Explained(m) /\ Stage(m) = "write"
  BY DEF LockInv, TypeOK, CallRows, Writes
<1>2. m.user \in Users
  BY <1>1 DEF LockInv, TypeOK, Kinds
<1>3. call'[c] = NoCall /\ \A d \in Calls \ {c} : call'[d] = call[d]
  BY DEF Writes, Ends, LockInv, TypeOK
<1>4. kind \in {"challenge", "login", "wrong", "change", "confirm", "misconfirm"} => "credential" \in Past(m)
  BY <1>1, StageTells
<1>5. kind \in {"challenge", "issue", "revoke_all", "status", "change"} \/ (kind \in {"login", "confirm"} /\ m.outcome = "used")
        => "account" \in Past(m)
  BY <1>1, StageTells
<1>6. kind = "logout" \/ (kind = "login" /\ m.outcome = "used" /\ m.purpose = "fresh") => "session" \in Past(m)
  BY <1>1, StageTells
<1>7. kind \in {"revoke_all", "status"} \/ (kind = "confirm" /\ m.outcome = "used") => "sessions" \in Past(m)
  BY <1>1, StageTells
<1>8. kind = "confirm" /\ m.outcome = "used" => "challenges" \in Past(m)
  BY <1>1, StageTells
<1>9. "session" \in Past(m) => m.slot \in LiveOf(m.user)
  BY <1>1, <1>2 DEF Held, Explained, Lock, AdminRow, AccountRow, SessionRow, ChallengeRow, ChangeRow, CredentialRow
<1> QED
  BY <1>1, <1>2, <1>3, <1>4, <1>5, <1>6, <1>7, <1>8, <1>9
     DEF Held, AccountLocked, Locked, CredentialRow, ByLogin, CallRows

(* Every write stays within its locks.                                      *)
LEMMA WriteFrame == ASSUME LockInv, NEW c \in Calls, WriteNext(c) PROVE Frame(c)
<1> DEFINE m == call[c]
<1>0. account \in [Users -> {"active", "suspended"}] /\ email \in [Users -> Addresses]
      /\ challenge \in [Users -> [Purposes -> Credentials]] /\ change \in [Users -> Credentials]
      /\ session \in [Slots -> SessionRows]
  BY DEF LockInv, TypeOK
<1>1. ASSUME create_challenge(c) PROVE Frame(c)
  <2>1. Writes(c, "challenge")
    BY <1>1 DEF create_challenge
  <2> QED
    BY <1>0, <1>1, <2>1, WriterHolds, SessionsAssumption
    DEF create_challenge, Frame, AccountKept, Kinds, Live, LiveOf, SessionRows
<1>2. ASSUME complete_login(c) PROVE Frame(c)
  <2>1. Writes(c, "login") /\ m.outcome = "used"
    BY <1>2 DEF complete_login
  <2>2. /\ m.kind = "login" /\ Stage(m) = "write" /\ m.user \in Users /\ m.purpose \in Purposes
        /\ call'[c] = NoCall /\ \A d \in Calls \ {c} : call'[d] = call[d]
        /\ Locked(c, ChallengeRow(m.user, m.purpose)) /\ AccountLocked(c, m.user)
        /\ m.purpose = "fresh" => Locked(c, SessionRow(m.slot)) /\ m.slot \in LiveOf(m.user)
    BY <2>1, WriterHolds DEF Kinds
  <2>3. /\ challenge' = [challenge EXCEPT ![m.user][m.purpose] = Closed("used")]
        /\ UNCHANGED <<account, email, change, requests>>
    BY <1>2 DEF complete_login
  <2>4. PICK s \in Slots : /\ ~Live(s) \/ session[s].user = m.user
                           /\ \A t \in Slots \ {s} : session'[t] = session[t]
                           /\ session'[s].user = m.user
    <3>1. CASE m.purpose = "login"
      <4>1. PICK s \in Slots : ~Live(s) /\ NewSession(m, s, m.row.address)
        BY <1>2, <3>1 DEF complete_login
      <4> QED
        BY <1>0, <4>1 DEF NewSession
    <3>2. CASE m.purpose = "fresh"
      <4>1. /\ session' = [session EXCEPT ![m.slot] =
                             [session[m.slot] EXCEPT !.token = m.at, !.proof = m.row.address]]
            /\ m.slot \in Slots /\ session[m.slot].user = m.user
        BY <1>2, <2>2, <3>2 DEF complete_login, LiveOf
      <4> QED
        BY <1>0, <4>1 DEF SessionRows
    <3> QED
      BY <2>2, <3>1, <3>2 DEF Purposes
  <2> QED
    BY <1>0, <2>2, <2>3, <2>4 DEF Frame, AccountKept, Kinds, Live
<1>3. ASSUME _expire_challenge(c) PROVE Frame(c)
  <2>1. Writes(c, "login") \/ Writes(c, "wrong")
    BY <1>3 DEF _expire_challenge
  <2> QED
    BY <1>0, <1>3, <2>1, WriterHolds, SessionsAssumption
    DEF _expire_challenge, Frame, AccountKept, Kinds, Live, LiveOf, SessionRows
<1>4. ASSUME _record_invalid_code(c) PROVE Frame(c)
  <2>1. Writes(c, "wrong")
    BY <1>4 DEF _record_invalid_code
  <2> QED
    BY <1>0, <1>4, <2>1, WriterHolds, SessionsAssumption
    DEF _record_invalid_code, Frame, AccountKept, Kinds, Live, LiveOf, SessionRows
<1>5. ASSUME issue_session(c) PROVE Frame(c)
  <2>1. Writes(c, "issue")
    BY <1>5 DEF issue_session
  <2> QED
    BY <1>0, <1>5, <2>1, WriterHolds, SessionsAssumption
    DEF issue_session, Frame, AccountKept, Kinds, Live, LiveOf, SessionRows, NewSession
<1>6. ASSUME revoke_session(c) PROVE Frame(c)
  <2>1. Writes(c, "logout")
    BY <1>6 DEF revoke_session
  <2> QED
    BY <1>0, <1>6, <2>1, WriterHolds, SessionsAssumption
    DEF revoke_session, Frame, AccountKept, Kinds, Live, LiveOf, SessionRows, Revoked, NoSession
<1>7. ASSUME revoke_user_sessions(c) PROVE Frame(c)
  <2>1. Writes(c, "revoke_all")
    BY <1>7 DEF revoke_user_sessions
  <2> QED
    BY <1>0, <1>7, <2>1, WriterHolds, SessionsAssumption
    DEF revoke_user_sessions, Frame, AccountKept, Kinds, Live, LiveOf, SessionRows, Revoked, NoSession
<1>8. ASSUME transition_account_status(c) PROVE Frame(c)
  <2>1. Writes(c, "status")
    BY <1>8 DEF transition_account_status
  <2> QED
    BY <1>0, <1>8, <2>1, WriterHolds, SessionsAssumption
    DEF transition_account_status, Frame, AccountKept, Kinds, Live, LiveOf, SessionRows, Revoked, NoSession
<1>9. ASSUME create_change(c) PROVE Frame(c)
  <2>1. Writes(c, "change")
    BY <1>9 DEF create_change
  <2> QED
    BY <1>0, <1>9, <2>1, WriterHolds, SessionsAssumption
    DEF create_change, Frame, AccountKept, Kinds, Live, LiveOf, SessionRows
<1>10. ASSUME confirm(c) PROVE Frame(c)
  <2>1. Writes(c, "confirm")
    BY <1>10 DEF confirm
  <2> QED
    BY <1>0, <1>10, <2>1, WriterHolds, SessionsAssumption
    DEF confirm, Frame, AccountKept, Kinds, Live, LiveOf, SessionRows, Revoked, NoSession
<1>11. ASSUME confirm_refused(c) PROVE Frame(c)
  <2>1. Writes(c, "confirm")
    BY <1>11 DEF confirm_refused
  <2> QED
    BY <1>0, <1>11, <2>1, WriterHolds, SessionsAssumption
    DEF confirm_refused, Frame, AccountKept, Kinds, Live, LiveOf, SessionRows
<1>12. ASSUME _failed_code(c) PROVE Frame(c)
  <2>1. Writes(c, "misconfirm")
    BY <1>12 DEF _failed_code
  <2> QED
    BY <1>0, <1>12, <2>1, WriterHolds, SessionsAssumption
    DEF _failed_code, Frame, AccountKept, Kinds, Live, LiveOf, SessionRows
<1> QED
  BY <1>1, <1>2, <1>3, <1>4, <1>5, <1>6, <1>7, <1>8, <1>9, <1>10, <1>11, <1>12 DEF WriteNext

(* A counter is written while it may still grow. *)
LEMMA CountedType ==
  ASSUME NEW m \in CallRows, NEW r \in Credentials,
         m.outcome \in {"pending", "revoked", "expired"},
         m.outcome = "pending" => r.attempts = m.row.attempts /\ m.row.attempts + 1 < MaxAttempts,
         r.guesses = r.attempts
  PROVE  /\ Counted(m, r) \in Credentials
         /\ Counted(m, r).guesses = Counted(m, r).attempts
         /\ Counted(m, r).status = "pending" => r.status = "pending" /\ Counted(m, r).address = r.address /\ Counted(m, r).wanted = r.wanted
<1>1. CASE m.outcome # "pending"
  <2>1. Closed(m.outcome).guesses = Closed(m.outcome).attempts /\ Closed(m.outcome).status = m.outcome
    BY DEF Closed, NoCredential
  <2> QED
    BY <1>1, <2>1, CredentialTypes DEF Counted
<1>2. CASE m.outcome = "pending"
  <2>1. m.row.attempts + 1 \in 0..(MaxAttempts - 1) /\ r.guesses + 1 \in Nat
    BY <1>2, SessionsAssumption DEF CallRows, Credentials
  <2> QED
    BY <1>2, <2>1 DEF Counted, Credentials
<1> QED
  BY <1>1, <1>2

(* A transaction that writes still knows what it saw. *)
LEMMA WriterKnows ==
  ASSUME KnownInv, NEW c \in Calls, NEW kind \in Kinds, Writes(c, kind)
  PROVE  /\ kind = "login" /\ call[c].outcome = "used" =>
              account[call[c].user] = "active" /\ email[call[c].user] = call[c].row.address
         /\ kind = "login" => challenge[call[c].user][call[c].purpose].status = "pending"
         /\ kind \in {"challenge", "change"} => email[call[c].user] = call[c].address
         /\ kind = "issue" => account[call[c].user] = "active"
         /\ kind \in {"wrong", "misconfirm"} =>
              /\ call[c].outcome \in {"pending", "revoked", "expired"}
              /\ call[c].outcome = "pending" =>
                   /\ CredentialOf(kind, call[c].user, call[c].purpose).attempts = call[c].row.attempts
                   /\ call[c].row.attempts + 1 < MaxAttempts
         /\ kind = "change" => call[c].wanted \in Addresses
         /\ kind = "confirm" => call[c].row.wanted \in Addresses
<1> DEFINE m == call[c]
<1>1. m \in CallRows /\ m.kind = kind /\ m.step \in 1..5 /\ Shaped(m) /\ Stage(m) = "write"
      /\ AccountKnown(m) /\ CredentialKnown(m)
  BY DEF KnownInv, LockInv, TypeOK, CallRows, Writes
<1>2. /\ kind \in {"challenge", "login", "wrong", "change", "confirm", "misconfirm"} => "credential" \in Past(m)
      /\ kind \in {"challenge", "issue", "change"} \/ (kind = "login" /\ m.outcome = "used") => "account" \in Past(m)
  BY <1>1, StageTells
<1>3. kind \in {"wrong", "misconfirm"} => m.outcome \in {"pending", "revoked", "expired"}
  BY <1>1 DEF Shaped
<1>4. kind = "change" => m.wanted \in Addresses
  BY <1>1 DEF KnownInv, WantedIsAddress
<1> HIDE DEF m
<1> QED
  BY <1>1, <1>2, <1>3, <1>4 DEF AccountKnown, CredentialKnown, m

(* Rows whose columns agree                                                 *)
Challenges == {r \in Credentials : r.guesses = r.attempts}
Changes == {r \in Challenges : r.status = "pending" => r.wanted \in Addresses}
SessionsBy(n) == {r \in SessionRows : r.created <= n}

(* What the rows keep, whoever writes them *)
RowsSound == /\ account \in [Users -> {"active", "suspended"}] /\ email \in [Users -> Addresses]
             /\ challenge \in [Users -> [Purposes -> Challenges]] /\ change \in [Users -> Changes]
             /\ session \in [Slots -> SessionsBy(requests)]

(* The invariant says so of every row.                                      *)
LEMMA RowsAreSound == ASSUME KnownInv PROVE RowsSound
  BY DEF RowsSound, KnownInv, LockInv, TypeOK, CountersAgree, WantedIsAddress, Clock, Challenges, Changes, SessionsBy

(* So are the rows that a write makes,                                      *)
LEMMA SoundRows ==
  /\ \A e, f \in Addresses \cup {Nobody}, n \in Nat : Pending(e, f, n) \in Challenges
  /\ \A e \in Addresses \cup {Nobody}, f \in Addresses, n \in Nat : Pending(e, f, n) \in Changes
  /\ \A s \in {"used", "expired", "revoked"} : Closed(s) \in Challenges /\ Closed(s) \in Changes
  /\ requests \in Nat => NoSession \in SessionsBy(requests)
<1>1. \A e, f, n : /\ Pending(e, f, n).guesses = Pending(e, f, n).attempts
                   /\ Pending(e, f, n).wanted = f
  BY DEF Pending, NoCredential
<1>2. \A s : Closed(s).guesses = Closed(s).attempts /\ Closed(s).status = s
  BY DEF Closed, NoCredential
<1>3. Addresses \subseteq Addresses \cup {Nobody}
  OBVIOUS
<1>4. requests \in Nat => NoSession \in SessionsBy(requests)
  BY DEF NoSession, SessionsBy, SessionRows
<1> QED
  BY <1>1, <1>2, <1>3, <1>4, CredentialTypes DEF Challenges, Changes

(* and the sessions it opens, renews or revokes.                            *)
LEMMA SoundSessions ==
  ASSUME RowsSound, requests \in Nat, NEW m \in CallRows, m.user \in Users, m.at <= requests
  PROVE  /\ \A gone : Revoked(gone) \in [Slots -> SessionsBy(requests)]
         /\ \A s \in Slots, proof \in Addresses \cup {Nobody} :
              NewSession(m, s, proof) => session' \in [Slots -> SessionsBy(requests)]
         /\ \A s \in Slots, proof \in Addresses \cup {Nobody} :
              [session[s] EXCEPT !.token = m.at, !.proof = proof] \in SessionsBy(requests)
<1>1. NoSession \in SessionsBy(requests)
  BY SoundRows
<1>2. ASSUME NEW s \in Slots, NEW proof \in Addresses \cup {Nobody}
      PROVE  /\ [user |-> m.user, token |-> m.at, created |-> m.at, proof |-> proof] \in SessionsBy(requests)
             /\ [session[s] EXCEPT !.token = m.at, !.proof = proof] \in SessionsBy(requests)
  <2>1. m.at \in Nat /\ session[s] \in SessionRows /\ session[s].created <= requests
    BY DEF SessionsBy, CallRows, RowsSound
  <2> DEFINE r == [session[s] EXCEPT !.token = m.at, !.proof = proof]
  <2>2. r \in SessionRows /\ r.created = session[s].created
    BY <2>1 DEF SessionRows
  <2>3. [user |-> m.user, token |-> m.at, created |-> m.at, proof |-> proof] \in SessionsBy(requests)
    BY <2>1 DEF SessionsBy, SessionRows
  <2> QED
    BY <2>1, <2>2, <2>3 DEF SessionsBy
<1> QED
  BY <1>1, <1>2 DEF Revoked, NewSession, RowsSound

(* Every write keeps them so.                                               *)
LEMMA WritesSound == ASSUME KnownInv, NEW c \in Calls, WriteNext(c) PROVE RowsSound'
<1> DEFINE m == call[c]
<1>0. /\ RowsSound /\ requests \in Nat /\ m \in CallRows /\ m.user \in Users /\ m.at <= requests
      /\ requests' = requests
      /\ m.purpose \in Purposes /\ m.address \in Addresses \cup {Nobody} /\ m.at \in Nat
      /\ m.wanted \in Addresses \cup {Nobody}
      /\ m.row.address \in Addresses \cup {Nobody} /\ m.to \in {"active", "suspended"}
  <2>1. RowsSound /\ requests \in Nat /\ m \in CallRows /\ m.at <= requests /\ requests' = requests
        /\ m.kind \in Kinds
    BY RowsAreSound, WriteFrame DEF KnownInv, LockInv, TypeOK, Clock, Frame
  <2>2. m.user \in Users
    BY <2>1 DEF KnownInv, LockInv, TypeOK, Kinds
  <2> QED
    BY <2>1, <2>2 DEF CallRows, Credentials
<1>1. ASSUME create_challenge(c) PROVE RowsSound'
  <2>1. Writes(c, "challenge")
    BY <1>1 DEF create_challenge
  <2>2. Pending(m.address, Nobody, m.at) \in Challenges
    BY <1>0, SoundRows
  <2> QED
    BY <1>0, <1>1, <2>2 DEF create_challenge, RowsSound
<1>2. ASSUME complete_login(c) PROVE RowsSound'
  <2>1. Writes(c, "login") /\ m.outcome = "used"
    BY <1>2 DEF complete_login
  <2>2. session' \in [Slots -> SessionsBy(requests)]
    <3>1. CASE m.purpose = "login"
      BY <1>0, <1>2, <3>1, SoundSessions DEF complete_login
    <3>2. CASE m.purpose = "fresh"
      <4>1. m.slot \in Slots
        BY <2>1, <3>2, WriterHolds DEF Kinds, LiveOf, KnownInv
      <4>2. session' = [session EXCEPT ![m.slot] =
                          [session[m.slot] EXCEPT !.token = m.at, !.proof = m.row.address]]
        BY <1>2, <3>2 DEF complete_login
      <4>3. [session[m.slot] EXCEPT !.token = m.at, !.proof = m.row.address] \in SessionsBy(requests)
        BY <1>0, <4>1, SoundSessions
      <4> QED
        BY <1>0, <4>2, <4>3 DEF RowsSound
    <3> QED
      BY <1>0, <3>1, <3>2 DEF Purposes
  <2>3. challenge' \in [Users -> [Purposes -> Challenges]]
    BY <1>0, <1>2, SoundRows DEF complete_login, RowsSound
  <2> QED
    BY <1>0, <1>2, <2>2, <2>3 DEF complete_login, RowsSound
<1>3. ASSUME _expire_challenge(c) PROVE RowsSound'
  <2>1. Writes(c, "login") \/ Writes(c, "wrong")
    BY <1>3 DEF _expire_challenge
  <2>2. Closed("expired") \in Challenges
    BY <1>0, SoundRows
  <2> QED
    BY <1>0, <1>3, <2>2 DEF _expire_challenge, RowsSound
<1>4. ASSUME _record_invalid_code(c) PROVE RowsSound'
  <2>1. Writes(c, "wrong") /\ m.outcome # "expired"
    BY <1>4 DEF _record_invalid_code
  <2>2. challenge[m.user][m.purpose] \in Challenges /\ CredentialOf(m.kind, m.user, m.purpose) = challenge[m.user][m.purpose]
    BY <1>0, <2>1 DEF RowsSound, CredentialOf, ByLogin, Writes, Changes
  <2>3. /\ m.outcome \in {"pending", "revoked", "expired"}
        /\ m.outcome = "pending" => challenge[m.user][m.purpose].attempts = m.row.attempts /\ m.row.attempts + 1 < MaxAttempts
    BY <2>1, <2>2, WriterKnows DEF Kinds, Writes
  <2>4. Counted(m, challenge[m.user][m.purpose]) \in Challenges
    BY <1>0, <2>2, <2>3, CountedType DEF Challenges
  <2> QED
    BY <1>0, <1>4, <2>4 DEF _record_invalid_code, RowsSound
<1>5. ASSUME issue_session(c) PROVE RowsSound'
  <2>1. Writes(c, "issue")
    BY <1>5 DEF issue_session
  <2>2. email[m.user] \in Addresses \cup {Nobody}
    BY <1>0 DEF RowsSound
  <2> QED
    BY <1>0, <1>5, <2>2, SoundSessions DEF issue_session, RowsSound
<1>6. ASSUME revoke_session(c) PROVE RowsSound'
  <2>1. Writes(c, "logout")
    BY <1>6 DEF revoke_session
  <2>2. Revoked({m.slot}) \in [Slots -> SessionsBy(requests)]
    BY <1>0, SoundSessions
  <2> QED
    BY <1>0, <1>6, <2>2 DEF revoke_session, RowsSound
<1>7. ASSUME revoke_user_sessions(c) PROVE RowsSound'
  <2>1. Writes(c, "revoke_all")
    BY <1>7 DEF revoke_user_sessions
  <2>2. Revoked(LiveOf(m.user)) \in [Slots -> SessionsBy(requests)]
    BY <1>0, SoundSessions
  <2> QED
    BY <1>0, <1>7, <2>2 DEF revoke_user_sessions, RowsSound
<1>8. ASSUME transition_account_status(c) PROVE RowsSound'
  <2>1. Writes(c, "status")
    BY <1>8 DEF transition_account_status
  <2>2. Revoked(LiveOf(m.user)) \in [Slots -> SessionsBy(requests)]
    BY <1>0, SoundSessions
  <2> QED
    BY <1>0, <1>8, <2>2 DEF transition_account_status, RowsSound
<1>9. ASSUME create_change(c) PROVE RowsSound'
  <2>1. Writes(c, "change")
    BY <1>9 DEF create_change
  <2>2. m.wanted \in Addresses
    BY <2>1, WriterKnows DEF Kinds
  <2>3. change'[m.user] \in Changes /\ \A u \in Users \ {m.user} : change'[u] = change[u]
    BY <1>0, <1>9, <2>2, SoundRows DEF create_change, RowsSound
  <2> QED
    BY <1>0, <1>9, <2>3 DEF create_change, RowsSound
<1>10. ASSUME confirm(c) PROVE RowsSound'
  <2>1. Writes(c, "confirm") /\ m.outcome = "used"
    BY <1>10 DEF confirm
  <2>2. m.row.wanted \in Addresses
    BY <2>1, WriterKnows DEF Kinds
  <2>3. RevokedChallenges(m.user) \in [Purposes -> Challenges]
    BY <1>0, SoundRows DEF RevokedChallenges, RowsSound
  <2>4. Closed("used") \in Changes /\ Revoked(LiveOf(m.user)) \in [Slots -> SessionsBy(requests)]
    BY <1>0, SoundRows, SoundSessions
  <2> QED
    BY <1>0, <1>10, <2>2, <2>3, <2>4 DEF confirm, RowsSound
<1>11. ASSUME confirm_refused(c) PROVE RowsSound'
  <2>1. Writes(c, "confirm") /\ m.outcome \in {"expired", "revoked"}
    BY <1>11 DEF confirm_refused
  <2>2. Closed(m.outcome) \in Changes
    BY <2>1, SoundRows
  <2> QED
    BY <1>0, <1>11, <2>2 DEF confirm_refused, RowsSound
<1>12. ASSUME _failed_code(c) PROVE RowsSound'
  <2>1. Writes(c, "misconfirm")
    BY <1>12 DEF _failed_code
  <2>2. change[m.user] \in Challenges /\ CredentialOf(m.kind, m.user, m.purpose) = change[m.user]
    BY <1>0, <2>1 DEF RowsSound, CredentialOf, ByLogin, Writes, Changes
  <2>3. /\ m.outcome \in {"pending", "revoked", "expired"}
        /\ m.outcome = "pending" => change[m.user].attempts = m.row.attempts /\ m.row.attempts + 1 < MaxAttempts
    BY <2>1, <2>2, WriterKnows DEF Kinds, Writes
  <2>4. Counted(m, change[m.user]) \in Changes
    BY <1>0, <2>2, <2>3, CountedType DEF Challenges, Changes, RowsSound
  <2> QED
    BY <1>0, <1>12, <2>4 DEF _failed_code, RowsSound
<1> QED
  BY <1>1, <1>2, <1>3, <1>4, <1>5, <1>6, <1>7, <1>8, <1>9, <1>10, <1>11, <1>12 DEF WriteNext

-----------------------------------------------------------------------------
(* What a request knows stays true                                         *)

(* A request that has done nothing knows nothing and holds nothing. *)
LEMMA NothingKnown ==
  ASSUME NEW c, call'[c].step = 1, call'[c].locks = {}
  PROVE  Held(call[c])' /\ Explained(call[c])' /\ AccountKnown(call[c])' /\ CredentialKnown(call[c])'
<1>1. Past(call[c])' = {}
  BY DEF Past
<1> QED
  BY <1>1 DEF Held, Explained, AccountKnown, CredentialKnown

(* A request that is sent has the shape of its kind.                        *)
LEMMA FreshShaped ==
  ASSUME NEW m, m.step = 1, m.outcome = "pending", m.kind \in Kinds \cup {"none"}
  PROVE  Shaped(m)
  BY PlanOf DEF Shaped, Kinds

(* A step that touches neither a request nor what it can have seen *)
LEMMA Untouched ==
  ASSUME NEW d \in Calls, call[d].user \in Users \cup {Nobody}, call[d].purpose \in Purposes,
         call'[d] = call[d], UNCHANGED <<account, email, session>>,
         \A u \in Users, p \in Purposes : /\ challenge'[u][p].status = challenge[u][p].status
                                          /\ challenge'[u][p].attempts = challenge[u][p].attempts,
         \A u \in Users : change'[u].attempts = change[u].attempts,
         call[d].kind # "none" => call[d].user \in Users,
         Held(call[d]), Explained(call[d]), AccountKnown(call[d]), CredentialKnown(call[d])
  PROVE  Held(call[d])' /\ Explained(call[d])' /\ AccountKnown(call[d])' /\ CredentialKnown(call[d])'
<1>1. Past(call[d])' = Past(call[d]) /\ LiveOf(call[d].user)' = LiveOf(call[d].user)
  BY DEF Past, LiveOf
<1>2. Held(call[d])' /\ Explained(call[d])'
  BY <1>1 DEF Held, Explained
<1>3. AccountKnown(call[d])'
  BY <1>1 DEF AccountKnown
<1>4. CredentialKnown(call[d])'
  BY <1>1 DEF CredentialKnown, CredentialOf, ByLogin
<1> QED
  BY <1>2, <1>3, <1>4

(* Two locks on one row do not conflict,                                    *)
LEMMA Exclusive ==
  ASSUME LocksExclusive, NEW c \in Calls, NEW d \in Calls, c # d, NEW r, NEW k, NEW l,
         Lock(r, k) \in call[c].locks, Lock(r, l) \in call[d].locks
  PROVE  ~Conflict(k, l)
  BY DEF LocksExclusive, Lock

(* Strong locks on one account exclude each other, and so do all others. *)
LEMMA Excluded ==
  ASSUME LocksExclusive, NEW c \in Calls, NEW d \in Calls, c # d
  PROVE  /\ \A u : AccountLocked(c, u) => ~AccountLocked(d, u)
         /\ \A r : Locked(c, r) => ~Locked(d, r)
<1>1. \A k1, k2 : Conflict(AccountMode(k1), AccountMode(k2)) /\ Conflict("update", "update")
  BY DEF Conflict, AccountMode
<1> QED
  BY <1>1, Exclusive DEF AccountLocked, Locked

(* What others write leaves alone what a request has locked. *)
LEMMA WritesLeaveOthers ==
  ASSUME KnownInv, NEW c \in Calls, WriteNext(c), NEW d \in Calls, d # c
  PROVE  Held(call[d])' /\ Explained(call[d])' /\ AccountKnown(call[d])' /\ CredentialKnown(call[d])'
<1> DEFINE m == call[d]
<1>1. call'[d] = m /\ Past(call[d])' = Past(m) /\ Frame(c)
  BY WriteFrame DEF KnownInv, Frame, Past
<1>2. Held(m) /\ Explained(m) /\ AccountKnown(m) /\ CredentialKnown(m) /\ LocksExclusive /\ Shaped(m)
      /\ m.step \in 1..5 /\ m.purpose \in Purposes
  BY DEF KnownInv, LockInv, TypeOK, CallRows
<1>3. Past(m) # {} => m.kind \in Kinds /\ m.user \in Users
  <2>1. m.kind = "none" => m.step = 1
    BY <1>2, PlanOf DEF Shaped
  <2>2. m.step = 1 => Past(m) = {}
    BY DEF Past
  <2>3. m.kind \in Kinds \cup {"none"}
    BY DEF KnownInv, LockInv, TypeOK, CallRows
  <2> QED
    BY <2>1, <2>2, <2>3 DEF KnownInv, LockInv, TypeOK, Kinds
<1>4. "account" \in Past(m) => AccountKept(m.user)
  BY <1>1, <1>2, <1>3, Excluded DEF Frame, Held, AccountLocked
<1>5. \A s \in LiveOf(m.user) : Lock(SessionRow(s), "update") \in m.locks => m.user = Nobody \/ s \in LiveOf(m.user)'
  BY <1>1, <1>2, Excluded DEF Frame, Locked, LiveOf, Live
<1>6. "credential" \in Past(m) => IF m.kind \in ByLogin THEN challenge'[m.user][m.purpose] = challenge[m.user][m.purpose]
                                 ELSE change'[m.user] = change[m.user]
  BY <1>1, <1>2, <1>3, Excluded DEF Frame, Locked, Held, CredentialRow
<1>7. Held(call[d])'
  <2>1. "sessions" \in Past(m) => LiveOf(m.user)' \subseteq LiveOf(m.user)
    <3>1. "sessions" \in Past(m) => AccountKept(m.user)
      BY <1>2, <1>3, <1>4, PastTells
    <3> QED
      BY <1>1, <3>1 DEF AccountKept, LiveOf
  <2> QED
    BY <1>1, <1>2, <2>1 DEF Held
<1>8. Explained(call[d])'
  BY <1>1, <1>2, <1>3, <1>5, SessionsAssumption DEF Explained
<1>9. AccountKnown(call[d])'
  BY <1>1, <1>2, <1>4 DEF AccountKnown, AccountKept
<1>10. CredentialKnown(call[d])'
  BY <1>1, <1>2, <1>6 DEF CredentialKnown, CredentialOf, ByLogin
<1> QED
  BY <1>7, <1>8, <1>9, <1>10

(* What an advance locks and sees holds in the state it reaches, in which   *)
(* the rows are as they were.                                               *)
LEMMA AdvanceKnows ==
  ASSUME KnownInv, NEW c \in Calls, Advance(c)
  PROVE  Held(call[c])' /\ Explained(call[c])' /\ AccountKnown(call[c])' /\ CredentialKnown(call[c])'
<1> DEFINE m == call[c]
           n == call'[c]
<1>1. /\ UNCHANGED <<account, email, challenge, change, session>>
      /\ m.kind \in Kinds /\ m.user \in Users /\ Stage(m) # "write"
      /\ n = NoCall \/ (Passes(m) /\ Advanced(m, n))
  BY AdvanceDoes DEF KnownInv, LockInv, rows
<1>2. /\ Held(m) /\ Explained(m) /\ AccountKnown(m) /\ CredentialKnown(m) /\ Shaped(m)
      /\ m.step \in 1..5 /\ m.purpose \in Purposes /\ m.row \in Credentials
      /\ \A u \in Users : change[u].status = "pending" => change[u].wanted \in Addresses
  BY DEF KnownInv, LockInv, TypeOK, CallRows, WantedIsAddress
<1>3. CASE n = NoCall
  BY <1>3, NoCallType, NothingKnown
<1>4. CASE Passes(m) /\ Advanced(m, n)
  <2>1. /\ n.kind = m.kind /\ n.user = m.user /\ n.purpose = m.purpose /\ n.slot = m.slot
        /\ n.address = m.address /\ n.locks = m.locks \cup Needs(m)
        /\ n.row = IF Stage(m) = "credential" THEN CredentialOf(m.kind, m.user, m.purpose) ELSE m.row
        /\ n.outcome = Decide(m) /\ Past(n) = Past(m) \cup {Stage(m)}
    BY <1>4 DEF Advanced
  <2>2. /\ Past(call[c])' = Past(n) /\ CredentialRow(call[c])' = CredentialRow(m)
        /\ LiveOf(call[c].user)' = LiveOf(m.user)
    BY <1>1, <2>1 DEF Past, Plan, CredentialRow, LiveOf
  <2>3. /\ Stage(m) = "admin" => Lock(AdminRow, "update") \in Needs(m)
        /\ Stage(m) = "account" => Lock(AccountRow(m.user), AccountMode(m.kind)) \in Needs(m)
        /\ Stage(m) = "credential" => Lock(CredentialRow(m), "update") \in Needs(m)
        /\ Stage(m) = "session" => Lock(SessionRow(m.slot), "update") \in Needs(m)
        /\ Stage(m) = "sessions" => \A s \in LiveOf(m.user) : Lock(SessionRow(s), "update") \in Needs(m)
        /\ Stage(m) = "challenges" => \A p \in Purposes : Lock(ChallengeRow(m.user, p), "update") \in Needs(m)
    BY <1>4 DEF Needs, Passes, Current
  <2>4. Held(call[c])'
    BY <1>1, <1>2, <2>1, <2>2, <2>3 DEF Held
  <2>5. \A l \in Needs(m) :
          \/ Stage(m) = "admin" /\ l = Lock(AdminRow, "update")
          \/ Stage(m) = "account" /\ l = Lock(AccountRow(m.user), AccountMode(m.kind))
          \/ Stage(m) = "credential" /\ l = Lock(CredentialRow(m), "update")
          \/ Stage(m) \in {"session", "sessions"} /\ \E s \in LiveOf(m.user) : l = Lock(SessionRow(s), "update")
          \/ Stage(m) = "challenges" /\ \E p \in Purposes : l = Lock(ChallengeRow(m.user, p), "update")
          \/ Stage(m) = "audit" /\ \E u \in Users : l = Lock(AccountRow(u), "keyshare")
    <3>1. (IF m.actor = Nobody THEN m.user ELSE m.actor) \in Users
      BY <1>1 DEF KnownInv, LockInv, TypeOK, CallRows
    <3> QED
      BY <3>1 DEF Needs, Current
  <2>6. Explained(call[c])'
    BY <1>1, <1>2, <2>1, <2>2, <2>5 DEF Explained
  <2>7. AccountKnown(call[c])'
    <3>1. CASE Stage(m) = "account"
      BY <1>1, <1>2, <1>4, <2>1, <2>2, <3>1 DEF AccountKnown, Passes, AccountPasses
    <3>2. CASE Stage(m) # "account" /\ "account" \in Past(m)
      <4>1. m.kind = "login" => Stage(m) # "credential"
        BY <1>1, <1>2, <3>2, StageTells
      <4> QED
        BY <1>1, <1>2, <2>1, <2>2, <3>2, <4>1 DEF AccountKnown
    <3> QED
      BY <2>1, <2>2, <3>1, <3>2 DEF AccountKnown
  <2>8. CredentialKnown(call[c])'
    <3>1. CASE Stage(m) = "credential"
      <4>1. n.row = CredentialOf(m.kind, m.user, m.purpose)
        BY <2>1, <3>1
      <4>2. m.kind \in {"wrong", "misconfirm"} /\ n.outcome = "pending" => n.row.attempts + 1 < MaxAttempts
        <5> SUFFICES ASSUME m.kind \in {"wrong", "misconfirm"}, n.outcome = "pending"
                     PROVE  n.row.attempts + 1 < MaxAttempts
          OBVIOUS
        <5>1. Decide(m) = AfterWrongCode(n.row)
          BY <2>1, <3>1, <4>1 DEF Decide
        <5>2. n.row.attempts \in Nat /\ MaxAttempts \in Nat
          BY <4>1, SessionsAssumption, CredentialOfType DEF KnownInv, LockInv, Credentials, TypeOK
        <5> QED
          BY <2>1, <5>1, <5>2 DEF AfterWrongCode
      <4>3. m.kind = "login" => challenge[m.user][m.purpose].status = "pending"
        BY <1>4, <3>1 DEF Passes, CredentialPasses, CredentialOf, ByLogin
      <4>4. m.kind = "confirm" => n.row.wanted \in Addresses
        BY <1>1, <1>2, <1>4, <3>1, <4>1 DEF Passes, CredentialPasses, CredentialOf, ByLogin
      <4>5. CredentialOf(call[c].kind, call[c].user, call[c].purpose)' = CredentialOf(m.kind, m.user, m.purpose)
        BY <1>1, <2>1 DEF CredentialOf
      <4> QED
        BY <1>1, <2>1, <4>1, <4>2, <4>3, <4>4, <4>5 DEF CredentialKnown
    <3>2. CASE Stage(m) # "credential" /\ "credential" \in Past(m)
      <4>1. n.row = m.row /\ (m.kind \in {"wrong", "misconfirm"} => n.outcome = m.outcome)
        BY <2>1, <3>2 DEF Decide
      <4>2. CredentialOf(call[c].kind, call[c].user, call[c].purpose)' = CredentialOf(m.kind, m.user, m.purpose)
        BY <1>1, <2>1 DEF CredentialOf
      <4> QED
        BY <1>1, <1>2, <2>1, <3>2, <4>1, <4>2 DEF CredentialKnown
    <3> QED
      BY <2>1, <2>2, <3>1, <3>2 DEF CredentialKnown
  <2> QED
    BY <2>4, <2>6, <2>7, <2>8
<1> QED
  BY <1>1, <1>3, <1>4

(* Only what nobody else holds is locked. *)
LEMMA AdvanceExcludes ==
  ASSUME KnownInv, NEW c \in Calls, Advance(c)
  PROVE  LocksExclusive'
<1>1. \A d \in Calls \ {c} : call'[d] = call[d] /\ ~Waits(c, d)
  BY AdvanceDoes DEF KnownInv, LockInv
<1>2. call'[c].locks \subseteq call[c].locks \cup Needs(call[c])
  BY AdvanceDoes, NoCallType DEF KnownInv, LockInv, Advanced
<1>3. \A d \in Calls \ {c} : \A k \in call'[c].locks, l \in call[d].locks :
        k.row = l.row => ~Conflict(k.mode, l.mode)
  BY <1>1, <1>2 DEF Waits, KnownInv, LockInv, LocksExclusive
<1>4. \A k, l : Conflict(k, l) => Conflict(l, k)
  BY DEF Conflict
<1> QED
  BY <1>1, <1>3, <1>4 DEF LocksExclusive, KnownInv, LockInv

(* which the end of a request leaves so.                                    *)
LEMMA EndExcludes ==
  ASSUME LocksExclusive, NEW c \in Calls, call'[c].locks = {}, \A d \in Calls \ {c} : call'[d] = call[d]
  PROVE  LocksExclusive'
  BY DEF LocksExclusive

(* The invariant holds at first.                                            *)
LEMMA KnownInit == Init => KnownInv
<1> SUFFICES ASSUME Init PROVE KnownInv
  OBVIOUS
<1>1. TypeOK
  BY TypeInit
<1>2. \A c \in Calls : call[c] = NoCall
  BY DEF Init
<1>3. NoCall.step = 1 /\ NoCall.locks = {} /\ NoCall.kind = "none" /\ NoCall.outcome = "pending" /\ NoCall.at = 0
  BY DEF NoCall
<1>4. Shaped(NoCall) /\ Past(NoCall) = {}
  BY <1>3, FreshShaped DEF Past
<1>5. Held(NoCall) /\ Explained(NoCall) /\ AccountKnown(NoCall) /\ CredentialKnown(NoCall)
  BY <1>3, <1>4 DEF Held, Explained, AccountKnown, CredentialKnown
<1>6. LocksExclusive
  BY <1>2, <1>3 DEF LocksExclusive
<1>7. NoCredential \in Challenges /\ NoCredential \in Changes
  BY CredentialTypes DEF NoCredential, Challenges, Changes
<1>8. FirstChallenges \subseteq Challenges /\ FirstChanges \subseteq Changes
  BY <1>7, SoundRows DEF FirstChallenges, FirstChanges
<1>9. CountersAgree
  BY <1>8 DEF Init, CountersAgree, Challenges, Changes
<1>10. WantedIsAddress
  BY <1>2, <1>3, <1>8 DEF Init, WantedIsAddress, Changes
<1>11. \A r \in FirstSessions : r.created = 0
  <2>1. NoSession.created = 0 /\ \A u : [NoSession EXCEPT !.user = u, !.proof = email[u]].created = 0
    BY DEF NoSession
  <2> QED
    BY <2>1 DEF FirstSessions
<1>12. Clock
  BY <1>2, <1>3, <1>11 DEF Init, Clock
<1> QED
  BY <1>1, <1>2, <1>4, <1>5, <1>6, <1>9, <1>10, <1>12 DEF KnownInv, LockInv

(* What a request keeps, whichever stage it is at *)
CallSound(m) == /\ m \in CallRows
                /\ m.kind # "none" => m.user \in Users
                /\ Shaped(m)
                /\ m.kind = "change" => m.wanted \in Addresses

(* The invariant says so of every request.                                  *)
LEMMA CallsAreSound == ASSUME KnownInv PROVE \A c \in Calls : CallSound(call[c]) /\ call[c].at <= requests
  BY DEF KnownInv, LockInv, TypeOK, WantedIsAddress, Clock, CallSound

(* So is no request.                                                        *)
LEMMA NoCallSound == CallSound(NoCall) /\ NoCall.at = 0
<1>1. NoCall.kind = "none" /\ NoCall.step = 1 /\ NoCall.outcome = "pending" /\ NoCall.at = 0
  BY DEF NoCall
<1> QED
  BY <1>1, NoCallType, FreshShaped DEF CallSound

(* The parts of the invariant, put together again *)
LEMMA Together ==
  ASSUME RowsSound', requests' \in Nat, LocksExclusive', call' = [c \in Calls |-> call'[c]],
         \A c \in Calls : /\ CallSound(call'[c]) /\ call'[c].at <= requests'
                          /\ Held(call[c])' /\ Explained(call[c])'
                          /\ AccountKnown(call[c])' /\ CredentialKnown(call[c])'
  PROVE  KnownInv'
<1>1. TypeOK'
  BY DEF TypeOK, RowsSound, Challenges, Changes, SessionsBy, CallSound
<1>2. CountersAgree' /\ WantedIsAddress' /\ Clock'
  BY DEF RowsSound, Challenges, Changes, SessionsBy, CallSound, CountersAgree, WantedIsAddress, Clock
<1>3. \A c \in Calls : Shaped(call[c])'
  BY DEF CallSound, Shaped, Plan
<1> QED
  BY <1>1, <1>2, <1>3 DEF KnownInv, LockInv

(* The requests stay a function of the same calls.                          *)
LEMMA CallsStay == ASSUME TypeOK, [Next]_vars PROVE call' = [c \in Calls |-> call'[c]]
<1>1. ASSUME NEW c \in Calls, SendNext(c) PROVE call' = [d \in Calls |-> call'[d]]
  <2>1. \E n : call' = [call EXCEPT ![c] = n]
    BY <1>1 DEF SendNext, Send, RequestLogin, EnterCode, EnterWrongCode, FinishAcceptance,
                ConfirmChange, MistypeChange, Logout, RevokeAll, ChangeStatus, RequestChange
  <2> QED
    BY <2>1 DEF TypeOK
<1>2. ASSUME NEW c \in Calls, Advance(c) PROVE call' = [d \in Calls |-> call'[d]]
  BY <1>2 DEF TypeOK, Advance
<1>3. ASSUME NEW c \in Calls, Ends(c) PROVE call' = [d \in Calls |-> call'[d]]
  BY <1>3 DEF TypeOK, Ends
<1>4. ASSUME NEW c \in Calls, WriteNext(c) PROVE Ends(c)
  BY <1>4 DEF WriteNext, Writes, create_challenge, complete_login, _expire_challenge, _record_invalid_code,
              issue_session, revoke_session, revoke_user_sessions, transition_account_status,
              create_change, confirm, confirm_refused, _failed_code
<1>5. CASE UNCHANGED call
  BY <1>5 DEF TypeOK
<1> QED
  BY <1>1, <1>2, <1>3, <1>4, <1>5 DEF Next, RollBack, ElapseChallenge, ElapseChange, vars

(* The one request of a step decides; the others only have to stay put. *)
LEMMA KnownByOne ==
  ASSUME KnownInv, [Next]_vars, NEW c \in Calls, RowsSound', requests' \in Nat, requests <= requests',
         LocksExclusive', \A d \in Calls \ {c} : call'[d] = call[d],
         CallSound(call'[c]) /\ call'[c].at <= requests',
         \A d \in Calls : Held(call[d])' /\ Explained(call[d])' /\ AccountKnown(call[d])' /\ CredentialKnown(call[d])'
  PROVE  KnownInv'
<1>1. call' = [d \in Calls |-> call'[d]]
  BY CallsStay DEF KnownInv, LockInv
<1>2. \A d \in Calls : CallSound(call'[d]) /\ call'[d].at <= requests'
  <2>1. \A d \in Calls : call[d].at \in Nat /\ requests \in Nat
    BY DEF KnownInv, LockInv, TypeOK, CallRows
  <2> QED
    BY <2>1, CallsAreSound
<1> QED
  BY <1>1, <1>2, Together

(* Every step keeps the invariant.                                          *)
LEMMA KnownStep == KnownInv /\ [Next]_vars => KnownInv'
<1> SUFFICES ASSUME KnownInv, [Next]_vars PROVE KnownInv'
  OBVIOUS
<1> DEFINE Kept(d) == Held(call[d])' /\ Explained(call[d])' /\ AccountKnown(call[d])' /\ CredentialKnown(call[d])'
<1>1. RowsSound /\ requests \in Nat /\ LocksExclusive /\ TypeOK
  BY RowsAreSound DEF KnownInv, LockInv, TypeOK
<1>2. ASSUME NEW d \in Calls, call'[d] = call[d], UNCHANGED <<account, email, session>>,
             \A u \in Users, p \in Purposes : /\ challenge'[u][p].status = challenge[u][p].status
                                              /\ challenge'[u][p].attempts = challenge[u][p].attempts,
             \A u \in Users : change'[u].attempts = change[u].attempts
      PROVE  Kept(d)
  BY <1>2, Untouched DEF KnownInv, LockInv, TypeOK, CallRows
<1>3. ASSUME NEW c \in Calls, SendNext(c) PROVE KnownInv'
  <2>1. /\ UNCHANGED <<account, email, challenge, change, session>> /\ requests' = requests + 1
        /\ Sent(call'[c], requests + 1) /\ \A d \in Calls \ {c} : call'[d] = call[d]
    BY <1>1, <1>3, SendDoes DEF rows
  <2>2. Kept(c) /\ \A d \in Calls \ {c} : Kept(d)
    BY <1>2, <2>1, NothingKnown DEF Sent
  <2>3. CallSound(call'[c]) /\ call'[c].at <= requests'
    BY <1>1, <2>1, FreshShaped DEF Sent, CallSound, Kinds
  <2>4. LocksExclusive'
    BY <1>1, <2>1, EndExcludes DEF Sent
  <2>5. RowsSound'
    BY <1>1, <2>1 DEF RowsSound, SessionsBy, SessionRows
  <2> HIDE DEF Kept
  <2>6. \A d \in Calls : Kept(d)
    BY <2>2
  <2> QED
    BY <1>1, <2>1, <2>3, <2>4, <2>5, <2>6, KnownByOne DEF Kept
<1>4. ASSUME NEW c \in Calls, Advance(c) PROVE KnownInv'
  <2>1. /\ UNCHANGED <<account, email, challenge, change, session>> /\ requests' = requests
        /\ \A d \in Calls \ {c} : call'[d] = call[d]
        /\ call'[c] = NoCall \/ (Passes(call[c]) /\ Advanced(call[c], call'[c]))
    BY <1>1, <1>4, AdvanceDoes DEF KnownInv, LockInv, rows
  <2>2. Kept(c) /\ \A d \in Calls \ {c} : Kept(d)
    BY <1>2, <1>4, <2>1, AdvanceKnows
  <2>3. CallSound(call'[c]) /\ call'[c].at <= requests'
    <3>1. CallSound(call[c]) /\ call[c].at <= requests
      BY CallsAreSound
    <3> QED
      BY <1>1, <2>1, <3>1, NoCallSound DEF CallSound, Advanced
  <2>4. RowsSound'
    BY <1>1, <2>1 DEF RowsSound
  <2>5. LocksExclusive'
    BY <1>4, AdvanceExcludes
  <2> HIDE DEF Kept
  <2>6. \A d \in Calls : Kept(d)
    BY <2>2
  <2> QED
    BY <1>1, <2>1, <2>3, <2>4, <2>5, <2>6, KnownByOne DEF Kept
<1>5. ASSUME NEW c \in Calls, WriteNext(c) PROVE KnownInv'
  <2>1. requests' = requests /\ call'[c] = NoCall /\ \A d \in Calls \ {c} : call'[d] = call[d]
    BY <1>5, WriteFrame DEF KnownInv, Frame
  <2>2. Kept(c) /\ \A d \in Calls \ {c} : Kept(d)
    BY <1>5, <2>1, WritesLeaveOthers, NothingKnown, NoCallType
  <2>3. CallSound(call'[c]) /\ call'[c].at <= requests'
    BY <1>1, <2>1, NoCallSound
  <2>4. RowsSound' /\ LocksExclusive'
    BY <1>1, <1>5, <2>1, WritesSound, EndExcludes, NoCallType
  <2> HIDE DEF Kept
  <2>5. \A d \in Calls : Kept(d)
    BY <2>2
  <2> QED
    BY <1>1, <2>1, <2>3, <2>4, <2>5, KnownByOne DEF Kept
<1>6. ASSUME NEW c \in Calls, RollBack(c) PROVE KnownInv'
  <2>1. /\ UNCHANGED <<account, email, challenge, change, session>> /\ requests' = requests
        /\ call'[c] = NoCall /\ \A d \in Calls \ {c} : call'[d] = call[d]
    BY <1>1, <1>6 DEF RollBack, Ends, rows, TypeOK
  <2>2. Kept(c) /\ \A d \in Calls \ {c} : Kept(d)
    BY <1>2, <2>1, NothingKnown, NoCallType
  <2>3. CallSound(call'[c]) /\ call'[c].at <= requests'
    BY <1>1, <2>1, NoCallSound
  <2>4. RowsSound' /\ LocksExclusive'
    BY <1>1, <2>1, EndExcludes, NoCallType DEF RowsSound
  <2> HIDE DEF Kept
  <2>5. \A d \in Calls : Kept(d)
    BY <2>2
  <2> QED
    BY <1>1, <2>1, <2>3, <2>4, <2>5, KnownByOne DEF Kept
<1>7. ASSUME UNCHANGED <<account, email, session, call, requests>>, RowsSound',
             \A u \in Users, p \in Purposes : /\ challenge'[u][p].status = challenge[u][p].status
                                              /\ challenge'[u][p].attempts = challenge[u][p].attempts,
             \A u \in Users : change'[u].attempts = change[u].attempts
      PROVE  KnownInv'
  <2>1. \A d \in Calls : Kept(d)
    BY <1>2, <1>7
  <2>2. \A d \in Calls : CallSound(call'[d]) /\ call'[d].at <= requests'
    BY <1>7, CallsAreSound
  <2>3. LocksExclusive'
    BY <1>1, <1>7 DEF LocksExclusive
  <2>4. call' = [c \in Calls |-> call'[c]]
    BY <1>1, <1>7 DEF TypeOK
  <2> HIDE DEF Kept
  <2> QED
    BY <1>1, <1>7, <2>1, <2>2, <2>3, <2>4, Together DEF Kept
<1>8. ASSUME NEW u \in Users, NEW p \in Purposes, ElapseChallenge(u, p) PROVE KnownInv'
  <2> DEFINE r == challenge[u][p]
             n == [r EXCEPT !.expiry = "past"]
  <2>1. /\ challenge' = [challenge EXCEPT ![u][p] = n]
        /\ UNCHANGED <<account, email, change, session, call, requests>>
    BY <1>8 DEF ElapseChallenge
  <2>2. r \in Challenges
    BY <1>1 DEF RowsSound
  <2>3. n \in Challenges /\ n.status = r.status /\ n.attempts = r.attempts
    BY <2>2 DEF Challenges, Credentials, Expiries
  <2> HIDE DEF n
  <2>4. RowsSound'
    BY <1>1, <2>1, <2>3 DEF RowsSound
  <2> QED
    BY <1>1, <1>7, <2>1, <2>3, <2>4 DEF RowsSound
<1>9. ASSUME NEW u \in Users, ElapseChange(u) PROVE KnownInv'
  <2> DEFINE r == change[u]
             n == [r EXCEPT !.expiry = "past"]
  <2>1. /\ change' = [change EXCEPT ![u] = n]
        /\ UNCHANGED <<account, email, challenge, session, call, requests>>
    BY <1>9 DEF ElapseChange
  <2>2. r \in Changes
    BY <1>1 DEF RowsSound
  <2>3. n \in Changes /\ n.attempts = r.attempts
    BY <2>2 DEF Changes, Challenges, Credentials, Expiries
  <2> HIDE DEF n
  <2>4. RowsSound'
    BY <1>1, <2>1, <2>3 DEF RowsSound
  <2> QED
    BY <1>1, <1>7, <2>1, <2>3, <2>4 DEF RowsSound
<1>10. CASE UNCHANGED vars
  <2>1. UNCHANGED <<account, email, challenge, change, session, call, requests>>
    BY <1>10 DEF vars, rows
  <2> QED
    BY <1>1, <1>7, <2>1 DEF RowsSound
<1> QED
  BY <1>3, <1>4, <1>5, <1>6, <1>8, <1>9, <1>10 DEF Next

-----------------------------------------------------------------------------
(* The theorems                                                            *)

(* Every row keeps the type of its columns, every request its shape.        *)
THEOREM TypeCorrect == Spec => []TypeOK
<1>1. KnownInv => TypeOK
  BY DEF KnownInv, LockInv
<1> QED
  BY <1>1, KnownInit, KnownStep, PTL DEF Spec

-----------------------------------------------------------------------------

(* A session belongs to an active account, step by step.                    *)
LEMMA LiveSoundStep == ASSUME KnownInv, LiveSessionSound, [Next]_vars PROVE LiveSessionSound'
<1>1. ASSUME UNCHANGED <<account, email, session>> PROVE LiveSessionSound'
  BY <1>1 DEF LiveSessionSound, Live
<1>2. /\ session \in [Slots -> SessionRows] /\ account \in [Users -> {"active", "suspended"}]
      /\ email \in [Users -> Addresses]
  BY DEF KnownInv, LockInv, TypeOK
<1>3. ASSUME NEW c \in Calls, WriteNext(c) PROVE LiveSessionSound'
  <2> DEFINE m == call[c]
  <2>1. m.user \in Users
    BY <1>3, WriteFrame DEF KnownInv, LockInv, TypeOK, Frame, Kinds
  <2>2. \A gone : UNCHANGED <<account, email>> /\ session' = Revoked(gone) => LiveSessionSound'
    BY DEF LiveSessionSound, Live, Revoked, NoSession
  <2>3. ASSUME NEW s \in Slots, NewSession(m, s, email[m.user]), account[m.user] = "active",
               UNCHANGED <<account, email>>
        PROVE  LiveSessionSound'
    BY <1>2, <2>1, <2>3 DEF LiveSessionSound, Live, NewSession
  <2>4. ASSUME complete_login(c) PROVE LiveSessionSound'
    <3>1. Writes(c, "login") /\ m.outcome = "used" /\ UNCHANGED <<account, email>>
      BY <2>4 DEF complete_login
    <3>2. account[m.user] = "active" /\ email[m.user] = m.row.address
      BY <3>1, WriterKnows DEF Kinds
    <3>3. CASE m.purpose = "login"
      BY <2>3, <2>4, <3>1, <3>2, <3>3 DEF complete_login
    <3>4. CASE m.purpose = "fresh"
      <4>1. m.slot \in Slots /\ session[m.slot].user = m.user
        BY <3>1, <3>4, WriterHolds DEF KnownInv, Kinds, LiveOf
      <4>2. session' = [session EXCEPT ![m.slot] =
                          [session[m.slot] EXCEPT !.token = m.at, !.proof = m.row.address]]
        BY <2>4, <3>4 DEF complete_login
      <4>3. session'[m.slot].user = m.user /\ session'[m.slot].proof = m.row.address
        BY <1>2, <4>1, <4>2 DEF SessionRows
      <4>4. \A t \in Slots \ {m.slot} : session'[t] = session[t]
        BY <1>2, <4>1, <4>2
      <4> QED
        BY <3>1, <3>2, <4>1, <4>3, <4>4 DEF LiveSessionSound, Live
    <3>5. m.purpose \in {"login", "fresh"}
      BY DEF KnownInv, LockInv, TypeOK, CallRows, Purposes
    <3> QED
      BY <3>3, <3>4, <3>5
  <2>5. ASSUME issue_session(c) PROVE LiveSessionSound'
    <3>1. account[m.user] = "active"
      BY <2>5, WriterKnows DEF issue_session, Kinds
    <3> QED
      BY <2>3, <2>5, <3>1 DEF issue_session
  <2>6. ASSUME transition_account_status(c) PROVE LiveSessionSound'
    <3>1. /\ account' = [account EXCEPT ![m.user] = m.to] /\ UNCHANGED email
          /\ session' = IF m.to = "suspended" THEN Revoked(LiveOf(m.user)) ELSE session
          /\ m.to \in {"active", "suspended"}
      BY <2>6 DEF transition_account_status, KnownInv, LockInv, TypeOK, CallRows
    <3>2. CASE m.to = "suspended"
      BY <1>2, <2>1, <3>1, <3>2 DEF LiveSessionSound, Live, LiveOf, Revoked, NoSession
    <3>3. CASE m.to = "active"
      BY <1>2, <2>1, <3>1, <3>3 DEF LiveSessionSound, Live
    <3> QED
      BY <3>1, <3>2, <3>3
  <2>7. ASSUME confirm(c) PROVE LiveSessionSound'
    BY <1>2, <2>1, <2>7 DEF confirm, LiveSessionSound, Live, LiveOf, Revoked, NoSession
  <2>8. revoke_session(c) \/ revoke_user_sessions(c) => LiveSessionSound'
    BY <2>2 DEF revoke_session, revoke_user_sessions
  <2>9. create_challenge(c) \/ _expire_challenge(c) \/ _record_invalid_code(c) \/ create_change(c)
          \/ confirm_refused(c) \/ _failed_code(c) => UNCHANGED <<account, email, session>>
    BY DEF create_challenge, _expire_challenge, _record_invalid_code, create_change, confirm_refused, _failed_code
  <2> QED
    BY <1>1, <1>3, <2>4, <2>5, <2>6, <2>7, <2>8, <2>9 DEF WriteNext
<1>4. ASSUME NEW c \in Calls, SendNext(c) \/ Advance(c) \/ RollBack(c) PROVE LiveSessionSound'
  BY <1>1, <1>4, SendDoes DEF Advance, RollBack, rows, KnownInv, LockInv
<1> QED
  BY <1>1, <1>3, <1>4 DEF Next, ElapseChallenge, ElapseChange, vars, rows

(* Every session that is not revoked belongs to an active account and was   *)
(* proved at the address the account has now.                               *)
THEOREM SessionsAreSound == Spec => []LiveSessionSound
<1>1. Init => LiveSessionSound
  <2> SUFFICES ASSUME Init PROVE LiveSessionSound
    OBVIOUS
  <2>1. \A r \in FirstSessions : r.user = Nobody \/ (r.user \in Users /\ r.proof = email[r.user])
    <3>1. \A u : /\ [NoSession EXCEPT !.user = u, !.proof = email[u]].user = u
                 /\ [NoSession EXCEPT !.user = u, !.proof = email[u]].proof = email[u]
      BY DEF NoSession
    <3>2. NoSession.user = Nobody
      BY DEF NoSession
    <3>3. Holders \subseteq Users
      BY SessionsAssumption
    <3>4. ASSUME NEW r \in FirstSessions PROVE r.user = Nobody \/ (r.user \in Users /\ r.proof = email[r.user])
      <4>1. r = NoSession \/ \E u \in Holders : r = [NoSession EXCEPT !.user = u, !.proof = email[u]]
        BY <3>4 DEF FirstSessions
      <4>2. CASE r = NoSession
        BY <3>2, <4>2
      <4>3. ASSUME NEW u \in Holders, r = [NoSession EXCEPT !.user = u, !.proof = email[u]]
            PROVE  r.user = u /\ r.proof = email[u] /\ u \in Users
        BY <3>1, <3>3, <4>3
      <4> QED
        BY <4>1, <4>2, <4>3
    <3> QED
      BY <3>4
  <2> QED
    BY <2>1 DEF Init, LiveSessionSound, Live
<1>2. KnownInv /\ LiveSessionSound /\ [Next]_vars => LiveSessionSound'
  BY LiveSoundStep
<1> QED
  BY <1>1, <1>2, KnownInit, KnownStep, PTL DEF Spec

-----------------------------------------------------------------------------

(* What a code or link still opens *)
Opens(r, u) == r.status = "pending" => r.address = email[u]

(* What is pending goes to the address of the account, step by step.        *)
LEMMA OldAddressStep == ASSUME KnownInv, OldAddressOpensNothing, [Next]_vars PROVE OldAddressOpensNothing'
<1>0. /\ challenge \in [Users -> [Purposes -> Challenges]] /\ change \in [Users -> Changes]
      /\ email \in [Users -> Addresses] /\ \A c \in Calls : call[c] \in CallRows
      /\ \A u \in Users : Opens(change[u], u) /\ \A p \in Purposes : Opens(challenge[u][p], u)
  BY RowsAreSound DEF RowsSound, OldAddressOpensNothing, Opens, KnownInv, LockInv, TypeOK
<1>1. ASSUME email' = email,
             \A u \in Users, p \in Purposes : challenge'[u][p] = challenge[u][p] \/ Opens(challenge'[u][p], u),
             \A u \in Users : change'[u] = change[u] \/ Opens(change'[u], u)
      PROVE  OldAddressOpensNothing'
  BY <1>0, <1>1 DEF OldAddressOpensNothing, Opens
<1>2. \A u, s : s # "pending" => Opens(Closed(s), u)
  BY DEF Opens, Closed, NoCredential
<1>3. \A u, f, n : Opens(Pending(email[u], f, n), u)
  BY DEF Opens, Pending, NoCredential
<1>4. ASSUME NEW c \in Calls, WriteNext(c) PROVE OldAddressOpensNothing'
  <2> DEFINE m == call[c]
  <2>0. m.user \in Users /\ m.purpose \in Purposes
    BY <1>0, <1>4, WriteFrame DEF KnownInv, LockInv, TypeOK, Frame, Kinds, CallRows
  <2>1. ASSUME create_challenge(c) PROVE OldAddressOpensNothing'
    <3>1. email[m.user] = m.address
      BY <2>1, WriterKnows DEF create_challenge, Kinds
    <3> QED
      BY <1>0, <1>1, <1>3, <2>0, <2>1, <3>1 DEF create_challenge
  <2>2. ASSUME complete_login(c) \/ _expire_challenge(c) PROVE OldAddressOpensNothing'
    <3>1. /\ email' = email /\ change' = change
          /\ \/ challenge' = [challenge EXCEPT ![m.user][m.purpose] = Closed("used")]
             \/ challenge' = [challenge EXCEPT ![m.user][m.purpose] = Closed("expired")]
      BY <2>2 DEF complete_login, _expire_challenge
    <3>2. Opens(Closed("used"), m.user) /\ Opens(Closed("expired"), m.user)
      BY <1>2
    <3> QED
      BY <1>0, <1>1, <2>0, <3>1, <3>2
  <2>3. ASSUME _record_invalid_code(c) PROVE OldAddressOpensNothing'
    <3>1. Opens(Counted(m, challenge[m.user][m.purpose]), m.user)
      BY <1>0, <1>2, <2>0 DEF Counted, Opens, Challenges, Credentials
    <3> QED
      BY <1>0, <1>1, <2>0, <2>3, <3>1 DEF _record_invalid_code
  <2>4. ASSUME _failed_code(c) PROVE OldAddressOpensNothing'
    <3>1. Opens(Counted(m, change[m.user]), m.user)
      BY <1>0, <1>2, <2>0 DEF Counted, Opens, Changes, Challenges, Credentials
    <3> QED
      BY <1>0, <1>1, <2>0, <2>4, <3>1 DEF _failed_code
  <2>5. ASSUME create_change(c) PROVE OldAddressOpensNothing'
    <3>1. email[m.user] = m.address
      BY <2>5, WriterKnows DEF create_change, Kinds
    <3> QED
      BY <1>0, <1>1, <1>2, <1>3, <2>0, <2>5, <3>1 DEF create_change
  <2>6. ASSUME confirm(c) PROVE OldAddressOpensNothing'
    <3>1. /\ email' = [email EXCEPT ![m.user] = m.row.wanted]
          /\ challenge' = [challenge EXCEPT ![m.user] = RevokedChallenges(m.user)]
          /\ change' = [change EXCEPT ![m.user] = Closed("used")]
      BY <2>6 DEF confirm
    <3>2. \A p \in Purposes : RevokedChallenges(m.user)[p].status # "pending"
      BY DEF RevokedChallenges, Closed, NoCredential
    <3>3. Closed("used").status # "pending"
      BY DEF Closed, NoCredential
    <3> QED
      BY <1>0, <2>0, <3>1, <3>2, <3>3 DEF OldAddressOpensNothing, Opens
  <2>7. ASSUME confirm_refused(c) PROVE OldAddressOpensNothing'
    BY <1>0, <1>1, <1>2, <2>0, <2>7 DEF confirm_refused
  <2>8. issue_session(c) \/ revoke_session(c) \/ revoke_user_sessions(c) \/ transition_account_status(c)
          => OldAddressOpensNothing'
    BY <1>1 DEF issue_session, revoke_session, revoke_user_sessions, transition_account_status
  <2> QED
    BY <1>4, <2>1, <2>2, <2>3, <2>4, <2>5, <2>6, <2>7, <2>8 DEF WriteNext
<1>5. ASSUME NEW c \in Calls, SendNext(c) \/ Advance(c) \/ RollBack(c) PROVE OldAddressOpensNothing'
  BY <1>1, <1>5, SendDoes DEF Advance, RollBack, rows, KnownInv, LockInv
<1>6. ASSUME NEW u \in Users, NEW p \in Purposes, ElapseChallenge(u, p) PROVE OldAddressOpensNothing'
  BY <1>0, <1>1, <1>6 DEF ElapseChallenge, Opens, Challenges, Credentials
<1>7. ASSUME NEW u \in Users, ElapseChange(u) PROVE OldAddressOpensNothing'
  BY <1>0, <1>1, <1>7 DEF ElapseChange, Opens, Changes, Challenges, Credentials
<1>8. CASE UNCHANGED vars
  BY <1>1, <1>8 DEF vars, rows
<1> QED
  BY <1>4, <1>5, <1>6, <1>7, <1>8 DEF Next

(* Nothing that was sent to an address the account no longer has is pending. *)
THEOREM OldAddressesAreDead == Spec => []OldAddressOpensNothing
<1>1. Init => OldAddressOpensNothing
  BY DEF Init, OldAddressOpensNothing
<1>2. KnownInv /\ OldAddressOpensNothing /\ [Next]_vars => OldAddressOpensNothing'
  BY OldAddressStep
<1> QED
  BY <1>1, <1>2, KnownInit, KnownStep, PTL DEF Spec

(* However many requests read a counter at once, fewer wrong codes than the *)
(* limit have been recorded for what is pending.                            *)
THEOREM GuessesAreLimited == Spec => []GuessesLimited
<1>1. KnownInv => GuessesLimited
  <2>1. \A r \in Challenges : r.guesses < MaxAttempts
    BY SessionsAssumption DEF Challenges, Credentials
  <2>2. \A r \in Changes : r \in Challenges
    BY DEF Changes
  <2> QED
    BY <2>1, <2>2, RowsAreSound DEF RowsSound, GuessesLimited
<1> QED
  BY <1>1, KnownInit, KnownStep, PTL DEF Spec

(* A link or code that opens a session was pending until then and is used.  *)
THEOREM ChallengesWorkOnce == Spec => ChallengeWorksOnce
<1>1. ASSUME KnownInv, [Next]_vars, NEW c \in Calls,
             call[c].kind = "login", call'[c].kind = "none", session' # session
      PROVE  /\ challenge[call[c].user][call[c].purpose].status = "pending"
             /\ challenge'[call[c].user][call[c].purpose].status = "used"
  <2>1. PICK d \in Calls : WriteNext(d)
    <3>1. ASSUME NEW d \in Calls, SendNext(d) PROVE FALSE
      BY <1>1, <3>1, SendDoes DEF KnownInv, LockInv, rows
    <3> QED
      BY <1>1, <3>1 DEF Next, Advance, RollBack, ElapseChallenge, ElapseChange, vars, rows
  <2>2. d = c
    BY <1>1, <2>1, WriteFrame DEF KnownInv, Frame
  <2>3. call[c].user \in Users /\ call[c].purpose \in Purposes /\ challenge \in [Users -> [Purposes -> Credentials]]
    BY <1>1 DEF KnownInv, LockInv, TypeOK, CallRows
  <2>4. complete_login(c)
    BY <1>1, <2>1, <2>2 DEF WriteNext, Writes, create_challenge, _expire_challenge, _record_invalid_code,
       issue_session, revoke_session, revoke_user_sessions, transition_account_status, create_change,
       confirm, confirm_refused, _failed_code
  <2>5. challenge[call[c].user][call[c].purpose].status = "pending"
    BY <1>1, <2>4, WriterKnows DEF complete_login, Kinds
  <2>6. challenge'[call[c].user][call[c].purpose] = Closed("used")
    BY <2>3, <2>4 DEF complete_login
  <2> QED
    BY <2>5, <2>6 DEF Closed, NoCredential
<1>2. KnownInv /\ [Next]_vars =>
        [\A c \in Calls :
           call[c].kind = "login" /\ call'[c].kind = "none" /\ session' # session =>
             /\ challenge[call[c].user][call[c].purpose].status = "pending"
             /\ challenge'[call[c].user][call[c].purpose].status = "used"]_vars
  BY <1>1
<1> QED
  BY <1>2, KnownInit, KnownStep, PTL DEF Spec, ChallengeWorksOnce

-----------------------------------------------------------------------------

(* A request with nothing behind it holds nothing. *)
LEMMA HoldsNothing == ASSUME NEW m, Explained(m), Past(m) = {} PROVE m.locks = {}
  BY DEF Explained

(* Requests that wait, directly or through others, for the suspension c:    *)
(* the ones that hold nothing, and the ones that hold no more than a        *)
(* challenge, or request for a change, of the account that c has locked     *)
Aside(c, d) ==
  \/ call[d].locks = {}
  \/ /\ AccountLocked(c, call[c].user)
     /\ call[d].kind \in {"login", "confirm"} /\ call[d].user = call[c].user
     /\ Stage(call[d]) = "account"

(* What all requests satisfy *)
LEMMA EachCall ==
  ASSUME KnownInv, NEW d \in Calls
  PROVE  /\ Shaped(call[d]) /\ Held(call[d]) /\ Explained(call[d])
         /\ call[d].step \in 1..5 /\ call[d].kind \in Kinds \cup {"none"}
         /\ call[d].kind = "none" => Needs(call[d]) = {} /\ call[d].locks = {}
<1>1. /\ Shaped(call[d]) /\ Held(call[d]) /\ Explained(call[d])
      /\ call[d].step \in 1..5 /\ call[d].kind \in Kinds \cup {"none"}
  BY DEF KnownInv, LockInv, TypeOK, CallRows
<1>2. call[d].kind = "none" => Stage(call[d]) = "idle" /\ Past(call[d]) = {}
  BY <1>1, PlanOf DEF Shaped, Stage, Past
<1> QED
  BY <1>1, <1>2, HoldsNothing DEF Needs

(* What a request at a stage waits for, row by row *)
LEMMA NeedsOf ==
  ASSUME NEW m, NEW n \in Needs(m)
  PROVE  \/ Stage(m) = "admin" /\ n = Lock(AdminRow, "update")
         \/ Stage(m) = "account" /\ n = Lock(AccountRow(m.user), AccountMode(m.kind))
         \/ Stage(m) = "credential" /\ n = Lock(CredentialRow(m), "update")
         \/ Stage(m) \in {"session", "sessions"} /\ \E s \in LiveOf(m.user) : n = Lock(SessionRow(s), "update")
         \/ Stage(m) = "challenges" /\ \E p \in Purposes : n = Lock(ChallengeRow(m.user, p), "update")
         \/ Stage(m) = "audit" /\ \E u : n = Lock(AccountRow(u), "keyshare")
  BY DEF Needs, Current

(* Locks on rows of different kinds, or users, are locks on different rows. *)
LEMMA RowsDiffer ==
  /\ \A u, v : AccountRow(u) = AccountRow(v) => u = v
  /\ \A s, t : SessionRow(s) = SessionRow(t) => s = t
  /\ \A u, v, p, q : ChallengeRow(u, p) = ChallengeRow(v, q) => u = v
  /\ \A u, v : ChangeRow(u) = ChangeRow(v) => u = v
  /\ \A u, s : AdminRow # AccountRow(u) /\ AdminRow # SessionRow(s) /\ AccountRow(u) # SessionRow(s)
  /\ \A u, v, p, s : /\ AdminRow # ChallengeRow(u, p) /\ AdminRow # ChangeRow(u)
                     /\ AccountRow(v) # ChallengeRow(u, p) /\ AccountRow(v) # ChangeRow(u)
                     /\ SessionRow(s) # ChallengeRow(u, p) /\ SessionRow(s) # ChangeRow(u)
                     /\ ChallengeRow(u, p) # ChangeRow(v)
  /\ \A m : CredentialRow(m) = ChangeRow(m.user) \/ CredentialRow(m) = ChallengeRow(m.user, m.purpose)
  BY DEF AdminRow, AccountRow, SessionRow, ChallengeRow, ChangeRow, CredentialRow

(* Who waits for a suspension that has not written its audit event stands aside. *)
LEMMA WaitersStandAside ==
  ASSUME KnownInv, NEW c \in Calls, NEW d \in Calls, call[c].kind = "status", Stage(call[c]) # "write", Waits(d, c)
  PROVE  Aside(c, d)
<1> DEFINE m == call[c]
           k == call[d]
<1>1. /\ Shaped(m) /\ Held(m) /\ Explained(m) /\ m.step \in 1..5 /\ m.kind \in Kinds
      /\ Shaped(k) /\ Held(k) /\ Explained(k) /\ k.step \in 1..5 /\ k.kind \in Kinds \cup {"none"}
      /\ LocksExclusive
  BY EachCall DEF KnownInv, LockInv, Kinds
<1>2. PICK n \in Needs(k), l \in m.locks : n.row = l.row /\ Conflict(n.mode, l.mode)
  BY DEF Waits
<1>3. k.kind \in Kinds /\ d # c
  BY <1>1, <1>2, EachCall DEF Waits
<1>4. "audit" \notin Past(m) /\ "credential" \notin Past(m) /\ "challenges" \notin Past(m) /\ "session" \notin Past(m)
  BY <1>1, PlanOf DEF Past, Stage
<1>5. "account" \in Past(m) \/ "sessions" \in Past(m) => "admin" \in Past(m) /\ "account" \in Past(m)
  BY <1>1, PlanOf DEF Past, Stage
<1>6. "admin" \in Past(m) => "admin" \notin Past(k)
  BY <1>1, <1>3, Excluded DEF Held, Locked
<1>7. "account" \in Past(m) => AccountLocked(c, m.user)
  BY <1>1 DEF Held, AccountLocked
<1>8. "account" \in Past(m) /\ "account" \in Past(k) => k.user # m.user
  BY <1>1, <1>3, <1>7, Excluded DEF Held, AccountLocked
<1>9. CASE l = Lock(AdminRow, "update")
  <2>1. Stage(k) = "admin"
    BY <1>2, <1>9, NeedsOf, RowsDiffer DEF Lock
  <2> QED
    BY <1>1, <1>3, <2>1, StageTells, HoldsNothing DEF Aside
<1>10. CASE "account" \in Past(m) /\ l = Lock(AccountRow(m.user), AccountMode(m.kind))
  <2>1. l.mode = "nokey" /\ l.row = AccountRow(m.user)
    BY <1>10 DEF Lock, AccountMode
  <2>2. Stage(k) = "account" /\ k.user = m.user
    <3>1. ~(\E u : n = Lock(AccountRow(u), "keyshare"))
      BY <1>2, <2>1 DEF Lock, Conflict
    <3> QED
      BY <1>2, <2>1, <3>1, NeedsOf, RowsDiffer DEF Lock
  <2>3. CASE Past(k) = {}
    BY <1>1, <2>3, HoldsNothing DEF Aside
  <2>4. CASE Past(k) = {"admin"}
    BY <1>5, <1>6, <1>10, <2>4
  <2> QED
    BY <1>1, <1>3, <1>7, <1>10, <2>2, <2>3, <2>4, StageTells DEF Aside
<1>11. CASE "sessions" \in Past(m) /\ \E s \in LiveOf(m.user) : l = Lock(SessionRow(s), "update")
  <2>1. PICK s \in LiveOf(m.user) : l = Lock(SessionRow(s), "update")
    BY <1>11
  <2>2. Stage(k) \in {"session", "sessions"} /\ s \in LiveOf(k.user)
    BY <1>2, <2>1, NeedsOf, RowsDiffer DEF Lock
  <2>3. k.user = m.user
    BY <2>1, <2>2 DEF LiveOf
  <2>4. "account" \notin Past(k)
    BY <1>5, <1>8, <1>11, <2>3
  <2>5. Past(k) = {}
    BY <1>1, <1>3, <2>2, <2>4, StageTells
  <2> QED
    BY <1>1, <2>5, HoldsNothing DEF Aside
<1> QED
  BY <1>1, <1>2, <1>4, <1>9, <1>10, <1>11 DEF Explained

(* So does who waits for one that stands aside. *)
LEMMA AsideWaitsAside ==
  ASSUME KnownInv, NEW c \in Calls, NEW d \in Calls, NEW e \in Calls, call[c].kind = "status",
         Aside(c, e), Waits(d, e)
  PROVE  Aside(c, d)
<1> DEFINE m == call[e]
           k == call[d]
<1>1. /\ Shaped(m) /\ Explained(m) /\ m.step \in 1..5
      /\ Shaped(k) /\ Held(k) /\ Explained(k) /\ k.step \in 1..5 /\ k.kind \in Kinds \cup {"none"}
      /\ LocksExclusive
  BY EachCall DEF KnownInv, LockInv
<1>2. PICK n \in Needs(k), l \in m.locks : n.row = l.row /\ Conflict(n.mode, l.mode)
  BY DEF Waits
<1>3. /\ AccountLocked(c, call[c].user) /\ m.kind \in {"login", "confirm"}
      /\ m.user = call[c].user /\ Stage(m) = "account" /\ k.kind \in Kinds
  BY <1>1, <1>2, EachCall DEF Aside
<1>4. Past(m) = {"credential"}
  BY <1>1, <1>3, StageTells DEF Kinds
<1>5. l.row = CredentialRow(m)
  BY <1>1, <1>2, <1>4 DEF Explained, Lock
<1>6. Stage(k) \in {"credential", "challenges"} /\ k.user = m.user
  BY <1>2, <1>5, NeedsOf, RowsDiffer DEF Lock
<1>7. "account" \in Past(k) => k.kind # "status" /\ AccountLocked(d, k.user)
  BY <1>1, <1>3, <1>6, StageTells DEF Held, AccountLocked
<1>8. "account" \notin Past(k)
  BY <1>1, <1>3, <1>6, <1>7, Excluded
<1>9. Past(k) = {}
  BY <1>1, <1>3, <1>6, <1>8, StageTells
<1> QED
  BY <1>1, <1>9, HoldsNothing DEF Aside

(* A suspension does not wait for one that stands aside. *)
LEMMA NoWaitForAside ==
  ASSUME KnownInv, NEW c \in Calls, NEW d \in Calls, call[c].kind = "status", Waits(c, d)
  PROVE  ~Aside(c, d) /\ Stage(call[c]) # "write"
<1> DEFINE m == call[c]
           k == call[d]
<1>1. Shaped(m) /\ m.step \in 1..5 /\ Shaped(k) /\ Explained(k) /\ k.step \in 1..5
  BY EachCall
<1>2. PICK n \in Needs(m), l \in k.locks : n.row = l.row /\ Conflict(n.mode, l.mode)
  BY DEF Waits
<1>3. Stage(m) \in {"admin", "account", "sessions", "audit"}
  BY <1>1, <1>2, StageTells DEF Needs, Kinds
<1>4. ASSUME k.kind \in {"login", "confirm"}, Stage(k) = "account" PROVE FALSE
  <2>1. Past(k) = {"credential"}
    BY <1>1, <1>4, StageTells DEF Kinds
  <2>2. l.row = CredentialRow(k)
    BY <1>1, <1>2, <2>1 DEF Explained, Lock
  <2>3. (\E u : n.row = AccountRow(u)) \/ n.row = AdminRow \/ \E s : n.row = SessionRow(s)
    BY <1>3, <1>2, NeedsOf DEF Lock
  <2> QED
    BY <1>2, <2>2, <2>3, RowsDiffer
<1> QED
  BY <1>2, <1>3, <1>4 DEF Aside

(* Nobody who waits for a suspension is one it waits for, at any distance.  *)
LEMMA SuspensionNotInCycle == ASSUME KnownInv, NEW c \in Calls, call[c].kind = "status" PROVE NotInCycle(c)
<1>1. CASE Stage(call[c]) = "write"
  <2>1. \A d \in Calls : ~Waits(c, d)
    BY <1>1, NoWaitForAside
  <2>2. {} \in SUBSET (Calls \ {c})
    OBVIOUS
  <2> QED
    BY <2>1, <2>2 DEF NotInCycle
<1>2. CASE Stage(call[c]) # "write"
  <2> DEFINE R == {d \in Calls \ {c} : ~Aside(c, d)}
  <2>1. \A d \in Calls : Waits(c, d) => d \in R
    BY NoWaitForAside DEF Waits
  <2>2. \A d \in R, e \in Calls : Waits(d, e) => e \in R
    BY <1>2, WaitersStandAside, AsideWaitsAside
  <2> QED
    BY <2>1, <2>2 DEF NotInCycle
<1> QED
  BY <1>1, <1>2

(* A suspension or reactivation is never part of a deadlock, and finds no   *)
(* session that began after the clock it revokes by.                        *)
THEOREM SuspensionsGoThrough == Spec => []SuspensionGoesThrough
<1>1. ASSUME KnownInv, NEW c \in Calls, call[c].kind = "status", Stage(call[c]) = "sessions"
      PROVE  Passes(call[c])
  BY <1>1 DEF Passes, RevokedAt, KnownInv, Clock, LiveOf
<1>2. KnownInv => SuspensionGoesThrough
  BY <1>1, SuspensionNotInCycle DEF SuspensionGoesThrough
<1> QED
  BY <1>2, KnownInit, KnownStep, PTL DEF Spec

=============================================================================
