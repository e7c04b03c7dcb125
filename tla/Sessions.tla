------------------------------- MODULE Sessions -------------------------------
(***************************************************************************)
(* Sign-up, sign-in and the rotation of refresh tokens                     *)
(* (domains/auth/services/auth_service.rs with its repositories, JWTs and  *)
(* handlers).  main.rs does not route these handlers any more; they are    *)
(* compiled and kept for the service that took over.                       *)
(*                                                                         *)
(* A request runs one SQL statement per step, without a transaction around *)
(* them, so the statements of several requests interleave.  PostgreSQL is  *)
(* external: at most MaxFaults statements fail, and a statement whose      *)
(* answer is lost may have been executed.                                  *)
(*                                                                         *)
(* Users are named by their email addresses.  Time is counted in units of  *)
(* which a refresh token lives RefreshLife and an access token AccessLife. *)
(***************************************************************************)
EXTENDS Integers, FiniteSets

CONSTANTS Email,        \* the addresses people sign up with
          Request,      \* requests served at the same time
          NoCall,       \* a request that is not being served
          MaxTokens,    \* bound: refresh tokens generated
          RefreshLife,  \* 7 days
          AccessLife,   \* 1 hour
          MaxTime,      \* bound: the time goes on until then
          MaxFaults     \* bound: statements that fail

(* A refresh token is a fresh random string; the table holds its hash.     *)
Token == 1 .. MaxTokens
NoToken == 0
Time == 0 .. MaxTime

Row == [token : Token, user : Email, expires_at : Nat, revoked : BOOLEAN]
AccessToken == [user : Email, exp : Nat]

VARIABLES users,           \* table users
          refresh_tokens,  \* table refresh_tokens
          request,         \* request -> the call it serves
          generated,       \* refresh tokens generated so far
          held,            \* refresh tokens clients were given, with their users
          access,          \* access tokens clients were given
          now,             \* the time
          faults,          \* statements that failed so far
          overlapped,      \* history: users with two requests at a time
          ended            \* history: users all of whose sessions were ended

tables == <<users, refresh_tokens>>
clients == <<held, access>>
history == <<overlapped, ended>>
vars == <<tables, request, generated, clients, now, faults, history>>

(* user: whom the request is about; token: the refresh token it presents;  *)
(* new, expires_at, exp: what it generated; alone: history, no other       *)
(* request of the user ran at the same time.                               *)
Call == [op : {"signup", "signin", "refresh", "logout", "logout_all", "me"},
         step : {"check_email", "insert_user", "fetch_user", "find", "fetch_by_id",
                 "revoke", "revoke_all", "insert", "answer"},
         user : Email, token : Token \cup {NoToken}, new : Token \cup {NoToken},
         expires_at : Nat, exp : Nat, alone : BOOLEAN]

ASSUME SessionsAssumption ==
  /\ {MaxTokens, RefreshLife, AccessLife, MaxTime, MaxFaults} \subseteq Nat
  /\ NoCall \notin Call

Active == {r \in Request : request[r] # NoCall}
Of(u) == {r \in Active : request[r].user = u}

-----------------------------------------------------------------------------
(* What the statements select and update.                                  *)

NewEmail(u) == u \notin users

FindByHash(t) == {row \in refresh_tokens : row.token = t}

(* Mutant: the token presented is stored, not the new one.                 *)
InsertPresented(c) ==
  refresh_tokens \cup
    {[token |-> c.token, user |-> c.user, expires_at |-> c.expires_at, revoked |-> FALSE]}

Insert(c) ==
  refresh_tokens \cup
    {[token |-> c.new, user |-> c.user, expires_at |-> c.expires_at, revoked |-> FALSE]}

Revoked(rows) ==
  (refresh_tokens \ rows) \cup {[row EXCEPT !.revoked = TRUE] : row \in rows}

Revoke(t) == Revoked(FindByHash(t))

(* Mutant: the update stops after one row.                                 *)
RevokeOneFor(u) ==
  LET rows == {row \in refresh_tokens : row.user = u /\ ~row.revoked}
  IN  Revoked(IF rows = {} THEN {} ELSE {CHOOSE row \in rows : TRUE})

(* Mutant: the condition on revoked is the wrong way round.                *)
RevokeRevokedFor(u) == Revoked({row \in refresh_tokens : row.user = u /\ row.revoked})

(* Mutant: the condition on the user is missing.                           *)
RevokeEverybody(u) == Revoked({row \in refresh_tokens : ~row.revoked})

RevokeAllFor(u) == Revoked({row \in refresh_tokens : row.user = u /\ ~row.revoked})

Usable(row) == ~row.revoked /\ ~(row.expires_at < now)

(* count_valid_for_user counts these.                                      *)
ValidFor(u) ==
  {row \in refresh_tokens : row.user = u /\ ~row.revoked /\ row.expires_at > now}

(* verify_access_token, called for every request with an access token.     *)
Accepted(a) == ~(a.exp < now)

-----------------------------------------------------------------------------
(* Beginning and ending a call.                                            *)

Begin(r, c) ==
  /\ request[r] = NoCall
  /\ request' = [q \in Request |->
                   IF q = r THEN [c EXCEPT !.alone = Of(c.user) = {}]
                   ELSE IF q \in Of(c.user) THEN [request[q] EXCEPT !.alone = FALSE]
                   ELSE request[q]]
  /\ overlapped' = IF Of(c.user) = {} THEN overlapped ELSE overlapped \cup {c.user}
  /\ ended' = IF c.op = "signin" THEN ended \ {c.user} ELSE ended
  /\ UNCHANGED <<tables, generated, clients, now, faults>>

Asks(op, step, u, t) ==
  [op |-> op, step |-> step, user |-> u, token |-> t, new |-> NoToken,
   expires_at |-> 0, exp |-> 0, alone |-> TRUE]

SignUp(r, u) == Begin(r, Asks("signup", "check_email", u, NoToken))
SignIn(r, u) == Begin(r, Asks("signin", "fetch_user", u, NoToken))
RefreshAccessToken(r, h) == Begin(r, Asks("refresh", "find", h.user, h.token))
Logout(r, h) == Begin(r, Asks("logout", "revoke", h.user, h.token))
LogoutAllDevices(r, u) == u \in users /\ Begin(r, Asks("logout_all", "revoke_all", u, NoToken))

(* The extractor of the authenticated user comes before the handler.       *)
GetMe(r, a) == Accepted(a) /\ Begin(r, Asks("me", "fetch_by_id", a.user, NoToken))

GoOn(r, c) == request' = [request EXCEPT ![r] = c]
Return(r) == request' = [request EXCEPT ![r] = NoCall]

(* A lookup that ends the call with an error, an expected one.             *)
Refuse(r) ==
  /\ Return(r)
  /\ UNCHANGED <<tables, generated, clients, now, faults, history>>

Look(r, c) ==
  /\ GoOn(r, c)
  /\ UNCHANGED <<tables, generated, clients, now, faults, history>>

-----------------------------------------------------------------------------
(* The statements of the calls that only read.                             *)

(* Every signup of a known address is refused, unless another one inserts  *)
(* it after this lookup.                                                   *)
CheckEmail(r) ==
  /\ request[r].step = "check_email"
  /\ IF request[r].user \in users
     THEN Refuse(r)
     ELSE Look(r, [request[r] EXCEPT !.step = "insert_user"])

(* An unknown address and a wrong password are refused alike.              *)
FetchUser(r) ==
  /\ request[r].step = "fetch_user"
  /\ \/ Refuse(r)
     \/ /\ request[r].user \in users
        /\ Look(r, [request[r] EXCEPT !.step = "revoke_all"])

Find(r) ==
  /\ request[r].step = "find"
  /\ IF \E row \in FindByHash(request[r].token) : Usable(row)
     THEN Look(r, [request[r] EXCEPT !.step = "fetch_by_id"])
     ELSE Refuse(r)

(* refresh_access_token signs the access token before it revokes the old   *)
(* refresh token; get_me is over here.                                     *)
FetchById(r) ==
  /\ request[r].step = "fetch_by_id"
  /\ IF request[r].op = "refresh" /\ request[r].user \in users
     THEN Look(r, [request[r] EXCEPT !.step = "revoke", !.exp = now + AccessLife])
     ELSE Refuse(r)

-----------------------------------------------------------------------------
(* The statements that write.                                              *)

(* create_refresh_token generates the token and its expiry, then inserts   *)
(* it.                                                                     *)
Generate(r) ==
  /\ generated < MaxTokens
  /\ generated' = generated + 1
  /\ GoOn(r, [request[r] EXCEPT !.step = "insert", !.new = generated + 1,
                                !.expires_at = now + RefreshLife])

InsertUser(r) ==
  /\ request[r].step = "insert_user"
  /\ IF NewEmail(request[r].user)
     THEN users' = users \cup {request[r].user}
     ELSE UNCHANGED users
  /\ Return(r)
  /\ UNCHANGED <<refresh_tokens, generated, clients, now, faults, history>>

RevokeToken(r) ==
  /\ request[r].step = "revoke"
  /\ refresh_tokens' = Revoke(request[r].token)
  /\ IF request[r].op = "refresh" THEN Generate(r)
                                  ELSE Return(r) /\ UNCHANGED generated
  /\ UNCHANGED <<users, clients, now, faults, history>>

(* All sessions are ended for good if nothing else of the user's runs that *)
(* could start one.                                                        *)
RevokeAll(r) ==
  /\ request[r].step = "revoke_all"
  /\ refresh_tokens' = RevokeAllFor(request[r].user)
  /\ IF request[r].op = "signin"
     THEN Generate(r) /\ UNCHANGED ended
     ELSE /\ Return(r) /\ UNCHANGED generated
          /\ ended' = IF Of(request[r].user) = {r} THEN ended \cup {request[r].user}
                                                   ELSE ended
  /\ UNCHANGED <<users, clients, now, faults, overlapped>>

InsertToken(r) ==
  LET c == request[r]
  IN  /\ c.step = "insert"
      /\ refresh_tokens' = Insert(c)
      /\ GoOn(r, [c EXCEPT !.step = "answer"])
      /\ UNCHANGED <<users, generated, clients, now, faults, history>>

ReturnedToken(c) == c.new

(* The insertion has been answered; the token is returned when the task    *)
(* goes on.  The handler of signin signs the access token then, a refresh  *)
(* signed it before.                                                       *)
Answer(r) ==
  LET c == request[r]
      exp == IF c.op = "refresh" THEN c.exp ELSE now + AccessLife
  IN  /\ c.step = "answer"
      /\ held' = held \cup {[token |-> ReturnedToken(c), user |-> c.user]}
      /\ access' = access \cup {[user |-> c.user, exp |-> exp]}
      /\ Return(r)
      /\ UNCHANGED <<tables, generated, now, faults, history>>

(* A failed statement ends the call with an error.  If only its answer was *)
(* lost, it has been executed.                                             *)
StatementFails(r) ==
  LET c == request[r]
  IN  /\ c # NoCall /\ c.step # "answer" /\ faults < MaxFaults
      /\ faults' = faults + 1
      /\ \/ UNCHANGED tables
         \/ /\ c.step = "insert_user" /\ NewEmail(c.user)
            /\ users' = users \cup {c.user} /\ UNCHANGED refresh_tokens
         \/ /\ c.step \in {"revoke", "revoke_all", "insert"}
            /\ refresh_tokens' = CASE c.step = "revoke" -> Revoke(c.token)
                                   [] c.step = "revoke_all" -> RevokeAllFor(c.user)
                                   [] c.step = "insert" -> Insert(c)
            /\ UNCHANGED users
      /\ Return(r)
      /\ UNCHANGED <<generated, clients, now, history>>

-----------------------------------------------------------------------------
Tick ==
  /\ now < MaxTime
  /\ now' = now + 1
  /\ UNCHANGED <<tables, request, generated, clients, faults, history>>

(* delete_expired: a clean-up that nothing calls, and anybody may.         *)
DeleteExpired ==
  /\ \E row \in refresh_tokens : row.expires_at < now
  /\ refresh_tokens' = {row \in refresh_tokens : ~(row.expires_at < now)}
  /\ UNCHANGED <<users, request, generated, clients, now, faults, history>>

Init ==
  /\ users = {} /\ refresh_tokens = {}
  /\ request = [r \in Request |-> NoCall]
  /\ generated = 0
  /\ held = {} /\ access = {}
  /\ now = 0 /\ faults = 0
  /\ overlapped = {} /\ ended = {}

ClientAsks(r) ==
  \/ \E u \in Email : SignUp(r, u) \/ SignIn(r, u) \/ LogoutAllDevices(r, u)
  \/ \E h \in held : RefreshAccessToken(r, h) \/ Logout(r, h)
  \/ \E a \in access : GetMe(r, a)

Statement(r) ==
  /\ request[r] # NoCall
  /\ \/ CheckEmail(r) \/ InsertUser(r)
     \/ FetchUser(r) \/ Find(r) \/ FetchById(r)
     \/ RevokeToken(r) \/ RevokeAll(r) \/ InsertToken(r) \/ Answer(r)

Next ==
  \/ \E r \in Request : ClientAsks(r) \/ Statement(r) \/ StatementFails(r)
  \/ Tick \/ DeleteExpired

Spec == Init /\ [][Next]_vars

-----------------------------------------------------------------------------
TypeOK ==
  /\ users \subseteq Email
  /\ refresh_tokens \subseteq Row
  /\ \A row1, row2 \in refresh_tokens : row1.token = row2.token => row1 = row2
  /\ request \in [Request -> Call \cup {NoCall}]
  /\ generated \in 0 .. MaxTokens
  /\ held \subseteq [token : Token, user : Email]
  /\ access \subseteq AccessToken
  /\ now \in Time /\ faults \in 0 .. MaxFaults
  /\ overlapped \subseteq Email /\ ended \subseteq Email

(* A sign-in ends the sessions before it and a refresh replaces its token, *)
(* so a user whose requests never overlapped has one session at most, also *)
(* after statements failed (auth_service.rs:99: a new sign-in ends the     *)
(* existing sessions).                                                     *)
SingleSession ==
  \A u \in Email \ overlapped : Cardinality(ValidFor(u)) <= 1

(* Once all sessions of a user were ended and no request of the user's was *)
(* running, no token of the user's is valid until the next sign-in         *)
(* (auth_service.rs logout_all_devices).                                   *)
LogoutIsFinal == \A u \in ended : ValidFor(u) = {}

(* The token that a sign-in or a refresh returns can be used when it is    *)
(* returned, unless it has expired by then or another request of the       *)
(* user's ran at the same time: no revocation of an earlier token, of      *)
(* other users' tokens or by a clean-up reaches it (auth_service.rs:185:   *)
(* revoke first, create later, so that the new token is not revoked).      *)
ReturnedTokenWorks ==
  [][\A r \in Request :
       LET c == request[r]
       IN  /\ c # NoCall /\ c.step = "answer" /\ request'[r] = NoCall
           /\ c.alone /\ ~(c.expires_at < now)
           => \E row \in FindByHash(ReturnedToken(c)) : Usable(row)]_vars

=============================================================================
