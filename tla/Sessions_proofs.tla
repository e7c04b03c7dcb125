--------------------------- MODULE Sessions_proofs ---------------------------
(***************************************************************************)
(* Proofs about Sessions: types, one session per user whose requests do    *)
(* not overlap, final logouts, and returned tokens that work, for every    *)
(* number of users, requests, tokens, lifetimes and faults.                *)
(***************************************************************************)
EXTENDS Sessions, FiniteSetTheorems, TLAPS

(* Which call makes which statements.                                      *)
Statements(op) ==
  CASE op = "signup"     -> {"check_email", "insert_user"}
    [] op = "signin"     -> {"fetch_user", "revoke_all", "insert", "answer"}
    [] op = "refresh"    -> {"find", "fetch_by_id", "revoke", "insert", "answer"}
    [] op = "logout"     -> {"revoke"}
    [] op = "logout_all" -> {"revoke_all"}
    [] op = "me"         -> {"fetch_by_id"}

CallsInOrder == \A r \in Active : request[r].step \in Statements(request[r].op)

UniqueTokens ==
  \A row1, row2 \in refresh_tokens : row1.token = row2.token => row1 = row2

TableTypes == users \subseteq Email /\ refresh_tokens \subseteq Row
RequestTypes == request \in [Request -> Call \cup {NoCall}]

OtherTypes ==
  /\ generated \in 0 .. MaxTokens
  /\ held \subseteq [token : Token, user : Email]
  /\ access \subseteq AccessToken
  /\ now \in Time /\ faults \in 0 .. MaxFaults
  /\ overlapped \subseteq Email /\ ended \subseteq Email

Inserting == {r \in Active : request[r].step = "insert"}
Answering == {r \in Active : request[r].step = "answer"}

(* Every token known anywhere was generated.                               *)
Generated ==
  /\ \A row \in refresh_tokens : row.token <= generated
  /\ \A h \in held : h.token <= generated
  /\ \A r \in Active : request[r].token <= generated

(* A token about to be inserted is known nowhere else.                     *)
Fresh ==
  \A r \in Inserting :
    /\ request[r].new \in 1 .. generated
    /\ \A row \in refresh_tokens : row.token # request[r].new
    /\ \A h \in held : h.token # request[r].new
    /\ \A q \in Active : request[q].token # request[r].new
    /\ \A q \in Inserting \cup Answering : request[q].new = request[r].new => q = r

(* A token is presented by the user it was issued to.                      *)
Owners ==
  \A row \in refresh_tokens :
    /\ \A h \in held : h.token = row.token => h.user = row.user
    /\ \A r \in Active : request[r].token = row.token => request[r].user = row.user

(* After all sessions of a user were ended, nothing is left that could     *)
(* start one.                                                              *)
EndedSessions ==
  \A u \in ended :
    /\ \A row \in refresh_tokens : row.user = u => row.revoked
    /\ \A r \in Of(u) : /\ request[r].op # "signin"
                        /\ request[r].op = "refresh" => request[r].step = "find"

(* A user whose requests never overlapped has one token that is not        *)
(* revoked, at most: the one a refresh has found and is about to revoke,   *)
(* and none when the next one is about to be inserted.                     *)
OneAtATime ==
  \A u \in Email \ overlapped :
    /\ \A r, q \in Of(u) : r = q
    /\ \A row1, row2 \in refresh_tokens :
         row1.user = u /\ row2.user = u /\ ~row1.revoked /\ ~row2.revoked => row1 = row2
    /\ \A r \in Of(u), row \in refresh_tokens :
         row.user = u /\ ~row.revoked =>
           /\ request[r].step # "insert"
           /\ request[r].op = "refresh" /\ request[r].step \in {"fetch_by_id", "revoke"}
                => row.token = request[r].token

(* A call that ran alone still does.                                       *)
Alone ==
  \A r \in Active :
    request[r].alone => \A q \in Active : request[q].user = request[r].user => q = r

(* A token inserted and not yet returned belongs to the user of its call,  *)
(* and is usable until it expires if the call runs alone.                  *)
Stored ==
  \A r \in Answering :
    /\ request[r].new \in 1 .. generated
    /\ \A row \in refresh_tokens :
         row.token = request[r].new => row.user = request[r].user
    /\ request[r].alone =>
         \/ request[r].expires_at < now
         \/ \E row \in refresh_tokens :
              /\ row.token = request[r].new /\ ~row.revoked
              /\ row.expires_at = request[r].expires_at

IInv ==
  /\ TypeOK /\ CallsInOrder /\ Generated /\ Fresh /\ Owners
  /\ EndedSessions /\ OneAtATime /\ Alone /\ Stored

-----------------------------------------------------------------------------
(* The type invariant and its parts.                                       *)

LEMMA TypesAre ==
  TypeOK <=> TableTypes /\ UniqueTokens /\ RequestTypes /\ OtherTypes
BY DEF TypeOK, TableTypes, UniqueTokens, RequestTypes, OtherTypes

LEMMA TypesAreNext ==
  TypeOK' <=> TableTypes' /\ UniqueTokens' /\ RequestTypes' /\ OtherTypes'
BY TypesAre, PTL

(* An active request has a call; what a call is.                           *)
LEMMA ActiveCalls ==
  ASSUME RequestTypes
  PROVE  /\ \A r \in Request : r \in Active <=> request[r] # NoCall
         /\ \A r \in Active :
              /\ r \in Request /\ request[r] \in Call
              /\ request[r].user \in Email
              /\ request[r].token \in Token \cup {NoToken}
              /\ request[r].new \in Token \cup {NoToken}
              /\ request[r].expires_at \in Nat /\ request[r].exp \in Nat
              /\ request[r].alone \in BOOLEAN
BY DEF RequestTypes, Active, Call

(* A call that ends, and one that goes on.                                 *)
LEMMA ReturnOf ==
  ASSUME RequestTypes, NEW r \in Request, Return(r)
  PROVE  /\ RequestTypes' /\ r \notin Active'
         /\ \A q \in Active' : q \in Active /\ q # r /\ request'[q] = request[q]
BY DEF RequestTypes, Return, Active

LEMMA GoOnOf ==
  ASSUME RequestTypes, NEW r \in Active, NEW c \in Call, GoOn(r, c)
  PROVE  /\ RequestTypes' /\ request'[r] = c
         /\ \A q \in Active' : q \in Active /\ (q # r => request'[q] = request[q])
BY SessionsAssumption DEF RequestTypes, GoOn, Active

-----------------------------------------------------------------------------
(* What becomes of the rows when they are revoked or deleted.              *)

RowsShrink ==
  \A n \in refresh_tokens' : \E o \in refresh_tokens :
    /\ n.token = o.token /\ n.user = o.user
    /\ o.revoked => n.revoked
    /\ ~n.revoked => n = o

LEMMA RevokedOf ==
  ASSUME refresh_tokens \subseteq Row, UniqueTokens,
         NEW S \in SUBSET refresh_tokens, refresh_tokens' = Revoked(S)
  PROVE  /\ refresh_tokens' \subseteq Row /\ UniqueTokens' /\ RowsShrink
         /\ \A n \in refresh_tokens' : ~n.revoked => n \in refresh_tokens \ S
         /\ refresh_tokens \ S \subseteq refresh_tokens'
<1> DEFINE image(row) == [row EXCEPT !.revoked = TRUE]
<1>1. \A n \in refresh_tokens' :
        n \in refresh_tokens \ S \/ \E o \in S : n = image(o)
  BY DEF Revoked
<1>0. refresh_tokens \ S \subseteq refresh_tokens'
  BY DEF Revoked
<1>2. \A o \in refresh_tokens :
        /\ o \in Row /\ image(o) \in Row /\ image(o).revoked = TRUE
        /\ image(o).token = o.token /\ image(o).user = o.user
  BY DEF Row
<1> HIDE DEF image
<1>3. refresh_tokens' \subseteq Row
  BY <1>1, <1>2
<1>4. UniqueTokens'
  BY <1>1, <1>2 DEF UniqueTokens
<1>5. RowsShrink
  BY <1>1, <1>2 DEF RowsShrink
<1>6. \A n \in refresh_tokens' : ~n.revoked => n \in refresh_tokens \ S
  BY <1>1, <1>2
<1>. QED
  BY <1>0, <1>3, <1>4, <1>5, <1>6

LEMMA SubsetShrinks ==
  ASSUME refresh_tokens \subseteq Row, UniqueTokens, refresh_tokens' \subseteq refresh_tokens
  PROVE  refresh_tokens' \subseteq Row /\ UniqueTokens' /\ RowsShrink
BY DEF UniqueTokens, RowsShrink


-----------------------------------------------------------------------------
(* What the invariants need of a step that inserts no token.               *)

(* Calls go on as the code says, and none generates a token.               *)
CallsProceed ==
  \A q \in Active' :
    /\ q \in Active
    /\ request'[q].op = request[q].op /\ request'[q].user = request[q].user
    /\ request'[q].token = request[q].token /\ request'[q].alone = request[q].alone
    /\ request'[q].step \in Statements(request[q].op)
    /\ {request[q].step, request'[q].step} \cap {"insert", "answer"} # {} =>
         request'[q] = request[q]

(* A refresh that goes on has found a row of its user.                     *)
FoundFirst ==
  \A q \in Active' :
    request'[q].op = "refresh" /\ request'[q].step # "find" =>
      \/ request[q].step # "find"
      \/ \E row \in refresh_tokens : row.token = request[q].token /\ ~row.revoked

(* Clients are given tokens that were stored.                              *)
HeldReturned ==
  \A h \in held' :
    \/ h \in held
    \/ \E a \in Answering : h.token = request[a].new /\ h.user = request[a].user

(* The token of a call that runs alone stays, unless it expires.           *)
AnswersKept ==
  \A a \in Answering, row \in refresh_tokens :
    request[a].alone /\ row.token = request[a].new /\ ~row.revoked =>
      row \in refresh_tokens' \/ row.expires_at < now'

LEMMA QuietTokens ==
  ASSUME IInv, CallsProceed, RowsShrink, HeldReturned, UNCHANGED generated
  PROVE  CallsInOrder' /\ Generated' /\ Fresh' /\ Owners'
<1>. USE DEF IInv, CallsProceed, RowsShrink
<1>0. \A h \in held' :
        h \in held \/ \E a \in Answering : h.token = request[a].new /\ h.user = request[a].user
  BY DEF HeldReturned
<1>1. CallsInOrder'
  BY DEF CallsInOrder
<1>1a. \A a \in Answering : request[a].new \in 1 .. generated
  BY DEF Stored
<1>2. Generated'
  <2>1. generated \in Nat
    BY TypesAre, SessionsAssumption DEF OtherTypes
  <2>2. \A h \in held' : h.token <= generated
    BY <1>0, <1>1a, <2>1 DEF Generated
  <2>. QED
    BY <2>2 DEF Generated
<1>3. /\ Inserting' \subseteq Inserting /\ \A q \in Inserting' : request'[q] = request[q]
      /\ Answering' \subseteq Answering /\ \A q \in Answering' : request'[q] = request[q]
  BY DEF Inserting, Answering
<1>4. Fresh'
  <2>1. SUFFICES ASSUME NEW q \in Inserting'
        PROVE  /\ request'[q].new \in 1 .. generated'
               /\ \A row \in refresh_tokens' : row.token # request'[q].new
               /\ \A h \in held' : h.token # request'[q].new
               /\ \A p \in Active' : request'[p].token # request'[q].new
               /\ \A p \in Inserting' \cup Answering' :
                    request'[p].new = request'[q].new => p = q
    BY DEF Fresh
  <2>2. q \in Inserting /\ request'[q] = request[q] /\ q \notin Answering
    BY <1>3 DEF Inserting, Answering
  <2>3. /\ request[q].new \in 1 .. generated
        /\ \A row \in refresh_tokens : row.token # request[q].new
        /\ \A h \in held : h.token # request[q].new
        /\ \A p \in Active : request[p].token # request[q].new
        /\ \A p \in Inserting \cup Answering : request[p].new = request[q].new => p = q
    BY <2>2 DEF Fresh
  <2>4. \A h \in held' : h.token # request[q].new
    BY <1>0, <2>2, <2>3
  <2>5. \A p \in Inserting' \cup Answering' : request'[p].new = request'[q].new => p = q
    BY <1>3, <2>2, <2>3
  <2>. QED
    BY <2>2, <2>3, <2>4, <2>5
<1>5. Owners'
  <2>1. SUFFICES ASSUME NEW n \in refresh_tokens'
        PROVE  /\ \A h \in held' : h.token = n.token => h.user = n.user
               /\ \A r \in Active' : request'[r].token = n.token => request'[r].user = n.user
    BY DEF Owners
  <2>2. PICK o \in refresh_tokens : n.token = o.token /\ n.user = o.user
    OBVIOUS
  <2>3. \A h \in held' : h.token = n.token => h.user = n.user
    BY <1>0, <2>2 DEF Owners, Stored
  <2>4. \A r \in Active' : request'[r].token = n.token => request'[r].user = n.user
    BY <2>2 DEF Owners
  <2>. QED
    BY <2>3, <2>4
<1>. QED
  BY <1>1, <1>2, <1>4, <1>5

LEMMA QuietStored ==
  ASSUME IInv, CallsProceed, RowsShrink, AnswersKept, now' \in Nat, now <= now',
         UNCHANGED generated
  PROVE  Alone' /\ Stored'
<1>1. Alone'
  BY DEF IInv, Alone, CallsProceed
<1>2. Stored'
  <2>1. SUFFICES ASSUME NEW a \in Answering'
        PROVE  /\ request'[a].new \in 1 .. generated'
               /\ \A row \in refresh_tokens' :
                    row.token = request'[a].new => row.user = request'[a].user
               /\ request'[a].alone =>
                    \/ request'[a].expires_at < now'
                    \/ \E row \in refresh_tokens' :
                         /\ row.token = request'[a].new /\ ~row.revoked
                         /\ row.expires_at = request'[a].expires_at
    BY DEF Stored
  <2>2. a \in Answering /\ request'[a] = request[a]
    BY DEF CallsProceed, Answering
  <2>3. /\ request[a].new \in 1 .. generated
        /\ \A row \in refresh_tokens :
             row.token = request[a].new => row.user = request[a].user
        /\ request[a].alone =>
             \/ request[a].expires_at < now
             \/ \E row \in refresh_tokens :
                  /\ row.token = request[a].new /\ ~row.revoked
                  /\ row.expires_at = request[a].expires_at
    BY <2>2 DEF IInv, Stored
  <2>4. \A row \in refresh_tokens' :
          row.token = request[a].new => row.user = request[a].user
    BY <2>3 DEF RowsShrink
  <2>5. ASSUME request[a].alone
        PROVE  \/ request[a].expires_at < now'
               \/ \E row \in refresh_tokens' :
                    /\ row.token = request[a].new /\ ~row.revoked
                    /\ row.expires_at = request[a].expires_at
    <3>1. CASE request[a].expires_at < now
      <4>1. request[a].expires_at \in Nat /\ now \in Nat
        BY <2>2, TypesAre, ActiveCalls DEF IInv, OtherTypes, Time, Answering
      <4>. QED
        BY <3>1, <4>1
    <3>2. CASE ~(request[a].expires_at < now)
      <4>1. PICK row \in refresh_tokens : /\ row.token = request[a].new /\ ~row.revoked
                                          /\ row.expires_at = request[a].expires_at
        BY <2>3, <2>5, <3>2
      <4>. QED
        BY <2>2, <2>5, <4>1 DEF AnswersKept
    <3>. QED
      BY <3>1, <3>2
  <2>. QED
    BY <2>2, <2>3, <2>4, <2>5
<1>. QED
  BY <1>1, <1>2

LEMMA QuietEnded ==
  ASSUME IInv, CallsProceed, FoundFirst, RowsShrink, UNCHANGED ended
  PROVE  EndedSessions'
<1>1. SUFFICES ASSUME NEW u \in ended
               PROVE  /\ \A row \in refresh_tokens' : row.user = u => row.revoked
                      /\ \A r \in Of(u)' : /\ request'[r].op # "signin"
                                           /\ request'[r].op = "refresh" =>
                                                request'[r].step = "find"
  BY DEF EndedSessions
<1>2. /\ \A row \in refresh_tokens : row.user = u => row.revoked
      /\ \A r \in Of(u) : /\ request[r].op # "signin"
                          /\ request[r].op = "refresh" => request[r].step = "find"
  BY DEF IInv, EndedSessions
<1>3. \A row \in refresh_tokens' : row.user = u => row.revoked
  BY <1>2 DEF RowsShrink
<1>4. \A r \in Of(u)' : r \in Active' /\ r \in Of(u) /\ request'[r].user = u
  BY DEF Of, CallsProceed
<1>5. ASSUME NEW r \in Of(u)'
      PROVE  /\ request'[r].op # "signin"
             /\ request'[r].op = "refresh" => request'[r].step = "find"
  <2>1. r \in Active' /\ r \in Active /\ request[r].user = u /\ request'[r].op = request[r].op
        /\ request'[r].token = request[r].token
    BY <1>4 DEF CallsProceed, Of
  <2>2. request[r].op # "signin" /\ (request[r].op = "refresh" => request[r].step = "find")
    BY <1>2, <1>4
  <2>3. ASSUME request'[r].op = "refresh", request'[r].step # "find" PROVE FALSE
    <3>1. PICK row \in refresh_tokens : row.token = request[r].token /\ ~row.revoked
      BY <2>1, <2>2, <2>3 DEF FoundFirst
    <3>2. row.user = u
      BY <2>1, <3>1 DEF IInv, Owners
    <3>. QED
      BY <1>2, <3>1, <3>2
  <2>. QED
    BY <2>1, <2>2, <2>3
<1>. QED
  BY <1>3, <1>5

LEMMA QuietUsers ==
  ASSUME IInv, CallsProceed, FoundFirst, RowsShrink, UNCHANGED overlapped
  PROVE  OneAtATime'
<1>1. SUFFICES ASSUME NEW u \in Email \ overlapped
      PROVE /\ \A r, q \in Of(u)' : r = q
            /\ \A row1, row2 \in refresh_tokens' :
                 row1.user = u /\ row2.user = u /\ ~row1.revoked /\ ~row2.revoked
                   => row1 = row2
            /\ \A r \in Of(u)', row \in refresh_tokens' :
                 row.user = u /\ ~row.revoked =>
                   /\ request'[r].step # "insert"
                   /\ request'[r].op = "refresh" /\ request'[r].step \in {"fetch_by_id", "revoke"}
                        => row.token = request'[r].token
  BY DEF OneAtATime
<1>2. /\ \A r, q \in Of(u) : r = q
      /\ \A row1, row2 \in refresh_tokens :
           row1.user = u /\ row2.user = u /\ ~row1.revoked /\ ~row2.revoked => row1 = row2
      /\ \A r \in Of(u), row \in refresh_tokens :
           row.user = u /\ ~row.revoked =>
             /\ request[r].step # "insert"
             /\ request[r].op = "refresh" /\ request[r].step \in {"fetch_by_id", "revoke"}
                  => row.token = request[r].token
  BY DEF IInv, OneAtATime
<1>3. \A r \in Of(u)' : r \in Active' /\ r \in Of(u)
  BY DEF Of, CallsProceed
<1>4. \A row \in refresh_tokens' :
        row.user = u /\ ~row.revoked => row \in refresh_tokens
  BY DEF RowsShrink
<1>5. ASSUME NEW r \in Of(u)', NEW row \in refresh_tokens', row.user = u, ~row.revoked
      PROVE  /\ request'[r].step # "insert"
             /\ request'[r].op = "refresh" /\ request'[r].step \in {"fetch_by_id", "revoke"}
                  => row.token = request'[r].token
  <2>1. /\ r \in Active' /\ r \in Active /\ request[r].user = u
        /\ request'[r].op = request[r].op /\ request'[r].token = request[r].token
        /\ request'[r].step = "insert" => request'[r] = request[r]
    BY <1>3 DEF CallsProceed, Of
  <2>2. row \in refresh_tokens
    BY <1>4, <1>5
  <2>3. request'[r].step # "insert"
    BY <1>2, <1>3, <1>5, <2>1, <2>2
  <2>4. ASSUME request'[r].op = "refresh", request'[r].step \in {"fetch_by_id", "revoke"}
        PROVE  row.token = request'[r].token
    <3>0. request[r].step \in {"find", "fetch_by_id", "revoke"}
      <4>1. request[r].step \notin {"insert", "answer"}
        BY <2>1, <2>4 DEF CallsProceed
      <4>2. request[r].step \in Statements("refresh")
        BY <2>1, <2>4 DEF IInv, CallsInOrder
      <4>. QED
        BY <4>1, <4>2 DEF Statements
    <3>1. CASE request[r].step # "find"
      BY <1>2, <1>3, <1>5, <2>1, <2>2, <2>4, <3>0, <3>1
    <3>2. CASE request[r].step = "find"
      <4>1. PICK found \in refresh_tokens :
              found.token = request[r].token /\ ~found.revoked
        BY <2>1, <2>4, <3>2 DEF FoundFirst
      <4>2. found.user = u
        BY <2>1, <4>1 DEF IInv, Owners
      <4>. QED
        BY <1>2, <1>5, <2>1, <2>2, <4>1, <4>2
    <3>. QED
      BY <3>1, <3>2
  <2>. QED
    BY <2>3, <2>4
<1>. QED
  BY <1>2, <1>3, <1>4, <1>5


QuietParts ==
  /\ CallsInOrder /\ Generated /\ Fresh /\ Owners
  /\ EndedSessions /\ OneAtATime /\ Alone /\ Stored

LEMMA QuietStep ==
  ASSUME IInv, CallsProceed, FoundFirst, RowsShrink, HeldReturned, AnswersKept,
         now' \in Nat, now <= now', UNCHANGED <<generated, overlapped, ended>>
  PROVE  QuietParts'
BY QuietTokens, QuietEnded, QuietUsers, QuietStored DEF QuietParts

(* Steps that give no token to a client and let no time pass.              *)
LEMMA StillStep ==
  ASSUME IInv, CallsProceed, FoundFirst, RowsShrink, AnswersKept,
         UNCHANGED <<generated, held, now, overlapped, ended>>
  PROVE  QuietParts'
<1>1. now \in Nat
  BY TypesAre DEF IInv, OtherTypes, Time
<1>2. HeldReturned
  BY DEF HeldReturned
<1>. QED
  BY <1>1, <1>2, QuietStep

LEMMA InvariantAgain ==
  ASSUME TypeOK', QuietParts'
  PROVE  IInv'
BY DEF IInv, QuietParts

(* Rows that stay as they are.                                             *)
LEMMA SameRows ==
  ASSUME TypeOK, UNCHANGED refresh_tokens
  PROVE  refresh_tokens' \subseteq Row /\ UniqueTokens' /\ RowsShrink /\ AnswersKept
BY TypesAre, SubsetShrinks DEF TableTypes, AnswersKept

(* A call that ends leaves the others as they are.                         *)
LEMMA Returns ==
  ASSUME IInv, NEW r \in Request, Return(r)
  PROVE  RequestTypes' /\ CallsProceed /\ FoundFirst
<1>1. RequestTypes' /\ \A q \in Active' : q \in Active /\ request'[q] = request[q]
  BY ReturnOf, TypesAre DEF IInv
<1>2. \A q \in Active : request[q].step \in Statements(request[q].op)
  BY DEF IInv, CallsInOrder
<1>3. CallsProceed
  BY <1>1, <1>2 DEF CallsProceed
<1>4. FoundFirst
  BY <1>1 DEF FoundFirst
<1>. QED
  BY <1>1, <1>3, <1>4

(* A call that goes on to another statement.                               *)
LEMMA Proceeds ==
  ASSUME IInv, NEW r \in Active, NEW c \in Call, GoOn(r, c),
         c.op = request[r].op, c.user = request[r].user, c.token = request[r].token,
         c.alone = request[r].alone, request[r].step \notin {"insert", "answer"},
         c.step \in Statements(c.op) \ {"insert", "answer"},
         c.op = "refresh" /\ c.step # "find" =>
           \/ request[r].step # "find"
           \/ \E row \in refresh_tokens : row.token = c.token /\ ~row.revoked
  PROVE  RequestTypes' /\ CallsProceed /\ FoundFirst
<1>1. /\ RequestTypes' /\ request'[r] = c
      /\ \A q \in Active' : q \in Active /\ (q # r => request'[q] = request[q])
  BY GoOnOf, TypesAre DEF IInv
<1>2. \A q \in Active : request[q].step \in Statements(request[q].op)
  BY DEF IInv, CallsInOrder
<1>3. CallsProceed
  <2>1. SUFFICES ASSUME NEW q \in Active'
        PROVE  /\ q \in Active
               /\ request'[q].op = request[q].op /\ request'[q].user = request[q].user
               /\ request'[q].token = request[q].token
               /\ request'[q].alone = request[q].alone
               /\ request'[q].step \in Statements(request[q].op)
               /\ {request[q].step, request'[q].step} \cap {"insert", "answer"} # {} =>
                    request'[q] = request[q]
    BY DEF CallsProceed
  <2>2. CASE q = r
    BY <1>1, <2>2
  <2>3. CASE q # r
    BY <1>1, <1>2, <2>3
  <2>. QED
    BY <2>2, <2>3
<1>4. FoundFirst
  BY <1>1 DEF FoundFirst
<1>. QED
  BY <1>1, <1>3, <1>4

-----------------------------------------------------------------------------
(* Statements that insert no token.                                        *)

LEMMA RefuseStep ==
  ASSUME IInv, NEW r \in Request, Refuse(r)
  PROVE  IInv'
<1>1. Return(r) /\ UNCHANGED <<tables, generated, clients, now, faults, history>>
  BY DEF Refuse
<1>2. RequestTypes' /\ CallsProceed /\ FoundFirst
  BY <1>1, Returns
<1>3. TypeOK /\ OtherTypes /\ TableTypes
  BY TypesAre DEF IInv
<1>4. TableTypes' /\ UniqueTokens' /\ RowsShrink /\ AnswersKept
  BY <1>1, <1>3, SameRows DEF tables, TableTypes
<1>5. OtherTypes'
  BY <1>1, <1>3 DEF OtherTypes, clients, history
<1>6. QuietParts'
  BY <1>1, <1>2, <1>4, StillStep DEF clients, history
<1>. QED
  BY <1>2, <1>4, <1>5, <1>6, TypesAreNext, InvariantAgain

LEMMA LookStep ==
  ASSUME IInv, NEW r \in Active, NEW c \in Call, Look(r, c),
         c.op = request[r].op, c.user = request[r].user, c.token = request[r].token,
         c.alone = request[r].alone, request[r].step \notin {"insert", "answer"},
         c.step \in Statements(c.op) \ {"insert", "answer"},
         c.op = "refresh" /\ c.step # "find" =>
           \/ request[r].step # "find"
           \/ \E row \in refresh_tokens : row.token = c.token /\ ~row.revoked
  PROVE  IInv'
<1>1. GoOn(r, c) /\ UNCHANGED <<tables, generated, clients, now, faults, history>>
  BY DEF Look
<1>2. RequestTypes' /\ CallsProceed /\ FoundFirst
  BY <1>1, Proceeds
<1>3. TypeOK /\ OtherTypes /\ TableTypes
  BY TypesAre DEF IInv
<1>4. TableTypes' /\ UniqueTokens' /\ RowsShrink /\ AnswersKept
  BY <1>1, <1>3, SameRows DEF tables, TableTypes
<1>5. OtherTypes'
  BY <1>1, <1>3 DEF OtherTypes, clients, history
<1>6. QuietParts'
  BY <1>1, <1>2, <1>4, StillStep DEF clients, history
<1>. QED
  BY <1>2, <1>4, <1>5, <1>6, TypesAreNext, InvariantAgain

(* Another statement of the same call.                                     *)
LEMMA NextStatement ==
  ASSUME RequestTypes, NEW r \in Active,
         NEW step \in {"insert_user", "fetch_by_id", "revoke", "revoke_all"}
  PROVE  LET c == [request[r] EXCEPT !.step = step]
         IN  /\ c \in Call /\ c.step = step
             /\ c.op = request[r].op /\ c.user = request[r].user
             /\ c.token = request[r].token /\ c.alone = request[r].alone
BY ActiveCalls DEF Call

LEMMA LookOn ==
  ASSUME IInv, NEW r \in Active,
         NEW step \in {"insert_user", "fetch_by_id", "revoke", "revoke_all"},
         Look(r, [request[r] EXCEPT !.step = step]),
         step \in Statements(request[r].op),
         request[r].step \notin {"insert", "answer"},
         request[r].op = "refresh" =>
           \E row \in refresh_tokens : row.token = request[r].token /\ ~row.revoked
  PROVE  IInv'
<1> DEFINE c == [request[r] EXCEPT !.step = step]
<1>1. /\ c \in Call /\ c.step = step
      /\ c.op = request[r].op /\ c.user = request[r].user
      /\ c.token = request[r].token /\ c.alone = request[r].alone
  BY NextStatement, TypesAre DEF IInv
<1>2. Look(r, c)
  OBVIOUS
<1> HIDE DEF c
<1>. QED
  BY <1>1, <1>2, LookStep

LEMMA LookupSteps ==
  ASSUME IInv, NEW r \in Active, CheckEmail(r) \/ FetchUser(r) \/ Find(r) \/ FetchById(r)
  PROVE  IInv'
<1>1. RequestTypes /\ r \in Request /\ request[r].step \in Statements(request[r].op)
      /\ request[r].op \in {"signup", "signin", "refresh", "logout", "logout_all", "me"}
  BY TypesAre, ActiveCalls DEF IInv, CallsInOrder, Call
<1>2. CASE CheckEmail(r)
  <2>1. request[r].op = "signup"
    BY <1>1, <1>2 DEF CheckEmail, Statements
  <2>2. CASE Look(r, [request[r] EXCEPT !.step = "insert_user"])
    <3>1. "insert_user" \in Statements(request[r].op) /\ request[r].step = "check_email"
      BY <1>2, <2>1 DEF Statements, CheckEmail
    <3>. QED
      BY <2>1, <2>2, <3>1, LookOn
  <2>. QED
    BY <1>1, <1>2, <2>2, RefuseStep DEF CheckEmail
<1>3. CASE FetchUser(r)
  <2>1. request[r].op = "signin"
    BY <1>1, <1>3 DEF FetchUser, Statements
  <2>2. CASE Look(r, [request[r] EXCEPT !.step = "revoke_all"])
    <3>1. "revoke_all" \in Statements(request[r].op) /\ request[r].step = "fetch_user"
      BY <1>3, <2>1 DEF Statements, FetchUser
    <3>. QED
      BY <2>1, <2>2, <3>1, LookOn
  <2>. QED
    BY <1>1, <1>3, <2>2, RefuseStep DEF FetchUser
<1>4. CASE Find(r)
  <2>1. request[r].op = "refresh"
    BY <1>1, <1>4 DEF Find, Statements
  <2>2. CASE /\ \E row \in FindByHash(request[r].token) : Usable(row)
             /\ Look(r, [request[r] EXCEPT !.step = "fetch_by_id"])
    <3>1. \E row \in refresh_tokens : row.token = request[r].token /\ ~row.revoked
      BY <2>2 DEF FindByHash, Usable
    <3>2. "fetch_by_id" \in Statements(request[r].op) /\ request[r].step = "find"
      BY <1>4, <2>1 DEF Statements, Find
    <3>. QED
      BY <2>1, <2>2, <3>1, <3>2, LookOn
  <2>. QED
    BY <1>1, <1>4, <2>2, RefuseStep DEF Find
<1>5. CASE FetchById(r)
  <2>1. CASE /\ request[r].op = "refresh"
             /\ Look(r, [request[r] EXCEPT !.step = "revoke", !.exp = now + AccessLife])
    <3> DEFINE c == [request[r] EXCEPT !.step = "revoke", !.exp = now + AccessLife]
    <3>1. now + AccessLife \in Nat
      BY TypesAre, SessionsAssumption DEF IInv, OtherTypes, Time
    <3>2. /\ c \in Call /\ c.step = "revoke" /\ c.op = request[r].op
          /\ c.user = request[r].user /\ c.token = request[r].token
          /\ c.alone = request[r].alone
      BY <1>1, <3>1, ActiveCalls DEF Call
    <3>3. request[r].step = "fetch_by_id"
      BY <1>5 DEF FetchById
    <3>4. c.step \in Statements(c.op) \ {"insert", "answer"}
      BY <2>1, <3>2 DEF Statements
    <3>5. Look(r, c)
      BY <2>1
    <3> HIDE DEF c
    <3>. QED
      BY <3>2, <3>3, <3>4, <3>5, LookStep
  <2>. QED
    BY <1>1, <1>5, <2>1, RefuseStep DEF FetchById
<1>. QED
  BY <1>2, <1>3, <1>4, <1>5


(* A call that ends after it wrote to a table.                             *)
LEMMA WriteAndReturn ==
  ASSUME IInv, NEW r \in Request, Return(r), users' \subseteq Email,
         refresh_tokens' \subseteq Row, UniqueTokens', RowsShrink, AnswersKept,
         faults' \in 0 .. MaxFaults,
         UNCHANGED <<generated, clients, now, history>>
  PROVE  IInv'
<1>1. RequestTypes' /\ CallsProceed /\ FoundFirst
  BY Returns
<1>2. OtherTypes'
  BY TypesAre DEF IInv, OtherTypes, clients, history
<1>3. QuietParts'
  BY <1>1, StillStep DEF clients, history
<1>. QED
  BY <1>1, <1>2, <1>3, TypesAreNext, InvariantAgain DEF TableTypes

LEMMA RevokeOf ==
  ASSUME TypeOK, NEW t, refresh_tokens' = Revoke(t)
  PROVE  /\ refresh_tokens' \subseteq Row /\ UniqueTokens' /\ RowsShrink
         /\ \A n \in refresh_tokens' : ~n.revoked => n \in refresh_tokens /\ n.token # t
         /\ \A row \in refresh_tokens : row.token # t => row \in refresh_tokens'
<1>1. FindByHash(t) \in SUBSET refresh_tokens
  BY DEF FindByHash
<1>2. refresh_tokens' = Revoked(FindByHash(t))
  BY DEF Revoke
<1>. QED
  BY <1>1, <1>2, RevokedOf, TypesAre DEF TableTypes, FindByHash

LEMMA RevokeAllOf ==
  ASSUME TypeOK, NEW u, refresh_tokens' = RevokeAllFor(u)
  PROVE  /\ refresh_tokens' \subseteq Row /\ UniqueTokens' /\ RowsShrink
         /\ \A n \in refresh_tokens' : n.user = u => n.revoked
         /\ \A row \in refresh_tokens : row.user # u => row \in refresh_tokens'
<1> DEFINE S == {row \in refresh_tokens : row.user = u /\ ~row.revoked}
<1>1. S \in SUBSET refresh_tokens /\ refresh_tokens' = Revoked(S)
  BY DEF RevokeAllFor
<1>2. /\ \A n \in refresh_tokens : n.user = u /\ ~n.revoked => n \in S
      /\ \A n \in refresh_tokens : n.user # u => n \notin S
  OBVIOUS
<1> HIDE DEF S
<1>. QED
  BY <1>1, <1>2, RevokedOf, TypesAre DEF TableTypes

(* Neither reaches the token of another call that runs alone: who presents *)
(* a token owns it, and a user whose call runs alone makes no other.       *)
LEMMA RevokeKeeps ==
  ASSUME IInv, NEW r \in Active, r \notin Answering,
         refresh_tokens' = Revoke(request[r].token)
  PROVE  AnswersKept
<1>1. SUFFICES ASSUME NEW a \in Answering, NEW row \in refresh_tokens,
                      request[a].alone, row.token = request[a].new
               PROVE  row \in refresh_tokens'
  BY DEF AnswersKept
<1>2. row.user = request[a].user /\ a \in Active
  BY <1>1 DEF IInv, Stored, Answering
<1>3. request[r].user # row.user
  BY <1>1, <1>2 DEF IInv, Alone
<1>4. row.token # request[r].token
  BY <1>3 DEF IInv, Owners
<1>. QED
  BY <1>4, RevokeOf DEF IInv

LEMMA RevokeAllKeeps ==
  ASSUME IInv, NEW r \in Active, r \notin Answering,
         refresh_tokens' = RevokeAllFor(request[r].user)
  PROVE  AnswersKept
<1>1. SUFFICES ASSUME NEW a \in Answering, NEW row \in refresh_tokens,
                      request[a].alone, row.token = request[a].new
               PROVE  row \in refresh_tokens'
  BY DEF AnswersKept
<1>2. row.user = request[a].user /\ a \in Active
  BY <1>1 DEF IInv, Stored, Answering
<1>3. request[r].user # row.user
  BY <1>1, <1>2 DEF IInv, Alone
<1>. QED
  BY <1>3, RevokeAllOf DEF IInv

LEMMA InsertUserStep ==
  ASSUME IInv, NEW r \in Active, InsertUser(r)
  PROVE  IInv'
<1>1. r \in Request /\ request[r].user \in Email /\ TypeOK /\ OtherTypes /\ TableTypes
  BY TypesAre, ActiveCalls DEF IInv
<1>2. users' \subseteq Email
  BY <1>1 DEF InsertUser, TableTypes
<1>3. refresh_tokens' \subseteq Row /\ UniqueTokens' /\ RowsShrink /\ AnswersKept
  BY <1>1, SameRows DEF InsertUser
<1>4. faults' \in 0 .. MaxFaults
  BY <1>1 DEF InsertUser, OtherTypes
<1>5. Return(r) /\ UNCHANGED <<generated, clients, now, history>>
  BY DEF InsertUser
<1>. QED
  BY <1>1, <1>2, <1>3, <1>4, <1>5, WriteAndReturn

LEMMA LogoutStep ==
  ASSUME IInv, NEW r \in Active, RevokeToken(r), request[r].op # "refresh"
  PROVE  IInv'
<1>1. r \in Request /\ TypeOK /\ OtherTypes /\ TableTypes
  BY TypesAre, ActiveCalls DEF IInv
<1>2. refresh_tokens' \subseteq Row /\ UniqueTokens' /\ RowsShrink /\ AnswersKept
  BY <1>1, RevokeOf, RevokeKeeps DEF RevokeToken, Answering
<1>3. users' \subseteq Email /\ faults' \in 0 .. MaxFaults
  BY <1>1 DEF RevokeToken, OtherTypes, TableTypes
<1>4. Return(r) /\ UNCHANGED <<generated, clients, now, history>>
  BY DEF RevokeToken
<1>. QED
  BY <1>1, <1>2, <1>3, <1>4, WriteAndReturn

(* Only here all sessions of a user end: no other request of the user's    *)
(* runs.                                                                   *)
LEMMA LogoutAllStep ==
  ASSUME IInv, NEW r \in Active, RevokeAll(r), request[r].op # "signin"
  PROVE  IInv'
<1>0. PICK u \in Email : u = request[r].user
  BY TypesAre, ActiveCalls DEF IInv
<1>1. r \in Request /\ TypeOK /\ OtherTypes /\ TableTypes
  BY TypesAre, ActiveCalls DEF IInv
<1>2. /\ refresh_tokens' \subseteq Row /\ UniqueTokens' /\ RowsShrink /\ AnswersKept
      /\ \A n \in refresh_tokens' : n.user = u => n.revoked
  BY <1>0, <1>1, RevokeAllOf, RevokeAllKeeps DEF RevokeAll, Answering
<1>3. /\ Return(r) /\ UNCHANGED <<users, generated, held, access, now, faults, overlapped>>
      /\ ended' = IF Of(u) = {r} THEN ended \cup {u} ELSE ended
  BY <1>0 DEF RevokeAll, clients
<1>4. RequestTypes' /\ CallsProceed /\ FoundFirst
  BY <1>1, <1>3, Returns
<1>5. OtherTypes'
  BY <1>1, <1>3 DEF OtherTypes
<1>6. CallsInOrder' /\ Generated' /\ Fresh' /\ Owners' /\ OneAtATime' /\ Alone' /\ Stored'
  <2>1. now \in Nat /\ HeldReturned
    BY <1>1, <1>3 DEF OtherTypes, Time, HeldReturned
  <2>. QED
    BY <1>2, <1>3, <1>4, <2>1, QuietTokens, QuietUsers, QuietStored
<1>7. EndedSessions'
  <2>1. CASE ended' = ended
    BY <1>2, <1>4, <2>1, QuietEnded
  <2>2. CASE Of(u) = {r} /\ ended' = ended \cup {u}
    <3>1. \A q \in Active' : q \in Active /\ q # r /\ request'[q] = request[q]
      BY <1>1, <1>3, ReturnOf, TypesAre
    <3>2. Of(u)' = {}
      BY <2>2, <3>1 DEF Of
    <3>3. ASSUME NEW v \in ended
          PROVE  /\ \A row \in refresh_tokens' : row.user = v => row.revoked
                 /\ \A q \in Of(v)' : /\ request'[q].op # "signin"
                                      /\ request'[q].op = "refresh" =>
                                           request'[q].step = "find"
      BY <1>2, <3>1, <3>3 DEF IInv, EndedSessions, RowsShrink, Of
    <3>. QED
      BY <1>2, <2>2, <3>2, <3>3 DEF EndedSessions
  <2>. QED
    BY <1>3, <2>1, <2>2
<1>8. QuietParts' /\ TableTypes'
  BY <1>1, <1>2, <1>3, <1>6, <1>7 DEF QuietParts, TableTypes
<1>. QED
  BY <1>2, <1>4, <1>5, <1>8, TypesAreNext, InvariantAgain


-----------------------------------------------------------------------------
(* Statements about tokens that are new.                                   *)

(* The token generated is known nowhere; the user, if alone, has no other. *)
LEMMA GenerateStep ==
  ASSUME IInv, NEW r \in Active, Generate(r),
         request[r].op \in {"signin", "refresh"},
         request[r].op = "refresh" => request[r].step # "find",
         request[r].step \notin {"insert", "answer"},
         refresh_tokens' \subseteq Row, UniqueTokens', RowsShrink, AnswersKept,
         request[r].user \notin overlapped =>
           \A n \in refresh_tokens' : n.user = request[r].user => n.revoked,
         UNCHANGED <<users, clients, now, faults, history>>
  PROVE  IInv'
<1>1. TypeOK /\ RequestTypes /\ OtherTypes /\ TableTypes /\ UniqueTokens
  BY TypesAre DEF IInv
<1>2. PICK c : /\ c = [request[r] EXCEPT !.step = "insert", !.new = generated + 1,
                                         !.expires_at = now + RefreshLife]
               /\ GoOn(r, c)
  BY DEF Generate
<1>3. /\ generated \in Nat /\ generated' = generated + 1
      /\ generated + 1 \in Token /\ now + RefreshLife \in Nat
  BY <1>1, SessionsAssumption DEF Generate, OtherTypes, Token, Time
<1>4. /\ c \in Call /\ c.step = "insert" /\ c.new = generated + 1
      /\ c.op = request[r].op /\ c.user = request[r].user /\ c.token = request[r].token
      /\ c.alone = request[r].alone
  BY <1>1, <1>2, <1>3, ActiveCalls DEF Call
<1>5. /\ RequestTypes' /\ request'[r] = c
      /\ \A q \in Active' : q \in Active /\ (q # r => request'[q] = request[q])
  BY <1>1, <1>2, <1>4, GoOnOf
<1>6. /\ \A row \in refresh_tokens : row.token \in Nat /\ row.token <= generated
      /\ \A h \in held : h.token \in Nat /\ h.token <= generated
      /\ \A q \in Active : /\ request[q].token \in Nat /\ request[q].token <= generated
                           /\ request[q].new \in Nat
  BY <1>1, <1>3, ActiveCalls
     DEF IInv, Generated, TableTypes, OtherTypes, Row, Token, NoToken
<1>7. OtherTypes'
  BY <1>1, <1>3, SessionsAssumption DEF OtherTypes, clients, history, Token, Generate
<1>8. TableTypes'
  BY <1>1 DEF TableTypes
<1>9. CallsInOrder'
  BY <1>4, <1>5, ZenonT(30) DEF IInv, CallsInOrder, Statements
<1>10. Generated'
  BY <1>3, <1>4, <1>5, <1>6 DEF Generated, RowsShrink, clients
<1>11. Fresh'
  <2>1. /\ \A q \in Inserting' : q = r \/ (q \in Inserting /\ request'[q] = request[q])
        /\ \A q \in Answering' : q \in Answering /\ request'[q] = request[q]
    BY <1>4, <1>5 DEF Inserting, Answering
  <2>2. \A q \in Inserting \cup Answering : request[q].new \in 1 .. generated
    BY DEF IInv, Fresh, Stored
  <2>3. SUFFICES ASSUME NEW q \in Inserting'
        PROVE  /\ request'[q].new \in 1 .. generated'
               /\ \A row \in refresh_tokens' : row.token # request'[q].new
               /\ \A h \in held' : h.token # request'[q].new
               /\ \A p \in Active' : request'[p].token # request'[q].new
               /\ \A p \in Inserting' \cup Answering' :
                    request'[p].new = request'[q].new => p = q
    BY DEF Fresh
  <2>4. CASE q = r
    BY <1>3, <1>4, <1>5, <1>6, <2>1, <2>2, <2>4 DEF RowsShrink, clients
  <2>5. CASE q # r
    <3>1. q \in Inserting /\ request'[q] = request[q]
      BY <2>1, <2>5
    <3>2. \A p \in Inserting' \cup Answering' : request'[p].new = request'[q].new => p = q
      BY <1>3, <1>4, <1>5, <2>1, <2>2, <2>5, <3>1 DEF IInv, Fresh
    <3>3. \A p \in Active' : request'[p].token # request'[q].new
      BY <1>4, <1>5, <3>1 DEF IInv, Fresh
    <3>. QED
      BY <1>3, <2>2, <3>1, <3>2, <3>3 DEF IInv, Fresh, RowsShrink, clients
  <2>. QED
    BY <2>4, <2>5
<1>12. Owners'
  BY <1>4, <1>5 DEF IInv, Owners, RowsShrink, clients
<1>13. EndedSessions'
  <2>1. request[r].user \notin ended
    BY DEF IInv, EndedSessions, Of
  <2>. QED
    BY <1>4, <1>5, <2>1 DEF IInv, EndedSessions, Of, RowsShrink, history
<1>14. OneAtATime'
  <2>1. SUFFICES ASSUME NEW u \in Email \ overlapped
        PROVE /\ \A q, p \in Of(u)' : q = p
              /\ \A row1, row2 \in refresh_tokens' :
                   row1.user = u /\ row2.user = u /\ ~row1.revoked /\ ~row2.revoked
                     => row1 = row2
              /\ \A q \in Of(u)', row \in refresh_tokens' :
                   row.user = u /\ ~row.revoked =>
                     /\ request'[q].step # "insert"
                     /\ request'[q].op = "refresh" /\ request'[q].step \in {"fetch_by_id", "revoke"}
                          => row.token = request'[q].token
    BY DEF OneAtATime, history
  <2>2. \A q \in Of(u)' : q \in Of(u) /\ (q # r => request'[q] = request[q])
    BY <1>4, <1>5 DEF Of
  <2>3. CASE u = request[r].user
    BY <2>2, <2>3 DEF IInv, OneAtATime
  <2>4. CASE u # request[r].user
    <3>1. \A q \in Of(u)' : q \in Of(u) /\ request'[q] = request[q]
      BY <2>2, <2>4 DEF Of
    <3>. QED
      BY <3>1 DEF IInv, OneAtATime, RowsShrink
  <2>. QED
    BY <2>3, <2>4
<1>15. Alone'
  BY <1>4, <1>5 DEF IInv, Alone
<1>16. Stored'
  <2>1. SUFFICES ASSUME NEW a \in Answering'
        PROVE  /\ request'[a].new \in 1 .. generated'
               /\ \A row \in refresh_tokens' :
                    row.token = request'[a].new => row.user = request'[a].user
               /\ request'[a].alone =>
                    \/ request'[a].expires_at < now'
                    \/ \E row \in refresh_tokens' :
                         /\ row.token = request'[a].new /\ ~row.revoked
                         /\ row.expires_at = request'[a].expires_at
    BY DEF Stored
  <2>2. a \in Answering /\ request'[a] = request[a] /\ now' = now
    BY <1>4, <1>5 DEF Answering
  <2>3. /\ request[a].new \in 1 .. generated
        /\ \A row \in refresh_tokens :
             row.token = request[a].new => row.user = request[a].user
        /\ request[a].alone =>
             \/ request[a].expires_at < now
             \/ \E row \in refresh_tokens :
                  /\ row.token = request[a].new /\ ~row.revoked
                  /\ row.expires_at = request[a].expires_at
    BY <2>2 DEF IInv, Stored
  <2>4. request[a].new \in 1 .. generated'
    BY <1>3, <2>3
  <2>5. \A row \in refresh_tokens' :
          row.token = request[a].new => row.user = request[a].user
    BY <2>3 DEF RowsShrink
  <2>6. ASSUME request[a].alone
        PROVE  \/ request[a].expires_at < now
               \/ \E row \in refresh_tokens' :
                    /\ row.token = request[a].new /\ ~row.revoked
                    /\ row.expires_at = request[a].expires_at
    BY <2>2, <2>3, <2>6 DEF AnswersKept
  <2>. QED
    BY <2>2, <2>4, <2>5, <2>6
<1>17. QuietParts'
  BY <1>9, <1>10, <1>11, <1>12, <1>13, <1>14, <1>15, <1>16 DEF QuietParts
<1>. QED
  BY <1>5, <1>7, <1>8, <1>17, TypesAreNext, InvariantAgain

LEMMA GeneratingSteps ==
  ASSUME IInv, NEW r \in Active,
         \/ RevokeToken(r) /\ request[r].op = "refresh"
         \/ RevokeAll(r) /\ request[r].op = "signin"
  PROVE  IInv'
<1>0. PICK u \in Email : u = request[r].user
  BY TypesAre, ActiveCalls DEF IInv
<1>1. TypeOK
  BY DEF IInv
<1>2. CASE RevokeToken(r) /\ request[r].op = "refresh"
  <2>1. /\ refresh_tokens' \subseteq Row /\ UniqueTokens' /\ RowsShrink /\ AnswersKept
        /\ \A n \in refresh_tokens' :
             ~n.revoked => n \in refresh_tokens /\ n.token # request[r].token
    BY <1>1, <1>2, RevokeOf, RevokeKeeps DEF RevokeToken, Answering
  <2>2. request[r].step = "revoke" /\ Generate(r)
        /\ UNCHANGED <<users, clients, now, faults, history>>
    BY <1>2 DEF RevokeToken
  <2>3. request[r].user \notin overlapped =>
          \A n \in refresh_tokens' : n.user = request[r].user => n.revoked
    BY <1>0, <1>2, <2>1, <2>2 DEF IInv, OneAtATime, Of
  <2>. QED
    BY <1>2, <2>1, <2>2, <2>3, GenerateStep
<1>3. CASE RevokeAll(r) /\ request[r].op = "signin"
  <2>1. /\ refresh_tokens' \subseteq Row /\ UniqueTokens' /\ RowsShrink /\ AnswersKept
        /\ \A n \in refresh_tokens' : n.user = request[r].user => n.revoked
    BY <1>1, <1>3, RevokeAllOf, RevokeAllKeeps DEF RevokeAll, Answering
  <2>2. /\ Generate(r) /\ request[r].step = "revoke_all"
        /\ UNCHANGED <<users, clients, now, faults, history>>
    BY <1>3 DEF RevokeAll, history
  <2>. QED
    BY <1>3, <2>1, <2>2, GenerateStep
<1>. QED
  BY <1>2, <1>3


(* The row inserted is the only one of a user who is alone, and belongs to *)
(* nobody whose sessions ended.  The call goes on to the answer, or ends   *)
(* if that is lost.                                                        *)
LEMMA InsertStep ==
  ASSUME IInv, NEW r \in Active, request[r].step = "insert",
         refresh_tokens' = Insert(request[r]),
         Return(r) \/ GoOn(r, [request[r] EXCEPT !.step = "answer"]),
         faults' \in 0 .. MaxFaults, UNCHANGED <<users, generated, clients, now, history>>
  PROVE  IInv'
<1>0. PICK c : c = request[r]
  OBVIOUS
<1>1. TypeOK /\ RequestTypes /\ OtherTypes /\ TableTypes /\ UniqueTokens /\ r \in Request
  BY TypesAre, ActiveCalls DEF IInv
<1>2. /\ RequestTypes'
      /\ \A q \in Active' :
           /\ q \in Active
           /\ request'[q].op = request[q].op /\ request'[q].user = request[q].user
           /\ request'[q].token = request[q].token /\ request'[q].new = request[q].new
           /\ request'[q].expires_at = request[q].expires_at
           /\ request'[q].alone = request[q].alone
           /\ q # r => request'[q].step = request[q].step
           /\ q = r => request'[q].step = "answer"
  <2>1. CASE Return(r)
    BY <1>1, <2>1, ReturnOf
  <2>2. CASE GoOn(r, [request[r] EXCEPT !.step = "answer"])
    <3>1. PICK d \in Call :
            /\ d = [request[r] EXCEPT !.step = "answer"]
            /\ d.op = request[r].op /\ d.user = request[r].user
            /\ d.token = request[r].token /\ d.new = request[r].new
            /\ d.expires_at = request[r].expires_at /\ d.alone = request[r].alone
            /\ d.step = "answer"
      BY <1>1, ActiveCalls DEF Call
    <3>2. GoOn(r, d)
      BY <2>2, <3>1
    <3>3. /\ RequestTypes' /\ request'[r] = d
          /\ \A q \in Active' : q \in Active /\ (q # r => request'[q] = request[q])
      BY <1>1, <3>2, GoOnOf
    <3>4. ASSUME NEW q \in Active'
          PROVE  /\ q \in Active
                 /\ request'[q].op = request[q].op /\ request'[q].user = request[q].user
                 /\ request'[q].token = request[q].token /\ request'[q].new = request[q].new
                 /\ request'[q].expires_at = request[q].expires_at
                 /\ request'[q].alone = request[q].alone
                 /\ q # r => request'[q].step = request[q].step
                 /\ q = r => request'[q].step = "answer"
      <4>1. CASE q = r
        BY <3>1, <3>3, <4>1
      <4>2. CASE q # r
        BY <3>3, <4>2
      <4>. QED
        BY <4>1, <4>2
    <3>. QED
      BY <3>3, <3>4
  <2>. QED
    BY <2>1, <2>2
<1>3. /\ r \in Inserting /\ c.new \in 1 .. generated
      /\ \A row \in refresh_tokens : row.token # c.new
      /\ \A h \in held : h.token # c.new
      /\ \A q \in Active : request[q].token # c.new
      /\ \A q \in Inserting \cup Answering : request[q].new = c.new => q = r
  BY <1>0 DEF IInv, Fresh, Inserting
<1>4. /\ generated \in Nat /\ c.new \in Token /\ c.user \in Email /\ c.expires_at \in Nat
      /\ c.new <= generated
  BY <1>0, <1>1, <1>3, ActiveCalls, SessionsAssumption DEF OtherTypes, Token
<1>5. PICK new \in Row : /\ new.token = c.new /\ new.user = c.user /\ ~new.revoked
                         /\ new.expires_at = c.expires_at
                         /\ refresh_tokens' = refresh_tokens \cup {new}
  BY <1>0, <1>4 DEF Insert, Row
<1>6. /\ \A q \in Inserting' : q \in Inserting /\ q # r
      /\ \A q \in Answering' : q = r \/ (q \in Answering /\ q # r)
  BY <1>2, <1>3 DEF Inserting, Answering
<1>7. TableTypes' /\ UniqueTokens'
  BY <1>1, <1>3, <1>5 DEF TableTypes, UniqueTokens
<1>8. OtherTypes'
  BY <1>1 DEF OtherTypes, clients, history
<1>9. request[r].op \in {"signin", "refresh"}
  <2>1. /\ request[r].step \in Statements(request[r].op)
        /\ request[r].op \in {"signup", "signin", "refresh", "logout", "logout_all", "me"}
    BY <1>1, ActiveCalls DEF IInv, CallsInOrder, Call
  <2>. QED
    BY <2>1 DEF Statements
<1>10. CallsInOrder'
  <2>1. SUFFICES ASSUME NEW q \in Active' PROVE request'[q].step \in Statements(request'[q].op)
    BY DEF CallsInOrder
  <2>2. CASE q = r
    BY <1>2, <1>9, <2>2 DEF Statements
  <2>3. CASE q # r
    BY <1>2, <2>3 DEF IInv, CallsInOrder
  <2>. QED
    BY <2>2, <2>3
<1>11. Generated'
  BY <1>2, <1>4, <1>5 DEF IInv, Generated, clients
<1>12. Fresh'
  <2>1. SUFFICES ASSUME NEW q \in Inserting'
        PROVE  /\ request'[q].new \in 1 .. generated'
               /\ \A row \in refresh_tokens' : row.token # request'[q].new
               /\ \A h \in held' : h.token # request'[q].new
               /\ \A p \in Active' : request'[p].token # request'[q].new
               /\ \A p \in Inserting' \cup Answering' :
                    request'[p].new = request'[q].new => p = q
    BY DEF Fresh
  <2>2. /\ q \in Inserting /\ q # r /\ q \in Active' /\ request'[q].new = request[q].new
        /\ request[q].new # c.new
    BY <1>2, <1>3, <1>6 DEF Inserting
  <2>3. /\ request[q].new \in 1 .. generated
        /\ \A row \in refresh_tokens : row.token # request[q].new
        /\ \A h \in held : h.token # request[q].new
        /\ \A p \in Active : request[p].token # request[q].new
        /\ \A p \in Inserting \cup Answering : request[p].new = request[q].new => p = q
    BY <2>2 DEF IInv, Fresh
  <2>4. \A p \in Inserting' \cup Answering' :
          p \in Inserting \cup Answering /\ request'[p].new = request[p].new
    BY <1>2, <1>3, <1>6 DEF Inserting, Answering
  <2>. QED
    BY <1>2, <1>5, <2>2, <2>3, <2>4 DEF clients
<1>13. Owners'
  BY <1>2, <1>3, <1>5 DEF IInv, Owners, clients
<1>14. EndedSessions'
  <2>1. c.user \notin ended
    BY <1>0, <1>9 DEF IInv, EndedSessions, Of
  <2>2. SUFFICES ASSUME NEW u \in ended
        PROVE  /\ \A row \in refresh_tokens' : row.user = u => row.revoked
               /\ \A q \in Of(u)' : /\ request'[q].op # "signin"
                                    /\ request'[q].op = "refresh" =>
                                         request'[q].step = "find"
    BY DEF EndedSessions, history
  <2>3. \A q \in Of(u)' : /\ q \in Of(u) /\ q # r /\ request'[q].op = request[q].op
                          /\ request'[q].step = request[q].step
    BY <1>0, <1>2, <2>1 DEF Of
  <2>. QED
    BY <1>5, <2>1, <2>3 DEF IInv, EndedSessions
<1>15. OneAtATime'
  <2>1. SUFFICES ASSUME NEW u \in Email \ overlapped
        PROVE /\ \A q, p \in Of(u)' : q = p
              /\ \A row1, row2 \in refresh_tokens' :
                   row1.user = u /\ row2.user = u /\ ~row1.revoked /\ ~row2.revoked
                     => row1 = row2
              /\ \A q \in Of(u)', row \in refresh_tokens' :
                   row.user = u /\ ~row.revoked =>
                     /\ request'[q].step # "insert"
                     /\ request'[q].op = "refresh"
                        /\ request'[q].step \in {"fetch_by_id", "revoke"}
                          => row.token = request'[q].token
    BY DEF OneAtATime, history
  <2>2. \A q \in Of(u)' : /\ q \in Of(u) /\ request'[q].op = request[q].op
                          /\ request'[q].token = request[q].token
                          /\ q # r => request'[q].step = request[q].step
                          /\ q = r => request'[q].step = "answer"
    BY <1>2 DEF Of
  <2>3. CASE u = c.user
    <3>1. r \in Of(u) /\ \A q \in Of(u) : q = r
      BY <1>0, <2>3 DEF IInv, OneAtATime, Of
    <3>2. \A row \in refresh_tokens : row.user = u => row.revoked
      BY <3>1 DEF IInv, OneAtATime
    <3>. QED
      BY <1>5, <2>2, <3>1, <3>2
  <2>4. CASE u # c.user
    <3>1. \A q \in Of(u) : q # r
      BY <1>0, <2>4 DEF Of
    <3>. QED
      BY <1>5, <2>2, <2>4, <3>1 DEF IInv, OneAtATime
  <2>. QED
    BY <2>3, <2>4
<1>16. Alone'
  BY <1>2 DEF IInv, Alone
<1>17. Stored'
  <2>1. SUFFICES ASSUME NEW a \in Answering'
        PROVE  /\ request[a].new \in 1 .. generated
               /\ \A row \in refresh_tokens' :
                    row.token = request[a].new => row.user = request[a].user
               /\ request[a].alone =>
                    \/ request[a].expires_at < now
                    \/ \E row \in refresh_tokens' :
                         /\ row.token = request[a].new /\ ~row.revoked
                         /\ row.expires_at = request[a].expires_at
    BY <1>2 DEF Stored, Answering
  <2>2. CASE a = r
    BY <1>0, <1>3, <1>5, <2>2
  <2>3. CASE a # r
    <3>1. a \in Answering /\ request[a].new # c.new
      BY <1>3, <1>6, <2>3
    <3>. QED
      BY <1>5, <3>1 DEF IInv, Stored
  <2>. QED
    BY <2>2, <2>3
<1>18. QuietParts'
  BY <1>10, <1>11, <1>12, <1>13, <1>14, <1>15, <1>16, <1>17 DEF QuietParts
<1>. QED
  BY <1>2, <1>7, <1>8, <1>18, TypesAreNext, InvariantAgain

LEMMA InsertTokenStep ==
  ASSUME IInv, NEW r \in Active, InsertToken(r)
  PROVE  IInv'
<1>1. faults' \in 0 .. MaxFaults
  BY TypesAre DEF IInv, OtherTypes, InsertToken
<1>. QED
  BY <1>1, InsertStep DEF InsertToken

(* The client is given the token that was stored.                          *)
LEMMA AnswerStep ==
  ASSUME IInv, NEW r \in Active, Answer(r)
  PROVE  IInv'
<1>0. PICK c \in Call : c = request[r]
  BY TypesAre, ActiveCalls DEF IInv
<1>1. TypeOK /\ RequestTypes /\ OtherTypes /\ TableTypes /\ r \in Request
  BY TypesAre, ActiveCalls DEF IInv
<1>2. /\ Return(r) /\ UNCHANGED <<users, refresh_tokens, generated, now, faults, history>>
      /\ c.step = "answer" /\ r \in Answering
      /\ held' = held \cup {[token |-> c.new, user |-> c.user]}
  BY <1>0 DEF Answer, ReturnedToken, Answering, tables
<1>3. c.new \in Token /\ c.user \in Email
  <2>1. c.new \in 1 .. generated
    BY <1>0, <1>2 DEF IInv, Stored
  <2>2. c.new \in Token
    BY <1>1, <2>1, SessionsAssumption DEF OtherTypes, Token
  <2>. QED
    BY <2>2 DEF Call
<1>4. access' \subseteq AccessToken
  <2>1. now + AccessLife \in Nat /\ c.exp \in Nat
    BY <1>1, SessionsAssumption DEF OtherTypes, Time, Call
  <2>2. PICK exp \in Nat : access' = access \cup {[user |-> c.user, exp |-> exp]}
    BY <1>0, <2>1 DEF Answer
  <2>. QED
    BY <1>1, <1>3, <2>2 DEF OtherTypes, AccessToken
<1>5. OtherTypes'
  BY <1>1, <1>2, <1>3, <1>4 DEF OtherTypes, history
<1>6. RequestTypes' /\ CallsProceed /\ FoundFirst
  BY <1>1, <1>2, Returns
<1>7. TableTypes' /\ UniqueTokens' /\ RowsShrink /\ AnswersKept
  BY <1>1, <1>2, SameRows DEF TableTypes
<1>8. HeldReturned
  <2>1. \A h \in held' : h \in held \/ (h.token = c.new /\ h.user = c.user)
    BY <1>2
  <2>. QED
    BY <1>0, <1>2, <2>1 DEF HeldReturned
<1>9. now' \in Nat /\ now <= now'
  BY <1>1, <1>2 DEF OtherTypes, Time
<1>10. QuietParts'
  BY <1>2, <1>6, <1>7, <1>8, <1>9, QuietStep DEF history
<1>. QED
  BY <1>5, <1>6, <1>7, <1>10, TypesAreNext, InvariantAgain

(* A statement that fails, executed or not.                                *)
LEMMA FailureStep ==
  ASSUME IInv, NEW r \in Request, StatementFails(r)
  PROVE  IInv'
<1>1. TypeOK /\ RequestTypes /\ OtherTypes /\ TableTypes /\ r \in Active
  BY TypesAre, ActiveCalls DEF IInv, StatementFails
<1>2. /\ Return(r) /\ UNCHANGED <<generated, clients, now, history>>
      /\ faults' \in 0 .. MaxFaults /\ request[r].step # "answer"
  BY <1>1, SessionsAssumption DEF StatementFails, OtherTypes
<1>3. CASE UNCHANGED tables
  <2>1. /\ users' \subseteq Email /\ refresh_tokens' \subseteq Row /\ UniqueTokens'
        /\ RowsShrink /\ AnswersKept
    BY <1>1, <1>3, SameRows DEF tables, TableTypes
  <2>. QED
    BY <1>2, <2>1, WriteAndReturn
<1>4. CASE users' = users \cup {request[r].user} /\ UNCHANGED refresh_tokens
  <2>1. /\ users' \subseteq Email /\ refresh_tokens' \subseteq Row /\ UniqueTokens'
        /\ RowsShrink /\ AnswersKept
    BY <1>1, <1>4, SameRows, ActiveCalls DEF TableTypes
  <2>. QED
    BY <1>2, <2>1, WriteAndReturn
<1>5. CASE refresh_tokens' = Revoke(request[r].token) /\ UNCHANGED users
  <2>1. /\ users' \subseteq Email /\ refresh_tokens' \subseteq Row /\ UniqueTokens'
        /\ RowsShrink /\ AnswersKept
    BY <1>1, <1>2, <1>5, RevokeOf, RevokeKeeps DEF TableTypes, Answering
  <2>. QED
    BY <1>2, <2>1, WriteAndReturn
<1>6. CASE refresh_tokens' = RevokeAllFor(request[r].user) /\ UNCHANGED users
  <2>1. /\ users' \subseteq Email /\ refresh_tokens' \subseteq Row /\ UniqueTokens'
        /\ RowsShrink /\ AnswersKept
    BY <1>1, <1>2, <1>6, RevokeAllOf, RevokeAllKeeps DEF TableTypes, Answering
  <2>. QED
    BY <1>2, <2>1, WriteAndReturn
<1>7. CASE request[r].step = "insert" /\ refresh_tokens' = Insert(request[r])
           /\ UNCHANGED users
  BY <1>1, <1>2, <1>7, InsertStep DEF OtherTypes, clients
<1>8. \/ UNCHANGED tables
      \/ users' = users \cup {request[r].user} /\ UNCHANGED refresh_tokens
      \/ refresh_tokens' = Revoke(request[r].token) /\ UNCHANGED users
      \/ refresh_tokens' = RevokeAllFor(request[r].user) /\ UNCHANGED users
      \/ request[r].step = "insert" /\ refresh_tokens' = Insert(request[r]) /\ UNCHANGED users
  BY DEF StatementFails
<1>. QED
  BY <1>3, <1>4, <1>5, <1>6, <1>7, <1>8


-----------------------------------------------------------------------------
(* A call begins.                                                          *)

LEMMA BeginStep ==
  ASSUME IInv, NEW r \in Request, NEW c \in Call, Begin(r, c),
         c.step \in Statements(c.op) \ {"insert", "answer"},
         c.op = "refresh" => c.step = "find",
         c.token = NoToken \/ \E h \in held : h.token = c.token /\ h.user = c.user
  PROVE  IInv'
<1>1. TypeOK /\ RequestTypes /\ OtherTypes /\ TableTypes /\ UniqueTokens
  BY TypesAre DEF IInv
<1>2. c.user \in Email /\ c # NoCall /\ c.token \in Nat
  BY SessionsAssumption DEF Call, Token, NoToken
<1>3. UNCHANGED <<users, refresh_tokens, generated, held, access, now, faults>>
  BY DEF Begin, tables, clients
<1>4. PICK d \in Call :
        /\ d.op = c.op /\ d.step = c.step /\ d.user = c.user /\ d.token = c.token
        /\ d.alone => Of(c.user) = {}
        /\ request'[r] = d
  <2>1. [c EXCEPT !.alone = Of(c.user) = {}] \in Call
    BY DEF Call
  <2>. QED
    BY <2>1 DEF Begin, Call
<1>5. ASSUME NEW q \in Request, q # r
      PROVE  /\ request'[q] \in Call \cup {NoCall}
             /\ request'[q] # NoCall <=> request[q] # NoCall
             /\ request[q] # NoCall =>
                  /\ request'[q].op = request[q].op /\ request'[q].step = request[q].step
                  /\ request'[q].user = request[q].user
                  /\ request'[q].token = request[q].token
                  /\ request'[q].new = request[q].new
                  /\ request'[q].expires_at = request[q].expires_at
                  /\ request'[q].alone => request[q].alone /\ request[q].user # c.user
  <2>1. CASE q \in Of(c.user)
    <3>1. request[q] \in Call /\ request'[q] = [request[q] EXCEPT !.alone = FALSE]
      BY <1>1, <1>5, <2>1, ActiveCalls DEF Begin, Of
    <3>2. request'[q] \in Call
      BY <3>1 DEF Call
    <3>3. ~request'[q].alone
      BY <3>1 DEF Call
    <3>. QED
      BY <3>1, <3>2, <3>3, SessionsAssumption DEF Call
  <2>2. CASE q \notin Of(c.user)
    <3>1. request'[q] = request[q] /\ request[q] \in Call \cup {NoCall}
      BY <1>1, <1>5, <2>2 DEF Begin, RequestTypes
    <3>2. request[q] # NoCall => request[q].user # c.user
      BY <2>2, <1>5 DEF Of, Active
    <3>. QED
      BY <3>1, <3>2
  <2>. QED
    BY <2>1, <2>2
<1>6. RequestTypes'
  <2>1. request' \in [Request -> Call \cup {NoCall}]
    <3>1. \A q \in Request : request'[q] \in Call \cup {NoCall}
      BY <1>4, <1>5
    <3>2. request' = [q \in Request |-> request'[q]]
      BY DEF Begin
    <3>. QED
      BY <3>1, <3>2
  <2>. QED
    BY <2>1 DEF RequestTypes
<1>7. /\ r \in Active' /\ r \notin Active
      /\ \A q \in Active' : q \in Request /\ (q = r \/ q \in Active)
      /\ \A q \in Active' : q # r =>
           /\ request'[q].op = request[q].op /\ request'[q].step = request[q].step
           /\ request'[q].user = request[q].user /\ request'[q].token = request[q].token
           /\ request'[q].new = request[q].new
           /\ request'[q].expires_at = request[q].expires_at
           /\ request'[q].alone => request[q].alone /\ request[q].user # c.user
  BY <1>2, <1>4, <1>5, SessionsAssumption DEF Active, Begin
<1>8. TableTypes' /\ UniqueTokens'
  BY <1>1, <1>3 DEF TableTypes, UniqueTokens
<1>9. OtherTypes'
  BY <1>1, <1>2, <1>3 DEF OtherTypes, Begin
<1>10. CallsInOrder'
  BY <1>4, <1>7 DEF IInv, CallsInOrder
<1>11. Generated'
  BY <1>1, <1>3, <1>4, <1>7 DEF IInv, Generated, NoToken, OtherTypes
<1>12. Fresh'
  <2>1. /\ \A q \in Inserting' : q \in Inserting /\ q # r /\ request'[q].new = request[q].new
        /\ \A q \in Answering' : q \in Answering /\ q # r /\ request'[q].new = request[q].new
    BY <1>4, <1>7 DEF Inserting, Answering
  <2>2. SUFFICES ASSUME NEW q \in Inserting'
        PROVE  /\ request'[q].new \in 1 .. generated'
               /\ \A row \in refresh_tokens' : row.token # request'[q].new
               /\ \A h \in held' : h.token # request'[q].new
               /\ \A p \in Active' : request'[p].token # request'[q].new
               /\ \A p \in Inserting' \cup Answering' :
                    request'[p].new = request'[q].new => p = q
    BY DEF Fresh
  <2>3. /\ request[q].new \in 1 .. generated
        /\ \A row \in refresh_tokens : row.token # request[q].new
        /\ \A h \in held : h.token # request[q].new
        /\ \A p \in Active : request[p].token # request[q].new
        /\ \A p \in Inserting \cup Answering : request[p].new = request[q].new => p = q
    BY <2>1 DEF IInv, Fresh
  <2>4. c.token # request[q].new
    BY <1>1, <2>3 DEF NoToken, OtherTypes
  <2>. QED
    BY <1>3, <1>4, <1>7, <2>1, <2>3, <2>4
<1>13. Owners'
  <2>1. \A row \in refresh_tokens : c.token = row.token => c.user = row.user
    BY <1>1 DEF IInv, Owners, TableTypes, Row, Token, NoToken
  <2>. QED
    BY <1>3, <1>4, <1>7, <2>1 DEF IInv, Owners
<1>14. EndedSessions'
  <2>1. ended' \subseteq ended /\ (c.op = "signin" => c.user \notin ended')
    BY DEF Begin
  <2>2. SUFFICES ASSUME NEW u \in ended'
        PROVE  /\ \A row \in refresh_tokens' : row.user = u => row.revoked
               /\ \A q \in Of(u)' : /\ request'[q].op # "signin"
                                    /\ request'[q].op = "refresh" =>
                                         request'[q].step = "find"
    BY DEF EndedSessions
  <2>3. \A row \in refresh_tokens' : row.user = u => row.revoked
    BY <1>3, <2>1 DEF IInv, EndedSessions
  <2>4. \A q \in Of(u)' : (q = r /\ u = c.user) \/ (q \in Of(u) /\ q # r /\ q \in Active')
    BY <1>4, <1>7 DEF Of
  <2>5. ASSUME NEW q \in Of(u)'
        PROVE  /\ request'[q].op # "signin"
               /\ request'[q].op = "refresh" => request'[q].step = "find"
    <3>1. CASE q = r
      BY <1>4, <2>1, <2>4, <3>1
    <3>2. CASE q # r
      BY <1>7, <2>1, <2>4, <3>2 DEF IInv, EndedSessions
    <3>. QED
      BY <3>1, <3>2
  <2>. QED
    BY <2>3, <2>5
<1>15. OneAtATime'
  <2>1. overlapped \subseteq overlapped' /\ (Of(c.user) # {} => c.user \in overlapped')
    BY DEF Begin
  <2>2. SUFFICES ASSUME NEW u \in Email \ overlapped'
        PROVE /\ \A q, p \in Of(u)' : q = p
              /\ \A row1, row2 \in refresh_tokens' :
                   row1.user = u /\ row2.user = u /\ ~row1.revoked /\ ~row2.revoked
                     => row1 = row2
              /\ \A q \in Of(u)', row \in refresh_tokens' :
                   row.user = u /\ ~row.revoked =>
                     /\ request'[q].step # "insert"
                     /\ request'[q].op = "refresh" /\ request'[q].step \in {"fetch_by_id", "revoke"}
                          => row.token = request'[q].token
    BY DEF OneAtATime
  <2>3. \A q \in Of(u)' : (q = r /\ u = c.user) \/ (q \in Of(u) /\ q # r)
    BY <1>4, <1>7 DEF Of
  <2>4. u \in Email \ overlapped
    BY <2>1
  <2>5. \A q, p \in Of(u)' : q = p
    BY <2>1, <2>3, <2>4 DEF IInv, OneAtATime
  <2>6. \A row1, row2 \in refresh_tokens' :
          row1.user = u /\ row2.user = u /\ ~row1.revoked /\ ~row2.revoked => row1 = row2
    BY <1>3, <2>4 DEF IInv, OneAtATime
  <2>7. ASSUME NEW q \in Of(u)', NEW row \in refresh_tokens', row.user = u, ~row.revoked
        PROVE  /\ request'[q].step # "insert"
               /\ request'[q].op = "refresh" /\ request'[q].step \in {"fetch_by_id", "revoke"}
                    => row.token = request'[q].token
    <3>1. CASE q = r
      BY <1>4, <3>1
    <3>2. CASE q # r
      BY <1>3, <1>7, <2>3, <2>4, <2>7, <3>2 DEF IInv, OneAtATime, Of
    <3>. QED
      BY <3>1, <3>2
  <2>. QED
    BY <2>5, <2>6, <2>7
<1>16. Alone'
  <2>1. SUFFICES ASSUME NEW q \in Active', request'[q].alone,
                        NEW p \in Active', request'[p].user = request'[q].user
                 PROVE  p = q
    BY DEF Alone
  <2>2. CASE q = r
    <3>1. Of(c.user) = {} /\ request'[q].user = c.user
      BY <1>4, <2>1, <2>2
    <3>2. ASSUME p # r PROVE FALSE
      <4>1. p \in Active /\ request[p].user = c.user
        BY <1>7, <2>1, <3>1, <3>2
      <4>. QED
        BY <3>1, <4>1 DEF Of
    <3>. QED
      BY <2>2, <3>2
  <2>3. CASE q # r
    <3>1. /\ q \in Active /\ request[q].alone /\ request'[q].user = request[q].user
          /\ request[q].user # c.user
      BY <1>7, <2>1, <2>3
    <3>2. p # r
      BY <1>4, <2>1, <3>1
    <3>3. p \in Active /\ request[p].user = request[q].user
      BY <1>7, <2>1, <3>1, <3>2
    <3>. QED
      BY <3>1, <3>3 DEF IInv, Alone
  <2>. QED
    BY <2>2, <2>3
<1>17. Stored'
  <2>1. \A a \in Answering' :
          /\ a \in Answering
          /\ request'[a].new = request[a].new /\ request'[a].user = request[a].user
          /\ request'[a].expires_at = request[a].expires_at
          /\ request'[a].alone => request[a].alone
    BY <1>4, <1>7 DEF Answering
  <2>. QED
    BY <1>3, <2>1 DEF IInv, Stored
<1>18. QuietParts'
  BY <1>10, <1>11, <1>12, <1>13, <1>14, <1>15, <1>16, <1>17 DEF QuietParts
<1>. QED
  BY <1>6, <1>8, <1>9, <1>18, TypesAreNext, InvariantAgain


(* What a client asks for, and with which token.                           *)
LEMMA AskingSteps ==
  ASSUME IInv, NEW r \in Request, ClientAsks(r)
  PROVE  IInv'
<1>1. OtherTypes
  BY TypesAre DEF IInv
<1>2. ASSUME NEW op \in {"signup", "signin", "logout_all", "me"},
             NEW step \in Statements(op) \ {"insert", "answer"}, NEW u \in Email,
             Begin(r, Asks(op, step, u, NoToken))
      PROVE  IInv'
  <2> DEFINE c == Asks(op, step, u, NoToken)
  <2>1. /\ c \in Call /\ c.op = op /\ c.step = step /\ c.token = NoToken
    BY <1>2 DEF Asks, Call, NoToken, Statements
  <2>2. Begin(r, c)
    BY <1>2
  <2> HIDE DEF c
  <2>. QED
    BY <2>1, <2>2, BeginStep
<1>3. ASSUME NEW h \in held, NEW op, NEW step,
             (op = "refresh" /\ step = "find") \/ (op = "logout" /\ step = "revoke"),
             Begin(r, Asks(op, step, h.user, h.token))
      PROVE  IInv'
  <2> DEFINE c == Asks(op, step, h.user, h.token)
  <2>1. h.user \in Email /\ h.token \in Token
    BY <1>1 DEF OtherTypes
  <2>2. step \in Statements(op) \ {"insert", "answer"}
    BY <1>3 DEF Statements
  <2>3. /\ c \in Call /\ c.op = op /\ c.step = step
        /\ c.user = h.user /\ c.token = h.token
    BY <1>3, <2>1 DEF Asks, Call, NoToken
  <2>4. Begin(r, c)
    BY <1>3
  <2> HIDE DEF c
  <2>5. \E g \in held : g.token = c.token /\ g.user = c.user
    BY <2>3
  <2>. QED
    BY <1>3, <2>2, <2>3, <2>4, <2>5, BeginStep
<1>4. ASSUME NEW u \in Email, SignUp(r, u) \/ SignIn(r, u) \/ LogoutAllDevices(r, u)
      PROVE  IInv'
  BY <1>2, <1>4 DEF SignUp, SignIn, LogoutAllDevices, Statements
<1>5. ASSUME NEW h \in held, RefreshAccessToken(r, h) \/ Logout(r, h)
      PROVE  IInv'
  BY <1>3, <1>5 DEF RefreshAccessToken, Logout
<1>6. ASSUME NEW a \in access, GetMe(r, a)
      PROVE  IInv'
  <2>1. a.user \in Email
    BY <1>1 DEF OtherTypes, AccessToken
  <2>. QED
    BY <1>2, <1>6, <2>1 DEF GetMe, Statements
<1>. QED
  BY <1>4, <1>5, <1>6 DEF ClientAsks

-----------------------------------------------------------------------------
(* Time, and rows that time deletes.                                       *)

LEMMA IdleStep ==
  ASSUME IInv, UNCHANGED <<users, request, generated, clients, faults, history>>,
         refresh_tokens' \subseteq refresh_tokens, now' \in Time, now <= now',
         AnswersKept
  PROVE  IInv'
<1>1. TypeOK /\ RequestTypes /\ OtherTypes /\ TableTypes /\ UniqueTokens
  BY TypesAre DEF IInv
<1>2. TableTypes' /\ UniqueTokens' /\ RowsShrink
  BY <1>1, SubsetShrinks DEF TableTypes
<1>3. RequestTypes' /\ OtherTypes'
  BY <1>1 DEF RequestTypes, OtherTypes, clients, history
<1>4. CallsProceed /\ FoundFirst
  BY DEF IInv, CallsInOrder, CallsProceed, FoundFirst, Active
<1>5. HeldReturned /\ now' \in Nat
  BY DEF HeldReturned, clients, Time
<1>6. QuietParts'
  BY <1>2, <1>4, <1>5, QuietStep DEF history
<1>. QED
  BY <1>2, <1>3, <1>6, TypesAreNext, InvariantAgain

LEMMA InitInvariant == Init => IInv
<1>1. SUFFICES ASSUME Init PROVE IInv
  OBVIOUS
<1>2. Active = {} /\ refresh_tokens = {} /\ held = {} /\ ended = {}
      /\ Inserting = {} /\ Answering = {}
  <2>1. \A r \in Request : request[r] = NoCall
    BY <1>1 DEF Init
  <2>. QED
    BY <1>1, <2>1 DEF Init, Active, Inserting, Answering
<1>3. TypeOK
  <2>1. MaxTokens \in Nat /\ MaxTime \in Nat /\ MaxFaults \in Nat
    BY SessionsAssumption
  <2>. QED
    BY <1>1, <2>1 DEF Init, TypeOK, Time
<1>. QED
  BY <1>2, <1>3
     DEF IInv, CallsInOrder, Generated, Fresh, Owners, EndedSessions, OneAtATime, Of,
         Alone, Stored

LEMMA StepInvariant == IInv /\ [Next]_vars => IInv'
<1>1. SUFFICES ASSUME IInv, [Next]_vars PROVE IInv'
  OBVIOUS
<1>2. TypeOK /\ RequestTypes /\ OtherTypes
  BY <1>1, TypesAre DEF IInv
<1>3. ASSUME NEW r \in Request, ClientAsks(r) PROVE IInv'
  BY <1>1, <1>3, AskingSteps
<1>4. ASSUME NEW r \in Request, Statement(r) PROVE IInv'
  <2>1. r \in Active
    BY <1>4 DEF Statement, Active
  <2>2. CASE CheckEmail(r) \/ FetchUser(r) \/ Find(r) \/ FetchById(r)
    BY <1>1, <2>1, <2>2, LookupSteps
  <2>3. CASE InsertUser(r)
    BY <1>1, <2>1, <2>3, InsertUserStep
  <2>4. CASE RevokeToken(r)
    BY <1>1, <2>1, <2>4, LogoutStep, GeneratingSteps
  <2>5. CASE RevokeAll(r)
    BY <1>1, <2>1, <2>5, LogoutAllStep, GeneratingSteps
  <2>6. CASE InsertToken(r)
    BY <1>1, <2>1, <2>6, InsertTokenStep
  <2>7. CASE Answer(r)
    BY <1>1, <2>1, <2>7, AnswerStep
  <2>. QED
    BY <1>4, <2>2, <2>3, <2>4, <2>5, <2>6, <2>7 DEF Statement
<1>5. ASSUME NEW r \in Request, StatementFails(r) PROVE IInv'
  BY <1>1, <1>5, FailureStep
<1>6. CASE Tick
  <2>1. now' \in Time /\ now <= now'
    BY <1>2, <1>6, SessionsAssumption DEF Tick, OtherTypes, Time
  <2>2. AnswersKept
    BY <1>6 DEF Tick, tables, AnswersKept
  <2>. QED
    BY <1>1, <1>6, <2>1, <2>2, IdleStep DEF Tick, tables
<1>7. CASE DeleteExpired
  <2>1. AnswersKept
    BY <1>7 DEF DeleteExpired, AnswersKept
  <2>2. now' \in Time /\ now <= now'
    BY <1>2, <1>7 DEF DeleteExpired, OtherTypes, Time
  <2>. QED
    BY <1>1, <1>2, <1>7, <2>1, <2>2, IdleStep DEF DeleteExpired
<1>8. CASE UNCHANGED vars
  <2>1. AnswersKept
    BY <1>8 DEF vars, tables, AnswersKept
  <2>2. now' \in Time /\ now <= now'
    BY <1>2, <1>8 DEF vars, OtherTypes, Time
  <2>. QED
    BY <1>1, <1>2, <1>8, <2>1, <2>2, IdleStep DEF vars, tables
<1>. QED
  BY <1>1, <1>3, <1>4, <1>5, <1>6, <1>7, <1>8 DEF Next

(* The inductive invariant holds.                                          *)
THEOREM Invariant == Spec => []IInv
BY InitInvariant, StepInvariant, PTL DEF Spec

(* Tables, calls and clients have their types, and no two rows hold one    *)
(* token (create_refresh_token).                                           *)
THEOREM SessionTypesCorrect == Spec => []TypeOK
<1>1. IInv => TypeOK
  BY DEF IInv
<1>. QED
  BY <1>1, Invariant, PTL

(* A user whose requests never overlapped has one session at most          *)
(* (auth_service.rs signin, refresh_access_token).                         *)
THEOREM OneSessionPerUser == Spec => []SingleSession
<1>1. IInv => SingleSession
  <2>1. SUFFICES ASSUME IInv, NEW u \in Email \ overlapped
                 PROVE  Cardinality(ValidFor(u)) <= 1
    BY DEF SingleSession
  <2>2. \A row1, row2 \in ValidFor(u) : row1 = row2
    BY <2>1 DEF IInv, OneAtATime, ValidFor
  <2>3. CASE ValidFor(u) = {}
    BY <2>3, FS_EmptySet
  <2>4. CASE ValidFor(u) # {}
    <3>1. PICK row : ValidFor(u) = {row}
      BY <2>2, <2>4
    <3>2. Cardinality(ValidFor(u)) = 1
      BY <3>1, FS_Singleton, Zenon
    <3>. QED
      BY <3>2
  <2>. QED
    BY <2>3, <2>4
<1>. QED
  BY <1>1, Invariant, PTL

(* Once all sessions of a user were ended, no token of the user's is valid *)
(* until the next sign-in (auth_service.rs logout_all_devices).            *)
THEOREM LogoutsAreFinal == Spec => []LogoutIsFinal
<1>1. IInv => LogoutIsFinal
  BY DEF IInv, EndedSessions, LogoutIsFinal, ValidFor
<1>. QED
  BY <1>1, Invariant, PTL

(* A token returned to a user whose request ran alone can be used: the     *)
(* requests of other users, failed statements and clean-ups between its    *)
(* insertion and the answer leave it (auth_service.rs                      *)
(* create_refresh_token).                                                  *)
THEOREM ReturnedTokensWork == Spec => ReturnedTokenWorks
<1> DEFINE Works ==
  \A r \in Request :
    LET c == request[r]
    IN  /\ c # NoCall /\ c.step = "answer" /\ request'[r] = NoCall
        /\ c.alone /\ ~(c.expires_at < now)
        => \E row \in FindByHash(ReturnedToken(c)) : Usable(row)
<1>1. IInv => Works
  <2>1. SUFFICES ASSUME IInv, NEW r \in Answering,
                        request[r].alone, ~(request[r].expires_at < now)
                 PROVE  \E row \in FindByHash(ReturnedToken(request[r])) : Usable(row)
    BY DEF Answering, Active
  <2>2. PICK row \in refresh_tokens : /\ row.token = request[r].new /\ ~row.revoked
                                      /\ row.expires_at = request[r].expires_at
    BY <2>1 DEF IInv, Stored
  <2>3. row \in FindByHash(ReturnedToken(request[r])) /\ Usable(row)
    BY <2>1, <2>2 DEF FindByHash, ReturnedToken, Usable
  <2>. QED
    BY <2>3
<1>2. ReturnedTokenWorks <=> [][Works]_vars
  BY DEF ReturnedTokenWorks
<1> HIDE DEF Works
<1>. QED
  BY <1>1, <1>2, Invariant, PTL


===============================================================================
