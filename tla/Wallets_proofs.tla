---------------------------- MODULE Wallets_proofs ----------------------------
(***************************************************************************)
(* Proofs about Wallets: grants follow wallets, wallets follow creations   *)
(* that ran at the same time, and only owners pay, for every number of     *)
(* users, requests, wallets, lamports and faults.                          *)
(***************************************************************************)
EXTENDS Wallets, FiniteSetTheorems, TLAPS

WalletTypes == solana_wallets \in [WalletId -> User \cup {NoCall}]
ChainTypes == chain \in [WalletId -> Nat]
RequestTypes == request \in [Request -> Call \cup {NoCall}]
CountTypes ==
  /\ granted \in [User -> Nat] /\ created \in [User -> Nat] /\ peak \in [User -> Nat]

Types == WalletTypes /\ ChainTypes /\ RequestTypes /\ CountTypes

(* Creations of a user that found no wallet and have not inserted one, and *)
(* those whose wallet has not been granted its funds.                      *)
Pending(u) == {r \in Creating(u) : request[r].step \in {"user_exists", "insert"}}
Granting(u) == {r \in Creating(u) : request[r].step = "grant"}

(* Only finitely many requests run, so that they have a number.            *)
FiniteActive == IsFiniteSet(Active)

(* Which call makes which steps; a transfer that goes on owns its wallet.  *)
StepsInOrder ==
  \A r \in Active :
    IF request[r].op = "create"
    THEN request[r].step \in {"list", "user_exists", "insert", "grant"}
    ELSE /\ request[r].step \in {"get_wallet", "balance", "send"}
         /\ request[r].step # "get_wallet" => request[r].wallet \in WalletsOf(request[r].user)

(* What the creations under way will still add is accounted for.           *)
Accounted ==
  \A u \in User :
    /\ Cardinality(Creating(u)) <= peak[u]
    /\ Cardinality(WalletsOf(u)) + Cardinality(Pending(u)) <= peak[u]
    /\ granted[u] + Cardinality(Granting(u)) <= Cardinality(WalletsOf(u))
    /\ created[u] <= granted[u]

IInv == Types /\ FiniteActive /\ StepsInOrder /\ Accounted

-----------------------------------------------------------------------------
(* Cardinalities.                                                          *)

LEMMA Fewer ==
  ASSUME NEW S, IsFiniteSet(S), NEW T \in SUBSET S
  PROVE  IsFiniteSet(T) /\ Cardinality(T) <= Cardinality(S) /\ Cardinality(T) \in Nat
BY FS_Subset, FS_CardinalityType

LEMMA OneMore ==
  ASSUME NEW S, IsFiniteSet(S), NEW x, NEW T, T \subseteq S \cup {x}
  PROVE  IsFiniteSet(T) /\ Cardinality(T) <= Cardinality(S) + 1
<1>1. IsFiniteSet(S \cup {x}) /\ Cardinality(S) \in Nat
      /\ Cardinality(S \cup {x}) \in {Cardinality(S), Cardinality(S) + 1}
  BY FS_AddElement, FS_CardinalityType
<1>2. IsFiniteSet(T) /\ Cardinality(T) <= Cardinality(S \cup {x}) /\ Cardinality(T) \in Nat
  BY <1>1, Fewer
<1>. QED
  BY <1>1, <1>2

LEMMA OneLess ==
  ASSUME NEW S, IsFiniteSet(S), NEW x \in S, NEW T, T \subseteq S \ {x}
  PROVE  IsFiniteSet(T) /\ Cardinality(T) <= Cardinality(S) - 1
<1>1. IsFiniteSet(S \ {x}) /\ Cardinality(S \ {x}) = Cardinality(S) - 1
      /\ Cardinality(S) \in Nat
  BY FS_RemoveElement, FS_CardinalityType
<1>2. IsFiniteSet(T) /\ Cardinality(T) <= Cardinality(S \ {x})
  BY <1>1, Fewer
<1>. QED
  BY <1>1, <1>2

(* The sets that are counted are finite.                                   *)
LEMMA Counted ==
  ASSUME FiniteActive, NEW u
  PROVE  /\ IsFiniteSet(Creating(u)) /\ Cardinality(Creating(u)) \in Nat
         /\ IsFiniteSet(Pending(u)) /\ Cardinality(Pending(u)) \in Nat
         /\ IsFiniteSet(Granting(u)) /\ Cardinality(Granting(u)) \in Nat
         /\ IsFiniteSet(WalletsOf(u)) /\ Cardinality(WalletsOf(u)) \in Nat
<1>1. Creating(u) \in SUBSET Active /\ Pending(u) \in SUBSET Creating(u)
      /\ Granting(u) \in SUBSET Creating(u) /\ WalletsOf(u) \in SUBSET WalletId
  BY DEF Creating, Pending, Granting, WalletsOf
<1>2. IsFiniteSet(WalletId)
  BY WalletsAssumption, FS_Interval DEF WalletId
<1>3. IsFiniteSet(Creating(u)) /\ Cardinality(Creating(u)) \in Nat
  BY <1>1, Fewer DEF FiniteActive
<1>. QED
  BY <1>1, <1>2, <1>3, Fewer

LEMMA CountedNext ==
  ASSUME FiniteActive', NEW u
  PROVE  /\ IsFiniteSet(Creating(u)') /\ Cardinality(Creating(u)') \in Nat
         /\ IsFiniteSet(Pending(u)') /\ Cardinality(Pending(u)') \in Nat
         /\ IsFiniteSet(Granting(u)') /\ Cardinality(Granting(u)') \in Nat
         /\ IsFiniteSet(WalletsOf(u)') /\ Cardinality(WalletsOf(u)') \in Nat
<1>1. Creating(u)' \in SUBSET Active' /\ Pending(u)' \in SUBSET Creating(u)'
      /\ Granting(u)' \in SUBSET Creating(u)' /\ WalletsOf(u)' \in SUBSET WalletId
  BY DEF Creating, Pending, Granting, WalletsOf
<1>2. IsFiniteSet(WalletId)
  BY WalletsAssumption, FS_Interval DEF WalletId
<1>3. IsFiniteSet(Creating(u)') /\ Cardinality(Creating(u)') \in Nat
  BY <1>1, Fewer DEF FiniteActive
<1>. QED
  BY <1>1, <1>2, <1>3, Fewer

-----------------------------------------------------------------------------
(* Requests.                                                               *)

LEMMA ActiveCalls ==
  ASSUME RequestTypes
  PROVE  \A r \in Active : /\ r \in Request /\ request[r] \in Call
                           /\ request[r].user \in User /\ request[r].amount \in Nat
BY WalletsAssumption DEF RequestTypes, Active, Call, Lamports

(* A request that ends, and one that goes on.                              *)
LEMMA Returned ==
  ASSUME RequestTypes, FiniteActive, StepsInOrder, NEW r \in Active, Return(r),
         \A w \in WalletId : solana_wallets[w] \in User => solana_wallets'[w] = solana_wallets[w]
  PROVE  /\ RequestTypes' /\ FiniteActive' /\ StepsInOrder'
         /\ \A u : /\ Creating(u)' \subseteq Creating(u) \ {r}
                   /\ Pending(u)' \subseteq Pending(u) \ {r}
                   /\ Granting(u)' \subseteq Granting(u) \ {r}
<1>1. r \in Request
  BY DEF Active
<1>2. RequestTypes'
  BY DEF RequestTypes, Return
<1>3. \A q \in Active' : q \in Active /\ q # r /\ request'[q] = request[q]
  BY <1>1 DEF RequestTypes, Return, Active
<1>4. FiniteActive'
  BY <1>3, Fewer DEF FiniteActive
<1>5. StepsInOrder'
  BY <1>3, ActiveCalls DEF StepsInOrder, WalletsOf
<1>6. \A u : Creating(u)' \subseteq Creating(u) \ {r}
  BY <1>3 DEF Creating
<1>7. \A u : Pending(u)' \subseteq Pending(u) \ {r} /\ Granting(u)' \subseteq Granting(u) \ {r}
  BY <1>3, <1>6 DEF Pending, Granting, Creating
<1>. QED
  BY <1>2, <1>4, <1>5, <1>6, <1>7

LEMMA WentOn ==
  ASSUME RequestTypes, FiniteActive, StepsInOrder, NEW r \in Active,
         NEW step \in {"user_exists", "insert", "grant", "balance", "send"}, GoTo(r, step),
         step \in {"user_exists", "insert", "grant"} => request[r].op = "create",
         step \in {"balance", "send"} =>
           request[r].op # "create" /\ request[r].wallet \in WalletsOf(request[r].user),
         \A w \in WalletId : solana_wallets[w] \in User => solana_wallets'[w] = solana_wallets[w]
  PROVE  /\ RequestTypes' /\ FiniteActive' /\ StepsInOrder'
         /\ \A u : /\ Creating(u)' \subseteq Creating(u)
                   /\ Pending(u)' \subseteq
                        IF step \in {"user_exists", "insert"} /\ request[r].user = u
                        THEN Pending(u) \cup {r} ELSE Pending(u) \ {r}
                   /\ Granting(u)' \subseteq
                        IF step = "grant" /\ request[r].user = u
                        THEN Granting(u) \cup {r} ELSE Granting(u) \ {r}
<1>1. r \in Request /\ request[r] \in Call
  BY ActiveCalls
<1>2. PICK c : c = [request[r] EXCEPT !.step = step]
  OBVIOUS
<1>3. /\ c \in Call /\ c.step = step /\ c.op = request[r].op
      /\ c.user = request[r].user /\ c.wallet = request[r].wallet
  BY <1>1, <1>2 DEF Call
<1>4. request' = [request EXCEPT ![r] = c]
  BY <1>2 DEF GoTo
<1>5. RequestTypes'
  BY <1>3, <1>4 DEF RequestTypes
<1>6. /\ request'[r] = c
      /\ \A q \in Active' : q \in Active /\ (q # r => request'[q] = request[q])
  BY <1>1, <1>4, WalletsAssumption DEF RequestTypes, Active
<1>7. FiniteActive'
  BY <1>6, Fewer DEF FiniteActive
<1>8. StepsInOrder'
  BY <1>3, <1>6, ActiveCalls DEF StepsInOrder, WalletsOf
<1>9. \A u : Creating(u)' \subseteq Creating(u)
  BY <1>3, <1>6 DEF Creating
<1>10. ASSUME NEW u, NEW q \in Creating(u)'
       PROVE  /\ q \in Creating(u)
              /\ q # r => request'[q].step = request[q].step
              /\ q = r => request'[q].step = step /\ request[r].user = u
  BY <1>3, <1>6 DEF Creating
<1>11. ASSUME NEW u
       PROVE  /\ Pending(u)' \subseteq
                   IF step \in {"user_exists", "insert"} /\ request[r].user = u
                   THEN Pending(u) \cup {r} ELSE Pending(u) \ {r}
              /\ Granting(u)' \subseteq
                   IF step = "grant" /\ request[r].user = u
                   THEN Granting(u) \cup {r} ELSE Granting(u) \ {r}
  BY <1>10 DEF Pending, Granting
<1>. QED
  BY <1>5, <1>7, <1>8, <1>9, <1>11


-----------------------------------------------------------------------------
(* What the creations under way will still add.                            *)

(* Steps that neither insert nor grant.                                    *)
LEMMA NothingAdded ==
  ASSUME IInv, FiniteActive',
         \A u : /\ Creating(u)' \subseteq Creating(u)
                /\ Pending(u)' \subseteq Pending(u)
                /\ Granting(u)' \subseteq Granting(u),
         UNCHANGED <<db, created, peak>>
  PROVE  Accounted'
<1>1. SUFFICES ASSUME NEW u \in User
      PROVE  /\ Cardinality(Creating(u)') <= peak[u]
             /\ Cardinality(WalletsOf(u)) + Cardinality(Pending(u)') <= peak[u]
             /\ granted[u] + Cardinality(Granting(u)') <= Cardinality(WalletsOf(u))
             /\ created[u] <= granted[u]
  BY DEF Accounted, db, WalletsOf
<1>2. /\ Cardinality(Creating(u)') <= Cardinality(Creating(u))
      /\ Cardinality(Pending(u)') <= Cardinality(Pending(u))
      /\ Cardinality(Granting(u)') <= Cardinality(Granting(u))
  BY Counted, Fewer DEF IInv
<1>3. /\ Cardinality(Creating(u)) <= peak[u]
      /\ Cardinality(WalletsOf(u)) + Cardinality(Pending(u)) <= peak[u]
      /\ granted[u] + Cardinality(Granting(u)) <= Cardinality(WalletsOf(u))
      /\ created[u] <= granted[u]
  BY DEF IInv, Accounted
<1>4. peak[u] \in Nat /\ granted[u] \in Nat /\ Cardinality(WalletsOf(u)) \in Nat
  BY Counted DEF IInv, Types, CountTypes
<1>. QED
  BY <1>2, <1>3, <1>4, Counted, CountedNext DEF IInv

(* What a new row is, and what it is not.                                  *)
LEMMA InsertedOf ==
  ASSUME WalletTypes, NEW v \in User, NEW w \in WalletId, Inserted(w, v)
  PROVE  /\ WalletTypes'
         /\ \A x \in WalletId :
              solana_wallets[x] \in User => solana_wallets'[x] = solana_wallets[x]
         /\ w \notin WalletsOf(v) /\ WalletsOf(v)' = WalletsOf(v) \cup {w}
         /\ \A u \in User : u # v => WalletsOf(u)' = WalletsOf(u)
<1>1. solana_wallets[w] = NoCall
  BY DEF Inserted, WalletId
<1>2. solana_wallets' = [solana_wallets EXCEPT ![w] = v]
  BY DEF Inserted
<1>3. \A x \in WalletId : solana_wallets'[x] = IF x = w THEN v ELSE solana_wallets[x]
  BY <1>2 DEF WalletTypes
<1>4. WalletTypes'
  BY <1>2 DEF WalletTypes
<1>. QED
  BY <1>1, <1>3, <1>4, WalletsAssumption DEF WalletsOf

(* An inserted wallet takes the place of the pending creation; whether its *)
(* grant follows, depends on the answer.                                   *)
LEMMA WalletAdded ==
  ASSUME IInv, FiniteActive', NEW r \in Active, At(r, "insert"),
         NEW w \in WalletId, Inserted(w, request[r].user),
         \A u : /\ Creating(u)' \subseteq Creating(u)
                /\ Pending(u)' \subseteq Pending(u) \ {r}
                /\ Granting(u)' \subseteq
                     IF u = request[r].user THEN Granting(u) \cup {r} ELSE Granting(u),
         UNCHANGED <<granted, created, peak>>
  PROVE  Accounted'
<1>0. PICK v \in User : v = request[r].user
  BY ActiveCalls DEF IInv, Types
<1>1. r \in Pending(v)
  <2>1. request[r].op = "create"
    BY DEF IInv, StepsInOrder, At
  <2>. QED
    BY <1>0, <2>1 DEF Pending, Creating, At
<1>2. /\ w \notin WalletsOf(v) /\ WalletsOf(v)' = WalletsOf(v) \cup {w}
      /\ \A u \in User : u # v => WalletsOf(u)' = WalletsOf(u)
  BY <1>0, InsertedOf DEF IInv, Types
<1>3. SUFFICES ASSUME NEW u \in User
      PROVE  /\ Cardinality(Creating(u)') <= peak[u]
             /\ Cardinality(WalletsOf(u)') + Cardinality(Pending(u)') <= peak[u]
             /\ granted[u] + Cardinality(Granting(u)') <= Cardinality(WalletsOf(u)')
             /\ created[u] <= granted[u]
  BY DEF Accounted
<1>4. /\ Cardinality(Creating(u)) <= peak[u]
      /\ Cardinality(WalletsOf(u)) + Cardinality(Pending(u)) <= peak[u]
      /\ granted[u] + Cardinality(Granting(u)) <= Cardinality(WalletsOf(u))
      /\ created[u] <= granted[u] /\ peak[u] \in Nat /\ granted[u] \in Nat
  BY DEF IInv, Accounted, Types, CountTypes
<1>5. Cardinality(Creating(u)') <= Cardinality(Creating(u))
  BY Counted, Fewer DEF IInv
<1>6. CASE u = v
  <2>1. Cardinality(WalletsOf(u)') = Cardinality(WalletsOf(u)) + 1
    BY <1>2, <1>6, Counted, FS_AddElement DEF IInv
  <2>2. Cardinality(Pending(u)') <= Cardinality(Pending(u)) - 1
    BY <1>1, <1>6, Counted, OneLess DEF IInv
  <2>3. Cardinality(Granting(u)') <= Cardinality(Granting(u)) + 1
    BY <1>0, <1>6, Counted, OneMore DEF IInv
  <2>. QED
    BY <1>4, <1>5, <2>1, <2>2, <2>3, Counted, CountedNext DEF IInv
<1>7. CASE u # v
  <2>1. Cardinality(Pending(u)') <= Cardinality(Pending(u))
    BY Counted, Fewer DEF IInv
  <2>2. Cardinality(Granting(u)') <= Cardinality(Granting(u))
    BY <1>0, <1>7, Counted, Fewer DEF IInv
  <2>3. WalletsOf(u)' = WalletsOf(u)
    BY <1>2, <1>7
  <2>. QED
    BY <1>4, <1>5, <2>1, <2>2, <2>3, Counted, CountedNext DEF IInv
<1>. QED
  BY <1>6, <1>7

(* A grant takes the place of the creation that was to make it.            *)
LEMMA GrantAdded ==
  ASSUME IInv, FiniteActive', NEW r \in Active, At(r, "grant"), Granted(request[r].user),
         \A u : /\ Creating(u)' \subseteq Creating(u)
                /\ Pending(u)' \subseteq Pending(u)
                /\ Granting(u)' \subseteq Granting(u) \ {r},
         created' \in {created, [created EXCEPT ![request[r].user] = @ + 1]},
         UNCHANGED <<solana_wallets, peak>>
  PROVE  Accounted'
<1>0. PICK v \in User : v = request[r].user
  BY ActiveCalls DEF IInv, Types
<1>1. r \in Granting(v)
  <2>1. request[r].op = "create"
    BY DEF IInv, StepsInOrder, At
  <2>. QED
    BY <1>0, <2>1 DEF Granting, Creating, At
<1>2. \A u \in User : /\ granted'[u] = IF u = v THEN granted[u] + 1 ELSE granted[u]
                      /\ created'[u] <= IF u = v THEN created[u] + 1 ELSE created[u]
  BY <1>0 DEF Granted, IInv, Types, CountTypes
<1>3. SUFFICES ASSUME NEW u \in User
      PROVE  /\ Cardinality(Creating(u)') <= peak[u]
             /\ Cardinality(WalletsOf(u)) + Cardinality(Pending(u)') <= peak[u]
             /\ granted'[u] + Cardinality(Granting(u)') <= Cardinality(WalletsOf(u))
             /\ created'[u] <= granted'[u]
  BY DEF Accounted, WalletsOf
<1>4. /\ Cardinality(Creating(u)) <= peak[u]
      /\ Cardinality(WalletsOf(u)) + Cardinality(Pending(u)) <= peak[u]
      /\ granted[u] + Cardinality(Granting(u)) <= Cardinality(WalletsOf(u))
      /\ created[u] <= granted[u]
      /\ peak[u] \in Nat /\ granted[u] \in Nat /\ created[u] \in Nat
  BY DEF IInv, Accounted, Types, CountTypes
<1>5. /\ Cardinality(Creating(u)') <= Cardinality(Creating(u))
      /\ Cardinality(Pending(u)') <= Cardinality(Pending(u))
  BY Counted, Fewer DEF IInv
<1>6. created'[u] \in Nat
  BY <1>0, <1>4 DEF IInv, Types, CountTypes
<1>7. Cardinality(Granting(u)') <= IF u = v THEN Cardinality(Granting(u)) - 1
                                            ELSE Cardinality(Granting(u))
  <2>1. CASE u = v
    BY <1>1, <2>1, Counted, OneLess DEF IInv
  <2>2. CASE u # v
    BY <2>2, Counted, Fewer DEF IInv
  <2>. QED
    BY <2>1, <2>2
<1>. QED
  BY <1>2, <1>4, <1>5, <1>6, <1>7, Counted, CountedNext DEF IInv


-----------------------------------------------------------------------------
(* Steps that write nothing.                                               *)

LEMMA ReturnStep ==
  ASSUME IInv, NEW r \in Active, Return(r), ChainTypes', UNCHANGED <<db, created, peak>>
  PROVE  IInv'
<1>1. /\ RequestTypes' /\ FiniteActive' /\ StepsInOrder'
      /\ \A u : /\ Creating(u)' \subseteq Creating(u) \ {r}
                /\ Pending(u)' \subseteq Pending(u) \ {r}
                /\ Granting(u)' \subseteq Granting(u) \ {r}
  BY Returned DEF IInv, Types, db
<1>2. Accounted'
  <2>1. \A u : /\ Creating(u)' \subseteq Creating(u)
               /\ Pending(u)' \subseteq Pending(u)
               /\ Granting(u)' \subseteq Granting(u)
    BY <1>1
  <2>. QED
    BY <1>1, <2>1, NothingAdded
<1>3. WalletTypes' /\ CountTypes'
  BY DEF IInv, Types, WalletTypes, CountTypes, db
<1>. QED
  BY <1>1, <1>2, <1>3 DEF IInv, Types

(* A creation that goes on before it inserts: from the list of the user's  *)
(* wallets only if there are none.                                         *)
LEMMA PendingStep ==
  ASSUME IInv, NEW r \in Active, NEW step \in {"user_exists", "insert"}, GoTo(r, step),
         request[r].op = "create",
         \/ request[r].step \in {"user_exists", "insert"}
         \/ WalletsOf(request[r].user) = {},
         UNCHANGED <<db, solana, created, peak>>
  PROVE  IInv'
<1>0. PICK v \in User : v = request[r].user
  BY ActiveCalls DEF IInv, Types
<1>1. /\ RequestTypes' /\ FiniteActive' /\ StepsInOrder'
      /\ \A u : /\ Creating(u)' \subseteq Creating(u)
                /\ Pending(u)' \subseteq
                     IF step \in {"user_exists", "insert"} /\ request[r].user = u
                     THEN Pending(u) \cup {r} ELSE Pending(u) \ {r}
                /\ Granting(u)' \subseteq
                     IF step = "grant" /\ request[r].user = u
                     THEN Granting(u) \cup {r} ELSE Granting(u) \ {r}
  BY WentOn DEF IInv, Types, db
<1>2. \A u : Granting(u)' \subseteq Granting(u)
  BY <1>1
<1>3. WalletTypes' /\ ChainTypes' /\ CountTypes'
  BY DEF IInv, Types, WalletTypes, ChainTypes, CountTypes, db, solana
<1>4. Accounted'
  <2>1. CASE request[r].step \in {"user_exists", "insert"}
    <3>1. \A u : Pending(u)' \subseteq Pending(u)
      BY <1>1, <2>1 DEF Pending, Creating
    <3>. QED
      BY <1>1, <1>2, <3>1, NothingAdded
  <2>2. CASE WalletsOf(v) = {}
    <3>1. SUFFICES ASSUME NEW u \in User
          PROVE  /\ Cardinality(Creating(u)') <= peak[u]
                 /\ Cardinality(WalletsOf(u)) + Cardinality(Pending(u)') <= peak[u]
                 /\ granted[u] + Cardinality(Granting(u)') <= Cardinality(WalletsOf(u))
                 /\ created[u] <= granted[u]
      BY DEF Accounted, db, WalletsOf
    <3>2. /\ Cardinality(Creating(u)) <= peak[u]
          /\ Cardinality(WalletsOf(u)) + Cardinality(Pending(u)) <= peak[u]
          /\ granted[u] + Cardinality(Granting(u)) <= Cardinality(WalletsOf(u))
          /\ created[u] <= granted[u] /\ peak[u] \in Nat /\ granted[u] \in Nat
      BY DEF IInv, Accounted, Types, CountTypes
    <3>3. /\ Cardinality(Creating(u)') <= Cardinality(Creating(u))
          /\ Cardinality(Granting(u)') <= Cardinality(Granting(u))
      BY <1>1, <1>2, Counted, Fewer DEF IInv
    <3>4. CASE u = v
      <4>1. Cardinality(WalletsOf(u)) = 0
        BY <2>2, <3>4, FS_EmptySet
      <4>2. Pending(u)' \in SUBSET Creating(u)'
        BY DEF Pending
      <4>3. Cardinality(Pending(u)') <= Cardinality(Creating(u)')
        BY <1>1, <4>2, CountedNext, Fewer
      <4>. QED
        BY <1>1, <3>2, <3>3, <4>1, <4>3, Counted, CountedNext DEF IInv
    <3>5. CASE u # v
      <4>1. Cardinality(Pending(u)') <= Cardinality(Pending(u))
        BY <1>0, <1>1, <3>5, Counted, Fewer DEF IInv
      <4>. QED
        BY <1>1, <3>2, <3>3, <4>1, Counted, CountedNext DEF IInv
    <3>. QED
      BY <3>4, <3>5
  <2>. QED
    BY <1>0, <2>1, <2>2
<1>. QED
  BY <1>1, <1>3, <1>4 DEF IInv, Types

(* A transfer that goes on with a wallet of its user.                      *)
LEMMA TransferStep ==
  ASSUME IInv, NEW r \in Active, NEW step \in {"balance", "send"}, GoTo(r, step),
         request[r].op # "create", request[r].wallet \in WalletsOf(request[r].user),
         UNCHANGED <<db, solana, created, peak>>
  PROVE  IInv'
<1>1. /\ RequestTypes' /\ FiniteActive' /\ StepsInOrder'
      /\ \A u : /\ Creating(u)' \subseteq Creating(u)
                /\ Pending(u)' \subseteq
                     IF step \in {"user_exists", "insert"} /\ request[r].user = u
                     THEN Pending(u) \cup {r} ELSE Pending(u) \ {r}
                /\ Granting(u)' \subseteq
                     IF step = "grant" /\ request[r].user = u
                     THEN Granting(u) \cup {r} ELSE Granting(u) \ {r}
  BY WentOn DEF IInv, Types, db
<1>2. Accounted'
  <2>1. \A u : /\ Creating(u)' \subseteq Creating(u)
               /\ Pending(u)' \subseteq Pending(u)
               /\ Granting(u)' \subseteq Granting(u)
    BY <1>1
  <2>. QED
    BY <1>1, <2>1, NothingAdded
<1>3. WalletTypes' /\ ChainTypes' /\ CountTypes'
  BY DEF IInv, Types, WalletTypes, ChainTypes, CountTypes, db, solana
<1>. QED
  BY <1>1, <1>2, <1>3 DEF IInv, Types

-----------------------------------------------------------------------------
(* Steps that insert or grant, with and without an answer.                 *)

LEMMA InsertStep ==
  ASSUME IInv, NEW r \in Active, At(r, "insert"),
         NEW w \in WalletId, Inserted(w, request[r].user),
         GoTo(r, "grant") \/ Return(r),
         UNCHANGED <<granted, chain, created, peak>>
  PROVE  IInv'
<1>0. PICK v \in User : v = request[r].user
  BY ActiveCalls DEF IInv, Types
<1>1. /\ WalletTypes'
      /\ \A x \in WalletId :
           solana_wallets[x] \in User => solana_wallets'[x] = solana_wallets[x]
  BY <1>0, InsertedOf DEF IInv, Types
<1>2. request[r].op = "create"
  BY DEF IInv, StepsInOrder, At
<1>3. /\ RequestTypes' /\ FiniteActive' /\ StepsInOrder'
      /\ \A u : /\ Creating(u)' \subseteq Creating(u)
                /\ Pending(u)' \subseteq Pending(u) \ {r}
                /\ Granting(u)' \subseteq
                     IF u = request[r].user THEN Granting(u) \cup {r} ELSE Granting(u)
  <2>1. CASE Return(r)
    <3>1. /\ RequestTypes' /\ FiniteActive' /\ StepsInOrder'
          /\ \A u : /\ Creating(u)' \subseteq Creating(u) \ {r}
                    /\ Pending(u)' \subseteq Pending(u) \ {r}
                    /\ Granting(u)' \subseteq Granting(u) \ {r}
      BY <1>1, <2>1, Returned DEF IInv, Types
    <3>. QED
      BY <3>1
  <2>2. CASE GoTo(r, "grant")
    <3>1. /\ RequestTypes' /\ FiniteActive' /\ StepsInOrder'
          /\ \A u : /\ Creating(u)' \subseteq Creating(u)
                    /\ Pending(u)' \subseteq
                         IF "grant" \in {"user_exists", "insert"} /\ request[r].user = u
                         THEN Pending(u) \cup {r} ELSE Pending(u) \ {r}
                    /\ Granting(u)' \subseteq
                         IF "grant" = "grant" /\ request[r].user = u
                         THEN Granting(u) \cup {r} ELSE Granting(u) \ {r}
      BY <1>1, <1>2, <2>2, WentOn DEF IInv, Types
    <3>. QED
      BY <3>1
  <2>. QED
    BY <2>1, <2>2
<1>4. Accounted'
  BY <1>3, WalletAdded
<1>5. ChainTypes' /\ CountTypes'
  BY DEF IInv, Types, ChainTypes, CountTypes
<1>. QED
  BY <1>1, <1>3, <1>4, <1>5 DEF IInv, Types

LEMMA GrantStep ==
  ASSUME IInv, NEW r \in Active, At(r, "grant"), Granted(request[r].user), Return(r),
         created' \in {created, [created EXCEPT ![request[r].user] = @ + 1]},
         UNCHANGED <<solana_wallets, chain, peak>>
  PROVE  IInv'
<1>0. PICK v \in User : v = request[r].user
  BY ActiveCalls DEF IInv, Types
<1>1. /\ RequestTypes' /\ FiniteActive' /\ StepsInOrder'
      /\ \A u : /\ Creating(u)' \subseteq Creating(u) \ {r}
                /\ Pending(u)' \subseteq Pending(u) \ {r}
                /\ Granting(u)' \subseteq Granting(u) \ {r}
  BY Returned DEF IInv, Types
<1>2. \A u : /\ Creating(u)' \subseteq Creating(u)
             /\ Pending(u)' \subseteq Pending(u)
             /\ Granting(u)' \subseteq Granting(u) \ {r}
  BY <1>1
<1>3. Accounted'
  BY <1>1, <1>2, GrantAdded
<1>4. WalletTypes' /\ ChainTypes' /\ CountTypes'
  BY <1>0 DEF IInv, Types, WalletTypes, ChainTypes, CountTypes, Granted
<1>. QED
  BY <1>1, <1>3, <1>4 DEF IInv, Types


-----------------------------------------------------------------------------
(* The chain.                                                              *)

(* An executed transfer takes from its own wallet only.                    *)
LEMMA ExecutedOf ==
  ASSUME ChainTypes, NEW c, c.wallet \in WalletId, c.amount \in Nat, Executed(c)
  PROVE  ChainTypes' /\ \A w \in WalletId : chain'[w] < chain[w] => w = c.wallet
<1> DEFINE paid == [chain EXCEPT ![c.wallet] = @ - c.amount]
<1>1. /\ paid \in [WalletId -> Nat]
      /\ \A w \in WalletId : w # c.wallet => paid[w] = chain[w]
  BY DEF ChainTypes, Executed
<1>2. (\E w \in Exists : chain' = [paid EXCEPT ![w] = @ + c.amount]) \/ chain' = paid
  BY DEF Executed
<1> HIDE DEF paid
<1>3. \A w \in WalletId : paid[w] \in Nat /\ chain[w] \in Nat
  BY <1>1 DEF ChainTypes
<1>4. CASE chain' = paid
  BY <1>1, <1>3, <1>4 DEF ChainTypes
<1>5. ASSUME NEW v \in WalletId, chain' = [paid EXCEPT ![v] = @ + c.amount]
      PROVE  ChainTypes' /\ \A w \in WalletId : chain'[w] < chain[w] => w = c.wallet
  BY <1>1, <1>3, <1>5 DEF ChainTypes
<1>. QED
  BY <1>2, <1>4, <1>5 DEF Exists

(* A transfer about to be sent is one of its owner's.                      *)
LEMMA SentByOwner ==
  ASSUME IInv, NEW r \in Active, At(r, "send") \/ At(r, "balance")
  PROVE  /\ request[r].op # "create" /\ request[r].amount \in Nat
         /\ request[r].wallet \in WalletId
         /\ request[r].wallet \in WalletsOf(request[r].user)
         /\ request[r].user = solana_wallets[request[r].wallet]
BY ActiveCalls DEF IInv, Types, StepsInOrder, At, WalletsOf

-----------------------------------------------------------------------------
(* Requests that begin.                                                    *)

LEMMA BeginStep ==
  ASSUME IInv, NEW r \in Request, Begin(r)
  PROVE  IInv'
<1>1. PICK u \in User :
        \/ CreateWallet(r, u)
        \/ \E w \in WalletId, amount \in Lamports \ {0} : TransferSol(r, u, w, amount)
  BY DEF Begin
<1>2. PICK c \in Call :
        /\ request[r] = NoCall /\ request' = [request EXCEPT ![r] = c]
        /\ c.user = u /\ UNCHANGED <<db, solana, created>>
        /\ \/ /\ c.op = "create" /\ c.step = "list"
              /\ peak' = [peak EXCEPT ![u] = IF @ > Cardinality(Creating(u)) THEN @
                                             ELSE Cardinality(Creating(u)) + 1]
           \/ c.op = "transfer" /\ c.step = "get_wallet" /\ peak' = peak
  <2>1. CASE CreateWallet(r, u)
    <3> DEFINE c == [op |-> "create", step |-> "list", user |-> u, wallet |-> NoWallet,
                     amount |-> 0]
    <3>1. c \in Call /\ c.op = "create" /\ c.step = "list" /\ c.user = u
      BY WalletsAssumption DEF Call, Lamports
    <3>2. /\ request[r] = NoCall /\ request' = [request EXCEPT ![r] = c]
          /\ UNCHANGED <<db, solana, created>>
          /\ peak' = [peak EXCEPT ![u] = IF @ > Cardinality(Creating(u)) THEN @
                                         ELSE Cardinality(Creating(u)) + 1]
      BY <2>1 DEF CreateWallet
    <3> HIDE DEF c
    <3>. QED
      BY <3>1, <3>2
  <2>2. ASSUME NEW w \in WalletId, NEW amount \in Lamports \ {0}, TransferSol(r, u, w, amount)
        PROVE  \E c \in Call :
                 /\ request[r] = NoCall /\ request' = [request EXCEPT ![r] = c]
                 /\ c.user = u /\ UNCHANGED <<db, solana, created>>
                 /\ c.op = "transfer" /\ c.step = "get_wallet" /\ peak' = peak
    <3> DEFINE c == [op |-> "transfer", step |-> "get_wallet", user |-> u, wallet |-> w,
                     amount |-> amount]
    <3>1. c \in Call /\ c.op = "transfer" /\ c.step = "get_wallet" /\ c.user = u
      BY DEF Call
    <3>2. /\ request[r] = NoCall /\ request' = [request EXCEPT ![r] = c]
          /\ UNCHANGED <<db, solana, created>> /\ peak' = peak
      BY <2>2 DEF TransferSol
    <3> HIDE DEF c
    <3>. QED
      BY <3>1, <3>2
  <2>. QED
    BY <1>1, <2>1, <2>2
<1>3. /\ r \notin Active /\ request'[r] = c /\ Active' \subseteq Active \cup {r}
      /\ \A q \in Active' : q # r => q \in Active /\ request'[q] = request[q]
  BY <1>2 DEF IInv, Types, RequestTypes, Active
<1>4. FiniteActive'
  BY <1>3, OneMore DEF IInv, FiniteActive
<1>5. WalletTypes' /\ ChainTypes' /\ RequestTypes'
  BY <1>2 DEF IInv, Types, WalletTypes, ChainTypes, RequestTypes, db, solana
<1>6. StepsInOrder'
  BY <1>2, <1>3 DEF IInv, StepsInOrder, WalletsOf, db
<1>7. \A v : Pending(v)' \subseteq Pending(v) /\ Granting(v)' \subseteq Granting(v)
  BY <1>2, <1>3 DEF Pending, Granting, Creating
<1>8. CASE c.op = "transfer" /\ peak' = peak
  <2>1. \A v : Creating(v)' \subseteq Creating(v)
    BY <1>3, <1>8 DEF Creating
  <2>2. Accounted'
    BY <1>2, <1>4, <1>7, <1>8, <2>1, NothingAdded
  <2>3. CountTypes'
    BY <1>2, <1>8 DEF IInv, Types, CountTypes, db
  <2>. QED
    BY <1>4, <1>5, <1>6, <2>2, <2>3 DEF IInv, Types
<1>9. CASE /\ c.op = "create"
           /\ peak' = [peak EXCEPT ![u] = IF @ > Cardinality(Creating(u)) THEN @
                                          ELSE Cardinality(Creating(u)) + 1]
  <2>1. Creating(u)' \subseteq Creating(u) \cup {r}
    BY <1>3 DEF Creating
  <2>2. \A v : v # u => Creating(v)' \subseteq Creating(v)
    BY <1>2, <1>3 DEF Creating
  <2>3. /\ \A v \in User : peak[v] \in Nat /\ peak'[v] \in Nat /\ peak'[v] >= peak[v]
        /\ peak'[u] >= Cardinality(Creating(u)) + 1
    BY <1>9, Counted DEF IInv, Types, CountTypes
  <2>4. CountTypes'
    BY <1>2, <1>9, Counted DEF IInv, Types, CountTypes, db
  <2>5. Accounted'
    <3>1. SUFFICES ASSUME NEW v \in User
          PROVE  /\ Cardinality(Creating(v)') <= peak'[v]
                 /\ Cardinality(WalletsOf(v)) + Cardinality(Pending(v)') <= peak'[v]
                 /\ granted[v] + Cardinality(Granting(v)') <= Cardinality(WalletsOf(v))
                 /\ created[v] <= granted[v]
      BY <1>2 DEF Accounted, db, WalletsOf
    <3>2. /\ Cardinality(Creating(v)) <= peak[v]
          /\ Cardinality(WalletsOf(v)) + Cardinality(Pending(v)) <= peak[v]
          /\ granted[v] + Cardinality(Granting(v)) <= Cardinality(WalletsOf(v))
          /\ created[v] <= granted[v] /\ granted[v] \in Nat
      BY DEF IInv, Accounted, Types, CountTypes
    <3>3. /\ Cardinality(Pending(v)') <= Cardinality(Pending(v))
          /\ Cardinality(Granting(v)') <= Cardinality(Granting(v))
      BY <1>7, Counted, Fewer DEF IInv
    <3>4. Cardinality(Creating(v)') <= IF v = u THEN Cardinality(Creating(v)) + 1
                                                ELSE Cardinality(Creating(v))
      <4>1. CASE v = u
        BY <2>1, <4>1, Counted, OneMore DEF IInv
      <4>2. CASE v # u
        BY <2>2, <4>2, Counted, Fewer DEF IInv
      <4>. QED
        BY <4>1, <4>2
    <3>. QED
      BY <1>4, <2>3, <3>2, <3>3, <3>4, Counted, CountedNext DEF IInv
  <2>. QED
    BY <1>4, <1>5, <1>6, <2>4, <2>5 DEF IInv, Types
<1>. QED
  BY <1>2, <1>8, <1>9


-----------------------------------------------------------------------------
(* Requests that are served, and calls that fail.                          *)

LEMMA ServeStep ==
  ASSUME IInv, NEW r \in Request, Serve(r)
  PROVE  IInv'
<1>1. /\ r \in Active /\ WalletTypes /\ ChainTypes /\ RequestTypes /\ CountTypes
      /\ request[r].user \in User
  <2>1. r \in Active
    BY DEF Serve, ListWallets, UserExists, Insert, Grant, GetWallet, CheckBalance, Send, At
  <2>. QED
    BY <2>1, ActiveCalls DEF IInv, Types
<1>2. ASSUME Return(r), UNCHANGED <<db, chain, created, peak>>
      PROVE  IInv'
  <2>1. ChainTypes'
    BY <1>1, <1>2 DEF ChainTypes
  <2>. QED
    BY <1>1, <1>2, <2>1, ReturnStep
<1>3. CASE ListWallets(r)
  <2>1. request[r].op = "create"
    BY <1>1, <1>3 DEF ListWallets, At, IInv, StepsInOrder
  <2>2. CASE WalletsOf(request[r].user) = {} /\ GoTo(r, "user_exists")
    BY <1>1, <1>3, <2>1, <2>2, PendingStep DEF ListWallets
  <2>. QED
    BY <1>2, <1>3, <2>2 DEF ListWallets, UnlessFound, solana
<1>4. CASE UserExists(r)
  <2>1. request[r].op = "create"
    BY <1>1, <1>4 DEF UserExists, At, IInv, StepsInOrder
  <2>. QED
    BY <1>1, <1>4, <2>1, PendingStep DEF UserExists, At
<1>5. CASE Insert(r)
  BY <1>1, <1>5, InsertStep DEF Insert, solana
<1>6. CASE Grant(r)
  BY <1>1, <1>6, GrantStep DEF Grant, solana
<1>7. CASE GetWallet(r)
  <2>1. request[r].op # "create"
    BY <1>1, <1>7 DEF GetWallet, At, IInv, StepsInOrder
  <2>2. CASE MayUse(request[r]) /\ GoTo(r, "balance")
    BY <1>1, <1>7, <2>1, <2>2, TransferStep DEF GetWallet, MayUse
  <2>. QED
    BY <1>2, <1>7, <2>2 DEF GetWallet, solana
<1>8. CASE CheckBalance(r)
  <2>1. request[r].op # "create" /\ request[r].wallet \in WalletsOf(request[r].user)
    BY <1>1, <1>8, SentByOwner DEF CheckBalance
  <2>2. CASE GoTo(r, "send")
    BY <1>1, <1>8, <2>1, <2>2, TransferStep DEF CheckBalance
  <2>. QED
    BY <1>2, <1>8, <2>2 DEF CheckBalance, solana
<1>9. CASE Send(r)
  <2>1. request[r].wallet \in WalletId /\ request[r].amount \in Nat
    BY <1>1, <1>9, SentByOwner DEF Send
  <2>2. ChainTypes'
    <3>1. CASE Executed(request[r])
      BY <1>1, <2>1, <3>1, ExecutedOf
    <3>2. CASE UNCHANGED chain
      BY <1>1, <3>2 DEF ChainTypes
    <3>. QED
      BY <1>9, <3>1, <3>2 DEF Send
  <2>. QED
    BY <1>1, <1>9, <2>2, ReturnStep DEF Send
<1>. QED
  BY <1>3, <1>4, <1>5, <1>6, <1>7, <1>8, <1>9 DEF Serve

LEMMA FailureStep ==
  ASSUME IInv, NEW r \in Request, CallFails(r)
  PROVE  IInv'
<1>1. /\ r \in Active /\ Return(r) /\ UNCHANGED <<supply, created, peak>>
      /\ ChainTypes
  BY DEF CallFails, IInv, Types
<1>2. CASE UNCHANGED <<db, chain>>
  <2>1. ChainTypes'
    BY <1>1, <1>2 DEF ChainTypes
  <2>. QED
    BY <1>1, <1>2, <2>1, ReturnStep
<1>3. ASSUME At(r, "insert"), NEW w \in WalletId, Inserted(w, request[r].user),
             UNCHANGED <<granted, chain>>
      PROVE  IInv'
  BY <1>1, <1>3, InsertStep
<1>4. CASE At(r, "grant") /\ Granted(request[r].user) /\ UNCHANGED <<solana_wallets, chain>>
  BY <1>1, <1>4, GrantStep
<1>5. CASE At(r, "send") /\ Executed(request[r]) /\ UNCHANGED db
  <2>1. ChainTypes'
    BY <1>1, <1>5, SentByOwner, ExecutedOf
  <2>. QED
    BY <1>1, <1>5, <2>1, ReturnStep
<1>. QED
  BY <1>2, <1>3, <1>4, <1>5 DEF CallFails

LEMMA FundStep ==
  ASSUME IInv, NEW w \in WalletId, Fund(w)
  PROVE  IInv'
<1>1. UNCHANGED <<db, request, created, peak>> /\ ChainTypes'
  BY DEF Fund, IInv, Types, ChainTypes
<1>2. WalletTypes' /\ RequestTypes' /\ CountTypes' /\ FiniteActive' /\ StepsInOrder'
  BY <1>1 DEF IInv, Types, WalletTypes, RequestTypes, CountTypes, FiniteActive,
     StepsInOrder, Active, WalletsOf, db
<1>3. \A u : /\ Creating(u)' \subseteq Creating(u)
             /\ Pending(u)' \subseteq Pending(u)
             /\ Granting(u)' \subseteq Granting(u)
  BY <1>1 DEF Pending, Granting, Creating, Active
<1>4. Accounted'
  BY <1>1, <1>2, <1>3, NothingAdded
<1>. QED
  BY <1>1, <1>2, <1>4 DEF IInv, Types

-----------------------------------------------------------------------------
LEMMA InitInvariant == Init => IInv
<1>1. SUFFICES ASSUME Init PROVE IInv
  OBVIOUS
<1>2. Active = {}
  <2>1. \A r \in Request : request[r] = NoCall
    BY <1>1 DEF Init
  <2>. QED
    BY <2>1 DEF Active
<1>3. Types
  BY <1>1 DEF Init, Types, WalletTypes, ChainTypes, RequestTypes, CountTypes
<1>4. \A u \in User : Creating(u) = {} /\ Pending(u) = {} /\ Granting(u) = {}
  BY <1>2 DEF Creating, Pending, Granting
<1>5. \A u \in User : WalletsOf(u) = {}
  BY <1>1, WalletsAssumption DEF Init, WalletsOf
<1>6. Accounted
  <2>1. SUFFICES ASSUME NEW u \in User
        PROVE  /\ Cardinality(Creating(u)) <= peak[u]
               /\ Cardinality(WalletsOf(u)) + Cardinality(Pending(u)) <= peak[u]
               /\ granted[u] + Cardinality(Granting(u)) <= Cardinality(WalletsOf(u))
               /\ created[u] <= granted[u]
    BY DEF Accounted
  <2>2. /\ Cardinality(Creating(u)) = 0 /\ Cardinality(Pending(u)) = 0
        /\ Cardinality(Granting(u)) = 0 /\ Cardinality(WalletsOf(u)) = 0
    BY <1>4, <1>5, FS_EmptySet
  <2>3. peak[u] = 0 /\ granted[u] = 0 /\ created[u] = 0
    BY <1>1 DEF Init
  <2>. QED
    BY <2>2, <2>3
<1>7. FiniteActive /\ StepsInOrder
  BY <1>2, FS_EmptySet DEF FiniteActive, StepsInOrder
<1>. QED
  BY <1>3, <1>6, <1>7 DEF IInv

LEMMA StepInvariant == IInv /\ [Next]_vars => IInv'
<1>1. SUFFICES ASSUME IInv, [Next]_vars PROVE IInv'
  OBVIOUS
<1>2. ASSUME NEW r \in Request, Begin(r) \/ Serve(r) \/ CallFails(r) PROVE IInv'
  BY <1>1, <1>2, BeginStep, ServeStep, FailureStep
<1>3. ASSUME NEW w \in WalletId, Fund(w) PROVE IInv'
  BY <1>1, <1>3, FundStep
<1>4. CASE UNCHANGED vars
  <2>1. UNCHANGED <<db, chain, request, created, peak>>
    BY <1>4 DEF vars, solana
  <2>2. Types' /\ FiniteActive' /\ StepsInOrder'
    BY <1>1, <2>1 DEF IInv, Types, WalletTypes, RequestTypes, CountTypes, ChainTypes,
       FiniteActive, StepsInOrder, Active, WalletsOf, db
  <2>3. \A u : /\ Creating(u)' \subseteq Creating(u)
               /\ Pending(u)' \subseteq Pending(u)
               /\ Granting(u)' \subseteq Granting(u)
    BY <2>1 DEF Pending, Granting, Creating, Active
  <2>4. Accounted'
    BY <1>1, <2>1, <2>2, <2>3, NothingAdded
  <2>. QED
    BY <2>2, <2>4 DEF IInv
<1>. QED
  BY <1>1, <1>2, <1>3, <1>4 DEF Next

(* The inductive invariant holds.                                          *)
THEOREM Invariant == Spec => []IInv
BY InitInvariant, StepInvariant, PTL DEF Spec

(* Each answered creation has a grant of its own, each grant a wallet of   *)
(* its own, and a user has no more wallets than creations that once ran at *)
(* the same time (wallet_handler.rs create_wallet).                        *)
THEOREM GrantsAlwaysFollowWallets == Spec => []GrantsFollowWallets
<1>1. IInv => GrantsFollowWallets
  <2>1. SUFFICES ASSUME IInv, NEW u \in User
        PROVE  /\ created[u] <= granted[u] /\ granted[u] <= Cardinality(WalletsOf(u))
               /\ Cardinality(WalletsOf(u)) <= peak[u]
    BY DEF GrantsFollowWallets
  <2>2. /\ Cardinality(WalletsOf(u)) + Cardinality(Pending(u)) <= peak[u]
        /\ granted[u] + Cardinality(Granting(u)) <= Cardinality(WalletsOf(u))
        /\ created[u] <= granted[u] /\ granted[u] \in Nat /\ peak[u] \in Nat
    BY <2>1 DEF IInv, Accounted, Types, CountTypes
  <2>. QED
    BY <2>1, <2>2, Counted DEF IInv
<1>. QED
  BY <1>1, Invariant, PTL

(* SOL leaves a wallet only by a transfer its owner asked for              *)
(* (wallet_handler.rs transfer_sol).                                       *)
THEOREM OnlyOwnersPay == Spec => OwnersPay
<1> DEFINE Pays ==
  \A w \in WalletId : chain'[w] < chain[w] =>
    \E r \in Active : /\ At(r, "send") /\ request'[r] = NoCall
                      /\ request[r].wallet = w
                      /\ request[r].user = solana_wallets[w]
<1>1. IInv /\ [Next]_vars => [Pays]_vars
  <2>1. SUFFICES ASSUME IInv, Next, NEW w \in WalletId, chain'[w] < chain[w]
        PROVE  \E r \in Active : /\ At(r, "send") /\ request'[r] = NoCall
                                 /\ request[r].wallet = w
                                 /\ request[r].user = solana_wallets[w]
    OBVIOUS
  <2>2. chain[w] \in Nat /\ ~(chain[w] < chain[w])
    BY <2>1 DEF IInv, Types, ChainTypes
  <2>3. ~ \E v \in WalletId : Fund(v)
    BY <2>1, <2>2 DEF Fund, IInv, Types, ChainTypes
  <2>4. PICK r \in Active : At(r, "send") /\ Return(r) /\ Executed(request[r])
    <3>1. PICK r \in Request : Begin(r) \/ Serve(r) \/ CallFails(r)
      BY <2>1, <2>3 DEF Next
    <3>2. chain' # chain
      BY <2>1, <2>2
    <3>3. Send(r) \/ CallFails(r)
      BY <3>1, <3>2 DEF Begin, CreateWallet, TransferSol, Serve, ListWallets, UserExists,
         Insert, Grant, GetWallet, CheckBalance, solana
    <3>4. r \in Active
      BY <3>3 DEF Send, CallFails, At
    <3>. QED
      BY <3>2, <3>3, <3>4 DEF Send, CallFails
  <2>5. request'[r] = NoCall
    BY <2>1, <2>4 DEF Return, IInv, Types, RequestTypes, Active
  <2>6. request[r].wallet = w
    BY <2>1, <2>4, SentByOwner, ExecutedOf DEF IInv, Types
  <2>. QED
    BY <2>1, <2>4, <2>5, <2>6, SentByOwner
<1>2. OwnersPay <=> [][Pays]_vars
  BY DEF OwnersPay
<1> HIDE DEF Pays
<1>. QED
  BY <1>1, <1>2, Invariant, PTL DEF Spec


===============================================================================
