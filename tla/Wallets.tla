------------------------------- MODULE Wallets -------------------------------
(***************************************************************************)
(* Wallets: their creation, with the initial USDT the handler deposits in  *)
(* the engine for each new one, and transfers of SOL                       *)
(* (domains/wallet/services/wallet_service.rs with its repository and      *)
(* handlers).  main.rs does not route these handlers any more.             *)
(*                                                                         *)
(* Every request is that of a user the JWT names; users are never deleted. *)
(* PostgreSQL, the engine's update_balance and the Solana node are         *)
(* external: at most MaxFaults of the calls to them fail, and one whose    *)
(* answer is lost may have been executed.  Requests that only read are     *)
(* left out, and so are lookups of a wallet already found: wallets are     *)
(* never changed or deleted.                                               *)
(***************************************************************************)
EXTENDS Integers, FiniteSets

CONSTANTS User,         \* authenticated users
          Request,      \* requests served at the same time
          NoCall,       \* a request that is not being served
          MaxWallets,   \* bound: creations that get to inserting a wallet
          MaxLamports,  \* bound: SOL in existence
          MaxFaults     \* bound: external calls that fail

(* The ids the table hands out, in order.                                  *)
WalletId == 1 .. MaxWallets
NoWallet == 0
Lamports == 0 .. MaxLamports

VARIABLES solana_wallets,  \* wallet id -> its user, or NoCall while unused
          chain,           \* wallet id -> SOL of its key on the chain
          supply,          \* SOL that came to the wallets so far
          granted,         \* user -> how often the initial USDT was deposited
          request,         \* request -> the call it serves
          faults,          \* external calls that failed so far
          created,         \* history: user -> creations answered with success
          peak             \* history: user -> most creations at the same time

db == <<solana_wallets, granted>>
solana == <<chain, supply>>
vars == <<db, solana, request, faults, created, peak>>

Call == [op : {"create", "transfer"},
         step : {"list", "user_exists", "insert", "grant", "get_wallet", "balance", "send"},
         user : User, wallet : WalletId \cup {NoWallet}, amount : Lamports]

ASSUME WalletsAssumption ==
  /\ {MaxWallets, MaxLamports, MaxFaults} \subseteq Nat
  /\ NoCall \notin User /\ NoCall \notin Call

Active == {r \in Request : request[r] # NoCall}
Exists == {w \in WalletId : solana_wallets[w] # NoCall}
WalletsOf(u) == {w \in WalletId : solana_wallets[w] = u}
Creating(u) == {r \in Active : request[r].op = "create" /\ request[r].user = u}

At(r, step) == r \in Active /\ request[r].step = step
GoTo(r, step) == request' = [request EXCEPT ![r].step = step]
Return(r) == request' = [request EXCEPT ![r] = NoCall]

(* A call that ends with an expected error.                                *)
Refuse(r) ==
  Return(r) /\ UNCHANGED <<db, solana, faults, created, peak>>

-----------------------------------------------------------------------------
(* create_wallet.                                                          *)

CreateWallet(r, u) ==
  /\ request[r] = NoCall
  /\ request' = [request EXCEPT ![r] =
       [op |-> "create", step |-> "list", user |-> u, wallet |-> NoWallet, amount |-> 0]]
  /\ peak' = [peak EXCEPT ![u] = IF @ > Cardinality(Creating(u)) THEN @
                                 ELSE Cardinality(Creating(u)) + 1]
  /\ UNCHANGED <<db, solana, faults, created>>

(* Mutant: a user with a wallet gets another one.                          *)
InsertAnyway(r) == GoTo(r, "user_exists")

UnlessFound(r) ==
  IF WalletsOf(request[r].user) = {} THEN GoTo(r, "user_exists") ELSE Return(r)

ListWallets(r) ==
  /\ At(r, "list")
  /\ UnlessFound(r)
  /\ UNCHANGED <<db, solana, faults, created, peak>>

UserExists(r) ==
  /\ At(r, "user_exists")
  /\ GoTo(r, "insert")
  /\ UNCHANGED <<db, solana, faults, created, peak>>

(* Only the public key is unique, and each creation generates another.     *)
Inserted(w, u) ==
  /\ \A v \in WalletId : solana_wallets[v] = NoCall <=> v >= w
  /\ solana_wallets' = [solana_wallets EXCEPT ![w] = u]

Insert(r) ==
  /\ At(r, "insert")
  /\ \E w \in WalletId : Inserted(w, request[r].user)
  /\ GoTo(r, "grant")
  /\ UNCHANGED <<granted, solana, faults, created, peak>>

Granted(u) == granted' = [granted EXCEPT ![u] = @ + 1]

(* The handler deposits 10,000 USDT under the engine's mutex.              *)
Grant(r) ==
  /\ At(r, "grant")
  /\ Granted(request[r].user)
  /\ created' = [created EXCEPT ![request[r].user] = @ + 1]
  /\ Return(r)
  /\ UNCHANGED <<solana_wallets, solana, faults, peak>>

-----------------------------------------------------------------------------
(* transfer_sol.                                                           *)

TransferSol(r, u, w, amount) ==
  /\ request[r] = NoCall
  /\ request' = [request EXCEPT ![r] =
       [op |-> "transfer", step |-> "get_wallet", user |-> u, wallet |-> w, amount |-> amount]]
  /\ UNCHANGED <<db, solana, faults, created, peak>>

(* Mutant: any wallet that exists will do.                                 *)
MayUseAny(c) == c.wallet \in Exists
MayUse(c) == c.wallet \in WalletsOf(c.user)

GetWallet(r) ==
  /\ At(r, "get_wallet")
  /\ IF MayUse(request[r]) THEN GoTo(r, "balance") ELSE Return(r)
  /\ UNCHANGED <<db, solana, faults, created, peak>>

CheckBalance(r) ==
  /\ At(r, "balance")
  /\ IF chain[request[r].wallet] < request[r].amount THEN Return(r) ELSE GoTo(r, "send")
  /\ UNCHANGED <<db, solana, faults, created, peak>>

(* The balance may have changed since: the node decides.  The SOL may go   *)
(* to one of the wallets, this one included, or away; its fee is left out. *)
Executed(c) ==
  LET paid == [chain EXCEPT ![c.wallet] = @ - c.amount]
  IN  /\ chain[c.wallet] >= c.amount
      /\ \/ \E w \in Exists : chain' = [paid EXCEPT ![w] = @ + c.amount]
         \/ chain' = paid

Send(r) ==
  /\ At(r, "send")
  /\ IF chain[request[r].wallet] >= request[r].amount THEN Executed(request[r])
                                                      ELSE UNCHANGED chain
  /\ Return(r)
  /\ UNCHANGED <<db, supply, faults, created, peak>>

-----------------------------------------------------------------------------
(* What fails.                                                             *)

(* The call ends with an error.  If only the answer was lost, or came too  *)
(* late, what was asked for has been done.                                 *)
CallFails(r) ==
  /\ r \in Active /\ faults < MaxFaults
  /\ faults' = faults + 1
  /\ \/ UNCHANGED <<db, chain>>
     \/ /\ At(r, "insert")
        /\ \E w \in WalletId : Inserted(w, request[r].user)
        /\ UNCHANGED <<granted, chain>>
     \/ /\ At(r, "grant")
        /\ Granted(request[r].user)
        /\ UNCHANGED <<solana_wallets, chain>>
     \/ /\ At(r, "send")
        /\ Executed(request[r])
        /\ UNCHANGED db
  /\ Return(r)
  /\ UNCHANGED <<supply, created, peak>>

(* Somebody sends SOL to a wallet.                                         *)
Fund(w) ==
  /\ w \in Exists /\ supply < MaxLamports
  /\ supply' = supply + 1
  /\ chain' = [chain EXCEPT ![w] = @ + 1]
  /\ UNCHANGED <<db, request, faults, created, peak>>

-----------------------------------------------------------------------------
Init ==
  /\ solana_wallets = [w \in WalletId |-> NoCall]
  /\ chain = [w \in WalletId |-> 0] /\ supply = 0
  /\ granted = [u \in User |-> 0]
  /\ request = [r \in Request |-> NoCall]
  /\ faults = 0
  /\ created = [u \in User |-> 0] /\ peak = [u \in User |-> 0]

Begin(r) ==
  \E u \in User :
     \/ CreateWallet(r, u)
     \/ \E w \in WalletId, amount \in Lamports \ {0} : TransferSol(r, u, w, amount)

Serve(r) ==
  \/ ListWallets(r) \/ UserExists(r) \/ Insert(r) \/ Grant(r)
  \/ GetWallet(r) \/ CheckBalance(r) \/ Send(r)

Next ==
  \/ \E r \in Request : Begin(r) \/ Serve(r) \/ CallFails(r)
  \/ \E w \in WalletId : Fund(w)

Spec == Init /\ [][Next]_vars

-----------------------------------------------------------------------------
TypeOK ==
  /\ solana_wallets \in [WalletId -> User \cup {NoCall}]
  /\ chain \in [WalletId -> Lamports] /\ supply \in Lamports
  /\ granted \in [User -> 0 .. MaxWallets]
  /\ request \in [Request -> Call \cup {NoCall}]
  /\ faults \in 0 .. MaxFaults
  /\ created \in [User -> 0 .. MaxWallets]
  /\ peak \in [User -> 0 .. Cardinality(Request)]

(* Every creation that succeeds has deposited the initial USDT, each       *)
(* deposit has a wallet of its own, and only creations that run at the     *)
(* same time give a user several wallets: one that begins after a wallet   *)
(* exists is refused, also a retry after a failure in between              *)
(* (wallet_handler.rs create_wallet; wallet_service.rs:35: one wallet per  *)
(* user).                                                                  *)
GrantsFollowWallets ==
  \A u \in User : /\ created[u] <= granted[u]
                  /\ granted[u] <= Cardinality(WalletsOf(u))
                  /\ Cardinality(WalletsOf(u)) <= peak[u]

(* SOL leaves a wallet only by a transfer its owner asked for, although    *)
(* the ownership is checked several calls earlier (wallet_handler.rs       *)
(* transfer_sol).                                                          *)
OwnersPay ==
  [][\A w \in WalletId : chain'[w] < chain[w] =>
       \E r \in Active : /\ At(r, "send") /\ request'[r] = NoCall
                         /\ request[r].wallet = w
                         /\ request[r].user = solana_wallets[w]]_vars

=============================================================================
