---------------------------- MODULE SignInProofs ----------------------------
(* For any accounts, requests, creations and bounds: the types of SignIn,    *)
(* that a request acts for the account that made it, and that its second     *)
(* try is not made with a session that was refused before.  At the end, the  *)
(* same of the comment thread, whose sockets are authorized with sessions:   *)
(* its types, and that it shows the comments of the asset that is open.      *)
EXTENDS SignIn, CommentThread, TLAPS

(* A creation is for an account; its answer is a session of that account.    *)
CreationOK(c) ==
    /\ ~Idle(c) => creation[c].address \in Wallets
    /\ creation[c].at = "answered" =>
          creation[c].token \in Tokens /\ owner[creation[c].token] = creation[c].address

Over == {"idle", "done", "failed"}

(* A request that is under way was made by the account that is signed in,    *)
(* or is marked; the creation it waits for and the session it uses are that  *)
(* account's.                                                                *)
AccountOK(r) ==
    LET q == request[r] IN
    /\ q.at \in Over => q.token = 0
    /\ q.at \notin Over /\ ~q.mixed => q.asked = wallet /\ wallet # None
    /\ q.at = "waiting" /\ ~q.mixed => creation[promise].address = q.asked
    /\ q.token # 0 /\ ~q.mixed => owner[q.token] = q.asked

(* As long as the server has lost no session since the first refusal, the    *)
(* second session is one the server has yet to issue, or knows.              *)
SecondOK(r) ==
    LET q == request[r] IN
    /\ q.refusedAt <= losses
    /\ q.again /\ ~q.joined /\ q.refusedAt = losses =>
          /\ q.at = "waiting" /\ creation[promise].at = "answered" => creation[promise].token \in known
          /\ q.at = "sent" => q.token \in known
          /\ q.at # "refused"

IInv ==
    /\ TypeOK
    /\ \A c \in Creations : CreationOK(c)
    /\ \A r \in Requests : AccountOK(r) /\ SecondOK(r)

----------------------------------------------------------------------------
LEMMA Bounds ==
    /\ MaxTokens \in Nat /\ MaxLosses \in Nat /\ MaxSwitches \in Nat
    /\ None \notin Wallets /\ None \notin Creations
  BY SignInAssumption

LEMMA InitInv == Init => IInv
<1> SUFFICES ASSUME Init PROVE IInv
  OBVIOUS
<1>1. TypeOK
  <2>1. NoCreation \in Creation /\ NoRequest \in Request
    BY Bounds DEF NoCreation, Creation, NoRequest, Request
  <2>2. \A r \in Requests : request[r].at # "waiting"
    BY DEF Init, NoRequest
  <2>3. creation \in [Creations -> Creation] /\ request \in [Requests -> Request]
    BY <2>1 DEF Init
  <2>4. owner \in [Tokens -> Wallets \cup {None}]
    BY DEF Init
  <2>5. losses \in 0..MaxLosses /\ switches \in 0..MaxSwitches
    BY Bounds DEF Init
  <2> QED
    BY <2>2, <2>3, <2>4, <2>5 DEF Init, TypeOK
<1>2. \A c \in Creations : CreationOK(c)
  BY DEF Init, CreationOK, Idle, NoCreation
<1>3. \A r \in Requests : AccountOK(r) /\ SecondOK(r)
  BY DEF Init, AccountOK, SecondOK, NoRequest, Over
<1> QED
  BY <1>1, <1>2, <1>3 DEF IInv

(* A call of getOrCreateSession: what is asked of the record it is made      *)
(* with, and of the cached session it is made with.                          *)
Callable(rec, k) ==
    /\ rec \in Request
    /\ rec.token = 0 /\ rec.refusedAt <= losses
    /\ wallet # None \/ rec.mixed
    /\ ~rec.mixed => rec.asked = wallet
    /\ k = 0 \/ ~rec.again
    /\ k \in Issued \cup {0}

LEMMA GetOrCreateInv ==
    ASSUME IInv, NEW r \in Requests, NEW k, NEW rec, Callable(rec, k),
           GetOrCreate(r, k, rec),
           cached' \in {cached, 0},
           UNCHANGED <<wallet, signer, leaving, serverVars, losses, switches>>
    PROVE  IInv'
<1> USE DEF IInv, Callable, serverVars
<1>1. CASE /\ Usable(k)
           /\ request' = [request EXCEPT ![r] = [rec EXCEPT !.at = "sent", !.token = k]]
           /\ UNCHANGED <<promise, creation>>
  <2> DEFINE new == [rec EXCEPT !.at = "sent", !.token = k]
  <2>1. new \in Request
    <3>1. k \in 0..MaxTokens
      BY <1>1, Bounds DEF Issued, Tokens
    <3> QED
      BY <3>1 DEF Request
  <2>2. TypeOK'
    BY <1>1, <2>1 DEF TypeOK, Issued, Idle
  <2>3. \A c \in Creations : CreationOK(c)'
    BY <1>1 DEF CreationOK, Idle
  <2>4. \A s \in Requests : AccountOK(s)'
    BY <1>1 DEF AccountOK, TypeOK, Usable, Over, Request
  <2>5. \A s \in Requests : SecondOK(s)'
    BY <1>1 DEF SecondOK, TypeOK, Usable, Request
  <2> QED
    BY <2>2, <2>3, <2>4, <2>5
<1>2. CASE /\ ~Usable(k) /\ promise # None
           /\ request' = [request EXCEPT ![r] = [rec EXCEPT
                  !.at = "waiting",
                  !.mixed = @ \/ creation[promise].address # wallet,
                  !.joined = creation[promise].at = "answered"]]
           /\ UNCHANGED <<promise, creation>>
  <2> DEFINE new == [rec EXCEPT !.at = "waiting",
                  !.mixed = @ \/ creation[promise].address # wallet,
                  !.joined = creation[promise].at = "answered"]
  <2>1. new \in Request
    BY DEF Request
  <2>2. TypeOK'
    BY <1>2, <2>1 DEF TypeOK, Issued, Idle
  <2>3. \A c \in Creations : CreationOK(c)'
    BY <1>2 DEF CreationOK, Idle
  <2>4. \A s \in Requests : AccountOK(s)'
    BY <1>2 DEF AccountOK, TypeOK, Over, Request
  <2>5. \A s \in Requests : SecondOK(s)'
    BY <1>2 DEF SecondOK, TypeOK, Request
  <2> QED
    BY <2>2, <2>3, <2>4, <2>5
<1>3. CASE /\ ~Usable(k) /\ promise = None /\ wallet # None /\ signer # None
           /\ \E c \in Creations : Idle(c) /\ promise' = c /\ creation' = Started(c)
           /\ request' = [request EXCEPT ![r] = [rec EXCEPT !.at = "waiting"]]
  <2>1. PICK c \in Creations : Idle(c) /\ promise' = c /\ creation' = Started(c)
    BY <1>3
  <2>2. [rec EXCEPT !.at = "waiting"] \in Request
    BY DEF Request
  <2>3. c # None /\ wallet \in Wallets
    BY <1>3, SignInAssumption DEF TypeOK
  <2>4. creation' \in [Creations -> Creation] /\ creation'[c] = [at |-> "signing", address |-> wallet, token |-> 0]
    BY <2>1, <2>3, SignInAssumption DEF Started, TypeOK, Creation
  <2>5. TypeOK'
    BY <1>3, <2>1, <2>2, <2>3, <2>4 DEF TypeOK, Issued, Idle
  <2>6. \A d \in Creations : CreationOK(d)'
    BY <2>1, <2>3, <2>4 DEF CreationOK, Idle, Started, TypeOK
  <2>7. \A s \in Requests \ {r} : request[s].at # "waiting"
    BY <1>3 DEF TypeOK
  <2>8. \A s \in Requests : AccountOK(s)'
    BY <1>3, <2>1, <2>4, <2>7 DEF AccountOK, TypeOK, Over, Request
  <2>9. \A s \in Requests : SecondOK(s)'
    BY <1>3, <2>1, <2>4, <2>7 DEF SecondOK, TypeOK, Request
  <2> QED
    BY <2>5, <2>6, <2>8, <2>9
<1>4. CASE /\ ~Usable(k) /\ promise = None /\ (wallet = None \/ signer = None)
           /\ request' = [request EXCEPT ![r] = [rec EXCEPT !.at = "failed"]]
           /\ UNCHANGED <<promise, creation>>
  <2>1. [rec EXCEPT !.at = "failed"] \in Request
    BY DEF Request
  <2>2. TypeOK'
    BY <1>4, <2>1 DEF TypeOK, Issued, Idle
  <2>3. \A c \in Creations : CreationOK(c)'
    BY <1>4 DEF CreationOK, Idle
  <2>4. \A s \in Requests : AccountOK(s)'
    BY <1>4 DEF AccountOK, TypeOK, Over, Request
  <2>5. \A s \in Requests : SecondOK(s)'
    BY <1>4 DEF SecondOK, TypeOK, Request
  <2> QED
    BY <2>2, <2>3, <2>4, <2>5
<1> QED
  BY <1>1, <1>2, <1>3, <1>4 DEF GetOrCreate

----------------------------------------------------------------------------
(* The steps that ask for a session.                                         *)
LEMMA AgainInRequest ==
    ASSUME NEW q \in Request
    PROVE  LET rec == [q EXCEPT !.again = TRUE, !.token = 0, !.joined = FALSE] IN
           /\ rec \in Request /\ rec.token = 0
           /\ rec.refusedAt = q.refusedAt /\ rec.mixed = q.mixed /\ rec.asked = q.asked
<1> DEFINE rec == [q EXCEPT !.again = TRUE, !.token = 0, !.joined = FALSE]
<1>1. 0 \in 0..MaxTokens
  BY Bounds
<1>2. rec \in Request
  BY <1>1 DEF Request
<1>3. /\ rec.token = 0 /\ rec.refusedAt = q.refusedAt
      /\ rec.mixed = q.mixed /\ rec.asked = q.asked
  BY DEF Request
<1> QED
  BY <1>2, <1>3

LEMMA AskInv ==
    ASSUME IInv, NEW r \in Requests, Ask(r)
    PROVE  IInv'
<1> DEFINE rec == [NoRequest EXCEPT !.asked = wallet]
<1>1. wallet \in Wallets \cup {None} /\ wallet # None /\ cached \in Issued \cup {0}
  BY DEF Ask, IInv, TypeOK
<1>2. /\ rec \in Request
      /\ rec.token = 0 /\ rec.refusedAt = 0 /\ rec.asked = wallet /\ rec.again = FALSE
  <2>1. NoRequest \in Request /\ NoRequest.token = 0
        /\ NoRequest.refusedAt = 0 /\ NoRequest.again = FALSE
    BY Bounds DEF NoRequest, Request
  <2> QED
    BY <1>1, <2>1 DEF Request
<1>3. losses \in Nat
  BY Bounds DEF IInv, TypeOK
<1>4. Callable(rec, cached)
  BY <1>1, <1>2, <1>3 DEF Callable
<1>5. /\ GetOrCreate(r, cached, rec)
      /\ cached' = cached
      /\ UNCHANGED <<wallet, signer, leaving, serverVars, losses, switches>>
  BY DEF Ask
<1> HIDE DEF rec
<1> QED
  BY <1>4, <1>5, GetOrCreateInv

LEMMA RetryInv ==
    ASSUME IInv, NEW r \in Requests, Retry(r)
    PROVE  IInv'
<1> DEFINE rec == [request[r] EXCEPT !.again = TRUE, !.token = 0, !.joined = FALSE]
<1>1. /\ request[r] \in Request /\ request[r].at = "refused"
      /\ AccountOK(r) /\ SecondOK(r)
  BY DEF Retry, IInv, TypeOK
<1>2. /\ rec \in Request /\ rec.token = 0
      /\ rec.refusedAt = request[r].refusedAt
      /\ rec.mixed = request[r].mixed /\ rec.asked = request[r].asked
  BY <1>1, AgainInRequest
<1>3. Callable(rec, 0)
  BY <1>1, <1>2 DEF Callable, AccountOK, SecondOK, Over
<1>4. /\ GetOrCreate(r, 0, rec)
      /\ cached' = 0
      /\ UNCHANGED <<wallet, signer, leaving, serverVars, losses, switches>>
  BY DEF Retry
<1> HIDE DEF rec
<1> QED
  BY <1>3, <1>4, GetOrCreateInv

----------------------------------------------------------------------------
(* The wallet: a change of account marks every request under way.            *)
LEMMA MarkedType == TypeOK => Marked \in [Requests -> Request]
<1> SUFFICES ASSUME TypeOK PROVE Marked \in [Requests -> Request]
  OBVIOUS
<1>1. \A s \in Requests : request[s] \in Request
  BY DEF TypeOK
<1>2. \A s \in Requests : [request[s] EXCEPT !.mixed = TRUE] \in Request
  BY <1>1 DEF Request
<1> QED
  BY <1>1, <1>2 DEF Marked

LEMMA MarkedInv ==
    ASSUME TypeOK, NEW r \in Requests
    PROVE  /\ Marked[r].at = request[r].at /\ Marked[r].again = request[r].again
           /\ Marked[r].token = request[r].token
           /\ Marked[r].joined = request[r].joined
           /\ Marked[r].refusedAt = request[r].refusedAt
           /\ Marked[r].at \notin Over => Marked[r].mixed
           /\ Marked[r].at \in Over => Marked[r] = request[r]
<1>1. CASE request[r].at \in Over
  <2>1. Marked[r] = request[r]
    BY <1>1 DEF Marked, Over
  <2> QED
    BY <1>1, <2>1
<1>2. CASE request[r].at \notin Over
  <2>1. Marked[r] = [request[r] EXCEPT !.mixed = TRUE]
    BY <1>2 DEF Marked, Over
  <2>2. request[r] \in Request
    BY DEF TypeOK
  <2> QED
    BY <1>2, <2>1, <2>2 DEF Request
<1> QED
  BY <1>1, <1>2

(* The types of a step that changes the account.                             *)
LEMMA SwitchType ==
    ASSUME TypeOK, request' = Marked, wallet' \in Wallets \cup {None},
           signer' \in Wallets \cup {None}, leaving' \in BOOLEAN,
           UNCHANGED <<cached, serverVars, losses>>, switches' \in 0..MaxSwitches,
           creation' \in [Creations -> Creation],
           promise' \in Creations \cup {None},
           promise' # None => creation'[promise'].at # "idle",
           (\E r \in Requests : request[r].at = "waiting") => promise' # None
    PROVE  TypeOK'
<1>1. request' \in [Requests -> Request]
  BY MarkedType
<1>2. \A r \in Requests : request'[r].at = request[r].at
  BY MarkedInv
<1> QED
  BY <1>1, <1>2 DEF TypeOK, Issued, Idle, serverVars

(* The requests of a step that changes the account, and may start a          *)
(* creation that no request waits for.                                       *)
LEMMA SwitchInv ==
    ASSUME IInv, request' = Marked,
           \A r \in Requests : request[r].at = "waiting" =>
               promise' = promise /\ creation'[promise] = creation[promise],
           UNCHANGED <<serverVars, losses>>
    PROVE  \A r \in Requests : AccountOK(r)' /\ SecondOK(r)'
<1> SUFFICES ASSUME NEW r \in Requests PROVE AccountOK(r)' /\ SecondOK(r)'
  OBVIOUS
<1>1. /\ request'[r].at = request[r].at /\ request'[r].again = request[r].again
      /\ request'[r].token = request[r].token
      /\ request'[r].joined = request[r].joined
      /\ request'[r].refusedAt = request[r].refusedAt
      /\ request'[r].at \notin Over => request'[r].mixed
      /\ request'[r].at \in Over => request'[r] = request[r]
  BY MarkedInv DEF IInv
<1>2. AccountOK(r) /\ SecondOK(r)
  BY DEF IInv
<1>3. AccountOK(r)'
  BY <1>1, <1>2 DEF AccountOK, serverVars, Over
<1>4. SecondOK(r)'
  BY <1>1, <1>2 DEF SecondOK, serverVars
<1> QED
  BY <1>3, <1>4

LEMMA ConnectInv ==
    ASSUME IInv, NEW w \in Wallets, Connect(w)
    PROVE  IInv'
<1> USE DEF IInv, serverVars
<1>0. /\ w # None /\ request' = Marked /\ wallet' = w /\ signer' = w
      /\ UNCHANGED <<leaving, cached, owner, known, losses>>
      /\ switches' \in 0..MaxSwitches
  BY Bounds DEF Connect, TypeOK
<1>1. CASE UNCHANGED <<promise, creation>>
  <2>1. TypeOK'
    BY <1>0, <1>1, SwitchType DEF TypeOK, Idle
  <2>2. \A c \in Creations : CreationOK(c)'
    BY <1>0, <1>1 DEF CreationOK, Idle
  <2>3. \A r \in Requests : AccountOK(r)' /\ SecondOK(r)'
    BY <1>0, <1>1, SwitchInv
  <2> QED
    BY <2>1, <2>2, <2>3
<1>2. CASE /\ promise = None
           /\ \E c \in Creations :
                 /\ Idle(c)
                 /\ promise' = c
                 /\ creation' = [creation EXCEPT ![c] =
                        [at |-> "signing", address |-> w, token |-> 0]]
  <2>1. PICK c \in Creations :
                 /\ promise' = c
                 /\ creation' = [creation EXCEPT ![c] =
                        [at |-> "signing", address |-> w, token |-> 0]]
    BY <1>2
  <2>2. creation' \in [Creations -> Creation]
    BY <2>1, Bounds DEF TypeOK, Creation
  <2>3. creation'[c] = [at |-> "signing", address |-> w, token |-> 0]
    BY <2>1 DEF TypeOK
  <2>4. \A r \in Requests : request[r].at # "waiting"
    BY <1>2 DEF TypeOK
  <2>5. TypeOK'
    <3>1. /\ leaving' \in BOOLEAN /\ wallet' \in Wallets \cup {None}
          /\ signer' \in Wallets \cup {None}
      BY <1>0 DEF TypeOK
    <3> QED
      BY <1>0, <2>1, <2>2, <2>3, <2>4, <3>1, SwitchType
  <2>6. \A d \in Creations : CreationOK(d)'
    BY <1>0, <2>1, <2>2, <2>3 DEF CreationOK, Idle, TypeOK
  <2>7. \A r \in Requests : AccountOK(r)' /\ SecondOK(r)'
    BY <1>0, <2>4, SwitchInv
  <2> QED
    BY <2>5, <2>6, <2>7
<1> QED
  BY <1>1, <1>2 DEF Connect

LEMMA SwitchAccountInv ==
    ASSUME IInv, NEW w \in Wallets, SwitchAccount(w)
    PROVE  IInv'
<1> USE DEF IInv, serverVars
<1>0. /\ request' = Marked /\ wallet' = w
      /\ UNCHANGED <<signer, leaving, cached, promise, creation, owner, known, losses>>
      /\ switches' \in 0..MaxSwitches
  BY Bounds DEF SwitchAccount, TypeOK
<1>1. TypeOK'
  BY <1>0, SwitchType DEF TypeOK, Idle
<1>2. \A c \in Creations : CreationOK(c)'
  BY <1>0 DEF CreationOK, Idle
<1>3. \A r \in Requests : AccountOK(r)' /\ SecondOK(r)'
  BY <1>0, SwitchInv
<1> QED
  BY <1>1, <1>2, <1>3

LEMMA DisconnectInv ==
    ASSUME IInv, Disconnect
    PROVE  IInv'
<1> USE DEF IInv, serverVars
<1>0. /\ request' = Marked /\ wallet' = None /\ signer' = None /\ leaving' = TRUE
      /\ UNCHANGED <<cached, promise, creation, owner, known, losses>>
      /\ switches' \in 0..MaxSwitches
  BY Bounds DEF Disconnect, TypeOK
<1>1. TypeOK'
  BY <1>0, SwitchType DEF TypeOK, Idle
<1>2. \A c \in Creations : CreationOK(c)'
  BY <1>0 DEF CreationOK, Idle
<1>3. \A r \in Requests : AccountOK(r)' /\ SecondOK(r)'
  BY <1>0, SwitchInv
<1> QED
  BY <1>1, <1>2, <1>3

----------------------------------------------------------------------------
(* The steps that leave requests and creations alone.                        *)
LEMMA CacheDropped ==
    ASSUME IInv, cached' \in {0, cached}, leaving' \in BOOLEAN,
           UNCHANGED <<wallet, signer, promise, creation, request, serverVars, losses, switches>>
    PROVE  IInv'
<1> USE DEF IInv, serverVars
<1>1. TypeOK'
  BY DEF TypeOK, Issued, Idle
<1>2. \A c \in Creations : CreationOK(c)'
  BY DEF CreationOK, Idle
<1>3. \A r \in Requests : AccountOK(r)'
  BY DEF AccountOK
<1>4. \A r \in Requests : SecondOK(r)'
  BY DEF SecondOK
<1> QED
  BY <1>1, <1>2, <1>3, <1>4

LEMMA LoseInv ==
    ASSUME IInv, Lose
    PROVE  IInv'
<1> USE DEF IInv, browserVars
<1>0. /\ UNCHANGED <<wallet, signer, leaving, cached, promise, creation, request, owner, switches>>
      /\ losses' = losses + 1 /\ losses' \in 0..MaxLosses /\ known' \subseteq known
      /\ losses \in Nat
  BY Bounds DEF Lose, TypeOK
<1>1. TypeOK'
  BY <1>0 DEF TypeOK, Issued, Idle
<1>2. \A c \in Creations : CreationOK(c)'
  BY <1>0 DEF CreationOK, Idle
<1>3. \A r \in Requests : AccountOK(r)'
  BY <1>0 DEF AccountOK
<1>4. \A r \in Requests : SecondOK(r)'
  <2> SUFFICES ASSUME NEW r \in Requests PROVE SecondOK(r)'
    OBVIOUS
  <2>1. request[r].refusedAt \in 0..MaxLosses /\ request[r].refusedAt <= losses
    BY DEF TypeOK, Request, SecondOK
  <2>2. request'[r].refusedAt <= losses' /\ request'[r].refusedAt # losses'
    BY <1>0, <2>1, Bounds
  <2> QED
    BY <2>2 DEF SecondOK
<1> QED
  BY <1>1, <1>2, <1>3, <1>4

LEMMA ThreadReauthenticatesInv ==
    ASSUME IInv, ThreadReauthenticates
    PROVE  IInv'
<1> USE DEF IInv, serverVars
<1>0. /\ cached' = 0
      /\ UNCHANGED <<wallet, signer, leaving, promise, request, owner, known, losses, switches>>
  BY DEF ThreadReauthenticates
<1>1. CASE UNCHANGED creation
  BY <1>0, <1>1, CacheDropped DEF TypeOK
<1>2. CASE /\ wallet # None
           /\ \E c \in Creations : Idle(c) /\ creation' = Started(c)
  <2>1. PICK c \in Creations : Idle(c) /\ creation' = Started(c)
    BY <1>2
  <2>2. wallet \in Wallets
    BY <1>2 DEF TypeOK
  <2>3. creation' \in [Creations -> Creation]
    BY <2>1, <2>2, Bounds DEF TypeOK, Creation, Started
  <2>4. creation'[c] = [at |-> "signing", address |-> wallet, token |-> 0]
    BY <2>1 DEF TypeOK, Started
  <2>5. \A d \in Creations \ {c} : creation'[d] = creation[d]
    BY <2>1 DEF TypeOK, Started
  <2>6. promise # c
    BY <2>1, Bounds DEF TypeOK
  <2>7. TypeOK'
    BY <1>0, <2>3, <2>5, <2>6 DEF TypeOK, Issued, Idle
  <2>8. \A d \in Creations : CreationOK(d)'
    BY <1>0, <2>2, <2>4, <2>5 DEF CreationOK, Idle
  <2>9. \A r \in Requests : request[r].at = "waiting" => creation'[promise] = creation[promise]
    BY <2>5, <2>6 DEF TypeOK
  <2>10. \A r \in Requests : AccountOK(r)'
    BY <1>0, <2>9 DEF AccountOK
  <2>11. \A r \in Requests : SecondOK(r)'
    BY <1>0, <2>9 DEF SecondOK
  <2> QED
    BY <2>7, <2>8, <2>10, <2>11
<1> QED
  BY <1>1, <1>2 DEF ThreadReauthenticates

----------------------------------------------------------------------------
(* The steps of a creation.                                                  *)
LEMMA SignInv ==
    ASSUME IInv, NEW c \in Creations, Sign(c)
    PROVE  IInv'
<1> USE DEF IInv, serverVars
<1>0. /\ creation[c].at = "signing" /\ creation[c] \in Creation
      /\ creation' = [creation EXCEPT ![c].at = "posting"]
      /\ UNCHANGED <<wallet, signer, leaving, cached, promise, request, owner, known, losses, switches>>
  BY DEF Sign, TypeOK
<1>1. creation' \in [Creations -> Creation]
  BY <1>0 DEF TypeOK, Creation
<1>2. /\ creation'[c].at = "posting" /\ creation'[c].address = creation[c].address
      /\ \A d \in Creations \ {c} : creation'[d] = creation[d]
  BY <1>0 DEF TypeOK, Creation
<1>3. TypeOK'
  BY <1>0, <1>1, <1>2 DEF TypeOK, Issued, Idle
<1>4. \A d \in Creations : CreationOK(d)'
  BY <1>0, <1>2 DEF CreationOK, Idle
<1>5. \A r \in Requests : request[r].at = "waiting" => promise \in Creations
  BY DEF TypeOK
<1>6. \A r \in Requests : AccountOK(r)'
  BY <1>0, <1>2, <1>5 DEF AccountOK
<1>7. \A r \in Requests : SecondOK(r)'
  BY <1>0, <1>2, <1>5 DEF SecondOK
<1> QED
  BY <1>3, <1>4, <1>6, <1>7

LEMMA PostInv ==
    ASSUME IInv, NEW c \in Creations, Post(c)
    PROVE  IInv'
<1> USE DEF IInv
<1>0. PICK k \in Tokens :
          /\ Issued = 1..(k - 1)
          /\ owner' = [owner EXCEPT ![k] = creation[c].address]
          /\ known' = known \cup {k}
          /\ creation' = [creation EXCEPT ![c].at = "answered", ![c].token = k]
  BY DEF Post
<1>1. /\ UNCHANGED <<wallet, signer, leaving, cached, promise, request, losses, switches>>
      /\ creation[c].at = "posting" /\ creation[c] \in Creation
      /\ creation[c].address \in Wallets
  BY DEF Post, TypeOK, CreationOK, Idle
<1>2. k \in 1..MaxTokens /\ k \in 0..MaxTokens /\ k \notin Issued
  BY <1>0, Bounds DEF Tokens
<1>3. creation' \in [Creations -> Creation]
  BY <1>0, <1>1, <1>2 DEF TypeOK, Creation
<1>4. /\ creation'[c].at = "answered" /\ creation'[c].address = creation[c].address
      /\ creation'[c].token = k
      /\ \A d \in Creations \ {c} : creation'[d] = creation[d]
  BY <1>0, <1>1, <1>2 DEF TypeOK, Creation
<1>5. /\ owner' \in [Tokens -> Wallets \cup {None}]
      /\ owner'[k] = creation[c].address /\ owner'[k] # None
      /\ \A l \in Tokens \ {k} : owner'[l] = owner[l]
  BY <1>0, <1>1, Bounds DEF TypeOK
<1>6. Issued \subseteq Issued' /\ k \in Issued' /\ \A l \in Issued : owner'[l] = owner[l]
  BY <1>0, <1>2, <1>5 DEF Issued
<1>7. TypeOK'
  BY <1>0, <1>1, <1>3, <1>4, <1>5, <1>6 DEF TypeOK, Idle
<1>8. \A d \in Creations : CreationOK(d)'
  <2> SUFFICES ASSUME NEW d \in Creations PROVE CreationOK(d)'
    OBVIOUS
  <2>1. CASE d = c
    BY <1>0, <1>1, <1>4, <1>5, <2>1 DEF CreationOK, Idle
  <2>2. CASE d # c
    <3>1. CreationOK(d) /\ creation'[d] = creation[d]
      BY <1>4, <2>2
    <3>2. ~Idle(d) => creation[d].address # None
      BY <3>1, Bounds DEF CreationOK
    <3>3. creation[d].at = "answered" => creation[d].token \in Issued
      BY <3>1, <3>2 DEF CreationOK, Issued, Idle
    <3> QED
      BY <1>6, <3>1, <3>3 DEF CreationOK, Idle
  <2> QED
    BY <2>1, <2>2
<1>9. \A r \in Requests : request[r].at = "waiting" => promise \in Creations
  BY DEF TypeOK
<1>10. \A r \in Requests : AccountOK(r)'
  <2> SUFFICES ASSUME NEW r \in Requests PROVE AccountOK(r)'
    OBVIOUS
  <2>1. /\ request'[r] = request[r] /\ wallet' = wallet /\ promise' = promise
        /\ AccountOK(r) /\ request[r] \in Request
    BY <1>1 DEF TypeOK
  <2>2. request[r].at = "waiting" => creation'[promise].address = creation[promise].address
    BY <1>4, <1>9
  <2>3. (request[r].token # 0 /\ ~request[r].mixed) => request[r].token \in Issued
    <3>1. request[r].token # 0 => request[r].token \in Tokens /\ request[r].at \notin Over
      BY <2>1, Bounds DEF AccountOK, Request, Tokens
    <3>2. (request[r].token # 0 /\ ~request[r].mixed) => owner[request[r].token] # None
      BY <2>1, <3>1 DEF AccountOK
    <3> QED
      BY <3>1, <3>2 DEF Issued
  <2> QED
    BY <1>6, <2>1, <2>2, <2>3 DEF AccountOK
<1>11. \A r \in Requests : SecondOK(r)'
  <2> SUFFICES ASSUME NEW r \in Requests PROVE SecondOK(r)'
    OBVIOUS
  <2>1. /\ request'[r] = request[r] /\ losses' = losses /\ promise' = promise
        /\ SecondOK(r) /\ known \subseteq known' /\ k \in known'
    BY <1>0, <1>1
  <2>2. request[r].at = "waiting" =>
            creation'[promise] = creation[promise] \/ creation'[promise].token = k
    BY <1>4, <1>9
  <2> QED
    BY <2>1, <2>2 DEF SecondOK
<1> QED
  BY <1>7, <1>8, <1>10, <1>11

LEMMA AnsweredFields ==
    ASSUME NEW r \in Requests, NEW outcome \in {"failed", "sent"}, NEW k \in 0..MaxTokens,
           request[r] \in Request,
           request'[r] = [request[r] EXCEPT !.at = outcome, !.token = k]
    PROVE  /\ request'[r] \in Request
           /\ request'[r].at = outcome /\ request'[r].token = k
           /\ request'[r].again = request[r].again
           /\ request'[r].mixed = request[r].mixed
           /\ request'[r].asked = request[r].asked
           /\ request'[r].joined = request[r].joined
           /\ request'[r].refusedAt = request[r].refusedAt
<1> DEFINE old == request[r]
           new == request'[r]
<1>1. old \in Request /\ new = [old EXCEPT !.at = outcome, !.token = k]
  OBVIOUS
<1> HIDE DEF old, new
<1>2. /\ new \in Request /\ new.at = outcome /\ new.token = k
      /\ new.again = old.again /\ new.mixed = old.mixed /\ new.asked = old.asked
      /\ new.joined = old.joined /\ new.refusedAt = old.refusedAt
  BY <1>1 DEF Request
<1> QED
  BY <1>2 DEF old, new

(* The end of a creation: the requests that wait for it get its session, or  *)
(* fail.                                                                     *)
LEMMA SettleInv ==
    ASSUME IInv, NEW c \in Creations, ~Idle(c), NEW outcome, NEW k,
           \/ outcome = "failed" /\ k = 0
           \/ outcome = "sent" /\ creation[c].at = "answered" /\ k = creation[c].token,
           request' = Settled(c, outcome, k),
           promise' = IF promise = c THEN None ELSE promise,
           creation' = [creation EXCEPT ![c] = NoCreation],
           cached' \in Issued \cup {0},
           UNCHANGED <<wallet, signer, leaving, serverVars, losses, switches>>
    PROVE  IInv'
<1>0. outcome = "sent" \/ (outcome = "failed" /\ k = 0)
  OBVIOUS
<1> USE DEF IInv, serverVars
<1>1. k \in 0..MaxTokens /\ (k # 0 => k \in Tokens)
  BY Bounds DEF CreationOK, Tokens
<1>2. NoCreation \in Creation
  BY Bounds DEF NoCreation, Creation
<1>3. /\ creation' \in [Creations -> Creation] /\ creation'[c] = NoCreation
      /\ \A d \in Creations \ {c} : creation'[d] = creation[d]
  BY <1>2 DEF TypeOK
<1>4. \A r \in Requests \ Waiters(c) : request'[r] = request[r]
  BY DEF Settled
<1>5. \A r \in Waiters(c) : /\ request'[r] = [request[r] EXCEPT !.at = outcome, !.token = k]
                            /\ request[r].at = "waiting" /\ promise = c /\ request[r] \in Request
  BY DEF Settled, Waiters, TypeOK
<1>6. \A r \in Waiters(c) :
          /\ request'[r] \in Request
          /\ request'[r].at = outcome /\ request'[r].token = k
          /\ request'[r].again = request[r].again /\ request'[r].mixed = request[r].mixed
          /\ request'[r].asked = request[r].asked /\ request'[r].joined = request[r].joined
          /\ request'[r].refusedAt = request[r].refusedAt
  <2> SUFFICES ASSUME NEW r \in Waiters(c)
               PROVE  /\ request'[r] \in Request
                      /\ request'[r].at = outcome /\ request'[r].token = k
                      /\ request'[r].again = request[r].again
                      /\ request'[r].mixed = request[r].mixed
                      /\ request'[r].asked = request[r].asked
                      /\ request'[r].joined = request[r].joined
                      /\ request'[r].refusedAt = request[r].refusedAt
    OBVIOUS
  <2>1. request'[r] = [request[r] EXCEPT !.at = outcome, !.token = k] /\ request[r] \in Request
    BY <1>5
  <2>2. outcome \in {"failed", "sent"} /\ k \in 0..MaxTokens /\ r \in Requests
    BY <1>0, <1>1 DEF Waiters
  <2> QED
    BY <2>1, <2>2, AnsweredFields
<1>7. request' \in [Requests -> Request]
  <2>1. \A r \in Requests : request'[r] \in Request
    BY <1>4, <1>6 DEF TypeOK
  <2> QED
    BY <2>1 DEF Settled
<1>8. \A r \in Requests : request'[r].at = "waiting" =>
          request'[r] = request[r] /\ promise # c /\ promise' = promise /\ promise \in Creations \ {c}
  BY <1>4, <1>6 DEF TypeOK, Waiters
<1>9. TypeOK'
  <2>1. promise' # None => creation'[promise'].at # "idle"
    BY <1>3 DEF TypeOK, Idle
  <2>2. (\E r \in Requests : request'[r].at = "waiting") => promise' # None
    BY <1>8, Bounds
  <2> QED
    BY <1>3, <1>7, <2>1, <2>2 DEF TypeOK, Issued, Idle
<1>10. \A d \in Creations : CreationOK(d)'
  BY <1>3 DEF CreationOK, Idle, NoCreation
<1>11. \A r \in Requests : AccountOK(r)'
  <2> SUFFICES ASSUME NEW r \in Requests PROVE AccountOK(r)'
    OBVIOUS
  <2>1. AccountOK(r)
    OBVIOUS
  <2>2. CASE r \in Waiters(c)
    <3>1. /\ ~request[r].mixed => creation[c].address = request[r].asked
          /\ ~request[r].mixed => request[r].asked = wallet /\ wallet # None
      BY <1>5, <2>1, <2>2 DEF AccountOK, Over
    <3>2. k # 0 => owner[k] = creation[c].address
      BY DEF CreationOK
    <3>3. /\ request'[r].at \in {"sent", "failed"}
          /\ request'[r].at = "failed" => request'[r].token = 0
          /\ request'[r].token = k /\ request'[r].mixed = request[r].mixed
          /\ request'[r].asked = request[r].asked
      BY <1>0, <1>6, <2>2
    <3> QED
      BY <3>1, <3>2, <3>3 DEF AccountOK, Over
  <2>3. CASE r \notin Waiters(c)
    BY <1>3, <1>4, <1>8, <2>1, <2>3 DEF AccountOK
  <2> QED
    BY <2>2, <2>3
<1>12. \A r \in Requests : SecondOK(r)'
  <2> SUFFICES ASSUME NEW r \in Requests PROVE SecondOK(r)'
    OBVIOUS
  <2>1. SecondOK(r)
    OBVIOUS
  <2>2. CASE r \in Waiters(c)
    BY <1>5, <1>6, <2>1, <2>2 DEF SecondOK
  <2>3. CASE r \notin Waiters(c)
    BY <1>3, <1>4, <1>8, <2>1, <2>3 DEF SecondOK
  <2> QED
    BY <2>2, <2>3
<1> QED
  BY <1>9, <1>10, <1>11, <1>12

LEMMA CacheInv ==
    ASSUME IInv, NEW c \in Creations, Cache(c)
    PROVE  IInv'
<1>1. creation[c].token \in Issued
  BY Bounds DEF Cache, IInv, CreationOK, Issued, Idle
<1> QED
  BY <1>1, SettleInv DEF Cache, Idle

LEMMA CreationFailsInv ==
    ASSUME IInv, NEW c \in Creations, CreationFails(c)
    PROVE  IInv'
<1>1. cached' \in Issued \cup {0}
  BY DEF CreationFails, IInv, TypeOK
<1> QED
  BY <1>1, SettleInv DEF CreationFails, Idle

----------------------------------------------------------------------------
(* The steps of a request.                                                   *)
LEMMA RequestStep ==
    ASSUME IInv, NEW r \in Requests, NEW q \in Request,
           request' = [request EXCEPT ![r] = q], q.at # "waiting",
           AccountOK(r)', SecondOK(r)',
           UNCHANGED <<wallet, signer, leaving, cached, promise, creation, serverVars,
                       losses, switches>>
    PROVE  IInv'
<1> USE DEF IInv, serverVars
<1>1. TypeOK'
  BY DEF TypeOK, Issued, Idle
<1>2. \A c \in Creations : CreationOK(c)'
  BY DEF CreationOK, Idle
<1>3. \A s \in Requests \ {r} : request'[s] = request[s]
  BY DEF TypeOK
<1>4. \A s \in Requests : AccountOK(s)'
  BY <1>3 DEF AccountOK
<1>5. \A s \in Requests : SecondOK(s)'
  BY <1>3 DEF SecondOK
<1> QED
  BY <1>1, <1>2, <1>4, <1>5

LEMMA ServeInv ==
    ASSUME IInv, NEW r \in Requests, Serve(r)
    PROVE  IInv'
<1> DEFINE q == request[r]
           served == [q EXCEPT !.at = "served"]
           refused == [q EXCEPT !.at = "refused",
                                !.refusedAt = IF q.again THEN q.refusedAt ELSE losses]
<1>1. /\ q \in Request /\ q.at = "sent" /\ AccountOK(r) /\ SecondOK(r)
      /\ losses \in 0..MaxLosses /\ losses \in Nat
  BY Bounds DEF Serve, IInv, TypeOK
<1>2. UNCHANGED <<wallet, signer, leaving, cached, promise, creation, serverVars,
                  losses, switches>>
  BY DEF Serve
<1>3. CASE q.token \in known
  <2>1. request' = [request EXCEPT ![r] = served]
    BY <1>1, <1>3 DEF Serve
  <2>2. /\ served \in Request /\ served.at = "served" /\ served.again = q.again
        /\ served.token = q.token /\ served.mixed = q.mixed /\ served.asked = q.asked
        /\ served.joined = q.joined /\ served.refusedAt = q.refusedAt
    BY <1>1 DEF Request
  <2>3. request'[r] = served
    BY <2>1 DEF IInv, TypeOK
  <2> HIDE DEF served
  <2>4. AccountOK(r)'
    BY <1>1, <1>2, <2>2, <2>3 DEF AccountOK, Over, serverVars
  <2>5. SecondOK(r)'
    BY <1>1, <1>2, <2>2, <2>3 DEF SecondOK, serverVars
  <2> QED
    BY <1>2, <2>1, <2>2, <2>4, <2>5, RequestStep
<1>4. CASE q.token \notin known
  <2>1. request' = [request EXCEPT ![r] = refused]
    BY <1>1, <1>4 DEF Serve
  <2>2. (IF q.again THEN q.refusedAt ELSE losses) \in 0..MaxLosses
    BY <1>1 DEF Request
  <2>3. /\ refused \in Request /\ refused.at = "refused" /\ refused.again = q.again
        /\ refused.token = q.token /\ refused.mixed = q.mixed /\ refused.asked = q.asked
        /\ refused.joined = q.joined
        /\ refused.refusedAt = IF q.again THEN q.refusedAt ELSE losses
    BY <1>1, <2>2 DEF Request
  <2>4. request'[r] = refused
    BY <2>1 DEF IInv, TypeOK
  <2> HIDE DEF refused
  <2>5. AccountOK(r)'
    BY <1>1, <1>2, <2>3, <2>4 DEF AccountOK, Over, serverVars
  <2>6. SecondOK(r)'
    BY <1>1, <1>2, <1>4, <2>3, <2>4 DEF SecondOK, serverVars
  <2> QED
    BY <1>2, <2>1, <2>3, <2>5, <2>6, RequestStep
<1> QED
  BY <1>3, <1>4

LEMMA OverInv ==
    ASSUME IInv, NEW r \in Requests, Receive(r) \/ MakeAnew(r)
    PROVE  IInv'
<1>1. PICK q \in {[NoRequest EXCEPT !.at = "done"], NoRequest} :
          request' = [request EXCEPT ![r] = q]
  BY DEF Receive, MakeAnew
<1>2. UNCHANGED <<wallet, signer, leaving, cached, promise, creation, serverVars,
                  losses, switches>>
  BY DEF Receive, MakeAnew
<1>3. /\ q \in Request /\ q.at \in Over /\ q.token = 0 /\ q.again = FALSE /\ q.refusedAt = 0
  <2>1. /\ NoRequest \in Request /\ NoRequest.token = 0 /\ NoRequest.again = FALSE
        /\ NoRequest.refusedAt = 0 /\ NoRequest.at = "idle"
    BY Bounds DEF NoRequest, Request
  <2>2. CASE q = NoRequest
    BY <2>1, <2>2 DEF Over
  <2>3. CASE q = [NoRequest EXCEPT !.at = "done"]
    BY <2>1, <2>3 DEF Request, Over
  <2> QED
    BY <2>2, <2>3
<1>4. request'[r] = q
  BY <1>1 DEF IInv, TypeOK
<1>5. losses \in Nat
  BY Bounds DEF IInv, TypeOK
<1>6. AccountOK(r)'
  BY <1>3, <1>4 DEF AccountOK, Over
<1>7. SecondOK(r)'
  BY <1>2, <1>3, <1>4, <1>5 DEF SecondOK
<1> QED
  BY <1>1, <1>2, <1>3, <1>6, <1>7, RequestStep DEF Over

----------------------------------------------------------------------------
LEMMA StepInv == IInv /\ [Next]_vars => IInv'
<1> SUFFICES ASSUME IInv, [Next]_vars PROVE IInv'
  OBVIOUS
<1>1. ASSUME NEW w \in Wallets, Connect(w) \/ SwitchAccount(w) PROVE IInv'
  BY <1>1, ConnectInv, SwitchAccountInv
<1>2. CASE Disconnect
  BY <1>2, DisconnectInv
<1>3. CASE Disconnected \/ Expire
  BY <1>3, CacheDropped DEF Disconnected, Expire, IInv, TypeOK
<1>4. CASE ThreadReauthenticates
  BY <1>4, ThreadReauthenticatesInv
<1>5. CASE Lose
  BY <1>5, LoseInv
<1>6. ASSUME NEW c \in Creations, Sign(c) \/ Post(c) \/ Cache(c) \/ CreationFails(c)
      PROVE  IInv'
  BY <1>6, SignInv, PostInv, CacheInv, CreationFailsInv
<1>7. ASSUME NEW r \in Requests, Ask(r) \/ Serve(r) \/ Retry(r) \/ Receive(r) \/ MakeAnew(r)
      PROVE  IInv'
  BY <1>7, AskInv, ServeInv, RetryInv, OverInv
<1>8. CASE UNCHANGED vars
  <2>1. UNCHANGED <<wallet, signer, leaving, cached, promise, creation, request, serverVars,
                    losses, switches>>
    BY <1>8 DEF vars, browserVars
  <2> QED
    BY <2>1, CacheDropped DEF IInv, TypeOK
<1> QED
  BY <1>1, <1>2, <1>3, <1>4, <1>5, <1>6, <1>7, <1>8 DEF Next

LEMMA Invariant == Spec => []IInv
  BY InitInv, StepInv, PTL DEF Spec

(* The variables keep their types: tokens are handed out in order, a cached  *)
(* session is one the server issued, and no request waits for a creation     *)
(* that has ended.  services/backend-client.ts: sessionCreationPromise.      *)
THEOREM Typed == Spec => []TypeOK
<1>1. IInv => TypeOK
  BY DEF IInv
<1> QED
  BY <1>1, Invariant, PTL

(* For any number of accounts, requests and creations, and any interleaving  *)
(* of sign-ins, expiries and restarts with them, a request acts for the      *)
(* account it was made by, unless the account changed under it.              *)
(* services/backend-client.ts: getOrCreateSession, fetchWithSession.         *)
THEOREM RequestsActAsTheirAccount == Spec => []RequestActsAsItsAccount
<1>1. IInv => RequestActsAsItsAccount
  BY DEF IInv, AccountOK, RequestActsAsItsAccount
<1> QED
  BY <1>1, Invariant, PTL

(* The one retry of fetchWithSession is refused only if the server lost      *)
(* another session since the first refusal, or the retry joined a creation   *)
(* that had its answer by then.                                              *)
THEOREM SecondTriesAreFresh == Spec => []SecondTryIsFresh
<1>1. IInv => SecondTryIsFresh
  <2> SUFFICES ASSUME IInv, NEW r \in Requests,
                      request[r].at = "refused", request[r].again, ~request[r].joined
               PROVE  losses > request[r].refusedAt
    BY DEF SecondTryIsFresh
  <2>1. /\ SecondOK(r) /\ losses \in 0..MaxLosses
        /\ request[r] \in Request /\ request[r].refusedAt \in 0..MaxLosses
    BY DEF IInv, TypeOK, Request
  <2> QED
    BY <2>1, Bounds DEF SecondOK
<1> QED
  BY <1>1, Invariant, PTL

----------------------------------------------------------------------------
(* The comment thread.                                                       *)

(* A socket the browser has not seen the end of is one of an asset, and a    *)
(* live one is the socket the thread points to, unless one was orphaned: so  *)
(* no comment of an asset before arrives on another.                         *)
SocketOK(s) ==
    /\ sock[s].client # "closed" => sock[s].asset \in Assets
    /\ Live(s) => orphaned \/ ws = s

(* An archive is waited for at most once per change of the context.          *)
ThreadInv ==
    /\ ThreadTypeOK
    /\ ThreadShowsItsAsset
    /\ \A a \in Assets : archives[a] <= changes
    /\ \A s \in Sockets : SocketOK(s)

LEMMA ThreadBounds ==
    /\ Nothing \notin Assets /\ Nothing \notin Sockets
    /\ MaxAttempts \in Nat \ {0} /\ MaxChanges \in Nat \ {0}
    /\ MaxFaults \in Nat \ {0} /\ MaxSessions \in Nat \ {0}
    /\ 1 \in Sessions
  BY ThreadAssumption DEF Sessions

LEMMA ThreadInitInv ==
    ASSUME ThreadInit
    PROVE  ThreadInv
<1>1. Unused \in Socket
  BY ThreadBounds DEF Unused, Socket
<1>2. \A s \in Sockets : sock[s] = Unused
  BY DEF ThreadInit
<1>3. sock \in [Sockets -> Socket]
  BY <1>1 DEF ThreadInit
<1>4. archives \in [Assets -> Pending] /\ proofs \in [Assets \X Sessions -> Nat]
  BY ThreadBounds DEF ThreadInit, Pending
<1>5. ThreadTypeOK
  <2>1. {connecting, timer, reauth, orphaned, clobbered} \subseteq BOOLEAN
    BY DEF ThreadInit
  <2>2. /\ attempts \in 0..MaxAttempts /\ session \in 0..MaxSessions /\ issued \in Sessions
        /\ knownSessions \subseteq 1..issued /\ changes \in 0..MaxChanges /\ faults \in 0..MaxFaults
    BY ThreadBounds DEF ThreadInit
  <2>3. context \in Assets \cup {Nothing} /\ shown \subseteq Assets /\ ws = Nothing
    BY DEF ThreadInit
  <2> QED
    BY <1>3, <1>4, <2>1, <2>2, <2>3 DEF ThreadTypeOK
<1>6. \A s \in Sockets : SocketOK(s)
  BY <1>2 DEF SocketOK, Live, Unused
<1>7. \A a \in Assets : archives[a] <= changes
  BY DEF ThreadInit
<1> QED
  BY <1>5, <1>6, <1>7 DEF ThreadInv, ThreadShowsItsAsset, ThreadInit

(* What connect() may do before its await keeps its types. *)
LEMMA ConnectType ==
    ASSUME ThreadInv, NEW signed \in 0..MaxSessions, ThreadConnect(signed),
           context' \in Assets \cup {Nothing}
    PROVE  /\ connecting' \in BOOLEAN /\ attempts' \in 0..MaxAttempts
           /\ proofs' \in [Assets \X Sessions -> Nat]
<1>1. /\ connecting \in BOOLEAN /\ attempts \in 0..MaxAttempts
      /\ proofs \in [Assets \X Sessions -> Nat]
  BY DEF ThreadInv, ThreadTypeOK
<1>2. CASE ws' = Nothing /\ ~connecting /\ context' # Nothing /\ signed # 0
  <2>1. <<context', signed>> \in Assets \X Sessions
    BY <1>2, ThreadBounds DEF Sessions
  <2>2. connecting' = TRUE /\ attempts' = 0
        /\ proofs' = [proofs EXCEPT ![<<context', signed>>] = @ + 1]
    BY <1>2 DEF ThreadConnect
  <2> QED
    BY <1>1, <2>1, <2>2, ThreadBounds
<1>3. CASE ~(ws' = Nothing /\ ~connecting /\ context' # Nothing /\ signed # 0)
  <2>1. connecting' = connecting /\ attempts' = attempts /\ proofs' = proofs
    BY <1>3 DEF ThreadConnect
  <2> QED
    BY <1>1, <2>1
<1> QED
  BY <1>2, <1>3

LEMMA ScheduleType ==
    ASSUME ThreadInv, ScheduleReconnect
    PROVE  timer' \in BOOLEAN /\ attempts' \in 0..MaxAttempts
<1>1. timer \in BOOLEAN /\ attempts \in 0..MaxAttempts
  BY DEF ThreadInv, ThreadTypeOK
<1>2. timer' = (timer \/ MaySchedule)
      /\ attempts' = IF MaySchedule THEN attempts + 1 ELSE attempts
  BY DEF ScheduleReconnect
<1>3. timer' \in BOOLEAN
  <2> HIDE DEF MaySchedule
  <2> QED BY <1>1, <1>2
<1>4. attempts' \in 0..MaxAttempts
  BY <1>1, <1>2, ThreadBounds DEF MaySchedule
<1> QED
  BY <1>3, <1>4

(* A step that leaves the sockets, and the one pointed to, as they are. *)
LEMMA SameSockets ==
    ASSUME ThreadInv, UNCHANGED <<ws, orphaned, sock>>
    PROVE  \A s \in Sockets : SocketOK(s)'
  BY DEF ThreadInv, SocketOK, Live

LEMMA SetContextInv ==
    ASSUME ThreadInv, NEW a \in Assets \cup {Nothing}, SetContext(a)
    PROVE  ThreadInv'
<1>0. /\ changes < MaxChanges /\ changes' = changes + 1
      /\ context' = a /\ shown' = {} /\ ws' = Nothing
      /\ sock' = IF ws = Nothing THEN sock ELSE [sock EXCEPT ![ws].client = "closing"]
      /\ connecting' = FALSE /\ timer' = FALSE /\ attempts' = 0
      /\ archives' = IF a = Nothing THEN archives ELSE [archives EXCEPT ![a] = @ + 1]
      /\ reauth' = reauth /\ orphaned' = orphaned /\ clobbered' = clobbered
      /\ UNCHANGED <<proofs, session, knownSessions, issued, faults>>
  BY DEF SetContext
<1>1. changes' \in 0..MaxChanges
  BY <1>0, ThreadBounds DEF ThreadInv, ThreadTypeOK
<1>2. archives' \in [Assets -> Pending] /\ \A b \in Assets : archives'[b] <= changes'
  <2>1. archives \in [Assets -> Pending] /\ changes \in Nat
        /\ \A b \in Assets : archives[b] <= changes /\ archives[b] \in Nat
    BY ThreadBounds DEF ThreadInv, ThreadTypeOK, Pending
  <2>2. CASE a = Nothing
    BY <2>1, <2>2, <1>0
  <2>3. CASE a # Nothing
    <3>1. a \in Assets /\ archives' = [archives EXCEPT ![a] = archives[a] + 1]
      BY <1>0, <2>3
    <3>2. \A b \in Assets : archives'[b] \in Nat /\ archives'[b] <= changes'
      BY <3>1, <2>1, <1>0
    <3> QED
      BY <3>1, <3>2, <2>1, <1>0, ThreadBounds DEF Pending
  <2> QED
    BY <2>2, <2>3
<1>3. sock' \in [Sockets -> Socket] /\ \A s \in Sockets : SocketOK(s)'
  <2>1. sock \in [Sockets -> Socket] /\ ws \in Sockets \cup {Nothing}
    BY DEF ThreadInv, ThreadTypeOK
  <2>2. CASE ws = Nothing
    BY <2>1, <2>2, <1>0, ThreadBounds DEF ThreadInv, SocketOK, Live
  <2>3. CASE ws # Nothing
    <3>1. PICK w \in Sockets : w = ws
      BY <2>1, <2>3
    <3>2. sock' = [sock EXCEPT ![w].client = "closing"] /\ sock[w] \in Socket
      BY <1>0, <2>1, <2>3, <3>1
    <3>3. sock'[w] \in Socket /\ sock'[w].client = "closing" /\ sock'[w].asset = sock[w].asset
      BY <3>2, <2>1 DEF Socket
    <3>4. \A s \in Sockets \ {w} : sock'[s] = sock[s]
      BY <3>2, <2>1
    <3>5. sock[w].asset \in Assets
      BY <3>1, <2>3 DEF ThreadInv, ThreadTypeOK, SocketOK
    <3>6. SocketOK(w)'
      BY <3>3, <3>5, <1>0 DEF SocketOK, Live
    <3>7. ASSUME NEW s \in Sockets, s # w PROVE SocketOK(s)'
      BY <3>1, <3>4, <3>7, <1>0 DEF ThreadInv, SocketOK, Live
    <3>8. sock' \in [Sockets -> Socket]
      BY <3>2, <3>3, <3>4, <2>1
    <3> QED
      BY <3>6, <3>7, <3>8
  <2> QED
    BY <2>2, <2>3
<1>4. ThreadTypeOK'
  <2>1. {connecting', timer', reauth', orphaned', clobbered'} \subseteq BOOLEAN
    BY <1>0 DEF ThreadInv, ThreadTypeOK
  <2>2. attempts' \in 0..MaxAttempts
    BY <1>0, ThreadBounds
  <2> QED
    BY <1>0, <1>1, <1>2, <1>3, <2>1, <2>2 DEF ThreadInv, ThreadTypeOK
<1>5. ThreadShowsItsAsset'
  BY <1>0 DEF ThreadShowsItsAsset
<1> QED
  BY <1>2, <1>3, <1>4, <1>5 DEF ThreadInv

LEMMA ArchiveReadInv ==
    ASSUME ThreadInv, NEW a \in Assets, ArchiveRead(a)
    PROVE  ThreadInv'
<1>0. /\ archives[a] > 0 /\ archives' = [archives EXCEPT ![a] = @ - 1]
      /\ \/ shown' = IF context = a THEN shown \cup {a} ELSE shown
         \/ shown' = shown
      /\ timer' = timer /\ reauth' = reauth /\ orphaned' = orphaned /\ clobbered' = clobbered
      /\ UNCHANGED <<context, ws, session, knownSessions, issued, sock, changes, faults>>
      /\ ThreadConnect(session)
  BY DEF ArchiveRead
<1>1. /\ connecting' \in BOOLEAN /\ attempts' \in 0..MaxAttempts
      /\ proofs' \in [Assets \X Sessions -> Nat]
  BY <1>0, ConnectType DEF ThreadInv, ThreadTypeOK
<1>2. archives' \in [Assets -> Pending] /\ \A b \in Assets : archives'[b] <= changes'
  <2>1. archives \in [Assets -> Pending] /\ changes \in Nat
        /\ \A b \in Assets : archives[b] <= changes /\ archives[b] \in Pending
    BY ThreadBounds DEF ThreadInv, ThreadTypeOK
  <2>2. \A b \in Assets : archives'[b] = IF b = a THEN archives[a] - 1 ELSE archives[b]
    BY <1>0, <2>1
  <2>3. \A b \in Assets : archives'[b] \in Pending /\ archives'[b] <= changes'
    BY <2>1, <2>2, <1>0, ThreadBounds DEF Pending
  <2> QED
    BY <2>1, <2>3, <1>0
<1>3. shown' \subseteq Assets /\ (~orphaned' => shown' \subseteq {context'})
  BY <1>0 DEF ThreadInv, ThreadTypeOK, ThreadShowsItsAsset
<1>4. ThreadTypeOK'
  BY <1>0, <1>1, <1>2, <1>3 DEF ThreadInv, ThreadTypeOK
<1> QED
  BY <1>0, <1>2, <1>3, <1>4, SameSockets DEF ThreadInv, ThreadShowsItsAsset

LEMMA ProofReadInv ==
    ASSUME ThreadInv, NEW a \in Assets, NEW k \in Sessions, ProofRead(a, k)
    PROVE  ThreadInv'
<1>0. /\ proofs[<<a, k>>] > 0 /\ proofs' = [proofs EXCEPT ![<<a, k>>] = @ - 1]
      /\ timer' = timer /\ reauth' = reauth
      /\ UNCHANGED <<context, shown, attempts, archives, session, knownSessions, issued, changes, faults>>
  BY DEF ProofRead
<1>1. proofs' \in [Assets \X Sessions -> Nat]
  <2>1. proofs \in [Assets \X Sessions -> Nat] /\ <<a, k>> \in Assets \X Sessions
    BY DEF ThreadInv, ThreadTypeOK
  <2> QED
    BY <2>1, <1>0
<1>2. CASE /\ connecting' = FALSE
           /\ clobbered' = (clobbered \/ connecting)
           /\ ws' = ws /\ sock' = sock /\ orphaned' = orphaned
  <2>1. clobbered' \in BOOLEAN
    BY <1>2 DEF ThreadInv, ThreadTypeOK
  <2>2. ThreadTypeOK'
    BY <1>0, <1>1, <1>2, <2>1 DEF ThreadInv, ThreadTypeOK
  <2> QED
    BY <1>0, <1>2, <2>2, SameSockets DEF ThreadInv, ThreadShowsItsAsset
<1>3. ASSUME a = context, connecting, NEW s \in Sockets, Free(s), ws' = s,
             sock' = [sock EXCEPT ![s] =
                [Unused EXCEPT !.asset = a, !.token = k, !.client = "connecting",
                               !.server = "none", !.handler = "none"]],
             orphaned' = (orphaned \/ ws # Nothing),
             connecting' = connecting, clobbered' = clobbered
      PROVE  ThreadInv'
  <2> DEFINE fresh == [Unused EXCEPT !.asset = a, !.token = k, !.client = "connecting",
                               !.server = "none", !.handler = "none"]
  <2>1. fresh \in Socket /\ fresh.client = "connecting" /\ fresh.asset = a
    <3>1. Unused \in Socket
      BY ThreadBounds DEF Unused, Socket
    <3>2. k \in 0..MaxSessions
      BY ThreadBounds DEF Sessions
    <3> QED
      BY <3>1, <3>2 DEF Socket
  <2>2. sock \in [Sockets -> Socket]
    BY DEF ThreadInv, ThreadTypeOK
  <2>3. sock' = [sock EXCEPT ![s] = fresh]
    BY <1>3
  <2> HIDE DEF fresh
  <2>4. sock' \in [Sockets -> Socket] /\ sock'[s] = fresh
        /\ \A t \in Sockets \ {s} : sock'[t] = sock[t]
    BY <2>1, <2>2, <2>3
  <2>5. orphaned' \in BOOLEAN
    BY <1>3 DEF ThreadInv, ThreadTypeOK
  <2>6. \A t \in Sockets : SocketOK(t)'
    BY <1>3, <2>1, <2>4, ThreadBounds DEF ThreadInv, SocketOK, Live
  <2>7. ThreadTypeOK'
    <3>1. ws' # Nothing => sock'[ws'].client # "closed" /\ sock'[ws'].asset = context'
      BY <1>3, <1>0, <2>1, <2>4
    <3> QED
      BY <1>0, <1>1, <1>3, <2>4, <2>5, <3>1 DEF ThreadInv, ThreadTypeOK
  <2>8. ThreadShowsItsAsset'
    BY <1>0, <1>3 DEF ThreadInv, ThreadShowsItsAsset
  <2> QED
    BY <1>0, <2>6, <2>7, <2>8 DEF ThreadInv
<1> QED
  BY <1>2, <1>3 DEF ProofRead

LEMMA ReconnectInv ==
    ASSUME ThreadInv, Reconnect
    PROVE  ThreadInv'
<1>0. /\ timer' = FALSE
      /\ reauth' = reauth /\ orphaned' = orphaned /\ clobbered' = clobbered
      /\ UNCHANGED <<context, shown, ws, archives, session, knownSessions, issued, sock, changes, faults>>
      /\ ThreadConnect(session)
  BY DEF Reconnect
<1>1. /\ connecting' \in BOOLEAN /\ attempts' \in 0..MaxAttempts
      /\ proofs' \in [Assets \X Sessions -> Nat]
  BY <1>0, ConnectType DEF ThreadInv, ThreadTypeOK
<1>2. ThreadTypeOK'
  BY <1>0, <1>1 DEF ThreadInv, ThreadTypeOK
<1> QED
  BY <1>0, <1>2, SameSockets DEF ThreadInv, ThreadShowsItsAsset

(* The end of a socket as the thread takes it. *)
LEMMA OnCloseInv ==
    ASSUME ThreadInv, NEW s \in Sockets, OnClose(s),
           sock' = [sock EXCEPT ![s].client = "closed"],
           faults' \in 0..MaxFaults
    PROVE  ThreadInv'
<1>0. /\ ws' = Nothing /\ connecting' = FALSE
      /\ orphaned' = (orphaned \/ (ws \notin {Nothing, s} /\ Live(ws)))
      /\ clobbered' = clobbered
      /\ UNCHANGED <<context, shown, archives, proofs, knownSessions, issued, changes>>
  BY DEF OnClose
<1>1. /\ reauth' \in BOOLEAN /\ timer' \in BOOLEAN /\ attempts' \in 0..MaxAttempts
      /\ session' \in 0..MaxSessions
  <2>1. CASE sock[s].refused /\ ~reauth
    <3>1. reauth' = TRUE /\ session' = 0 /\ timer' = timer /\ attempts' = attempts
      BY <2>1 DEF OnClose
    <3> QED
      BY <3>1, ThreadBounds DEF ThreadInv, ThreadTypeOK
  <2>2. CASE ~(sock[s].refused /\ ~reauth)
    <3>1. ScheduleReconnect /\ reauth' = reauth /\ session' = session
      BY <2>2 DEF OnClose
    <3> QED
      BY <3>1, ScheduleType DEF ThreadInv, ThreadTypeOK
  <2> QED
    BY <2>1, <2>2
<1>2. sock' \in [Sockets -> Socket] /\ \A t \in Sockets : SocketOK(t)'
  <2>1. sock \in [Sockets -> Socket] /\ sock[s] \in Socket
    BY DEF ThreadInv, ThreadTypeOK
  <2>2. sock'[s] \in Socket /\ sock'[s].client = "closed"
    BY <2>1 DEF Socket
  <2>3. \A t \in Sockets \ {s} : sock'[t] = sock[t]
    BY <2>1
  <2>4. SocketOK(s)'
    BY <2>2 DEF SocketOK, Live
  <2>5. ASSUME NEW t \in Sockets, t # s PROVE SocketOK(t)'
    BY <1>0, <2>3, <2>5, ThreadBounds DEF ThreadInv, SocketOK, Live
  <2> QED
    BY <2>1, <2>2, <2>3, <2>4, <2>5
<1>3. orphaned' \in BOOLEAN
  BY <1>0 DEF ThreadInv, ThreadTypeOK
<1>4. ThreadTypeOK'
  BY <1>0, <1>1, <1>2, <1>3 DEF ThreadInv, ThreadTypeOK
<1>5. ThreadShowsItsAsset'
  BY <1>0 DEF ThreadInv, ThreadShowsItsAsset
<1> QED
  BY <1>0, <1>2, <1>4, <1>5 DEF ThreadInv

LEMMA ReauthenticatedInv ==
    ASSUME ThreadInv, Reauthenticated
    PROVE  ThreadInv'
<1>0. /\ reauth' = FALSE /\ orphaned' = orphaned /\ clobbered' = clobbered
      /\ UNCHANGED <<context, shown, ws, archives, sock, changes>>
  BY DEF Reauthenticated
<1>1. CASE /\ issued < MaxSessions /\ issued' = issued + 1
           /\ knownSessions' = knownSessions \cup {issued'} /\ session' = issued'
           /\ timer' = timer /\ faults' = faults /\ ThreadConnect(issued')
  <2>1. issued' \in Sessions /\ knownSessions' \subseteq 1..issued' /\ session' \in 0..MaxSessions
    BY <1>1, ThreadBounds DEF ThreadInv, ThreadTypeOK, Sessions
  <2>2. /\ connecting' \in BOOLEAN /\ attempts' \in 0..MaxAttempts
        /\ proofs' \in [Assets \X Sessions -> Nat]
    BY <1>0, <1>1, <2>1, ConnectType DEF ThreadInv, ThreadTypeOK
  <2>3. ThreadTypeOK'
    BY <1>0, <1>1, <2>1, <2>2 DEF ThreadInv, ThreadTypeOK
  <2> QED
    BY <1>0, <2>3, SameSockets DEF ThreadInv, ThreadShowsItsAsset
<1>2. CASE /\ faults < MaxFaults /\ faults' = faults + 1 /\ ScheduleReconnect
           /\ connecting' = connecting
           /\ UNCHANGED <<proofs, session, knownSessions, issued>>
  <2>1. faults' \in 0..MaxFaults
    BY <1>2, ThreadBounds DEF ThreadInv, ThreadTypeOK
  <2>2. timer' \in BOOLEAN /\ attempts' \in 0..MaxAttempts
    BY <1>2, ScheduleType
  <2>3. ThreadTypeOK'
    BY <1>0, <1>2, <2>1, <2>2 DEF ThreadInv, ThreadTypeOK
  <2> QED
    BY <1>0, <2>3, SameSockets DEF ThreadInv, ThreadShowsItsAsset
<1> QED
  BY <1>1, <1>2 DEF Reauthenticated

LEMMA SignsInAgainInv ==
    ASSUME ThreadInv, SignIn
    PROVE  ThreadInv'
<1>0. /\ issued < MaxSessions /\ issued' = issued + 1
      /\ knownSessions' = knownSessions \cup {issued'} /\ session' = issued'
      /\ timer' = timer /\ reauth' = reauth /\ orphaned' = orphaned /\ clobbered' = clobbered
      /\ UNCHANGED <<context, shown, ws, archives, sock, changes, faults>>
      /\ ThreadConnect(issued')
  BY DEF SignIn
<1>1. issued' \in Sessions /\ knownSessions' \subseteq 1..issued' /\ session' \in 0..MaxSessions
  BY <1>0, ThreadBounds DEF ThreadInv, ThreadTypeOK, Sessions
<1>2. /\ connecting' \in BOOLEAN /\ attempts' \in 0..MaxAttempts
      /\ proofs' \in [Assets \X Sessions -> Nat]
  BY <1>0, <1>1, ConnectType DEF ThreadInv, ThreadTypeOK
<1>3. ThreadTypeOK'
  BY <1>0, <1>1, <1>2 DEF ThreadInv, ThreadTypeOK
<1> QED
  BY <1>0, <1>3, SameSockets DEF ThreadInv, ThreadShowsItsAsset

(* A comment is only delivered on a live socket: the thread's own, unless   *)
(* one was orphaned.                                                        *)
LEMMA DeliverInv ==
    ASSUME ThreadInv, NEW s \in Sockets, Deliver(s)
    PROVE  ThreadInv'
<1>0. /\ sock[s].client = "open" /\ shown' = shown \cup {sock[s].asset}
      /\ connecting' = connecting /\ timer' = timer /\ reauth' = reauth
      /\ orphaned' = orphaned /\ clobbered' = clobbered
      /\ UNCHANGED <<context, ws, attempts, archives, proofs, session, knownSessions, issued,
                     sock, changes, faults>>
  BY DEF Deliver
<1>1. sock[s].asset \in Assets /\ (orphaned \/ ws = s)
  BY <1>0 DEF ThreadInv, SocketOK, Live
<1>2. ~orphaned => sock[s].asset = context
  BY <1>1, ThreadBounds DEF ThreadInv, ThreadTypeOK
<1>3. shown' \subseteq Assets /\ ThreadShowsItsAsset'
  BY <1>0, <1>1, <1>2 DEF ThreadInv, ThreadTypeOK, ThreadShowsItsAsset
<1>4. ThreadTypeOK'
  BY <1>0, <1>3 DEF ThreadInv, ThreadTypeOK
<1> QED
  BY <1>0, <1>3, <1>4, SameSockets DEF ThreadInv

(* A step of the API: the browser's end of a socket is opened at most, and  *)
(* its asset stays.                                                         *)
LEMMA ProxyInv ==
    ASSUME ThreadInv, sock' \in [Sockets -> Socket],
           \A s \in Sockets : /\ sock'[s].asset = sock[s].asset
                              /\ \/ sock'[s].client = sock[s].client
                                 \/ sock[s].client = "connecting" /\ sock'[s].client = "open",
           connecting' \in BOOLEAN, clobbered' \in BOOLEAN, attempts' \in 0..MaxAttempts,
           knownSessions' \in {knownSessions, {}}, faults' \in 0..MaxFaults,
           timer' = timer, reauth' = reauth, orphaned' = orphaned,
           UNCHANGED <<context, shown, ws, archives, proofs, session, issued, changes>>
    PROVE  ThreadInv'
<1>1. \A s \in Sockets : SocketOK(s)'
  BY DEF ThreadInv, SocketOK, Live
<1>2. ws' # Nothing => sock'[ws'].client # "closed" /\ (orphaned' \/ sock'[ws'].asset = context')
  BY DEF ThreadInv, ThreadTypeOK
<1>3. knownSessions' \subseteq 1..issued'
  BY DEF ThreadInv, ThreadTypeOK
<1>4. ThreadTypeOK'
  BY <1>2, <1>3 DEF ThreadInv, ThreadTypeOK
<1> QED
  BY <1>1, <1>4 DEF ThreadInv, ThreadShowsItsAsset

LEMMA AcceptInv ==
    ASSUME ThreadInv, NEW s \in Sockets, Accept(s)
    PROVE  ThreadInv'
<1>0. /\ sock[s].client = "connecting"
      /\ sock' = [sock EXCEPT ![s].client = "open", ![s].server = "open",
                              ![s].handler = "authorizing"]
      /\ connecting' = FALSE /\ attempts' = 0
      /\ clobbered' = (clobbered \/ (connecting /\ ws # s))
      /\ timer' = timer /\ reauth' = reauth /\ orphaned' = orphaned
      /\ UNCHANGED <<context, shown, ws, archives, proofs, session, knownSessions, issued, changes, faults>>
  BY DEF Accept
<1>1. sock \in [Sockets -> Socket] /\ sock[s] \in Socket
  BY DEF ThreadInv, ThreadTypeOK
<1>2. sock'[s] \in Socket /\ sock'[s].client = "open" /\ sock'[s].asset = sock[s].asset
  BY <1>0, <1>1 DEF Socket
<1>3. \A t \in Sockets \ {s} : sock'[t] = sock[t]
  BY <1>0, <1>1
<1>4. sock' \in [Sockets -> Socket]
  BY <1>0, <1>1, <1>2, <1>3
<1>5. clobbered' \in BOOLEAN /\ attempts' \in 0..MaxAttempts /\ faults' \in 0..MaxFaults
  BY <1>0, ThreadBounds DEF ThreadInv, ThreadTypeOK
<1> QED
  BY <1>0, <1>2, <1>3, <1>4, <1>5, ProxyInv

(* What the handler of one socket does to that socket. *)
LEMMA HandlerInv ==
    ASSUME ThreadInv, NEW s \in Sockets, NEW rec \in Socket,
           rec.asset = sock[s].asset, rec.client = sock[s].client,
           sock' = [sock EXCEPT ![s] = rec],
           faults' \in 0..MaxFaults, UNCHANGED proxyVars
    PROVE  ThreadInv'
<1>1. sock \in [Sockets -> Socket]
  BY DEF ThreadInv, ThreadTypeOK
<1>2. sock' \in [Sockets -> Socket] /\ sock'[s] = rec
      /\ \A t \in Sockets \ {s} : sock'[t] = sock[t]
  BY <1>1
<1>3. /\ connecting' = connecting /\ clobbered' = clobbered
      /\ timer' = timer /\ reauth' = reauth /\ orphaned' = orphaned
      /\ UNCHANGED <<context, shown, ws, attempts, archives, proofs, session, knownSessions, issued, changes>>
  BY DEF proxyVars, threadVars
<1>4. connecting' \in BOOLEAN /\ clobbered' \in BOOLEAN /\ attempts' \in 0..MaxAttempts
  BY <1>3 DEF ThreadInv, ThreadTypeOK
<1> QED
  BY <1>2, <1>3, <1>4, ProxyInv

LEMMA MoreFaults ==
    ASSUME ThreadInv
    PROVE  faults \in 0..MaxFaults /\ (faults < MaxFaults => faults + 1 \in 0..MaxFaults)
  BY ThreadBounds DEF ThreadInv, ThreadTypeOK

LEMMA AuthorizeInv ==
    ASSUME ThreadInv, NEW s \in Sockets, Authorize(s)
    PROVE  ThreadInv'
<1> USE MoreFaults
<1>0. sock[s] \in Socket /\ UNCHANGED proxyVars
  BY DEF ThreadInv, ThreadTypeOK, Authorize
<1>1. CASE /\ sock' = [sock EXCEPT ![s].handler = "over", ![s].server = "closed",
                                   ![s].refused = (sock[s].server = "open")]
           /\ UNCHANGED faults
  <2> DEFINE rec == [sock[s] EXCEPT !.handler = "over", !.server = "closed",
                                    !.refused = (sock[s].server = "open")]
  <2>1. rec \in Socket /\ rec.asset = sock[s].asset /\ rec.client = sock[s].client
    BY <1>0 DEF Socket
  <2>2. sock' = [sock EXCEPT ![s] = rec]
    BY <1>1
  <2> QED
    BY <1>0, <1>1, <2>1, <2>2, HandlerInv
<1>2. CASE /\ faults < MaxFaults /\ faults' = faults + 1
           /\ sock' = [sock EXCEPT ![s].handler = "over", ![s].server = "closed"]
  <2> DEFINE rec == [sock[s] EXCEPT !.handler = "over", !.server = "closed"]
  <2>1. rec \in Socket /\ rec.asset = sock[s].asset /\ rec.client = sock[s].client
    BY <1>0 DEF Socket
  <2>2. sock' = [sock EXCEPT ![s] = rec]
    BY <1>2
  <2> QED
    BY <1>0, <1>2, <2>1, <2>2, HandlerInv
<1>3. CASE /\ sock' = [sock EXCEPT ![s].handler = "bridging", ![s].relay = "connecting"]
           /\ UNCHANGED faults
  <2> DEFINE rec == [sock[s] EXCEPT !.handler = "bridging", !.relay = "connecting"]
  <2>1. rec \in Socket /\ rec.asset = sock[s].asset /\ rec.client = sock[s].client
    BY <1>0 DEF Socket
  <2>2. sock' = [sock EXCEPT ![s] = rec]
    BY <1>3
  <2> QED
    BY <1>0, <1>3, <2>1, <2>2, HandlerInv
<1> QED
  BY <1>1, <1>2, <1>3 DEF Authorize

LEMMA BridgeInv ==
    ASSUME ThreadInv, NEW s \in Sockets, Bridge(s)
    PROVE  ThreadInv'
<1> DEFINE rec == [sock[s] EXCEPT !.handler = "ready", !.relay = "open"]
<1>0. sock[s] \in Socket /\ UNCHANGED proxyVars /\ faults' = faults
  BY DEF ThreadInv, ThreadTypeOK, Bridge
<1>1. rec \in Socket /\ rec.asset = sock[s].asset /\ rec.client = sock[s].client
  BY <1>0 DEF Socket
<1>2. sock' = [sock EXCEPT ![s] = rec]
  BY DEF Bridge
<1> QED
  BY <1>0, <1>1, <1>2, HandlerInv, MoreFaults

LEMMA BridgeFailsInv ==
    ASSUME ThreadInv, NEW s \in Sockets, BridgeFails(s)
    PROVE  ThreadInv'
<1>0. sock[s] \in Socket /\ UNCHANGED proxyVars /\ faults < MaxFaults /\ faults' = faults + 1
  BY DEF ThreadInv, ThreadTypeOK, BridgeFails
<1>1. PICK r \in {"closed", "late"} :
          sock' = [sock EXCEPT ![s].handler = "over", ![s].server = "closed", ![s].relay = r]
  BY DEF BridgeFails
<1> DEFINE rec == [sock[s] EXCEPT !.handler = "over", !.server = "closed", !.relay = r]
<1>2. rec \in Socket /\ rec.asset = sock[s].asset /\ rec.client = sock[s].client
  BY <1>0 DEF Socket
<1>3. sock' = [sock EXCEPT ![s] = rec]
  BY <1>1
<1> QED
  BY <1>0, <1>2, <1>3, HandlerInv, MoreFaults

LEMMA RelayClosesInv ==
    ASSUME ThreadInv, NEW s \in Sockets, RelayCloses(s)
    PROVE  ThreadInv'
<1> DEFINE rec == [sock[s] EXCEPT !.relay = "closed", !.server = "closed"]
<1>0. sock[s] \in Socket /\ UNCHANGED proxyVars /\ faults < MaxFaults /\ faults' = faults + 1
  BY DEF ThreadInv, ThreadTypeOK, RelayCloses
<1>1. rec \in Socket /\ rec.asset = sock[s].asset /\ rec.client = sock[s].client
  BY <1>0 DEF Socket
<1>2. sock' = [sock EXCEPT ![s] = rec]
  BY DEF RelayCloses
<1> QED
  BY <1>0, <1>1, <1>2, HandlerInv, MoreFaults

LEMMA LeavesInv ==
    ASSUME ThreadInv, NEW s \in Sockets, Leaves(s)
    PROVE  ThreadInv'
<1> DEFINE rec == [sock[s] EXCEPT !.server = "closed", !.left = (sock[s].handler # "ready"),
                       !.relay = IF sock[s].handler = "ready" THEN "closed" ELSE @]
<1>0. sock[s] \in Socket /\ UNCHANGED proxyVars /\ faults' = faults
  BY DEF ThreadInv, ThreadTypeOK, Leaves
<1>1. rec \in Socket /\ rec.asset = sock[s].asset /\ rec.client = sock[s].client
  BY <1>0 DEF Socket
<1>2. sock' = [sock EXCEPT ![s] = rec]
  BY DEF Leaves
<1> QED
  BY <1>0, <1>1, <1>2, HandlerInv, MoreFaults

LEMMA TerminateInv ==
    ASSUME ThreadInv, NEW s \in Sockets, Terminate(s)
    PROVE  ThreadInv'
<1> DEFINE rec == [sock[s] EXCEPT !.server = "closed", !.relay = "closed"]
<1>0. sock[s] \in Socket /\ UNCHANGED proxyVars /\ faults' = faults
  BY DEF ThreadInv, ThreadTypeOK, Terminate
<1>1. rec \in Socket /\ rec.asset = sock[s].asset /\ rec.client = sock[s].client
  BY <1>0 DEF Socket
<1>2. sock' = [sock EXCEPT ![s] = rec]
  BY DEF Terminate
<1> QED
  BY <1>0, <1>1, <1>2, HandlerInv, MoreFaults

LEMMA RestartInv ==
    ASSUME ThreadInv, Restart
    PROVE  ThreadInv'
<1> DEFINE cut(s) == [sock[s] EXCEPT !.relay = IF @ = "none" THEN @ ELSE "closed"]
           ended(s) == [sock[s] EXCEPT !.server = "closed", !.handler = "over",
                                       !.relay = IF @ = "none" THEN @ ELSE "closed"]
<1>0. /\ faults < MaxFaults /\ faults' = faults + 1 /\ knownSessions' = {}
      /\ UNCHANGED <<threadVars, issued, changes>>
      /\ sock' = [s \in Sockets |->
           IF sock[s].server = "open" \/ sock[s].handler \in {"authorizing", "bridging"}
           THEN ended(s) ELSE cut(s)]
  BY DEF Restart
<1>1. \A s \in Sockets : sock[s] \in Socket
  BY DEF ThreadInv, ThreadTypeOK
<1>2. \A s \in Sockets : /\ cut(s) \in Socket /\ cut(s).asset = sock[s].asset
                         /\ cut(s).client = sock[s].client
  BY <1>1 DEF Socket
<1>3. \A s \in Sockets : /\ ended(s) \in Socket /\ ended(s).asset = sock[s].asset
                         /\ ended(s).client = sock[s].client
  BY <1>1 DEF Socket
<1> HIDE DEF cut, ended
<1>4. \A s \in Sockets : sock'[s] \in {cut(s), ended(s)}
  BY <1>0
<1>5. sock' \in [Sockets -> Socket]
  BY <1>0, <1>2, <1>3
<1>6. /\ connecting' = connecting /\ clobbered' = clobbered
      /\ timer' = timer /\ reauth' = reauth /\ orphaned' = orphaned
      /\ UNCHANGED <<context, shown, ws, attempts, archives, proofs, session>>
  BY <1>0 DEF threadVars
<1>7. connecting' \in BOOLEAN /\ clobbered' \in BOOLEAN /\ attempts' \in 0..MaxAttempts
  BY <1>6 DEF ThreadInv, ThreadTypeOK
<1>8. faults' \in 0..MaxFaults
  BY <1>0, MoreFaults
<1>9. \A s \in Sockets : sock'[s].asset = sock[s].asset /\ sock'[s].client = sock[s].client
  BY <1>2, <1>3, <1>4
<1> QED
  BY <1>0, <1>5, <1>6, <1>7, <1>8, <1>9, ProxyInv

LEMMA ThreadStutterInv ==
    ASSUME ThreadInv, UNCHANGED commentVars
    PROVE  ThreadInv'
<1>1. /\ connecting' = connecting /\ timer' = timer /\ reauth' = reauth
      /\ orphaned' = orphaned /\ clobbered' = clobbered
      /\ UNCHANGED <<context, shown, ws, attempts, archives, proofs, session,
                     knownSessions, issued, sock, changes, faults>>
  BY DEF commentVars, threadVars
<1>2. ThreadTypeOK'
  BY <1>1 DEF ThreadInv, ThreadTypeOK
<1> QED
  BY <1>1, <1>2, SameSockets DEF ThreadInv, ThreadShowsItsAsset

LEMMA ThreadNextInv ==
    ASSUME ThreadInv, [ThreadNext]_commentVars
    PROVE  ThreadInv'
<1>1. ASSUME NEW s \in Sockets, Step(s) PROVE ThreadInv'
  <2>1. CASE Closed(s) \/ Lost(s)
    <3>1. /\ OnClose(s) /\ sock' = [sock EXCEPT ![s].client = "closed"]
          /\ faults' = faults \/ (faults < MaxFaults /\ faults' = faults + 1)
      BY <2>1 DEF Closed, Lost
    <3> QED
      BY <3>1, OnCloseInv, MoreFaults
  <2> QED
    BY <1>1, <2>1, DeliverInv, AcceptInv, AuthorizeInv, BridgeInv, BridgeFailsInv,
       RelayClosesInv, LeavesInv, TerminateInv DEF Step
<1> QED
  BY <1>1, SetContextInv, ArchiveReadInv, ProofReadInv, ReconnectInv,
     ReauthenticatedInv, SignsInAgainInv, RestartInv, ThreadStutterInv DEF ThreadNext

(* The invariant holds of every reachable state of the thread.               *)
THEOREM ThreadInvariant == ThreadSpec => []ThreadInv
<1>1. ThreadInit => ThreadInv
  BY ThreadInitInv
<1>2. ThreadInv /\ [ThreadNext]_commentVars => ThreadInv'
  BY ThreadNextInv
<1> QED
  BY <1>1, <1>2, PTL DEF ThreadSpec

(* Every reachable state of the thread and its proxy has its types, and a    *)
(* socket the thread points to is one of its own asset, unless a live socket *)
(* was left unclosed (services/comment-thread.ts, api/chat-proxy.ts).        *)
THEOREM ThreadTyped == ThreadSpec => []ThreadTypeOK
<1>1. ThreadInv => ThreadTypeOK
  BY DEF ThreadInv
<1> QED
  BY <1>1, ThreadInvariant, PTL

(* For any number of assets and sockets, the thread shows the comments of    *)
(* the asset that is open and of no other one, as long as no live socket was *)
(* left unclosed (services/comment-thread.ts: setContext, connect, onclose). *)
THEOREM ThreadShowsOwnComments == ThreadSpec => []ThreadShowsItsAsset
<1>1. ThreadInv => ThreadShowsItsAsset
  BY DEF ThreadInv
<1> QED
  BY <1>1, ThreadInvariant, PTL

=============================================================================
