------------------------------- MODULE SignIn -------------------------------
(***************************************************************************)
(* Sessions: the browser's cache of one token and the requests that use it  *)
(* (services/backend-client.ts, services/api.ts), the wallet they are       *)
(* signed with (blockchain/wallet-core.ts), and the sessions the API keeps  *)
(* in memory (api/sessions.ts, api/authentication.ts).                      *)
(*                                                                         *)
(* Creating a session waits for the user's signature and for the server.    *)
(* Requests that need one meanwhile share the creation under way.  A        *)
(* refused request drops the cached token, obtains another one and is sent  *)
(* once more; the token it drops may not be the one it was refused with.    *)
(***************************************************************************)
EXTENDS Naturals

CONSTANTS
    Wallets,      \* the accounts the user may sign in with
    None,         \* no account, no creation
    Requests,     \* authenticated requests of the browser (fetchWithSession)
    Creations,    \* identities of createSession calls under way
    MaxTokens,    \* bound: sessions the server hands out
    MaxLosses,    \* bound: restarts and expiries
    MaxSwitches   \* bound: sign-ins, sign-outs and changes of account

ASSUME SignInAssumption ==
    /\ None \notin Wallets \cup Creations
    /\ {MaxTokens, MaxLosses, MaxSwitches} \subseteq Nat \ {0}

VARIABLES
    wallet,    \* walletState: walletAddress
    signer,    \* the account the injected signer was built for
    leaving,   \* a sign-out whose WALLET_DISCONNECTED is still to come
    cached,    \* the token in localStorage, 0 for none
    promise,   \* sessionCreationPromise
    creation,  \* the createSession calls
    request,   \* the requests
    owner,     \* the server's record of a token: its address
    known,     \* the tokens the server knows
    losses, switches

browserVars == <<wallet, signer, leaving, cached, promise, creation, request>>
serverVars == <<owner, known>>
vars == <<browserVars, serverVars, losses, switches>>

Tokens == 1..MaxTokens
Issued == {k \in Tokens : owner[k] # None}

(* address: walletAddress, read at the start; token: the server's answer.   *)
Creation == [at : {"idle", "signing", "posting", "answered"},
             address : Wallets \cup {None}, token : 0..MaxTokens]
NoCreation == [at |-> "idle", address |-> None, token |-> 0]

(* asked: the account at the start of the request; mixed: it changed since, *)
(* or the request joined a creation for another account; refusedAt: losses  *)
(* when the first token was refused; joined: the second token comes from a  *)
(* creation that had its answer before.                                     *)
Request == [at : {"idle", "waiting", "sent", "served", "refused", "done", "failed"},
            again : BOOLEAN, token : 0..MaxTokens,
            asked : Wallets \cup {None}, mixed : BOOLEAN,
            refusedAt : 0..MaxLosses, joined : BOOLEAN]
NoRequest == [at |-> "idle", again |-> FALSE, token |-> 0, asked |-> None,
              mixed |-> FALSE, refusedAt |-> 0, joined |-> FALSE]

Init ==
    /\ wallet = None /\ signer = None /\ leaving = FALSE
    /\ cached = 0 /\ promise = None
    /\ creation = [c \in Creations |-> NoCreation]
    /\ request = [r \in Requests |-> NoRequest]
    /\ owner = [k \in Tokens |-> None]
    /\ known = {}
    /\ losses = 0 /\ switches = 0

----------------------------------------------------------------------------
(* getOrCreateSession.                                                      *)

(* Mutant: the address of the cached session is not compared. *)
UsableAnyone(k) == k # 0

(* The cached session is used only for the account it was created for.      *)
Usable(k) == k # 0 /\ owner[k] = wallet

Idle(c) == creation[c].at = "idle"

(* createSession, up to the signature: nothing without a wallet.            *)
Started(c) == [creation EXCEPT ![c] =
                  [at |-> "signing", address |-> wallet, token |-> 0]]

(* A request's call, with `k` the cached token: the token, the creation     *)
(* under way, or a new one.                                                 *)
GetOrCreate(r, k, rec) ==
    \/ /\ Usable(k)
       /\ request' = [request EXCEPT ![r] = [rec EXCEPT !.at = "sent", !.token = k]]
       /\ UNCHANGED <<promise, creation>>
    \/ /\ ~Usable(k) /\ promise # None
       /\ request' = [request EXCEPT ![r] = [rec EXCEPT
              !.at = "waiting",
              !.mixed = @ \/ creation[promise].address # wallet,
              !.joined = creation[promise].at = "answered"]]
       /\ UNCHANGED <<promise, creation>>
    \/ /\ ~Usable(k) /\ promise = None /\ wallet # None /\ signer # None
       /\ \E c \in Creations : Idle(c) /\ promise' = c /\ creation' = Started(c)
       /\ request' = [request EXCEPT ![r] = [rec EXCEPT !.at = "waiting"]]
    \/ /\ ~Usable(k) /\ promise = None /\ (wallet = None \/ signer = None)
       /\ request' = [request EXCEPT ![r] = [rec EXCEPT !.at = "failed"]]
       /\ UNCHANGED <<promise, creation>>

(* A request is made.                                                       *)
Ask(r) ==
    /\ request[r].at = "idle" /\ wallet # None
    /\ GetOrCreate(r, cached, [NoRequest EXCEPT !.asked = wallet])
    /\ UNCHANGED <<wallet, signer, leaving, cached, serverVars, losses, switches>>

----------------------------------------------------------------------------
(* The wallet.                                                              *)

(* A change of the account marks the requests under way.                    *)
Marked == [r \in Requests |-> IF request[r].at \in {"idle", "done", "failed"}
                              THEN request[r] ELSE [request[r] EXCEPT !.mixed = TRUE]]

(* _finishWalletSetup: account and signer, and the eager authentication,    *)
(* which starts a creation unless there is a session or a creation.         *)
Connect(w) ==
    /\ switches < MaxSwitches
    /\ wallet # w
    /\ switches' = switches + 1
    /\ wallet' = w /\ signer' = w
    /\ request' = Marked
    /\ \/ /\ promise # None \/ (cached # 0 /\ owner[cached] = w)
          /\ UNCHANGED <<promise, creation>>
       \/ /\ promise = None /\ ~(cached # 0 /\ owner[cached] = w)
          /\ \E c \in Creations :
                /\ Idle(c)
                /\ promise' = c
                /\ creation' = [creation EXCEPT ![c] =
                       [at |-> "signing", address |-> w, token |-> 0]]
    /\ UNCHANGED <<leaving, cached, serverVars, losses>>

(* accountsChanged: the address alone changes; signer and session stay.     *)
SwitchAccount(w) ==
    /\ switches < MaxSwitches
    /\ wallet \notin {None, w}
    /\ switches' = switches + 1
    /\ wallet' = w
    /\ request' = Marked
    /\ UNCHANGED <<signer, leaving, cached, promise, creation, serverVars, losses>>

(* disconnectWallet: the state is reset, and the event that clears the      *)
(* cached session follows when a module has been loaded.                    *)
Disconnect ==
    /\ switches < MaxSwitches
    /\ wallet # None
    /\ switches' = switches + 1
    /\ wallet' = None /\ signer' = None /\ leaving' = TRUE
    /\ request' = Marked
    /\ UNCHANGED <<cached, promise, creation, serverVars, losses>>

Disconnected ==
    /\ leaving
    /\ leaving' = FALSE /\ cached' = 0
    /\ UNCHANGED <<wallet, signer, promise, creation, request, serverVars, losses, switches>>

----------------------------------------------------------------------------
(* createSession.                                                           *)

(* The user signs.                                                          *)
Sign(c) ==
    /\ creation[c].at = "signing"
    /\ creation' = [creation EXCEPT ![c].at = "posting"]
    /\ UNCHANGED <<wallet, signer, leaving, cached, promise, request, serverVars,
                   losses, switches>>

(* POST /sessions: the server records a session of the signed address.      *)
Post(c) ==
    /\ creation[c].at = "posting"
    /\ \E k \in Tokens :
          /\ Issued = 1..(k - 1)
          /\ owner' = [owner EXCEPT ![k] = creation[c].address]
          /\ known' = known \cup {k}
          /\ creation' = [creation EXCEPT ![c].at = "answered", ![c].token = k]
    /\ UNCHANGED <<wallet, signer, leaving, cached, promise, request, losses, switches>>

(* Those who wait for the shared promise get its outcome.                   *)
Waiters(c) == {r \in Requests : promise = c /\ request[r].at = "waiting"}

Settled(c, outcome, k) ==
    [r \in Requests |-> IF r \in Waiters(c)
                        THEN [request[r] EXCEPT !.at = outcome, !.token = k]
                        ELSE request[r]]

(* The answer arrives: the session is cached, whoever is signed in by now.  *)
Cache(c) ==
    /\ creation[c].at = "answered"
    /\ cached' = creation[c].token
    /\ request' = Settled(c, "sent", creation[c].token)
    /\ promise' = IF promise = c THEN None ELSE promise
    /\ creation' = [creation EXCEPT ![c] = NoCreation]
    /\ UNCHANGED <<wallet, signer, leaving, serverVars, losses, switches>>

(* Mutant: a creation that failed stays the one to wait for. *)
CreationFailsForGood(c) ==
    /\ creation[c].at \in {"signing", "posting"}
    /\ request' = Settled(c, "failed", 0)
    /\ promise' = promise
    /\ creation' = [creation EXCEPT ![c] = NoCreation]
    /\ UNCHANGED <<wallet, signer, leaving, cached, serverVars, losses, switches>>

(* The signature is declined, or the server does not accept it.             *)
CreationFails(c) ==
    /\ creation[c].at \in {"signing", "posting"}
    /\ request' = Settled(c, "failed", 0)
    /\ promise' = IF promise = c THEN None ELSE promise
    /\ creation' = [creation EXCEPT ![c] = NoCreation]
    /\ UNCHANGED <<wallet, signer, leaving, cached, serverVars, losses, switches>>

(* The comment thread, its socket refused for a session that was lost,      *)
(* drops the cached one and creates another outside the shared promise.     *)
ThreadReauthenticates ==
    /\ Issued \ known # {}
    /\ cached' = 0
    /\ \/ /\ wallet # None /\ signer # None
          /\ \E c \in Creations : Idle(c) /\ creation' = Started(c)
       \/ /\ wallet = None \/ signer = None
          /\ UNCHANGED creation
    /\ UNCHANGED <<wallet, signer, leaving, promise, request, serverVars, losses, switches>>

----------------------------------------------------------------------------
(* fetchWithSession and the server.                                         *)

(* authorize: the token of a request is known, or the request is refused.   *)
Serve(r) ==
    /\ request[r].at = "sent"
    /\ \/ /\ request[r].token \in known
          /\ request' = [request EXCEPT ![r].at = "served"]
       \/ /\ request[r].token \notin known
          /\ request' = [request EXCEPT ![r].at = "refused",
                 ![r].refusedAt = IF request[r].again THEN request[r].refusedAt ELSE losses]
    /\ UNCHANGED <<wallet, signer, leaving, cached, promise, creation, serverVars,
                   losses, switches>>

(* Mutant: the refused session stays in the cache. *)
RetryKeepsSession(r) ==
    /\ request[r].at = "refused" /\ ~request[r].again
    /\ GetOrCreate(r, cached, [request[r] EXCEPT !.again = TRUE, !.token = 0, !.joined = FALSE])
    /\ UNCHANGED <<wallet, signer, leaving, cached, serverVars, losses, switches>>

(* A first refusal reaches the browser: the cached session, whichever it is *)
(* by now, is dropped, and the request is made once more.                   *)
Retry(r) ==
    /\ request[r].at = "refused" /\ ~request[r].again
    /\ cached' = 0
    /\ GetOrCreate(r, 0, [request[r] EXCEPT !.again = TRUE, !.token = 0, !.joined = FALSE])
    /\ UNCHANGED <<wallet, signer, leaving, serverVars, losses, switches>>

(* Any other answer ends the request; the browser may make it anew.         *)
Receive(r) ==
    /\ \/ request[r].at \in {"served", "failed"}
       \/ request[r].at = "refused" /\ request[r].again
    /\ request' = [request EXCEPT ![r] = [NoRequest EXCEPT !.at = "done"]]
    /\ UNCHANGED <<wallet, signer, leaving, cached, promise, creation, serverVars,
                   losses, switches>>

MakeAnew(r) ==
    /\ request[r].at = "done"
    /\ request' = [request EXCEPT ![r] = NoRequest]
    /\ UNCHANGED <<wallet, signer, leaving, cached, promise, creation, serverVars,
                   losses, switches>>

(* The server restarts, or one session expires.                             *)
Lose ==
    /\ losses < MaxLosses
    /\ losses' = losses + 1
    /\ known' \in {{}} \cup {known \ {k} : k \in known}
    /\ known' # known
    /\ UNCHANGED <<browserVars, owner, switches>>

(* getCachedSession finds the session expired and drops it: a minute after  *)
(* its end on the server, to allow for the clocks.                          *)
Expire ==
    /\ cached # 0 /\ cached \notin known
    /\ cached' = 0
    /\ UNCHANGED <<wallet, signer, leaving, promise, creation, request, serverVars,
                   losses, switches>>

Next ==
    \/ \E w \in Wallets : Connect(w) \/ SwitchAccount(w)
    \/ Disconnect \/ Disconnected \/ ThreadReauthenticates \/ Lose \/ Expire
    \/ \E c \in Creations : Sign(c) \/ Post(c) \/ Cache(c) \/ CreationFails(c)
    \/ \E r \in Requests : Ask(r) \/ Serve(r) \/ Retry(r) \/ Receive(r) \/ MakeAnew(r)

Spec == Init /\ [][Next]_vars

----------------------------------------------------------------------------
(* Properties.                                                              *)

(* Types; a shared creation is one under way, and only then requests wait.  *)
TypeOK ==
    /\ {wallet, signer} \subseteq Wallets \cup {None}
    /\ leaving \in BOOLEAN
    /\ cached \in Issued \cup {0}
    /\ promise \in Creations \cup {None}
    /\ promise # None => ~Idle(promise)
    /\ creation \in [Creations -> Creation]
    /\ request \in [Requests -> Request]
    /\ (\E r \in Requests : request[r].at = "waiting") => promise # None
    /\ owner \in [Tokens -> Wallets \cup {None}]
    /\ known \subseteq Issued
    /\ losses \in 0..MaxLosses
    /\ switches \in 0..MaxSwitches

(* A request carries a session of the account that was signed in when it    *)
(* was made, unless the account changed under it or it joined a creation    *)
(* that was started for another account: sign-outs, stale caches and        *)
(* creations that end late do not make it act for somebody else.            *)
(* services/backend-client.ts: getOrCreateSession, fetchWithSession.        *)
RequestActsAsItsAccount ==
    \A r \in Requests :
        (request[r].token # 0 /\ ~request[r].mixed)
            => owner[request[r].token] = request[r].asked

(* The repeated request goes through unless the server lost a session after *)
(* the first refusal, or the creation it joined had its answer already      *)
(* then.  services/backend-client.ts: fetchWithSession, "retrying once on   *)
(* 401 ... retried once with a fresh session".                              *)
SecondTryIsFresh ==
    \A r \in Requests :
        (request[r].at = "refused" /\ request[r].again)
            => losses > request[r].refusedAt \/ request[r].joined

=============================================================================
