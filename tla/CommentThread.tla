--------------------------- MODULE CommentThread ---------------------------
(***************************************************************************)
(* The comments of one asset, from the panel in the browser to the private  *)
(* Nostr relay.  The browser keeps one CommentThread                        *)
(* (services/comment-thread.ts): it follows the asset that is open, holds   *)
(* a WebSocket to the API and reconnects after a loss.  The API             *)
(* (api/chat-proxy.ts) authorizes each socket, opens a relay connection of  *)
(* its own for it and closes one when the other ends.                       *)
(*                                                                         *)
(* Both ends of a socket see its end at moments of their own, and connect() *)
(* waits (for the editor proof) between its checks and the new socket.      *)
(***************************************************************************)
EXTENDS Integers, FiniteSets

CONSTANTS
    Assets,        \* the assets whose comments may be shown
    Nothing,       \* no asset, no socket
    Sockets,       \* identities of the WebSockets of the thread
    MaxAttempts,   \* MAX_RECONNECT_ATTEMPTS
    MaxChanges,    \* bound: changes of the context
    MaxFaults,     \* bound: lost connections, refusals and restarts
    MaxSessions    \* bound: sessions the server hands out

ASSUME ThreadAssumption ==
    /\ Nothing \notin Assets \cup Sockets
    /\ {MaxAttempts, MaxChanges, MaxFaults, MaxSessions} \subseteq Nat \ {0}

VARIABLES
    context,     \* _currentTokenId, _currentChainId and _currentAssetId
    shown,       \* the assets whose comments are among _events
    ws,          \* _ws
    connecting,  \* _isConnecting
    timer,       \* _reconnectTimer is set
    attempts,    \* _reconnectAttempts
    reauth,      \* _isReauthenticating
    archives,    \* setContext calls that wait for an archive, per asset
    proofs,      \* connect calls that wait for the proof, per asset and token
    session,     \* the token of the cached session, 0 for none
    knownSessions, \* the tokens the server knows
    issued,      \* the last token the server handed out
    sock,        \* both ends of every socket
    orphaned,    \* history: a live socket the thread no longer points to
    clobbered,   \* history: an aborted connect reset the flag of another one
    changes, faults

threadVars == <<context, shown, ws, connecting, timer, attempts, reauth,
                archives, proofs, session, orphaned, clobbered>>
commentVars == <<threadVars, knownSessions, issued, sock, changes, faults>>

Sessions == 1..MaxSessions
Pending == 0..MaxChanges

(* client: the browser's readyState ("closed" once onclose has run);        *)
(* server: the API's; handler: how far handleConnection is; relay: the      *)
(* connection it opened; left: the browser left before the bridge was up.   *)
Socket == [asset : Assets \cup {Nothing}, token : 0..MaxSessions,
           client : {"connecting", "open", "closing", "closed"},
           server : {"none", "open", "closed"},
           refused : BOOLEAN,
           handler : {"none", "authorizing", "bridging", "ready", "over"},
           relay : {"none", "connecting", "open", "closed", "late"},
           left : BOOLEAN]

Unused == [asset |-> Nothing, token |-> 0, client |-> "closed", server |-> "closed",
           refused |-> FALSE, handler |-> "over", relay |-> "none", left |-> FALSE]

Live(s) == sock[s].client \in {"connecting", "open"}

(* A socket both ends are done with: its identity can be taken again.       *)
Free(s) == /\ sock[s].client = "closed"
           /\ sock[s].server # "open"
           /\ sock[s].handler \in {"none", "ready", "over"}

ThreadInit ==
    /\ context = Nothing /\ shown = {} /\ ws = Nothing
    /\ connecting = FALSE /\ timer = FALSE /\ attempts = 0 /\ reauth = FALSE
    /\ archives = [a \in Assets |-> 0]
    /\ proofs = [p \in Assets \X Sessions |-> 0]
    /\ session = 1 /\ knownSessions = {1} /\ issued = 1
    /\ sock = [s \in Sockets |-> Unused]
    /\ orphaned = FALSE /\ clobbered = FALSE
    /\ changes = 0 /\ faults = 0

----------------------------------------------------------------------------
(* The thread's helpers: each gives the next value of the variables the     *)
(* method writes.                                                           *)

(* Mutant: the connection attempts are no longer counted from zero. *)
ConnectKeepsAttempts(signed) ==
    IF ws' = Nothing /\ ~connecting /\ context' # Nothing /\ signed # 0
    THEN /\ connecting' = TRUE
         /\ attempts' = attempts
         /\ proofs' = [proofs EXCEPT ![<<context', signed>>] = @ + 1]
    ELSE UNCHANGED <<connecting, attempts, proofs>>

(* connect(), up to its await: nothing when a socket exists or another      *)
(* connect is on its way, without an asset or without a session.            *)
ThreadConnect(signed) ==
    IF ws' = Nothing /\ ~connecting /\ context' # Nothing /\ signed # 0
    THEN /\ connecting' = TRUE
         /\ attempts' = 0
         /\ proofs' = [proofs EXCEPT ![<<context', signed>>] = @ + 1]
    ELSE UNCHANGED <<connecting, attempts, proofs>>

(* _scheduleReconnect(): one timer, an asset, a wallet, and the attempts    *)
(* not used up.                                                             *)
MaySchedule == /\ ~timer
               /\ context # Nothing
               /\ session # 0
               /\ attempts < MaxAttempts

ScheduleReconnect ==
    /\ timer' = (timer \/ MaySchedule)
    /\ attempts' = IF MaySchedule THEN attempts + 1 ELSE attempts

----------------------------------------------------------------------------
(* The thread in the browser.                                               *)

(* Mutant: the comments shown are kept over a change of the asset. *)
SetContextKeeps(a) ==
    /\ changes < MaxChanges
    /\ a # context
    /\ changes' = changes + 1
    /\ context' = a
    /\ shown' = shown
    /\ ws' = Nothing
    /\ sock' = IF ws = Nothing THEN sock
               ELSE [sock EXCEPT ![ws].client = "closing"]
    /\ connecting' = FALSE /\ timer' = FALSE /\ attempts' = 0
    /\ archives' = IF a = Nothing THEN archives ELSE [archives EXCEPT ![a] = @ + 1]
    /\ UNCHANGED <<reauth, proofs, session, orphaned, clobbered, knownSessions, issued, faults>>

(* setContext of another asset (or of none): disconnect closes the socket   *)
(* without waiting for its close event, the comments are cleared, and the   *)
(* archive of the new asset is read before connect().                       *)
SetContext(a) ==
    /\ changes < MaxChanges
    /\ a # context
    /\ changes' = changes + 1
    /\ context' = a
    /\ shown' = {}
    /\ ws' = Nothing
    /\ sock' = IF ws = Nothing THEN sock
               ELSE [sock EXCEPT ![ws].client = "closing"]
    /\ connecting' = FALSE /\ timer' = FALSE /\ attempts' = 0
    /\ archives' = IF a = Nothing THEN archives ELSE [archives EXCEPT ![a] = @ + 1]
    /\ UNCHANGED <<reauth, proofs, session, orphaned, clobbered, knownSessions, issued, faults>>

(* The archive that setContext waits for is there, or could not be read:    *)
(* its comments are taken in unless another asset is shown by now, and      *)
(* connect() is called for whatever is the context then.                    *)
ArchiveRead(a) ==
    /\ archives[a] > 0
    /\ archives' = [archives EXCEPT ![a] = @ - 1]
    /\ \/ shown' = IF context = a THEN shown \cup {a} ELSE shown
       \/ shown' = shown
    /\ UNCHANGED <<context, ws, timer, reauth, session, orphaned, clobbered,
                   knownSessions, issued, sock, changes, faults>>
    /\ ThreadConnect(session)

(* connect() goes on when the proof is there: another asset, or a flag      *)
(* reset in the meantime, ends it, and the flag is cleared whoever set it.  *)
ProofRead(a, k) ==
    /\ proofs[<<a, k>>] > 0
    /\ proofs' = [proofs EXCEPT ![<<a, k>>] = @ - 1]
    /\ \/ /\ a # context \/ ~connecting
          /\ connecting' = FALSE
          /\ clobbered' = (clobbered \/ connecting)
          /\ UNCHANGED <<ws, sock, orphaned>>
       \/ /\ a = context /\ connecting
          /\ \E s \in Sockets :
                /\ Free(s)
                /\ ws' = s
                /\ sock' = [sock EXCEPT ![s] =
                       [Unused EXCEPT !.asset = a, !.token = k, !.client = "connecting",
                                      !.server = "none", !.handler = "none"]]
          /\ orphaned' = (orphaned \/ ws # Nothing)
          /\ UNCHANGED <<connecting, clobbered>>
    /\ UNCHANGED <<context, shown, timer, attempts, reauth, archives, session,
                   knownSessions, issued, changes, faults>>

(* The reconnect timer fires.                                               *)
Reconnect ==
    /\ timer
    /\ timer' = FALSE
    /\ UNCHANGED <<context, shown, ws, reauth, archives, session, orphaned, clobbered,
                   knownSessions, issued, sock, changes, faults>>
    /\ ThreadConnect(session)

(* Mutant: a socket that ended is not forgotten. *)
OnCloseKeepsSocket(s) ==
    /\ ws' = ws
    /\ connecting' = FALSE
    /\ orphaned' = (orphaned \/ (ws \notin {Nothing, s} /\ Live(ws)))
    /\ UNCHANGED clobbered
    /\ IF sock[s].refused /\ ~reauth
       THEN /\ reauth' = TRUE
            /\ session' = 0
            /\ UNCHANGED <<timer, attempts>>
       ELSE /\ ScheduleReconnect
            /\ UNCHANGED <<reauth, session>>
    /\ UNCHANGED <<context, shown, archives, proofs, knownSessions, issued, changes>>

(* onclose of any socket of the thread, also of one it has replaced: the    *)
(* thread forgets the socket it points to.  A refused session is dropped    *)
(* and a new one is asked for; any other end is followed by a reconnect.    *)
OnClose(s) ==
    /\ ws' = Nothing
    /\ connecting' = FALSE
    /\ orphaned' = (orphaned \/ (ws \notin {Nothing, s} /\ Live(ws)))
    /\ UNCHANGED clobbered
    /\ IF sock[s].refused /\ ~reauth
       THEN /\ reauth' = TRUE
            /\ session' = 0
            /\ UNCHANGED <<timer, attempts>>
       ELSE /\ ScheduleReconnect
            /\ UNCHANGED <<reauth, session>>
    /\ UNCHANGED <<context, shown, archives, proofs, knownSessions, issued, changes>>

(* The browser learns that its socket is closed: by the server, or by       *)
(* itself before the server had it.                                         *)
Closed(s) ==
    /\ sock[s].client \in {"open", "closing"}
    /\ sock[s].server = "closed" \/ (sock[s].client = "closing" /\ sock[s].server = "none")
    /\ sock' = [sock EXCEPT ![s].client = "closed"]
    /\ OnClose(s)
    /\ UNCHANGED faults

(* The network loses the connection on the browser's side, or it is never   *)
(* made; the server may not notice.                                         *)
Lost(s) ==
    /\ faults < MaxFaults
    /\ Live(s)
    /\ faults' = faults + 1
    /\ sock' = [sock EXCEPT ![s].client = "closed"]
    /\ OnClose(s)

(* createSession() of the re-authentication: a new token, or none.          *)
Reauthenticated ==
    /\ reauth
    /\ reauth' = FALSE
    /\ UNCHANGED <<context, shown, ws, archives, orphaned, clobbered, sock, changes>>
    /\ \/ /\ issued < MaxSessions
          /\ issued' = issued + 1
          /\ knownSessions' = knownSessions \cup {issued'}
          /\ session' = issued'
          /\ UNCHANGED <<timer, faults>>
          /\ ThreadConnect(issued')
       \/ /\ faults < MaxFaults
          /\ faults' = faults + 1
          /\ ScheduleReconnect
          /\ UNCHANGED <<connecting, proofs, session, knownSessions, issued>>

(* The user signs in again (USER_AUTHENTICATED): connect().                 *)
SignIn ==
    /\ session = 0 /\ ~reauth
    /\ issued < MaxSessions
    /\ issued' = issued + 1
    /\ knownSessions' = knownSessions \cup {issued'}
    /\ session' = issued'
    /\ UNCHANGED <<context, shown, ws, timer, reauth, archives, orphaned, clobbered,
                   sock, changes, faults>>
    /\ ThreadConnect(issued')

(* A comment of the socket's asset is forwarded; a browser that is closing  *)
(* its socket takes no message any more.                                    *)
Deliver(s) ==
    /\ sock[s].client = "open" /\ sock[s].server = "open"
    /\ sock[s].handler = "ready" /\ sock[s].relay = "open"
    /\ shown' = shown \cup {sock[s].asset}
    /\ UNCHANGED <<context, ws, connecting, timer, attempts, reauth, archives, proofs,
                   session, orphaned, clobbered, knownSessions, issued, sock, changes, faults>>

----------------------------------------------------------------------------
(* The proxy in the API.                                                    *)

proxyVars == <<threadVars, knownSessions, issued, changes>>

(* The socket is accepted: onopen in the browser, handleConnection here.    *)
Accept(s) ==
    /\ sock[s].client = "connecting" /\ sock[s].server = "none"
    /\ sock' = [sock EXCEPT ![s].client = "open", ![s].server = "open",
                            ![s].handler = "authorizing"]
    /\ connecting' = FALSE /\ attempts' = 0
    /\ clobbered' = (clobbered \/ (connecting /\ ws # s))
    /\ UNCHANGED <<context, shown, ws, timer, reauth, archives, proofs, session, orphaned,
                   knownSessions, issued, changes, faults>>

(* authorizeAssetAccess answers: a session the server does not know is      *)
(* refused as such; access may be denied; else the relay is connected, even *)
(* for a browser that has left by now.                                      *)
Authorize(s) ==
    /\ sock[s].handler = "authorizing"
    /\ \/ /\ sock[s].token \notin knownSessions
          /\ sock' = [sock EXCEPT ![s].handler = "over", ![s].server = "closed",
                                  ![s].refused = (sock[s].server = "open")]
          /\ UNCHANGED faults
       \/ /\ sock[s].token \in knownSessions
          /\ faults < MaxFaults
          /\ faults' = faults + 1
          /\ sock' = [sock EXCEPT ![s].handler = "over", ![s].server = "closed"]
       \/ /\ sock[s].token \in knownSessions
          /\ sock' = [sock EXCEPT ![s].handler = "bridging", ![s].relay = "connecting"]
          /\ UNCHANGED faults
    /\ UNCHANGED proxyVars

(* The relay is connected and subscribed to: the browser is told, and only  *)
(* now its messages and its leaving are listened to.                        *)
Bridge(s) ==
    /\ sock[s].handler = "bridging"
    /\ sock' = [sock EXCEPT ![s].handler = "ready", ![s].relay = "open"]
    /\ UNCHANGED proxyVars /\ UNCHANGED faults

(* The relay refuses, or does not answer in time and may do so later.       *)
BridgeFails(s) ==
    /\ faults < MaxFaults
    /\ sock[s].handler = "bridging"
    /\ faults' = faults + 1
    /\ \E r \in {"closed", "late"} :
          sock' = [sock EXCEPT ![s].handler = "over", ![s].server = "closed",
                               ![s].relay = r]
    /\ UNCHANGED proxyVars

(* relay.onclose: the browser's socket is closed with it.                   *)
RelayCloses(s) ==
    /\ faults < MaxFaults
    /\ sock[s].handler = "ready" /\ sock[s].relay = "open"
    /\ faults' = faults + 1
    /\ sock' = [sock EXCEPT ![s].relay = "closed", ![s].server = "closed"]
    /\ UNCHANGED proxyVars

(* Mutant: the listener leaves the relay connection open. *)
LeavesRelay(s) ==
    /\ sock[s].server = "open" /\ sock[s].client \in {"closing", "closed"}
    /\ sock' = [sock EXCEPT ![s].server = "closed",
                            ![s].left = (sock[s].handler # "ready")]
    /\ UNCHANGED proxyVars /\ UNCHANGED faults

(* The end of the browser reaches the server: its close listener, once      *)
(* there is one, closes the relay.                                          *)
Leaves(s) ==
    /\ sock[s].server = "open" /\ sock[s].client \in {"closing", "closed"}
    /\ sock' = [sock EXCEPT ![s].server = "closed",
                            ![s].left = (sock[s].handler # "ready"),
                            ![s].relay = IF sock[s].handler = "ready" THEN "closed" ELSE @]
    /\ UNCHANGED proxyVars /\ UNCHANGED faults

(* A ping without a pong: the socket is terminated, and its close listener  *)
(* closes the relay.  The first ping is sent after the connection to the    *)
(* relay is made or given up.                                               *)
Terminate(s) ==
    /\ sock[s].handler = "ready"
    /\ sock[s].server = "open" /\ sock[s].client = "closed"
    /\ sock' = [sock EXCEPT ![s].server = "closed", ![s].relay = "closed"]
    /\ UNCHANGED proxyVars /\ UNCHANGED faults

(* The API process is restarted: its sockets, its relay connections and     *)
(* the sessions it kept in memory are gone.                                 *)
Restart ==
    /\ faults < MaxFaults
    /\ faults' = faults + 1
    /\ knownSessions' = {}
    /\ sock' = [s \in Sockets |->
           IF sock[s].server = "open" \/ sock[s].handler \in {"authorizing", "bridging"}
           THEN [sock[s] EXCEPT !.server = "closed", !.handler = "over",
                                !.relay = IF @ = "none" THEN @ ELSE "closed"]
           ELSE [sock[s] EXCEPT !.relay = IF @ = "none" THEN @ ELSE "closed"]]
    /\ UNCHANGED <<threadVars, issued, changes>>

----------------------------------------------------------------------------
Step(s) == \/ Closed(s) \/ Lost(s) \/ Deliver(s)
           \/ Accept(s) \/ Authorize(s) \/ Bridge(s) \/ BridgeFails(s)
           \/ RelayCloses(s) \/ Leaves(s) \/ Terminate(s)

ThreadNext ==
    \/ \E a \in Assets \cup {Nothing} : SetContext(a)
    \/ \E a \in Assets : ArchiveRead(a)
    \/ \E a \in Assets, k \in Sessions : ProofRead(a, k)
    \/ Reconnect \/ Reauthenticated \/ SignIn \/ Restart
    \/ \E s \in Sockets : Step(s)

ThreadSpec == ThreadInit /\ [][ThreadNext]_commentVars

(* A request, a timer and a message end; nobody has to switch assets, to    *)
(* lose a connection or to sign in.                                         *)
ThreadFairness ==
    /\ \A a \in Assets : WF_commentVars(ArchiveRead(a))
    /\ \A a \in Assets, k \in Sessions : WF_commentVars(ProofRead(a, k))
    /\ WF_commentVars(Reconnect) /\ WF_commentVars(Reauthenticated)
    /\ \A s \in Sockets :
          /\ WF_commentVars(Closed(s)) /\ WF_commentVars(Accept(s)) /\ WF_commentVars(Authorize(s))
          /\ WF_commentVars(Bridge(s)) /\ WF_commentVars(Terminate(s))
          /\ WF_commentVars(Leaves(s) /\ sock[s].client = "closing")

FairThreadSpec == ThreadSpec /\ ThreadFairness

----------------------------------------------------------------------------
(* Properties.                                                              *)

(* Types; a thread that has a socket points to one of its own asset.        *)
ThreadTypeOK ==
    /\ context \in Assets \cup {Nothing}
    /\ shown \subseteq Assets
    /\ ws \in Sockets \cup {Nothing}
    /\ ws # Nothing => sock[ws].client # "closed" /\ (orphaned \/ sock[ws].asset = context)
    /\ {connecting, timer, reauth, orphaned, clobbered} \subseteq BOOLEAN
    /\ attempts \in 0..MaxAttempts
    /\ archives \in [Assets -> Pending]
    /\ proofs \in [Assets \X Sessions -> Nat]
    /\ session \in 0..MaxSessions
    /\ issued \in Sessions
    /\ knownSessions \subseteq 1..issued
    /\ sock \in [Sockets -> Socket]
    /\ changes \in 0..MaxChanges
    /\ faults \in 0..MaxFaults

(* The thread shows the comments of the asset that is open and of no other  *)
(* one, whatever archives, proofs and sockets of the assets before it are   *)
(* still under way: unless a socket that was live was left unclosed.        *)
(* services/comment-thread.ts: setContext, _loadArchive, connect.           *)
ThreadShowsItsAsset == ~orphaned => shown \subseteq {context}

(* A browser that is gone does not hold a relay connection, unless it left  *)
(* before the bridge was up or the relay answered after the bridge had      *)
(* been given up.  api/chat-proxy.ts: handleConnection, setupClientHeartbeat. *)
NoRelayForNobody ==
    \A s \in Sockets :
        (sock[s].client = "closed" /\ sock[s].relay = "open")
            ~> (sock[s].relay # "open" \/ sock[s].left)

(* A thread with an asset and a session comes to a bridged socket of that   *)
(* asset, however its connections ended before: it never runs out of        *)
(* attempts, nor out of reasons to try.  Not after a change of the asset    *)
(* during connect(), which may leave it without a socket and without a      *)
(* timer.  services/comment-thread.ts: connect, onclose, _scheduleReconnect. *)
Joined == ws # Nothing /\ sock[ws].handler = "ready" /\ sock[ws].relay = "open"

ThreadComesBack ==
    (context # Nothing /\ session # 0)
        ~> (Joined \/ context = Nothing \/ session = 0 \/ clobbered)
=============================================================================
