--------------------------- MODULE EditorRegister ---------------------------
(***************************************************************************)
(* What the registry promises the editors of a token, without the trees    *)
(* and proofs it keeps the promise with: a token is a pointer and a list   *)
(* of grants with a version.  A request carries the version its maker saw, *)
(* and takes effect only on that version and only for a wallet the list in *)
(* force grants it to; a new list is the next version.                     *)
(*                                                                         *)
(* Two limits of the promise are part of it.  A list is sent as the tree   *)
(* of one version, and grants nothing to anybody when it is put in force   *)
(* as another.  And a request of an earlier life of a token id, from       *)
(* before it was burnt and published again, is not told apart.             *)
(***************************************************************************)
EXTENDS Naturals

CONSTANTS
    Clients,         \* the wallets that send requests
    Tokens,          \* token ids
    URIs,            \* what a token may point to
    Scopes,          \* what a grant may cover
    CollectionScope, \* the scope that covers the token
    Lists,           \* lists of grants
    Versions,        \* the versions a list may be made for
    None             \* no pointer, no list

VARIABLES
    live,       \* the tokens that exist
    life,       \* life[t]: how often t was published
    pointer,    \* pointer[t]: the document t stands for
    version,    \* version[t]: of t's list
    listed,     \* listed[t]: the list t shows
    grants,     \* grants[t]: the grants in force
    request     \* request[c]: what client c asked for and has no answer to

vars == <<live, life, pointer, version, listed, grants, request>>

NoRequest == [op |-> "none"]

Init ==
    /\ live = {}
    /\ life = [t \in Tokens |-> 0]
    /\ pointer = [t \in Tokens |-> None]
    /\ version = [t \in Tokens |-> 0]
    /\ listed = [t \in Tokens |-> None]
    /\ grants = [t \in Tokens |-> {}]
    /\ request = [c \in Clients |-> NoRequest]

------------------------------------------------------------------------------
(* Requests. *)

Ask(c, r) ==
    /\ request[c] = NoRequest
    /\ request' = [request EXCEPT ![c] = r]
    /\ UNCHANGED <<live, life, pointer, version, listed, grants>>

AskToPublish(c, t) ==
    \E u \in URIs, l \in Lists, v \in Versions :
        Ask(c, [op |-> "publish", token |-> t, uri |-> u, list |-> l, for |-> v])

AskToPoint(c, t) ==
    \E u \in URIs, s \in Scopes :
        Ask(c, [op |-> "point", token |-> t, uri |-> u, scope |-> s,
                life |-> life[t], seen |-> version[t]])

AskToReplace(c, t) ==
    \E l \in Lists, v \in Versions :
        Ask(c, [op |-> "replace", token |-> t, list |-> l, for |-> v,
                life |-> life[t], seen |-> version[t]])

AskToBurn(c, t) ==
    Ask(c, [op |-> "burn", token |-> t, life |-> life[t], seen |-> version[t]])

------------------------------------------------------------------------------
(* Answers. *)

Answered(c) == request' = [request EXCEPT ![c] = NoRequest]

(* List l becomes version n of token t; made for another version it is dead. *)
Puts(t, l, n, for) ==
    /\ version' = [version EXCEPT ![t] = n]
    /\ listed' = [listed EXCEPT ![t] = l]
    /\ grants' = [grants EXCEPT ![t] = IF for = n THEN l ELSE {}]

Mints(t, u) ==
    /\ t \notin live
    /\ live' = live \cup {t}
    /\ life' = [life EXCEPT ![t] = @ + 1]
    /\ pointer' = [pointer EXCEPT ![t] = u]

(* The compare in compare-and-swap, and the right to swap. *)
Allowed(c, s) ==
    LET r == request[c] IN
    /\ r.token \in live
    /\ [who |-> c, role |-> "Editor", scope |-> s] \in grants[r.token]
    /\ r.life = life[r.token] => r.seen = version[r.token]

Publish(c) ==
    LET r == request[c] IN
    /\ r.op = "publish"
    /\ r.list # {}
    /\ Mints(r.token, r.uri)
    /\ Puts(r.token, r.list, 1, r.for)
    /\ Answered(c)

Point(c) ==
    LET r == request[c] IN
    /\ r.op = "point"
    /\ Allowed(c, r.scope)
    /\ pointer' = [pointer EXCEPT ![r.token] = r.uri]
    /\ Answered(c)
    /\ UNCHANGED <<live, life, version, listed, grants>>

Replace(c) ==
    LET r == request[c] IN
    /\ r.op = "replace"
    /\ r.list # {}
    /\ Allowed(c, CollectionScope)
    /\ Puts(r.token, r.list, version[r.token] + 1, r.for)
    /\ Answered(c)
    /\ UNCHANGED <<live, life, pointer>>

Burn(c) ==
    LET r == request[c] IN
    /\ r.op = "burn"
    /\ Allowed(c, CollectionScope)
    /\ live' = live \ {r.token}
    /\ pointer' = [pointer EXCEPT ![r.token] = None]
    /\ version' = [version EXCEPT ![r.token] = 0]
    /\ listed' = [listed EXCEPT ![r.token] = None]
    /\ grants' = [grants EXCEPT ![r.token] = {}]
    /\ Answered(c)
    /\ UNCHANGED life

(* A request may always be refused or lost, and then changes nothing. *)
Refuse(c) ==
    /\ Answered(c)
    /\ UNCHANGED <<live, life, pointer, version, listed, grants>>

(* The owner of the registry brings a token over from an earlier one. *)
Migrate(t) ==
    /\ \E u \in URIs, l \in Lists, n, v \in Versions : Mints(t, u) /\ Puts(t, l, n, v)
    /\ UNCHANGED request

Next ==
    \/ \E c \in Clients : Publish(c) \/ Point(c) \/ Replace(c) \/ Burn(c) \/ Refuse(c)
    \/ \E c \in Clients, t \in Tokens :
          \/ AskToPublish(c, t)
          \/ AskToPoint(c, t)
          \/ AskToReplace(c, t)
          \/ AskToBurn(c, t)
    \/ \E t \in Tokens : Migrate(t)

Spec == Init /\ [][Next]_vars

=============================================================================
