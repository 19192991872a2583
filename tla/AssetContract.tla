--------------------------- MODULE AssetContract ---------------------------
(***************************************************************************)
(* The token registry of blockchain/contracts/ArbeskAssetBase.sol: one     *)
(* ERC-721 token per collection, the CID of its newest manifest, and the   *)
(* Merkle root, version and list CID of its editor set.                    *)
(*                                                                         *)
(* A call reaches the contract in two steps: a wallet signs it, with a     *)
(* proof built against the tree it saw, and some time later it is mined    *)
(* in an order nobody controls.  `inflight' holds the signed and unmined   *)
(* call of each wallet.                                                    *)
(*                                                                         *)
(* A Merkle root is modelled as the set of leaves it commits to, and a     *)
(* proof as the tree it was cut from: by collision resistance it verifies  *)
(* against a root exactly when that root is the root of this tree, and the *)
(* leaf the contract computes is one of its leaves.                        *)
(***************************************************************************)
EXTENDS Naturals

CONSTANTS
    Wallet,          \* accounts that hold tokens and sign calls
    Token,           \* token ids
    URI,             \* CIDs of collection manifests
    AssetScope,      \* keccak256(assetId) scopes
    CollectionScope, \* bytes32(0), the collection-wide scope
    EditorList,      \* the editor lists somebody may commit to
    TreeVersion,     \* the versions somebody may build a tree for
    NoOne,           \* address(0)
    None,            \* the empty string
    MaxVersion,      \* bound on editorSetVersion
    MaxLives         \* bound on how often one token id is minted

Role == {"None", "Viewer", "Editor"}
Scope == AssetScope \cup {CollectionScope}
Grant == [who: Wallet, role: Role, scope: Scope]
Leaf == [who: Wallet, role: Role, token: Token, scope: Scope, version: Nat]

ASSUME ConstantsAssumption ==
    /\ NoOne \notin Wallet
    /\ None \notin URI
    /\ None \notin EditorList
    /\ EditorList \subseteq SUBSET Grant
    /\ TreeVersion \subseteq Nat
    /\ MaxVersion \in Nat
    /\ MaxLives \in Nat

(* Mutant: leaves that do not name the version. *)
LeafWithoutVersion(who, role, t, scope, v) ==
    [who |-> who, role |-> role, token |-> t, scope |-> scope, version |-> 0]

(* The leaf the contract recomputes, and every client hashes. *)
LeafOf(who, role, t, scope, v) ==
    [who |-> who, role |-> role, token |-> t, scope |-> scope, version |-> v]

(* computeRoot: the tree of one list, for one token at one version. *)
Commit(list, t, v) == {LeafOf(g.who, g.role, t, g.scope, v) : g \in list}

(* bytes32(0), also what computeRoot returns for the empty list. *)
ZeroRoot == {}

VARIABLES
    holder,             \* ERC-721 owner of each token, NoOne when unminted
    tokenURI,           \* _tokenURIs
    editorRoot,         \* the committed leaves
    editorSetVersion,
    editorListURI,      \* the list the stored CID resolves to
    migrationFinalized,
    inflight,           \* the signed and unmined call of each wallet
    lives               \* history: how often each token id was minted

chain == <<holder, tokenURI, editorRoot, editorSetVersion, editorListURI,
           migrationFinalized, lives>>
vars == <<holder, tokenURI, editorRoot, editorSetVersion, editorListURI,
          migrationFinalized, inflight, lives>>

------------------------------------------------------------------------------
(* Calls.  `life' and `seen' are history: the life of the token and the     *)
(* version of its editor set when the call was signed.                      *)

PublishCall == [op: {"publish"}, token: Token, uri: URI,
                root: SUBSET Leaf, list: EditorList]
UpdateURICall == [op: {"updateURI"}, token: Token, uri: URI, scope: Scope,
                  proof: SUBSET Leaf, life: Nat, seen: Nat]
UpdateEditorsCall == [op: {"updateEditors"}, token: Token, root: SUBSET Leaf,
                      list: EditorList, role: Role,
                      proof: SUBSET Leaf, life: Nat, seen: Nat]
BurnCall == [op: {"burn"}, token: Token,
             proof: SUBSET Leaf, life: Nat, seen: Nat]
NoCall == [op |-> "none"]

ProvingOps == {"updateURI", "updateEditors", "burn"}
Call == PublishCall \cup UpdateURICall \cup UpdateEditorsCall \cup BurnCall

TypeOK ==
    /\ holder \in [Token -> Wallet \cup {NoOne}]
    /\ tokenURI \in [Token -> URI \cup {None}]
    /\ editorRoot \in [Token -> SUBSET Leaf]
    /\ editorSetVersion \in [Token -> Nat]
    /\ editorListURI \in [Token -> EditorList \cup {None}]
    /\ migrationFinalized \in BOOLEAN
    /\ inflight \in [Wallet -> Call \cup {NoCall}]
    /\ lives \in [Token -> Nat]

Init ==
    /\ holder = [t \in Token |-> NoOne]
    /\ tokenURI = [t \in Token |-> None]
    /\ editorRoot = [t \in Token |-> ZeroRoot]
    /\ editorSetVersion = [t \in Token |-> 0]
    /\ editorListURI = [t \in Token |-> None]
    /\ migrationFinalized = FALSE
    /\ inflight = [w \in Wallet |-> NoCall]
    /\ lives = [t \in Token |-> 0]

Exists(t) == holder[t] # NoOne

(* Mutant: the leaf is checked against the caller's tree, not the root. *)
IsEditorOfAnyTree(w, role, t, scope, proof) ==
    LeafOf(w, role, t, scope, editorSetVersion[t]) \in proof

(* _requireEditor: MerkleProof.verify of the recomputed leaf. *)
IsEditor(w, role, t, scope, proof) ==
    /\ proof = editorRoot[t]
    /\ LeafOf(w, role, t, scope, editorSetVersion[t]) \in proof

------------------------------------------------------------------------------
(* Signing.  Anybody may sign any call, with any list built into a tree for  *)
(* any version, and a proof cut from the tree the chain shows at that        *)
(* moment.                                                                   *)

Sign(w, call) ==
    /\ inflight[w] = NoCall
    /\ inflight' = [inflight EXCEPT ![w] = call]
    /\ UNCHANGED chain

SignPublish(w, t) ==
    \E u \in URI, l \in EditorList, v \in TreeVersion :
        Sign(w, [op |-> "publish", token |-> t, uri |-> u,
                 root |-> Commit(l, t, v), list |-> l])

SignUpdateURI(w, t) ==
    \E u \in URI, s \in Scope :
        Sign(w, [op |-> "updateURI", token |-> t, uri |-> u, scope |-> s,
                 proof |-> editorRoot[t],
                 life |-> lives[t], seen |-> editorSetVersion[t]])

SignUpdateEditors(w, t) ==
    \E l \in EditorList, v \in TreeVersion, r \in Role :
        Sign(w, [op |-> "updateEditors", token |-> t,
                 root |-> Commit(l, t, v), list |-> l, role |-> r,
                 proof |-> editorRoot[t],
                 life |-> lives[t], seen |-> editorSetVersion[t]])

SignBurn(w, t) ==
    Sign(w, [op |-> "burn", token |-> t, proof |-> editorRoot[t],
             life |-> lives[t], seen |-> editorSetVersion[t]])

------------------------------------------------------------------------------
(* Mining. *)

Mined(w) == inflight' = [inflight EXCEPT ![w] = NoCall]

CanPublish(w) ==
    LET c == inflight[w] IN
    /\ c.op = "publish"
    /\ ~Exists(c.token)
    /\ c.root # ZeroRoot

CanUpdateURI(w) ==
    LET c == inflight[w] IN
    /\ c.op = "updateURI"
    /\ Exists(c.token)
    /\ IsEditor(w, "Editor", c.token, c.scope, c.proof)

(* No existence check: the code relies on an unminted token's zero root. *)
CanUpdateEditors(w) ==
    LET c == inflight[w] IN
    /\ c.op = "updateEditors"
    /\ IsEditor(w, c.role, c.token, CollectionScope, c.proof)
    /\ c.role = "Editor"
    /\ c.root # ZeroRoot

CanBurn(w) ==
    LET c == inflight[w] IN
    /\ c.op = "burn"
    /\ Exists(c.token)
    /\ IsEditor(w, "Editor", c.token, CollectionScope, c.proof)

Accepted(w) ==
    CanPublish(w) \/ CanUpdateURI(w) \/ CanUpdateEditors(w) \/ CanBurn(w)

(* Mutant: the two strings of publishAsset change places. *)
PublishSwapped(w) ==
    LET c == inflight[w] IN
    /\ CanPublish(w)
    /\ lives[c.token] < MaxLives
    /\ holder' = [holder EXCEPT ![c.token] = w]
    /\ tokenURI' = [tokenURI EXCEPT ![c.token] = c.list]
    /\ editorRoot' = [editorRoot EXCEPT ![c.token] = c.root]
    /\ editorSetVersion' = [editorSetVersion EXCEPT ![c.token] = 1]
    /\ editorListURI' = [editorListURI EXCEPT ![c.token] = c.uri]
    /\ lives' = [lives EXCEPT ![c.token] = @ + 1]
    /\ Mined(w)
    /\ UNCHANGED migrationFinalized

PublishAsset(w) ==
    LET c == inflight[w] IN
    /\ CanPublish(w)
    /\ lives[c.token] < MaxLives
    /\ holder' = [holder EXCEPT ![c.token] = w]
    /\ tokenURI' = [tokenURI EXCEPT ![c.token] = c.uri]
    /\ editorRoot' = [editorRoot EXCEPT ![c.token] = c.root]
    /\ editorSetVersion' = [editorSetVersion EXCEPT ![c.token] = 1]
    /\ editorListURI' = [editorListURI EXCEPT ![c.token] = c.list]
    /\ lives' = [lives EXCEPT ![c.token] = @ + 1]
    /\ Mined(w)
    /\ UNCHANGED migrationFinalized

UpdateAssetURI(w) ==
    LET c == inflight[w] IN
    /\ CanUpdateURI(w)
    /\ tokenURI' = [tokenURI EXCEPT ![c.token] = c.uri]
    /\ Mined(w)
    /\ UNCHANGED <<holder, editorRoot, editorSetVersion, editorListURI,
                   migrationFinalized, lives>>

(* Mutant: a new root without a new version. *)
UpdateEditorsUnversioned(w) ==
    LET c == inflight[w] IN
    /\ CanUpdateEditors(w)
    /\ editorRoot' = [editorRoot EXCEPT ![c.token] = c.root]
    /\ editorListURI' = [editorListURI EXCEPT ![c.token] = c.list]
    /\ Mined(w)
    /\ UNCHANGED <<holder, tokenURI, editorSetVersion, migrationFinalized,
                   lives>>

UpdateEditors(w) ==
    LET c == inflight[w] IN
    /\ CanUpdateEditors(w)
    /\ editorSetVersion[c.token] < MaxVersion
    /\ editorSetVersion' = [editorSetVersion EXCEPT ![c.token] = @ + 1]
    /\ editorRoot' = [editorRoot EXCEPT ![c.token] = c.root]
    /\ editorListURI' = [editorListURI EXCEPT ![c.token] = c.list]
    /\ Mined(w)
    /\ UNCHANGED <<holder, tokenURI, migrationFinalized, lives>>

Burn(w) ==
    LET c == inflight[w] IN
    /\ CanBurn(w)
    /\ holder' = [holder EXCEPT ![c.token] = NoOne]
    /\ editorRoot' = [editorRoot EXCEPT ![c.token] = ZeroRoot]
    /\ editorSetVersion' = [editorSetVersion EXCEPT ![c.token] = 0]
    /\ editorListURI' = [editorListURI EXCEPT ![c.token] = None]
    /\ Mined(w)
    /\ UNCHANGED <<tokenURI, migrationFinalized, lives>>

(* A mined call that reverts leaves no trace, nor does one never mined. *)
Revert(w) ==
    /\ inflight[w] # NoCall
    /\ ~Accepted(w)
    /\ Mined(w)
    /\ UNCHANGED chain

Drop(w) ==
    /\ inflight[w] # NoCall
    /\ Mined(w)
    /\ UNCHANGED chain

------------------------------------------------------------------------------
(* Calls that need no proof: the migration, by the contract's owner, and    *)
(* the ERC-721 transfer inherited from OpenZeppelin.                        *)

(* The migration copies whatever root and version the old contract had. *)
Remint(t) ==
    /\ ~Exists(t)
    /\ lives[t] < MaxLives
    /\ \E w \in Wallet, u \in URI, l \in EditorList, v, sv \in TreeVersion :
          /\ holder' = [holder EXCEPT ![t] = w]
          /\ tokenURI' = [tokenURI EXCEPT ![t] = u]
          /\ editorRoot' = [editorRoot EXCEPT ![t] = Commit(l, t, v)]
          /\ editorSetVersion' = [editorSetVersion EXCEPT ![t] = sv]
          /\ editorListURI' = [editorListURI EXCEPT ![t] = l]
    /\ lives' = [lives EXCEPT ![t] = @ + 1]
    /\ UNCHANGED <<migrationFinalized, inflight>>

MigrateAsset(t) == ~migrationFinalized /\ Remint(t)

FinalizeMigration ==
    /\ migrationFinalized' = TRUE
    /\ UNCHANGED <<holder, tokenURI, editorRoot, editorSetVersion,
                   editorListURI, inflight, lives>>

Transfer(t) ==
    /\ Exists(t)
    /\ \E w \in Wallet : holder' = [holder EXCEPT ![t] = w]
    /\ UNCHANGED <<tokenURI, editorRoot, editorSetVersion, editorListURI,
                   migrationFinalized, inflight, lives>>

Mine(w) ==
    \/ PublishAsset(w)
    \/ UpdateAssetURI(w)
    \/ UpdateEditors(w)
    \/ Burn(w)
    \/ Revert(w)

Registry ==
    \/ FinalizeMigration
    \/ \E t \in Token : MigrateAsset(t) \/ Transfer(t)

Next ==
    \/ \E w \in Wallet : Mine(w) \/ Drop(w)
    \/ \E w \in Wallet, t \in Token :
          \/ SignPublish(w, t)
          \/ SignUpdateURI(w, t)
          \/ SignUpdateEditors(w, t)
          \/ SignBurn(w, t)
    \/ Registry

Spec == Init /\ [][Next]_vars

------------------------------------------------------------------------------
(* Properties. *)

(* A token nobody holds has no editors, version or list: burn deletes them   *)
(* all, which is what makes updateEditors, the one entry point without an    *)
(* existence check, harmless on an unminted or burnt id.                     *)
UnmintedHasNoEditorSet ==
    \A t \in Token : ~Exists(t) =>
        /\ editorRoot[t] = ZeroRoot
        /\ editorSetVersion[t] = 0
        /\ editorListURI[t] = None

SameLife(w) == inflight[w].life = lives[inflight[w].token]
SameSet(w) == inflight[w].seen = editorSetVersion[inflight[w].token]
Proving(w) == inflight[w].op \in ProvingOps

(* A call delayed past a change of its token's editor set never takes        *)
(* effect: within one life of a token, whatever proof still verifies was cut *)
(* from the editor set in force.  This is compare-and-swap on the version    *)
(* for updateEditors, and revocation for updateAssetURI and burn.            *)
StaleProofsAreDead ==
    \A w \in Wallet :
        Proving(w) /\ SameLife(w) /\ Accepted(w) => SameSet(w)

(* The comment on _requireEditor (ArbeskAssetBase.sol:235-238): proofs       *)
(* cannot be replayed after a set change.  A burn also changes the set.      *)
ProofsAreNotReplayed ==
    \A w \in Wallet : Proving(w) /\ Accepted(w) => SameLife(w) /\ SameSet(w)

(* While a token lives, its editor set changes one version at a time, root   *)
(* and list CID together with the version, and never goes back.              *)
EditorSetStep ==
    \A t \in Token :
        Exists(t) /\ Exists(t)' /\ lives'[t] = lives[t] =>
            \/ UNCHANGED <<editorRoot[t], editorSetVersion[t], editorListURI[t]>>
            \/ editorSetVersion'[t] = editorSetVersion[t] + 1
EditorSetIsVersioned == [][EditorSetStep]_vars

------------------------------------------------------------------------------
(* The registry as its clients may think of it. *)

(* The grants that verify against a root when its token is at version n.      *)
GrantsIn(root, t, n) ==
    {[who |-> l.who, role |-> l.role, scope |-> l.scope] :
        l \in {l \in root : l.token = t /\ l.version = n}}

(* The version a tree was built for; any, for the tree of nobody.             *)
BuiltFor(root) == CHOOSE v \in TreeVersion : \A l \in root : l.version = v

(* What a signed call asks for.                                               *)
Asked(c) ==
    CASE c.op = "publish" ->
            [op |-> "publish", token |-> c.token, uri |-> c.uri, list |-> c.list,
             for |-> BuiltFor(c.root)]
      [] c.op = "updateURI" ->
            [op |-> "point", token |-> c.token, uri |-> c.uri, scope |-> c.scope,
             life |-> c.life, seen |-> c.seen]
      [] c.op = "updateEditors" ->
            [op |-> "replace", token |-> c.token, list |-> c.list,
             for |-> BuiltFor(c.root),
             life |-> c.life, seen |-> c.seen]
      [] c.op = "burn" ->
            [op |-> "burn", token |-> c.token, life |-> c.life, seen |-> c.seen]
      [] OTHER -> NoCall

LiveTokens == {t \in Token : Exists(t)}
Pointers == [t \in Token |-> IF Exists(t) THEN tokenURI[t] ELSE None]
GrantsInForce ==
    [t \in Token |-> GrantsIn(editorRoot[t], t, editorSetVersion[t])]
Requests == [w \in Wallet |-> Asked(inflight[w])]

Register == INSTANCE EditorRegister WITH
    Clients <- Wallet, Tokens <- Token, URIs <- URI, Scopes <- Scope,
    Lists <- EditorList, Versions <- TreeVersion,
    live <- LiveTokens, life <- lives, pointer <- Pointers,
    version <- editorSetVersion, listed <- editorListURI,
    grants <- GrantsInForce, request <- Requests

(* The trees and proofs of the contract implement a list with a version under *)
(* compare-and-swap: whatever is mined, in whatever order and however late,   *)
(* was asked for by a wallet that the list in force makes an editor, and      *)
(* within one life of the token was asked of that very list.                  *)
ImplementsRegister == Register!Spec

=============================================================================
