----------------------------- MODULE EditorTeam -----------------------------
(***************************************************************************)
(* The clients that manage the editor set of a token: team.ts, the editor  *)
(* helpers of asset-core and the publish, update and burn flows, over the  *)
(* registry of AssetContract.                                              *)
(*                                                                         *)
(* A client reads the editor list, then awaits, then reads the version,    *)
(* and signs a call built from both; other clients' calls are mined in     *)
(* between, and between its signature and its own turn.  The browser also  *)
(* keeps a copy of the last list it saw or wrote, used when a read fails.  *)
(***************************************************************************)
EXTENDS AssetContract

CONSTANT Creator   \* the wallet a token id is derived from

ASSUME CreatorAssumption == Creator \in [Token -> Wallet]

Members(list) == {g.who : g \in list}
Editing(who, role) == [who |-> who, role |-> role, scope |-> CollectionScope]
TeamRole == {"Viewer", "Editor"}

(* Lists as clients build them: one collection-wide entry per address. *)
TeamList ==
    {{Editing(w, role[w]) : w \in team} :
        team \in SUBSET Wallet, role \in [Wallet -> TeamRole]}

ASSUME ListsAssumption == EditorList = TeamList

VARIABLES
    cache,  \* localStorage: the last list saved for each wallet and token
    draft   \* what each client has read so far

teamVars == <<holder, tokenURI, editorRoot, editorSetVersion, editorListURI,
              migrationFinalized, inflight, lives, cache, draft>>

NoDraft == [op |-> "none"]
Draft == [op: {"add", "remove", "role"}, token: Token,
          list: TeamList, next: TeamList]
         \cup [op: {"republish", "delete", "burn"}, token: Token,
               list: TeamList, version: Nat]

TeamTypeOK ==
    /\ TypeOK
    /\ cache \in [Wallet -> [Token -> TeamList \cup {None}]]
    /\ draft \in [Wallet -> Draft \cup {NoDraft}]

TeamInit ==
    /\ Init
    /\ cache = [w \in Wallet |-> [t \in Token |-> None]]
    /\ draft = [w \in Wallet |-> NoDraft]

Idle(w) == draft[w] = NoDraft /\ inflight[w] = NoCall

------------------------------------------------------------------------------
(* Reading.  loadEditorList gives the list the chain's CID resolves to and   *)
(* caches it; when the chain or IPFS does not answer, the cached list, or    *)
(* the empty one.                                                            *)

Loads(w, t, list) ==
    \/ /\ editorListURI[t] # None
       /\ list = editorListURI[t]
       /\ cache' = [cache EXCEPT ![w][t] = list]
    \/ /\ list = IF cache[w][t] = None THEN {} ELSE cache[w][t]
       /\ UNCHANGED cache

(* addTeamMember, removeTeamMember and changeTeamMemberRole up to the call   *)
(* of _updateEditorRoot.                                                     *)
Changed(op, list, who, role, next) ==
    \/ /\ op = "add"
       /\ who \notin Members(list)
       /\ next = list \cup {Editing(who, "Editor")}
    \/ /\ op = "remove"
       /\ who \in Members(list)
       /\ next = {g \in list : g.who # who}
       /\ next # {}
    \/ /\ op = "role"
       /\ who \in Members(list)
       /\ next = {g \in list : g.who # who} \cup {Editing(who, role)}

ChangeTeam(w, t) ==
    /\ Idle(w)
    /\ \E list, next \in TeamList, op \in {"add", "remove", "role"},
          who \in Wallet, role \in TeamRole :
          /\ Loads(w, t, list)
          /\ Changed(op, list, who, role, next)
          /\ draft' = [draft EXCEPT ![w] =
                [op |-> op, token |-> t, list |-> list, next |-> next]]
    /\ UNCHANGED vars

(* getEditorSetVersion: a failed read counts as version 1. *)
VersionReads(t) == {editorSetVersion[t], 1}

(* A proof starts with the list and, in buildWalletProof, which republishes, *)
(* the version at the same time.  buildLocalEditorProof, which serves a      *)
(* delete and a burn, takes an empty list for one of this wallet alone.      *)
StartEdit(w, t) ==
    /\ Idle(w)
    /\ \E list \in TeamList, op \in {"republish", "delete", "burn"},
          v \in VersionReads(t) :
          /\ Loads(w, t, list)
          /\ draft' = [draft EXCEPT ![w] =
                [op |-> op, token |-> t,
                 list |-> IF list = {} /\ op # "republish"
                          THEN {Editing(w, "Editor")} ELSE list,
                 version |-> IF op = "republish" THEN v ELSE 0]]
    /\ UNCHANGED vars

------------------------------------------------------------------------------
(* Signing. *)

Signs(w, call) ==
    /\ inflight' = [inflight EXCEPT ![w] = call]
    /\ UNCHANGED chain

(* getProof finds this wallet's entry, or there is no call. *)
RoleIn(list, w) == (CHOOSE g \in list : g.who = w).role

(* _updateEditorRoot: the proof is for the version read, the new tree for    *)
(* the one after it, and the new list is cached before the call is sent.     *)

(* Mutant: the new tree is built for the version in force. *)
ChangeCallSameVersion(w, d, v) ==
    [op |-> "updateEditors", token |-> d.token,
     root |-> Commit(d.next, d.token, v), list |-> d.next,
     role |-> RoleIn(d.list, w), proof |-> Commit(d.list, d.token, v),
     life |-> lives[d.token], seen |-> editorSetVersion[d.token]]

ChangeCall(w, d, v) ==
    [op |-> "updateEditors", token |-> d.token,
     root |-> Commit(d.next, d.token, v + 1), list |-> d.next,
     role |-> RoleIn(d.list, w), proof |-> Commit(d.list, d.token, v),
     life |-> lives[d.token], seen |-> editorSetVersion[d.token]]

SubmitChange(w) ==
    LET d == draft[w] IN
    /\ d.op \in {"add", "remove", "role"}
    /\ inflight[w] = NoCall
    /\ w \in Members(d.list)
    /\ \E v \in VersionReads(d.token) : Signs(w, ChangeCall(w, d, v))
    /\ cache' = [cache EXCEPT ![w][d.token] = d.next]
    /\ UNCHANGED draft

(* buildWalletProof falls back on this wallet's own leaf when it owns the    *)
(* token and that leaf is the root.                                          *)
OwnerTrees(w, t, v) ==
    {tree \in {Commit({Editing(w, "Editor")}, t, v)} :
        holder[t] = w /\ editorRoot[t] = tree}

(* The trees a wallet may prove itself against: that of the list it loaded,  *)
(* at a version read with the list, or after it.                             *)
ProofTrees(w, d) ==
    LET Versions == VersionReads(d.token)
                    \cup (IF d.op = "republish" THEN {d.version} ELSE {})
    IN {Commit(d.list, d.token, v) :
            v \in IF w \in Members(d.list) THEN Versions ELSE {}}
       \cup UNION {OwnerTrees(w, d.token, v) :
            v \in IF d.op = "republish" THEN Versions ELSE {}}

SubmitEdit(w) ==
    LET d == draft[w] IN
    /\ d.op \in {"republish", "delete", "burn"}
    /\ inflight[w] = NoCall
    /\ \E u \in URI, tree \in ProofTrees(w, d) :
          Signs(w, IF d.op = "burn"
                   THEN [op |-> "burn", token |-> d.token, proof |-> tree,
                         life |-> lives[d.token],
                         seen |-> editorSetVersion[d.token]]
                   ELSE [op |-> "updateURI", token |-> d.token, uri |-> u,
                         scope |-> CollectionScope, proof |-> tree,
                         life |-> lives[d.token],
                         seen |-> editorSetVersion[d.token]])
    /\ UNCHANGED <<cache, draft>>

(* publishNewToken: the creator alone, at version 1, cached at once. *)

(* Mutant: the two CIDs of publishAsset change places. *)
PublishCallSwapped(t, u, list) ==
    [op |-> "publish", token |-> t, uri |-> list,
     root |-> Commit(list, t, 1), list |-> u]

PublishCallFor(t, u, list) ==
    [op |-> "publish", token |-> t, uri |-> u,
     root |-> Commit(list, t, 1), list |-> list]

SubmitPublish(w, t) ==
    LET list == {Editing(w, "Editor")} IN
    /\ Idle(w)
    /\ w = Creator[t]
    /\ ~Exists(t)
    /\ \E u \in URI : Signs(w, PublishCallFor(t, u, list))
    /\ cache' = [cache EXCEPT ![w][t] = list]
    /\ UNCHANGED draft

(* The wallet is not in the list, a read or write throws, or the user goes. *)
Abandon(w) ==
    /\ draft[w] # NoDraft
    /\ inflight[w] = NoCall
    /\ draft' = [draft EXCEPT ![w] = NoDraft]
    /\ UNCHANGED <<vars, cache>>

(* The receipt, a revert or the user's refusal ends the client's operation. *)
Receipt(w) ==
    /\ Mine(w) \/ Drop(w)
    /\ draft' = [draft EXCEPT ![w] = NoDraft]
    /\ UNCHANGED cache

TransferToken(t) ==
    /\ Transfer(t)
    /\ UNCHANGED <<cache, draft>>

TeamNext ==
    \/ \E w \in Wallet : \/ SubmitChange(w) \/ SubmitEdit(w)
                         \/ Abandon(w) \/ Receipt(w)
    \/ \E w \in Wallet, t \in Token :
          ChangeTeam(w, t) \/ StartEdit(w, t) \/ SubmitPublish(w, t)
    \/ \E t \in Token : TransferToken(t)

TeamSpec == TeamInit /\ [][TeamNext]_teamVars

------------------------------------------------------------------------------
(* Properties. *)

(* The root on chain is always the root of the list on chain, at the version *)
(* on chain: the three are computed from two separate reads by clients that  *)
(* race, some of which failed, and a mismatch would shut every editor out.   *)
RootCommitsToList ==
    \A t \in Token : Exists(t) =>
        editorRoot[t] = Commit(editorListURI[t], t, editorSetVersion[t])

(* A change of the team that takes effect was computed from the list it      *)
(* replaces: of two clients that read the same list one is refused, and no   *)
(* member the other added is lost.                                           *)
NoTeamChangeIsLost ==
    [][\A w \in Wallet : UpdateEditors(w) =>
          draft[w].list = editorListURI[inflight[w].token]]_teamVars

(* ASSET_CORE_SDK.md:185 says of the removal of an editor: refuses to remove *)
(* the last editor.                                                          *)
HasEditor(t) ==
    \E w \in Wallet : LeafOf(w, "Editor", t, CollectionScope,
                             editorSetVersion[t]) \in editorRoot[t]
RemovalLeavesAnEditor ==
    [][\A w \in Wallet, t \in Token :
          UpdateEditors(w) /\ draft[w].op = "remove" /\ draft[w].token = t =>
              HasEditor(t)']_teamVars
=============================================================================
