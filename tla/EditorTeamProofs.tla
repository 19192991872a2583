-------------------------- MODULE EditorTeamProofs --------------------------
(***************************************************************************)
(* Proofs about the registry and the clients that manage its teams.        *)
(*                                                                         *)
(* First AssetContract, for every value of its constants: types, what a    *)
(* call made for another editor set can never do, and that the contract    *)
(* implements the list with a version of EditorRegister.  Then EditorTeam, *)
(* for any wallets, tokens and bounds: the root on chain is that of the    *)
(* list on chain, and a change of the team is a change of the list it      *)
(* replaces.                                                               *)
(***************************************************************************)
EXTENDS EditorTeam, TLAPS

------------------------------------------------------------------------------
(* The tree of one list for one token at one version has leaves of that      *)
(* version only.                                                             *)

SingleVersion(tree) == \A l1, l2 \in tree : l1.version = l2.version

(* computeRoot builds well-formed trees of one version.                      *)
LEMMA CommitIsTree ==
    ASSUME NEW list \in EditorList, NEW t \in Token, NEW v \in TreeVersion
    PROVE  /\ Commit(list, t, v) \in SUBSET Leaf
           /\ SingleVersion(Commit(list, t, v))
<1> USE ConstantsAssumption
<1>1. list \subseteq Grant /\ v \in Nat
  OBVIOUS
<1>2. \A g \in list : g.who \in Wallet /\ g.role \in Role /\ g.scope \in Scope
  BY <1>1 DEF Grant
<1>3. Commit(list, t, v) \in SUBSET Leaf
  BY <1>1, <1>2 DEF Commit, Leaf, LeafOf
<1>4. SingleVersion(Commit(list, t, v))
  BY DEF SingleVersion, Commit, LeafOf
<1> QED
  BY <1>3, <1>4

------------------------------------------------------------------------------
(* TYPING *)

(* Signing any of the four calls keeps the state well typed. *)
LEMMA SigningTyped ==
    ASSUME TypeOK, NEW w \in Wallet, NEW t \in Token,
           \/ SignPublish(w, t)   \/ SignUpdateURI(w, t)
           \/ SignUpdateEditors(w, t) \/ SignBurn(w, t)
    PROVE  TypeOK'
<1> USE ConstantsAssumption
<1>1. SUFFICES \E c \in Call : Sign(w, c)
  BY <1>1 DEF TypeOK, Sign, chain
<1>2. CASE SignPublish(w, t)
  <2>1. PICK u \in URI, l \in EditorList, v \in TreeVersion :
           Sign(w, [op |-> "publish", token |-> t, uri |-> u,
                    root |-> Commit(l, t, v), list |-> l])
    BY <1>2 DEF SignPublish
  <2>2. [op |-> "publish", token |-> t, uri |-> u,
         root |-> Commit(l, t, v), list |-> l] \in PublishCall
    BY CommitIsTree DEF PublishCall
  <2> QED
    BY <2>1, <2>2 DEF Call
<1>3. CASE SignUpdateURI(w, t)
  <2>1. PICK u \in URI, s \in Scope :
           Sign(w, [op |-> "updateURI", token |-> t, uri |-> u, scope |-> s,
                    proof |-> editorRoot[t],
                    life |-> lives[t], seen |-> editorSetVersion[t]])
    BY <1>3 DEF SignUpdateURI
  <2>2. [op |-> "updateURI", token |-> t, uri |-> u, scope |-> s,
         proof |-> editorRoot[t],
         life |-> lives[t], seen |-> editorSetVersion[t]] \in UpdateURICall
    BY DEF TypeOK, UpdateURICall
  <2> QED
    BY <2>1, <2>2 DEF Call
<1>4. CASE SignUpdateEditors(w, t)
  <2>1. PICK l \in EditorList, v \in TreeVersion, r \in Role :
           Sign(w, [op |-> "updateEditors", token |-> t,
                    root |-> Commit(l, t, v), list |-> l, role |-> r,
                    proof |-> editorRoot[t],
                    life |-> lives[t], seen |-> editorSetVersion[t]])
    BY <1>4 DEF SignUpdateEditors
  <2>2. [op |-> "updateEditors", token |-> t,
         root |-> Commit(l, t, v), list |-> l, role |-> r,
         proof |-> editorRoot[t],
         life |-> lives[t], seen |-> editorSetVersion[t]]
           \in UpdateEditorsCall
    BY CommitIsTree DEF TypeOK, UpdateEditorsCall
  <2> QED
    BY <2>1, <2>2 DEF Call
<1>5. CASE SignBurn(w, t)
  <2>1. [op |-> "burn", token |-> t, proof |-> editorRoot[t],
         life |-> lives[t], seen |-> editorSetVersion[t]] \in BurnCall
    BY DEF TypeOK, BurnCall
  <2> QED
    BY <1>5, <2>1 DEF SignBurn, Call
<1> QED
  BY <1>2, <1>3, <1>4, <1>5

(* A call carries the fields its operation needs. *)
LEMMA CallFields ==
    ASSUME TypeOK, NEW w \in Wallet
    PROVE  /\ inflight[w].op = "publish" => inflight[w] \in PublishCall
           /\ inflight[w].op = "updateURI" => inflight[w] \in UpdateURICall
           /\ inflight[w].op = "updateEditors" =>
                 inflight[w] \in UpdateEditorsCall
           /\ inflight[w].op = "burn" => inflight[w] \in BurnCall
BY DEF TypeOK, Call, NoCall, PublishCall, UpdateURICall, UpdateEditorsCall,
       BurnCall

(* Every variable keeps its type. *)
LEMMA TypeStep == TypeOK /\ [Next]_vars => TypeOK'
<1> SUFFICES ASSUME TypeOK, [Next]_vars PROVE TypeOK'
  OBVIOUS
<1> USE ConstantsAssumption
<1>1. ASSUME NEW w \in Wallet, PublishAsset(w) PROVE TypeOK'
  <2>1. inflight[w] \in PublishCall
    BY <1>1, CallFields DEF PublishAsset, CanPublish
  <2> QED
    BY <1>1, <2>1 DEF PublishAsset, Mined, TypeOK, PublishCall
<1>2. ASSUME NEW w \in Wallet, UpdateAssetURI(w) PROVE TypeOK'
  <2>1. inflight[w] \in UpdateURICall
    BY <1>2, CallFields DEF UpdateAssetURI, CanUpdateURI
  <2> QED
    BY <1>2, <2>1 DEF UpdateAssetURI, Mined, TypeOK, UpdateURICall
<1>3. ASSUME NEW w \in Wallet, UpdateEditors(w) PROVE TypeOK'
  <2>1. inflight[w] \in UpdateEditorsCall
    BY <1>3, CallFields DEF UpdateEditors, CanUpdateEditors
  <2> QED
    BY <1>3, <2>1 DEF UpdateEditors, Mined, TypeOK, UpdateEditorsCall
<1>4. ASSUME NEW w \in Wallet, Burn(w) PROVE TypeOK'
  BY <1>4 DEF Burn, Mined, TypeOK, ZeroRoot
<1>5. ASSUME NEW w \in Wallet, Revert(w) \/ Drop(w) PROVE TypeOK'
  BY <1>5 DEF Revert, Drop, Mined, chain, TypeOK
<1>6. ASSUME NEW t \in Token, MigrateAsset(t) PROVE TypeOK'
  <2>1. PICK w \in Wallet, u \in URI, l \in EditorList, v, sv \in TreeVersion :
          /\ holder' = [holder EXCEPT ![t] = w]
          /\ tokenURI' = [tokenURI EXCEPT ![t] = u]
          /\ editorRoot' = [editorRoot EXCEPT ![t] = Commit(l, t, v)]
          /\ editorSetVersion' = [editorSetVersion EXCEPT ![t] = sv]
          /\ editorListURI' = [editorListURI EXCEPT ![t] = l]
    BY <1>6 DEF MigrateAsset, Remint
  <2>2. Commit(l, t, v) \in SUBSET Leaf
    BY CommitIsTree
  <2>3. sv \in Nat
    OBVIOUS
  <2> QED
    BY <1>6, <2>1, <2>2, <2>3 DEF MigrateAsset, Remint, TypeOK
<1>7. CASE FinalizeMigration
  BY <1>7 DEF FinalizeMigration, TypeOK
<1>8. ASSUME NEW t \in Token, Transfer(t) PROVE TypeOK'
  BY <1>8 DEF Transfer, TypeOK
<1>9. CASE UNCHANGED vars
  BY <1>9 DEF vars, TypeOK
<1> QED
  BY <1>1, <1>2, <1>3, <1>4, <1>5, <1>6, <1>7, <1>8, <1>9, SigningTyped
  DEF Next, Mine, Registry

(* Nothing is minted, committed to or signed initially. *)
LEMMA InitTyped == Init => TypeOK
<1> SUFFICES ASSUME Init PROVE TypeOK
  OBVIOUS
<1>1. ZeroRoot \in SUBSET Leaf
  BY DEF ZeroRoot
<1>2. editorRoot \in [Token -> SUBSET Leaf]
  BY <1>1 DEF Init
<1>3. inflight \in [Wallet -> Call \cup {NoCall}]
  BY DEF Init
<1>4. /\ holder \in [Token -> Wallet \cup {NoOne}]
      /\ tokenURI \in [Token -> URI \cup {None}]
      /\ editorListURI \in [Token -> EditorList \cup {None}]
      /\ editorSetVersion \in [Token -> Nat]
      /\ lives \in [Token -> Nat]
      /\ migrationFinalized \in BOOLEAN
  BY DEF Init
<1> QED
  BY <1>2, <1>3, <1>4 DEF TypeOK

(* Every variable of the registry keeps its type, calls included.            *)
THEOREM Typed == Spec => []TypeOK
  BY InitTyped, TypeStep, PTL DEF Spec

------------------------------------------------------------------------------
(* STALE PROOFS *)

(* Every tree somebody committed to, or is about to commit to, is one list   *)
(* at one version.                                                           *)
TreesHaveOneVersion ==
    /\ \A t \in Token : SingleVersion(editorRoot[t])
    /\ \A w \in Wallet : inflight[w].op \in {"publish", "updateEditors"} =>
          SingleVersion(inflight[w].root)

(* A signed call with a proof either saw the set in force, or the set has    *)
(* moved on and no leaf of its proof names the version in force.             *)
Saw(c) ==
    /\ c.life <= lives[c.token]
    /\ c.life = lives[c.token] /\ Exists(c.token) =>
          \/ /\ c.seen = editorSetVersion[c.token]
             /\ c.proof = editorRoot[c.token]
          \/ /\ c.seen < editorSetVersion[c.token]
             /\ \A l \in c.proof : l.version <= c.seen
SawPastOrPresent == \A w \in Wallet : Proving(w) => Saw(inflight[w])

IInv == /\ TypeOK
        /\ UnmintedHasNoEditorSet
        /\ TreesHaveOneVersion
        /\ SawPastOrPresent

(* The invariant rules out an accepted stale call.                           *)
LEMMA IInvImpliesStaleProofsAreDead == IInv => StaleProofsAreDead
<1> SUFFICES ASSUME IInv, NEW w \in Wallet,
                    Proving(w), SameLife(w), Accepted(w)
             PROVE  SameSet(w)
  BY DEF StaleProofsAreDead
<1> DEFINE c == inflight[w]
<1>0. c.token \in Token /\ c.seen \in Nat
  BY CallFields DEF IInv, Proving, ProvingOps, UpdateURICall,
                    UpdateEditorsCall, BurnCall
<1>1. PICK role, scope : IsEditor(w, role, c.token, scope, c.proof)
  BY DEF Accepted, Proving, ProvingOps, CanPublish, CanUpdateURI,
         CanUpdateEditors, CanBurn
<1>2. Exists(c.token)
  BY <1>0, <1>1 DEF IInv, UnmintedHasNoEditorSet, IsEditor, ZeroRoot
<1>3. PICK l \in c.proof : l.version = editorSetVersion[c.token]
  BY <1>1 DEF IsEditor, LeafOf
<1>4. editorSetVersion[c.token] \in Nat
  BY <1>0 DEF IInv, TypeOK
<1> QED
  BY <1>0, <1>2, <1>3, <1>4
  DEF IInv, SawPastOrPresent, Saw, SameLife, SameSet

(* Signing records the set in force, so the new call saw the present.        *)
LEMMA SigningKeepsIInv ==
    ASSUME IInv, NEW w \in Wallet, NEW t \in Token,
           \/ SignPublish(w, t)   \/ SignUpdateURI(w, t)
           \/ SignUpdateEditors(w, t) \/ SignBurn(w, t)
    PROVE  IInv'
<1>1. TypeOK'
  BY SigningTyped DEF IInv
<1>2. UNCHANGED chain
  BY DEF SignPublish, SignUpdateURI, SignUpdateEditors, SignBurn, Sign
<1>3. UnmintedHasNoEditorSet'
  BY <1>2 DEF IInv, UnmintedHasNoEditorSet, Exists, chain
<1>4. \A x \in Wallet : x # w => inflight'[x] = inflight[x]
  BY DEF SignPublish, SignUpdateURI, SignUpdateEditors, SignBurn, Sign,
         IInv, TypeOK
<1>5. TreesHaveOneVersion'
  <2>1. inflight'[w].op \in {"publish", "updateEditors"} =>
           SingleVersion(inflight'[w].root)
    BY CommitIsTree
    DEF SignPublish, SignUpdateURI, SignUpdateEditors, SignBurn, Sign,
        IInv, TypeOK
  <2> QED
    BY <1>2, <1>4, <2>1 DEF IInv, TreesHaveOneVersion, chain
<1>6. SawPastOrPresent'
  <2>1. inflight'[w].op \in ProvingOps =>
           /\ inflight'[w].token = t
           /\ inflight'[w].life = lives[t]
           /\ inflight'[w].seen = editorSetVersion[t]
           /\ inflight'[w].proof = editorRoot[t]
    BY DEF SignPublish, SignUpdateURI, SignUpdateEditors, SignBurn, Sign,
           ProvingOps, IInv, TypeOK
  <2>2. lives[t] \in Nat
    BY DEF IInv, TypeOK
  <2> QED
    BY <1>2, <1>4, <2>1, <2>2
    DEF IInv, SawPastOrPresent, Saw, Proving, Exists, chain
<1> QED
  BY <1>1, <1>3, <1>5, <1>6 DEF IInv

(* A step that leaves the lives, editor sets and other wallets' calls alone  *)
(* keeps the history part of the invariant.                                  *)
LEMMA QuietStepKeepsIInv ==
    ASSUME IInv, TypeOK',
           UNCHANGED <<editorRoot, editorSetVersion, editorListURI, lives>>,
           \A t \in Token : Exists(t)' <=> Exists(t),
           \A w \in Wallet : inflight'[w] \in {inflight[w], NoCall}
    PROVE  IInv'
<1>1. UnmintedHasNoEditorSet'
  BY DEF IInv, UnmintedHasNoEditorSet
<1>2. TreesHaveOneVersion'
  BY DEF IInv, TreesHaveOneVersion, NoCall
<1>3. SawPastOrPresent'
  <2> SUFFICES ASSUME NEW w \in Wallet, Proving(w)'
               PROVE  Saw(inflight[w])'
    BY DEF SawPastOrPresent
  <2>1. inflight'[w] = inflight[w] /\ Proving(w)
    BY DEF Proving, ProvingOps, NoCall
  <2>2. inflight[w].token \in Token
    BY <2>1, CallFields DEF IInv, Proving, ProvingOps, UpdateURICall,
                            UpdateEditorsCall, BurnCall
  <2> QED
    BY <2>1, <2>2 DEF IInv, SawPastOrPresent, Saw
<1> QED
  BY <1>1, <1>2, <1>3 DEF IInv

(* A mint starts a new life of its token: no call signed earlier is of it.   *)
LEMMA MintKeepsIInv ==
    ASSUME IInv, TypeOK', NEW t \in Token, NEW tree,
           ~Exists(t), Exists(t)',
           lives' = [lives EXCEPT ![t] = @ + 1],
           editorRoot' = [editorRoot EXCEPT ![t] = tree],
           SingleVersion(tree),
           \A x \in Token : x # t =>
               /\ holder'[x] = holder[x]
               /\ editorSetVersion'[x] = editorSetVersion[x]
               /\ editorListURI'[x] = editorListURI[x],
           \A w \in Wallet : inflight'[w] \in {inflight[w], NoCall}
    PROVE  IInv'
<1>1. /\ lives'[t] = lives[t] + 1 /\ editorRoot'[t] = tree
      /\ lives[t] \in Nat
      /\ \A x \in Token : x # t =>
            lives'[x] = lives[x] /\ editorRoot'[x] = editorRoot[x]
  BY DEF IInv, TypeOK
<1>2. UnmintedHasNoEditorSet'
  BY <1>1 DEF IInv, UnmintedHasNoEditorSet, Exists
<1>3. TreesHaveOneVersion'
  BY <1>1 DEF IInv, TreesHaveOneVersion, NoCall
<1>4. SawPastOrPresent'
  <2> SUFFICES ASSUME NEW w \in Wallet, Proving(w)'
               PROVE  Saw(inflight[w])'
    BY DEF SawPastOrPresent
  <2>1. inflight'[w] = inflight[w] /\ Proving(w)
    BY DEF Proving, ProvingOps, NoCall
  <2>2. inflight[w].token \in Token /\ inflight[w].life \in Nat
    BY <2>1, CallFields DEF IInv, Proving, ProvingOps, UpdateURICall,
                            UpdateEditorsCall, BurnCall
  <2>3. Saw(inflight[w])
    BY <2>1 DEF IInv, SawPastOrPresent
  <2>4. CASE inflight[w].token = t
    BY <1>1, <2>1, <2>2, <2>3, <2>4 DEF Saw
  <2>5. CASE inflight[w].token # t
    BY <1>1, <2>1, <2>2, <2>3, <2>5 DEF Saw, Exists
  <2> QED
    BY <2>4, <2>5
<1> QED
  BY <1>2, <1>3, <1>4 DEF IInv

(* An accepted update of an editor set proves a leaf of the version in       *)
(* force, so that every leaf of the tree it replaces is of that version, and *)
(* each call that saw that tree has now seen the past.                       *)
LEMMA UpdateEditorsKeepsIInv ==
    ASSUME IInv, TypeOK', NEW w \in Wallet, UpdateEditors(w)
    PROVE  IInv'
<1> DEFINE c == inflight[w]
           t == c.token
<1>1. /\ c \in UpdateEditorsCall
      /\ IsEditor(w, c.role, t, CollectionScope, c.proof)
  BY CallFields DEF IInv, UpdateEditors, CanUpdateEditors
<1>2. t \in Token
  BY <1>1 DEF UpdateEditorsCall
<1>3. /\ editorRoot' = [editorRoot EXCEPT ![t] = c.root]
      /\ editorSetVersion' = [editorSetVersion EXCEPT ![t] = @ + 1]
      /\ editorListURI' = [editorListURI EXCEPT ![t] = c.list]
      /\ inflight' = [inflight EXCEPT ![w] = NoCall]
      /\ UNCHANGED <<holder, lives>>
  BY DEF UpdateEditors, Mined
<1>4. /\ editorRoot'[t] = c.root
      /\ editorSetVersion'[t] = editorSetVersion[t] + 1
      /\ editorSetVersion[t] \in Nat
      /\ \A x \in Token : x # t =>
            /\ editorRoot'[x] = editorRoot[x]
            /\ editorSetVersion'[x] = editorSetVersion[x]
            /\ editorListURI'[x] = editorListURI[x]
      /\ inflight'[w] = NoCall
      /\ \A x \in Wallet : x # w => inflight'[x] = inflight[x]
  BY <1>2, <1>3 DEF IInv, TypeOK
<1>5. Exists(t)
  BY <1>1, <1>2 DEF IInv, UnmintedHasNoEditorSet, IsEditor, ZeroRoot
<1>6. UnmintedHasNoEditorSet'
  BY <1>3, <1>4, <1>5 DEF IInv, UnmintedHasNoEditorSet, Exists
<1>7. TreesHaveOneVersion'
  <2>1. SingleVersion(c.root)
    BY <1>1 DEF IInv, TreesHaveOneVersion, UpdateEditorsCall
  <2> QED
    BY <1>4, <2>1 DEF IInv, TreesHaveOneVersion, NoCall
<1>8. SawPastOrPresent'
  <2> SUFFICES ASSUME NEW x \in Wallet, Proving(x)'
               PROVE  Saw(inflight[x])'
    BY DEF SawPastOrPresent
  <2>1. inflight'[x] = inflight[x] /\ Proving(x)
    BY <1>4 DEF Proving, ProvingOps, NoCall
  <2>2. inflight[x].token \in Token /\ inflight[x].seen \in Nat
    BY <2>1, CallFields DEF IInv, Proving, ProvingOps, UpdateURICall,
                            UpdateEditorsCall, BurnCall
  <2>3. Saw(inflight[x])
    BY <2>1 DEF IInv, SawPastOrPresent
  <2>4. CASE inflight[x].token = t
    <3>1. \A l \in editorRoot[t] : l.version = editorSetVersion[t]
      BY <1>1, <1>2 DEF IsEditor, LeafOf, IInv, TreesHaveOneVersion,
                        SingleVersion
    <3> QED
      BY <1>3, <1>4, <2>1, <2>2, <2>3, <2>4, <3>1 DEF Saw, Exists
  <2>5. CASE inflight[x].token # t
    BY <1>3, <1>4, <2>1, <2>2, <2>3, <2>5 DEF Saw, Exists
  <2> QED
    BY <2>4, <2>5
<1> QED
  BY <1>6, <1>7, <1>8 DEF IInv

(* A burn leaves its token without editors, and every call that saw them     *)
(* without a set to be measured against.                                     *)
LEMMA BurnKeepsIInv ==
    ASSUME IInv, TypeOK', NEW w \in Wallet, Burn(w)
    PROVE  IInv'
<1> DEFINE t == inflight[w].token
<1>1. t \in Token
  BY CallFields DEF IInv, Burn, CanBurn, BurnCall
<1>2. /\ holder'[t] = NoOne /\ editorRoot'[t] = ZeroRoot
      /\ editorSetVersion'[t] = 0 /\ editorListURI'[t] = None
      /\ \A x \in Token : x # t =>
            /\ holder'[x] = holder[x]
            /\ editorRoot'[x] = editorRoot[x]
            /\ editorSetVersion'[x] = editorSetVersion[x]
            /\ editorListURI'[x] = editorListURI[x]
      /\ lives' = lives
      /\ \A x \in Wallet : inflight'[x] \in {inflight[x], NoCall}
  BY <1>1 DEF Burn, Mined, IInv, TypeOK
<1>3. UnmintedHasNoEditorSet'
  BY <1>2 DEF IInv, UnmintedHasNoEditorSet, Exists
<1>4. TreesHaveOneVersion'
  <2>1. SingleVersion(ZeroRoot)
    BY DEF SingleVersion, ZeroRoot
  <2> QED
    BY <1>2, <2>1 DEF IInv, TreesHaveOneVersion, NoCall
<1>5. SawPastOrPresent'
  <2> SUFFICES ASSUME NEW x \in Wallet, Proving(x)'
               PROVE  Saw(inflight[x])'
    BY DEF SawPastOrPresent
  <2>1. inflight'[x] = inflight[x] /\ Proving(x)
    BY <1>2 DEF Proving, ProvingOps, NoCall
  <2>2. inflight[x].token \in Token
    BY <2>1, CallFields DEF IInv, Proving, ProvingOps, UpdateURICall,
                            UpdateEditorsCall, BurnCall
  <2>3. Saw(inflight[x])
    BY <2>1 DEF IInv, SawPastOrPresent
  <2> QED
    BY <1>2, <2>1, <2>2, <2>3 DEF Saw, Exists
<1> QED
  BY <1>3, <1>4, <1>5 DEF IInv

(* Every step keeps the inductive invariant.                                 *)
LEMMA IInvStep == IInv /\ [Next]_vars => IInv'
<1> SUFFICES ASSUME IInv, [Next]_vars PROVE IInv'
  OBVIOUS
<1> USE ConstantsAssumption
<1>0. TypeOK'
  BY TypeStep DEF IInv
<1>1. ASSUME NEW w \in Wallet, PublishAsset(w) PROVE IInv'
  <2>1. inflight[w] \in PublishCall
    BY <1>1, CallFields DEF IInv, PublishAsset, CanPublish
  <2>2. PICK t \in Token, tree \in SUBSET Leaf :
           t = inflight[w].token /\ tree = inflight[w].root
    BY <2>1 DEF PublishCall
  <2>3. ~Exists(t) /\ SingleVersion(tree)
    BY <1>1, <2>1, <2>2 DEF PublishAsset, CanPublish, PublishCall, IInv,
                            TreesHaveOneVersion
  <2>4. Exists(t)'
    BY <1>1, <2>2 DEF PublishAsset, Exists, IInv, TypeOK
  <2>5. /\ lives' = [lives EXCEPT ![t] = @ + 1]
        /\ editorRoot' = [editorRoot EXCEPT ![t] = tree]
        /\ \A x \in Token : x # t =>
              /\ holder'[x] = holder[x]
              /\ editorSetVersion'[x] = editorSetVersion[x]
              /\ editorListURI'[x] = editorListURI[x]
        /\ \A x \in Wallet : inflight'[x] \in {inflight[x], NoCall}
    BY <1>1, <2>2 DEF PublishAsset, Mined, IInv, TypeOK
  <2> QED
    BY <1>0, <2>3, <2>4, <2>5, MintKeepsIInv
<1>2. ASSUME NEW w \in Wallet, UpdateAssetURI(w) PROVE IInv'
  <2>1. /\ UNCHANGED <<editorRoot, editorSetVersion, editorListURI, lives>>
        /\ \A t \in Token : Exists(t)' <=> Exists(t)
    BY <1>2 DEF UpdateAssetURI, Exists
  <2>2. \A x \in Wallet : inflight'[x] \in {inflight[x], NoCall}
    BY <1>2 DEF UpdateAssetURI, Mined, IInv, TypeOK
  <2> QED
    BY <1>0, <2>1, <2>2, QuietStepKeepsIInv
<1>3. ASSUME NEW w \in Wallet, UpdateEditors(w) PROVE IInv'
  BY <1>0, <1>3, UpdateEditorsKeepsIInv
<1>4. ASSUME NEW w \in Wallet, Burn(w) PROVE IInv'
  BY <1>0, <1>4, BurnKeepsIInv
<1>5. ASSUME NEW w \in Wallet, Revert(w) \/ Drop(w) PROVE IInv'
  BY <1>0, <1>5, QuietStepKeepsIInv
  DEF Revert, Drop, Mined, chain, IInv, TypeOK, Exists
<1>6. ASSUME NEW t \in Token, MigrateAsset(t) PROVE IInv'
  <2>1. PICK w \in Wallet, u \in URI, l \in EditorList, v, sv \in TreeVersion :
          /\ holder' = [holder EXCEPT ![t] = w]
          /\ tokenURI' = [tokenURI EXCEPT ![t] = u]
          /\ editorRoot' = [editorRoot EXCEPT ![t] = Commit(l, t, v)]
          /\ editorSetVersion' = [editorSetVersion EXCEPT ![t] = sv]
          /\ editorListURI' = [editorListURI EXCEPT ![t] = l]
    BY <1>6 DEF MigrateAsset, Remint
  <2>2. SingleVersion(Commit(l, t, v))
    BY CommitIsTree
  <2>3. ~Exists(t) /\ Exists(t)'
    BY <1>6, <2>1 DEF MigrateAsset, Remint, Exists, IInv, TypeOK
  <2>4. /\ lives' = [lives EXCEPT ![t] = @ + 1]
        /\ \A x \in Token : x # t =>
              /\ holder'[x] = holder[x]
              /\ editorSetVersion'[x] = editorSetVersion[x]
              /\ editorListURI'[x] = editorListURI[x]
        /\ \A x \in Wallet : inflight'[x] \in {inflight[x], NoCall}
    BY <1>6, <2>1 DEF MigrateAsset, Remint, IInv, TypeOK
  <2> QED
    BY <1>0, <2>1, <2>2, <2>3, <2>4, MintKeepsIInv
<1>7. CASE FinalizeMigration
  BY <1>0, <1>7, QuietStepKeepsIInv DEF FinalizeMigration, Exists
<1>8. ASSUME NEW t \in Token, Transfer(t) PROVE IInv'
  BY <1>0, <1>8, QuietStepKeepsIInv DEF Transfer, Exists, IInv, TypeOK
<1>9. CASE UNCHANGED vars
  BY <1>0, <1>9, QuietStepKeepsIInv DEF vars, Exists
<1> QED
  BY <1>1, <1>2, <1>3, <1>4, <1>5, <1>6, <1>7, <1>8, <1>9, SigningKeepsIInv
  DEF Next, Mine, Registry

(* IInv is an inductive invariant of the registry.                           *)
LEMMA Inductive == Spec => []IInv
<1>1. Init => IInv
  <2> SUFFICES ASSUME Init PROVE IInv
    OBVIOUS
  <2>1. TypeOK
    BY InitTyped
  <2>2. UnmintedHasNoEditorSet
    BY DEF Init, UnmintedHasNoEditorSet
  <2>3. TreesHaveOneVersion
    BY DEF Init, TreesHaveOneVersion, SingleVersion, ZeroRoot, NoCall
  <2>4. SawPastOrPresent
    BY DEF Init, SawPastOrPresent, Proving, ProvingOps, NoCall
  <2> QED
    BY <2>1, <2>2, <2>3, <2>4 DEF IInv
<1> QED
  BY <1>1, IInvStep, PTL DEF Spec

(* An id nobody holds never has an editor set, so that updateEditors needs   *)
(* no existence check.                                                       *)
THEOREM NoEditorsWithoutToken == Spec => []UnmintedHasNoEditorSet
<1>1. IInv => UnmintedHasNoEditorSet
  BY DEF IInv
<1> QED
  BY <1>1, Inductive, PTL

(* The editor set of a living token changes only together with its version,  *)
(* by one.                                                                   *)
THEOREM EditorSetsAreVersioned == Spec => EditorSetIsVersioned
<1>1. TypeOK /\ [Next]_vars => [EditorSetStep]_vars
  <2> SUFFICES ASSUME TypeOK, [Next]_vars, NEW t \in Token,
                      Exists(t), Exists(t)', lives'[t] = lives[t]
               PROVE  \/ UNCHANGED <<editorRoot[t], editorSetVersion[t],
                                     editorListURI[t]>>
                      \/ editorSetVersion'[t] = editorSetVersion[t] + 1
    BY DEF EditorSetStep
  <2>1. ASSUME NEW w \in Wallet, PublishAsset(w)
        PROVE  UNCHANGED <<editorRoot[t], editorSetVersion[t],
                           editorListURI[t]>>
    BY <2>1 DEF PublishAsset, CanPublish, TypeOK
  <2>2. ASSUME NEW w \in Wallet, UpdateEditors(w)
        PROVE  \/ UNCHANGED <<editorRoot[t], editorSetVersion[t],
                              editorListURI[t]>>
               \/ editorSetVersion'[t] = editorSetVersion[t] + 1
    BY <2>2 DEF UpdateEditors, TypeOK
  <2>3. ASSUME NEW w \in Wallet, Burn(w)
        PROVE  UNCHANGED <<editorRoot[t], editorSetVersion[t],
                           editorListURI[t]>>
    BY <2>3 DEF Burn, TypeOK, Exists
  <2>4. ASSUME NEW x \in Token, MigrateAsset(x)
        PROVE  UNCHANGED <<editorRoot[t], editorSetVersion[t],
                           editorListURI[t]>>
    BY <2>4 DEF MigrateAsset, Remint, TypeOK
  <2>5. CASE UNCHANGED <<editorRoot, editorSetVersion, editorListURI>>
    BY <2>5
  <2> QED
    BY <2>1, <2>2, <2>3, <2>4, <2>5
    DEF Next, Mine, Registry, UpdateAssetURI, Revert, Drop, Transfer,
        FinalizeMigration, SignPublish, SignUpdateURI, SignUpdateEditors,
        SignBurn, Sign, chain, vars
<1> QED
  BY <1>1, Typed, PTL DEF Spec, EditorSetIsVersioned

(* However long a call waits to be mined, it takes effect only if the editor *)
(* set it was signed against is still the set in force.                      *)
THEOREM StaleProofsNeverLand == Spec => []StaleProofsAreDead
  BY IInvImpliesStaleProofsAreDead, Inductive, PTL

------------------------------------------------------------------------------
(* The registry implements a list with a version. *)

(* The trees in flight were built from the list they are sent with.          *)
CallsAreBuilt ==
    \A w \in Wallet : inflight[w].op \in {"publish", "updateEditors"} =>
        \E v \in TreeVersion :
            inflight[w].root = Commit(inflight[w].list, inflight[w].token, v)

LEMMA CallsStayBuilt ==
    ASSUME CallsAreBuilt,
           \A w \in Wallet : inflight'[w] \in {inflight[w], NoCall}
    PROVE  CallsAreBuilt'
BY DEF CallsAreBuilt, NoCall

LEMMA SigningBuilds ==
    ASSUME TypeOK, CallsAreBuilt, NEW w \in Wallet, NEW t \in Token,
           \/ SignPublish(w, t)   \/ SignUpdateURI(w, t)
           \/ SignUpdateEditors(w, t) \/ SignBurn(w, t)
    PROVE  CallsAreBuilt'
<1> SUFFICES ASSUME NEW x \in Wallet, inflight'[x].op \in {"publish", "updateEditors"}
             PROVE  \E v \in TreeVersion :
                       inflight'[x].root = Commit(inflight'[x].list, inflight'[x].token, v)
  BY DEF CallsAreBuilt
<1>1. inflight' \in [Wallet -> Call \cup {NoCall}]
  BY SigningTyped DEF TypeOK
<1>2. CASE x # w
  <2>1. inflight'[x] = inflight[x]
    BY <1>2 DEF SignPublish, SignUpdateURI, SignUpdateEditors, SignBurn, Sign, TypeOK
  <2> QED
    BY <2>1 DEF CallsAreBuilt
<1>3. CASE x = w /\ SignPublish(w, t)
  <2>1. PICK u \in URI, l \in EditorList, v \in TreeVersion :
           inflight' = [inflight EXCEPT ![w] = [op |-> "publish", token |-> t, uri |-> u,
                    root |-> Commit(l, t, v), list |-> l]]
    BY <1>3 DEF SignPublish, Sign
  <2> QED
    BY <1>3, <2>1 DEF TypeOK
<1>4. CASE x = w /\ SignUpdateEditors(w, t)
  <2>1. PICK l \in EditorList, v \in TreeVersion, r \in Role :
           inflight' = [inflight EXCEPT ![w] =
               [op |-> "updateEditors", token |-> t,
                root |-> Commit(l, t, v), list |-> l, role |-> r,
                proof |-> editorRoot[t],
                life |-> lives[t], seen |-> editorSetVersion[t]]]
    BY <1>4 DEF SignUpdateEditors, Sign
  <2> QED
    BY <1>4, <2>1 DEF TypeOK
<1>5. CASE x = w /\ (SignUpdateURI(w, t) \/ SignBurn(w, t))
  BY <1>5 DEF SignUpdateURI, SignBurn, Sign, TypeOK
<1> QED
  BY <1>2, <1>3, <1>4, <1>5

LEMMA BuiltStep == TypeOK /\ CallsAreBuilt /\ [Next]_vars => CallsAreBuilt'
<1> SUFFICES ASSUME TypeOK, CallsAreBuilt, [Next]_vars PROVE CallsAreBuilt'
  OBVIOUS
<1>1. ASSUME NEW w \in Wallet, Mine(w) \/ Drop(w) PROVE CallsAreBuilt'
  <2>1. \A x \in Wallet : inflight'[x] \in {inflight[x], NoCall}
    BY <1>1 DEF Mine, PublishAsset, UpdateAssetURI, UpdateEditors, Burn, Revert, Drop,
                Mined, TypeOK
  <2> QED
    BY <2>1, CallsStayBuilt
<1>2. ASSUME NEW w \in Wallet, NEW t \in Token,
             \/ SignPublish(w, t)   \/ SignUpdateURI(w, t)
             \/ SignUpdateEditors(w, t) \/ SignBurn(w, t)
      PROVE  CallsAreBuilt'
  BY <1>2, SigningBuilds
<1>3. CASE Registry \/ UNCHANGED vars
  <2>1. inflight' = inflight
    BY <1>3 DEF Registry, FinalizeMigration, MigrateAsset, Remint, Transfer, vars
  <2> QED
    BY <2>1, CallsStayBuilt
<1> QED
  BY <1>1, <1>2, <1>3 DEF Next

LEMMA BuiltInvariant == Spec => []CallsAreBuilt
<1>1. Init => CallsAreBuilt
  BY DEF Init, CallsAreBuilt, NoCall
<1> QED
  BY <1>1, BuiltStep, Typed, PTL DEF Spec

(* What a tree grants: its list, when its token is at the version it was     *)
(* built for, and otherwise nothing.                                         *)
LEMMA GrantsOfATree ==
    ASSUME NEW l \in EditorList, NEW t \in Token, NEW v \in Nat, NEW n \in Nat
    PROVE  GrantsIn(Commit(l, t, v), t, n) = IF v = n THEN l ELSE {}
<1>1. l \subseteq Grant
  BY ConstantsAssumption
<1>2. CASE v = n
  <2> DEFINE GrantOf(e) == [who |-> e.who, role |-> e.role, scope |-> e.scope]
             LeafFor(g) == LeafOf(g.who, g.role, t, g.scope, v)
  <2>1. \A g \in l : g = GrantOf(LeafFor(g))
    BY <1>1 DEF Grant, LeafOf
  <2>2. \A e \in Commit(l, t, v) : e.token = t /\ e.version = n
    BY <1>2 DEF Commit, LeafOf
  <2>3. GrantsIn(Commit(l, t, v), t, n) = {GrantOf(e) : e \in Commit(l, t, v)}
    BY <2>2, Zenon DEF GrantsIn
  <2>4. {GrantOf(e) : e \in Commit(l, t, v)} = {GrantOf(LeafFor(g)) : g \in l}
    BY Zenon DEF Commit
  <2>5. {GrantOf(LeafFor(g)) : g \in l} = l
    <3> HIDE DEF GrantOf, LeafFor
    <3> QED
      BY <2>1
  <2> QED
    BY <1>2, <2>3, <2>4, <2>5
<1>3. CASE v # n
  BY <1>3 DEF GrantsIn, Commit, LeafOf
<1> QED
  BY <1>2, <1>3

(* The version that is read off a tree serves as well as the one it was      *)
(* built for.                                                                *)
LEMMA GrantsOfABuiltTree ==
    ASSUME NEW l \in EditorList, NEW t \in Token, NEW v \in TreeVersion, NEW n \in Nat
    PROVE  LET b == BuiltFor(Commit(l, t, v)) IN
           /\ b \in TreeVersion
           /\ GrantsIn(Commit(l, t, v), t, n) = IF b = n THEN l ELSE {}
<1> DEFINE b == BuiltFor(Commit(l, t, v))
<1>1. v \in Nat
  BY ConstantsAssumption
<1>2. \A e \in Commit(l, t, v) : e.version = v
  BY DEF Commit, LeafOf
<1>3. b \in TreeVersion /\ \A e \in Commit(l, t, v) : e.version = b
  BY <1>2 DEF BuiltFor
<1>4. CASE l = {}
  BY <1>1, <1>3, <1>4, GrantsOfATree
<1>5. CASE l # {}
  <2>1. PICK g \in l : TRUE
    BY <1>5
  <2>2. LeafOf(g.who, g.role, t, g.scope, v) \in Commit(l, t, v)
    BY <2>1 DEF Commit
  <2>3. b = v
    BY <1>3, <2>2 DEF LeafOf
  <2> QED
    BY <1>1, <1>3, <2>3, GrantsOfATree
<1> QED
  BY <1>4, <1>5

(* A leaf that verifies is a grant in force. *)
LEMMA VerifiedIsGranted ==
    ASSUME NEW w \in Wallet, NEW t \in Token, NEW s \in Scope, NEW proof,
           IsEditor(w, "Editor", t, s, proof)
    PROVE  [who |-> w, role |-> "Editor", scope |-> s] \in GrantsInForce[t]
<1> DEFINE e == LeafOf(w, "Editor", t, s, editorSetVersion[t])
<1>1. e \in editorRoot[t] /\ e.token = t /\ e.version = editorSetVersion[t]
  BY DEF IsEditor, LeafOf
<1>2. [who |-> e.who, role |-> e.role, scope |-> e.scope] \in
          GrantsIn(editorRoot[t], t, editorSetVersion[t])
  BY <1>1 DEF GrantsIn
<1> QED
  BY <1>2 DEF GrantsInForce, LeafOf

(* A call that is mined or lost is a request answered. *)
LEMMA MinedIsAnswered ==
    ASSUME TypeOK, NEW w \in Wallet, Mined(w)
    PROVE  Register!Answered(w)
<1>1. inflight'[w] = NoCall /\ \A x \in Wallet \ {w} : inflight'[x] = inflight[x]
  BY DEF Mined, TypeOK
<1>2. Asked(NoCall) = Register!NoRequest
  BY DEF Asked, NoCall, Register!NoRequest
<1>3. Requests' = [Requests EXCEPT ![w] = Asked(NoCall)]
  BY <1>1 DEF Requests
<1> QED
  BY <1>2, <1>3 DEF Register!Answered

LEMMA SignedIsAsked ==
    ASSUME TypeOK, NEW w \in Wallet, NEW c, Sign(w, c)
    PROVE  Register!Ask(w, Asked(c))
<1>1. /\ inflight[w] = NoCall /\ inflight'[w] = c
      /\ \A x \in Wallet \ {w} : inflight'[x] = inflight[x]
      /\ UNCHANGED <<holder, tokenURI, editorRoot, editorSetVersion, editorListURI, lives>>
  BY DEF Sign, TypeOK, chain
<1>2. Requests[w] = Register!NoRequest
  BY <1>1 DEF Requests, Asked, NoCall, Register!NoRequest
<1>3. Requests' = [Requests EXCEPT ![w] = Asked(c)]
  BY <1>1 DEF Requests
<1>4. UNCHANGED <<LiveTokens, Pointers, GrantsInForce>>
  BY <1>1 DEF LiveTokens, Pointers, GrantsInForce, Exists
<1> QED
  BY <1>1, <1>2, <1>3, <1>4 DEF Register!Ask

(* Signing: the version the tree is for is read off the tree. *)
LEMMA SigningIsAsking ==
    ASSUME TypeOK, NEW w \in Wallet, NEW t \in Token,
           \/ SignPublish(w, t)   \/ SignUpdateURI(w, t)
           \/ SignUpdateEditors(w, t) \/ SignBurn(w, t)
    PROVE  Register!Next
<1>1. CASE SignPublish(w, t)
  <2>1. PICK u \in URI, l \in EditorList, v \in TreeVersion :
           Sign(w, [op |-> "publish", token |-> t, uri |-> u,
                    root |-> Commit(l, t, v), list |-> l])
    BY <1>1 DEF SignPublish
  <2> DEFINE c == [op |-> "publish", token |-> t, uri |-> u,
                   root |-> Commit(l, t, v), list |-> l]
  <2>2. Asked(c) = [op |-> "publish", token |-> t, uri |-> u, list |-> l,
                    for |-> BuiltFor(Commit(l, t, v))]
    BY DEF Asked
  <2>3. BuiltFor(Commit(l, t, v)) \in TreeVersion
    BY GrantsOfABuiltTree
  <2>4. Register!Ask(w, Asked(c))
    BY <2>1, SignedIsAsked
  <2>5. Register!AskToPublish(w, t)
    BY <2>2, <2>3, <2>4 DEF Register!AskToPublish
  <2> QED
    BY <2>5 DEF Register!Next
<1>2. CASE SignUpdateURI(w, t)
  <2>1. PICK u \in URI, s \in Scope :
           Sign(w, [op |-> "updateURI", token |-> t, uri |-> u, scope |-> s,
                    proof |-> editorRoot[t],
                    life |-> lives[t], seen |-> editorSetVersion[t]])
    BY <1>2 DEF SignUpdateURI
  <2> DEFINE c == [op |-> "updateURI", token |-> t, uri |-> u, scope |-> s,
                   proof |-> editorRoot[t],
                   life |-> lives[t], seen |-> editorSetVersion[t]]
  <2>2. Asked(c) = [op |-> "point", token |-> t, uri |-> u, scope |-> s,
                    life |-> lives[t], seen |-> editorSetVersion[t]]
    BY DEF Asked
  <2>3. Register!Ask(w, Asked(c))
    BY <2>1, SignedIsAsked
  <2>4. Register!AskToPoint(w, t)
    BY <2>2, <2>3 DEF Register!AskToPoint
  <2> QED
    BY <2>4 DEF Register!Next
<1>3. CASE SignUpdateEditors(w, t)
  <2>1. PICK l \in EditorList, v \in TreeVersion, r \in Role :
           Sign(w, [op |-> "updateEditors", token |-> t,
                    root |-> Commit(l, t, v), list |-> l, role |-> r,
                    proof |-> editorRoot[t],
                    life |-> lives[t], seen |-> editorSetVersion[t]])
    BY <1>3 DEF SignUpdateEditors
  <2> DEFINE c == [op |-> "updateEditors", token |-> t,
                   root |-> Commit(l, t, v), list |-> l, role |-> r,
                   proof |-> editorRoot[t],
                   life |-> lives[t], seen |-> editorSetVersion[t]]
  <2>2. Asked(c) = [op |-> "replace", token |-> t, list |-> l,
                    for |-> BuiltFor(Commit(l, t, v)),
                    life |-> lives[t], seen |-> editorSetVersion[t]]
    BY DEF Asked
  <2>3. BuiltFor(Commit(l, t, v)) \in TreeVersion
    BY GrantsOfABuiltTree
  <2>4. Register!Ask(w, Asked(c))
    BY <2>1, SignedIsAsked
  <2>5. Register!AskToReplace(w, t)
    BY <2>2, <2>3, <2>4 DEF Register!AskToReplace
  <2> QED
    BY <2>5 DEF Register!Next
<1>4. CASE SignBurn(w, t)
  <2> DEFINE c == [op |-> "burn", token |-> t, proof |-> editorRoot[t],
                   life |-> lives[t], seen |-> editorSetVersion[t]]
  <2>1. Register!Ask(w, Asked(c))
    BY <1>4, SignedIsAsked DEF SignBurn
  <2>2. Asked(c) = [op |-> "burn", token |-> t,
                    life |-> lives[t], seen |-> editorSetVersion[t]]
    BY DEF Asked
  <2>3. Register!AskToBurn(w, t)
    BY <2>1, <2>2 DEF Register!AskToBurn
  <2> QED
    BY <2>3 DEF Register!Next
<1> QED
  BY <1>1, <1>2, <1>3, <1>4

------------------------------------------------------------------------------
(* The answers. *)

(* A tree stored for a token is its list put in force.                       *)
LEMMA StoredIsPut ==
    ASSUME TypeOK, NEW t \in Token, NEW l \in EditorList, NEW v \in TreeVersion,
           NEW n \in Nat,
           editorRoot' = [editorRoot EXCEPT ![t] = Commit(l, t, v)],
           editorSetVersion' = [editorSetVersion EXCEPT ![t] = n],
           editorListURI' = [editorListURI EXCEPT ![t] = l]
    PROVE  Register!Puts(t, l, n, BuiltFor(Commit(l, t, v)))
<1> DEFINE put == IF BuiltFor(Commit(l, t, v)) = n THEN l ELSE {}
<1>1. /\ editorRoot'[t] = Commit(l, t, v) /\ editorSetVersion'[t] = n
      /\ \A x \in Token \ {t} : /\ editorRoot'[x] = editorRoot[x]
                                /\ editorSetVersion'[x] = editorSetVersion[x]
  BY DEF TypeOK
<1>2. GrantsIn(Commit(l, t, v), t, n) = put
  BY GrantsOfABuiltTree
<1>3. GrantsInForce' = [GrantsInForce EXCEPT ![t] = GrantsIn(Commit(l, t, v), t, n)]
  <2> DEFINE now(x) == GrantsIn(editorRoot'[x], x, editorSetVersion'[x])
             was(x) == GrantsIn(editorRoot[x], x, editorSetVersion[x])
  <2>1. GrantsInForce' = [x \in Token |-> now(x)] /\ GrantsInForce = [x \in Token |-> was(x)]
    BY DEF GrantsInForce
  <2>2. now(t) = GrantsIn(Commit(l, t, v), t, n)
    BY <1>1
  <2>3. \A x \in Token \ {t} : now(x) = was(x)
    BY <1>1
  <2> HIDE DEF now, was
  <2> QED
    BY <2>1, <2>2, <2>3
<1> QED
  BY <1>2, <1>3 DEF Register!Puts

(* A token that comes to life. *)
LEMMA MintedIsMinted ==
    ASSUME TypeOK, NEW t \in Token, NEW w \in Wallet, NEW u,
           ~Exists(t),
           holder' = [holder EXCEPT ![t] = w],
           tokenURI' = [tokenURI EXCEPT ![t] = u],
           lives' = [lives EXCEPT ![t] = @ + 1]
    PROVE  Register!Mints(t, u)
<1>1. /\ holder'[t] = w /\ tokenURI'[t] = u /\ w # NoOne
      /\ \A x \in Token \ {t} : holder'[x] = holder[x] /\ tokenURI'[x] = tokenURI[x]
  BY ConstantsAssumption DEF TypeOK
<1>2. t \notin LiveTokens
  BY DEF LiveTokens
<1>3. LiveTokens' = LiveTokens \cup {t}
  BY <1>1 DEF LiveTokens, Exists
<1>4. Pointers' = [Pointers EXCEPT ![t] = u]
  BY <1>1 DEF Pointers, Exists
<1> QED
  BY <1>2, <1>3, <1>4 DEF Register!Mints

(* What a call asked for. *)
LEMMA AskedOf ==
    ASSUME NEW w \in Wallet
    PROVE  LET c == inflight[w]
               r == Requests[w]
           IN
           /\ c.op = "publish" =>
                 /\ r.op = "publish" /\ r.token = c.token /\ r.uri = c.uri
                 /\ r.list = c.list /\ r.for = BuiltFor(c.root)
           /\ c.op = "updateURI" =>
                 /\ r.op = "point" /\ r.token = c.token /\ r.uri = c.uri
                 /\ r.scope = c.scope /\ r.life = c.life /\ r.seen = c.seen
           /\ c.op = "updateEditors" =>
                 /\ r.op = "replace" /\ r.token = c.token
                 /\ r.list = c.list /\ r.for = BuiltFor(c.root)
                 /\ r.life = c.life /\ r.seen = c.seen
           /\ c.op = "burn" =>
                 /\ r.op = "burn" /\ r.token = c.token
                 /\ r.life = c.life /\ r.seen = c.seen
<1>1. Requests[w] = Asked(inflight[w])
  BY DEF Requests
<1> QED
  BY <1>1 DEF Asked

LEMMA PublishAssetPublishes ==
    ASSUME IInv, CallsAreBuilt, NEW w \in Wallet, PublishAsset(w)
    PROVE  Register!Publish(w)
<1> DEFINE c == inflight[w]
           r == Requests[w]
<1>1. c \in PublishCall /\ c.op = "publish"
  BY CallFields DEF IInv, PublishAsset, CanPublish
<1>2. c.token \in Token /\ c.list \in EditorList
  BY <1>1 DEF PublishCall
<1>3. PICK v \in TreeVersion : c.root = Commit(c.list, c.token, v)
  BY <1>1 DEF CallsAreBuilt
<1>4. r.op = "publish" /\ r.token = c.token /\ r.uri = c.uri /\ r.list = c.list
      /\ r.for = BuiltFor(c.root)
  BY <1>1, AskedOf
<1>5. ~Exists(c.token) /\ c.list # {}
  BY <1>3 DEF PublishAsset, CanPublish, ZeroRoot, Commit
<1>6. Register!Mints(c.token, c.uri)
  BY <1>2, <1>5, MintedIsMinted DEF PublishAsset, IInv
<1>7. Register!Puts(c.token, c.list, 1, BuiltFor(Commit(c.list, c.token, v)))
  BY <1>2, <1>3, StoredIsPut DEF PublishAsset, IInv
<1>8. Register!Answered(w)
  BY MinedIsAnswered DEF PublishAsset, IInv
<1> QED
  BY <1>3, <1>4, <1>5, <1>6, <1>7, <1>8 DEF Register!Publish

(* A call the contract accepts is a request the register allows: its leaf    *)
(* verifies, so the grant is in force, and it is not stale.                  *)
LEMMA AcceptedIsAllowed ==
    ASSUME IInv, NEW w \in Wallet, NEW s \in Scope,
           Accepted(w), Proving(w),
           IsEditor(w, "Editor", inflight[w].token, s, inflight[w].proof)
    PROVE  Register!Allowed(w, s)
<1> DEFINE c == inflight[w]
           r == Requests[w]
<1>1. c.token \in Token
  BY CallFields DEF IInv, Proving, ProvingOps, UpdateURICall, UpdateEditorsCall, BurnCall
<1>2. r.token = c.token /\ r.life = c.life /\ r.seen = c.seen
  BY AskedOf DEF Proving, ProvingOps
<1>3. c.token \in LiveTokens
  BY <1>1 DEF IInv, UnmintedHasNoEditorSet, IsEditor, ZeroRoot, LiveTokens
<1>4. [who |-> w, role |-> "Editor", scope |-> s] \in GrantsInForce[c.token]
  BY <1>1, VerifiedIsGranted
<1>5. c.life = lives[c.token] => c.seen = editorSetVersion[c.token]
  BY IInvImpliesStaleProofsAreDead DEF StaleProofsAreDead, SameLife, SameSet
<1> QED
  BY <1>2, <1>3, <1>4, <1>5 DEF Register!Allowed

LEMMA UpdateAssetURIPoints ==
    ASSUME IInv, NEW w \in Wallet, UpdateAssetURI(w)
    PROVE  Register!Point(w)
<1> DEFINE c == inflight[w]
           r == Requests[w]
<1>1. c \in UpdateURICall /\ c.op = "updateURI"
  BY CallFields DEF IInv, UpdateAssetURI, CanUpdateURI
<1>2. c.token \in Token /\ c.scope \in Scope /\ Proving(w) /\ Accepted(w)
  BY <1>1 DEF UpdateURICall, Proving, ProvingOps, Accepted, UpdateAssetURI
<1>3. r.op = "point" /\ r.token = c.token /\ r.uri = c.uri /\ r.scope = c.scope
  BY <1>1, AskedOf
<1>4. Register!Allowed(w, c.scope)
  BY <1>2, AcceptedIsAllowed DEF UpdateAssetURI, CanUpdateURI
<1>5. Exists(c.token) /\ tokenURI' = [tokenURI EXCEPT ![c.token] = c.uri]
      /\ UNCHANGED <<holder, editorRoot, editorSetVersion, editorListURI, lives>>
  BY DEF UpdateAssetURI, CanUpdateURI
<1>6. Pointers' = [Pointers EXCEPT ![c.token] = c.uri]
  <2>1. tokenURI'[c.token] = c.uri /\ \A x \in Token \ {c.token} : tokenURI'[x] = tokenURI[x]
    BY <1>2, <1>5 DEF IInv, TypeOK
  <2> QED
    BY <1>2, <1>5, <2>1 DEF Pointers, Exists
<1>7. UNCHANGED <<LiveTokens, GrantsInForce>>
  BY <1>5 DEF LiveTokens, GrantsInForce, Exists
<1>8. Register!Answered(w)
  BY MinedIsAnswered DEF UpdateAssetURI, IInv
<1> QED
  BY <1>3, <1>4, <1>5, <1>6, <1>7, <1>8 DEF Register!Point

LEMMA UpdateEditorsReplaces ==
    ASSUME IInv, CallsAreBuilt, NEW w \in Wallet, UpdateEditors(w)
    PROVE  Register!Replace(w)
<1> DEFINE c == inflight[w]
           r == Requests[w]
           n == editorSetVersion[c.token] + 1
<1>1. c \in UpdateEditorsCall /\ c.op = "updateEditors"
  BY CallFields DEF IInv, UpdateEditors, CanUpdateEditors
<1>2. c.token \in Token /\ c.list \in EditorList /\ Proving(w) /\ Accepted(w)
  BY <1>1 DEF UpdateEditorsCall, Proving, ProvingOps, Accepted, UpdateEditors
<1>3. PICK v \in TreeVersion : c.root = Commit(c.list, c.token, v)
  BY <1>1 DEF CallsAreBuilt
<1>4. r.op = "replace" /\ r.token = c.token /\ r.list = c.list /\ r.for = BuiltFor(c.root)
  BY <1>1, AskedOf
<1>5. c.list # {}
  BY <1>3 DEF UpdateEditors, CanUpdateEditors, ZeroRoot, Commit
<1>6. Register!Allowed(w, CollectionScope)
  BY <1>2, AcceptedIsAllowed DEF UpdateEditors, CanUpdateEditors, Scope
<1>7. n \in Nat
  BY <1>2 DEF IInv, TypeOK
<1>8. Register!Puts(c.token, c.list, n, BuiltFor(Commit(c.list, c.token, v)))
  <2>1. /\ editorRoot' = [editorRoot EXCEPT ![c.token] = Commit(c.list, c.token, v)]
        /\ editorSetVersion' = [editorSetVersion EXCEPT ![c.token] = n]
        /\ editorListURI' = [editorListURI EXCEPT ![c.token] = c.list]
    BY <1>3 DEF UpdateEditors
  <2> HIDE DEF n
  <2> QED
    BY <1>2, <1>7, <2>1, StoredIsPut DEF IInv
<1>9. UNCHANGED <<LiveTokens, Pointers, lives>>
  BY DEF UpdateEditors, LiveTokens, Pointers, Exists
<1>10. Register!Answered(w)
  BY MinedIsAnswered DEF UpdateEditors, IInv
<1> QED
  BY <1>3, <1>4, <1>5, <1>6, <1>8, <1>9, <1>10 DEF Register!Replace

LEMMA BurnBurns ==
    ASSUME IInv, NEW w \in Wallet, Burn(w)
    PROVE  Register!Burn(w)
<1> DEFINE c == inflight[w]
           r == Requests[w]
           t == c.token
<1>1. c \in BurnCall /\ c.op = "burn"
  BY CallFields DEF IInv, Burn, CanBurn
<1>2. t \in Token /\ Proving(w) /\ Accepted(w)
  BY <1>1 DEF BurnCall, Proving, ProvingOps, Accepted, Burn
<1>3. r.op = "burn" /\ r.token = t
  BY <1>1, AskedOf
<1>4. Register!Allowed(w, CollectionScope)
  BY <1>2, AcceptedIsAllowed DEF Burn, CanBurn, Scope
<1>5. /\ holder'[t] = NoOne /\ editorRoot'[t] = {} /\ editorSetVersion'[t] = 0
      /\ \A x \in Token \ {t} : /\ holder'[x] = holder[x]
                                /\ editorRoot'[x] = editorRoot[x]
                                /\ editorSetVersion'[x] = editorSetVersion[x]
      /\ UNCHANGED <<tokenURI, lives>>
      /\ editorSetVersion' = [editorSetVersion EXCEPT ![t] = 0]
      /\ editorListURI' = [editorListURI EXCEPT ![t] = None]
  BY <1>2 DEF Burn, IInv, TypeOK, ZeroRoot
<1>6. LiveTokens' = LiveTokens \ {t}
  BY <1>5 DEF LiveTokens, Exists
<1>7. Pointers' = [Pointers EXCEPT ![t] = None]
  BY <1>2, <1>5 DEF Pointers, Exists
<1>8. GrantsInForce' = [GrantsInForce EXCEPT ![t] = {}]
  <2> DEFINE now(x) == GrantsIn(editorRoot'[x], x, editorSetVersion'[x])
             was(x) == GrantsIn(editorRoot[x], x, editorSetVersion[x])
  <2>1. GrantsInForce' = [x \in Token |-> now(x)] /\ GrantsInForce = [x \in Token |-> was(x)]
    BY DEF GrantsInForce
  <2>2. now(t) = {}
    BY <1>5 DEF GrantsIn
  <2>3. \A x \in Token \ {t} : now(x) = was(x)
    BY <1>5
  <2> HIDE DEF now, was
  <2> QED
    BY <2>1, <2>2, <2>3
<1>9. Register!Answered(w)
  BY MinedIsAnswered DEF Burn, IInv
<1> QED
  BY <1>3, <1>4, <1>5, <1>6, <1>7, <1>8, <1>9 DEF Register!Burn

LEMMA RefusalRefuses ==
    ASSUME IInv, NEW w \in Wallet, Revert(w) \/ Drop(w)
    PROVE  Register!Refuse(w)
<1>1. Mined(w) /\ UNCHANGED chain
  BY DEF Revert, Drop
<1>2. UNCHANGED <<LiveTokens, Pointers, GrantsInForce, lives, editorSetVersion, editorListURI>>
  BY <1>1 DEF chain, LiveTokens, Pointers, GrantsInForce, Exists
<1> QED
  BY <1>1, <1>2, MinedIsAnswered DEF Register!Refuse, IInv

LEMMA MigrationMigrates ==
    ASSUME IInv, NEW t \in Token, MigrateAsset(t)
    PROVE  Register!Migrate(t)
<1>1. PICK w \in Wallet, u \in URI, l \in EditorList, v, n \in TreeVersion :
          /\ holder' = [holder EXCEPT ![t] = w]
          /\ tokenURI' = [tokenURI EXCEPT ![t] = u]
          /\ editorRoot' = [editorRoot EXCEPT ![t] = Commit(l, t, v)]
          /\ editorSetVersion' = [editorSetVersion EXCEPT ![t] = n]
          /\ editorListURI' = [editorListURI EXCEPT ![t] = l]
  BY DEF MigrateAsset, Remint
<1>2. Register!Mints(t, u)
  BY <1>1, MintedIsMinted DEF MigrateAsset, Remint, IInv
<1>3. n \in Nat
  BY ConstantsAssumption
<1>4. Register!Puts(t, l, n, BuiltFor(Commit(l, t, v)))
  BY <1>1, <1>3, StoredIsPut DEF IInv
<1>5. BuiltFor(Commit(l, t, v)) \in TreeVersion
  BY <1>3, GrantsOfABuiltTree
<1>6. Requests' = Requests
  BY DEF Requests, MigrateAsset, Remint
<1> QED
  BY <1>2, <1>4, <1>5, <1>6 DEF Register!Migrate

RegisterVars == <<LiveTokens, lives, Pointers, editorSetVersion, editorListURI,
                  GrantsInForce, Requests>>

(* Holders and the end of the migration are not part of the promise.         *)
LEMMA UnseenStep ==
    ASSUME IInv, FinalizeMigration \/ (\E t \in Token : Transfer(t)) \/ UNCHANGED vars
    PROVE  UNCHANGED RegisterVars
<1>1. UNCHANGED <<tokenURI, editorRoot, editorSetVersion, editorListURI, inflight, lives>>
  BY DEF FinalizeMigration, Transfer, vars
<1>2. \A x \in Token : (holder'[x] # NoOne) <=> (holder[x] # NoOne)
  <2>1. CASE holder' = holder
    BY <2>1
  <2>2. ASSUME NEW t \in Token, Transfer(t)
        PROVE  \A x \in Token : (holder'[x] # NoOne) <=> (holder[x] # NoOne)
    BY <2>2, ConstantsAssumption DEF Transfer, Exists, IInv, TypeOK
  <2> QED
    BY <2>1, <2>2 DEF FinalizeMigration, vars
<1>3. UNCHANGED <<LiveTokens, Pointers>>
  BY <1>1, <1>2 DEF LiveTokens, Pointers, Exists
<1>4. UNCHANGED <<GrantsInForce, Requests>>
  BY <1>1 DEF GrantsInForce, Requests
<1> QED
  BY <1>1, <1>3, <1>4 DEF RegisterVars

LEMMA RegisterStep ==
    ASSUME IInv, CallsAreBuilt, [Next]_vars
    PROVE  [Register!Next]_RegisterVars
<1>1. ASSUME NEW w \in Wallet, Mine(w) \/ Drop(w) PROVE Register!Next
  <2>1. \/ Register!Publish(w) \/ Register!Point(w) \/ Register!Replace(w)
        \/ Register!Burn(w) \/ Register!Refuse(w)
    BY <1>1, PublishAssetPublishes, UpdateAssetURIPoints, UpdateEditorsReplaces,
       BurnBurns, RefusalRefuses DEF Mine
  <2> QED
    BY <2>1 DEF Register!Next
<1>2. ASSUME NEW w \in Wallet, NEW t \in Token,
             \/ SignPublish(w, t)   \/ SignUpdateURI(w, t)
             \/ SignUpdateEditors(w, t) \/ SignBurn(w, t)
      PROVE  Register!Next
  BY <1>2, SigningIsAsking DEF IInv
<1>3. ASSUME NEW t \in Token, MigrateAsset(t) PROVE Register!Next
  BY <1>3, MigrationMigrates DEF Register!Next
<1>4. CASE FinalizeMigration \/ (\E t \in Token : Transfer(t)) \/ UNCHANGED vars
  BY <1>4, UnseenStep
<1> QED
  BY <1>1, <1>2, <1>3, <1>4 DEF Next, Registry

LEMMA InitRegister == Init => Register!Init
<1> SUFFICES ASSUME Init PROVE Register!Init
  OBVIOUS
<1>1. LiveTokens = {}
  BY DEF Init, LiveTokens, Exists
<1>2. Pointers = [t \in Token |-> None]
  BY DEF Init, Pointers, Exists
<1>3. GrantsInForce = [t \in Token |-> {}]
  BY DEF Init, GrantsInForce, GrantsIn, ZeroRoot
<1>4. Requests = [w \in Wallet |-> Register!NoRequest]
  BY DEF Init, Requests, Asked, NoCall, Register!NoRequest
<1> QED
  BY <1>1, <1>2, <1>3, <1>4 DEF Init, Register!Init

(* The contract implements the list with a version: _requireEditor,          *)
(* updateEditors, updateAssetURI, publishAsset, burn and the migration of    *)
(* ArbeskAssetBase.sol, for any wallets, tokens, lists and trees.            *)
THEOREM RegistryRefinesRegister == Spec => ImplementsRegister
<1>1. Init => Register!Init
  BY InitRegister
<1>2. IInv /\ CallsAreBuilt /\ [Next]_vars => [Register!Next]_RegisterVars
  BY RegisterStep
<1> QED
  BY <1>1, <1>2, Inductive, BuiltInvariant, PTL
  DEF Spec, ImplementsRegister, Register!Spec, RegisterVars, Register!vars

------------------------------------------------------------------------------
(* The clients of the registry. *)

Change == {"add", "remove", "role"}
Edit == {"republish", "delete", "burn"}

(* What a call in flight was built from: a first list is the tree of version *)
(* 1; the two trees of a change are those of the list read and of the next   *)
(* one, a version apart.                                                     *)
Built(w) ==
    LET c == inflight[w] IN
    /\ c.op = "publish" => c.root = Commit(c.list, c.token, 1)
    /\ c.op = "updateEditors" =>
          /\ draft[w].op \in Change
          /\ draft[w].token = c.token
          /\ \E v \in Nat : /\ c.proof = Commit(draft[w].list, c.token, v)
                            /\ c.root = Commit(c.list, c.token, v + 1)

(* A token that exists has a list and its root, any other has no root.       *)
Committed(t) ==
    /\ Exists(t) => /\ editorListURI[t] \in EditorList
                    /\ editorRoot[t] = Commit(editorListURI[t], t, editorSetVersion[t])
    /\ ~Exists(t) => editorRoot[t] = ZeroRoot

TeamInv ==
    /\ TeamTypeOK
    /\ \A t \in Token : Committed(t)
    /\ \A w \in Wallet : Built(w)

------------------------------------------------------------------------------
(* LISTS AND TREES *)

LEMMA ListsAreGrants == ASSUME NEW list \in TeamList PROVE list \in SUBSET Grant
  BY ConstantsAssumption, ListsAssumption

LEMMA TreesAreLeaves ==
    ASSUME NEW list \in TeamList, NEW t \in Token, NEW v \in Nat
    PROVE  Commit(list, t, v) \in SUBSET Leaf
<1>1. \A g \in list : g.who \in Wallet /\ g.role \in Role /\ g.scope \in Scope
  BY ListsAreGrants DEF Grant
<1> QED
  BY <1>1 DEF Commit, LeafOf, Leaf

(* A leaf of a tree names the version the tree was built for.                *)
LEMMA LeavesNameTheVersion ==
    ASSUME NEW list, NEW t, NEW v, NEW leaf \in Commit(list, t, v)
    PROVE  leaf.version = v
  BY DEF Commit, LeafOf

(* A tree determines its list.                                               *)
LEMMA TreesDetermineLists ==
    ASSUME NEW a \in SUBSET Grant, NEW b \in SUBSET Grant, NEW t, NEW v,
           Commit(a, t, v) = Commit(b, t, v)
    PROVE  a = b
<1>1. ASSUME NEW x \in SUBSET Grant, NEW y \in SUBSET Grant,
             Commit(x, t, v) = Commit(y, t, v)
      PROVE  x \subseteq y
  <2> SUFFICES ASSUME NEW g \in x PROVE g \in y
    OBVIOUS
  <2>1. PICK h \in y : LeafOf(g.who, g.role, t, g.scope, v) = LeafOf(h.who, h.role, t, h.scope, v)
    BY <1>1 DEF Commit
  <2>2. g.who = h.who /\ g.role = h.role /\ g.scope = h.scope
    BY <2>1 DEF LeafOf
  <2>3. g \in Grant /\ h \in Grant
    OBVIOUS
  <2>4. g = h
    BY <2>2, <2>3 DEF Grant
  <2> QED
    BY <2>4
<1> QED
  BY <1>1

LEMMA OneMember == ASSUME NEW w \in Wallet PROVE {Editing(w, "Editor")} \in TeamList
<1> DEFINE role == [x \in Wallet |-> "Editor"]
<1>1. role \in [Wallet -> TeamRole] /\ {w} \in SUBSET Wallet
  BY DEF TeamRole
<1>2. {Editing(w, "Editor")} = {Editing(x, role[x]) : x \in {w}}
  OBVIOUS
<1> HIDE DEF role
<1>3. \E team \in SUBSET Wallet, r \in [Wallet -> TeamRole] :
          {Editing(w, "Editor")} = {Editing(x, r[x]) : x \in team}
  BY <1>1, <1>2
<1> QED
  BY <1>3 DEF TeamList

LEMMA RolesAreRoles ==
    ASSUME NEW list \in TeamList, NEW w \in Members(list)
    PROVE  RoleIn(list, w) \in Role
<1>1. PICK g \in list : g.who = w
  BY DEF Members
<1>2. (CHOOSE h \in list : h.who = w) \in list
  BY <1>1
<1> QED
  BY <1>2, ListsAreGrants DEF RoleIn, Grant

LEMMA VersionReadsAreVersions ==
    ASSUME TypeOK, NEW t \in Token PROVE VersionReads(t) \subseteq Nat
  BY DEF TypeOK, VersionReads

------------------------------------------------------------------------------
(* TYPES *)

(* A client's call that is signed leaves the chain alone.                    *)
LEMMA SignsTyped ==
    ASSUME TypeOK, NEW w \in Wallet, NEW call \in Call, Signs(w, call)
    PROVE  TypeOK'
  BY DEF Signs, TypeOK, chain

LEMMA ChangeCallTyped ==
    ASSUME TypeOK, NEW w \in Wallet, NEW d \in Draft, d.op \in Change,
           w \in Members(d.list), NEW v \in Nat
    PROVE  ChangeCall(w, d, v) \in Call
<1>1. d.token \in Token /\ d.list \in TeamList /\ d.next \in TeamList
  BY DEF Draft, Change
<1>2. /\ Commit(d.list, d.token, v) \in SUBSET Leaf
      /\ Commit(d.next, d.token, v + 1) \in SUBSET Leaf
  BY <1>1, TreesAreLeaves
<1>3. RoleIn(d.list, w) \in Role
  BY <1>1, RolesAreRoles
<1>4. lives[d.token] \in Nat /\ editorSetVersion[d.token] \in Nat
  BY <1>1 DEF TypeOK
<1> QED
  BY <1>1, <1>2, <1>3, <1>4, ListsAssumption DEF ChangeCall, Call, UpdateEditorsCall

LEMMA ProofTreesAreLeaves ==
    ASSUME TypeOK, NEW w \in Wallet, NEW d \in Draft, d.op \in Edit
    PROVE  ProofTrees(w, d) \subseteq SUBSET Leaf
<1>1. d.token \in Token /\ d.list \in TeamList /\ d.version \in Nat
  BY DEF Draft, Edit
<1> DEFINE Versions == VersionReads(d.token)
                       \cup (IF d.op = "republish" THEN {d.version} ELSE {})
<1>2. Versions \subseteq Nat
  BY <1>1, VersionReadsAreVersions
<1>3. \A v \in Versions : Commit(d.list, d.token, v) \in SUBSET Leaf
  BY <1>1, <1>2, TreesAreLeaves
<1>4. \A v \in Versions : OwnerTrees(w, d.token, v) \subseteq SUBSET Leaf
  BY <1>1, <1>2, OneMember, TreesAreLeaves DEF OwnerTrees
<1> HIDE DEF Versions
<1>5. ProofTrees(w, d) =
          {Commit(d.list, d.token, v) : v \in IF w \in Members(d.list) THEN Versions ELSE {}}
          \cup UNION {OwnerTrees(w, d.token, v) :
                          v \in IF d.op = "republish" THEN Versions ELSE {}}
  BY DEF ProofTrees, Versions
<1>6. ASSUME NEW tree \in ProofTrees(w, d) PROVE tree \in SUBSET Leaf
  <2>1. \/ \E v \in Versions : tree = Commit(d.list, d.token, v)
        \/ \E v \in Versions : tree \in OwnerTrees(w, d.token, v)
    BY <1>5, <1>6
  <2> QED
    BY <1>3, <1>4, <2>1
<1> QED
  BY <1>6

LEMMA LoadsTyped ==
    ASSUME TeamTypeOK, NEW w \in Wallet, NEW t \in Token, NEW list \in TeamList,
           Loads(w, t, list)
    PROVE  cache' \in [Wallet -> [Token -> TeamList \cup {None}]]
  BY DEF TeamTypeOK, Loads

LEMMA InitInv == TeamInit => TeamInv
<1> SUFFICES ASSUME TeamInit PROVE TeamInv
  OBVIOUS
<1>1. TypeOK
  BY InitTyped DEF TeamInit
<1>2. TeamTypeOK
  BY <1>1 DEF TeamInit, TeamTypeOK
<1>3. \A t \in Token : Committed(t)
  BY DEF TeamInit, Init, Committed, Exists
<1>4. \A w \in Wallet : Built(w)
  BY DEF TeamInit, Init, Built, NoCall
<1> QED
  BY <1>2, <1>3, <1>4 DEF TeamInv

------------------------------------------------------------------------------
(* STEPS OF THE CLIENTS *)

(* Reading, and giving up: the chain and the calls stay, one client that has *)
(* no call in flight has another draft.                                      *)
LEMMA DraftStep ==
    ASSUME TeamInv, UNCHANGED vars, NEW w \in Wallet, inflight[w] = NoCall,
           NEW d \in Draft \cup {NoDraft}, draft' = [draft EXCEPT ![w] = d],
           cache' \in [Wallet -> [Token -> TeamList \cup {None}]]
    PROVE  TeamInv'
<1>1. TeamTypeOK'
  BY DEF TeamInv, TeamTypeOK, TypeOK, vars
<1>2. \A t \in Token : Committed(t)'
  BY DEF TeamInv, Committed, Exists, vars
<1>3. \A x \in Wallet : Built(x)'
  <2> SUFFICES ASSUME NEW x \in Wallet PROVE Built(x)'
    OBVIOUS
  <2>1. CASE x = w
    BY <2>1 DEF Built, NoCall, vars
  <2>2. CASE x # w
    BY <2>2 DEF TeamInv, TeamTypeOK, Built, vars
  <2> QED
    BY <2>1, <2>2
<1> QED
  BY <1>1, <1>2, <1>3 DEF TeamInv

(* Signing: the chain and the drafts stay.                                   *)
LEMMA SignStep ==
    ASSUME TeamInv, NEW w \in Wallet, NEW call \in Call, Signs(w, call),
           UNCHANGED draft,
           cache' \in [Wallet -> [Token -> TeamList \cup {None}]],
           call.op = "publish" => call.root = Commit(call.list, call.token, 1),
           call.op = "updateEditors" =>
               /\ draft[w].op \in Change
               /\ draft[w].token = call.token
               /\ \E v \in Nat : /\ call.proof = Commit(draft[w].list, call.token, v)
                                 /\ call.root = Commit(call.list, call.token, v + 1)
    PROVE  TeamInv'
<1>1. TypeOK'
  BY SignsTyped DEF TeamInv, TeamTypeOK
<1>2. TeamTypeOK'
  BY <1>1 DEF TeamInv, TeamTypeOK
<1>3. \A t \in Token : Committed(t)'
  BY DEF TeamInv, Committed, Exists, Signs, chain
<1>4. \A x \in Wallet : Built(x)'
  <2> SUFFICES ASSUME NEW x \in Wallet PROVE Built(x)'
    OBVIOUS
  <2>1. CASE x = w
    <3>1. inflight'[x] = call
      BY <2>1 DEF TeamInv, TeamTypeOK, TypeOK, Signs
    <3> QED
      BY <2>1, <3>1 DEF Built
  <2>2. CASE x # w
    <3>1. inflight'[x] = inflight[x]
      BY <2>2 DEF TeamInv, TeamTypeOK, TypeOK, Signs
    <3> QED
      BY <3>1 DEF TeamInv, Built
  <2> QED
    BY <2>1, <2>2
<1> QED
  BY <1>2, <1>3, <1>4 DEF TeamInv

LEMMA ChangeTeamInv ==
    ASSUME TeamInv, NEW w \in Wallet, NEW t \in Token, ChangeTeam(w, t)
    PROVE  TeamInv'
<1>1. PICK list \in TeamList, next \in TeamList, op \in Change :
          /\ Loads(w, t, list)
          /\ draft' = [draft EXCEPT ![w] =
                [op |-> op, token |-> t, list |-> list, next |-> next]]
  BY DEF ChangeTeam, Change
<1>2. [op |-> op, token |-> t, list |-> list, next |-> next] \in Draft
  BY DEF Draft, Change
<1>3. inflight[w] = NoCall /\ UNCHANGED vars
  BY DEF ChangeTeam, Idle
<1>4. cache' \in [Wallet -> [Token -> TeamList \cup {None}]]
  BY <1>1, LoadsTyped DEF TeamInv
<1> QED
  BY <1>1, <1>2, <1>3, <1>4, DraftStep

LEMMA StartEditInv ==
    ASSUME TeamInv, NEW w \in Wallet, NEW t \in Token, StartEdit(w, t)
    PROVE  TeamInv'
<1>1. PICK list \in TeamList, op \in Edit, v \in VersionReads(t) :
          /\ Loads(w, t, list)
          /\ draft' = [draft EXCEPT ![w] =
                [op |-> op, token |-> t,
                 list |-> IF list = {} /\ op # "republish"
                          THEN {Editing(w, "Editor")} ELSE list,
                 version |-> IF op = "republish" THEN v ELSE 0]]
  BY DEF StartEdit, Edit
<1>2. v \in Nat
  BY VersionReadsAreVersions DEF TeamInv, TeamTypeOK
<1> DEFINE l == IF list = {} /\ op # "republish" THEN {Editing(w, "Editor")} ELSE list
           n == IF op = "republish" THEN v ELSE 0
<1>3. l \in TeamList /\ n \in Nat
  BY <1>2, OneMember
<1>4. draft' = [draft EXCEPT ![w] = [op |-> op, token |-> t, list |-> l, version |-> n]]
  BY <1>1
<1> HIDE DEF l, n
<1>5. [op |-> op, token |-> t, list |-> l, version |-> n] \in Draft
  BY <1>3 DEF Draft, Edit
<1>6. inflight[w] = NoCall /\ UNCHANGED vars
  BY DEF StartEdit, Idle
<1>7. cache' \in [Wallet -> [Token -> TeamList \cup {None}]]
  BY <1>1, LoadsTyped DEF TeamInv
<1> QED
  BY <1>4, <1>5, <1>6, <1>7, DraftStep

LEMMA AbandonInv ==
    ASSUME TeamInv, NEW w \in Wallet, Abandon(w)
    PROVE  TeamInv'
<1>1. cache' \in [Wallet -> [Token -> TeamList \cup {None}]]
  BY DEF Abandon, TeamInv, TeamTypeOK
<1> QED
  BY <1>1, DraftStep DEF Abandon

LEMMA SubmitChangeInv ==
    ASSUME TeamInv, NEW w \in Wallet, SubmitChange(w)
    PROVE  TeamInv'
<1> DEFINE d == draft[w]
<1>1. d \in Draft /\ d.op \in Change /\ w \in Members(d.list)
  BY DEF SubmitChange, TeamInv, TeamTypeOK, Change, NoDraft
<1>2. d.token \in Token /\ d.next \in TeamList /\ TypeOK
  BY <1>1 DEF Draft, Change, TeamInv, TeamTypeOK
<1>3. PICK v \in VersionReads(d.token) : Signs(w, ChangeCall(w, d, v))
  BY DEF SubmitChange
<1>4. v \in Nat
  BY <1>2, VersionReadsAreVersions
<1>5. ChangeCall(w, d, v) \in Call
  BY <1>1, <1>2, <1>4, ChangeCallTyped
<1>6. cache' \in [Wallet -> [Token -> TeamList \cup {None}]]
  BY <1>2 DEF SubmitChange, TeamInv, TeamTypeOK
<1>7. UNCHANGED draft
  BY DEF SubmitChange
<1>8. /\ ChangeCall(w, d, v).op = "updateEditors" /\ ChangeCall(w, d, v).token = d.token
      /\ ChangeCall(w, d, v).proof = Commit(d.list, d.token, v)
      /\ ChangeCall(w, d, v).root = Commit(ChangeCall(w, d, v).list, d.token, v + 1)
  BY DEF ChangeCall
<1> QED
  BY <1>1, <1>3, <1>4, <1>5, <1>6, <1>7, <1>8, SignStep

LEMMA SubmitEditInv ==
    ASSUME TeamInv, NEW w \in Wallet, SubmitEdit(w)
    PROVE  TeamInv'
<1> DEFINE d == draft[w]
<1>1. d \in Draft /\ d.op \in Edit
  BY DEF SubmitEdit, TeamInv, TeamTypeOK, Edit, NoDraft
<1>2. d.token \in Token /\ TypeOK
  BY <1>1 DEF Draft, Edit, TeamInv, TeamTypeOK
<1> DEFINE burn(tree) == [op |-> "burn", token |-> d.token, proof |-> tree,
                          life |-> lives[d.token], seen |-> editorSetVersion[d.token]]
           update(tree, u) == [op |-> "updateURI", token |-> d.token, uri |-> u,
                               scope |-> CollectionScope, proof |-> tree,
                               life |-> lives[d.token], seen |-> editorSetVersion[d.token]]
<1>3. PICK u \in URI, tree \in ProofTrees(w, d) :
          Signs(w, burn(tree)) \/ Signs(w, update(tree, u))
  BY DEF SubmitEdit
<1>4. tree \in SUBSET Leaf
  BY <1>1, <1>2, ProofTreesAreLeaves
<1>5. lives[d.token] \in Nat /\ editorSetVersion[d.token] \in Nat
  BY <1>2 DEF TypeOK
<1>6. burn(tree) \in Call
  BY <1>2, <1>4, <1>5 DEF Call, BurnCall
<1>7. update(tree, u) \in Call
  BY <1>2, <1>4, <1>5 DEF Call, UpdateURICall, Scope
<1>8. burn(tree).op = "burn" /\ update(tree, u).op = "updateURI"
  OBVIOUS
<1>9. UNCHANGED draft /\ cache' \in [Wallet -> [Token -> TeamList \cup {None}]]
  BY DEF SubmitEdit, TeamInv, TeamTypeOK
<1> HIDE DEF burn, update
<1> QED
  BY <1>3, <1>6, <1>7, <1>8, <1>9, SignStep

LEMMA SubmitPublishInv ==
    ASSUME TeamInv, NEW w \in Wallet, NEW t \in Token, SubmitPublish(w, t)
    PROVE  TeamInv'
<1> DEFINE list == {Editing(w, "Editor")}
<1>1. list \in TeamList
  BY OneMember
<1>2. PICK u \in URI : Signs(w, PublishCallFor(t, u, list))
  BY DEF SubmitPublish
<1>3. UNCHANGED draft /\ cache' \in [Wallet -> [Token -> TeamList \cup {None}]]
  BY <1>1 DEF SubmitPublish, TeamInv, TeamTypeOK
<1> HIDE DEF list
<1>4. Commit(list, t, 1) \in SUBSET Leaf
  BY <1>1, TreesAreLeaves
<1>5. PublishCallFor(t, u, list) \in Call
  BY <1>1, <1>4, ListsAssumption DEF PublishCallFor, Call, PublishCall
<1>6. /\ PublishCallFor(t, u, list).op = "publish"
      /\ PublishCallFor(t, u, list).root =
             Commit(PublishCallFor(t, u, list).list, PublishCallFor(t, u, list).token, 1)
  BY DEF PublishCallFor
<1> QED
  BY <1>2, <1>3, <1>5, <1>6, SignStep

------------------------------------------------------------------------------
(* STEPS OF THE CHAIN *)

(* A change of the team that is accepted was built from the list and the     *)
(* version in force: its proof is the root, which a leaf of that version is  *)
(* in, so the root it brings is for the version it makes.                    *)
LEMMA ChangeReplacesTheListInForce ==
    ASSUME TeamInv, NEW w \in Wallet, UpdateEditors(w)
    PROVE  LET c == inflight[w] IN
           /\ c.token \in Token /\ c.list \in EditorList
           /\ draft[w].list = editorListURI[c.token]
           /\ c.root = Commit(c.list, c.token, editorSetVersion[c.token] + 1)
<1> DEFINE c == inflight[w]
           t == c.token
<1>1. c.op = "updateEditors" /\ IsEditor(w, c.role, t, CollectionScope, c.proof)
  BY DEF UpdateEditors, CanUpdateEditors
<1>2. c \in UpdateEditorsCall
  BY <1>1, CallFields DEF TeamInv, TeamTypeOK
<1>3. t \in Token /\ c.list \in EditorList
  BY <1>2 DEF UpdateEditorsCall
<1>4. PICK v \in Nat : /\ c.proof = Commit(draft[w].list, t, v)
                       /\ c.root = Commit(c.list, t, v + 1)
  BY <1>1 DEF TeamInv, Built
<1>5. draft[w] \in Draft /\ draft[w].op \in Change
  <2>1. draft[w].op \in Change
    BY <1>1 DEF TeamInv, Built
  <2> QED
    BY <2>1 DEF TeamInv, TeamTypeOK, Change, NoDraft
<1>6. draft[w].list \in SUBSET Grant
  <2>1. draft[w].list \in TeamList
    BY <1>5 DEF Draft, Change
  <2> QED
    BY <2>1, ListsAreGrants
<1> HIDE DEF t
<1>7. LeafOf(w, c.role, t, CollectionScope, editorSetVersion[t]) \in Commit(draft[w].list, t, v)
  BY <1>1, <1>4 DEF IsEditor
<1>8. v = editorSetVersion[t]
  <2>1. LeafOf(w, c.role, t, CollectionScope, editorSetVersion[t]).version = v
    BY <1>7, LeavesNameTheVersion
  <2> QED
    BY <2>1 DEF LeafOf
<1>9. Committed(t)
  BY <1>3 DEF TeamInv
<1>10. c.proof = editorRoot[t] /\ editorRoot[t] # ZeroRoot
  BY <1>1, <1>4, <1>7 DEF IsEditor, ZeroRoot
<1>11. /\ editorListURI[t] \in SUBSET Grant
       /\ Commit(editorListURI[t], t, v) = Commit(draft[w].list, t, v)
  BY <1>4, <1>8, <1>9, <1>10, ConstantsAssumption DEF Committed
<1>12. draft[w].list = editorListURI[t]
  BY <1>6, <1>11, TreesDetermineLists
<1> QED
  BY <1>3, <1>4, <1>8, <1>12 DEF t

LEMMA ReceiptInv ==
    ASSUME TeamInv, NEW w \in Wallet, Receipt(w)
    PROVE  TeamInv'
<1>1. TypeOK'
  BY TypeStep DEF Receipt, Next, TeamInv, TeamTypeOK
<1>2. TeamTypeOK'
  BY <1>1 DEF Receipt, TeamInv, TeamTypeOK
<1>3. inflight' = [inflight EXCEPT ![w] = NoCall] /\ draft' = [draft EXCEPT ![w] = NoDraft]
  BY DEF Receipt, Mine, Drop, PublishAsset, UpdateAssetURI, UpdateEditors, Burn, Revert, Mined
<1>4. \A x \in Wallet : Built(x)'
  <2> SUFFICES ASSUME NEW x \in Wallet PROVE Built(x)'
    OBVIOUS
  <2>1. CASE x = w
    BY <1>3, <2>1 DEF TeamInv, TeamTypeOK, TypeOK, Built, NoCall
  <2>2. CASE x # w
    BY <1>3, <2>2 DEF TeamInv, TeamTypeOK, TypeOK, Built
  <2> QED
    BY <2>1, <2>2
<1>5. \A t \in Token : Committed(t)'
  <2> DEFINE c == inflight[w]
  <2>1. CASE PublishAsset(w)
    <3>1. c \in PublishCall /\ c.op = "publish"
      BY <2>1, CallFields DEF PublishAsset, CanPublish, TeamInv, TeamTypeOK
    <3>2. c.token \in Token /\ c.list \in EditorList /\ c.root = Commit(c.list, c.token, 1)
      BY <3>1 DEF PublishCall, TeamInv, Built
    <3>3. /\ holder'[c.token] = w /\ editorRoot'[c.token] = c.root
          /\ editorSetVersion'[c.token] = 1 /\ editorListURI'[c.token] = c.list
          /\ \A t \in Token \ {c.token} :
                 /\ holder'[t] = holder[t] /\ editorRoot'[t] = editorRoot[t]
                 /\ editorSetVersion'[t] = editorSetVersion[t]
                 /\ editorListURI'[t] = editorListURI[t]
      BY <2>1, <3>2 DEF PublishAsset, TeamInv, TeamTypeOK, TypeOK
    <3>4. w # NoOne
      BY ConstantsAssumption
    <3> HIDE DEF c
    <3> QED
      BY <3>2, <3>3, <3>4 DEF TeamInv, Committed, Exists
  <2>2. CASE UpdateEditors(w)
    <3>1. /\ c.token \in Token /\ c.list \in EditorList
          /\ c.root = Commit(c.list, c.token, editorSetVersion[c.token] + 1)
      BY <2>2, ChangeReplacesTheListInForce
    <3>2. editorRoot[c.token] # ZeroRoot
      BY <2>2 DEF UpdateEditors, CanUpdateEditors, IsEditor, ZeroRoot
    <3>3. /\ holder' = holder /\ editorRoot'[c.token] = c.root
          /\ editorSetVersion'[c.token] = editorSetVersion[c.token] + 1
          /\ editorListURI'[c.token] = c.list
          /\ \A t \in Token \ {c.token} :
                 /\ editorRoot'[t] = editorRoot[t]
                 /\ editorSetVersion'[t] = editorSetVersion[t]
                 /\ editorListURI'[t] = editorListURI[t]
      BY <2>2, <3>1 DEF UpdateEditors, TeamInv, TeamTypeOK, TypeOK
    <3> HIDE DEF c
    <3> QED
      BY <3>1, <3>2, <3>3 DEF TeamInv, Committed, Exists
  <2>3. CASE Burn(w)
    <3>1. c.token \in Token
      BY <2>3, CallFields DEF Burn, CanBurn, BurnCall, TeamInv, TeamTypeOK
    <3>2. /\ holder'[c.token] = NoOne /\ editorRoot'[c.token] = ZeroRoot
          /\ \A t \in Token \ {c.token} :
                 /\ holder'[t] = holder[t] /\ editorRoot'[t] = editorRoot[t]
                 /\ editorSetVersion'[t] = editorSetVersion[t]
                 /\ editorListURI'[t] = editorListURI[t]
      BY <2>3, <3>1 DEF Burn, TeamInv, TeamTypeOK, TypeOK
    <3> HIDE DEF c
    <3> QED
      BY <3>1, <3>2 DEF TeamInv, Committed, Exists
  <2>4. CASE UpdateAssetURI(w) \/ Revert(w) \/ Drop(w)
    <3>1. UNCHANGED <<holder, editorRoot, editorSetVersion, editorListURI>>
      BY <2>4 DEF UpdateAssetURI, Revert, Drop, chain
    <3> QED
      BY <3>1 DEF TeamInv, Committed, Exists
  <2> QED
    BY <2>1, <2>2, <2>3, <2>4 DEF Receipt, Mine
<1> QED
  BY <1>2, <1>4, <1>5 DEF TeamInv

LEMMA TransferTokenInv ==
    ASSUME TeamInv, NEW t \in Token, TransferToken(t)
    PROVE  TeamInv'
<1>1. TypeOK'
  BY TypeStep DEF TransferToken, Next, Registry, TeamInv, TeamTypeOK
<1>2. TeamTypeOK'
  BY <1>1 DEF TransferToken, TeamInv, TeamTypeOK
<1>3. /\ \A x \in Token : Exists(x)' <=> Exists(x)
      /\ UNCHANGED <<editorRoot, editorSetVersion, editorListURI, inflight, draft>>
  <2>1. PICK w \in Wallet : holder' = [holder EXCEPT ![t] = w]
    BY DEF TransferToken, Transfer
  <2>2. w # NoOne /\ holder[t] # NoOne
    BY ConstantsAssumption DEF TransferToken, Transfer, Exists
  <2> QED
    BY <2>1, <2>2 DEF TransferToken, Transfer, Exists, TeamInv, TeamTypeOK, TypeOK
<1>4. \A x \in Token : Committed(x)'
  BY <1>3 DEF TeamInv, Committed
<1>5. \A w \in Wallet : Built(w)'
  BY <1>3 DEF TeamInv, Built
<1> QED
  BY <1>2, <1>4, <1>5 DEF TeamInv

LEMMA StepInv == TeamInv /\ [TeamNext]_teamVars => TeamInv'
<1> SUFFICES ASSUME TeamInv, [TeamNext]_teamVars PROVE TeamInv'
  OBVIOUS
<1>1. ASSUME NEW w \in Wallet, SubmitChange(w) \/ SubmitEdit(w) \/ Abandon(w) \/ Receipt(w)
      PROVE  TeamInv'
  BY <1>1, SubmitChangeInv, SubmitEditInv, AbandonInv, ReceiptInv
<1>2. ASSUME NEW w \in Wallet, NEW t \in Token,
             ChangeTeam(w, t) \/ StartEdit(w, t) \/ SubmitPublish(w, t)
      PROVE  TeamInv'
  BY <1>2, ChangeTeamInv, StartEditInv, SubmitPublishInv
<1>3. ASSUME NEW t \in Token, TransferToken(t) PROVE TeamInv'
  BY <1>3, TransferTokenInv
<1>4. CASE UNCHANGED teamVars
  <2>1. TeamTypeOK'
    BY <1>4 DEF TeamInv, TeamTypeOK, TypeOK, teamVars
  <2>2. \A t \in Token : Committed(t)'
    BY <1>4 DEF TeamInv, Committed, Exists, teamVars
  <2>3. \A w \in Wallet : Built(w)'
    BY <1>4 DEF TeamInv, Built, teamVars
  <2> QED
    BY <2>1, <2>2, <2>3 DEF TeamInv
<1> QED
  BY <1>1, <1>2, <1>3, <1>4 DEF TeamNext

LEMMA TeamInvariant == TeamSpec => []TeamInv
  BY InitInv, StepInv, PTL DEF TeamSpec

------------------------------------------------------------------------------
(* THEOREMS *)

(* The chain, the caches and the drafts keep their types, whatever lists the *)
(* clients read, cached or fell back on.  team.ts, editors.ts.            *)
THEOREM TeamTyped == TeamSpec => []TeamTypeOK
<1>1. TeamInv => TeamTypeOK
  BY DEF TeamInv
<1> QED
  BY <1>1, TeamInvariant, PTL

(* For any number of clients that race with stale lists and versions, the    *)
(* root on chain is that of the list on chain at the version on chain: no    *)
(* change locks every editor out.  team.ts: _updateEditorRoot.               *)
THEOREM RootsCommitToLists == TeamSpec => []RootCommitsToList
<1>1. TeamInv => RootCommitsToList
  BY DEF TeamInv, Committed, RootCommitsToList
<1> QED
  BY <1>1, TeamInvariant, PTL

(* A change of the team that takes effect replaces the list it was computed  *)
(* from, for any number of clients: no concurrent change is undone.          *)
THEOREM TeamChangesAreNotLost == TeamSpec => NoTeamChangeIsLost
<1> DEFINE KeepsTheList ==
              \A w \in Wallet : UpdateEditors(w) =>
                  draft[w].list = editorListURI[inflight[w].token]
<1>1. TeamInv => KeepsTheList
  BY ChangeReplacesTheListInForce
<1>2. TeamInv /\ [TeamNext]_teamVars => [KeepsTheList]_teamVars
  BY <1>1
<1> QED
  BY <1>2, TeamInvariant, PTL DEF TeamSpec, NoTeamChangeIsLost

=============================================================================
