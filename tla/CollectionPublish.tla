------------------------- MODULE CollectionPublish -------------------------
(***************************************************************************)
(* How the clients change a collection (collection.ts, asset-delete.ts,    *)
(* library-ops.ts, wallet-publishing.ts) and what the backend unpins for   *)
(* them (routes/ipfs.ts).                                                  *)
(*                                                                         *)
(* A collection is an immutable document; the token's URI names the        *)
(* current one.  A writer reads the URI, merges its change into that       *)
(* document, writes a new one and asks the wallet to point the URI at it.  *)
(* Between the read and the mined call other writers do the same, reads    *)
(* fail, wallets decline.  Who may write is EditorTeam's subject.          *)
(***************************************************************************)
EXTENDS Naturals, Sequences, FiniteSets

CONSTANTS
    Tokens,         \* collection tokens
    Default,        \* the token id derived from the wallet's address
    Assets,         \* asset ids
    Writers,        \* tabs and editors
    MaxDocs,        \* bound: collection documents written
    MaxVersions     \* bound: asset manifests written

ASSUME DefaultAssumption == Default \in Tokens /\ Tokens # {Default}
ASSUME AssetsAssumption == Assets # {}
ASSUME BoundsAssumption == MaxDocs \in Nat \ {0} /\ MaxVersions \in Nat \ {0}

VARIABLES
    uri,        \* uri[t]: the document t's URI names, None when t is not minted
    docs,       \* the collection documents on IPFS, by CID
    versions,   \* the asset manifests on IPFS, by CID
    unpinned,   \* the CIDs no longer pinned: of documents and of manifests
    writer,     \* what each writer is doing
    disturbed,  \* history: publications of t that did not build on its current document
    homes,      \* history: the tokens a document was written for that lists the manifest or a later version
    burnFailed, \* history: tokens whose burn was declined after the unpinning
    cut         \* history: tokens two calls were signed for at once, or one whose predecessor was not read

vars == <<uri, docs, versions, unpinned, writer, disturbed, homes, burnFailed, cut>>

None == 0
DocIds == 1 .. MaxDocs
VersionIds == 1 .. MaxVersions
NoAssets == [a \in Assets |-> None]

Doc == [assets : [Assets -> VersionIds \cup {None}], prev : DocIds \cup {None}]
Version == [asset : Assets, prev : VersionIds \cup {None}]

Idle == [at |-> "idle"]

\* A publication whose target is known, and a change ready to be sent:
\* doc replaces the URI of token; base is what doc was merged into.
Writer ==
    {Idle}
    \cup [at : {"targeted"}, token : Tokens, mint : BOOLEAN, base : DocIds \cup {None},
          asset : Assets, version : VersionIds]
    \cup [at : {"signing"}, token : Tokens, mint : BOOLEAN, base : DocIds \cup {None}, doc : DocIds,
          removed : VersionIds \cup {None}]
    \cup [at : {"unpinning"}, token : Tokens, version : VersionIds]
    \cup [at : {"burning"}, token : Tokens]

Live == {t \in Tokens : uri[t] # None}
AssetsOf(d) == IF d = None THEN NoAssets ELSE docs[d].assets
Listed(t) == {AssetsOf(uri[t])[a] : a \in Assets} \ {None}

\* A named collection is minted and lists an asset; the others are not yet.
Init ==
    /\ \E a \in Assets :
          /\ versions = <<[asset |-> a, prev |-> None]>>
          /\ docs = <<[assets |-> [NoAssets EXCEPT ![a] = 1], prev |-> None]>>
    /\ \E minted \in Tokens \ {Default} :
          /\ uri = [t \in Tokens |-> IF t = minted THEN 1 ELSE None]
          /\ homes = [v \in VersionIds |-> IF v = 1 THEN {minted} ELSE {}]
    /\ unpinned = [docs |-> {}, versions |-> {}]
    /\ writer = [w \in Writers |-> Idle]
    /\ disturbed = [t \in Tokens |-> 0]
    /\ burnFailed = {}
    /\ cut = {}

---------------------------------------------------------------------------
(* Documents.                                                              *)

(* Mutant: what is published replaces the other entries. *)
MergedAlone(base, a, v, prev) == [assets |-> [NoAssets EXCEPT ![a] = v], prev |-> prev]

\* mergeAssetIntoCollection and applyCollectionMutation: the other entries are
\* those of the document merged into; nothing is merged into nothing.
Merged(base, a, v, prev) == [assets |-> [AssetsOf(base) EXCEPT ![a] = v], prev |-> prev]

CanWriteDoc == Len(docs) < MaxDocs
CanWriteVersion == Len(versions) < MaxVersions
NewDoc == Len(docs) + 1
NewVersion == Len(versions) + 1

\* The documents a walk of n steps along the predecessors of d meets.
Ancestors(d, n) ==
    LET walk[m \in 0 .. n] ==
          [e \in 0 .. Len(docs) |->
             IF e = None THEN {} ELSE {e} \cup (IF m = 0 THEN {} ELSE walk[m - 1][docs[e].prev])]
    IN  walk[n][d]

\* What t lists for a, and what its last n documents listed.
EverListed(t, a, n) == {docs[d].assets[a] : d \in Ancestors(uri[t], n)}

\* A manifest and its earlier versions.
VersionChain(v) ==
    LET chain[u \in 0 .. Len(versions)] ==
          IF u = None THEN {} ELSE {u} \cup chain[versions[u].prev]
    IN  chain[v]

\* From now on t may list v, and the versions it grew from.
Houses(t, v) == homes' = [u \in VersionIds |-> IF u \in VersionChain(v) THEN homes[u] \cup {t} ELSE homes[u]]

Moves(w, step) == writer' = [writer EXCEPT ![w] = step]

---------------------------------------------------------------------------
(* Publishing an asset: publishCollection.                                 *)

(* Mutant: the document is published as the asset. *)
WriteVersionOfBase(w, a, prev, token, mint, base) ==
    /\ writer[w] = Idle
    /\ CanWriteVersion
    /\ prev # None => \E t \in Live : prev \in EverListed(t, a, MaxDocs)
    /\ versions' = Append(versions, [asset |-> a, prev |-> prev])
    /\ Moves(w, [at |-> "targeted", token |-> token, mint |-> mint, base |-> base,
                 asset |-> a, version |-> base])
    /\ UNCHANGED <<uri, docs, unpinned, disturbed, homes, burnFailed, cut>>

\* The asset manifest is written, on the version the writer had open (one that
\* a living collection lists or has listed), and sent to a collection whose
\* document, base, has been read by now.
WriteVersion(w, a, prev, token, mint, base) ==
    /\ writer[w] = Idle
    /\ CanWriteVersion
    /\ prev # None => \E t \in Live : prev \in EverListed(t, a, MaxDocs)
    /\ versions' = Append(versions, [asset |-> a, prev |-> prev])
    /\ Moves(w, [at |-> "targeted", token |-> token, mint |-> mint, base |-> base,
                 asset |-> a, version |-> NewVersion])
    /\ UNCHANGED <<uri, docs, unpinned, disturbed, homes, burnFailed, cut>>

\* resolveTargetCollection: the preferred collection, selected or active, if
\* there is one and it can be read.
PublishPreferred(w, a, prev, t) ==
    /\ t \in Live
    /\ WriteVersion(w, a, prev, t, FALSE, uri[t])

\* Otherwise, or when reading it failed, the wallet's default collection: with
\* its document, or with nothing when that read fails ...
PublishDefault(w, a, prev, documentKnown) ==
    /\ Default \in Live
    /\ WriteVersion(w, a, prev, Default, FALSE, IF documentKnown THEN uri[Default] ELSE None)

\* ... or as a new token, when the owner's read fails or finds none.
PublishNew(w, a, prev) == WriteVersion(w, a, prev, Default, TRUE, None)

(* Mutant: the predecessor is the one of the document merged into. *)
WriteMergedSibling(w, prevKnown) ==
    LET p == writer[w]
        prev == IF p.mint \/ ~prevKnown \/ p.base = None THEN None ELSE docs[p.base].prev
    IN
    /\ p.at = "targeted"
    /\ CanWriteDoc
    /\ docs' = Append(docs, Merged(p.base, p.asset, p.version, prev))
    /\ Moves(w, [at |-> "signing", token |-> p.token, mint |-> p.mint, base |-> p.base,
                 doc |-> NewDoc, removed |-> None])
    /\ Houses(p.token, p.version)
    /\ cut' = IF p.mint \/ prevKnown THEN cut ELSE cut \cup {p.token}
    /\ UNCHANGED <<uri, versions, unpinned, disturbed, burnFailed>>

\* The predecessor is read only now, and is none when the read fails.
WriteMerged(w, prevKnown) ==
    LET p == writer[w]
        prev == IF p.mint \/ ~prevKnown THEN None ELSE uri[p.token]
    IN
    /\ p.at = "targeted"
    /\ CanWriteDoc
    /\ docs' = Append(docs, Merged(p.base, p.asset, p.version, prev))
    /\ Moves(w, [at |-> "signing", token |-> p.token, mint |-> p.mint, base |-> p.base,
                 doc |-> NewDoc, removed |-> None])
    /\ Houses(p.token, p.version)
    /\ cut' = IF p.mint \/ prevKnown THEN cut ELSE cut \cup {p.token}
    /\ UNCHANGED <<uri, versions, unpinned, disturbed, burnFailed>>

\* createNamedCollection: an empty collection under the id derived from the
\* wallet and the name.  When it exists and the reads that would tell fail, it
\* is minted again.
CreateNamed(w, t) ==
    /\ writer[w] = Idle
    /\ t # Default
    /\ CanWriteDoc
    /\ docs' = Append(docs, [assets |-> NoAssets, prev |-> None])
    /\ Moves(w, [at |-> "signing", token |-> t, mint |-> TRUE, base |-> None,
                 doc |-> NewDoc, removed |-> None])
    /\ UNCHANGED <<uri, versions, unpinned, disturbed, homes, burnFailed, cut>>

---------------------------------------------------------------------------
(* Changing a collection in place: updateCollectionManifest and            *)
(* deleteAssetFromCollection.  A failed read ends them.                    *)

WriteChange(w, t, a, v, removed) ==
    /\ writer[w] = Idle
    /\ t \in Live
    /\ CanWriteDoc
    /\ docs' = Append(docs, Merged(uri[t], a, v, uri[t]))
    /\ Moves(w, [at |-> "signing", token |-> t, mint |-> FALSE, base |-> uri[t],
                 doc |-> NewDoc, removed |-> removed])

\* uploadFileToCollection: a new asset manifest.
Upload(w, t, a) ==
    /\ CanWriteVersion
    /\ versions' = Append(versions, [asset |-> a, prev |-> None])
    /\ WriteChange(w, t, a, NewVersion, None)
    /\ homes' = [homes EXCEPT ![NewVersion] = {t}]
    /\ UNCHANGED <<uri, unpinned, disturbed, burnFailed, cut>>

\* sendAssetToCollection, mode "fork": the other collection's manifest.
Fork(w, source, t, a) ==
    /\ source # t
    /\ AssetsOf(uri[source])[a] # None
    /\ WriteChange(w, t, a, AssetsOf(uri[source])[a], None)
    /\ Houses(t, AssetsOf(uri[source])[a])
    /\ UNCHANGED <<uri, versions, unpinned, disturbed, burnFailed, cut>>

(* Mutant: the manifest is unpinned before the change is signed. *)
DeleteUnpinsFirst(w, t, a) ==
    /\ AssetsOf(uri[t])[a] # None
    /\ WriteChange(w, t, a, None, None)
    /\ unpinned' = [unpinned EXCEPT !.versions = @ \cup VersionChain(AssetsOf(uri[t])[a])]
    /\ UNCHANGED <<uri, versions, disturbed, homes, burnFailed, cut>>

\* deleteAssetFromCollection: the manifest is remembered for the unpinning.
Delete(w, t, a) ==
    /\ AssetsOf(uri[t])[a] # None
    /\ WriteChange(w, t, a, None, AssetsOf(uri[t])[a])
    /\ UNCHANGED <<uri, versions, unpinned, disturbed, homes, burnFailed, cut>>

---------------------------------------------------------------------------
(* The wallet and the chain: republishCollection, publishNewToken.         *)

Signs(w, t) == writer[w].at = "signing" /\ writer[w].token = t

\* The call is mined.  updateAssetURI looks only at the token; publishAsset
\* needs it not to exist.
Mine(w) ==
    LET c == writer[w] IN
    /\ c.at = "signing"
    /\ IF c.mint THEN c.token \notin Live ELSE c.token \in Live
    /\ uri' = [uri EXCEPT ![c.token] = c.doc]
    /\ disturbed' = IF c.base = uri[c.token] THEN disturbed ELSE [disturbed EXCEPT ![c.token] = @ + 1]
    /\ cut' = IF \E other \in Writers \ {w} : Signs(other, c.token) THEN cut \cup {c.token} ELSE cut
    /\ Moves(w, IF c.removed = None THEN Idle
                ELSE [at |-> "unpinning", token |-> c.token, version |-> c.removed])
    /\ UNCHANGED <<docs, versions, unpinned, homes, burnFailed>>

\* The wallet declines, the call reverts or is never mined.
Decline(w) ==
    /\ writer[w].at = "signing"
    /\ Moves(w, Idle)
    /\ UNCHANGED <<uri, docs, versions, unpinned, disturbed, homes, burnFailed, cut>>

---------------------------------------------------------------------------
(* Unpinning: POST /ipfs/unpin.                                            *)

MaxHistorySteps == 5

\* cidBelongsToToken: listed now, or by one of the last five predecessors.
BelongsToToken(v, t) ==
    \E a \in Assets : v \in EverListed(t, a, MaxHistorySteps)

\* The manifest of a deleted asset and its earlier versions, as far as the
\* backend can be reached.
UnpinDeleted(w) ==
    LET c == writer[w] IN
    /\ c.at = "unpinning"
    /\ \/ /\ c.token \in Live /\ BelongsToToken(c.version, c.token)
          /\ unpinned' = [unpinned EXCEPT !.versions = @ \cup VersionChain(c.version)]
       \/ UNCHANGED unpinned
    /\ Moves(w, Idle)
    /\ UNCHANGED <<uri, docs, versions, disturbed, homes, burnFailed, cut>>

\* burn: the collection's documents are unpinned before the call is signed,
\* because the backend asks the live token who may do so; a failed unpinning
\* does not keep the burn from being signed.
UnpinBurning(w, t) ==
    /\ writer[w] = Idle
    /\ t \in Live
    /\ \/ unpinned' = [unpinned EXCEPT !.docs = @ \cup Ancestors(uri[t], MaxDocs)]
       \/ UNCHANGED unpinned
    /\ Moves(w, [at |-> "burning", token |-> t])
    /\ UNCHANGED <<uri, docs, versions, disturbed, homes, burnFailed, cut>>

MineBurn(w) ==
    LET t == writer[w].token IN
    /\ writer[w].at = "burning"
    /\ t \in Live
    /\ uri' = [uri EXCEPT ![t] = None]
    /\ Moves(w, Idle)
    /\ UNCHANGED <<docs, versions, unpinned, disturbed, homes, burnFailed, cut>>

DeclineBurn(w) ==
    /\ writer[w].at = "burning"
    /\ burnFailed' = burnFailed \cup {writer[w].token}
    /\ Moves(w, Idle)
    /\ UNCHANGED <<uri, docs, versions, unpinned, disturbed, homes, cut>>

Next ==
    \E w \in Writers :
        \/ \E a \in Assets, prev \in 0 .. Len(versions) :
              \/ \E t \in Tokens : PublishPreferred(w, a, prev, t)
              \/ \E documentKnown \in BOOLEAN : PublishDefault(w, a, prev, documentKnown)
              \/ PublishNew(w, a, prev)
        \/ \E prevKnown \in BOOLEAN : WriteMerged(w, prevKnown)
        \/ \E t \in Tokens : CreateNamed(w, t)
        \/ \E t \in Tokens, a \in Assets : Upload(w, t, a) \/ Delete(w, t, a)
        \/ \E source, t \in Tokens, a \in Assets : Fork(w, source, t, a)
        \/ Mine(w)
        \/ Decline(w)
        \/ UnpinDeleted(w)
        \/ \E t \in Tokens : UnpinBurning(w, t)
        \/ MineBurn(w)
        \/ DeclineBurn(w)

Spec == Init /\ [][Next]_vars

---------------------------------------------------------------------------
(* Properties.                                                             *)

\* Everything has its type, and every CID names something that was written.
TypeOK ==
    /\ uri \in [Tokens -> 0 .. Len(docs)]
    /\ docs \in Seq(Doc) /\ Len(docs) <= MaxDocs
    /\ versions \in Seq(Version) /\ Len(versions) <= MaxVersions
    /\ unpinned \in [docs : SUBSET DocIds, versions : SUBSET VersionIds]
    /\ writer \in [Writers -> Writer]
    /\ disturbed \in [Tokens -> Nat]
    /\ homes \in [VersionIds -> SUBSET Tokens]
    /\ burnFailed \subseteq Tokens
    /\ cut \subseteq Tokens
    /\ \A i \in DOMAIN docs : docs[i].prev < i

\* The documents and pointers implement the table of Collections: a mined call
\* changes the one entry it was asked to change, and only a call merged into
\* another document than the current one, because somebody published in
\* between or the read failed, replaces more (publishCollection merges into
\* what resolveTargetCollection read).
Table == INSTANCE Collections WITH
    live <- Live,
    entries <- [t \in Tokens |-> AssetsOf(uri[t])],
    disturbed <- disturbed

ImplementsTable == Table!Spec

\* The document a mined call replaces stays within reach of the walk along the
\* predecessors, which restoring an old version and the unpinning rely on.  It
\* is lost only where two writers were signing for the collection at once, or
\* a publication went on without the predecessor it could not read
\* (publishCollection reads it apart from the document it merges into).
ReplacedStaysReachable ==
    [][\A t \in Tokens :
          uri'[t] # uri[t] /\ uri[t] # None /\ uri'[t] # None /\ t \notin cut' =>
              Ancestors(uri[t], MaxDocs) \subseteq Ancestors(uri[t], MaxDocs)']_vars

\* What a living collection lists is pinned, and so is its document.  Not so
\* a manifest another collection listed too, itself or in an earlier version
\* (the unpinning after a deletion looks only at its own collection), one that
\* a blind replacement put back, and the documents of a token whose burn is not
\* mined or was declined (burn unpins them before the wallet signs).
LiveContentIsPinned ==
    \A t \in Live :
        /\ disturbed[t] = 0 => \A v \in Listed(t) \cap unpinned.versions : homes[v] # {t}
        /\ uri[t] \in unpinned.docs =>
              t \in burnFailed \/ \E w \in Writers : writer[w] = [at |-> "burning", token |-> t]

=============================================================================
