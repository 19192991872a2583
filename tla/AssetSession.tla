---------------------------- MODULE AssetSession ----------------------------
(***************************************************************************)
(* The asset the Studio has open: the asset store (domain/asset.ts), the   *)
(* version clock (version-history-store.ts), and the handlers that open,   *)
(* load, restore, save and publish.  They are asynchronous functions of    *)
(* one tab: they interleave at their awaits, and each reads the store as   *)
(* it is when it comes back from one.                                      *)
(*                                                                         *)
(* A version is a manifest on IPFS.  Its content is the asset it says it   *)
(* is a version of (asset_id) and the version it links back to.            *)
(***************************************************************************)
EXTENDS Naturals, Sequences

CONSTANTS
    Assets,       \* asset ids
    Loads,        \* loads of the viewport that may be under way at once
    MaxVersions,  \* bound: manifests written
    MaxDepth      \* bound: levels of nested assets one may dive

ASSUME BoundsAssumption == MaxVersions \in Nat /\ MaxDepth \in Nat

VARIABLES
    versions,   \* the manifests written, in order
    listed,     \* the version of each asset its collection names on chain
    store,      \* the asset store: active, latest, id
    clock,      \* the version clock: root, at, navigating
    scene,      \* what the viewport holds: filled, and a dropped draft
    loads,      \* the loads of the viewport
    ops,        \* the one save and the one publish that may be under way
    stack,      \* the parents of the nested asset that is open
    saved,      \* history: versions saved since the asset was opened
    mixed,      \* history: two assets met in one handler
    forked      \* history: the tip was replaced by an older version

vars == <<versions, listed, store, clock, scene, loads, ops, stack, saved, mixed, forked>>

None == "none"
NoCid == 0
Cids == 1 .. MaxVersions
Known == DOMAIN versions
MaybeCid == {NoCid} \cup Cids
MaybeAsset == {None} \cup Assets

Idle == [at |-> "idle"]

Load ==
    {Idle}
    \cup [at : {"reading"}, how : {"entry", "token", "dive"}, asset : Assets, cid : Cids]
    \cup [at : {"loading"}, how : {"open", "token", "restore", "send", "scrub"}, cid : Cids, tip : MaybeCid]
    \cup [at : {"autosave"}]

Op ==
    {Idle}
    \cup [at : {"building"}, asset : Assets, draft : BOOLEAN]
    \cup [at : {"writing"}, asset : Assets, draft : BOOLEAN, prev : MaybeCid]
    \cup [at : {"signing"}, id : Assets, cid : Cids]

Init ==
    /\ versions = <<>>
    /\ listed = [a \in Assets |-> NoCid]
    /\ store = [active |-> NoCid, latest |-> NoCid, id |-> None]
    /\ clock = [root |-> NoCid, at |-> NoCid, navigating |-> FALSE]
    /\ scene = [filled |-> FALSE, draft |-> FALSE]
    /\ loads = [l \in Loads |-> Idle]
    /\ ops = [o \in {"save", "publish"} |-> Idle]
    /\ stack = <<>>
    /\ saved = {}
    /\ mixed = FALSE
    /\ forked = FALSE

---------------------------------------------------------------------------
(* The store's commands.                                                   *)

\* walkManifestChain: a version and those it links back to.
ChainOf(c) ==
    LET chain[v \in 0 .. Len(versions)] ==
            IF v = NoCid THEN {} ELSE {v} \cup chain[versions[v].prev]
    IN  chain[c]

\* clearScene: the CIDs go, the identity and the cached manifest stay.
Cleared(s) == [s EXCEPT !.active = NoCid, !.latest = NoCid]

\* adoptOpenedAsset
Opened(s, c, id) == [s EXCEPT !.active = c, !.latest = c, !.id = id]

\* recordSavedVersion
Recorded(s, c) == [s EXCEPT !.active = c, !.latest = c]

\* resetForNewAsset and closeAsset
Closed(s) == [Cleared(s) EXCEPT !.id = None]

Empty == [filled |-> FALSE, draft |-> FALSE]

\* The synchronous part of the clock's _refresh.
Refreshed(k, active) ==
    CASE active = NoCid -> [k EXCEPT !.root = NoCid, !.at = NoCid]
      [] active # NoCid /\ k.navigating -> [k EXCEPT !.at = active]
      [] OTHER -> [k EXCEPT !.root = active, !.at = active]

\* An asset other than a is open, or being saved or published.
Another(a) ==
    \/ store.id # None /\ store.id # a
    \/ store.latest # NoCid /\ versions[store.latest].asset # a
    \/ \E o \in DOMAIN ops :
        \/ ops[o].at \in {"building", "writing"} /\ ops[o].asset # a
        \/ ops[o].at = "signing" /\ ops[o].id # a

Busy == \E o \in DOMAIN ops : ops[o] # Idle
Loading == \E l \in Loads : loads[l].at \in {"reading", "loading"}

---------------------------------------------------------------------------
(* Opening an asset.                                                       *)

\* A card of the gallery (the scene is cleared first), a token's page, or an
\* edit of a nested asset: each reads a manifest before it adopts the asset.
BeginOpen(l, how, a) ==
    /\ loads[l] = Idle
    /\ listed[a] # NoCid
    /\ how = "dive" => scene.filled /\ Len(stack) < MaxDepth /\ a # store.id
    /\ loads' = [loads EXCEPT ![l] = [at |-> "reading", how |-> how, asset |-> a, cid |-> listed[a]]]
    /\ store' = IF how = "entry" THEN Cleared(store) ELSE store
    /\ scene' = IF how = "entry" THEN Empty ELSE scene
    /\ mixed' = (mixed \/ Busy \/ Loading)
    /\ UNCHANGED <<versions, listed, clock, ops, stack, saved, forked>>

\* A load clears what an earlier one left in the viewport.
StartLoad(l, how, c, tip) ==
    loads' = [loads EXCEPT ![l] = [at |-> "loading", how |-> how, cid |-> c, tip |-> tip]]

(* Mutant: the nested asset is adopted under its parent's id. *)
AdoptedIdOfParent(r) == IF r.how = "dive" THEN store.id ELSE r.asset

\* A nested asset is adopted under the id its own manifest states.
AdoptedId(r) == IF r.how = "dive" THEN versions[r.cid].asset ELSE r.asset

\* The parent of a nested asset is put on the stack as it stands.
Adopt(l) ==
    LET r == loads[l] IN
    /\ r.at = "reading"
    /\ StartLoad(l, IF r.how = "token" THEN "token" ELSE "open", r.cid, NoCid)
    /\ store' = Opened(store, r.cid, AdoptedId(r))
    /\ scene' = Empty
    /\ stack' = IF r.how = "dive"
                THEN Append(stack, [cid |-> store.active, id |-> store.id, tip |-> store.latest, saved |-> saved])
                ELSE stack
    /\ saved' = {}
    /\ mixed' = (mixed \/ Busy)
    /\ UNCHANGED <<versions, listed, clock, ops, forked>>

\* The read failed: only a token's page closes the asset.
ReadFails(l) ==
    /\ loads[l].at = "reading"
    /\ loads' = [loads EXCEPT ![l] = Idle]
    /\ store' = IF loads[l].how = "token" THEN Closed(store) ELSE store
    /\ scene' = IF loads[l].how = "token" THEN Empty ELSE scene
    /\ mixed' = (mixed \/ Busy)
    /\ UNCHANGED <<versions, listed, clock, ops, stack, saved, forked>>

\* Back to the parent: the version it showed becomes its tip, the tip or not.
Ascend(l) ==
    LET up == stack[Len(stack)] IN
    /\ stack # <<>>
    /\ loads[l] = Idle
    /\ up.cid # NoCid
    /\ StartLoad(l, "open", up.cid, NoCid)
    /\ store' = Opened(store, up.cid, up.id)
    /\ scene' = Empty
    /\ stack' = SubSeq(stack, 1, Len(stack) - 1)
    /\ saved' = up.saved
    /\ forked' = (forked \/ up.tip # up.cid)
    /\ mixed' = (mixed \/ Busy \/ Loading)
    /\ UNCHANGED <<versions, listed, clock, ops>>

\* A new asset, and the model dropped for it.
NewAsset ==
    /\ store' = Closed(store)
    /\ clock' = [clock EXCEPT !.root = NoCid, !.at = NoCid]
    /\ scene' = [filled |-> FALSE, draft |-> TRUE]
    /\ saved' = {}
    /\ mixed' = (mixed \/ Busy \/ Loading)
    /\ UNCHANGED <<versions, listed, loads, ops, stack, forked>>

\* An asset of the library dropped into an empty viewport.
DropIntoEmpty ==
    /\ store.active = NoCid
    /\ ~ scene.draft
    /\ scene' = [scene EXCEPT !.draft = TRUE]
    /\ saved' = {}
    /\ mixed' = (mixed \/ Busy \/ Loading \/ store.id # None \/ store.latest # NoCid)
    /\ UNCHANGED <<versions, listed, store, clock, loads, ops, stack, forked>>

---------------------------------------------------------------------------
(* Versions of the open asset.                                             *)

\* A version picked in the chat: the tip is put back when it is loaded.
Restore(l, c) ==
    /\ loads[l] = Idle
    /\ c \in ChainOf(store.latest)
    /\ StartLoad(l, "restore", c, store.latest)
    /\ store' = IF scene.filled THEN Cleared(store) ELSE [store EXCEPT !.active = c]
    /\ scene' = IF scene.filled THEN Empty ELSE scene
    /\ mixed' = (mixed \/ Loading)
    /\ forked' = (forked \/ Busy)
    /\ UNCHANGED <<versions, listed, clock, ops, stack, saved>>

(* Mutant: the tip goes with the scene. *)
KeptTipDropped == NoCid

\* The clock's root is taken for the tip, whatever the store has for it.
KeptTip == IF clock.root # NoCid THEN clock.root ELSE store.latest

\* loadVersion: a version picked on the clock.
Scrub(l, c) ==
    /\ loads[l] = Idle
    /\ ~ clock.navigating
    /\ c \in ChainOf(clock.root) /\ c # clock.at
    /\ StartLoad(l, "scrub", c, clock.at)
    /\ store' = [Cleared(store) EXCEPT !.latest = KeptTip]
    /\ clock' = [clock EXCEPT !.navigating = TRUE, !.at = c]
    /\ scene' = Empty
    /\ mixed' = (mixed \/ Loading \/ Another(versions[c].asset))
    /\ forked' = (forked \/ clock.root \notin {NoCid, store.latest})
    /\ UNCHANGED <<versions, listed, ops, stack, saved>>

\* loadAssetManifest resolved: activateAssetManifest, then scene:ready, which
\* re-roots the clock and the tip unless the clock is navigating; then what
\* the caller does after its await.
Loaded(l) ==
    LET r == loads[l]
        tip == IF r.how = "restore" /\ r.tip # NoCid THEN r.tip
               ELSE IF clock.navigating THEN store.latest
               ELSE r.cid
        ready == Refreshed(clock, r.cid)
    IN
    /\ r.at = "loading"
    /\ store' = [store EXCEPT !.active = r.cid, !.latest = tip]
    /\ clock' = IF r.how = "scrub" THEN [ready EXCEPT !.navigating = FALSE] ELSE ready
    /\ scene' = [scene EXCEPT !.filled = TRUE]
    /\ loads' = [loads EXCEPT ![l] = IF r.how = "send" THEN [at |-> "autosave"] ELSE Idle]
    /\ mixed' = (mixed \/ (Busy /\ r.how # "scrub"))
    /\ UNCHANGED <<versions, listed, ops, stack, saved, forked>>

(* Mutant: the clock is unlocked only by a load that succeeds. *)
ClockAfterFailureLocked(r) == IF r.how = "scrub" THEN [clock EXCEPT !.at = r.tip] ELSE clock

\* The hand snaps back.
ClockAfterFailure(r) ==
    IF r.how = "scrub" THEN [clock EXCEPT !.at = r.tip, !.navigating = FALSE] ELSE clock

\* The manifest or one of its models cannot be read.
LoadFails(l) ==
    LET r == loads[l] IN
    /\ r.at = "loading"
    /\ loads' = [loads EXCEPT ![l] = Idle]
    /\ store' = IF r.how = "token" THEN Closed(store) ELSE store
    /\ scene' = IF r.how = "token" THEN Empty ELSE scene
    /\ clock' = ClockAfterFailure(r)
    /\ mixed' = (mixed \/ (Busy /\ r.how = "token"))
    /\ UNCHANGED <<versions, listed, ops, stack, saved, forked>>

\* _refresh, when a wallet connects and half a second after a publication.
Refresh ==
    /\ store.active # NoCid \/ \E a \in Assets : listed[a] # NoCid
    /\ clock' = Refreshed(clock, store.active)
    /\ UNCHANGED <<versions, listed, store, scene, loads, ops, stack, saved, mixed, forked>>

---------------------------------------------------------------------------
(* A model generated in the chat.                                          *)

\* An id no version has and no save is about to give.
Fresh(a) ==
    /\ \A c \in Known : versions[c].asset # a
    /\ \A o \in DOMAIN ops : ops[o].at \in {"building", "writing"} => ops[o].asset # a

\* Show in Studio: the generated manifest links to the version that was active
\* when its prompt was sent, whichever is the tip by now, and the identity of
\* the open asset is kept.
Send(l) ==
    LET c == Len(versions) + 1 IN
    /\ loads[l] = Idle
    /\ c <= MaxVersions
    /\ \E base \in Known \cup {NoCid}, a \in Assets :
        /\ IF base = NoCid THEN Fresh(a) ELSE a = versions[base].asset
        /\ versions' = Append(versions, [asset |-> a, prev |-> base])
        /\ scene' = [filled |-> FALSE, draft |-> scene.draft /\ base = NoCid /\ ~ scene.filled]
        /\ saved' = IF base = NoCid THEN {} ELSE saved
        /\ forked' = (forked \/ (base # NoCid /\ ~ saved \subseteq ChainOf(base)))
        /\ mixed' = (mixed \/ Loading \/ Busy \/ (store.id # None /\ Another(a)))
    /\ StartLoad(l, "send", c, NoCid)
    /\ store' = IF scene.filled THEN Cleared(store) ELSE Opened(store, c, store.id)
    /\ UNCHANGED <<listed, clock, ops, stack>>

---------------------------------------------------------------------------
(* Saving and publishing.                                                  *)

\* loadOrBuildBaseManifest: the active version, or a new manifest with an id
\* of its own.
Base == IF store.active = NoCid THEN {a \in Assets : Fresh(a)} ELSE {versions[store.active].asset}

StartSave(o) ==
    /\ ops[o] = Idle
    /\ store.active # NoCid \/ scene.draft
    /\ \E a \in Base :
        ops' = [ops EXCEPT ![o] = [at |-> "building", asset |-> a, draft |-> store.active = NoCid]]
    /\ mixed' = (mixed \/ Loading \/ (Busy /\ store.active = NoCid))
    /\ forked' = (forked \/ Busy)

Save(o) ==
    /\ StartSave(o)
    /\ UNCHANGED <<versions, listed, store, clock, scene, loads, stack, saved>>

\* What Show in Studio ends with, unless a save is under way.
AutoSave(l) ==
    /\ loads[l].at = "autosave"
    /\ loads' = [loads EXCEPT ![l] = Idle]
    /\ IF ops["save"] = Idle /\ (store.active # NoCid \/ scene.draft)
       THEN StartSave("save")
       ELSE UNCHANGED <<ops, mixed, forked>>
    /\ UNCHANGED <<versions, listed, store, clock, scene, stack, saved>>

\* resolveLatestManifestCid.  With no tip it is the tokenURI of the asset's
\* token, a collection and no version of the asset.
Resolve(o) ==
    LET prev == IF store.latest # NoCid THEN store.latest
                ELSE IF store.id # None THEN NoCid
                ELSE store.active
    IN
    /\ ops[o].at = "building"
    /\ ops' = [ops EXCEPT ![o] = [at |-> "writing", asset |-> ops[o].asset, draft |-> ops[o].draft, prev |-> prev]]
    /\ UNCHANGED <<versions, listed, store, clock, scene, loads, stack, saved, mixed, forked>>

\* The identity is read when the version is written, and goes into the
\* transaction.
AfterWrite(o, a, c) ==
    IF o = "save" THEN Idle
    ELSE [at |-> "signing", id |-> IF store.id # None THEN store.id ELSE a, cid |-> c]

Write(o) ==
    LET r == ops[o]
        c == Len(versions) + 1
    IN
    /\ r.at = "writing"
    /\ Len(versions) < MaxVersions
    /\ versions' = Append(versions, [asset |-> r.asset, prev |-> r.prev])
    /\ store' = Recorded(store, c)
    /\ clock' = IF o = "save" THEN Refreshed(clock, c) ELSE clock
    /\ scene' = [scene EXCEPT !.draft = FALSE]
    /\ ops' = [ops EXCEPT ![o] = AfterWrite(o, r.asset, c)]
    /\ saved' = saved \cup {c}
    /\ mixed' = (mixed \/ \E l \in Loads : loads[l].at \in {"reading", "loading"} /\ loads[l].how # "scrub")
    /\ UNCHANGED <<listed, loads, stack, forked>>

\* Nothing changed since the tip: a publication goes on with the tip.
NoChanges(o) ==
    LET r == ops[o] IN
    /\ r.at = "writing" /\ ~ r.draft
    /\ r.prev # NoCid
    /\ scene' = [scene EXCEPT !.draft = FALSE]
    /\ ops' = [ops EXCEPT ![o] = AfterWrite(o, versions[r.prev].asset, r.prev)]
    /\ UNCHANGED <<versions, listed, store, clock, loads, stack, saved, mixed, forked>>

\* The collection's transaction went through.
Mined ==
    LET r == ops["publish"] IN
    /\ r.at = "signing"
    /\ listed' = [listed EXCEPT ![r.id] = r.cid]
    /\ store' = [store EXCEPT !.id = r.id]
    /\ ops' = [ops EXCEPT !["publish"] = Idle]
    /\ UNCHANGED <<versions, clock, scene, loads, stack, saved, mixed, forked>>

OpFails(o) ==
    /\ ops[o] # Idle
    /\ ops' = [ops EXCEPT ![o] = Idle]
    /\ UNCHANGED <<versions, listed, store, clock, scene, loads, stack, saved, mixed, forked>>

Next ==
    \/ \E l \in Loads :
        \/ \E how \in {"entry", "token", "dive"}, a \in Assets : BeginOpen(l, how, a)
        \/ Adopt(l) \/ ReadFails(l) \/ Ascend(l)
        \/ \E c \in Known : Restore(l, c) \/ Scrub(l, c)
        \/ Loaded(l) \/ LoadFails(l)
        \/ Send(l) \/ AutoSave(l)
    \/ NewAsset \/ DropIntoEmpty \/ Refresh
    \/ \E o \in DOMAIN ops : Save(o) \/ Resolve(o) \/ Write(o) \/ NoChanges(o) \/ OpFails(o)
    \/ Mined

Spec == Init /\ [][Next]_vars

---------------------------------------------------------------------------
(* Properties.                                                             *)

\* The shapes of the state; the clock navigates exactly while one of its own
\* loads is under way, so that it never stays locked after a failed one.
TypeOK ==
    /\ versions \in Seq([asset : Assets, prev : MaybeCid])
    /\ Len(versions) <= MaxVersions
    /\ listed \in [Assets -> MaybeCid]
    /\ store \in [active : MaybeCid, latest : MaybeCid, id : MaybeAsset]
    /\ clock \in [root : MaybeCid, at : MaybeCid, navigating : BOOLEAN]
    /\ loads \in [Loads -> Load]
    /\ ops \in [{"save", "publish"} -> Op]
    /\ saved \subseteq Cids
    /\ clock.navigating <=> \E l \in Loads : loads[l].at = "loading" /\ loads[l].how = "scrub"

\* The version that is open belongs to the asset the next publication will
\* replace, and what a collection lists under an id is a version of it
\* (nesting.ts:114-117 tells of the republication that broke this).
IdentityMatchesContent ==
    ~ mixed =>
        /\ store.id # None /\ store.active # NoCid => versions[store.active].asset = store.id
        /\ \A a \in Assets : listed[a] # NoCid => versions[listed[a]].asset = a

\* Every version saved since the asset was opened stays on the chain of its
\* tip, however much the user moved about in its history in between: a save
\* appends to the tip (manifest-builder.ts:711-715).
KeepsEverySave ==
    ~ mixed /\ ~ forked /\ ~ Loading /\ store.latest # NoCid => saved \subseteq ChainOf(store.latest)

\* "The chain root (latest version) must survive while the user is scrubbing
\* history", as version-history-store.ts:109-110 has it: moving the clock leaves
\* the tip alone.  After a version was restored in the chat, the clock's root is
\* that version and not the tip.
ScrubKeepsTheTip ==
    [][~ mixed' /\ scene.filled /\ ~ clock.navigating /\ clock'.navigating =>
          store'.latest = store.latest]_vars

=============================================================================
