# Arbesk: formal models

Arbesk stores 3D assets as manifests on IPFS, keeps the newest manifest of each
collection in an ERC-721 token, lets a team of editors write to it, and generates
models through paid providers. The blockchain orders the writes; everything around
it - browser, server, command line, collector, indexer - reads the chain and the
storage at one moment and acts on what it read at a later one. That gap is what
these modules are about.

This directory holds TLA+ modules, the TLC configurations that check them on small
instances, and TLAPS proofs of the properties that should hold for every instance.
`PROJECT.json` maps every definition to the lines it models and lists runs, mutants,
hazards, findings and theorems.

    tlc -workers 2 -config AssetContract.cfg MCAssetContract    # one run
    tlapm IpfsGCProofs.tla                                      # one proof module

| module | models | checked by | proved in |
|---|---|---|---|
| `EditorRegister` | what the registry promises: a list of grants under compare-and-swap | | |
| `AssetContract` (implements it) | the registry contract, with calls that are mined late | `AssetContract` | `EditorTeamProofs` |
| `EditorTeam` (extends it) | the clients that manage teams and publish | `EditorTeam` | `EditorTeamProofs` |
| `Collections` | what collections promise: tables that change one entry at a time | | |
| `CollectionPublish` (implements it) | collection documents, pointers and unpinning | `CollectionPublish` | `CollectionPublishProofs` |
| `AssetSession` | the asset open in the Studio, its tip and its clock | `AssetSession` | `AssetSessionProofs` |
| `DraftEdits` | staged edits, undo and the save that writes them | `DraftEdits` | `AssetSessionProofs` |
| `GenerationTasks` | generation tasks and the provider's jobs | `GenerationTasks` | `GenerationTasksProofs` |
| `CadMetering` | the metering of paid CAD requests | `CadMetering`, `CadMeteringThinking` | `CadMeteringProofs` |
| `IpfsGC` | the garbage collector of pinned content | `IpfsGC` | `IpfsGCProofs` |
| `TokenIndexer` | the token indexer and its state file | `TokenIndexer` | `TokenIndexerProofs` |
| `CommentThread` | the comments of an asset, from the panel to the relay | `CommentThread` | `SignInProofs` |
| `SignIn` | sessions in the browser and on the server | `SignIn` | `SignInProofs` |

`MC<module>` gives each module its instances. Eight more configurations are beside the
runs and end in a counterexample by design, each to one claim of the repository's own
comments and documents (section 6): `AssetContractReplay`, `EditorTeamRemoval`,
`CadMeteringOverlap`, `IpfsGCReuse`, `IpfsGCChains`, `TokenIndexerForced`,
`AssetSessionScrub`, `DraftEditsRemoval`.

## 1. Inventory

### Registry contract (`blockchain/contracts/ArbeskAssetBase.sol`) - `AssetContract`
State: owner, token URI, editor root, editor-set version and editor-list URI of each
token, and whether the migration window is closed. Operations: `publishAsset`,
`updateAssetURI`, `updateEditors`, `burn`, `migrateAsset`, `finalizeMigration`, and
the ERC-721 transfer. An editor proves membership with a Merkle proof; the leaf names
address, role, token, scope and version. Hard: a call is signed against one state and
mined against another, in an order nobody controls; a burnt id can be minted again.
Correct when no call takes effect against an editor set it was not made for, nothing
is left of a burnt token, and the migration cannot be reopened.

### Editor team and publish clients (`services/team.ts`, `domain/editors.ts`, `editor-publish.ts`, `asset-delete.ts`) - `EditorTeam`
State: a cached editor list per wallet and token, and what an operation under way has
read. Operations: add, remove, change role; first publication, publication by an
editor, delete, burn. They interact with the contract through signed calls and with
IPFS through list CIDs. Hard: list and version are two reads with an await between
them; a failed read falls back on the cache or on version 1. Correct when the root on
chain always commits to the list on chain, and no accepted change drops a concurrent
one.

### CAD metering and generation (`cad-quota.ts`, `routes/cad.ts`, `generate-node.ts`, `cad-gen/src/backend`) - `CadMetering`
State: a lock per wallet in memory, a daily counter in memory and in a file, an hourly
window. Operations: admission, charge, refund, release, the attempts of the repair
loop with their calls, cancellation, restart. Hard: locks expire under running
requests; midnight falls between charge and refund; a save fails; the process
restarts. Correct when a wallet has one paid request at a time, no lock outlives its
request, each round is counted once, and every request ends.

### IPFS garbage collector (`ipfs-gc.ts`, `manifest-chain-walker.ts`, storage adapters) - `IpfsGC`
State: the pins, the marks of `.data/ipfs-gc-state.json`, a run's reached set.
Operations: discover, walk, list, mark, unpin, commit; around it upload, publish,
burn. Hard: no read of a run is a snapshot; runs overlap and write back a file they
read earlier; content is uploaded before anything on chain refers to it. Correct when
what a live token reaches, or a publication under way will reach, stays pinned.

### Token indexer (`token-indexer.ts`, `routes/indexer.ts`) - `TokenIndexer`
State: the last scanned block, owner map, two editor maps that mirror each other, the
state file, chunk size. Operations: catch-up by chunks, refresh of an editor list,
save, load, forced reads. Hard: logs are of their blocks, lists of now; rejected
ranges; torn files; crashes between any two steps; shared catch-ups. Correct when an
index at the tip agrees with the chain, the maps with each other, and the tip is
reached.

### Collection publication and unpinning (`domain/collection.ts`, `utils/collections.ts`, `asset-delete.ts`, `library-ops.ts`, `wallet-publishing.ts`, `routes/ipfs.ts`) - `CollectionPublish`
State: a token's URI names the current document of a collection; documents and asset
manifests are immutable and name their predecessors; pins. Operations: publication into
the chosen, the default or a new collection, named collections, upload, fork, delete,
burn, unpin. Hard: read, merge, upload, sign and mine are apart and the pointer is
replaced without a compare; a failed read merges with nothing; unpinning comes before a
burn that may be declined. Correct when a mined call changes the one entry it was made
for, old documents stay reachable, and what is listed stays pinned.

### Generation tasks (`generate-node.ts`, `generation-tasks.ts`, `providers/tripo.ts`) - `GenerationTasks`
State: the registry in memory, the jobs at the provider. Operations: POST, GET (poll and
advance the chain check - rig - bake), DELETE, expiry. Hard: every handler awaits the
provider in the middle and then reads the live entry. Correct when a paid step starts
once, the model handed out is that of the last step, and no job runs on unheeded.

### Asset session (`domain/asset.ts`, `version-history-store.ts`, `asset-library.ts`, `nesting.ts`, `create-panel.ts`, `manifest-builder.ts`) - `AssetSession`
State: active version, tip and id of the open asset, the clock's root and position, the
parents of a nested asset. Operations: open, dive, ascend, restore, scrub, send, save,
publish. Hard: handlers of one tab interleave at their awaits and share the store.
Correct when content and id belong together and each save appends to the tip.

### Draft edits (`scene-loader.ts`, `child-remove.ts`, `part-remove.ts`, `transform-commit.ts`, `undo-stack.ts`, `manifest-builder.ts`) - `DraftEdits`
State: staged edits, undo and redo stacks, loads of nested assets under way. Operations:
insert, unlink, remove a part, move, undo, redo, save. Hard: a save copies some edits
at its start, reads others later, clears all at its end. Correct when the view is what a
save writes and undo leads back.

### Comments (`comment-thread.ts`, `chat-proxy.ts`) - `CommentThread`
State: the socket, timer and flags of the one thread; per socket the proxy's handler and
its relay connection. Operations: switch of asset, connect, close, reconnect, renewed
authentication; accept, authorize, bridge, heartbeat. Hard: both ends see a close at
moments of their own. Correct when a thread shows its own asset, comes back after a loss,
and a browser that is gone holds no relay connection.

### Sessions and sign-in (`backend-client.ts`, `api.ts`, `wallet-core.ts`, `sessions.ts`, `authentication.ts`) - `SignIn`
State: account and signer, the cached token, the creation under way, the server's tokens.
Operations: sign in, out, change of account, create, use, refuse, retry, expire, restart.
Hard: a creation waits for a person. Correct when a request acts for the account that
made it and its retry is made with another session than the refused one.

### Not modelled yet
| part | state and operations | what is hard, what must hold |
|---|---|---|
| Live updates (`live-updates.ts`) | notices, wait for the chain, reload | notices overtaken by later publications. Viewers end at the newest manifest |
| Contract tiers | daily limit, USDC payment | day boundary, refused payment |
| Wallet relay and server wallets | server-side signing for e-mail accounts | a relayed call that failed counts as sent |
| E-mail and command-line sign-in | one-time codes with attempts | expiry between check and use |
| Content cache (`content-cache.ts`) | byte-bounded memory cache over a database | two misses of one hash. Only speed depends on it |

### Not modelled, and not planned
CAD kernel and format codecs (pure functions on meshes and binary data), browser workers
(a vendored pool), follow-up intent and advice (one stateless call), authorisation of
reads (a stateless check of `IsEditor`), command line (a client of the same endpoints),
server shell, metrics, deployment. Of the scene engine and the panels, rendering, layout
and routing.

### Interactions
    browser / CLI --signed calls--> registry <--logs, reads-- indexer, collector
         |  \                          ^                           |
         |   upload before publish     | list CID, manifest CID    | list, unpin
         v                             |                           v
      server (metering, tasks) ------ IPFS pins <------------------+
`EditorTeam` composes with `AssetContract` (its receipt is the contract's action).
`CollectionPublish` is the level below `Collections` and carries its own pointer, with
the calls' acceptance reduced to whether the token exists; who may write is `EditorTeam`.
What `AssetSession` lists for an asset is an entry of `CollectionPublish`; what it writes
as one version is what `DraftEdits` stages. `CommentThread` and `SignIn` each have the
part of the other they need: a token that may become unknown, a thread that asks anew.
`IpfsGC` and `TokenIndexer` each carry the part of the chain they depend on: tokens
that come to reach content and cease to, or a log of transfers and list changes.

## 2. How the modules correspond to the code

**`AssetContract`.** One action per entry point (`PublishAsset`, `UpdateAssetURI`,
`UpdateEditors`, `Burn`, `MigrateAsset`, `FinalizeMigration`, `Transfer`); `Sign...`
puts a call of arbitrary content into `inflight`, `Mine` executes it, `Revert` is the
contract's refusal, `Drop` a call that is never mined. `Can...` are the reverts of the
code, `Accepted` their union. A root is the set of leaves it commits to and a proof the
tree it was cut from; by collision resistance it verifies exactly when the tree is the
root and the recomputed leaf is in it. `lives` counts how often an id was minted and is
history, as are `life` and `seen` in a call.

**`EditorRegister`** is the registry without trees and proofs, as its clients may think of
it: each token has a pointer and a list of grants with a version; a request takes effect
only if the list in force makes its wallet an editor of the scope and, within one life of
the token, is the list the wallet saw; a new list is the next version. `Register` maps
the contract to it: the grants in force are those whose leaf of the present version the
root commits to, so a list whose tree was built for another version grants nothing, which
the register says outright. The holder and the migration's end are not part of the promise.

**`EditorTeam`.** `ChangeTeam` and `StartEdit` are the reads up to the first await,
`Submit...` the second read and the signature, `Receipt` the mining of the call.
`Loads` is `loadEditorList` with its cache fallback, `VersionReads` the version or, when
the read fails, 1. The panel of the Studio offers the controls to the owner only; the
module models the service below it, which the command line uses too. A write to IPFS
that fails throws before a call is signed, so a published list always exists. Members
with per-asset scopes are not created by these clients.

**`CadMetering`.** An action is what the server does between two awaits. `Post` and
`PostTask` are admission, charge and start, `Limited` the hourly refusal that follows
the charge, `RefuseForQuota` a refusal that drops an expired lock. `Work` is one answer
of a provider or judge: `Selected`, `Unsuitable`, `Serve`, `Retry`, `Fallback`, `Fail`.
`Tick` may not pass the timeout of a call in progress. `Save` may fail, `Restart` loads
the file or nothing. `forgotten` is history.

**`IpfsGC`.** `Start` notes the time and finds live tokens, `ReadToken` is one token's
walk and list (merged: neither changes what a concurrent burn or publication does to
the other), `ReadFails` a walk that reports an error after reaching a part, `List` the
pins, orphans, marks and choice of what to unpin, `Unpin`/`UnpinFails` one content,
`Commit` the file, `Stop` an abort or a crash. Clients: `Upload`, `Land`, `Discard`,
`Burn`. A content stands for all that a manifest refers to; `idle` and `uploaded` are
history. With `Reuse` a draft may upload old content again or link to content another
token reaches, as a fork does.

**`TokenIndexer`.** `Start`, `Fetched`, `Rejected`, `FetchFails` are the catch-up,
`ReadList`, `SetEditors`, `RefreshFails` the refresh of one token, `Save` the end of a
chunk (which may fail or tear the file), `Restart` a crash. The chain is a log of one
call per block with the owners and editors it leads to. `Ask`, `AtTip`, `GiveUp` are a
forced read. `missed` is history: tokens whose last refresh failed.

**`CollectionPublish`.** `PublishPreferred`, `PublishDefault` and `PublishNew` are the
three ends of `resolveTargetCollection`, with the document it read; `WriteMerged` reads
the predecessor and writes the merged document; `Upload`, `Fork` and `Delete` are the
changes in place; `Mine`, `Decline` and `MineBurn`, `DeclineBurn` what the wallet and the
chain make of a call. `UnpinDeleted` and `UnpinBurning` may fail to unpin, as in the
code. `disturbed`, `homes`, `burnFailed` and `cut` are history: they name the cases in
which the code gives less than the property says. `Collections` is stated without
documents, and `Table` maps to it: the tokens that exist, the entries of their current
documents, the count of blind replacements.

**`GenerationTasks`.** A request is what one HTTP handler does between two awaits. `Post`
or `PostRetarget` then `RegisterTask` are POST; `Poll`, then `ReportProgress`,
`ReportFailure`, `RigCheckStop`, `StartRig`, `StartRetarget`, `Download` or `PollFails`
are GET, which reads the entry as it is after its await, and `Advance` and `Complete` the
ends; `Cancel` and `CancelUpstream` DELETE. `AnswerLost` is a job the provider started and
whose answer did not arrive. `JobEnds` is the provider. `overlapped`, `raced`, `lost`,
`unanswered` and `served` are history.

**`AssetSession`.** A load is a sequence `reading`, `loading` of the viewport: `BeginOpen`
and `Adopt` for the gallery, a token's page and a nested asset, `Ascend`, `Restore`,
`Scrub` and `Send` for what goes straight to `loading`. `Loaded` is the end of
`loadAssetManifest`, with what its `scene:ready` listeners do. A save and a publication are
`building`, `writing` and `signing`, with the store read in each as the code reads it.
`mixed` is set when two assets meet in one handler, `forked` when an operation replaces
the tip by an older version; both are history and end what the properties claim.

**`DraftEdits`.** One linked or copied nested asset per child, one part, one node that
moves. `Drop`, `Inserting`, `Inserted` and `InsertFails` are the drop and its load, in which
the staged ref is there before its model; `Reinsert` and `Reloaded` what undo starts, with
the reloads `_disposeAfterPendingReload` watches. `BeginSave`, `Copy`, `Bake`,
`ApplyTransforms`, `Saved` are the points at which a save reads and clears. `strayed` is
history: the child, part or node that an edit after the save had read its kind, or one of
the cases of section 6, took out of step.

**`CommentThread`.** `SetContext`, `ArchiveRead`, `ProofRead`, `Reconnect` and `OnClose` are
the methods of the thread between their awaits, `Accept`, `Authorize`, `Bridge`,
`BridgeFails`, `Leaves`, `RelayCloses` and `Terminate` those of the proxy. A socket has
two ends, each with a state of its own, and an identity is used again when both are done.
`orphaned` and `clobbered` are history.

**`SignIn`.** `GetOrCreate` is the branch every request takes; `Started`, `Sign`, `Post`,
`Cache` and `CreationFails` a creation; `Serve`, `Retry`, `Receive` a request.
`SwitchAccount` changes the address and leaves signer and session, as `accountsChanged`
does; `Disconnected` is the event that clears the cache after a sign-out. `mixed`,
`refusedAt` and `joined` of a request are history.

## 3. What the runs show

| run | instance | result |
|---|---|---|
| `AssetContract` | 2 wallets, 1 token, 3 lists (empty, two editors, viewer and scoped editor), trees for versions 1-2, 2 lives | no delayed call of one life takes effect on another editor set; trees and proofs implement a list of grants under compare-and-swap |
| `EditorTeam` | 2 wallets, 1 token, all lists over them, 3 versions | root, list and version agree; no change is lost |
| `CadMetering` | 1 wallet, 3 requests, 2 attempts, day of 7, start 4 or 2 before midnight, repairs that do not think | one request at a time, no leaked lock, exact count |
| `CadMeteringThinking` | 2 requests, thinking repairs, from a day's start or 2 before midnight | late releases harmless, every request ends |
| `IpfsGC` | 1 content, 2 tokens, 2 overlapping runs, grace 3, publication 1, run 1, time to 8 | content in use stays pinned |
| `TokenIndexer` | 1 token, 2 wallets, 3 blocks, chunks of 1 to 3 | index at the tip is the chain's, maps agree, tip is reached |
| `GenerationTasks` | 2 tasks, 2 handlers, 3 jobs | paid steps start once, models are of the last step and no job is abandoned, but where polls overlap, answers are lost, or a task is stopped, expires or is restarted |
| `CollectionPublish` | 2 tokens (default and another), 2 assets, 2 writers, 4 documents, 2 manifests | the documents implement the table; what is replaced stays reachable; what is listed is pinned, but for shared manifests and declined burns |
| `AssetSession` | 2 assets, 2 loads, a save and a publication, 3 versions, 1 level of nesting | identity and content agree; saves stay on the chain of the tip |
| `DraftEdits` | a linked and a copied child, a part, 2 positions, undo of 3 | the view is what a save writes; undo leads back |
| `CommentThread` | 2 assets, 2 sockets at a time, 2 switches, 2 faults, 1 attempt, 2 sessions | a thread shows its asset, comes back, and holds no relay when it is gone |
| `SignIn` | 2 accounts, 2 requests, 2 creations at a time, 3 sessions, 2 losses, 2 switches | requests act for their account; the retry has another session |

Each run has, for every property, a mutant of a modelled definition - a plausible bug -
under which TLC finds the property violated. History variables in a property name the
cases the code does not guard against, so that everything else is claimed of it: drop the
exception and TLC shows the case.

**Bounds.** *Registry*: the hazards need one call delayed past one change of the set and
one burn; two wallets, versions to 2 and two lives give both, and two tokens interact
in nothing but the token id in the leaf. *Team*: two clients race; three versions let a
change be signed against the first, beaten by a second, and followed by a third.
*Metering*: locks, counters and windows are per wallet, so one wallet suffices; three
requests let one outlive its lock, one hold the slot and one be refused; the clock runs
past one midnight and one expiry. *Collector*: contents do not interact but through
`maxUnpin`, so one is enough; two contents with one run, time to 6, were also explored
(291 thousand states) with no error; the clock allows a full grace period after a drop,
a mark written late and a second use. The bound on grace is tight: with grace 2 =
publication + run the invariant fails. *Indexer*: three blocks hold publish, change and
burn, and let a catch-up be overtaken; chunks of 1 to 3 exercise growth, shrinking and
both kinds of cap. *Tasks*: tasks share nothing but the source of a bake, which takes two;
three jobs are a chain, or a rig used by another task, and two handlers all there is to
overlap. *Collections*: four documents are two writers' second publications; two assets
tell a blind replacement from a change, two tokens give forks and the fallback to the
default. *Session*: three versions are a tip and two to fall back to; two assets mix.
`CONSTRAINT Unmixed` does not follow a behaviour once two assets met in one handler, of
which the properties say nothing. `VIEW` leaves the history `saved` and the parents' tips
out once `forked` is set: it stays set, no guard reads them, and the only property about
them has nothing to say from then on. *Edits*: undo of three lets an entry fall off the stack;
`CONSTRAINT InStep` ends behaviours at the first thing that strays. *Comments*: a second
switch returns to the first asset, two faults are a loss during the recovery of another.
*Sessions*: three tokens are a refused one, its replacement, and one that a late refusal
drops. `Symmetry` is used in safety runs only, over values no definition tells apart.
`MaxJobs`, `MaxDocs`, `MaxVersions`, `MaxDepth`, `MaxSwitches`, `MaxChanges`, `MaxFaults`, `MaxTokens`, `MaxSessions`,
`MaxLosses`, `MaxTime`, `MaxVersion`, `MaxLives` and `MaxBlock` are bounds of the
check and not of the code.

**Deadlock** is off where a bound ends the behaviour: at `MaxTime` (`CadMetering`,
`IpfsGC`) the last request may be over and nothing is left to do, and so it is when the
jobs, documents, versions, switches or sessions of the six newer modules are used up. It
is checked elsewhere.

**Fairness.** `CadMetering`: weak fairness of `Work(r)`, since every call to a provider
or judge is raced against a timer and so is answered, fails or times out. `TokenIndexer`:
weak fairness of `CatchUp`, since the poll starts one every 15 s and every request is
answered or times out; that the provider stops failing and the process stays up are
premises of `CatchesUp`, not assumptions of the model. `CommentThread`:
weak fairness of each request, timer and message that is under way, and of the proxy's
heartbeat, which runs every 30 s; the end of a broken connection reaches the server by
the heartbeat only. Losing a connection, switching assets and signing in are not fair.
`SignIn` claims no progress: a wallet prompt may stay open for ever, and everything that
shares its creation waits with it. Everything else is safety and needs none. The collector promises no progress.

## 4. What is proved

All eight proof modules are checked by `tlapm` without any step taken on trust. The
constants are arbitrary (any sets of wallets, tokens, contents, chains, runs), under the
`ConstantsAssumption` of each module.

*`EditorTeamProofs`, of the contract.* `Typed`; `NoEditorsWithoutToken` (a token nobody
holds has no root, version or list: `UnmintedHasNoEditorSet`, which no run repeats);
`StaleProofsNeverLand` (`StaleProofsAreDead`); `EditorSetsAreVersioned`
(`EditorSetIsVersioned`, which no run repeats: `ImplementsRegister` says it too). The
second is inductive with the types. For the third, a proof alone says nothing of when it
was cut, so the invariant adds that every root on chain and every proof in flight is a
tree of one version (`TreesHaveOneVersion`), and that a call signed in a token's present
life saw a version no newer than the one in force (`SawPastOrPresent`): a proof that
verifies is the root, hence of the version in force, or the root is one a call built for
another version, in which no leaf of the version in force lies.

`RegistryRefinesRegister` (`ImplementsRegister`) puts these together: every step of the
contract is a step of `EditorRegister` or changes nothing it shows. It needs that no call
in flight carries a root other than that of its list (`CallsAreBuilt`), from which
`GrantsOfABuiltTree` reads what a tree grants; that a verified leaf is a grant in force
(`VerifiedIsGranted`); that a token with a root exists, since `updateEditors` does not ask;
and `StaleProofsAreDead` for the compare. Both limits of the promise are in the abstract
module: a list put in force as a version its tree was not built for, and a request of an
earlier life of the token, which section 6 is about.

*`CadMeteringProofs`.* `Typed`; `LocksAreNotLeaked` (`NoLockIsLeaked`);
`LateReleaseFreesNothing` (`OnlyItsOwnLock`), from the former: a lock names a running
request, so only that request's end matches its token; `OneAtATime` (`OneInFlight`)
under `LockOutlivesRequests`, the sizing the code's comment asks for. Its invariant
`FlightInv` says that each running request is within the time its remaining attempts
leave it, and holds its own lock; then its lock has not expired, and no other request is
admitted. With the shipped limits and thinking repairs the assumption is false, which is
what `CadMeteringOverlap` shows. `RoundsAreCounted` (`EveryRoundIsCounted`) needs
less of the sizing: that the selection which opens a request, 10 s in the code, does not
outlast the lock (`SelectionFitsLock`; its head-room alone is 30 s). The day of a counter
says nothing of the days before it, so the invariant `CountInv` says that a counter is
that of the last day its wallet was charged on, and holds the number of that day's charges
that stand (`CountOK`); and that a request still in selection holds its lock and its charge
is the last of its wallet (`SelectionOK`), so that the unit a refusal gives back is that
request's own or none. With a selection longer than the lock TLC finds a unit given back
from another day's count.

*`IpfsGCProofs`.* `Typed`; `LiveContentSurvives` (`LiveContentIsKept`),
`InFlightContentSurvives` (`InFlightIsCovered`), `MarksAreNotOlder`
(`NoMarkBeforeUpload`), under `GraceCovers` (publication + run < grace), `~Reuse` and
`OneChain`. The inductive invariant `IInv` has: content in use was
uploaded and is pinned (`Origins`); nothing is dated in the future, publications and
runs are on time (`OnTime`); content in a draft is its own, neither reached by a token
nor in another draft, and dated when the draft was made (`Fresh`);
marks in the file, and in each file a run has yet to write back, are no older than the
content's last use, up to one run (`Dated`); a scan that has met no error has reached,
or has still to walk to, everything its tokens reach that was published before the run
began (`Complete`); and what a run has condemned is not in use (`Harmless`). The step
that needs all of them is `ListKeeps`: what is eligible was neither reached nor young,
so it is not in use, nor can it come back, as drafts take new content only. The two
violated runs drop one assumption each.

*`CollectionPublishProofs`.* `Refinement`: `CollectionPublish` implements `Collections`
(`Spec => ImplementsTable`), for any tokens, assets and writers. Its invariant
(`TableInvariant`) is `Typed` with `ChangeIsSmall`: a writer that is about to sign holds
a document that exists and differs in one asset from the one it was merged into, which
exists too. As documents are only ever added, this survives every other step
(`ChangeStays`). A mined call is then a `Change` when the document it replaces is the one
it was merged into, a `Create` when there is none, and a `Disturb` otherwise; every other
step changes no pointer and maps to a stutter. 
`TypeCorrect` (`TypeOK`), `Reachable` (`ReplacedStaysReachable`) and `Pinned`
(`LiveContentIsPinned`) speak of chains of documents and manifests, which the model walks
with recursive functions. The library's induction theorems are out of reach of the provers,
so what holds along a chain is proved by its least counterexample: the naturals are well
founded, a predecessor is older than what names it, and one unfolding of the walk leads
below the least. Their invariants, each checked by TLC on spaces explored to the end before
it was proved (2 tokens, 2 writers, 3 documents and 3 manifests, and 4 and 2: 459 and 746
thousand states): `WrittenInv`, that everything named was written before it was named, an
entry names a manifest of its asset, and an unpinned chain is of what was written
(`WrittenInvariant`); `ReachInv`, that a document waiting for its signature names the one it
will replace, unless the token is `cut`; `DocInv`, that such a document is nobody else's and
that every document belongs to the line of one token; and `ManifestInv`
(`PinnedInvariant`): what leads to a manifest counts its token among the manifest's `homes`,
what a publication will list is new or was listed in the document it was merged into, what
it will unpin its document does not list, and what a living collection lists is neither
unpinned nor about to be, except where the statement says so. The step that needs all of it is
the mined call: it turns a document that nobody lists into the current one, and a manifest
that was held into one about to be unpinned.

*`SignInProofs`.* `Typed`; `RequestsActAsTheirAccount` (`RequestActsAsItsAccount`);
`SecondTriesAreFresh` (`SecondTryIsFresh`), for any accounts, requests, creations and
bounds. The invariant `IInv` adds what the two statements do not
say of requests that still wait: the answer of a creation is a session of the account it
was started for (`CreationOK`); the creation an unmarked request waits for is its
account's, and that account is still signed in (`AccountOK`); and while the server has
lost nothing since the first refusal, a second token, sent or still to be handed out, is
one the server knows (`SecondOK`). `GetOrCreateInv` is shared by the first and second
tries; `SettleInv` by the two ends of a creation.

*`SignInProofs`, of the comments, which go out with those sessions.* `ThreadTyped`
(`ThreadTypeOK`, with the bound on an archive); `ThreadShowsOwnComments`
(`ThreadShowsItsAsset`), for any assets, sockets, sessions and numbers of switches and
faults. The thread takes a comment from any socket that is live, and no handler asks which
asset it is of. So `ThreadInv` adds, of every socket (`SocketOK`), that one that is not
closed is of an asset, and that one that is live is the thread's own, or some socket was
orphaned. What keeps it is that a switch of the asset closes the thread's socket in the
same step. TLC checked it on the run's instance (323 thousand states).

*`EditorTeamProofs`, of its clients.* `TeamTyped`; `RootsCommitToLists` (`RootCommitsToList`);
`TeamChangesAreNotLost` (`NoTeamChangeIsLost`), for any clients, tokens and versions, over
the lists clients build (`ListsAssumption`). The invariant `TeamInv` adds how a call in
flight was built (`Built`): the two trees of a change are those of the list the draft read
and of the next one, one version apart. `ChangeReplacesTheListInForce` is the step that
matters: an accepted proof is the root, and a leaf of the version in force lies in it, so
the version the client read is that version; a tree determines its list
(`TreesDetermineLists`), so the list it read is the one on chain. The steps of the chain
keep their types by `TypeStep`, of the contract.

*`GenerationTasksProofs`.* `Typed`; `StepsArePaidOnce` (`PaidStepsStartOnce`);
`JobsAreFollowed` (`NoJobIsAbandoned`), for any tasks, handlers and jobs. The invariant `IInv` says of a task whose
polls never overlapped and that lost no answer (`ChainOK`) that one handler polls it at a
time, and that the steps started for it are those up to the phase of its entry, or up to
the phase a handler is about to move it to; and of every entry and handler that the job it
names is one of its task's, so that no POST meets a task that has a job
(`EntryOK`, `HandlerOK`). The steps that start nothing are one lemma (`PlainStep`). For
the third, `FInv` adds, of a task that nothing excuses (`FollowedOK`): whoever polls it
finds it in the registry and asks about the job its entry names, that job has ended when a
handler has the next one to put in its place, and every job still running is the entry's
or a handler's; and that a final answer is about a job that has ended (`AnswerOK`). So a
step that drops a job, by moving the entry on or by evicting the task, drops an ended one.
`ModelsAreOfTheLastStep` (`ModelIsOfTheLastStep`) adds `MInv`: the entry of a task and what
its handlers hold are in the plan it was posted with (`EntryInPlan`, `HandlerInPlan`); the
job a handler asked about is the one its entry names, while it polls alone (`PolledAlone`);
a baked job lies on a rig that has ended (`OnSkeleton`); and what was served is a job of the
last step (`ServedLast`). TLC checked it on the run's instance (843 thousand states).

*`TokenIndexerProofs`.* `TypeCorrect` (`TypeOK`, with the chunk between one block and the
ceiling); `Current` (`IndexIsCurrent`); `Mirrored` (`MapsAgree`), for any tokens, wallets,
chunk sizes and lengths of the chain. An index at the tip says nothing of how it came there,
so the invariant `IInv` says of any index what it owes to the blocks it has scanned: after
its last block the holder is the one of the token's last move (`HeldAfter`), and its Editors
are the chain's unless a later block changes them, or the refresh of the token is pending or
was missed (`IndexOK`). It holds of the index in memory with the lists the catch-up still
has to read, and of the file with none, which is why the file may only be written after the
refreshes: a crash then loses blocks but no change of a list. Scanning the last block again is harmless for the
same reason. A list read for an old log is the chain's unless a later block changes it
(`JobOK`), and that block is still to come. `ChainOK` relates the log to the owners and
lists it led to. TLC checked `IInv` on spaces of 2.9 and 2.3 million states (1 token and 2
wallets, 2 tokens and 1 wallet, 4 blocks). The forced read's freshness is not among
them: it fails (section 6).

*`AssetSessionProofs`.* `TypeCorrect` (`TypeOK`, with the lock of the clock); `Identity`
(`IdentityMatchesContent`); `SavesKept` (`KeepsEverySave`), for any assets, loads, versions
and levels of nesting. Neither property says anything of what a handler carries across an
await, and that is what the next state comes from. So `Identified` says there is one asset
(`OneAsset`) that the store's three fields, the load that works, and every save and
publication under way are of; that versions link within an asset (`LinksWithin`); that one load
works at a time, and beside a save only one that shows another version of the same asset
(`LoadsAlone`); and that a draft that is saved has no version, identity or company
(`Drafts`). `Kept` adds every place the next tip may come from: the tip a restore puts back,
the version a load shows, the predecessor a save has resolved, the tip of a parent on the
stack (`TipKeeps`, `LoadsKeep`, `OpsKeep`, `StackKeeps`) have the saved versions on their
chains. A chain is a recursive function of the versions; what the proofs need of it, that it
unfolds and does not change when a version is written, is by least counterexample
(`ChainsDoUnfold`, `ChainsStay`, `ChainIsOfOneAsset`). TLC checked the invariant on the
run's instance (1.6 million states). Both stop at `mixed`, the second at `forked`: section 6
lists the ways the code has there.

*`AssetSessionProofs`, of the unsaved edits of that asset.* `EditsTyped` (`EditsTypeOK`);
`ViewIsSaved` (`ViewIsWhatASaveWrites`); `UndoingLeadsBack` (`UndoLeadsBack`), for any
children, positions and depth of the undo stack. The view and the staged edits agree only
because everything between them does, so the invariant `EditsInv` says it of each in turn.
Of a child that has not strayed (`ChildOK`): it is staged once, and what a save has copied
or baked of it is what is staged now (`Staged`); it is shown if the next save writes it, or
else a reload of it is under way, the tracked one and no other, which is watched exactly if
the save would not write it (`Shown`); its removal is on one of the two stacks at most, and
was shown before if it is on the undo stack (`ChildStacked`). Before its load has ended a child
is not shown and on no stack, whatever strays (`NotYet`, `NotShown`). Of the part
(`PartOK`) and the node (`NodeOK`) the same, the node with a position before and after
every entry, such that a move leads from one to the other (`Traced`, `TracedOn`). Undoing
everything is a recursive function over the stack: what it gives is said in closed form
entry by entry (`UndoneTo`), which satisfies the recursion, and by the least counterexample
nothing else does (`UndoneIs`). TLC checked the invariant on the run's instance (319
thousand states), and without its constraint, so that it goes on after something strayed,
with undo of two and one child, linked (3.5 million states) and copied (1.1 million).

## 5. What is only model-checked

Every invariant and action property of the runs is stated by a theorem. What is left is
liveness (`EveryRequestEnds`, `CatchesUp`, `NoRelayForNobody`, `ThreadComesBack`), which
needs the enabledness of actions.
What a recursive function computes for every argument is proved only as far as least
counterexamples go, above.

## 6. Where the code and its documents differ

1. *A burnt and republished id revives old signatures* (`AssetContractReplay.cfg`).
   `initEditors` starts every publication at version 1 (`ArbeskAssetBase.sol:255`) and
   `burn` deletes the version, so the leaves of the first life are valid again.
   `ArbeskAssetBase.sol:235-238` says proofs cannot be replayed after a set change.
2. *The last Editor can be removed* (`EditorTeamRemoval.cfg`). `team.ts:190` looks at the
   length of the whole list, Viewers included; `ASSET_CORE_SDK.md:185` says the removal
   "refuses to remove the last editor".
3. *Thinking repairs outlive the lock* (`CadMeteringOverlap.cfg`). One attempt may take a
   thinking and a plain timeout (`cad-gen/src/backend/facade.ts:175-186`), while
   `cad-quota.ts:189` sizes the lock by the plain one.
4. *Marks outlive uses nobody observed* (`IpfsGCReuse.cfg`). `ipfs-gc.ts:339` keeps the first
   time a content was seen unreachable, so content used again between two runs has no
   grace, though `ipfs-gc.ts:33` says in-flight publishes and drafts are covered. The
   same mark takes effect right after a short use has ended.
5. *Chains that share a storage* (`IpfsGCChains.cfg`). `ipfs-gc.ts:536` compares the pins of
   the whole storage with what one chain's tokens reach.
6. *A forced read may be stale* (`TokenIndexerForced.cfg`). `token-indexer.ts:431` answers it
   with the catch-up under way, bounded by an older tip; `routes/indexer.ts:22-23` and
   `API_SPEC.md:704` promise a fresh one.

7. *Scrubbing after a restore drops versions* (`AssetSessionScrub.cfg`).
   `version-history-store.ts:111` takes the clock's root for the tip; a restore in the
   chat puts the tip back in the store only, so the clock's root is the restored version.
   `version-history-store.ts:109-110` says the newest version must survive scrubbing.
8. *A part removed during a save is forgotten* (`DraftEditsRemoval.cfg`).
   `manifest-builder.ts:1037` clears every staged removal, including one that
   `manifest-builder.ts:750` says stays pending.

What else the history variables stand for, which no document of the repository
contradicts:
- *Tasks*: two polls that overlap, and a poll after one whose answer was lost, start the
  rig or the bake twice; a stop during a poll leaves the job that poll starts.
- *Collections*: a publication replaces whatever was published since its read; with a
  failed read it goes to the default collection, or replaces all of it; deleting an asset
  unpins what a fork of it lists; a declined burn leaves its documents unpinned.
- *Session*: a parent that is returned to is adopted at the version it showed; a save and
  a publication may run at once and fork the chain or give one draft two ids; a failed open
  leaves clock and identity of the asset before.
- *Edits*: moves made after a save has read the transforms are lost like removals; undoing
  a removal that was saved shows what the manifest does not have; unlinking a saved copy
  cannot be redone; of two reloads in flight one may appear unlinked.
- *Comments*: a late `onclose` forgets the socket that replaced it (`comment-thread.ts:174`),
  an aborted `connect` clears the flag of another (126); each attempt resets the count of
  attempts (118), so `MAX_RECONNECT_ATTEMPTS` never ends them; a browser that leaves before
  the bridge is up, or a relay that answers late, leaves a subscribed connection.
- *Sessions*: a late refusal drops a newer session; the thread's own creation opens a
  second prompt; a creation under way is shared with another account and cached after a
  sign-out.

## 7. Abstractions

Hashes are perfect; the chain does not reorganise and every read sees its newest block
(a lagging node is the same as an earlier read, which the interleavings include, except
in the indexer, where the tip and the logs come from one node); one call per block in the
indexer's log; a manifest and all it refers to are one content per token; IPFS returns
what was stored or fails; addresses are compared in one case. Approvals of ERC-721,
pausing and code upgrades are left out.

In the newer modules: the animations and options of a task are left out, a rig check
either fits or does not; asset manifests have an asset and a predecessor; the clock's list
of entries, the cached manifest, CAD parameters, colours and source overrides are left
out; comments are the asset they belong to; limits on the rate of messages and requests are
left out, as are e-mail accounts.

## 8. Plan

1. Live updates over `CollectionPublish`: viewers end at the newest document.
2. The relay's server wallets over `SignIn` and the registry; tiers and payment beside
   `GenerationTasks`; one-time codes.
3. Refinements: `EditorTeam`'s clients, with their reads that race and fail, as clients of
   `EditorRegister`. On two wallets and one life of a token TLC finds it true; over two
   lives a list read before the burn and proved after the new publication escapes the
   comparison, as in section 6.1, so the register has to learn when a client read.
   `GenerationTasks` as a queue of one provider's jobs.
4. Theorems: those that go with the refinements of item 3.
