---------------------------- MODULE TokenIndexer ----------------------------
(***************************************************************************)
(* The token indexer of one chain: token-indexer.ts, its state file and    *)
(* the forced reads of routes/indexer.ts, over the chain it follows.       *)
(*                                                                         *)
(* A catch-up reads the tip, then fetches the logs of one chunk of blocks  *)
(* after another; it applies a chunk's transfers at once and reads, for    *)
(* each token whose editor set changed in it, the editor list the chain    *)
(* has by then.  Each action is one answer the indexer waits for, or one   *)
(* block; the process may die between any two of them.                     *)
(***************************************************************************)
EXTENDS Naturals, Sequences, FiniteSets, FiniteSetsExt

CONSTANTS
    Token,
    Wallet,
    Zero,        \* ZERO_ADDRESS, the holder of a burnt token
    None,        \* no holder, no cap, no read
    Ceiling,     \* LOG_CHUNK_SIZES: the first and widest chunk
    GrowthThreshold,
    MaxBlock     \* bound on the length of the chain

ASSUME ConstantsAssumption ==
    /\ Zero \notin Wallet
    /\ None \notin Wallet \cup {Zero} \cup Nat
    /\ Ceiling \in Nat \ {0}
    /\ GrowthThreshold \in Nat \ {0}
    /\ MaxBlock \in Nat

VARIABLES
    log,      \* the contract's events, by block: one call a block
    owner,    \* who holds each token on chain
    editors,  \* the Editors of the list each token has on chain
    index,    \* the maps in memory
    file,     \* the state file, as _loadState will read it
    job,      \* the one catch-up that callers share
    chunk,    \* logChunkSize
    streak,   \* _chunkSuccesses
    asked     \* the tip when the forced read that waits came in

chainVars == <<log, owner, editors>>
vars == <<log, owner, editors, index, file, job, chunk, streak, asked>>

Holder == Wallet \cup {Zero, None}
Event == [token: Token, to: Holder, edited: BOOLEAN]

Index == [scanned: Nat,                       \* lastScannedBlock
          owner: [Token -> Holder],
          editors: [Token -> SUBSET Wallet],  \* tokenEditors
          shared: [Wallet -> SUBSET Token],   \* editorTokens
          missed: SUBSET Token]  \* history: the last refresh failed

Blank == [scanned |-> 0,
          owner |-> [t \in Token |-> None],
          editors |-> [t \in Token |-> {}],
          shared |-> [w \in Wallet |-> {}],
          missed |-> {}]

Idle == [step |-> "idle"]
Fetching == [step: {"fetch"}, from: Nat, latest: Nat]
Refreshing == [step: {"refresh"}, to: Nat, latest: Nat, left: SUBSET Token]
Listing == [step: {"list"}, to: Nat, latest: Nat, left: SUBSET Token,
            token: Token, list: SUBSET Wallet]

Tip == Len(log)

TypeOK ==
    /\ log \in Seq(Event)
    /\ owner \in [Token -> Holder]
    /\ editors \in [Token -> SUBSET Wallet]
    /\ index \in Index
    /\ file \in Index
    /\ job \in Fetching \cup Refreshing \cup Listing \cup {Idle}
    /\ chunk \in 1..Ceiling
    /\ streak \in Nat
    /\ asked \in Nat \cup {None}

Init ==
    /\ log = <<>>
    /\ owner = [t \in Token |-> None]
    /\ editors = [t \in Token |-> {}]
    /\ index = Blank
    /\ file = Blank
    /\ job = Idle
    /\ chunk = Ceiling
    /\ streak = 0
    /\ asked = None

------------------------------------------------------------------------------
(* The chain.  Publishing and changing a list emit EditorSetChanged; a burn  *)
(* is a Transfer to the zero address.                                        *)

Mine(t, to, edited) ==
    /\ Tip < MaxBlock
    /\ log' = Append(log, [token |-> t, to |-> to, edited |-> edited])
    /\ UNCHANGED <<index, file, job, chunk, streak, asked>>

Publish(t) ==
    /\ owner[t] \notin Wallet
    /\ \E w \in Wallet :
          /\ Mine(t, w, TRUE)
          /\ owner' = [owner EXCEPT ![t] = w]
          /\ editors' = [editors EXCEPT ![t] = {w}]

Transfer(t) ==
    /\ owner[t] \in Wallet
    /\ \E w \in Wallet :
          /\ Mine(t, w, FALSE)
          /\ owner' = [owner EXCEPT ![t] = w]
    /\ UNCHANGED editors

UpdateEditors(t) ==
    /\ owner[t] \in Wallet
    /\ Mine(t, None, TRUE)
    /\ \E set \in SUBSET Wallet : editors' = [editors EXCEPT ![t] = set]
    /\ UNCHANGED owner

Burn(t) ==
    /\ owner[t] \in Wallet
    /\ Mine(t, Zero, FALSE)
    /\ owner' = [owner EXCEPT ![t] = Zero]
    /\ editors' = [editors EXCEPT ![t] = {}]

------------------------------------------------------------------------------
(* What logs and lists do to the maps. *)

Blocks(from, to) == (from..to) \cap DOMAIN log

Moves(t, from, to) ==
    {b \in Blocks(from, to) : log[b].token = t /\ log[b].to # None}

Burnt(from, to) ==
    {t \in Token : \E b \in Blocks(from, to) :
        log[b].token = t /\ log[b].to = Zero}

Edited(from, to) ==
    {t \in Token : \E b \in Blocks(from, to) :
        log[b].token = t /\ log[b].edited}

(* _removeTokenEditors *)
Without(ix, tokens) ==
    [ix EXCEPT
        !.editors = [t \in Token |-> IF t \in tokens THEN {} ELSE @[t]],
        !.shared = [w \in Wallet |->
                       @[w] \ {t \in tokens : w \in ix.editors[t]}],
        !.missed = @ \ tokens]

(* _applyLogs: the last transfer in the chunk counts. *)
Applied(from, to) ==
    [Without(index, Burnt(from, to)) EXCEPT
        !.scanned = to,
        !.owner = [t \in Token |->
            LET moves == Moves(t, from, to)
            IN  IF moves = {} THEN @[t] ELSE log[Max(moves)].to]]

(* Mutant: the reverse map keeps those who were removed. *)
WithMoreEditors(t, set) ==
    [index EXCEPT
        !.editors[t] = set,
        !.shared = [w \in Wallet |->
                       IF w \in set THEN @[w] \cup {t} ELSE @[w]],
        !.missed = @ \ {t}]

WithEditors(t, set) ==
    [Without(index, {t}) EXCEPT
        !.editors[t] = set,
        !.shared = [w \in Wallet |->
                       IF w \in set THEN @[w] \cup {t} ELSE @[w]]]

------------------------------------------------------------------------------
(* A catch-up. *)

Fetch(from, latest) == [step |-> "fetch", from |-> from, latest |-> latest]

Refresh(to, latest, left) ==
    [step |-> "refresh", to |-> to, latest |-> latest, left |-> left]

(* The last scanned block is scanned again. *)
Start ==
    /\ job = Idle
    /\ index.scanned < Tip
    /\ job' = Fetch(index.scanned, Tip)
    /\ streak' = 0
    /\ UNCHANGED <<chainVars, index, file, chunk, asked>>

(* Mutant: the chunk grows past the ceiling. *)
WiderThanCeiling == 2 * chunk

Wider == Min({Ceiling, 2 * chunk})

(* Successes in a row widen the next chunk, up to the ceiling. *)
Fetched ==
    LET to == Min({job.from + chunk - 1, job.latest})
        grown == chunk < Ceiling /\ streak + 1 >= GrowthThreshold
    IN
    /\ job.step = "fetch"
    /\ index' = Applied(job.from, to)
    /\ job' = Refresh(to, job.latest, Edited(job.from, to))
    /\ chunk' = IF grown THEN Wider ELSE chunk
    /\ streak' = IF grown THEN 0 ELSE IF chunk < Ceiling THEN streak + 1 ELSE streak
    /\ UNCHANGED <<chainVars, file, asked>>

(* Mutant: the advertised cap is taken even when it is wider. *)
ShrunkToCap(cap) == IF cap = None THEN Max({1, chunk \div 2}) ELSE cap

(* _shrinkChunk: to the advertised cap or to a half, but always less. *)
Shrunk(cap) ==
    IF cap # None /\ cap < chunk THEN Max({1, cap}) ELSE Max({1, chunk \div 2})

Rejected ==
    /\ job.step = "fetch"
    /\ chunk > 1
    /\ \E cap \in (1..Ceiling) \cup {None} : chunk' = Shrunk(cap)
    /\ streak' = 0
    /\ UNCHANGED <<chainVars, index, file, job, asked>>

(* The catch-up throws; whoever waits for it is served what there is. *)
FetchFails ==
    /\ job.step = "fetch"
    /\ job' = Idle
    /\ asked' = None
    /\ UNCHANGED <<chainVars, index, file, chunk, streak>>

(* editorListURI: the list of now, not of the log's block. *)
ReadList(t) ==
    /\ job.step = "refresh"
    /\ t \in job.left
    /\ job' = [step |-> "list", to |-> job.to, latest |-> job.latest,
               left |-> job.left \ {t}, token |-> t, list |-> editors[t]]
    /\ UNCHANGED <<chainVars, index, file, chunk, streak, asked>>

SetEditors ==
    /\ job.step = "list"
    /\ index' = WithEditors(job.token, job.list)
    /\ job' = Refresh(job.to, job.latest, job.left)
    /\ UNCHANGED <<chainVars, file, chunk, streak, asked>>

(* Either read fails: the warning is all that is left of the change. *)
RefreshFails(t) ==
    /\ \/ job.step = "refresh" /\ t \in job.left
       \/ job.step = "list" /\ t = job.token
    /\ index' = [index EXCEPT !.missed = @ \cup {t}]
    /\ job' = Refresh(job.to, job.latest, job.left \ {t})
    /\ UNCHANGED <<chainVars, file, chunk, streak, asked>>

(* Mutant: the file is written before the refreshes, not after. *)
SaveEarly ==
    /\ job.step = "refresh"
    /\ IF job.left # {} THEN file' = index ELSE UNCHANGED file
    /\ IF job.left # {} THEN UNCHANGED <<job, asked>>
       ELSE IF job.to < job.latest
       THEN job' = Fetch(job.to + 1, job.latest) /\ UNCHANGED asked
       ELSE job' = Idle /\ asked' = None
    /\ UNCHANGED <<chainVars, index, chunk, streak>>

(* _saveState, which may fail, before or halfway; then the next chunk. *)
Save ==
    /\ job.step = "refresh"
    /\ job.left = {}
    /\ file' \in {index, file, Blank}
    /\ IF job.to < job.latest
       THEN job' = Fetch(job.to + 1, job.latest) /\ UNCHANGED asked
       ELSE job' = Idle /\ asked' = None
    /\ UNCHANGED <<chainVars, index, chunk, streak>>

(* The process dies and comes back with what the file says. *)
Restart ==
    /\ index' = file
    /\ job' = Idle
    /\ chunk' = Ceiling
    /\ streak' = 0
    /\ asked' = None
    /\ UNCHANGED <<chainVars, file>>

------------------------------------------------------------------------------
(* A forced read waits for the catch-up under way, or for its own. *)

Ask ==
    /\ asked = None
    /\ asked' = Tip
    /\ UNCHANGED <<chainVars, index, file, job, chunk, streak>>

(* Its catch-up finds nothing to scan. *)
AtTip ==
    /\ asked # None
    /\ job = Idle
    /\ index.scanned >= Tip
    /\ asked' = None
    /\ UNCHANGED <<chainVars, index, file, job, chunk, streak>>

(* Past the cap on its wait it is served what there is. *)
GiveUp ==
    /\ asked # None
    /\ asked' = None
    /\ UNCHANGED <<chainVars, index, file, job, chunk, streak>>

CatchUp ==
    \/ Start \/ Fetched \/ Rejected \/ FetchFails \/ SetEditors \/ Save
    \/ \E t \in Token : ReadList(t) \/ RefreshFails(t)

Next ==
    \/ \E t \in Token : Publish(t) \/ Transfer(t) \/ UpdateEditors(t) \/ Burn(t)
    \/ CatchUp
    \/ Restart
    \/ Ask \/ AtTip \/ GiveUp

Spec == Init /\ [][Next]_vars

(* The poll calls catchUp every 15 s, and every request to the provider or   *)
(* the storage is answered or times out.                                     *)
FairSpec == Spec /\ WF_vars(CatchUp)

------------------------------------------------------------------------------
(* Properties. *)

AtRest == job = Idle /\ index.scanned = Tip

(* getSharedTokens *)
Shared(w) ==
    {t \in index.shared[w] : index.owner[t] # None /\ index.owner[t] # w}

(* An index at the tip has the owners of the chain, and its editors but for  *)
(* tokens whose last list could not be read: whatever the chunks, and        *)
(* whatever a crash or a failed save made it scan again (API_SPEC.md:740).   *)
IndexIsCurrent ==
    AtRest => \A t \in Token :
        /\ index.owner[t] = owner[t]
        /\ t \notin index.missed => index.editors[t] = editors[t]

(* The two editor maps mirror each other, in memory and after a restart, and *)
(* at the tip no burnt token is anybody's shared asset.                      *)
MapsAgree ==
    /\ \A ix \in {index, file}, t \in Token, w \in Wallet :
          t \in ix.shared[w] <=> w \in ix.editors[t]
    /\ AtRest => \A w \in Wallet : \A t \in Shared(w) : owner[t] \in Wallet

(* Once the process stays up and the provider refuses no single block, every *)
(* block is scanned: token-indexer.ts:412-414 has the retries of a rejected  *)
(* range converge.                                                           *)
CatchesUp ==
    <>[][~FetchFails /\ ~Restart]_vars =>
        \A b \in 1..MaxBlock : (Tip >= b) ~> (index.scanned >= b)

(* routes/indexer.ts:22-23: a forced read forces a catch-up before returning *)
(* so that freshly minted tokens show up.                                    *)
ForcedReadIsFresh ==
    [][asked # None /\ asked' = None /\ (Save \/ AtTip) =>
          index.scanned >= asked]_vars
=============================================================================
