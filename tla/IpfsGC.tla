------------------------------- MODULE IpfsGC -------------------------------
(***************************************************************************)
(* The reachability garbage collector of the pinned content: ipfs-gc.ts,   *)
(* with the tokens and the uploads it races against.                       *)
(*                                                                         *)
(* A run notes the time, finds the live tokens of one chain, walks what    *)
(* each of them reaches, lists what is pinned, and unpins what it did not  *)
(* reach and an earlier run had marked a grace period ago.  Each action is *)
(* one read or write of the run, of a client or of the chain; between them *)
(* anything else may happen, other runs included.                          *)
(***************************************************************************)
EXTENDS Naturals, FiniteSets, FiniteSetsExt

CONSTANTS
    Cid,
    Token,
    Chain,       \* the chains whose tokens keep content in this storage
    ChainOf,
    Run,         \* identities of runs, several of which may overlap
    NoMark,
    Reuse,       \* whether drafts use content older than themselves
    GraceTime,   \* graceMs
    PublishTime, \* how long content waits for the call that publishes it
    RunTime,     \* how long a run takes
    MaxUnpin,    \* maxUnpin
    MaxTime      \* bound on the clock

ASSUME ConstantsAssumption ==
    /\ ChainOf \in [Token -> Chain]
    /\ NoMark \notin Nat
    /\ Reuse \in BOOLEAN
    /\ GraceTime \in Nat
    /\ PublishTime \in Nat
    /\ RunTime \in Nat
    /\ MaxUnpin \in Nat
    /\ MaxTime \in Nat

VARIABLES
    now,
    pinned,
    uploaded,  \* history: what was ever pinned
    idle,      \* history: when each content was last pinned or dropped
    draft,     \* content a client will publish for a token
    reach,     \* what a walk from each token's CIDs on chain reaches
    marks,     \* .data/ipfs-gc-state.json: orphanSince of each chain
    run        \* what each run is doing

vars == <<now, pinned, uploaded, idle, draft, reach, marks, run>>

NoDraft == [cids |-> {}, at |-> 0]
Marks == [Cid -> Nat \cup {NoMark}]
NoMarks == [k \in Chain |-> [c \in Cid |-> NoMark]]

Off == [stage |-> "off"]
Scanning == [stage: {"scan"}, chain: Chain, since: Nat, live: BOOLEAN,
             left: SUBSET Token, reached: SUBSET Cid, failed: BOOLEAN]
Sweeping == [stage: {"sweep"}, chain: Chain, since: Nat,
             todo: SUBSET Cid,
             next: [Chain -> Marks]]  \* the file to be written

TypeOK ==
    /\ now \in Nat
    /\ pinned \in SUBSET Cid
    /\ uploaded \in SUBSET Cid
    /\ idle \in [Cid -> Nat]
    /\ draft \in [Token -> [cids: SUBSET Cid, at: Nat]]
    /\ reach \in [Token -> SUBSET Cid]
    /\ marks \in [Chain -> Marks]
    /\ run \in [Run -> Scanning \cup Sweeping \cup {Off}]

Init ==
    /\ now = 0
    /\ pinned = {}
    /\ uploaded = {}
    /\ idle = [c \in Cid |-> 0]
    /\ draft = [t \in Token |-> NoDraft]
    /\ reach = [t \in Token |-> {}]
    /\ marks = NoMarks
    /\ run = [r \in Run |-> Off]

Live(t) == reach[t] # {}
Reached == UNION {reach[t] : t \in Token}

------------------------------------------------------------------------------
(* Clients and chains.  Content is pinned before the call that makes a token *)
(* reach it is mined.                                                        *)

(* The new content, and with Reuse what is uploaded once more or linked to   *)
(* from another token (asset-delete.ts:285-317: a fork adds a CID it reads). *)
Upload(t) ==
    /\ draft[t] = NoDraft
    /\ \E new \in SUBSET Cid, linked \in SUBSET Reached :
          /\ new # {}
          /\ Reuse \/ (new \cap uploaded = {} /\ linked = {})
          /\ pinned' = pinned \cup new
          /\ uploaded' = uploaded \cup new
          /\ idle' = [c \in Cid |-> IF c \in new THEN now ELSE idle[c]]
          /\ draft' = [draft EXCEPT ![t] = [cids |-> new \cup linked, at |-> now]]
    /\ UNCHANGED <<now, reach, marks, run>>

(* What no token reaches any more is an orphan from now on. *)
Points(t, cids) ==
    /\ reach' = [reach EXCEPT ![t] = cids]
    /\ idle' = [c \in Cid |->
          IF c \in Reached /\ \A u \in Token : c \notin reach'[u]
          THEN now ELSE idle[c]]

(* The new manifest keeps what it links to, of what the token reached. *)
Land(t) ==
    /\ draft[t] # NoDraft
    /\ \E kept \in SUBSET reach[t] : Points(t, kept \cup draft[t].cids)
    /\ draft' = [draft EXCEPT ![t] = NoDraft]
    /\ UNCHANGED <<now, pinned, uploaded, marks, run>>

Discard(t) ==
    /\ draft[t] # NoDraft
    /\ draft' = [draft EXCEPT ![t] = NoDraft]
    /\ UNCHANGED <<now, pinned, uploaded, idle, reach, marks, run>>

Burn(t) ==
    /\ Live(t)
    /\ Points(t, {})
    /\ UNCHANGED <<now, pinned, uploaded, draft, marks, run>>

------------------------------------------------------------------------------
(* A run. *)

Becomes(r, state) == run' = [run EXCEPT ![r] = state]

Scan(k, since, live, left, reached, failed) ==
    [stage |-> "scan", chain |-> k, since |-> since, live |-> live,
     left |-> left, reached |-> reached, failed |-> failed]

Sweep(k, since, todo, next) ==
    [stage |-> "sweep", chain |-> k, since |-> since,
     todo |-> todo, next |-> next]

(* The time is noted first, then the live tokens of the chain are found. *)
Start(r) ==
    /\ run[r] = Off
    /\ \E k \in Chain, live \in BOOLEAN :
          Becomes(r, Scan(k, now, live,
                          {t \in Token : Live(t) /\ ChainOf[t] = k},
                          {}, FALSE))
    /\ UNCHANGED <<now, pinned, uploaded, idle, draft, reach, marks>>

(* ownerOf, tokenURI and the walk, editorListURI: a token burnt since then   *)
(* adds nothing.                                                             *)
ReadToken(r, t) ==
    LET g == run[r] IN
    /\ g.stage = "scan"
    /\ t \in g.left
    /\ Becomes(r, Scan(g.chain, g.since, g.live, g.left \ {t},
                       g.reached \cup reach[t], g.failed))
    /\ UNCHANGED <<now, pinned, uploaded, idle, draft, reach, marks>>

(* An RPC failure, an unreadable manifest, a truncated chain. *)
ReadFails(r, t) ==
    LET g == run[r] IN
    /\ g.stage = "scan"
    /\ t \in g.left
    /\ \E part \in SUBSET reach[t] :
          Becomes(r, Scan(g.chain, g.since, g.live, g.left \ {t},
                          g.reached \cup part, TRUE))
    /\ UNCHANGED <<now, pinned, uploaded, idle, draft, reach, marks>>

(* markOrphans: orphans keep their first-seen time, others lose it. *)
Marked(orphans, previous, since) ==
    [c \in Cid |-> IF c \notin orphans THEN NoMark
                   ELSE IF previous[c] = NoMark THEN since ELSE previous[c]]

(* Mutant: a mark is enough, whatever its age. *)
EligibleOnceMarked(orphans, orphanSince, since) ==
    {c \in orphans : orphanSince[c] # since}

Eligible(orphans, orphanSince, since) ==
    {c \in orphans : since >= orphanSince[c] + GraceTime}

(* Mutant: errors do not stop the sweep. *)
SureOfLive(r) == run[r].live

(* A dry run, or one that hit an error, neither unpins nor marks. *)
Sure(r) == run[r].live /\ ~run[r].failed

(* The pins are listed and, at once, compared with what was reached; an      *)
(* unreadable state file counts as empty.                                    *)
List(r) ==
    LET g == run[r]
        orphans == pinned \ g.reached
    IN
    /\ g.stage = "scan"
    /\ g.left = {}
    /\ Sure(r)
    /\ \E file \in {marks, NoMarks} :
          LET orphanSince == Marked(orphans, file[g.chain], g.since)
              eligible == Eligible(orphans, orphanSince, g.since)
          IN \E todo \in SUBSET eligible :
                /\ Cardinality(todo) = Min({MaxUnpin, Cardinality(eligible)})
                /\ Becomes(r, Sweep(g.chain, g.since, todo,
                                    [file EXCEPT ![g.chain] = orphanSince]))
    /\ UNCHANGED <<now, pinned, uploaded, idle, draft, reach, marks>>

Forget(file, k, c) == [file EXCEPT ![k] = [file[k] EXCEPT ![c] = NoMark]]

Unpin(r, c) ==
    LET g == run[r] IN
    /\ g.stage = "sweep"
    /\ c \in g.todo
    /\ pinned' = pinned \ {c}
    /\ Becomes(r, Sweep(g.chain, g.since, g.todo \ {c},
                        Forget(g.next, g.chain, c)))
    /\ UNCHANGED <<now, uploaded, idle, draft, reach, marks>>

UnpinFails(r, c) ==
    LET g == run[r] IN
    /\ g.stage = "sweep"
    /\ c \in g.todo
    /\ Becomes(r, Sweep(g.chain, g.since, g.todo \ {c}, g.next))
    /\ UNCHANGED <<now, pinned, uploaded, idle, draft, reach, marks>>

(* Mutant: the file is written without the other chains' marks. *)
CommitUnscoped(r) ==
    LET g == run[r] IN
    /\ g.stage = "sweep"
    /\ g.todo = {}
    /\ marks' = g.next[g.chain]
    /\ Becomes(r, Off)
    /\ UNCHANGED <<now, pinned, uploaded, idle, draft, reach>>

(* commitState writes the file as it was read, but for the chain's marks. *)
Commit(r) ==
    LET g == run[r] IN
    /\ g.stage = "sweep"
    /\ g.todo = {}
    /\ marks' = g.next
    /\ Becomes(r, Off)
    /\ UNCHANGED <<now, pinned, uploaded, idle, draft, reach>>

(* An unsure run ends; listing or saving fails; the process dies. *)
Stop(r) ==
    /\ run[r] # Off
    /\ Becomes(r, Off)
    /\ UNCHANGED <<now, pinned, uploaded, idle, draft, reach, marks>>

(* Publishing and runs take a bounded time. *)
Tick ==
    /\ now < MaxTime
    /\ \A t \in Token : draft[t] # NoDraft => now < draft[t].at + PublishTime
    /\ \A r \in Run : run[r] # Off => now < run[r].since + RunTime
    /\ now' = now + 1
    /\ UNCHANGED <<pinned, uploaded, idle, draft, reach, marks, run>>

Step(r) ==
    \/ Start(r) \/ List(r) \/ Commit(r) \/ Stop(r)
    \/ \E t \in Token : ReadToken(r, t) \/ ReadFails(r, t)
    \/ \E c \in Cid : Unpin(r, c) \/ UnpinFails(r, c)

Next ==
    \/ \E t \in Token : Upload(t) \/ Land(t) \/ Discard(t) \/ Burn(t)
    \/ \E r \in Run : Step(r)
    \/ Tick

Spec == Init /\ [][Next]_vars

------------------------------------------------------------------------------
(* Properties. *)

(* The grace period is longer than a publication and a run together: a run   *)
(* dates its marks at its start, so a mark may be older than the pin.        *)
GraceCovers == PublishTime + RunTime < GraceTime

(* One chain keeps its content in this storage. *)
OneChain == \A t \in Token, k \in Chain : ChainOf[t] = k

Alive(c) == c \in Reached \/ \E t \in Token : c \in draft[t].cids

(* What a live token reaches is never unpinned, whatever was published,      *)
(* dropped or burnt between the reads of the runs (ipfs-gc.ts:4-8).          *)
LiveContentIsKept == Reached \subseteq pinned

(* Nor is content whose publication is under way (ipfs-gc.ts:33: the grace   *)
(* period covers in-flight publishes and recently saved drafts).             *)
InFlightIsCovered == \A t \in Token : draft[t].cids \subseteq pinned

(* Runs that overlap write back marks they read earlier: still no content    *)
(* in use gets a first-seen time from before its upload, but for the length  *)
(* of one run.                                                               *)
NoMarkBeforeUpload ==
    \A k \in Chain, c \in Cid :
        marks[k][c] # NoMark /\ Alive(c) => idle[c] <= marks[k][c] + RunTime
=============================================================================
