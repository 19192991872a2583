------------------------ MODULE AssetSessionProofs ------------------------
(***************************************************************************)
(* For any assets, loads, versions and levels of nesting: the state of     *)
(* AssetSession is typed and the clock's lock is free when no load of its  *)
(* own is under way; what is open and what is listed are of the asset they *)
(* are taken for, unless two assets met in one handler; and the versions   *)
(* saved stay on the chain of the tip, unless an older version was put in  *)
(* its place.  In that order, each on the invariant proved before it.      *)
(*                                                                         *)
(* And of the unsaved edits of what is open, DraftEdits: what is shown is  *)
(* what a save writes, and undoing leads back.                             *)
(***************************************************************************)
EXTENDS AssetSession, DraftEdits, SequenceTheorems, WellFoundedInduction, TLAPS

(***************************************************************************)
(* The chain of a version, by its least counterexample: a set of naturals  *)
(* that is not empty has a least element, so there is no least version for *)
(* which a statement about chains fails first.                             *)
(***************************************************************************)

LEMMA Minimal ==
    ASSUME NEW T, T \subseteq Nat, T # {}
    PROVE  \E n \in T : \A m \in T : n <= m
<1>1. PICK x \in T : \A y \in T : ~(<<y, x>> \in OpToRel(<, Nat))
  BY NatLessThanWellFounded, WFMin
<1>2. \A y \in T : ~(y < x)
  BY <1>1 DEF OpToRel
<1> QED
  BY <1>2

(* A walk backwards along predecessors that are smaller ends.              *)
WalksBack(prev, N) == N \in Nat /\ \A i \in 1 .. N : prev[i] \in 0 .. (i - 1)

IsChain(c, prev, N) == c = [u \in 0 .. N |-> IF u = NoCid THEN {} ELSE {u} \cup c[prev[u]]]

LEMMA ChainExists ==
    ASSUME NEW prev, NEW N, WalksBack(prev, N)
    PROVE  \E c : IsChain(c, prev, N)
<1> DEFINE bad == {n \in 0 .. N : ~ \E c : IsChain(c, prev, n)}
<1>0. N \in 0 .. N
  BY DEF WalksBack
<1> SUFFICES ASSUME bad # {} PROVE FALSE
  BY <1>0
<1>1. bad \subseteq Nat
  BY DEF WalksBack
<1>2. PICK n \in bad : \A m \in bad : n <= m
  BY <1>1, Minimal
<1>3. CASE n = 0
  <2>1. IsChain([u \in 0 .. 0 |-> {}], prev, 0)
    BY DEF IsChain, NoCid
  <2> QED
    BY <1>2, <1>3, <2>1
<1>4. CASE n # 0
  <2>1. n \in 1 .. N /\ n - 1 \in 0 .. N /\ n - 1 \notin bad
    BY <1>2, <1>4 DEF WalksBack
  <2>2. PICK c : IsChain(c, prev, n - 1)
    BY <2>1
  <2> DEFINE d == [u \in 0 .. n |-> IF u = n THEN {n} \cup c[prev[n]] ELSE c[u]]
  <2>c. \A u \in 0 .. (n - 1) : c[u] = IF u = NoCid THEN {} ELSE {u} \cup c[prev[u]]
    BY <2>2 DEF IsChain
  <2>3. c[0] = {} /\ \A u \in 1 .. (n - 1) : c[u] = {u} \cup c[prev[u]]
    <3>1. 0 \in 0 .. (n - 1) /\ 1 .. (n - 1) \subseteq 0 .. (n - 1) /\ 0 \notin 1 .. (n - 1)
      BY <1>4, <2>1
    <3> QED
      BY <2>c, <3>1, Zenon DEF NoCid
  <2>4. \A u \in 1 .. n : prev[u] \in 0 .. (u - 1)
    BY <2>1 DEF WalksBack
  <2>5. /\ n \in Nat \ {0}
        /\ d[n] = {n} \cup c[prev[n]]
        /\ \A u \in 0 .. (n - 1) : d[u] = c[u]
    BY <1>4, <2>1, <2>4
  <2>d. d = [u \in 0 .. n |-> d[u]]
    OBVIOUS
  <2> HIDE DEF d
  <2>6. d[0] = {} /\ \A u \in 1 .. n : d[u] = {u} \cup d[prev[u]]
    <3>1. d[0] = {}
      BY <2>3, <2>5
    <3>2. ASSUME NEW u \in 1 .. n PROVE d[u] = {u} \cup d[prev[u]]
      <4>1. d[prev[u]] = c[prev[u]]
        BY <2>4, <2>5
      <4>2. CASE u = n
        BY <2>5, <4>1, <4>2
      <4>3. CASE u \in 1 .. (n - 1)
        BY <2>3, <2>5, <4>1, <4>3
      <4> QED
        BY <2>5, <4>2, <4>3
    <3> QED
      BY <3>1, <3>2
  <2>7. IsChain(d, prev, n)
    BY <2>d, <2>5, <2>6 DEF IsChain, NoCid
  <2> QED
    BY <1>2, <2>7
<1> QED
  BY <1>3, <1>4

Prev == [v \in 1 .. Len(versions) |-> versions[v].prev]

LEMMA ChainIs ==
    ASSUME WalksBack(Prev, Len(versions))
    PROVE  \E c : /\ IsChain(c, Prev, Len(versions))
                  /\ \A v : ChainOf(v) = c[v]
<1> DEFINE Same(c) == c = [u \in 0 .. Len(versions) |->
                             IF u = NoCid THEN {} ELSE {u} \cup c[versions[u].prev]]
           chain == CHOOSE c : Same(c)
<1>1. \A v : ChainOf(v) = chain[v]
  BY DEF ChainOf
<1>2. ASSUME NEW c PROVE IsChain(c, Prev, Len(versions)) <=> Same(c)
  <2>1. \A u \in 0 .. Len(versions) : u # NoCid => Prev[u] = versions[u].prev
    BY DEF Prev, NoCid, WalksBack
  <2>2. [u \in 0 .. Len(versions) |-> IF u = NoCid THEN {} ELSE {u} \cup c[Prev[u]]]
      = [u \in 0 .. Len(versions) |-> IF u = NoCid THEN {} ELSE {u} \cup c[versions[u].prev]]
    BY <2>1
  <2> QED
    BY <2>2 DEF IsChain
<1>3. \E c : Same(c)
  BY <1>2, ChainExists
<1>4. Same(chain)
  <2> HIDE DEF Same
  <2> QED
   BY <1>3
<1> QED
  BY <1>1, <1>2, <1>4

(* Each version links back to an older one.                                *)
LinksOK ==
    /\ versions \in Seq([asset : Assets, prev : MaybeCid])
    /\ \A v \in Known : versions[v].prev \in 0 .. (v - 1)

(* The chains, as a function of the state.                                 *)
Chain == [v \in 0 .. Len(versions) |-> ChainOf(v)]

ChainsUnfold ==
    /\ \A v \in {NoCid} : Chain[v] = {}
    /\ \A v \in 1 .. Len(versions) : Chain[v] = {v} \cup Chain[versions[v].prev]

LEMMA Lengths ==
    ASSUME LinksOK
    PROVE  /\ Len(versions) \in Nat /\ Known = 1 .. Len(versions)
           /\ \A v \in Known : versions[v] \in [asset : Assets, prev : MaybeCid]
<1>1. versions \in Seq([asset : Assets, prev : MaybeCid])
  BY DEF LinksOK
<1> QED
  BY <1>1, LenProperties, ElementOfSeq DEF Known

LEMMA ChainsDoUnfold == LinksOK => ChainsUnfold
<1> SUFFICES ASSUME LinksOK PROVE ChainsUnfold
  OBVIOUS
<1>1. Len(versions) \in Nat /\ Known = 1 .. Len(versions)
  BY Lengths
<1>2. WalksBack(Prev, Len(versions))
  BY <1>1 DEF LinksOK, WalksBack, Prev
<1>3. PICK c : IsChain(c, Prev, Len(versions)) /\ \A v : ChainOf(v) = c[v]
  BY <1>2, ChainIs
<1>4. \A u \in 0 .. Len(versions) : c[u] = IF u = NoCid THEN {} ELSE {u} \cup c[Prev[u]]
  BY <1>3 DEF IsChain
<1>5. 0 \in 0 .. Len(versions) /\ 1 .. Len(versions) \subseteq 0 .. Len(versions)
      /\ 0 \notin 1 .. Len(versions)
  BY <1>1
<1>6. \A v \in 1 .. Len(versions) : Prev[v] = versions[v].prev
  BY DEF Prev
<1>7. \A v \in 1 .. Len(versions) : versions[v].prev \in 0 .. Len(versions)
  BY <1>1 DEF LinksOK
<1>8. \A v \in 0 .. Len(versions) : Chain[v] = c[v]
  BY <1>3 DEF Chain
<1> QED
  BY <1>4, <1>5, <1>6, <1>7, <1>8, Zenon DEF ChainsUnfold, NoCid

LEMMA ChainsUnfoldNext == (LinksOK => ChainsUnfold)'
  BY ChainsDoUnfold, PTL

LEMMA ChainFacts ==
    ASSUME LinksOK
    PROVE  /\ \A v \in 0 .. Len(versions) : Chain[v] = ChainOf(v) /\ Chain[v] \subseteq 1 .. v
           /\ Chain[NoCid] = {}
           /\ \A v \in Known : v \in Chain[v] /\ Chain[v] = {v} \cup Chain[versions[v].prev]
<1> DEFINE OK(v) == Chain[v] \subseteq 1 .. v
           bad == {v \in 0 .. Len(versions) : ~OK(v)}
<1>1. ChainsUnfold /\ Len(versions) \in Nat /\ Known = 1 .. Len(versions)
  BY ChainsDoUnfold, Lengths
<1>2. \A v \in 0 .. Len(versions) : Chain[v] = ChainOf(v)
  BY DEF Chain
<1>3. ASSUME bad # {} PROVE FALSE
  <2>1. bad \subseteq Nat
    OBVIOUS
  <2>2. PICK v \in bad : \A u \in bad : v <= u
    BY <1>3, <2>1, Minimal
  <2>3. v \in 1 .. Len(versions)
    BY <1>1, <2>2 DEF ChainsUnfold, NoCid
  <2>4. versions[v].prev \in 0 .. (v - 1) /\ Chain[v] = {v} \cup Chain[versions[v].prev]
    BY <1>1, <2>3 DEF ChainsUnfold, LinksOK
  <2>5. OK(versions[v].prev)
    BY <2>2, <2>3, <2>4
  <2>6. OK(v)
    BY <2>3, <2>4, <2>5
  <2> QED
    BY <2>2, <2>6
<1> QED
  BY <1>1, <1>2, <1>3 DEF ChainsUnfold

(* Where no version links to one of another asset, a chain is of one asset.  *)
LEMMA ChainIsOfOneAsset ==
    ASSUME LinksOK,
           \A v \in Known : versions[v].prev # NoCid =>
               versions[versions[v].prev].asset = versions[v].asset
    PROVE  \A v \in 0 .. Len(versions) : \A u \in Chain[v] : versions[u].asset = versions[v].asset
<1> DEFINE OK(v) == \A u \in Chain[v] : versions[u].asset = versions[v].asset
           bad == {v \in 0 .. Len(versions) : ~OK(v)}
<1>1. ChainsUnfold /\ Len(versions) \in Nat /\ Known = 1 .. Len(versions)
  BY ChainsDoUnfold, Lengths
<1> SUFFICES ASSUME bad # {} PROVE FALSE
  OBVIOUS
<1>2. bad \subseteq Nat
  OBVIOUS
<1>3. PICK v \in bad : \A u \in bad : v <= u
  BY <1>2, Minimal
<1>4. v \in 1 .. Len(versions)
  BY <1>1, <1>3 DEF ChainsUnfold, NoCid
<1>5. versions[v].prev \in 0 .. (v - 1) /\ Chain[v] = {v} \cup Chain[versions[v].prev]
  BY <1>1, <1>4 DEF ChainsUnfold, LinksOK
<1>6. OK(versions[v].prev)
  BY <1>3, <1>4, <1>5
<1>7. versions[v].prev = NoCid => Chain[versions[v].prev] = {}
  BY <1>1 DEF ChainsUnfold
<1>8. OK(v)
  BY <1>1, <1>4, <1>5, <1>6, <1>7
<1> QED
  BY <1>3, <1>8

(* A version that is written changes no chain.                             *)
LEMMA ChainsStay ==
    ASSUME LinksOK, LinksOK', Len(versions) <= Len(versions'),
           \A v \in Known : versions'[v] = versions[v]
    PROVE  \A v \in 0 .. Len(versions) : Chain'[v] = Chain[v]
<1> DEFINE bad == {v \in 0 .. Len(versions) : Chain'[v] # Chain[v]}
<1>1. /\ ChainsUnfold /\ ChainsUnfold' /\ Len(versions) \in Nat /\ Len(versions') \in Nat
      /\ Known = 1 .. Len(versions)
  BY ChainsDoUnfold, ChainsUnfoldNext, Lengths DEF LinksOK
<1> SUFFICES ASSUME bad # {} PROVE FALSE
  OBVIOUS
<1>2. bad \subseteq Nat
  OBVIOUS
<1>3. PICK v \in bad : \A u \in bad : v <= u
  BY <1>2, Minimal
<1>3a. CASE v = NoCid
  BY <1>1, <1>3, <1>3a, Zenon DEF ChainsUnfold
<1>3b. v \in 1 .. Len(versions) \/ v = NoCid
  BY <1>1, <1>3 DEF NoCid
<1> SUFFICES ASSUME v \in 1 .. Len(versions) PROVE FALSE
  BY <1>3a, <1>3b
<1>4. v \in 1 .. Len(versions)
  OBVIOUS
<1>5. versions[v].prev \in 0 .. (v - 1) /\ versions'[v].prev = versions[v].prev
  BY <1>1, <1>4 DEF LinksOK
<1>6. Chain'[versions[v].prev] = Chain[versions[v].prev]
  BY <1>3, <1>4, <1>5
<1>7. Chain[v] = {v} \cup Chain[versions[v].prev]
  BY <1>1, <1>4 DEF ChainsUnfold
<1>8. v \in 1 .. Len(versions')
  BY <1>1, <1>4
<1>9. Chain'[v] = {v} \cup Chain'[versions[v].prev]
  BY <1>1, <1>5, <1>8 DEF ChainsUnfold
<1> QED
  BY <1>3, <1>6, <1>7, <1>9

(* A version more.                                                         *)
LEMMA OneVersionMore ==
    ASSUME LinksOK, NEW v, v \in [asset : Assets, prev : MaybeCid],
           v.prev \in 0 .. Len(versions), versions' = Append(versions, v)
    PROVE  /\ LinksOK'
           /\ Len(versions') = Len(versions) + 1 /\ Known' = Known \cup {Len(versions) + 1}
           /\ versions'[Len(versions) + 1] = v
           /\ \A u \in Known : versions'[u] = versions[u]
           /\ \A u \in 0 .. Len(versions) : Chain'[u] = Chain[u]
           /\ Chain'[Len(versions) + 1] = {Len(versions) + 1} \cup Chain[v.prev]
<1>0. /\ Len(versions) \in Nat /\ Known = 1 .. Len(versions)
      /\ versions \in Seq([asset : Assets, prev : MaybeCid])
  BY Lengths DEF LinksOK
<1>1. /\ versions' \in Seq([asset : Assets, prev : MaybeCid])
      /\ Len(versions') = Len(versions) + 1
      /\ versions'[Len(versions) + 1] = v
      /\ \A u \in 1 .. Len(versions) : versions'[u] = versions[u]
  BY <1>0, AppendProperties
<1>2. Known' = 1 .. (Len(versions) + 1)
  BY <1>1 DEF Known
<1>3. LinksOK'
  BY <1>0, <1>1, <1>2 DEF LinksOK
<1>4. \A u \in 0 .. Len(versions) : Chain'[u] = Chain[u]
  BY <1>0, <1>1, <1>3, ChainsStay
<1>5. ChainsUnfold'
  BY <1>3, ChainsUnfoldNext
<1>6. Chain'[Len(versions) + 1] = {Len(versions) + 1} \cup Chain'[v.prev]
  <2>1. Len(versions) + 1 \in 1 .. Len(versions')
    BY <1>0, <1>1
  <2> QED
    BY <1>1, <1>5, <2>1 DEF ChainsUnfold
<1> QED
  BY <1>0, <1>1, <1>2, <1>3, <1>4, <1>6

(***************************************************************************)
(* Types: every CID in the state is that of a version that was written.    *)
(***************************************************************************)
LoadUpTo(n) ==
    {Idle}
    \cup [at : {"reading"}, how : {"entry", "token", "dive"}, asset : Assets, cid : 1 .. n]
    \cup [at : {"loading"}, how : {"open", "token", "restore", "send", "scrub"}, cid : 1 .. n, tip : 0 .. n]
    \cup [at : {"autosave"}]

OpUpTo(n) ==
    {Idle}
    \cup [at : {"building"}, asset : Assets, draft : BOOLEAN]
    \cup [at : {"writing"}, asset : Assets, draft : BOOLEAN, prev : 0 .. n]
    \cup [at : {"signing"}, id : Assets, cid : 1 .. n]

LevelUpTo(n) == [cid : 0 .. n, id : MaybeAsset, tip : 0 .. n, saved : SUBSET (1 .. n)]
StoreUpTo(n) == [active : 0 .. n, latest : 0 .. n, id : MaybeAsset]
ClockUpTo(n) == [root : 0 .. n, at : 0 .. n, navigating : BOOLEAN]

Scrubbing(r) == r.at = "loading" /\ r.how = "scrub"

\* The clock navigates exactly while one load of its own is under way.
Navigates ==
    /\ clock.navigating <=> \E l \in Loads : Scrubbing(loads[l])
    /\ \A l, k \in Loads : Scrubbing(loads[l]) /\ Scrubbing(loads[k]) => l = k

Typed ==
    /\ LinksOK
    /\ Len(versions) <= MaxVersions
    /\ listed \in [Assets -> 0 .. Len(versions)]
    /\ store \in StoreUpTo(Len(versions))
    /\ clock \in ClockUpTo(Len(versions))
    /\ scene \in [filled : BOOLEAN, draft : BOOLEAN]
    /\ loads \in [Loads -> LoadUpTo(Len(versions))]
    /\ ops \in [{"save", "publish"} -> OpUpTo(Len(versions))]
    /\ stack \in Seq(LevelUpTo(Len(versions)))
    /\ saved \subseteq 1 .. Len(versions)
    /\ Navigates

LEMMA LoadKinds ==
    ASSUME NEW n, NEW r \in LoadUpTo(n)
    PROVE  /\ r.at \in {"idle", "reading", "loading", "autosave"}
           /\ r.at = "idle" <=> r = Idle
           /\ r.at = "reading" => r \in [at : {"reading"}, how : {"entry", "token", "dive"}, asset : Assets, cid : 1 .. n]
           /\ r.at = "loading" => r \in [at : {"loading"}, how : {"open", "token", "restore", "send", "scrub"}, cid : 1 .. n, tip : 0 .. n]
  BY DEF LoadUpTo, Idle

LEMMA OpKinds ==
    ASSUME NEW n, NEW r \in OpUpTo(n)
    PROVE  /\ r.at \in {"idle", "building", "writing", "signing"}
           /\ r.at = "idle" <=> r = Idle
           /\ r.at = "building" => r \in [at : {"building"}, asset : Assets, draft : BOOLEAN]
           /\ r.at = "writing" => r \in [at : {"writing"}, asset : Assets, draft : BOOLEAN, prev : 0 .. n]
           /\ r.at = "signing" => r \in [at : {"signing"}, id : Assets, cid : 1 .. n]
  BY DEF OpUpTo, Idle

LEMMA Grows ==
    ASSUME NEW n \in Nat, NEW m \in Nat, n <= m
    PROVE  /\ 0 .. n \subseteq 0 .. m /\ 1 .. n \subseteq 1 .. m
           /\ LoadUpTo(n) \subseteq LoadUpTo(m) /\ OpUpTo(n) \subseteq OpUpTo(m)
           /\ LevelUpTo(n) \subseteq LevelUpTo(m)
           /\ StoreUpTo(n) \subseteq StoreUpTo(m) /\ ClockUpTo(n) \subseteq ClockUpTo(m)
<1>1. 0 .. n \subseteq 0 .. m /\ 1 .. n \subseteq 1 .. m
  OBVIOUS
<1>2. LoadUpTo(n) \subseteq LoadUpTo(m)
  BY <1>1 DEF LoadUpTo
<1>3. OpUpTo(n) \subseteq OpUpTo(m)
  BY <1>1 DEF OpUpTo
<1>4. LevelUpTo(n) \subseteq LevelUpTo(m)
  BY <1>1 DEF LevelUpTo
<1>5. StoreUpTo(n) \subseteq StoreUpTo(m) /\ ClockUpTo(n) \subseteq ClockUpTo(m)
  BY <1>1 DEF StoreUpTo, ClockUpTo
<1> QED
  BY <1>1, <1>2, <1>3, <1>4, <1>5

LEMMA TypedIsTypeOK == Typed => TypeOK
<1> SUFFICES ASSUME Typed PROVE TypeOK
  OBVIOUS
<1>1. Len(versions) \in Nat /\ MaxVersions \in Nat /\ Len(versions) <= MaxVersions
  BY Lengths, BoundsAssumption DEF Typed
<1>2. 0 .. Len(versions) \subseteq MaybeCid /\ 1 .. Len(versions) \subseteq Cids
  BY <1>1 DEF MaybeCid, Cids, NoCid
<1>3. LoadUpTo(Len(versions)) \subseteq Load
  BY <1>2 DEF LoadUpTo, Load
<1>4. OpUpTo(Len(versions)) \subseteq Op
  BY <1>2 DEF OpUpTo, Op
<1>5. store \in [active : MaybeCid, latest : MaybeCid, id : MaybeAsset]
  BY <1>2 DEF Typed, StoreUpTo
<1>6. clock \in [root : MaybeCid, at : MaybeCid, navigating : BOOLEAN]
  BY <1>2 DEF Typed, ClockUpTo
<1>7. loads \in [Loads -> Load] /\ ops \in [{"save", "publish"} -> Op]
  BY <1>3, <1>4 DEF Typed
<1>8. listed \in [Assets -> MaybeCid] /\ saved \subseteq Cids
  BY <1>2 DEF Typed
<1>9. clock.navigating <=> \E l \in Loads : loads[l].at = "loading" /\ loads[l].how = "scrub"
  BY DEF Typed, Navigates, Scrubbing
<1> QED
  BY <1>1, <1>5, <1>6, <1>7, <1>8, <1>9 DEF Typed, TypeOK, LinksOK

LEMMA RefreshedTyped ==
    ASSUME NEW n \in Nat, NEW k \in ClockUpTo(n), NEW c \in 0 .. n
    PROVE  Refreshed(k, c) \in ClockUpTo(n) /\ Refreshed(k, c).navigating = k.navigating
  BY DEF Refreshed, ClockUpTo, NoCid

(* A step of a load that is not the clock's leaves the lock as it is.      *)
LEMMA StillNavigates ==
    ASSUME Navigates, DOMAIN loads = Loads, NEW l \in Loads, NEW r,
           loads' = [loads EXCEPT ![l] = r],
           ~ Scrubbing(loads[l]), ~ Scrubbing(r),
           clock'.navigating = clock.navigating
    PROVE  Navigates'
<1>1. \A k \in Loads : Scrubbing(loads'[k]) <=> Scrubbing(loads[k])
  BY DEF Scrubbing
<1> QED
  BY <1>1 DEF Navigates, Scrubbing

LEMMA NavigatesOn ==
    ASSUME Navigates, loads' = loads, clock'.navigating = clock.navigating
    PROVE  Navigates'
  BY DEF Navigates, Scrubbing

(* What a step that writes no version has to show.                         *)
LEMMA TypedStays ==
    ASSUME Typed, versions' = versions,
           listed' \in [Assets -> 0 .. Len(versions)],
           store' \in StoreUpTo(Len(versions)),
           clock' \in ClockUpTo(Len(versions)),
           scene' \in [filled : BOOLEAN, draft : BOOLEAN],
           loads' \in [Loads -> LoadUpTo(Len(versions))],
           ops' \in [{"save", "publish"} -> OpUpTo(Len(versions))],
           stack' \in Seq(LevelUpTo(Len(versions))),
           saved' \subseteq 1 .. Len(versions),
           Navigates'
    PROVE  Typed'
<1>1. LinksOK'
  BY DEF Typed, LinksOK, Known
<1> QED
  BY <1>1 DEF Typed, Navigates

LEMMA TypedInit == Init => Typed
<1> SUFFICES ASSUME Init PROVE Typed
  OBVIOUS
<1>1. versions = <<>> /\ Len(versions) = 0 /\ Known = {}
  BY DEF Init, Known
<1>2. LinksOK
  BY <1>1 DEF LinksOK
<1>3. NoCid \in 0 .. 0 /\ None \in MaybeAsset
  BY DEF NoCid, MaybeAsset
<1>4. store \in StoreUpTo(0) /\ clock \in ClockUpTo(0) /\ scene \in [filled : BOOLEAN, draft : BOOLEAN]
  BY <1>3 DEF Init, StoreUpTo, ClockUpTo
<1>5. loads \in [Loads -> LoadUpTo(0)] /\ ops \in [{"save", "publish"} -> OpUpTo(0)]
  BY DEF Init, LoadUpTo, OpUpTo
<1>6. Navigates
  BY DEF Init, Navigates, Scrubbing, Idle
<1>7. listed \in [Assets -> 0 .. 0] /\ stack \in Seq(LevelUpTo(0)) /\ saved \subseteq 1 .. 0
  BY <1>3 DEF Init
<1> QED
  BY <1>1, <1>2, <1>4, <1>5, <1>6, <1>7, BoundsAssumption DEF Typed

LEMMA Shapes ==
    ASSUME Typed
    PROVE  /\ Len(versions) \in Nat /\ Known = 1 .. Len(versions)
           /\ \A v \in Known : versions[v] \in [asset : Assets, prev : MaybeCid]
           /\ NoCid \in 0 .. Len(versions) /\ NoCid \notin Known
           /\ \A c \in 0 .. Len(versions) : c # NoCid => c \in Known
           /\ listed \in [Assets -> 0 .. Len(versions)]
           /\ store \in StoreUpTo(Len(versions)) /\ clock \in ClockUpTo(Len(versions))
           /\ scene \in [filled : BOOLEAN, draft : BOOLEAN]
           /\ loads \in [Loads -> LoadUpTo(Len(versions))]
           /\ ops \in [{"save", "publish"} -> OpUpTo(Len(versions))]
           /\ stack \in Seq(LevelUpTo(Len(versions)))
           /\ saved \subseteq 1 .. Len(versions)
           /\ Navigates
  BY Lengths DEF Typed, NoCid

----------------------------------------------------------------------------
LEMMA StoreSteps ==
    ASSUME NEW n \in Nat, NEW s \in StoreUpTo(n), NEW c \in 0 .. n, NEW a \in MaybeAsset
    PROVE  /\ Cleared(s) \in StoreUpTo(n) /\ Closed(s) \in StoreUpTo(n)
           /\ Opened(s, c, a) \in StoreUpTo(n) /\ Recorded(s, c) \in StoreUpTo(n)
<1>1. NoCid \in 0 .. n /\ None \in MaybeAsset
  BY DEF NoCid, MaybeAsset
<1> QED
  BY <1>1 DEF StoreUpTo, Cleared, Closed, Opened, Recorded

LEMMA EmptyTyped == Empty \in [filled : BOOLEAN, draft : BOOLEAN]
  BY DEF Empty

LEMMA IdleTyped == \A n : Idle \in LoadUpTo(n) /\ Idle \in OpUpTo(n) /\ ~ Scrubbing(Idle)
  BY DEF LoadUpTo, OpUpTo, Scrubbing, Idle

LEMMA TypedBeginOpen ==
    ASSUME Typed, NEW l \in Loads, NEW how \in {"entry", "token", "dive"}, NEW a \in Assets,
           BeginOpen(l, how, a)
    PROVE  Typed'
<1>1. listed[a] \in 1 .. Len(versions)
  BY Shapes DEF BeginOpen, NoCid
<1>2. [at |-> "reading", how |-> how, asset |-> a, cid |-> listed[a]] \in LoadUpTo(Len(versions))
  BY <1>1 DEF LoadUpTo
<1>3. Navigates'
  <2>1. ~ Scrubbing([at |-> "reading", how |-> how, asset |-> a, cid |-> listed[a]])
    BY DEF Scrubbing
  <2>2. clock'.navigating = clock.navigating /\ loads[l] = Idle
    BY DEF BeginOpen
  <2> QED
    BY <2>1, <2>2, Shapes, IdleTyped, StillNavigates DEF BeginOpen
<1>4. store' \in StoreUpTo(Len(versions))
  BY Shapes, StoreSteps DEF BeginOpen, StoreUpTo
<1> QED
  BY <1>2, <1>3, <1>4, Shapes, TypedStays, EmptyTyped DEF BeginOpen

LEMMA TypedAdopt ==
    ASSUME Typed, NEW l \in Loads, Adopt(l)
    PROVE  Typed'
<1> DEFINE r == loads[l]
           new == [at |-> "loading", how |-> IF r.how = "token" THEN "token" ELSE "open", cid |-> r.cid, tip |-> NoCid]
           up == [cid |-> store.active, id |-> store.id, tip |-> store.latest, saved |-> saved]
<1>1. r.cid \in 1 .. Len(versions) /\ r.asset \in Assets /\ r.at = "reading"
  BY Shapes, LoadKinds DEF Adopt
<1>2. new \in LoadUpTo(Len(versions)) /\ ~ Scrubbing(new) /\ ~ Scrubbing(r)
  BY <1>1, Shapes DEF LoadUpTo, Scrubbing
<1>3. loads' = [loads EXCEPT ![l] = new]
  BY DEF Adopt, StartLoad
<1>4. Navigates'
  BY <1>2, <1>3, Shapes, StillNavigates DEF Adopt
<1>5. store' \in StoreUpTo(Len(versions))
  <2>1. store.id \in MaybeAsset /\ versions[r.cid].asset \in MaybeAsset /\ r.asset \in MaybeAsset
    BY <1>1, Shapes DEF StoreUpTo, MaybeAsset
  <2>2. AdoptedId(r) \in MaybeAsset
    BY <2>1 DEF AdoptedId
  <2>3. r.cid \in 0 .. Len(versions)
    BY <1>1
  <2> QED
    BY <2>2, <2>3, Shapes, StoreSteps DEF Adopt
<1>6. stack' \in Seq(LevelUpTo(Len(versions)))
  <2>1. up \in LevelUpTo(Len(versions))
    BY Shapes DEF StoreUpTo, LevelUpTo
  <2>2. Append(stack, up) \in Seq(LevelUpTo(Len(versions)))
    BY <2>1, Shapes, AppendProperties
  <2>3. stack' = Append(stack, up) \/ stack' = stack
    BY DEF Adopt
  <2> QED
    BY <2>2, <2>3, Shapes
<1>7. loads' \in [Loads -> LoadUpTo(Len(versions))]
  BY <1>2, <1>3, Shapes
<1>8. saved' \subseteq 1 .. Len(versions)
  BY DEF Adopt
<1> QED
  BY <1>4, <1>5, <1>6, <1>7, <1>8, Shapes, TypedStays, EmptyTyped DEF Adopt

LEMMA TypedReadFails ==
    ASSUME Typed, NEW l \in Loads, ReadFails(l)
    PROVE  Typed'
<1>1. ~ Scrubbing(loads[l])
  BY DEF ReadFails, Scrubbing
<1>2. loads' = [loads EXCEPT ![l] = Idle] /\ loads' \in [Loads -> LoadUpTo(Len(versions))]
  BY Shapes, IdleTyped DEF ReadFails
<1>3. Navigates'
  BY <1>1, <1>2, Shapes, IdleTyped, StillNavigates DEF ReadFails
<1>4. store' \in StoreUpTo(Len(versions))
  BY Shapes, StoreSteps DEF ReadFails, StoreUpTo
<1> QED
  BY <1>2, <1>3, <1>4, Shapes, TypedStays, EmptyTyped DEF ReadFails

LEMMA TypedAscend ==
    ASSUME Typed, NEW l \in Loads, Ascend(l)
    PROVE  Typed'
<1> DEFINE up == stack[Len(stack)]
           new == [at |-> "loading", how |-> "open", cid |-> up.cid, tip |-> NoCid]
<1>1. stack # <<>> /\ up.cid # NoCid /\ loads[l] = Idle
  BY DEF Ascend
<1>2. Len(stack) \in 1 .. Len(stack) /\ Len(stack) \in Nat /\ Len(stack) - 1 \in Nat
  BY <1>1, Shapes, EmptySeq, LenProperties
<1>3. up \in LevelUpTo(Len(versions))
  BY <1>2, Shapes, ElementOfSeq
<1>4. /\ up.cid \in 1 .. Len(versions) /\ up.cid \in 0 .. Len(versions)
      /\ up.id \in MaybeAsset /\ up.saved \subseteq 1 .. Len(versions)
  BY <1>1, <1>3, Shapes DEF LevelUpTo, NoCid
<1>5. new \in LoadUpTo(Len(versions)) /\ ~ Scrubbing(new)
  BY <1>4, Shapes DEF LoadUpTo, Scrubbing
<1>6. loads' = [loads EXCEPT ![l] = new]
  BY DEF Ascend, StartLoad
<1>7. Navigates'
  BY <1>1, <1>5, <1>6, Shapes, IdleTyped, StillNavigates DEF Ascend
<1>8. store' \in StoreUpTo(Len(versions))
  BY <1>4, Shapes, StoreSteps DEF Ascend
<1>9. stack' \in Seq(LevelUpTo(Len(versions)))
  <2>1. stack' = SubSeq(stack, 1, Len(stack) - 1)
    BY DEF Ascend
  <2> QED
    BY <1>2, <2>1, Shapes, SubSeqProperties
<1>10. loads' \in [Loads -> LoadUpTo(Len(versions))]
  BY <1>5, <1>6, Shapes
<1>11. saved' \subseteq 1 .. Len(versions)
  BY <1>4 DEF Ascend
<1> QED
  BY <1>7, <1>8, <1>9, <1>10, <1>11, Shapes, TypedStays, EmptyTyped DEF Ascend

LEMMA TypedNewAsset == Typed /\ NewAsset => Typed'
<1> SUFFICES ASSUME Typed, NewAsset PROVE Typed'
  OBVIOUS
<1>1. store' \in StoreUpTo(Len(versions))
  BY Shapes, StoreSteps DEF NewAsset, StoreUpTo
<1>2. clock' \in ClockUpTo(Len(versions)) /\ clock'.navigating = clock.navigating
  BY Shapes DEF NewAsset, ClockUpTo, NoCid
<1>3. Navigates'
  BY <1>2, Shapes, NavigatesOn DEF NewAsset
<1>4. saved' \subseteq 1 .. Len(versions) /\ scene' \in [filled : BOOLEAN, draft : BOOLEAN]
  BY DEF NewAsset
<1> QED
  BY <1>1, <1>2, <1>3, <1>4, Shapes, TypedStays DEF NewAsset

LEMMA TypedDropIntoEmpty == Typed /\ DropIntoEmpty => Typed'
<1> SUFFICES ASSUME Typed, DropIntoEmpty PROVE Typed'
  OBVIOUS
<1>3. Navigates'
  BY Shapes, NavigatesOn DEF DropIntoEmpty
<1>4. saved' \subseteq 1 .. Len(versions) /\ scene' \in [filled : BOOLEAN, draft : BOOLEAN]
  BY Shapes DEF DropIntoEmpty
<1> QED
  BY <1>3, <1>4, Shapes, TypedStays DEF DropIntoEmpty

LEMMA TypedRestore ==
    ASSUME Typed, NEW l \in Loads, NEW c \in Known, Restore(l, c)
    PROVE  Typed'
<1> DEFINE new == [at |-> "loading", how |-> "restore", cid |-> c, tip |-> store.latest]
<1>1. new \in LoadUpTo(Len(versions)) /\ ~ Scrubbing(new)
  BY Shapes DEF LoadUpTo, Scrubbing, StoreUpTo
<1>2. loads' = [loads EXCEPT ![l] = new] /\ loads[l] = Idle
  BY DEF Restore, StartLoad
<1>3. Navigates'
  BY <1>1, <1>2, Shapes, IdleTyped, StillNavigates DEF Restore
<1>4. store' \in StoreUpTo(Len(versions))
  <2>1. Cleared(store) \in StoreUpTo(Len(versions))
    BY Shapes, StoreSteps DEF StoreUpTo
  <2>2. [store EXCEPT !.active = c] \in StoreUpTo(Len(versions))
    BY Shapes DEF StoreUpTo
  <2> QED
    BY <2>1, <2>2 DEF Restore
<1>5. loads' \in [Loads -> LoadUpTo(Len(versions))]
  BY <1>1, <1>2, Shapes
<1> QED
  BY <1>3, <1>4, <1>5, Shapes, TypedStays, EmptyTyped DEF Restore

LEMMA TypedScrub ==
    ASSUME Typed, NEW l \in Loads, NEW c \in Known, Scrub(l, c)
    PROVE  Typed'
<1> DEFINE new == [at |-> "loading", how |-> "scrub", cid |-> c, tip |-> clock.at]
<1>1. new \in LoadUpTo(Len(versions)) /\ Scrubbing(new)
  BY Shapes DEF LoadUpTo, Scrubbing, ClockUpTo
<1>2. loads' = [loads EXCEPT ![l] = new] /\ loads[l] = Idle
  BY DEF Scrub, StartLoad
<1>3. clock' \in ClockUpTo(Len(versions)) /\ clock'.navigating = TRUE /\ ~ clock.navigating
  <2>1. clock' = [clock EXCEPT !.navigating = TRUE, !.at = c] /\ ~ clock.navigating
    BY DEF Scrub
  <2>2. c \in 0 .. Len(versions) /\ clock \in [root : 0 .. Len(versions), at : 0 .. Len(versions), navigating : BOOLEAN]
    BY Shapes DEF ClockUpTo
  <2>3. clock' \in [root : 0 .. Len(versions), at : 0 .. Len(versions), navigating : BOOLEAN]
    BY <2>1, <2>2
  <2> QED
    BY <2>1, <2>2, <2>3 DEF ClockUpTo
<1>4. Navigates'
  <2>1. \A k \in Loads : ~ Scrubbing(loads[k])
    BY <1>3, Shapes DEF Navigates
  <2>2. Scrubbing(loads'[l]) /\ \A k \in Loads : k # l => loads'[k] = loads[k]
    BY <1>1, <1>2, Shapes
  <2>3. \A k \in Loads : Scrubbing(loads'[k]) <=> k = l
    BY <2>1, <2>2 DEF Scrubbing
  <2> QED
    BY <1>3, <2>3 DEF Navigates, Scrubbing
<1>5. store' \in StoreUpTo(Len(versions))
  <2>1. KeptTip \in 0 .. Len(versions)
    BY Shapes DEF KeptTip, StoreUpTo, ClockUpTo
  <2> QED
    BY <2>1, Shapes DEF Scrub, Cleared, StoreUpTo
<1>6. loads' \in [Loads -> LoadUpTo(Len(versions))]
  BY <1>1, <1>2, Shapes
<1> QED
  BY <1>3, <1>4, <1>5, <1>6, Shapes, TypedStays, EmptyTyped DEF Scrub

(* A load of the clock's that ends unlocks it.                             *)
LEMMA NavigatesNoMore ==
    ASSUME Navigates, DOMAIN loads = Loads, NEW l \in Loads, NEW r,
           loads' = [loads EXCEPT ![l] = r],
           Scrubbing(loads[l]), ~ Scrubbing(r), clock'.navigating = FALSE
    PROVE  Navigates'
<1>1. \A k \in Loads : ~ Scrubbing(loads'[k])
  <2>1. ~ Scrubbing(loads'[l]) /\ \A k \in Loads : k # l => loads'[k] = loads[k]
    OBVIOUS
  <2>2. \A k \in Loads : k # l => ~ Scrubbing(loads[k])
    BY DEF Navigates
  <2> QED
    BY <2>1, <2>2 DEF Scrubbing
<1> QED
  BY <1>1 DEF Navigates, Scrubbing

LEMMA TypedLoaded ==
    ASSUME Typed, NEW l \in Loads, Loaded(l)
    PROVE  Typed'
<1> DEFINE r == loads[l]
           new == IF r.how = "send" THEN [at |-> "autosave"] ELSE Idle
           ready == Refreshed(clock, r.cid)
<1>1. r.at = "loading" /\ r.cid \in 0 .. Len(versions) /\ r.tip \in 0 .. Len(versions)
  BY Shapes, LoadKinds DEF Loaded
<1>2. loads' = [loads EXCEPT ![l] = new]
  BY DEF Loaded
<1>3. new \in LoadUpTo(Len(versions)) /\ ~ Scrubbing(new)
  BY IdleTyped DEF LoadUpTo, Scrubbing
<1>4. ready \in ClockUpTo(Len(versions)) /\ ready.navigating = clock.navigating
  BY <1>1, Shapes, RefreshedTyped
<1>5. clock' = IF r.how = "scrub" THEN [ready EXCEPT !.navigating = FALSE] ELSE ready
  BY DEF Loaded
<1> HIDE DEF new, ready
<1>6. /\ clock' \in ClockUpTo(Len(versions))
      /\ clock'.navigating = IF r.how = "scrub" THEN FALSE ELSE clock.navigating
  BY <1>4, <1>5 DEF ClockUpTo
<1>7. Navigates'
  <2>1. CASE r.how = "scrub"
    BY <1>1, <1>2, <1>3, <1>6, <2>1, Shapes, NavigatesNoMore DEF Scrubbing
  <2>2. CASE r.how # "scrub"
    BY <1>1, <1>2, <1>3, <1>6, <2>2, Shapes, StillNavigates DEF Scrubbing
  <2> QED
    BY <2>1, <2>2
<1>8. store' \in StoreUpTo(Len(versions))
  BY <1>1, Shapes DEF Loaded, StoreUpTo
<1>9. loads' \in [Loads -> LoadUpTo(Len(versions))]
  BY <1>2, <1>3, Shapes
<1>10. scene' \in [filled : BOOLEAN, draft : BOOLEAN]
  BY Shapes DEF Loaded
<1> QED
  BY <1>6, <1>7, <1>8, <1>9, <1>10, Shapes, TypedStays DEF Loaded

LEMMA TypedLoadFails ==
    ASSUME Typed, NEW l \in Loads, LoadFails(l)
    PROVE  Typed'
<1> DEFINE r == loads[l]
<1>1. r.at = "loading" /\ r.tip \in 0 .. Len(versions)
  BY Shapes, LoadKinds DEF LoadFails
<1>2. loads' = [loads EXCEPT ![l] = Idle] /\ loads' \in [Loads -> LoadUpTo(Len(versions))]
  BY Shapes, IdleTyped DEF LoadFails
<1>6. /\ clock' \in ClockUpTo(Len(versions))
      /\ clock'.navigating = IF r.how = "scrub" THEN FALSE ELSE clock.navigating
  BY <1>1, Shapes DEF LoadFails, ClockAfterFailure, ClockUpTo
<1>7. Navigates'
  <2>1. CASE r.how = "scrub"
    BY <1>1, <1>2, <1>6, <2>1, Shapes, IdleTyped, NavigatesNoMore DEF Scrubbing
  <2>2. CASE r.how # "scrub"
    BY <1>1, <1>2, <1>6, <2>2, Shapes, IdleTyped, StillNavigates DEF Scrubbing
  <2> QED
    BY <2>1, <2>2
<1>8. store' \in StoreUpTo(Len(versions))
  BY Shapes, StoreSteps DEF LoadFails, StoreUpTo
<1> QED
  BY <1>2, <1>6, <1>7, <1>8, Shapes, TypedStays, EmptyTyped DEF LoadFails

LEMMA TypedRefresh == Typed /\ Refresh => Typed'
<1> SUFFICES ASSUME Typed, Refresh PROVE Typed'
  OBVIOUS
<1>1. store.active \in 0 .. Len(versions)
  BY Shapes DEF StoreUpTo
<1>2. clock' \in ClockUpTo(Len(versions)) /\ clock'.navigating = clock.navigating
  BY <1>1, Shapes, RefreshedTyped DEF Refresh
<1>3. Navigates'
  BY <1>2, Shapes, NavigatesOn DEF Refresh
<1> QED
  BY <1>2, <1>3, Shapes, TypedStays DEF Refresh

LEMMA StartSaveTyped ==
    ASSUME Typed, NEW o \in {"save", "publish"}, StartSave(o)
    PROVE  ops' \in [{"save", "publish"} -> OpUpTo(Len(versions))]
<1>1. Base \subseteq Assets
  <2>1. store.active # NoCid => store.active \in Known
    BY Shapes DEF StoreUpTo
  <2> QED
    BY <2>1, Shapes DEF Base
<1>2. PICK a \in Base : ops' = [ops EXCEPT ![o] = [at |-> "building", asset |-> a, draft |-> store.active = NoCid]]
  BY DEF StartSave
<1>3. [at |-> "building", asset |-> a, draft |-> store.active = NoCid] \in OpUpTo(Len(versions))
  BY <1>1 DEF OpUpTo
<1> QED
  BY <1>2, <1>3, Shapes

LEMMA TypedSave ==
    ASSUME Typed, NEW o \in {"save", "publish"}, Save(o)
    PROVE  Typed'
<1>1. ops' \in [{"save", "publish"} -> OpUpTo(Len(versions))]
  BY StartSaveTyped DEF Save
<1>2. Navigates'
  BY Shapes, NavigatesOn DEF Save
<1> QED
  BY <1>1, <1>2, Shapes, TypedStays DEF Save

LEMMA TypedAutoSave ==
    ASSUME Typed, NEW l \in Loads, AutoSave(l)
    PROVE  Typed'
<1>1. ops' \in [{"save", "publish"} -> OpUpTo(Len(versions))]
  <2>1. StartSave("save") \/ ops' = ops
    BY DEF AutoSave
  <2> QED
    BY <2>1, StartSaveTyped, Shapes
<1>2. loads' = [loads EXCEPT ![l] = Idle] /\ loads' \in [Loads -> LoadUpTo(Len(versions))]
  BY Shapes, IdleTyped DEF AutoSave
<1>3. Navigates'
  BY <1>2, Shapes, IdleTyped, StillNavigates DEF AutoSave, Scrubbing
<1> QED
  BY <1>1, <1>2, <1>3, Shapes, TypedStays DEF AutoSave

LEMMA TypedResolve ==
    ASSUME Typed, NEW o \in {"save", "publish"}, Resolve(o)
    PROVE  Typed'
<1>1. PICK prev \in 0 .. Len(versions) :
        ops' = [ops EXCEPT ![o] = [at |-> "writing", asset |-> ops[o].asset, draft |-> ops[o].draft, prev |-> prev]]
  BY Shapes DEF Resolve, StoreUpTo
<1>2. ops[o].asset \in Assets /\ ops[o].draft \in BOOLEAN
  BY Shapes, OpKinds DEF Resolve
<1>3. [at |-> "writing", asset |-> ops[o].asset, draft |-> ops[o].draft, prev |-> prev] \in OpUpTo(Len(versions))
  BY <1>2 DEF OpUpTo
<1>4. ops' \in [{"save", "publish"} -> OpUpTo(Len(versions))]
  BY <1>1, <1>3, Shapes
<1>5. Navigates'
  BY Shapes, NavigatesOn DEF Resolve
<1> QED
  BY <1>4, <1>5, Shapes, TypedStays DEF Resolve

LEMMA AfterWriteTyped ==
    ASSUME Typed, NEW o, NEW a \in Assets, NEW n, NEW c \in 1 .. n
    PROVE  AfterWrite(o, a, c) \in OpUpTo(n)
<1>1. store.id # None => store.id \in Assets
  BY Shapes DEF StoreUpTo, MaybeAsset
<1> QED
  BY <1>1 DEF AfterWrite, OpUpTo

LEMMA TypedNoChanges ==
    ASSUME Typed, NEW o \in {"save", "publish"}, NoChanges(o)
    PROVE  Typed'
<1>1. ops[o].prev \in Known
  BY Shapes, OpKinds DEF NoChanges
<1>2. AfterWrite(o, versions[ops[o].prev].asset, ops[o].prev) \in OpUpTo(Len(versions))
  BY <1>1, Shapes, AfterWriteTyped
<1>3. ops' \in [{"save", "publish"} -> OpUpTo(Len(versions))]
  BY <1>2, Shapes DEF NoChanges
<1>4. Navigates'
  BY Shapes, NavigatesOn DEF NoChanges
<1>5. scene' \in [filled : BOOLEAN, draft : BOOLEAN]
  BY Shapes DEF NoChanges
<1> QED
  BY <1>3, <1>4, <1>5, Shapes, TypedStays DEF NoChanges

LEMMA TypedMined == Typed /\ Mined => Typed'
<1> SUFFICES ASSUME Typed, Mined PROVE Typed'
  OBVIOUS
<1> DEFINE r == ops["publish"]
<1>1. r.id \in Assets /\ r.id \in MaybeAsset /\ r.cid \in 0 .. Len(versions)
  BY Shapes, OpKinds DEF Mined, MaybeAsset
<1>2. listed' \in [Assets -> 0 .. Len(versions)]
  BY <1>1, Shapes DEF Mined
<1>3. store' \in StoreUpTo(Len(versions))
  BY <1>1, Shapes DEF Mined, StoreUpTo
<1>4. ops' \in [{"save", "publish"} -> OpUpTo(Len(versions))]
  BY Shapes, IdleTyped DEF Mined
<1>5. Navigates'
  BY Shapes, NavigatesOn DEF Mined
<1> QED
  BY <1>2, <1>3, <1>4, <1>5, Shapes, TypedStays DEF Mined

LEMMA TypedOpFails ==
    ASSUME Typed, NEW o \in {"save", "publish"}, OpFails(o)
    PROVE  Typed'
<1>1. ops' \in [{"save", "publish"} -> OpUpTo(Len(versions))]
  BY Shapes, IdleTyped DEF OpFails
<1>2. Navigates'
  BY Shapes, NavigatesOn DEF OpFails
<1> QED
  BY <1>1, <1>2, Shapes, TypedStays DEF OpFails

LEMMA TypedStutters ==
    ASSUME Typed, UNCHANGED vars
    PROVE  Typed'
<1>1. Navigates'
  BY Shapes, NavigatesOn DEF vars
<1> QED
  BY <1>1, Shapes, TypedStays DEF vars

(* What a step that writes a version has to show.                          *)
LEMMA TypedGrows ==
    ASSUME Typed, NEW v, v \in [asset : Assets, prev : MaybeCid],
           v.prev \in 0 .. Len(versions), versions' = Append(versions, v),
           Len(versions) < MaxVersions,
           listed' = listed, stack' = stack,
           store' \in StoreUpTo(Len(versions) + 1),
           clock' \in ClockUpTo(Len(versions) + 1),
           scene' \in [filled : BOOLEAN, draft : BOOLEAN],
           loads' \in [Loads -> LoadUpTo(Len(versions) + 1)],
           ops' \in [{"save", "publish"} -> OpUpTo(Len(versions) + 1)],
           saved' \subseteq 1 .. (Len(versions) + 1),
           Navigates'
    PROVE  Typed'
<1>1. LinksOK /\ LinksOK' /\ Len(versions') = Len(versions) + 1
  BY OneVersionMore DEF Typed
<1>2. Len(versions) \in Nat /\ MaxVersions \in Nat
  BY Shapes, BoundsAssumption
<1>3. /\ 0 .. Len(versions) \subseteq 0 .. (Len(versions) + 1)
      /\ LevelUpTo(Len(versions)) \subseteq LevelUpTo(Len(versions) + 1)
  BY <1>2, Grows
<1>4. listed' \in [Assets -> 0 .. (Len(versions) + 1)]
  BY <1>3, Shapes
<1>5. stack' \in Seq(LevelUpTo(Len(versions) + 1))
  <2>1. stack \in Seq(LevelUpTo(Len(versions)))
    BY Shapes
  <2> QED
    BY <1>3, <2>1
<1>6. Len(versions') <= MaxVersions
  BY <1>1, <1>2
<1> QED
  BY <1>1, <1>4, <1>5, <1>6 DEF Typed, Navigates

LEMMA TypedSend ==
    ASSUME Typed, NEW l \in Loads, Send(l)
    PROVE  Typed'
<1> DEFINE c == Len(versions) + 1
           new == [at |-> "loading", how |-> "send", cid |-> c, tip |-> NoCid]
<1>1. /\ loads[l] = Idle /\ c <= MaxVersions
      /\ loads' = [loads EXCEPT ![l] = new]
      /\ store' = IF scene.filled THEN Cleared(store) ELSE Opened(store, c, store.id)
      /\ listed' = listed /\ clock' = clock /\ ops' = ops /\ stack' = stack
  BY DEF Send, StartLoad
<1>2. PICK base \in Known \cup {NoCid}, a \in Assets :
        /\ versions' = Append(versions, [asset |-> a, prev |-> base])
        /\ scene' = [filled |-> FALSE, draft |-> scene.draft /\ base = NoCid /\ ~ scene.filled]
        /\ saved' = IF base = NoCid THEN {} ELSE saved
  BY DEF Send
<1>3. Len(versions) \in Nat /\ MaxVersions \in Nat /\ c \in Nat /\ c \in 1 .. c /\ c \in 0 .. c
  BY Shapes, BoundsAssumption
<1>4. /\ LoadUpTo(Len(versions)) \subseteq LoadUpTo(c) /\ OpUpTo(Len(versions)) \subseteq OpUpTo(c)
      /\ StoreUpTo(Len(versions)) \subseteq StoreUpTo(c) /\ ClockUpTo(Len(versions)) \subseteq ClockUpTo(c)
      /\ 1 .. Len(versions) \subseteq 1 .. c
  BY <1>3, Grows
<1>5. /\ base \in 0 .. Len(versions)
      /\ [asset |-> a, prev |-> base] \in [asset : Assets, prev : MaybeCid]
  <2>1. base \in 0 .. Len(versions)
    BY Shapes
  <2>2. base \in MaybeCid
    BY <2>1, <1>1, <1>3 DEF MaybeCid, Cids, NoCid
  <2> QED
    BY <2>1, <2>2
<1>6. new \in LoadUpTo(c) /\ ~ Scrubbing(new)
  BY <1>3 DEF LoadUpTo, Scrubbing, NoCid
<1>7. loads' \in [Loads -> LoadUpTo(c)]
  BY <1>1, <1>4, <1>6, Shapes
<1>8. Navigates'
  BY <1>1, <1>6, Shapes, IdleTyped, StillNavigates
<1>9. store' \in StoreUpTo(c)
  <2>1. store \in StoreUpTo(c) /\ store.id \in MaybeAsset
    BY <1>4, Shapes DEF StoreUpTo
  <2> QED
    BY <1>1, <1>3, <2>1, StoreSteps
<1>10. /\ clock' \in ClockUpTo(c) /\ ops' \in [{"save", "publish"} -> OpUpTo(c)]
       /\ saved' \subseteq 1 .. c /\ scene' \in [filled : BOOLEAN, draft : BOOLEAN]
  BY <1>1, <1>2, <1>4, Shapes
<1>11. Len(versions) < MaxVersions
  BY <1>1, <1>3
<1> QED
  BY <1>1, <1>2, <1>5, <1>7, <1>8, <1>9, <1>10, <1>11, TypedGrows

LEMMA TypedWrite ==
    ASSUME Typed, NEW o \in {"save", "publish"}, Write(o)
    PROVE  Typed'
<1> DEFINE r == ops[o]
           c == Len(versions) + 1
<1>1. /\ r.at = "writing" /\ Len(versions) < MaxVersions
      /\ versions' = Append(versions, [asset |-> r.asset, prev |-> r.prev])
      /\ store' = Recorded(store, c)
      /\ clock' = IF o = "save" THEN Refreshed(clock, c) ELSE clock
      /\ scene' = [scene EXCEPT !.draft = FALSE]
      /\ ops' = [ops EXCEPT ![o] = AfterWrite(o, r.asset, c)]
      /\ saved' = saved \cup {c}
      /\ listed' = listed /\ loads' = loads /\ stack' = stack
  BY DEF Write
<1>2. Len(versions) \in Nat /\ MaxVersions \in Nat /\ c \in Nat /\ c \in 1 .. c /\ c \in 0 .. c
  BY Shapes, BoundsAssumption
<1>3. /\ LoadUpTo(Len(versions)) \subseteq LoadUpTo(c) /\ OpUpTo(Len(versions)) \subseteq OpUpTo(c)
      /\ StoreUpTo(Len(versions)) \subseteq StoreUpTo(c) /\ ClockUpTo(Len(versions)) \subseteq ClockUpTo(c)
      /\ 1 .. Len(versions) \subseteq 1 .. c
  BY <1>2, Grows
<1>4. /\ r.asset \in Assets /\ r.prev \in 0 .. Len(versions)
      /\ [asset |-> r.asset, prev |-> r.prev] \in [asset : Assets, prev : MaybeCid]
  <2>1. r.asset \in Assets /\ r.prev \in 0 .. Len(versions)
    BY <1>1, Shapes, OpKinds
  <2>2. r.prev \in MaybeCid
    BY <1>1, <1>2, <2>1 DEF MaybeCid, Cids, NoCid
  <2> QED
    BY <2>1, <2>2
<1>5. AfterWrite(o, r.asset, c) \in OpUpTo(c)
  BY <1>2, <1>4, AfterWriteTyped
<1>6. ops' \in [{"save", "publish"} -> OpUpTo(c)] /\ loads' \in [Loads -> LoadUpTo(c)]
  BY <1>1, <1>3, <1>5, Shapes
<1>7. store' \in StoreUpTo(c)
  <2>1. store \in StoreUpTo(c) /\ store.id \in MaybeAsset
    BY <1>3, Shapes DEF StoreUpTo
  <2> QED
    BY <1>1, <1>2, <2>1, StoreSteps
<1>8. clock' \in ClockUpTo(c) /\ clock'.navigating = clock.navigating
  <2>1. clock \in ClockUpTo(c)
    BY <1>3, Shapes
  <2> QED
    BY <1>1, <1>2, <2>1, RefreshedTyped
<1>9. Navigates'
  BY <1>1, <1>8, Shapes, NavigatesOn
<1>10. saved' \subseteq 1 .. c /\ scene' \in [filled : BOOLEAN, draft : BOOLEAN]
  BY <1>1, <1>2, <1>3, Shapes
<1> QED
  BY <1>1, <1>4, <1>6, <1>7, <1>8, <1>9, <1>10, TypedGrows

LEMMA TypedStep == Typed /\ [Next]_vars => Typed'
<1> SUFFICES ASSUME Typed, [Next]_vars PROVE Typed'
  OBVIOUS
<1>0. DOMAIN ops = {"save", "publish"}
  BY Shapes
<1>1. CASE \E l \in Loads :
        \/ \E how \in {"entry", "token", "dive"}, a \in Assets : BeginOpen(l, how, a)
        \/ Adopt(l) \/ ReadFails(l) \/ Ascend(l)
  BY <1>1, TypedBeginOpen, TypedAdopt, TypedReadFails, TypedAscend
<1>2. CASE \E l \in Loads : \E c \in Known : Restore(l, c) \/ Scrub(l, c)
  BY <1>2, TypedRestore, TypedScrub
<1>3. CASE \E l \in Loads : Loaded(l) \/ LoadFails(l) \/ Send(l) \/ AutoSave(l)
  BY <1>3, TypedLoaded, TypedLoadFails, TypedSend, TypedAutoSave
<1>4. CASE NewAsset \/ DropIntoEmpty \/ Refresh \/ Mined
  BY <1>4, TypedNewAsset, TypedDropIntoEmpty, TypedRefresh, TypedMined
<1>5. CASE \E o \in DOMAIN ops : Save(o) \/ Resolve(o) \/ Write(o) \/ NoChanges(o) \/ OpFails(o)
  BY <1>0, <1>5, TypedSave, TypedResolve, TypedWrite, TypedNoChanges, TypedOpFails
<1>6. CASE UNCHANGED vars
  BY <1>6, TypedStutters
<1> QED
  BY <1>1, <1>2, <1>3, <1>4, <1>5, <1>6 DEF Next

(* Every CID that the store, the clock, a load, a save or a publication of   *)
(* the session holds is that of a version written (asset.ts,                *)
(* version-history-store.ts), and a version links back to an older one.     *)
THEOREM TypedInvariant == Spec => []Typed
  BY TypedInit, TypedStep, PTL DEF Spec

(* The shapes of the state; the clock navigates exactly while one of its    *)
(* own loads is under way: loadVersion unlocks it however the load ends.    *)
THEOREM TypeCorrect == Spec => []TypeOK
  BY TypedInvariant, TypedIsTypeOK, PTL

(***************************************************************************)
(* Identity: where no two assets met in a handler, everything at hand is   *)
(* of one asset.                                                           *)
(***************************************************************************)
Of(vs, c, a) == c # NoCid => vs[c].asset = a

LoadIsOf(vs, r, a) ==
    r.at = "loading" => Of(vs, r.cid, a) /\ (r.how = "restore" => Of(vs, r.tip, a))

OpIsOf(vs, r, a) ==
    /\ r.at \in {"building", "writing"} => r.asset = a
    /\ r.at = "writing" => Of(vs, r.prev, a)
    /\ r.at = "signing" => r.id = a /\ Of(vs, r.cid, a)

AtHand(vs, s, ls, os, a) ==
    /\ Of(vs, s.active, a) /\ Of(vs, s.latest, a) /\ s.id \in {None, a}
    /\ \A l \in Loads : LoadIsOf(vs, ls[l], a)
    /\ \A o \in {"save", "publish"} : OpIsOf(vs, os[o], a)

OneAsset == \E a \in MaybeAsset : AtHand(versions, store, loads, ops, a)

LinksWithin == \A v \in Known : Of(versions, versions[v].prev, versions[v].asset)

Listed == \A a \in Assets : Of(versions, listed[a], a)

Stacked == \A d \in DOMAIN stack : stack[d].id # None => Of(versions, stack[d].cid, stack[d].id)

Working(r) == r.at \in {"reading", "loading"}

\* At most one load works, and beside a save only one that shows another
\* version of the asset that is open.
LoadsAlone ==
    /\ \A l, k \in Loads : Working(loads[l]) /\ Working(loads[k]) => l = k
    /\ \A l \in Loads : loads[l].at = "reading" =>
          Of(versions, loads[l].cid, loads[l].asset) /\ ~ Busy
    /\ \A l \in Loads : loads[l].at = "loading" =>
          /\ loads[l].how = "restore" => loads[l].tip # NoCid
          /\ loads[l].how = "scrub" => store.latest # NoCid
          /\ loads[l].how \notin {"restore", "scrub"} => ~ Busy

NoAssetYet == store.active = NoCid /\ store.latest = NoCid /\ store.id = None /\ saved = {}

Drafting(r) == r.at \in {"building", "writing"} /\ r.draft

\* A draft has no version, no identity and nothing else under way.
Drafts ==
    /\ store.active # NoCid => store.latest # NoCid
    /\ scene.draft /\ store.active = NoCid => NoAssetYet
    /\ \A o \in {"save", "publish"} : ops[o].at = "signing" => ~ scene.draft
    /\ \A o \in {"save", "publish"} : Drafting(ops[o]) =>
          /\ NoAssetYet
          /\ \A v \in Known : versions[v].asset # ops[o].asset
          /\ \A l \in Loads : ~ Working(loads[l])
          /\ ops[o].at = "writing" => ops[o].prev = NoCid
          /\ \A p \in {"save", "publish"} : ops[p] # Idle => p = o

Identified == OneAsset /\ LinksWithin /\ Listed /\ Stacked /\ LoadsAlone /\ Drafts

----------------------------------------------------------------------------
LEMMA NothingUnderWay ==
    ASSUME Typed, ~ Busy
    PROVE  \A o \in {"save", "publish"} : ops[o] = Idle /\ ops[o].at = "idle"
  BY Shapes DEF Busy, Idle

LEMMA NothingLoads ==
    ASSUME ~ Loading
    PROVE  \A l \in Loads : ~ Working(loads[l]) /\ loads[l].at # "reading" /\ loads[l].at # "loading"
  BY DEF Loading, Working

LEMMA IdentityFollows == Typed /\ Identified =>
    /\ store.id # None /\ store.active # NoCid => versions[store.active].asset = store.id
    /\ \A a \in Assets : listed[a] # NoCid => versions[listed[a]].asset = a
<1> SUFFICES ASSUME Typed, Identified
    PROVE /\ store.id # None /\ store.active # NoCid => versions[store.active].asset = store.id
          /\ \A a \in Assets : listed[a] # NoCid => versions[listed[a]].asset = a
  OBVIOUS
<1>1. PICK a \in MaybeAsset : AtHand(versions, store, loads, ops, a)
  BY DEF Identified, OneAsset
<1> QED
  BY <1>1 DEF Identified, Listed, AtHand, Of

LEMMA IdentifiedInit == Init => Identified
<1> SUFFICES ASSUME Init PROVE Identified
  OBVIOUS
<1>1. AtHand(versions, store, loads, ops, None)
  BY DEF Init, AtHand, Of, LoadIsOf, OpIsOf, Idle
<1>2. OneAsset
  BY <1>1 DEF OneAsset, MaybeAsset
<1>3. LinksWithin /\ Listed /\ Stacked
  BY DEF Init, LinksWithin, Listed, Stacked, Known, Of
<1>4. LoadsAlone
  BY DEF Init, LoadsAlone, Working, Idle
<1>5. Drafts
  BY DEF Init, Drafts, Drafting, NoAssetYet, Idle
<1> QED
  BY <1>2, <1>3, <1>4, <1>5 DEF Identified

(* With nothing under way and no load that works, a store of one asset is   *)
(* enough.                                                                 *)
LEMMA AtHandAlone ==
    ASSUME NEW vs, NEW s, NEW ls, NEW os, NEW a,
           Of(vs, s.active, a), Of(vs, s.latest, a), s.id \in {None, a},
           \A l \in Loads : LoadIsOf(vs, ls[l], a),
           \A o \in {"save", "publish"} : os[o].at = "idle"
    PROVE  AtHand(vs, s, ls, os, a)
  BY DEF AtHand, OpIsOf

LEMMA IdBeginOpen ==
    ASSUME Typed, Identified, NEW l \in Loads, NEW how \in {"entry", "token", "dive"}, NEW a \in Assets,
           BeginOpen(l, how, a), ~ Busy, ~ Loading
    PROVE  Identified'
<1> DEFINE new == [at |-> "reading", how |-> how, asset |-> a, cid |-> listed[a]]
<1>1. /\ loads' = [loads EXCEPT ![l] = new]
      /\ store' = IF how = "entry" THEN Cleared(store) ELSE store
      /\ scene' = IF how = "entry" THEN Empty ELSE scene
      /\ versions' = versions /\ listed' = listed /\ ops' = ops /\ stack' = stack /\ saved' = saved
  BY DEF BeginOpen
<1>2. /\ loads'[l] = new /\ \A k \in Loads : k # l => loads'[k] = loads[k]
  BY <1>1, Shapes
<1>3. \A o \in {"save", "publish"} : ops[o] = Idle /\ ops[o].at = "idle"
  BY NothingUnderWay
<1>4. \A k \in Loads : ~ Working(loads[k]) /\ loads[k].at # "reading" /\ loads[k].at # "loading"
  BY NothingLoads
<1>5. OneAsset'
  <2>1. PICK x \in MaybeAsset : AtHand(versions, store, loads, ops, x)
    BY DEF Identified, OneAsset
  <2>2. \A k \in Loads : loads'[k].at # "loading"
    BY <1>2, <1>4
  <2>3. AtHand(versions', store', loads', ops', x)
    BY <1>1, <2>1, <2>2 DEF AtHand, Of, LoadIsOf, Cleared
  <2> QED
    BY <2>3 DEF OneAsset
<1>6. LinksWithin' /\ Listed' /\ Stacked'
  BY <1>1 DEF Identified, LinksWithin, Listed, Stacked, Known
<1>7. ~ Busy'
  BY <1>1 DEF Busy
<1>8. LoadsAlone'
  <2>1. \A k \in Loads : Working(loads'[k]) => k = l
    BY <1>2, <1>4
  <2>2. Of(versions, listed[a], a)
    BY DEF Identified, Listed
  <2>3. \A k \in Loads : loads'[k].at # "loading" /\ (loads'[k].at = "reading" => k = l)
    BY <1>2, <1>4
  <2> QED
    BY <1>1, <1>2, <1>7, <2>1, <2>2, <2>3 DEF LoadsAlone
<1>9. Drafts'
  <2>1. \A o \in {"save", "publish"} : ops'[o].at = "idle"
    BY <1>1, <1>3
  <2> QED
    BY <1>1, <2>1 DEF Identified, Drafts, Drafting, NoAssetYet, Cleared, Empty
<1> QED
  BY <1>5, <1>6, <1>8, <1>9 DEF Identified

LEMMA IdAdopt ==
    ASSUME Typed, Identified, NEW l \in Loads, Adopt(l), ~ Busy
    PROVE  Identified'
<1> DEFINE r == loads[l]
           new == [at |-> "loading", how |-> IF r.how = "token" THEN "token" ELSE "open", cid |-> r.cid, tip |-> NoCid]
           up == [cid |-> store.active, id |-> store.id, tip |-> store.latest, saved |-> saved]
<1>1. /\ r.at = "reading"
      /\ loads' = [loads EXCEPT ![l] = new]
      /\ store' = Opened(store, r.cid, AdoptedId(r))
      /\ scene' = Empty
      /\ stack' = Append(stack, up) \/ stack' = stack
      /\ saved' = {}
      /\ versions' = versions /\ listed' = listed /\ ops' = ops
  BY DEF Adopt, StartLoad
<1>2. /\ loads'[l] = new /\ \A k \in Loads : k # l => loads'[k] = loads[k]
  BY <1>1, Shapes
<1>3. \A o \in {"save", "publish"} : ops'[o] = Idle /\ ops'[o].at = "idle"
  BY <1>1, NothingUnderWay
<1>4. \A k \in Loads : k # l => ~ Working(loads'[k])
  BY <1>1, <1>2 DEF Identified, LoadsAlone, Working
<1>5. r.cid \in 1 .. Len(versions) /\ r.asset \in Assets /\ r.cid # NoCid
  BY <1>1, Shapes, LoadKinds DEF NoCid
<1>6. versions[r.cid].asset = r.asset /\ AdoptedId(r) = r.asset
  BY <1>1, <1>5 DEF Identified, LoadsAlone, Of, AdoptedId
<1>7. OneAsset'
  <2>1. /\ store'.active = r.cid /\ store'.latest = r.cid /\ store'.id = r.asset
    BY <1>1, <1>6, Shapes DEF Opened, StoreUpTo
  <2>2. \A k \in Loads : LoadIsOf(versions', loads'[k], r.asset)
    BY <1>1, <1>2, <1>4, <1>6 DEF LoadIsOf, Of, Working
  <2>3. AtHand(versions', store', loads', ops', r.asset)
    BY <1>1, <1>3, <1>6, <2>1, <2>2 DEF AtHand, OpIsOf, Of
  <2> QED
    BY <1>5, <2>3 DEF OneAsset, MaybeAsset
<1>8. LinksWithin' /\ Listed'
  BY <1>1 DEF Identified, LinksWithin, Listed, Known
<1>9. Stacked'
  <2>1. CASE stack' = stack
    BY <1>1, <2>1 DEF Identified, Stacked
  <2>2. CASE stack' = Append(stack, up)
    <3>1. stack \in Seq(LevelUpTo(Len(versions))) /\ up \in LevelUpTo(Len(versions))
      BY Shapes DEF StoreUpTo, LevelUpTo
    <3>2. /\ DOMAIN stack' = (DOMAIN stack) \cup {Len(stack) + 1}
          /\ stack'[Len(stack) + 1] = up
          /\ \A d \in DOMAIN stack : stack'[d] = stack[d]
      BY <2>2, <3>1, AppendProperties, LenProperties
    <3>3. store.id # None => Of(versions, store.active, store.id)
      BY DEF Identified, OneAsset, AtHand
    <3> QED
      BY <1>1, <3>2, <3>3 DEF Identified, Stacked
  <2> QED
    BY <1>1, <2>1, <2>2
<1>10. ~ Busy'
  BY <1>1 DEF Busy
<1>11. LoadsAlone'
  <2>1. \A k \in Loads : k # l => loads'[k].at \notin {"reading", "loading"}
    BY <1>4 DEF Working
  <2>2. new.at = "loading" /\ new.how \notin {"restore", "scrub"}
    OBVIOUS
  <2> QED
    BY <1>2, <1>4, <1>10, <2>1, <2>2 DEF LoadsAlone
<1>12. Drafts'
  <2>1. store'.latest # NoCid
    BY <1>1, <1>5, Shapes DEF Opened, StoreUpTo
  <2> QED
    BY <1>1, <1>3, <2>1 DEF Drafts, Drafting, Empty
<1> QED
  BY <1>7, <1>8, <1>9, <1>11, <1>12 DEF Identified

LEMMA NothingInClosed ==
    ASSUME NEW n, NEW s \in StoreUpTo(n)
    PROVE  Closed(s).active = NoCid /\ Closed(s).latest = NoCid /\ Closed(s).id = None
  BY DEF Closed, Cleared, StoreUpTo

LEMMA IdReadFails ==
    ASSUME Typed, Identified, NEW l \in Loads, ReadFails(l), ~ Busy
    PROVE  Identified'
<1>1. /\ loads' = [loads EXCEPT ![l] = Idle]
      /\ \/ store' = store /\ scene' = scene
         \/ store' = Closed(store) /\ scene' = Empty
      /\ versions' = versions /\ listed' = listed /\ ops' = ops /\ stack' = stack /\ saved' = saved
  BY DEF ReadFails
<1>2. /\ loads'[l] = Idle /\ \A k \in Loads : k # l => loads'[k] = loads[k]
      /\ loads[l].at = "reading"
  BY <1>1, Shapes DEF ReadFails
<1>3. \A o \in {"save", "publish"} : ops'[o] = Idle /\ ops'[o].at = "idle"
  BY <1>1, NothingUnderWay
<1>4. \A k \in Loads : ~ Working(loads'[k])
  BY <1>2 DEF Identified, LoadsAlone, Working, Idle
<1>0. \/ store' = store /\ scene' = scene
      \/ store'.active = NoCid /\ store'.latest = NoCid /\ store'.id = None /\ ~ scene'.draft
  BY <1>1, Shapes, NothingInClosed DEF Empty
<1>5. OneAsset'
  <2>1. PICK x \in MaybeAsset : AtHand(versions, store, loads, ops, x)
    BY DEF Identified, OneAsset
  <2>2. \A k \in Loads : loads'[k].at # "loading"
    BY <1>4 DEF Working
  <2>3. AtHand(versions', store', loads', ops', x)
    BY <1>0, <1>1, <2>1, <2>2 DEF AtHand, Of, LoadIsOf
  <2> QED
    BY <2>3 DEF OneAsset
<1>6. LinksWithin' /\ Listed' /\ Stacked'
  BY <1>1 DEF Identified, LinksWithin, Listed, Stacked, Known
<1>8. LoadsAlone'
  BY <1>4 DEF LoadsAlone, Working
<1>9. Drafts'
  BY <1>0, <1>1, <1>3 DEF Identified, Drafts, Drafting, NoAssetYet
<1> QED
  BY <1>5, <1>6, <1>8, <1>9 DEF Identified

LEMMA IdAscend ==
    ASSUME Typed, Identified, NEW l \in Loads, Ascend(l), ~ Busy, ~ Loading
    PROVE  Identified'
<1> DEFINE up == stack[Len(stack)]
           new == [at |-> "loading", how |-> "open", cid |-> up.cid, tip |-> NoCid]
<1>1. /\ stack # <<>> /\ up.cid # NoCid
      /\ loads' = [loads EXCEPT ![l] = new]
      /\ store' = Opened(store, up.cid, up.id)
      /\ scene' = Empty
      /\ stack' = SubSeq(stack, 1, Len(stack) - 1)
      /\ versions' = versions /\ listed' = listed /\ ops' = ops
  BY DEF Ascend, StartLoad
<1>2. /\ loads'[l] = new /\ \A k \in Loads : k # l => loads'[k] = loads[k]
  BY <1>1, Shapes
<1>3. \A o \in {"save", "publish"} : ops'[o] = Idle /\ ops'[o].at = "idle"
  BY <1>1, NothingUnderWay
<1>4. \A k \in Loads : k # l => ~ Working(loads'[k])
  BY <1>2, NothingLoads
<1>5. Len(stack) \in DOMAIN stack /\ Len(stack) \in Nat /\ Len(stack) - 1 \in Nat /\ DOMAIN stack = 1 .. Len(stack)
  BY <1>1, Shapes, EmptySeq, LenProperties
<1>6. up \in LevelUpTo(Len(versions))
  BY <1>5, Shapes, ElementOfSeq
<1>7. up.cid \in Known /\ up.id \in MaybeAsset /\ versions[up.cid].asset \in Assets
  BY <1>1, <1>6, Shapes DEF LevelUpTo
<1>8. OneAsset'
  <2> DEFINE x == versions[up.cid].asset
  <2>1. up.id \in {None, x}
    BY <1>1, <1>5 DEF Identified, Stacked, Of
  <2>2. /\ store'.active = up.cid /\ store'.latest = up.cid /\ store'.id = up.id
    BY <1>1, Shapes DEF Opened, StoreUpTo
  <2>3. \A k \in Loads : LoadIsOf(versions', loads'[k], x)
    BY <1>1, <1>2, <1>4 DEF LoadIsOf, Of, Working
  <2>4. AtHand(versions', store', loads', ops', x)
    BY <1>1, <1>3, <2>1, <2>2, <2>3 DEF AtHand, OpIsOf, Of
  <2> QED
    BY <1>7, <2>4 DEF OneAsset, MaybeAsset
<1>9. LinksWithin' /\ Listed'
  BY <1>1 DEF Identified, LinksWithin, Listed, Known
<1>10. Stacked'
  <2>1. /\ DOMAIN stack' = 1 .. (Len(stack) - 1)
        /\ \A d \in 1 .. (Len(stack) - 1) : stack'[d] = stack[d]
    BY <1>1, <1>5, Shapes, SubSeqProperties
  <2> QED
    BY <1>1, <1>5, <2>1 DEF Identified, Stacked
<1>11. ~ Busy'
  BY <1>1 DEF Busy
<1>12. LoadsAlone'
  <2>1. \A k \in Loads : k # l => loads'[k].at \notin {"reading", "loading"}
    BY <1>4 DEF Working
  <2>2. new.at = "loading" /\ new.how \notin {"restore", "scrub"}
    OBVIOUS
  <2> QED
    BY <1>2, <1>4, <1>11, <2>1, <2>2 DEF LoadsAlone
<1>13. Drafts'
  <2>1. store'.latest # NoCid
    BY <1>1, Shapes DEF Opened, StoreUpTo
  <2> QED
    BY <1>1, <1>3, <2>1 DEF Drafts, Drafting, Empty
<1> QED
  BY <1>8, <1>9, <1>10, <1>12, <1>13 DEF Identified

(* A new draft: nothing works or is under way, and the store is empty.      *)
LEMMA NothingOpen ==
    ASSUME Typed, Identified, ~ Busy, ~ Loading,
           UNCHANGED <<versions, listed, loads, ops, stack>>,
           store'.active = NoCid, store'.latest = NoCid, store'.id = None, saved' = {}
    PROVE  Identified'
<1>1. \A o \in {"save", "publish"} : ops'[o].at = "idle"
  BY NothingUnderWay
<1>2. \A k \in Loads : ~ Working(loads'[k]) /\ loads'[k].at # "reading" /\ loads'[k].at # "loading"
  BY NothingLoads
<1>3. AtHand(versions', store', loads', ops', None)
  BY <1>1, <1>2 DEF AtHand, Of, OpIsOf, LoadIsOf
<1>4. OneAsset'
  BY <1>3 DEF OneAsset, MaybeAsset
<1>5. LinksWithin' /\ Listed' /\ Stacked'
  BY DEF Identified, LinksWithin, Listed, Stacked, Known
<1>6. LoadsAlone'
  BY <1>2 DEF LoadsAlone
<1>7. Drafts'
  BY <1>1 DEF Drafts, Drafting, NoAssetYet
<1> QED
  BY <1>4, <1>5, <1>6, <1>7 DEF Identified

LEMMA IdNewAsset == Typed /\ Identified /\ NewAsset /\ ~ Busy /\ ~ Loading => Identified'
  BY Shapes, NothingOpen DEF NewAsset, Closed, Cleared, StoreUpTo

LEMMA IdDropIntoEmpty ==
    ASSUME Typed, Identified, DropIntoEmpty, ~ Busy, ~ Loading, store.id = None, store.latest = NoCid
    PROVE  Identified'
  BY NothingOpen DEF DropIntoEmpty

(* A version on the chain of c is of the asset c is of.                     *)
LEMMA OfChain ==
    ASSUME Typed, LinksWithin, NEW c \in 0 .. Len(versions), NEW v \in ChainOf(c), NEW a, Of(versions, c, a)
    PROVE  c # NoCid /\ v \in Known /\ Of(versions, v, a)
<1>1. LinksOK
  BY DEF Typed
<1>2. Chain[c] = ChainOf(c) /\ Chain[c] \subseteq 1 .. c /\ Chain[NoCid] = {}
  BY <1>1, ChainFacts
<1>3. \A u \in Known : versions[u].prev # NoCid => versions[versions[u].prev].asset = versions[u].asset
  BY DEF LinksWithin, Of
<1>4. versions[v].asset = versions[c].asset
  BY <1>1, <1>2, <1>3, ChainIsOfOneAsset
<1>5. c # NoCid
  BY <1>2
<1>6. v \in Known
  BY <1>2, Shapes
<1> QED
  BY <1>4, <1>5, <1>6 DEF Of

LEMMA IdRestore ==
    ASSUME Typed, Identified, NEW l \in Loads, NEW c \in Known, Restore(l, c), ~ Loading
    PROVE  Identified'
<1> DEFINE new == [at |-> "loading", how |-> "restore", cid |-> c, tip |-> store.latest]
<1>1. /\ c \in ChainOf(store.latest)
      /\ loads' = [loads EXCEPT ![l] = new]
      /\ store' = IF scene.filled THEN Cleared(store) ELSE [store EXCEPT !.active = c]
      /\ scene' = IF scene.filled THEN Empty ELSE scene
      /\ versions' = versions /\ listed' = listed /\ ops' = ops /\ stack' = stack /\ saved' = saved
  BY DEF Restore, StartLoad
<1>2. /\ loads'[l] = new /\ \A k \in Loads : k # l => loads'[k] = loads[k]
  BY <1>1, Shapes
<1>3. \A k \in Loads : k # l => ~ Working(loads'[k])
  BY <1>2, NothingLoads
<1>4. PICK x \in MaybeAsset : AtHand(versions, store, loads, ops, x)
  BY DEF Identified, OneAsset
<1>5. store.latest \in 0 .. Len(versions) /\ Of(versions, store.latest, x)
  BY <1>4, Shapes DEF AtHand, StoreUpTo
<1>6. store.latest # NoCid /\ Of(versions, c, x) /\ c # NoCid
  BY <1>1, <1>5, Shapes, OfChain DEF Identified
<1>7. /\ store'.id = store.id /\ store'.active \in {NoCid, c} /\ store'.latest \in {NoCid, store.latest}
      /\ store'.active # NoCid => store'.latest # NoCid
      /\ scene'.draft /\ store'.active = NoCid => FALSE
      /\ scene'.draft => scene.draft
  BY <1>1, <1>6, Shapes DEF StoreUpTo, Cleared, Empty
<1>8. OneAsset'
  <2>1. \A k \in Loads : LoadIsOf(versions', loads'[k], x)
    BY <1>1, <1>2, <1>3, <1>5, <1>6 DEF LoadIsOf, Working
  <2>2. AtHand(versions', store', loads', ops', x)
    BY <1>1, <1>4, <1>5, <1>6, <1>7, <2>1 DEF AtHand, Of
  <2> QED
    BY <2>2 DEF OneAsset
<1>9. LinksWithin' /\ Listed' /\ Stacked'
  BY <1>1 DEF Identified, LinksWithin, Listed, Stacked, Known
<1>10. LoadsAlone'
  <2>1. \A k \in Loads : k # l => loads'[k].at \notin {"reading", "loading"}
    BY <1>3 DEF Working
  <2>2. new.at = "loading" /\ new.how = "restore" /\ new.tip # NoCid
    BY <1>6
  <2> QED
    BY <1>2, <1>3, <2>1, <2>2 DEF LoadsAlone
<1>11. Drafts'
  <2>1. \A o \in {"save", "publish"} : ~ Drafting(ops'[o])
    BY <1>1, <1>6 DEF Identified, Drafts, NoAssetYet
  <2> QED
    BY <1>1, <1>7, <2>1 DEF Identified, Drafts
<1> QED
  BY <1>8, <1>9, <1>10, <1>11 DEF Identified

LEMMA IdScrub ==
    ASSUME Typed, Identified, NEW l \in Loads, NEW c \in Known, Scrub(l, c), ~ Loading,
           ~ Another(versions[c].asset)
    PROVE  Identified'
<1> DEFINE new == [at |-> "loading", how |-> "scrub", cid |-> c, tip |-> clock.at]
           x == versions[c].asset
<1>1. /\ c \in ChainOf(clock.root)
      /\ loads' = [loads EXCEPT ![l] = new]
      /\ store' = [Cleared(store) EXCEPT !.latest = KeptTip]
      /\ scene' = Empty
      /\ versions' = versions /\ listed' = listed /\ ops' = ops /\ stack' = stack /\ saved' = saved
  BY DEF Scrub, StartLoad
<1>2. /\ loads'[l] = new /\ \A k \in Loads : k # l => loads'[k] = loads[k]
  BY <1>1, Shapes
<1>3. \A k \in Loads : k # l => ~ Working(loads'[k])
  BY <1>2, NothingLoads
<1>4. clock.root \in 0 .. Len(versions)
  BY Shapes DEF ClockUpTo
<1>5. clock.root # NoCid /\ versions[clock.root].asset = x /\ KeptTip = clock.root
  <2>1. PICK y : Of(versions, clock.root, y)
    BY DEF Of
  <2>2. clock.root # NoCid /\ Of(versions, c, y) /\ c # NoCid
    BY <1>1, <1>4, <2>1, Shapes, OfChain DEF Identified
  <2> QED
    BY <2>1, <2>2 DEF Of, KeptTip
<1>6. /\ store'.id = store.id /\ store'.active = NoCid /\ store'.latest = clock.root
      /\ ~ scene'.draft
  BY <1>1, <1>5, Shapes DEF StoreUpTo, Cleared, Empty
<1>7. /\ store.id \in {None, x}
      /\ \A o \in {"save", "publish"} :
            /\ ops[o].at \in {"building", "writing"} => ops[o].asset = x
            /\ ops[o].at = "signing" => ops[o].id = x
  BY Shapes DEF Another
<1>8. OneAsset'
  <2>1. \A k \in Loads : LoadIsOf(versions', loads'[k], x)
    BY <1>1, <1>2, <1>3 DEF LoadIsOf, Working, Of
  <2>2. \A o \in {"save", "publish"} : OpIsOf(versions', ops'[o], x)
    <3>1. PICK y \in MaybeAsset : AtHand(versions, store, loads, ops, y)
      BY DEF Identified, OneAsset
    <3> QED
      BY <1>1, <1>7, <3>1 DEF AtHand, OpIsOf
  <2>3. AtHand(versions', store', loads', ops', x)
    BY <1>1, <1>5, <1>6, <1>7, <2>1, <2>2 DEF AtHand, Of
  <2> QED
    BY <2>3, Shapes DEF OneAsset, MaybeAsset
<1>9. LinksWithin' /\ Listed' /\ Stacked'
  BY <1>1 DEF Identified, LinksWithin, Listed, Stacked, Known
<1>10. LoadsAlone'
  <2>1. \A k \in Loads : k # l => loads'[k].at \notin {"reading", "loading"}
    BY <1>3 DEF Working
  <2>2. new.at = "loading" /\ new.how = "scrub" /\ store'.latest # NoCid
    BY <1>5, <1>6
  <2> QED
    BY <1>2, <1>3, <2>1, <2>2 DEF LoadsAlone
<1>11. Drafts'
  <2>1. \A o \in {"save", "publish"} : ~ Drafting(ops'[o])
    BY <1>1, <1>7 DEF Identified, Drafts, Drafting
  <2> QED
    BY <1>1, <1>5, <1>6, <2>1 DEF Identified, Drafts
<1> QED
  BY <1>8, <1>9, <1>10, <1>11 DEF Identified

LEMMA IdLoaded ==
    ASSUME Typed, Identified, NEW l \in Loads, Loaded(l), loads[l].how # "scrub" => ~ Busy
    PROVE  Identified'
<1> DEFINE r == loads[l]
           new == IF r.how = "send" THEN [at |-> "autosave"] ELSE Idle
           tip == IF r.how = "restore" /\ r.tip # NoCid THEN r.tip
                  ELSE IF clock.navigating THEN store.latest
                  ELSE r.cid
<1>0. clock.navigating \in BOOLEAN
  BY Shapes DEF ClockUpTo
<1>1. /\ store' = [store EXCEPT !.active = r.cid, !.latest = tip]
      /\ r.how = "restore" /\ r.tip # NoCid => tip = r.tip
      /\ ~ (r.how = "restore" /\ r.tip # NoCid) /\ clock.navigating => tip = store.latest
      /\ ~ (r.how = "restore" /\ r.tip # NoCid) /\ ~ clock.navigating => tip = r.cid
  <2>1. store' = [store EXCEPT !.active = r.cid, !.latest = tip]
    BY DEF Loaded
  <2>2. r.how = "restore" /\ r.tip # NoCid => tip = r.tip
    BY <1>0
  <2>3. ~ (r.how = "restore" /\ r.tip # NoCid) /\ clock.navigating => tip = store.latest
    BY <1>0
  <2>4. ~ (r.how = "restore" /\ r.tip # NoCid) /\ ~ clock.navigating => tip = r.cid
    BY <1>0
  <2> QED
    BY <2>1, <2>2, <2>3, <2>4
<1>2. /\ r.at = "loading"
      /\ loads' = [loads EXCEPT ![l] = new]
      /\ scene' = [scene EXCEPT !.filled = TRUE]
      /\ versions' = versions /\ listed' = listed /\ ops' = ops /\ stack' = stack /\ saved' = saved
  BY DEF Loaded
<1>3. /\ loads'[l] = new /\ \A k \in Loads : k # l => loads'[k] = loads[k]
      /\ ~ Working(new) /\ new.at # "loading"
  BY <1>2, Shapes DEF Working, Idle
<1> HIDE DEF new, tip
<1>4. \A k \in Loads : ~ Working(loads'[k])
  BY <1>2, <1>3 DEF Identified, LoadsAlone, Working
<1>5. r.cid # NoCid /\ r.cid \in Known
  BY <1>2, Shapes, LoadKinds
<1>6. /\ store'.id = store.id /\ store'.active = r.cid /\ store'.latest = tip
      /\ scene'.draft = scene.draft
  BY <1>1, <1>2, Shapes DEF StoreUpTo
<1>7. PICK x \in MaybeAsset : AtHand(versions, store, loads, ops, x)
  BY DEF Identified, OneAsset
<1>8. tip # NoCid /\ Of(versions, tip, x) /\ Of(versions, r.cid, x)
  <2>1. clock.navigating => r.how = "scrub" /\ store.latest # NoCid
    <3>1. clock.navigating => \E k \in Loads : loads[k].at = "loading" /\ loads[k].how = "scrub"
      BY Shapes DEF Navigates, Scrubbing
    <3> QED
      BY <1>2, <3>1 DEF Identified, LoadsAlone, Working
  <2>2. LoadIsOf(versions, r, x) /\ Of(versions, store.latest, x)
    BY <1>7 DEF AtHand
  <2> QED
    BY <1>1, <1>2, <1>5, <2>1, <2>2 DEF LoadIsOf
<1>9. OneAsset'
  <2>1. \A k \in Loads : loads'[k].at # "loading"
    BY <1>4 DEF Working
  <2>2. AtHand(versions', store', loads', ops', x)
    BY <1>2, <1>6, <1>7, <1>8, <2>1 DEF AtHand, LoadIsOf
  <2> QED
    BY <2>2 DEF OneAsset
<1>10. LinksWithin' /\ Listed' /\ Stacked'
  BY <1>2 DEF Identified, LinksWithin, Listed, Stacked, Known
<1>11. LoadsAlone'
  BY <1>4 DEF LoadsAlone, Working
<1>12. Drafts'
  <2>1. \A o \in {"save", "publish"} : ~ Drafting(ops'[o])
    BY <1>2 DEF Identified, Drafts, Working
  <2> QED
    BY <1>2, <1>5, <1>6, <1>8, <2>1 DEF Identified, Drafts
<1> QED
  BY <1>9, <1>10, <1>11, <1>12 DEF Identified

LEMMA IdLoadFails ==
    ASSUME Typed, Identified, NEW l \in Loads, LoadFails(l), loads[l].how = "token" => ~ Busy
    PROVE  Identified'
<1>1. /\ loads' = [loads EXCEPT ![l] = Idle]
      /\ store' = IF loads[l].how = "token" THEN Closed(store) ELSE store
      /\ scene' = IF loads[l].how = "token" THEN Empty ELSE scene
      /\ versions' = versions /\ listed' = listed /\ ops' = ops /\ stack' = stack /\ saved' = saved
  BY DEF LoadFails
<1>2. /\ loads'[l] = Idle /\ \A k \in Loads : k # l => loads'[k] = loads[k]
      /\ loads[l].at = "loading"
  BY <1>1, Shapes DEF LoadFails
<1>3. \A k \in Loads : ~ Working(loads'[k])
  BY <1>2 DEF Identified, LoadsAlone, Working, Idle
<1>4. /\ \/ store' = store /\ scene' = scene
         \/ /\ store'.active = NoCid /\ store'.latest = NoCid /\ store'.id = None
            /\ ~ scene'.draft
  <2>1. CASE loads[l].how = "token"
    BY <1>1, <2>1, Shapes, NothingInClosed DEF Empty
  <2>2. CASE loads[l].how # "token"
    BY <1>1, <2>2
  <2> QED
    BY <2>1, <2>2
<1>5. OneAsset'
  <2>1. PICK x \in MaybeAsset : AtHand(versions, store, loads, ops, x)
    BY DEF Identified, OneAsset
  <2>2. \A k \in Loads : loads'[k].at # "loading"
    BY <1>3 DEF Working
  <2>3. AtHand(versions', store', loads', ops', x)
    BY <1>1, <1>4, <2>1, <2>2 DEF AtHand, Of, LoadIsOf
  <2> QED
    BY <2>3 DEF OneAsset
<1>6. LinksWithin' /\ Listed' /\ Stacked'
  BY <1>1 DEF Identified, LinksWithin, Listed, Stacked, Known
<1>7. LoadsAlone'
  BY <1>3 DEF LoadsAlone, Working
<1>8. Drafts'
  <2>1. \A o \in {"save", "publish"} : ~ Drafting(ops'[o])
    BY <1>1, <1>2 DEF Identified, Drafts, Working
  <2> QED
    BY <1>1, <1>4, <2>1 DEF Identified, Drafts, NoAssetYet
<1> QED
  BY <1>5, <1>6, <1>7, <1>8 DEF Identified

LEMMA IdUnchanged ==
    ASSUME Typed, Identified, UNCHANGED <<versions, listed, store, scene, loads, ops, stack, saved>>
    PROVE  Identified'
<1>1. OneAsset'
  BY DEF Identified, OneAsset
<1>2. LinksWithin' /\ Listed' /\ Stacked'
  BY DEF Identified, LinksWithin, Listed, Stacked, Known
<1>3. LoadsAlone'
  BY DEF Identified, LoadsAlone, Busy
<1>4. Drafts'
  BY DEF Identified, Drafts, NoAssetYet, Known
<1> QED
  BY <1>1, <1>2, <1>3, <1>4 DEF Identified

(* What a version written changes in none of the others.                   *)
LEMMA OfStays ==
    ASSUME Typed, NEW v, v \in [asset : Assets, prev : MaybeCid],
           v.prev \in 0 .. Len(versions), versions' = Append(versions, v),
           Of(versions, v.prev, v.asset), LinksWithin
    PROVE  /\ \A c \in 0 .. Len(versions) : \A a : Of(versions', c, a) <=> Of(versions, c, a)
           /\ Of(versions', Len(versions) + 1, v.asset)
           /\ Known' = Known \cup {Len(versions) + 1} /\ Len(versions) + 1 # NoCid
           /\ \A u \in Known : versions'[u] = versions[u]
           /\ versions'[Len(versions) + 1] = v
           /\ LinksWithin'
<1>1. /\ Known' = Known \cup {Len(versions) + 1}
      /\ versions'[Len(versions) + 1] = v
      /\ \A u \in Known : versions'[u] = versions[u]
  BY OneVersionMore DEF Typed
<1>2. /\ \A c \in 0 .. Len(versions) : \A a : Of(versions', c, a) <=> Of(versions, c, a)
      /\ Of(versions', Len(versions) + 1, v.asset)
      /\ Len(versions) + 1 # NoCid
  BY <1>1, Shapes DEF Of, NoCid
<1>3. \A u \in Known : versions[u].prev \in 0 .. Len(versions)
  BY Shapes DEF Typed, LinksOK
<1>4. LinksWithin'
  BY <1>1, <1>2, <1>3 DEF LinksWithin
<1> QED
  BY <1>1, <1>2, <1>4

LEMMA IdSend ==
    ASSUME Typed, Identified, NEW l \in Loads, Send(l), ~ Busy, ~ Loading, NEW base \in Known \cup {NoCid},
           NEW a \in Assets, base # NoCid => a = versions[base].asset,
           versions' = Append(versions, [asset |-> a, prev |-> base]),
           scene' = [filled |-> FALSE, draft |-> scene.draft /\ base = NoCid /\ ~ scene.filled],
           store.id # None => ~ Another(a)
    PROVE  Identified'
<1> DEFINE c == Len(versions) + 1
           new == [at |-> "loading", how |-> "send", cid |-> c, tip |-> NoCid]
           v == [asset |-> a, prev |-> base]
<1>1. /\ c <= MaxVersions
      /\ loads' = [loads EXCEPT ![l] = new]
      /\ store' = IF scene.filled THEN Cleared(store) ELSE Opened(store, c, store.id)
      /\ listed' = listed /\ ops' = ops /\ stack' = stack
  BY DEF Send, StartLoad
<1>2. /\ loads'[l] = new /\ \A k \in Loads : k # l => loads'[k] = loads[k]
  BY <1>1, Shapes
<1>3. \A o \in {"save", "publish"} : ops'[o] = Idle /\ ops'[o].at = "idle"
  BY <1>1, NothingUnderWay
<1>4. \A k \in Loads : k # l => ~ Working(loads'[k])
  BY <1>2, NothingLoads
<1>5. v \in [asset : Assets, prev : MaybeCid] /\ v.prev \in 0 .. Len(versions)
      /\ Of(versions, v.prev, v.asset)
  <2>1. base \in 0 .. Len(versions)
    BY Shapes
  <2>2. base \in MaybeCid
    BY <2>1, <1>1, Shapes, BoundsAssumption DEF MaybeCid, Cids, NoCid
  <2> QED
    BY <2>1, <2>2 DEF Of
<1>6. /\ \A u \in 0 .. Len(versions) : \A y : Of(versions', u, y) <=> Of(versions, u, y)
      /\ Of(versions', c, a) /\ c # NoCid
      /\ LinksWithin'
  BY <1>5, OfStays DEF Identified
<1>7. /\ store'.id = store.id
      /\ store'.active \in {NoCid, c} /\ store'.latest = store'.active
      /\ store'.active = NoCid => ~ scene'.draft
  <2>1. CASE scene.filled
    BY <1>1, <2>1, Shapes DEF StoreUpTo, Cleared
  <2>2. CASE ~ scene.filled
    BY <1>1, <1>6, <2>2, Shapes DEF StoreUpTo, Opened
  <2> QED
    BY <2>1, <2>2
<1>8. OneAsset'
  <2>1. \A k \in Loads : LoadIsOf(versions', loads'[k], a)
    BY <1>2, <1>4, <1>6 DEF LoadIsOf, Working
  <2>2. store.id \in {None, a}
    BY DEF Another
  <2>3. AtHand(versions', store', loads', ops', a)
    BY <1>3, <1>6, <1>7, <2>1, <2>2 DEF AtHand, OpIsOf, Of
  <2> QED
    BY <2>3 DEF OneAsset, MaybeAsset
<1>9. Listed'
  <2>1. \A y \in Assets : listed[y] \in 0 .. Len(versions)
    BY Shapes
  <2> QED
    BY <1>1, <1>6, <2>1 DEF Identified, Listed
<1>10. Stacked'
  <2>1. \A d \in DOMAIN stack : stack[d].cid \in 0 .. Len(versions)
    <3>1. \A d \in DOMAIN stack : stack[d] \in LevelUpTo(Len(versions))
      BY Shapes, LenProperties, ElementOfSeq
    <3> QED
      BY <3>1 DEF LevelUpTo
  <2> QED
    BY <1>1, <1>6, <2>1 DEF Identified, Stacked
<1>11. ~ Busy'
  BY <1>1 DEF Busy
<1>12. LoadsAlone'
  <2>1. \A k \in Loads : k # l => loads'[k].at \notin {"reading", "loading"}
    BY <1>4 DEF Working
  <2>2. new.at = "loading" /\ new.how \notin {"restore", "scrub"}
    OBVIOUS
  <2> QED
    BY <1>2, <1>4, <1>11, <2>1, <2>2 DEF LoadsAlone
<1>13. Drafts'
  BY <1>3, <1>6, <1>7 DEF Drafts, Drafting
<1> QED
  BY <1>6, <1>8, <1>9, <1>10, <1>12, <1>13 DEF Identified

(* A save that starts.  The load beside it is at most the automatic save's  *)
(* own, which does not work.                                               *)
LEMMA IdStartSave ==
    ASSUME Typed, Identified, NEW o \in {"save", "publish"}, StartSave(o), ~ Loading,
           store.active = NoCid => ~ Busy,
           UNCHANGED <<versions, listed, store, scene, stack, saved>>,
           \A l \in Loads : ~ Working(loads'[l])
    PROVE  Identified'
<1>1. PICK a \in Base :
        ops' = [ops EXCEPT ![o] = [at |-> "building", asset |-> a, draft |-> store.active = NoCid]]
  BY DEF StartSave
<1> DEFINE new == [at |-> "building", asset |-> a, draft |-> store.active = NoCid]
<1>2. /\ ops[o] = Idle /\ (store.active # NoCid \/ scene.draft)
  BY DEF StartSave
<1>3. ops'[o] = new /\ \A p \in {"save", "publish"} : p # o => ops'[p] = ops[p]
  BY <1>1, Shapes
<1>4. \A l \in Loads : loads'[l].at # "loading" /\ loads'[l].at # "reading"
  BY DEF Working
<1>5. PICK x \in MaybeAsset : AtHand(versions, store, loads, ops, x)
  BY DEF Identified, OneAsset
<1>6. LinksWithin' /\ Listed' /\ Stacked'
  BY DEF Identified, LinksWithin, Listed, Stacked, Known
<1>7. LoadsAlone'
  BY <1>4 DEF LoadsAlone, Working
<1>8. CASE store.active # NoCid
  <2>1. a = versions[store.active].asset /\ new.draft = FALSE /\ a = x
    BY <1>5, <1>8 DEF Base, AtHand, Of
  <2>2. AtHand(versions', store', loads', ops', x)
    BY <1>3, <1>4, <1>5, <2>1 DEF AtHand, LoadIsOf, OpIsOf, Of
  <2>3. OneAsset'
    BY <2>2 DEF OneAsset
  <2>4. \A p \in {"save", "publish"} : ~ Drafting(ops'[p])
    BY <1>3, <1>8, <2>1 DEF Identified, Drafts, NoAssetYet, Drafting
  <2>5. \A p \in {"save", "publish"} : ops'[p].at = "signing" => ~ scene'.draft
    BY <1>3 DEF Identified, Drafts
  <2>6. Drafts'
    BY <1>8, <2>4, <2>5 DEF Identified, Drafts
  <2> QED
    BY <1>6, <1>7, <2>3, <2>6 DEF Identified
<1>9. CASE store.active = NoCid
  <2>1. a \in Assets /\ \A v \in Known : versions[v].asset # a
    BY <1>9 DEF Base, Fresh
  <2>2. NoAssetYet
    BY <1>2, <1>9 DEF Identified, Drafts
  <2>3. \A p \in {"save", "publish"} : ops[p] = Idle /\ ops[p].at = "idle"
    BY <1>9, NothingUnderWay
  <2>4. AtHand(versions', store', loads', ops', a)
    BY <1>3, <1>4, <2>2, <2>3 DEF AtHand, LoadIsOf, OpIsOf, Of, NoAssetYet
  <2>5. OneAsset'
    BY <2>1, <2>4 DEF OneAsset, MaybeAsset
  <2>6. NoAssetYet'
    BY <2>2 DEF NoAssetYet
  <2>7. Drafts'
    <3>1. \A p \in {"save", "publish"} : p # o => ops'[p] = Idle /\ ops'[p].at = "idle"
      BY <1>3, <2>3
    <3>2. ops'[o].at = "building" /\ ops'[o].asset = a
      BY <1>3
    <3>3. Known' = Known
      BY DEF Known
    <3> QED
      BY <2>1, <2>6, <3>1, <3>2, <3>3 DEF Drafts, Drafting, NoAssetYet
  <2> QED
    BY <1>6, <1>7, <2>5, <2>7 DEF Identified
<1> QED
  BY <1>8, <1>9

LEMMA IdSave ==
    ASSUME Typed, Identified, NEW o \in {"save", "publish"}, Save(o), ~ Loading,
           store.active = NoCid => ~ Busy
    PROVE  Identified'
<1>1. loads' = loads /\ UNCHANGED <<versions, listed, store, scene, stack, saved>> /\ StartSave(o)
  BY DEF Save
<1>2. \A l \in Loads : ~ Working(loads'[l])
  BY <1>1, NothingLoads
<1> QED
  BY <1>1, <1>2, IdStartSave

(* Only a load that does not work went idle.                               *)
LEMMA IdLoadIdles ==
    ASSUME Typed, Identified, NEW l \in Loads, loads[l].at = "autosave",
           loads' = [loads EXCEPT ![l] = Idle],
           UNCHANGED <<versions, listed, store, scene, ops, stack, saved>>
    PROVE  Identified'
<1>1. /\ loads'[l] = Idle /\ \A k \in Loads : k # l => loads'[k] = loads[k]
  BY Shapes
<1>2. \A k \in Loads : Working(loads'[k]) => k # l /\ Working(loads[k])
  BY <1>1 DEF Working, Idle
<1>3. OneAsset'
  <2>1. PICK x \in MaybeAsset : AtHand(versions, store, loads, ops, x)
    BY DEF Identified, OneAsset
  <2>2. AtHand(versions', store', loads', ops', x)
    BY <1>1, <2>1 DEF AtHand, LoadIsOf, Idle
  <2> QED
    BY <2>2 DEF OneAsset
<1>4. LinksWithin' /\ Listed' /\ Stacked'
  BY DEF Identified, LinksWithin, Listed, Stacked, Known
<1>5. Busy' <=> Busy
  BY DEF Busy
<1>6. LoadsAlone'
  <2>1. \A k \in Loads : k # l => loads'[k] = loads[k]
    BY <1>1
  <2>2. loads'[l].at = "idle"
    BY <1>1 DEF Idle
  <2> QED
    BY <1>2, <1>5, <2>1, <2>2 DEF Identified, LoadsAlone
<1>7. Drafts'
  <2>1. Known' = Known /\ (NoAssetYet' <=> NoAssetYet)
    BY DEF Known, NoAssetYet
  <2> QED
    BY <1>2, <2>1 DEF Identified, Drafts
<1> QED
  BY <1>3, <1>4, <1>6, <1>7 DEF Identified

LEMMA IdAutoSave ==
    ASSUME Typed, Identified, NEW l \in Loads, AutoSave(l),
           StartSave("save") => ~ Loading /\ (store.active = NoCid => ~ Busy)
    PROVE  Identified'
<1>1. /\ loads[l].at = "autosave" /\ loads' = [loads EXCEPT ![l] = Idle]
      /\ UNCHANGED <<versions, listed, store, scene, stack, saved>>
  BY DEF AutoSave
<1>2. StartSave("save") \/ ops' = ops
  BY DEF AutoSave
<1>3. CASE StartSave("save")
  <2>1. \A k \in Loads : ~ Working(loads'[k])
    <3>1. /\ loads'[l] = Idle /\ \A k \in Loads : k # l => loads'[k] = loads[k]
      BY <1>1, Shapes
    <3> QED
      BY <1>3, <3>1, NothingLoads DEF Working, Idle
  <2> QED
    BY <1>1, <1>3, <2>1, IdStartSave
<1>4. CASE ops' = ops
  BY <1>1, <1>4, IdLoadIdles
<1> QED
  BY <1>2, <1>3, <1>4

(* A step of a save or a publication that goes on with the same asset.      *)
LEMMA IdOpMoves ==
    ASSUME Typed, Identified, NEW o \in {"save", "publish"}, NEW r,
           ops[o] # Idle, ops' = [ops EXCEPT ![o] = r],
           UNCHANGED <<versions, listed, store, loads, stack, saved>>,
           scene'.draft => scene.draft,
           \A x \in MaybeAsset : AtHand(versions, store, loads, ops, x) => OpIsOf(versions, r, x),
           r.at = "signing" => ~ scene'.draft,
           Drafting(r) => /\ Drafting(ops[o]) /\ r.asset = ops[o].asset
                          /\ r.at = "writing" => r.prev = NoCid
    PROVE  Identified'
<1>1. ops'[o] = r /\ \A p \in {"save", "publish"} : p # o => ops'[p] = ops[p]
  BY Shapes
<1>2. OneAsset'
  <2>1. PICK x \in MaybeAsset : AtHand(versions, store, loads, ops, x)
    BY DEF Identified, OneAsset
  <2>2. AtHand(versions', store', loads', ops', x)
    BY <1>1, <2>1 DEF AtHand
  <2> QED
    BY <2>2 DEF OneAsset
<1>3. LinksWithin' /\ Listed' /\ Stacked'
  BY DEF Identified, LinksWithin, Listed, Stacked, Known
<1>4. Busy
  BY Shapes DEF Busy
<1>5. LoadsAlone'
  BY <1>4 DEF Identified, LoadsAlone
<1>6. Known' = Known /\ (NoAssetYet' <=> NoAssetYet)
  BY DEF Known, NoAssetYet
<1>7. /\ store'.active # NoCid => store'.latest # NoCid
      /\ scene'.draft /\ store'.active = NoCid => NoAssetYet'
      /\ \A p \in {"save", "publish"} : ops'[p].at = "signing" => ~ scene'.draft
  BY <1>1, <1>6 DEF Identified, Drafts
<1>8. ASSUME NEW p \in {"save", "publish"}, Drafting(ops'[p])
      PROVE  /\ NoAssetYet'
             /\ \A v \in Known' : versions'[v].asset # ops'[p].asset
             /\ \A l \in Loads : ~ Working(loads'[l])
             /\ ops'[p].at = "writing" => ops'[p].prev = NoCid
             /\ \A q \in {"save", "publish"} : ops'[q] # Idle => q = p
  <2>1. CASE p = o
    BY <1>1, <1>6, <1>8, <2>1 DEF Identified, Drafts
  <2>2. CASE p # o
    BY <1>1, <1>8, <2>2 DEF Identified, Drafts
  <2> QED
    BY <2>1, <2>2
<1>9. Drafts'
  BY <1>7, <1>8 DEF Drafts
<1> QED
  BY <1>2, <1>3, <1>5, <1>9 DEF Identified

LEMMA IdResolve ==
    ASSUME Typed, Identified, NEW o \in {"save", "publish"}, Resolve(o)
    PROVE  Identified'
<1> DEFINE r == ops[o]
           prev == IF store.latest # NoCid THEN store.latest
                   ELSE IF store.id # None THEN NoCid
                   ELSE store.active
           new == [at |-> "writing", asset |-> r.asset, draft |-> r.draft, prev |-> prev]
<1>1. /\ r.at = "building" /\ ops' = [ops EXCEPT ![o] = new]
      /\ UNCHANGED <<versions, listed, store, scene, loads, stack, saved>>
  BY DEF Resolve
<1>2. r # Idle
  BY <1>1 DEF Idle
<1>3. ASSUME NEW x \in MaybeAsset, AtHand(versions, store, loads, ops, x)
      PROVE  OpIsOf(versions, new, x)
  BY <1>1, <1>3 DEF AtHand, OpIsOf, Of
<1>4. Drafting(new) => /\ Drafting(r) /\ new.asset = r.asset
                       /\ new.at = "writing" => new.prev = NoCid
  <2>1. Drafting(new) => Drafting(r)
    BY <1>1 DEF Drafting
  <2>2. Drafting(r) => prev = NoCid
    BY DEF Identified, Drafts, NoAssetYet
  <2> QED
    BY <2>1, <2>2
<1>5. new.at # "signing"
  OBVIOUS
<1> HIDE DEF new
<1> QED
  BY <1>1, <1>2, <1>3, <1>4, <1>5, IdOpMoves

LEMMA IdNoChanges ==
    ASSUME Typed, Identified, NEW o \in {"save", "publish"}, NoChanges(o)
    PROVE  Identified'
<1> DEFINE r == ops[o]
           new == AfterWrite(o, versions[r.prev].asset, r.prev)
<1>1. /\ r.at = "writing" /\ r.prev # NoCid /\ ops' = [ops EXCEPT ![o] = new]
      /\ scene' = [scene EXCEPT !.draft = FALSE]
      /\ UNCHANGED <<versions, listed, store, loads, stack, saved>>
  BY DEF NoChanges
<1>2. r # Idle /\ ~ scene'.draft
  BY <1>1, Shapes DEF Idle
<1>3. ASSUME NEW x \in MaybeAsset, AtHand(versions, store, loads, ops, x)
      PROVE  OpIsOf(versions, new, x)
  <2>1. versions[r.prev].asset = x
    BY <1>1, <1>3 DEF AtHand, OpIsOf, Of
  <2>2. store.id \in {None, x}
    BY <1>3 DEF AtHand
  <2> QED
    BY <2>1, <2>2 DEF AfterWrite, OpIsOf, Of, Idle
<1>4. ~ Drafting(new)
  BY DEF Drafting, AfterWrite, Idle
<1> HIDE DEF new
<1> QED
  BY <1>1, <1>2, <1>3, <1>4, IdOpMoves

LEMMA IdOpFails ==
    ASSUME Typed, Identified, NEW o \in {"save", "publish"}, OpFails(o)
    PROVE  Identified'
<1>1. /\ ops[o] # Idle /\ ops' = [ops EXCEPT ![o] = Idle]
      /\ UNCHANGED <<versions, listed, store, scene, loads, stack, saved>>
  BY DEF OpFails
<1>2. ASSUME NEW x \in MaybeAsset PROVE OpIsOf(versions, Idle, x)
  BY DEF OpIsOf, Idle
<1>3. ~ Drafting(Idle) /\ Idle.at # "signing"
  BY DEF Drafting, Idle
<1> QED
  BY <1>1, <1>2, <1>3, IdOpMoves

LEMMA IdMined == Typed /\ Identified /\ Mined => Identified'
<1> SUFFICES ASSUME Typed, Identified, Mined PROVE Identified'
  OBVIOUS
<1> DEFINE r == ops["publish"]
<1>1. /\ r.at = "signing"
      /\ listed' = [listed EXCEPT ![r.id] = r.cid]
      /\ store' = [store EXCEPT !.id = r.id]
      /\ ops' = [ops EXCEPT !["publish"] = Idle]
      /\ UNCHANGED <<versions, scene, loads, stack, saved>>
  BY DEF Mined
<1>2. ops'["publish"] = Idle /\ ops'["save"] = ops["save"] /\ r # Idle
  BY <1>1, Shapes DEF Idle
<1>3. PICK x \in MaybeAsset : AtHand(versions, store, loads, ops, x)
  BY DEF Identified, OneAsset
<1>4. r.id = x /\ Of(versions, r.cid, x)
  BY <1>1, <1>3 DEF AtHand, OpIsOf
<1>5. store'.id = x /\ store'.active = store.active /\ store'.latest = store.latest
  BY <1>1, <1>4, Shapes DEF StoreUpTo
<1>6. OneAsset'
  <2>1. AtHand(versions', store', loads', ops', x)
    BY <1>1, <1>2, <1>3, <1>5 DEF AtHand, OpIsOf, Idle
  <2> QED
    BY <2>1 DEF OneAsset
<1>7. LinksWithin' /\ Stacked'
  BY <1>1 DEF Identified, LinksWithin, Stacked, Known
<1>8. Listed'
  BY <1>1, <1>4, Shapes DEF Identified, Listed
<1>9. LoadsAlone'
  <2>1. Busy
    BY <1>2, Shapes DEF Busy
  <2> QED
    BY <1>1, <1>5, <2>1 DEF Identified, LoadsAlone
<1>10. Drafts'
  <2>1. ~ Drafting(ops["save"]) /\ ~ scene.draft
    BY <1>1, <1>2 DEF Identified, Drafts
  <2>2. \A p \in {"save", "publish"} : ~ Drafting(ops'[p])
    BY <1>2, <2>1 DEF Drafting, Idle
  <2> QED
    BY <1>1, <1>5, <2>1, <2>2 DEF Identified, Drafts
<1> QED
  BY <1>6, <1>7, <1>8, <1>9, <1>10 DEF Identified

LEMMA IdWrite ==
    ASSUME Typed, Identified, NEW o \in {"save", "publish"}, Write(o),
           \A l \in Loads : loads[l].at \in {"reading", "loading"} => loads[l].how = "scrub"
    PROVE  Identified'
<1> DEFINE r == ops[o]
           c == Len(versions) + 1
           v == [asset |-> r.asset, prev |-> r.prev]
           new == AfterWrite(o, r.asset, c)
<1>1. /\ r.at = "writing" /\ Len(versions) < MaxVersions
      /\ versions' = Append(versions, v)
      /\ store' = Recorded(store, c)
      /\ scene' = [scene EXCEPT !.draft = FALSE]
      /\ ops' = [ops EXCEPT ![o] = new]
      /\ listed' = listed /\ loads' = loads /\ stack' = stack
  BY DEF Write
<1>2. ops'[o] = new /\ \A p \in {"save", "publish"} : p # o => ops'[p] = ops[p]
  BY <1>1, Shapes
<1>3. PICK x \in MaybeAsset : AtHand(versions, store, loads, ops, x)
  BY DEF Identified, OneAsset
<1>4. r.asset = x /\ Of(versions, r.prev, x) /\ r # Idle
  BY <1>1, <1>3 DEF AtHand, OpIsOf, Idle
<1>5. v \in [asset : Assets, prev : MaybeCid] /\ v.prev \in 0 .. Len(versions)
      /\ Of(versions, v.prev, v.asset)
  <2>1. r.asset \in Assets /\ r.prev \in 0 .. Len(versions)
    BY <1>1, Shapes, OpKinds
  <2>2. r.prev \in MaybeCid
    BY <1>1, <2>1, Shapes, BoundsAssumption DEF MaybeCid, Cids, NoCid
  <2> QED
    BY <1>4, <2>1, <2>2
<1>6. /\ \A u \in 0 .. Len(versions) : \A y : Of(versions', u, y) <=> Of(versions, u, y)
      /\ Of(versions', c, x) /\ c # NoCid
      /\ LinksWithin'
  BY <1>1, <1>4, <1>5, OfStays DEF Identified
<1>7. /\ store'.id = store.id /\ store'.active = c /\ store'.latest = c /\ ~ scene'.draft
  BY <1>1, Shapes DEF StoreUpTo, Recorded
<1>8. OneAsset'
  <2>1. ASSUME NEW l \in Loads PROVE LoadIsOf(versions', loads'[l], x)
    <3>1. loads[l].at = "loading" => loads[l].how = "scrub" /\ loads[l].cid \in 0 .. Len(versions)
      BY Shapes, LoadKinds
    <3>2. LoadIsOf(versions, loads[l], x)
      BY <1>3 DEF AtHand
    <3> QED
      BY <1>1, <1>6, <3>1, <3>2 DEF LoadIsOf
  <2>2. ASSUME NEW p \in {"save", "publish"}, p # o PROVE OpIsOf(versions', ops'[p], x)
    <3>1. /\ ops[p].at = "writing" => ops[p].prev \in 0 .. Len(versions)
          /\ ops[p].at = "signing" => ops[p].cid \in 0 .. Len(versions)
      BY Shapes, OpKinds
    <3>2. OpIsOf(versions, ops[p], x)
      BY <1>3 DEF AtHand
    <3> QED
      BY <1>2, <1>6, <2>2, <3>1, <3>2 DEF OpIsOf
  <2>3. store.id \in {None, x}
    BY <1>3 DEF AtHand
  <2>4. OpIsOf(versions', new, x)
    BY <1>4, <1>6, <2>3 DEF AfterWrite, OpIsOf, Idle
  <2>5. AtHand(versions', store', loads', ops', x)
    <3> HIDE DEF new, v, c
    <3> QED
      BY <1>2, <1>6, <1>7, <2>1, <2>2, <2>3, <2>4 DEF AtHand
  <2> QED
    BY <2>5 DEF OneAsset
<1>9. Listed'
  <2>1. \A y \in Assets : listed[y] \in 0 .. Len(versions)
    BY Shapes
  <2> QED
    BY <1>1, <1>6, <2>1 DEF Identified, Listed
<1>10. Stacked'
  <2>1. \A d \in DOMAIN stack : stack[d] \in LevelUpTo(Len(versions))
    BY Shapes, LenProperties, ElementOfSeq
  <2>2. \A d \in DOMAIN stack : stack[d].cid \in 0 .. Len(versions)
    BY <2>1 DEF LevelUpTo
  <2> QED
    BY <1>1, <1>6, <2>2 DEF Identified, Stacked
<1>11. LoadsAlone'
  <2>1. \A l \in Loads : loads'[l].at # "reading"
    <3>1. \A l \in Loads : loads[l].at = "reading" => loads[l].how \in {"entry", "token", "dive"}
      BY Shapes, LoadKinds
    <3> QED
      BY <1>1, <3>1
  <2>2. \A l \in Loads : loads'[l].at = "loading" => loads'[l].how = "scrub"
    BY <1>1
  <2>3. \A l, k \in Loads : Working(loads'[l]) /\ Working(loads'[k]) => l = k
    BY <1>1 DEF Identified, LoadsAlone
  <2> QED
    BY <1>6, <1>7, <2>1, <2>2, <2>3 DEF LoadsAlone
<1>12. Drafts'
  <2>1. ~ Drafting(new)
    BY DEF Drafting, AfterWrite, Idle
  <2>2. \A p \in {"save", "publish"} : p # o => ~ Drafting(ops[p])
    BY <1>4 DEF Identified, Drafts
  <2>3. \A p \in {"save", "publish"} : ~ Drafting(ops'[p])
    <3> HIDE DEF new
    <3> QED
      BY <1>2, <2>1, <2>2
  <2> QED
    BY <1>6, <1>7, <2>3 DEF Drafts
<1> QED
  BY <1>6, <1>8, <1>9, <1>10, <1>11, <1>12 DEF Identified

LEMMA IdStep ==
    ASSUME Typed, ~ mixed => Identified, [Next]_vars, ~ mixed'
    PROVE  Identified'
<1>0. DOMAIN ops = {"save", "publish"}
  BY Shapes
<1>1. CASE \E l \in Loads : \E how \in {"entry", "token", "dive"}, a \in Assets : BeginOpen(l, how, a)
  <2>1. PICK l \in Loads, how \in {"entry", "token", "dive"}, a \in Assets : BeginOpen(l, how, a)
    BY <1>1
  <2>2. ~ mixed /\ ~ Busy /\ ~ Loading
    BY <2>1 DEF BeginOpen
  <2> QED
    BY <2>1, <2>2, IdBeginOpen
<1>2. CASE \E l \in Loads : Adopt(l) \/ ReadFails(l)
  <2>1. PICK l \in Loads : Adopt(l) \/ ReadFails(l)
    BY <1>2
  <2>2. ~ mixed /\ ~ Busy
    BY <2>1 DEF Adopt, ReadFails
  <2> QED
    BY <2>1, <2>2, IdAdopt, IdReadFails
<1>3. CASE \E l \in Loads : Ascend(l)
  <2>1. PICK l \in Loads : Ascend(l)
    BY <1>3
  <2>2. ~ mixed /\ ~ Busy /\ ~ Loading
    BY <2>1 DEF Ascend
  <2> QED
    BY <2>1, <2>2, IdAscend
<1>4. CASE \E l \in Loads : \E c \in Known : Restore(l, c)
  <2>1. PICK l \in Loads, c \in Known : Restore(l, c)
    BY <1>4
  <2>2. ~ mixed /\ ~ Loading
    BY <2>1 DEF Restore
  <2> QED
    BY <2>1, <2>2, IdRestore
<1>5. CASE \E l \in Loads : \E c \in Known : Scrub(l, c)
  <2>1. PICK l \in Loads, c \in Known : Scrub(l, c)
    BY <1>5
  <2>2. ~ mixed /\ ~ Loading /\ ~ Another(versions[c].asset)
    BY <2>1 DEF Scrub
  <2> QED
    BY <2>1, <2>2, IdScrub
<1>6. CASE \E l \in Loads : Loaded(l)
  <2>1. PICK l \in Loads : Loaded(l)
    BY <1>6
  <2>2. ~ mixed /\ ~ (Busy /\ loads[l].how # "scrub")
    BY <2>1 DEF Loaded
  <2> QED
    BY <2>1, <2>2, IdLoaded
<1>7. CASE \E l \in Loads : LoadFails(l)
  <2>1. PICK l \in Loads : LoadFails(l)
    BY <1>7
  <2>2. ~ mixed /\ ~ (Busy /\ loads[l].how = "token")
    BY <2>1 DEF LoadFails
  <2> QED
    BY <2>1, <2>2, IdLoadFails
<1>8. CASE \E l \in Loads : Send(l)
  <2>1. PICK l \in Loads : Send(l)
    BY <1>8
  <2>2. PICK base \in Known \cup {NoCid}, a \in Assets :
          /\ base # NoCid => a = versions[base].asset
          /\ versions' = Append(versions, [asset |-> a, prev |-> base])
          /\ scene' = [filled |-> FALSE, draft |-> scene.draft /\ base = NoCid /\ ~ scene.filled]
          /\ mixed' = (mixed \/ Loading \/ Busy \/ (store.id # None /\ Another(a)))
    BY <2>1 DEF Send
  <2>3. ~ mixed /\ ~ Loading /\ ~ Busy /\ (store.id # None => ~ Another(a))
    BY <2>2
  <2> QED
    BY <2>1, <2>2, <2>3, IdSend
<1>9. CASE \E l \in Loads : AutoSave(l)
  <2>1. PICK l \in Loads : AutoSave(l)
    BY <1>9
  <2>2. ~ mixed /\ (StartSave("save") => ~ Loading /\ (store.active = NoCid => ~ Busy))
    BY <2>1 DEF AutoSave, StartSave
  <2> QED
    BY <2>1, <2>2, IdAutoSave
<1>10. CASE NewAsset \/ DropIntoEmpty
  <2>1. ~ mixed /\ ~ Busy /\ ~ Loading
    BY <1>10 DEF NewAsset, DropIntoEmpty
  <2>2. DropIntoEmpty => store.id = None /\ store.latest = NoCid
    BY DEF DropIntoEmpty
  <2> QED
    BY <1>10, <2>1, <2>2, IdNewAsset, IdDropIntoEmpty
<1>11. CASE Refresh \/ UNCHANGED vars
  <2>1. /\ mixed' = mixed
        /\ UNCHANGED <<versions, listed, store, scene, loads, ops, stack, saved>>
    BY <1>11 DEF Refresh, vars
  <2> QED
    BY <2>1, IdUnchanged
<1>12. CASE \E o \in DOMAIN ops : Save(o)
  <2>1. PICK o \in {"save", "publish"} : Save(o)
    BY <1>0, <1>12
  <2>2. ~ mixed /\ ~ Loading /\ (store.active = NoCid => ~ Busy)
    BY <2>1 DEF Save, StartSave
  <2> QED
    BY <2>1, <2>2, IdSave
<1>13. CASE \E o \in DOMAIN ops : Resolve(o) \/ NoChanges(o) \/ OpFails(o)
  <2>1. PICK o \in {"save", "publish"} : Resolve(o) \/ NoChanges(o) \/ OpFails(o)
    BY <1>0, <1>13
  <2>2. mixed' = mixed
    BY <2>1 DEF Resolve, NoChanges, OpFails
  <2> QED
    BY <2>1, <2>2, IdResolve, IdNoChanges, IdOpFails
<1>14. CASE \E o \in DOMAIN ops : Write(o)
  <2>1. PICK o \in {"save", "publish"} : Write(o)
    BY <1>0, <1>14
  <2>2. ~ mixed /\ \A l \in Loads : loads[l].at \in {"reading", "loading"} => loads[l].how = "scrub"
    BY <2>1 DEF Write
  <2> QED
    BY <2>1, <2>2, IdWrite
<1>15. CASE Mined
  <2>1. mixed' = mixed
    BY <1>15 DEF Mined
  <2> QED
    BY <1>15, <2>1, IdMined
<1> QED
  BY <1>1, <1>2, <1>3, <1>4, <1>5, <1>6, <1>7, <1>8, <1>9, <1>10, <1>11, <1>12, <1>13, <1>14, <1>15 DEF Next

IdInv == Typed /\ (~ mixed => Identified)

(* Unless two assets met in a handler, the store, the load that works and   *)
(* the save or publication under way are of one asset: what asset.ts,       *)
(* manifest-builder.ts and the loads carry across their awaits agrees.      *)
THEOREM IdentityInvariant == Spec => []IdInv
<1>1. Init => IdInv
  BY TypedInit, IdentifiedInit DEF IdInv
<1>2. IdInv /\ [Next]_vars => IdInv'
  BY TypedStep, IdStep DEF IdInv
<1> QED
  BY <1>1, <1>2, PTL DEF Spec

(* The version open is one of the asset the next publication replaces, and  *)
(* what a collection lists under an id is a version of it: the identity     *)
(* that nesting.ts and the publication take from the store is the one the   *)
(* content states.                                                         *)
THEOREM Identity == Spec => []IdentityMatchesContent
<1>1. IdInv => IdentityMatchesContent
  BY IdentityFollows DEF IdInv, IdentityMatchesContent
<1> QED
  BY <1>1, IdentityInvariant, PTL

(***************************************************************************)
(* Saves: where, besides, no older version took the place of the tip, the   *)
(* versions saved stay on its chain, wherever the tip is to come from.      *)
(***************************************************************************)
OneOp == \A o, p \in {"save", "publish"} : ops[o] # Idle /\ ops[p] # Idle => p = o

TipKeeps == store.latest # NoCid => saved \subseteq Chain[store.latest]

LoadsKeep ==
    \A l \in Loads : loads[l].at = "loading" =>
        /\ loads[l].how = "restore" => saved \subseteq Chain[loads[l].tip]
        /\ loads[l].how \in {"open", "token", "send"} => saved \subseteq Chain[loads[l].cid]

OpsKeep ==
    \A o \in {"save", "publish"} :
        /\ ops[o].at = "building" /\ ~ ops[o].draft => store.latest # NoCid
        /\ ops[o].at = "writing" => saved \subseteq Chain[ops[o].prev]

StackKeeps ==
    \A d \in DOMAIN stack : stack[d].tip # NoCid => stack[d].saved \subseteq Chain[stack[d].tip]

Kept == OneOp /\ TipKeeps /\ LoadsKeep /\ OpsKeep /\ StackKeeps

----------------------------------------------------------------------------
LEMMA KeptFollows ==
    ASSUME Typed, Kept, store.latest # NoCid
    PROVE  saved \subseteq ChainOf(store.latest)
<1>1. store.latest \in 0 .. Len(versions)
  BY Shapes DEF StoreUpTo
<1>2. Chain[store.latest] = ChainOf(store.latest)
  BY <1>1, ChainFacts DEF Typed
<1> QED
  BY <1>2 DEF Kept, TipKeeps

LEMMA KeptInit == Init => Kept
  BY DEF Init, Kept, OneOp, TipKeeps, LoadsKeep, OpsKeep, StackKeeps, Idle

LEMMA ChainUnchanged == versions' = versions => Chain' = Chain
  BY DEF Chain, ChainOf


(* With nothing under way, the saves and the publications keep nothing.     *)
LEMMA NoOpKeeps ==
    ASSUME Typed, ~ Busy, ops' = ops
    PROVE  OneOp' /\ OpsKeep'
<1>1. \A o \in {"save", "publish"} : ops'[o] = Idle /\ ops'[o].at = "idle"
  BY NothingUnderWay
<1> QED
  BY <1>1 DEF OneOp, OpsKeep

LEMMA StackStays ==
    ASSUME StackKeeps, stack' = stack, versions' = versions
    PROVE  StackKeeps'
  BY ChainUnchanged DEF StackKeeps

LEMMA KeptBeginOpen ==
    ASSUME Typed, Kept, NEW l \in Loads, NEW how, NEW a \in Assets, BeginOpen(l, how, a), ~ Busy
    PROVE  Kept'
<1> DEFINE new == [at |-> "reading", how |-> how, asset |-> a, cid |-> listed[a]]
<1>1. /\ loads' = [loads EXCEPT ![l] = new]
      /\ store' = IF how = "entry" THEN Cleared(store) ELSE store
      /\ UNCHANGED <<versions, ops, stack, saved>>
  BY DEF BeginOpen
<1>2. loads'[l].at = "reading" /\ \A k \in Loads : k # l => loads'[k] = loads[k]
  BY <1>1, Shapes
<1>3. Chain' = Chain /\ store'.latest \in {NoCid, store.latest}
  BY <1>1, ChainUnchanged, Shapes DEF Cleared, StoreUpTo
<1>4. TipKeeps' /\ LoadsKeep'
  BY <1>1, <1>2, <1>3 DEF Kept, TipKeeps, LoadsKeep
<1> QED
  BY <1>1, <1>4, NoOpKeeps, StackStays DEF Kept

LEMMA KeptAdopt ==
    ASSUME Typed, Identified, Kept, NEW l \in Loads, Adopt(l), ~ Busy
    PROVE  Kept'
<1> DEFINE up == [cid |-> store.active, id |-> store.id, tip |-> store.latest, saved |-> saved]
<1>1. /\ saved' = {} /\ versions' = versions /\ ops' = ops
      /\ stack' = Append(stack, up) \/ stack' = stack
  BY DEF Adopt
<1>2. TipKeeps' /\ LoadsKeep'
  BY <1>1 DEF TipKeeps, LoadsKeep
<1>3. StackKeeps'
  <2>1. CASE stack' = stack
    BY <1>1, <2>1, StackStays DEF Kept
  <2>2. CASE stack' = Append(stack, up)
    <3>1. stack \in Seq(LevelUpTo(Len(versions))) /\ up \in LevelUpTo(Len(versions))
      BY Shapes DEF StoreUpTo, LevelUpTo
    <3>2. /\ DOMAIN stack' = (DOMAIN stack) \cup {Len(stack) + 1}
          /\ stack'[Len(stack) + 1] = up
          /\ \A d \in DOMAIN stack : stack'[d] = stack[d]
      BY <2>2, <3>1, AppendProperties, LenProperties
    <3>3. up.tip # NoCid => up.saved \subseteq Chain[up.tip]
      BY DEF Kept, TipKeeps
    <3>4. Chain' = Chain
      BY <1>1, ChainUnchanged
    <3> HIDE DEF up
    <3> QED
      BY <3>2, <3>3, <3>4 DEF Kept, StackKeeps
  <2> QED
    BY <1>1, <2>1, <2>2
<1> QED
  BY <1>1, <1>2, <1>3, NoOpKeeps DEF Kept

LEMMA KeptReadFails ==
    ASSUME Typed, Kept, NEW l \in Loads, ReadFails(l), ~ Busy
    PROVE  Kept'
<1>1. /\ loads' = [loads EXCEPT ![l] = Idle]
      /\ store' = IF loads[l].how = "token" THEN Closed(store) ELSE store
      /\ UNCHANGED <<versions, ops, stack, saved>>
  BY DEF ReadFails
<1>2. loads'[l].at = "idle" /\ \A k \in Loads : k # l => loads'[k] = loads[k]
  BY <1>1, Shapes DEF Idle
<1>3. Chain' = Chain /\ store'.latest \in {NoCid, store.latest}
  BY <1>1, ChainUnchanged, Shapes, NothingInClosed
<1>4. TipKeeps' /\ LoadsKeep'
  BY <1>1, <1>2, <1>3 DEF Kept, TipKeeps, LoadsKeep
<1> QED
  BY <1>1, <1>4, NoOpKeeps, StackStays DEF Kept

(* The parent's own saves are on the chain of the tip it had, and that tip  *)
(* is the version it is opened at again.                                   *)
LEMMA KeptAscend ==
    ASSUME Typed, Kept, NEW l \in Loads, Ascend(l), ~ Busy, ~ Loading,
           stack[Len(stack)].tip = stack[Len(stack)].cid
    PROVE  Kept'
<1> DEFINE up == stack[Len(stack)]
           new == [at |-> "loading", how |-> "open", cid |-> up.cid, tip |-> NoCid]
<1>1. /\ stack # <<>> /\ up.cid # NoCid
      /\ loads' = [loads EXCEPT ![l] = new]
      /\ store' = Opened(store, up.cid, up.id)
      /\ stack' = SubSeq(stack, 1, Len(stack) - 1)
      /\ saved' = up.saved
      /\ versions' = versions /\ ops' = ops
  BY DEF Ascend, StartLoad
<1>2. /\ loads'[l] = new /\ \A k \in Loads : k # l => loads'[k] = loads[k]
  BY <1>1, Shapes
<1>3. Len(stack) \in DOMAIN stack /\ Len(stack) \in Nat /\ Len(stack) - 1 \in Nat /\ DOMAIN stack = 1 .. Len(stack)
  BY <1>1, Shapes, EmptySeq, LenProperties
<1>4. Chain' = Chain /\ up.saved \subseteq Chain[up.cid] /\ store'.latest = up.cid
  BY <1>1, <1>3, ChainUnchanged, Shapes DEF Kept, StackKeeps, Opened, StoreUpTo
<1>5. TipKeeps'
  BY <1>1, <1>4 DEF TipKeeps
<1>6. LoadsKeep'
  <2>1. \A k \in Loads : k # l => loads'[k].at # "loading"
    BY <1>2, NothingLoads
  <2> QED
    BY <1>1, <1>2, <1>4, <2>1 DEF LoadsKeep
<1>7. StackKeeps'
  <2>1. /\ DOMAIN stack' = 1 .. (Len(stack) - 1)
        /\ \A d \in 1 .. (Len(stack) - 1) : stack'[d] = stack[d]
    BY <1>1, <1>3, Shapes, SubSeqProperties
  <2> QED
    BY <1>3, <1>4, <2>1 DEF Kept, StackKeeps
<1> QED
  BY <1>1, <1>5, <1>6, <1>7, NoOpKeeps DEF Kept

LEMMA KeptNewDraft ==
    ASSUME Typed, Kept, NewAsset \/ DropIntoEmpty, ~ Busy
    PROVE  Kept'
<1>1. saved' = {} /\ UNCHANGED <<versions, ops, stack>>
  BY DEF NewAsset, DropIntoEmpty
<1> QED
  BY <1>1, NoOpKeeps, StackStays DEF Kept, TipKeeps, LoadsKeep

LEMMA KeptRestore ==
    ASSUME Typed, Identified, Kept, NEW l \in Loads, NEW c \in Known, Restore(l, c), ~ Busy
    PROVE  Kept'
<1> DEFINE new == [at |-> "loading", how |-> "restore", cid |-> c, tip |-> store.latest]
<1>1. /\ c \in ChainOf(store.latest)
      /\ loads' = [loads EXCEPT ![l] = new]
      /\ store' = IF scene.filled THEN Cleared(store) ELSE [store EXCEPT !.active = c]
      /\ UNCHANGED <<versions, ops, stack, saved>>
  BY DEF Restore, StartLoad
<1>2. /\ loads'[l] = new /\ \A k \in Loads : k # l => loads'[k] = loads[k]
  BY <1>1, Shapes
<1>3. Chain' = Chain /\ store'.latest \in {NoCid, store.latest}
  BY <1>1, ChainUnchanged, Shapes DEF Cleared, StoreUpTo
<1>4. store.latest # NoCid
  <2>1. store.latest \in 0 .. Len(versions)
    BY Shapes DEF StoreUpTo
  <2>2. PICK y : Of(versions, store.latest, y)
    BY DEF Of
  <2> QED
    BY <1>1, <2>1, <2>2, OfChain DEF Identified
<1>5. saved \subseteq Chain[store.latest]
  BY <1>4 DEF Kept, TipKeeps
<1>6. TipKeeps'
  BY <1>1, <1>3, <1>5 DEF TipKeeps
<1>7. LoadsKeep'
  BY <1>1, <1>2, <1>3, <1>5 DEF Kept, LoadsKeep
<1> QED
  BY <1>1, <1>6, <1>7, NoOpKeeps, StackStays DEF Kept

(* The clock's root is the tip.                                            *)
LEMMA KeptScrub ==
    ASSUME Typed, Identified, Kept, NEW l \in Loads, NEW c \in Known, Scrub(l, c),
           clock.root \in {NoCid, store.latest}
    PROVE  Kept'
<1> DEFINE new == [at |-> "loading", how |-> "scrub", cid |-> c, tip |-> clock.at]
<1>1. /\ c \in ChainOf(clock.root)
      /\ loads' = [loads EXCEPT ![l] = new]
      /\ store' = [Cleared(store) EXCEPT !.latest = KeptTip]
      /\ UNCHANGED <<versions, ops, stack, saved>>
  BY DEF Scrub, StartLoad
<1>2. /\ loads'[l] = new /\ \A k \in Loads : k # l => loads'[k] = loads[k]
  BY <1>1, Shapes
<1>3. clock.root # NoCid
  <2>1. clock.root \in 0 .. Len(versions)
    BY Shapes DEF ClockUpTo
  <2>2. PICK y : Of(versions, clock.root, y)
    BY DEF Of
  <2> QED
    BY <1>1, <2>1, <2>2, OfChain DEF Identified
<1>4. Chain' = Chain /\ store'.latest = store.latest
  BY <1>1, <1>3, ChainUnchanged, Shapes DEF KeptTip, Cleared, StoreUpTo
<1>5. TipKeeps' /\ OneOp' /\ OpsKeep'
  BY <1>1, <1>4 DEF Kept, TipKeeps, OneOp, OpsKeep
<1>6. LoadsKeep'
  BY <1>1, <1>2, <1>4 DEF Kept, LoadsKeep
<1> QED
  BY <1>1, <1>5, <1>6, StackStays DEF Kept

LEMMA KeptLoaded ==
    ASSUME Typed, Identified, Identified', Kept, NEW l \in Loads, Loaded(l)
    PROVE  Kept'
<1> DEFINE r == loads[l]
           new == IF r.how = "send" THEN [at |-> "autosave"] ELSE Idle
           tip == IF r.how = "restore" /\ r.tip # NoCid THEN r.tip
                  ELSE IF clock.navigating THEN store.latest
                  ELSE r.cid
<1>1. /\ r.at = "loading"
      /\ loads' = [loads EXCEPT ![l] = new]
      /\ store' = [store EXCEPT !.active = r.cid, !.latest = tip]
      /\ UNCHANGED <<versions, ops, stack, saved>>
  BY DEF Loaded
<1>2. /\ loads'[l] = new /\ \A k \in Loads : k # l => loads'[k] = loads[k]
      /\ new.at # "loading"
  BY <1>1, Shapes DEF Idle
<1> HIDE DEF new
<1>3. r.how \in {"open", "token", "restore", "send", "scrub"} /\ r.cid # NoCid
  BY <1>1, Shapes, LoadKinds
<1>4. clock.navigating => r.how = "scrub" /\ store.latest # NoCid
  <2>1. clock.navigating => \E k \in Loads : loads[k].at = "loading" /\ loads[k].how = "scrub"
    BY Shapes DEF Navigates, Scrubbing
  <2> QED
    BY <1>1, <2>1 DEF Identified, LoadsAlone, Working
<1>5. r.how = "scrub" => clock.navigating
  BY <1>1, Shapes DEF Navigates, Scrubbing
<1>6. r.how = "restore" => r.tip # NoCid
  BY <1>1 DEF Identified, LoadsAlone
<1>7. saved \subseteq Chain[tip]
  <2>1. CASE r.how = "restore"
    BY <1>1, <1>6, <2>1 DEF Kept, LoadsKeep
  <2>2. CASE r.how = "scrub"
    BY <1>4, <1>5, <2>2 DEF Kept, TipKeeps
  <2>3. CASE r.how \in {"open", "token", "send"}
    <3>1. tip = r.cid
      BY <1>4, <2>3
    <3> QED
      BY <1>1, <2>3, <3>1 DEF Kept, LoadsKeep
  <2> QED
    BY <1>3, <2>1, <2>2, <2>3
<1>8. store'.latest = tip /\ store'.latest # NoCid
  <2>1. store'.latest = tip /\ store'.active = r.cid
    BY <1>1, Shapes DEF StoreUpTo
  <2> QED
    BY <1>3, <2>1 DEF Identified, Drafts
<1> HIDE DEF tip
<1>9. Chain' = Chain
  BY <1>1, ChainUnchanged
<1>10. TipKeeps'
  BY <1>1, <1>7, <1>8, <1>9 DEF TipKeeps
<1>11. LoadsKeep'
  BY <1>1, <1>2, <1>9 DEF Kept, LoadsKeep
<1>12. OneOp' /\ OpsKeep'
  BY <1>1, <1>8, <1>9 DEF Kept, OneOp, OpsKeep
<1> QED
  BY <1>1, <1>10, <1>11, <1>12, StackStays DEF Kept

LEMMA KeptLoadFails ==
    ASSUME Typed, Kept, NEW l \in Loads, LoadFails(l), loads[l].how = "token" => ~ Busy
    PROVE  Kept'
<1>1. /\ loads' = [loads EXCEPT ![l] = Idle]
      /\ store' = IF loads[l].how = "token" THEN Closed(store) ELSE store
      /\ UNCHANGED <<versions, ops, stack, saved>>
  BY DEF LoadFails
<1>2. loads'[l].at = "idle" /\ \A k \in Loads : k # l => loads'[k] = loads[k]
  BY <1>1, Shapes DEF Idle
<1>3. Chain' = Chain /\ store'.latest \in {NoCid, store.latest}
  BY <1>1, ChainUnchanged, Shapes, NothingInClosed
<1>4. TipKeeps' /\ LoadsKeep'
  BY <1>1, <1>2, <1>3 DEF Kept, TipKeeps, LoadsKeep
<1>5. OneOp' /\ OpsKeep'
  <2>1. CASE loads[l].how = "token"
    BY <1>1, <2>1, NoOpKeeps
  <2>2. CASE loads[l].how # "token"
    BY <1>1, <1>3, <2>2 DEF Kept, OneOp, OpsKeep
  <2> QED
    BY <2>1, <2>2
<1> QED
  BY <1>1, <1>4, <1>5, StackStays DEF Kept

LEMMA KeptUnchanged ==
    ASSUME Typed, Kept, UNCHANGED <<versions, store, loads, ops, stack, saved>>
    PROVE  Kept'
<1>1. Chain' = Chain
  BY ChainUnchanged
<1> QED
  BY <1>1 DEF Kept, OneOp, TipKeeps, LoadsKeep, OpsKeep, StackKeeps

(* A version that is written leaves the parents' saves on their chains.     *)
LEMMA StackOutgrown ==
    ASSUME Typed, StackKeeps, stack' = stack,
           \A u \in 0 .. Len(versions) : Chain'[u] = Chain[u]
    PROVE  StackKeeps'
<1>1. \A d \in DOMAIN stack : stack[d] \in LevelUpTo(Len(versions))
  BY Shapes, LenProperties, ElementOfSeq
<1>2. \A d \in DOMAIN stack : stack[d].tip \in 0 .. Len(versions)
  BY <1>1 DEF LevelUpTo
<1> QED
  BY <1>2 DEF StackKeeps

LEMMA KeptSend ==
    ASSUME Typed, Kept, NEW l \in Loads, Send(l), ~ Busy, ~ Loading, NEW base \in Known \cup {NoCid},
           NEW a \in Assets, versions' = Append(versions, [asset |-> a, prev |-> base]),
           saved' = IF base = NoCid THEN {} ELSE saved,
           base # NoCid => saved \subseteq ChainOf(base)
    PROVE  Kept'
<1> DEFINE c == Len(versions) + 1
           new == [at |-> "loading", how |-> "send", cid |-> c, tip |-> NoCid]
           v == [asset |-> a, prev |-> base]
<1>1. /\ c <= MaxVersions
      /\ loads' = [loads EXCEPT ![l] = new]
      /\ store' = IF scene.filled THEN Cleared(store) ELSE Opened(store, c, store.id)
      /\ ops' = ops /\ stack' = stack
  BY DEF Send, StartLoad
<1>2. /\ loads'[l] = new /\ \A k \in Loads : k # l => loads'[k] = loads[k]
  BY <1>1, Shapes
<1>3. v \in [asset : Assets, prev : MaybeCid] /\ v.prev \in 0 .. Len(versions)
  <2>1. base \in 0 .. Len(versions)
    BY Shapes
  <2>2. base \in MaybeCid
    BY <2>1, <1>1, Shapes, BoundsAssumption DEF MaybeCid, Cids, NoCid
  <2> QED
    BY <2>1, <2>2
<1>4. /\ \A u \in 0 .. Len(versions) : Chain'[u] = Chain[u]
      /\ Chain'[c] = {c} \cup Chain[base]
  BY <1>3, OneVersionMore DEF Typed
<1>5. saved' \subseteq Chain'[c]
  <2>1. base # NoCid => Chain[base] = ChainOf(base)
    BY <1>3, ChainFacts DEF Typed
  <2> QED
    BY <1>4, <2>1
<1>6. store'.latest \in {NoCid, c}
  <2>1. CASE scene.filled
    BY <1>1, <2>1, Shapes DEF StoreUpTo, Cleared
  <2>2. CASE ~ scene.filled
    BY <1>1, <2>2, Shapes DEF StoreUpTo, Opened
  <2> QED
    BY <2>1, <2>2
<1>7. TipKeeps'
  BY <1>5, <1>6 DEF TipKeeps
<1>8. LoadsKeep'
  <2>1. \A k \in Loads : k # l => loads'[k].at # "loading"
    BY <1>2, NothingLoads
  <2> QED
    BY <1>2, <1>5, <2>1 DEF LoadsKeep
<1>9. OneOp' /\ OpsKeep'
  BY <1>1, NoOpKeeps
<1>10. StackKeeps'
  BY <1>1, <1>4, StackOutgrown DEF Kept
<1> QED
  BY <1>7, <1>8, <1>9, <1>10 DEF Kept

LEMMA KeptStartSave ==
    ASSUME Typed, Identified, Kept, NEW o \in {"save", "publish"}, StartSave(o), ~ Busy, ~ Loading,
           UNCHANGED <<versions, store, stack, saved>>,
           \A l \in Loads : ~ Working(loads'[l])
    PROVE  Kept'
<1>1. PICK a \in Base :
        ops' = [ops EXCEPT ![o] = [at |-> "building", asset |-> a, draft |-> store.active = NoCid]]
  BY DEF StartSave
<1> DEFINE new == [at |-> "building", asset |-> a, draft |-> store.active = NoCid]
<1>2. ops'[o] = new /\ \A p \in {"save", "publish"} : p # o => ops'[p] = ops[p]
  BY <1>1, Shapes
<1>3. \A p \in {"save", "publish"} : p # o => ops'[p] = Idle /\ ops'[p].at = "idle"
  BY <1>2, NothingUnderWay
<1>4. OneOp'
  BY <1>3 DEF OneOp
<1>5. OpsKeep'
  <2>1. ~ new.draft => store.latest # NoCid
    BY DEF Identified, Drafts
  <2> QED
    BY <1>2, <1>3, <2>1 DEF OpsKeep
<1>6. TipKeeps' /\ LoadsKeep'
  BY ChainUnchanged DEF Kept, TipKeeps, LoadsKeep, Working
<1> QED
  BY <1>4, <1>5, <1>6, StackStays DEF Kept

LEMMA KeptSave ==
    ASSUME Typed, Identified, Kept, NEW o \in {"save", "publish"}, Save(o), ~ Loading, ~ Busy
    PROVE  Kept'
<1>1. loads' = loads /\ UNCHANGED <<versions, store, stack, saved>> /\ StartSave(o)
  BY DEF Save
<1>2. \A l \in Loads : ~ Working(loads'[l])
  BY <1>1, NothingLoads
<1> QED
  BY <1>1, <1>2, KeptStartSave

LEMMA KeptAutoSave ==
    ASSUME Typed, Identified, Kept, NEW l \in Loads, AutoSave(l),
           StartSave("save") => ~ Loading /\ ~ Busy
    PROVE  Kept'
<1>1. /\ loads[l].at = "autosave" /\ loads' = [loads EXCEPT ![l] = Idle]
      /\ UNCHANGED <<versions, store, stack, saved>>
  BY DEF AutoSave
<1>2. StartSave("save") \/ ops' = ops
  BY DEF AutoSave
<1>3. loads'[l].at = "idle" /\ \A k \in Loads : k # l => loads'[k] = loads[k]
  BY <1>1, Shapes DEF Idle
<1>4. CASE StartSave("save")
  <2>1. \A k \in Loads : ~ Working(loads'[k])
    BY <1>3, <1>4, NothingLoads DEF Working
  <2> QED
    BY <1>1, <1>4, <2>1, KeptStartSave
<1>5. CASE ops' = ops
  <2>1. Chain' = Chain
    BY <1>1, ChainUnchanged
  <2> QED
    BY <1>1, <1>3, <1>5, <2>1 DEF Kept, OneOp, TipKeeps, LoadsKeep, OpsKeep, StackKeeps
<1> QED
  BY <1>2, <1>4, <1>5

(* A step of a save or a publication that writes no version.                *)
LEMMA KeptOpMoves ==
    ASSUME Typed, Kept, NEW o \in {"save", "publish"}, NEW r,
           ops[o] # Idle, ops' = [ops EXCEPT ![o] = r],
           UNCHANGED <<versions, loads, stack, saved>>, store'.latest = store.latest,
           r.at # "building",
           r.at = "writing" => saved \subseteq Chain[r.prev]
    PROVE  Kept'
<1>1. ops'[o] = r /\ \A p \in {"save", "publish"} : p # o => ops'[p] = ops[p]
  BY Shapes
<1>2. Chain' = Chain
  BY ChainUnchanged
<1>3. \A p \in {"save", "publish"} : p # o => ops'[p] = Idle
  BY <1>1 DEF Kept, OneOp
<1>4. OneOp' /\ OpsKeep'
  BY <1>1, <1>2, <1>3 DEF OneOp, OpsKeep, Idle
<1>5. TipKeeps' /\ LoadsKeep'
  BY <1>2 DEF Kept, TipKeeps, LoadsKeep
<1> QED
  BY <1>4, <1>5, StackStays DEF Kept

(* With no tip, it is a draft that is saved, and no version was before.     *)
LEMMA KeptResolve ==
    ASSUME Typed, Identified, Kept, NEW o \in {"save", "publish"}, Resolve(o)
    PROVE  Kept'
<1> DEFINE r == ops[o]
           prev == IF store.latest # NoCid THEN store.latest
                   ELSE IF store.id # None THEN NoCid
                   ELSE store.active
           new == [at |-> "writing", asset |-> r.asset, draft |-> r.draft, prev |-> prev]
<1>1. /\ r.at = "building" /\ ops' = [ops EXCEPT ![o] = new]
      /\ UNCHANGED <<versions, store, loads, stack, saved>>
  BY DEF Resolve
<1>2. r # Idle
  BY <1>1 DEF Idle
<1>3. saved \subseteq Chain[prev]
  <2>1. CASE store.latest # NoCid
    BY <2>1 DEF Kept, TipKeeps
  <2>2. CASE store.latest = NoCid
    <3>1. Drafting(r)
      BY <1>1, <2>2 DEF Kept, OpsKeep, Drafting
    <3> QED
      BY <3>1 DEF Identified, Drafts, NoAssetYet
  <2> QED
    BY <2>1, <2>2
<1>4. new.at = "writing" /\ new.prev = prev
  OBVIOUS
<1> HIDE DEF new, prev
<1> QED
  BY <1>1, <1>2, <1>3, <1>4, KeptOpMoves

LEMMA KeptNoChanges ==
    ASSUME Typed, Kept, NEW o \in {"save", "publish"}, NoChanges(o)
    PROVE  Kept'
<1> DEFINE r == ops[o]
           new == AfterWrite(o, versions[r.prev].asset, r.prev)
<1>1. /\ r.at = "writing" /\ ops' = [ops EXCEPT ![o] = new]
      /\ UNCHANGED <<versions, store, loads, stack, saved>>
  BY DEF NoChanges
<1>2. r # Idle
  BY <1>1 DEF Idle
<1>3. new.at \notin {"building", "writing"}
  BY DEF AfterWrite, Idle
<1> HIDE DEF new
<1> QED
  BY <1>1, <1>2, <1>3, KeptOpMoves

LEMMA KeptOpEnds ==
    ASSUME Typed, Kept, NEW o \in {"save", "publish"}, OpFails(o) \/ (Mined /\ o = "publish")
    PROVE  Kept'
<1>1. /\ ops[o] # Idle /\ ops' = [ops EXCEPT ![o] = Idle]
      /\ UNCHANGED <<versions, loads, stack, saved>>
  BY DEF OpFails, Mined, Idle
<1>2. store'.latest = store.latest
  BY Shapes DEF OpFails, Mined, StoreUpTo
<1>3. Idle.at \notin {"building", "writing"}
  BY DEF Idle
<1> QED
  BY <1>1, <1>2, <1>3, KeptOpMoves

LEMMA KeptWrite ==
    ASSUME Typed, Kept, NEW o \in {"save", "publish"}, Write(o),
           \A l \in Loads : loads[l].at \in {"reading", "loading"} => loads[l].how = "scrub"
    PROVE  Kept'
<1> DEFINE r == ops[o]
           c == Len(versions) + 1
           v == [asset |-> r.asset, prev |-> r.prev]
           new == AfterWrite(o, r.asset, c)
<1>1. /\ r.at = "writing" /\ Len(versions) < MaxVersions
      /\ versions' = Append(versions, v)
      /\ store' = Recorded(store, c)
      /\ ops' = [ops EXCEPT ![o] = new]
      /\ saved' = saved \cup {c}
      /\ loads' = loads /\ stack' = stack
  BY DEF Write
<1>2. ops'[o] = new /\ \A p \in {"save", "publish"} : p # o => ops'[p] = ops[p]
  BY <1>1, Shapes
<1>3. v \in [asset : Assets, prev : MaybeCid] /\ v.prev \in 0 .. Len(versions)
  <2>1. r.asset \in Assets /\ r.prev \in 0 .. Len(versions)
    BY <1>1, Shapes, OpKinds
  <2>2. r.prev \in MaybeCid
    BY <1>1, <2>1, Shapes, BoundsAssumption DEF MaybeCid, Cids, NoCid
  <2> QED
    BY <2>1, <2>2
<1>4. /\ \A u \in 0 .. Len(versions) : Chain'[u] = Chain[u]
      /\ Chain'[c] = {c} \cup Chain[r.prev]
  BY <1>1, <1>3, OneVersionMore DEF Typed
<1>5. saved \subseteq Chain[r.prev]
  BY <1>1 DEF Kept, OpsKeep
<1>6. saved' \subseteq Chain'[c] /\ store'.latest = c
  BY <1>1, <1>4, <1>5, Shapes DEF Recorded, StoreUpTo
<1>7. TipKeeps'
  BY <1>6 DEF TipKeeps
<1>8. LoadsKeep'
  BY <1>1 DEF LoadsKeep
<1>9. new.at \notin {"building", "writing"}
  BY DEF AfterWrite, Idle
<1>10. \A p \in {"save", "publish"} : p # o => ops'[p] = Idle
  BY <1>1, <1>2 DEF Kept, OneOp, Idle
<1> HIDE DEF new
<1>11. OneOp' /\ OpsKeep'
  BY <1>2, <1>9, <1>10 DEF OneOp, OpsKeep, Idle
<1>12. StackKeeps'
  BY <1>1, <1>4, StackOutgrown DEF Kept
<1> QED
  BY <1>7, <1>8, <1>11, <1>12 DEF Kept

LEMMA KeptStep ==
    ASSUME Typed, ~ mixed => Identified, ~ mixed' => Identified',
           ~ mixed /\ ~ forked => Kept, [Next]_vars, ~ mixed', ~ forked'
    PROVE  Kept'
<1>0. DOMAIN ops = {"save", "publish"}
  BY Shapes
<1>1. CASE \E l \in Loads : \E how \in {"entry", "token", "dive"}, a \in Assets : BeginOpen(l, how, a)
  <2>1. PICK l \in Loads, how \in {"entry", "token", "dive"}, a \in Assets : BeginOpen(l, how, a)
    BY <1>1
  <2>2. ~ mixed /\ ~ forked /\ ~ Busy
    BY <2>1 DEF BeginOpen
  <2> QED
    BY <2>1, <2>2, KeptBeginOpen
<1>2. CASE \E l \in Loads : Adopt(l) \/ ReadFails(l)
  <2>1. PICK l \in Loads : Adopt(l) \/ ReadFails(l)
    BY <1>2
  <2>2. ~ mixed /\ ~ forked /\ ~ Busy
    <3>1. forked' = forked /\ mixed' = (mixed \/ Busy)
      BY <2>1 DEF Adopt, ReadFails
    <3> QED
      BY <3>1
  <2> QED
    BY <2>1, <2>2, KeptAdopt, KeptReadFails
<1>3. CASE \E l \in Loads : Ascend(l)
  <2>1. PICK l \in Loads : Ascend(l)
    BY <1>3
  <2>2. ~ mixed /\ ~ forked /\ ~ Busy /\ ~ Loading /\ stack[Len(stack)].tip = stack[Len(stack)].cid
    BY <2>1 DEF Ascend
  <2> QED
    BY <2>1, <2>2, KeptAscend
<1>4. CASE \E l \in Loads : \E c \in Known : Restore(l, c)
  <2>1. PICK l \in Loads, c \in Known : Restore(l, c)
    BY <1>4
  <2>2. ~ mixed /\ ~ forked /\ ~ Busy
    BY <2>1 DEF Restore
  <2> QED
    BY <2>1, <2>2, KeptRestore
<1>5. CASE \E l \in Loads : \E c \in Known : Scrub(l, c)
  <2>1. PICK l \in Loads, c \in Known : Scrub(l, c)
    BY <1>5
  <2>2. ~ mixed /\ ~ forked /\ clock.root \in {NoCid, store.latest}
    BY <2>1 DEF Scrub
  <2> QED
    BY <2>1, <2>2, KeptScrub
<1>6. CASE \E l \in Loads : Loaded(l)
  <2>1. PICK l \in Loads : Loaded(l)
    BY <1>6
  <2>2. ~ mixed /\ ~ forked
    BY <2>1 DEF Loaded
  <2> QED
    BY <2>1, <2>2, KeptLoaded
<1>7. CASE \E l \in Loads : LoadFails(l)
  <2>1. PICK l \in Loads : LoadFails(l)
    BY <1>7
  <2>2. ~ mixed /\ ~ forked /\ ~ (Busy /\ loads[l].how = "token")
    BY <2>1 DEF LoadFails
  <2> QED
    BY <2>1, <2>2, KeptLoadFails
<1>8. CASE \E l \in Loads : Send(l)
  <2>1. PICK l \in Loads : Send(l)
    BY <1>8
  <2>2. PICK base \in Known \cup {NoCid}, a \in Assets :
          /\ versions' = Append(versions, [asset |-> a, prev |-> base])
          /\ saved' = IF base = NoCid THEN {} ELSE saved
          /\ forked' = (forked \/ (base # NoCid /\ ~ saved \subseteq ChainOf(base)))
          /\ mixed' = (mixed \/ Loading \/ Busy \/ (store.id # None /\ Another(a)))
    BY <2>1 DEF Send
  <2>3. /\ ~ mixed /\ ~ forked /\ ~ Loading /\ ~ Busy
        /\ base # NoCid => saved \subseteq ChainOf(base)
    BY <2>2
  <2> QED
    BY <2>1, <2>2, <2>3, KeptSend
<1>9. CASE \E l \in Loads : AutoSave(l)
  <2>1. PICK l \in Loads : AutoSave(l)
    BY <1>9
  <2>2. ~ mixed /\ ~ forked /\ (StartSave("save") => ~ Loading /\ ~ Busy)
    BY <2>1 DEF AutoSave, StartSave
  <2> QED
    BY <2>1, <2>2, KeptAutoSave
<1>10. CASE NewAsset \/ DropIntoEmpty
  <2>1. ~ mixed /\ ~ forked /\ ~ Busy
    <3>1. forked' = forked
      BY <1>10 DEF NewAsset, DropIntoEmpty
    <3>2. ~ mixed /\ ~ Busy
      BY <1>10 DEF NewAsset, DropIntoEmpty
    <3> QED
      BY <3>1, <3>2
  <2> QED
    BY <1>10, <2>1, KeptNewDraft
<1>11. CASE Refresh \/ UNCHANGED vars
  <2>1. /\ mixed' = mixed /\ forked' = forked
        /\ UNCHANGED <<versions, store, loads, ops, stack, saved>>
    BY <1>11 DEF Refresh, vars
  <2> QED
    BY <2>1, KeptUnchanged
<1>12. CASE \E o \in DOMAIN ops : Save(o)
  <2>1. PICK o \in {"save", "publish"} : Save(o)
    BY <1>0, <1>12
  <2>2. ~ mixed /\ ~ forked /\ ~ Loading /\ ~ Busy
    BY <2>1 DEF Save, StartSave
  <2> QED
    BY <2>1, <2>2, KeptSave
<1>13. CASE \E o \in DOMAIN ops : Resolve(o) \/ NoChanges(o) \/ OpFails(o)
  <2>1. PICK o \in {"save", "publish"} : Resolve(o) \/ NoChanges(o) \/ OpFails(o)
    BY <1>0, <1>13
  <2>2. mixed' = mixed /\ forked' = forked
    BY <2>1 DEF Resolve, NoChanges, OpFails
  <2> QED
    BY <2>1, <2>2, KeptResolve, KeptNoChanges, KeptOpEnds
<1>14. CASE \E o \in DOMAIN ops : Write(o)
  <2>1. PICK o \in {"save", "publish"} : Write(o)
    BY <1>0, <1>14
  <2>2. /\ ~ mixed /\ ~ forked
        /\ \A l \in Loads : loads[l].at \in {"reading", "loading"} => loads[l].how = "scrub"
    BY <2>1 DEF Write
  <2> QED
    BY <2>1, <2>2, KeptWrite
<1>15. CASE Mined
  <2>1. mixed' = mixed /\ forked' = forked
    BY <1>15 DEF Mined
  <2> QED
    BY <1>15, <2>1, KeptOpEnds
<1> QED
  BY <1>1, <1>2, <1>3, <1>4, <1>5, <1>6, <1>7, <1>8, <1>9, <1>10, <1>11, <1>12, <1>13, <1>14, <1>15 DEF Next

IInv == IdInv /\ (~ mixed /\ ~ forked => Kept)

(* Besides, wherever a load, a save or an ascent takes the next tip from,   *)
(* the versions saved since the asset was opened are on its chain.          *)
THEOREM Inductive == Spec => []IInv
<1>1. Init => IInv
  BY TypedInit, IdentifiedInit, KeptInit DEF IInv, IdInv
<1>2. IInv /\ [Next]_vars => IInv'
  <2> SUFFICES ASSUME IInv, [Next]_vars PROVE IInv'
    OBVIOUS
  <2>1. Typed /\ (~ mixed => Identified) /\ (~ mixed /\ ~ forked => Kept)
    BY DEF IInv, IdInv
  <2>2. Typed' /\ (~ mixed' => Identified')
    BY <2>1, TypedStep, IdStep
  <2>3. ~ mixed' /\ ~ forked' => Kept'
    BY <2>1, <2>2, KeptStep
  <2> QED
    BY <2>2, <2>3 DEF IInv, IdInv
<1> QED
  BY <1>1, <1>2, PTL DEF Spec

(* A save appends to the tip (resolveLatestManifestCid of                   *)
(* manifest-builder.ts), so every version saved since the asset was opened  *)
(* stays on the chain of its tip, however the user moved about in it.       *)
THEOREM SavesKept == Spec => []KeepsEverySave
<1>1. IInv => KeepsEverySave
  BY KeptFollows DEF IInv, IdInv, KeepsEverySave
<1> QED
  BY <1>1, Inductive, PTL

(***************************************************************************)
(* The unsaved edits of the asset that is open: DraftEdits.  Its state is  *)
(* typed, what the viewport shows is what the next save writes, and undoing *)
(* every edit leads back, for any children, positions and depth of the undo *)
(* stack, of whatever has not strayed.                                     *)
(***************************************************************************)

(* Entries of a kind in a stack, and what pushing, undoing and redoing do.   *)
(* An entry of a kind is on the stack; there is at most one of them.         *)
Has(s, E) == \E i \in 1 .. Len(s) : s[i] \in E
Once(s, E) == \A i, j \in 1 .. Len(s) : s[i] \in E /\ s[j] \in E => i = j

OfChild(c) == [type : {"child"}, child : {c}, fromPending : BOOLEAN]
OfPart == [type : {"part"}]

(* The undo stack after an entry is pushed.                                  *)
Pushed(s, e) == IF Len(s) = MaxUndo THEN Append(Tail(s), e) ELSE Append(s, e)

LEMMA UndoBound == MaxUndo \in Nat /\ MaxUndo >= 1 /\ Nowhere \notin Positions
  BY ConstantsAssumption DEF Nowhere

LEMMA AppendIs ==
    ASSUME NEW S, NEW s \in Seq(S), NEW e \in S
    PROVE  /\ Append(s, e) \in Seq(S) /\ Len(Append(s, e)) = Len(s) + 1
           /\ Append(s, e)[Len(s) + 1] = e
           /\ \A i \in 1 .. Len(s) : Append(s, e)[i] = s[i]
           /\ Len(s) \in Nat
  BY AppendProperties, LenProperties

LEMMA TailIs ==
    ASSUME NEW S, NEW s \in Seq(S), Len(s) >= 1
    PROVE  /\ Tail(s) \in Seq(S) /\ Len(Tail(s)) = Len(s) - 1 /\ Head(s) = s[1] /\ Head(s) \in S
           /\ \A i \in 1 .. Len(s) - 1 : Tail(s)[i] = s[i + 1]
<1>1. s # <<>> /\ Len(s) \in Nat
  BY LenProperties
<1> QED
  BY <1>1, HeadTailProperties, ElementOfSeq

LEMMA FrontIs ==
    ASSUME NEW S, NEW s \in Seq(S), s # <<>>
    PROVE  /\ Front(s) \in Seq(S) /\ Len(s) \in Nat /\ Len(s) >= 1
           /\ Len(Front(s)) = Len(s) - 1
           /\ Last(s) = s[Len(s)] /\ Last(s) \in S
           /\ \A i \in 1 .. Len(s) - 1 : Front(s)[i] = s[i]
<1>1. Len(s) \in Nat /\ Len(s) >= 1
  BY LenProperties, EmptySeq
<1>2. Last(s) = s[Len(s)] /\ Last(s) \in S
  BY <1>1, ElementOfSeq DEF Last
<1>3. Front(s) = SubSeq(s, 1, Len(s) - 1)
  BY DEF Front
<1>4. \A i \in 1 .. Len(s) - 1 : s[i] \in S
  BY <1>1, ElementOfSeq
<1>5. /\ SubSeq(s, 1, Len(s) - 1) \in Seq(S)
      /\ Len(SubSeq(s, 1, Len(s) - 1)) = IF 1 <= Len(s) - 1 THEN Len(s) - 1 - 1 + 1 ELSE 0
      /\ \A i \in 1 .. Len(s) - 1 - 1 + 1 : SubSeq(s, 1, Len(s) - 1)[i] = s[1 + i - 1]
  BY <1>1, <1>4, SubSeqProperties
<1>6. /\ Front(s) \in Seq(S) /\ Len(Front(s)) = Len(s) - 1
  <2>1. IF 1 <= Len(s) - 1 THEN Len(s) - 1 - 1 + 1 = Len(s) - 1 ELSE Len(s) - 1 = 0
    BY <1>1
  <2>2. Len(SubSeq(s, 1, Len(s) - 1)) = Len(s) - 1
    BY <1>1, <1>5, <2>1
  <2> QED
    BY <1>3, <1>5, <2>2
<1>7. \A i \in 1 .. Len(s) - 1 : i \in 1 .. Len(s) - 1 - 1 + 1 /\ 1 + i - 1 = i
  BY <1>1
<1>8. \A i \in 1 .. Len(s) - 1 : Front(s)[i] = s[i]
  BY <1>3, <1>5, <1>7
<1> QED
  BY <1>1, <1>2, <1>6, <1>8

LEMMA PushedOnRoom ==
    ASSUME NEW S, NEW s \in Seq(S), NEW e \in S, Len(s) <= MaxUndo, Len(s) # MaxUndo
    PROVE  /\ Pushed(s, e) \in Seq(S) /\ Len(s) \in Nat
           /\ Len(Pushed(s, e)) = Len(s) + 1 /\ Len(Pushed(s, e)) \in 1 .. MaxUndo
           /\ Pushed(s, e)[Len(s) + 1] = e
           /\ \A i \in 1 .. Len(s) : Pushed(s, e)[i] = s[i]
<1>1. Pushed(s, e) = Append(s, e)
  BY DEF Pushed
<1> QED
  BY <1>1, AppendIs, UndoBound

LEMMA PushedOnFull ==
    ASSUME NEW S, NEW s \in Seq(S), NEW e \in S, Len(s) = MaxUndo
    PROVE  /\ Pushed(s, e) \in Seq(S) /\ Len(s) \in Nat
           /\ Len(Pushed(s, e)) = Len(s) /\ Len(Pushed(s, e)) \in 1 .. MaxUndo
           /\ Pushed(s, e)[Len(s)] = e
           /\ \A i \in 1 .. Len(s) - 1 : Pushed(s, e)[i] = s[i + 1]
           /\ Head(s) = s[1] /\ Head(s) \in S
<1>1. Pushed(s, e) = Append(Tail(s), e)
  BY DEF Pushed
<1>2. /\ Tail(s) \in Seq(S) /\ Len(Tail(s)) = Len(s) - 1 /\ Head(s) = s[1] /\ Head(s) \in S
      /\ \A i \in 1 .. Len(s) - 1 : Tail(s)[i] = s[i + 1]
  BY TailIs, UndoBound
<1>3. /\ Append(Tail(s), e) \in Seq(S) /\ Len(Append(Tail(s), e)) = Len(s)
      /\ Append(Tail(s), e)[Len(s)] = e
      /\ \A i \in 1 .. Len(s) - 1 : Append(Tail(s), e)[i] = Tail(s)[i]
  BY <1>2, AppendIs, UndoBound
<1> QED
  BY <1>1, <1>2, <1>3, UndoBound

LEMMA PushedHas ==
    ASSUME NEW S, NEW s \in Seq(S), NEW e \in S, Len(s) <= MaxUndo, NEW E, Once(s, E)
    PROVE  /\ e \in E => Has(Pushed(s, e), E)
           /\ e \in E /\ ~ Has(s, E) => Once(Pushed(s, e), E)
           /\ e \notin E =>
                /\ Once(Pushed(s, e), E)
                /\ Has(Pushed(s, e), E) =>
                      Has(s, E) /\ ~ (Len(s) = MaxUndo /\ Head(s) \in E)
                /\ Has(s, E) => Has(Pushed(s, e), E) \/ (Len(s) = MaxUndo /\ Head(s) \in E)
           /\ Len(s) = MaxUndo /\ Head(s) \in E => Has(s, E)
<1> DEFINE t == Pushed(s, e)
<1>1. CASE Len(s) # MaxUndo
  <2>1. /\ Len(t) = Len(s) + 1 /\ t[Len(s) + 1] = e /\ Len(s) \in Nat
        /\ \A i \in 1 .. Len(s) : t[i] = s[i]
    <3>1. t = Append(s, e)
      BY <1>1 DEF Pushed
    <3> HIDE DEF t
    <3> QED
      BY <3>1, AppendIs
  <2> HIDE DEF t
  <2>2. e \in E => Has(t, E)
    <3>1. Len(s) + 1 \in 1 .. Len(t)
      BY <2>1
    <3> QED
      BY <2>1, <3>1 DEF Has
  <2>3. e \in E /\ ~ Has(s, E) => Once(t, E)
    BY <2>1 DEF Has, Once
  <2>4. e \notin E => Once(t, E) /\ (Has(t, E) <=> Has(s, E))
    BY <2>1 DEF Has, Once
  <2> QED
    BY <1>1, <2>2, <2>3, <2>4 DEF t
<1>2. CASE Len(s) = MaxUndo
  <2>1. /\ Len(t) = Len(s) /\ t[Len(s)] = e /\ Len(s) \in Nat /\ Len(s) >= 1
        /\ Head(s) = s[1]
        /\ \A i \in 1 .. Len(s) - 1 : t[i] = s[i + 1]
    <3>1. Len(t) = Len(s) /\ t[Len(s)] = e /\ Len(s) \in Nat /\ Head(s) = s[1]
      BY <1>2, PushedOnFull
    <3>2. /\ Tail(s) \in Seq(S) /\ Len(Tail(s)) = Len(s) - 1
          /\ \A i \in 1 .. Len(s) - 1 : Tail(s)[i] = s[i + 1]
      BY <1>2, TailIs, UndoBound
    <3>3. \A i \in 1 .. Len(s) - 1 : Append(Tail(s), e)[i] = Tail(s)[i]
      BY <3>2, AppendIs
    <3>4. t = Append(Tail(s), e)
      BY <1>2 DEF Pushed
    <3> QED
      BY <1>2, <3>1, <3>2, <3>3, <3>4, UndoBound
  <2> HIDE DEF t
  <2>2. e \in E => Has(t, E)
    BY <2>1 DEF Has
  <2>3. e \in E /\ ~ Has(s, E) => Once(t, E)
    <3> SUFFICES ASSUME ~ Has(s, E), NEW i \in 1 .. Len(t), NEW j \in 1 .. Len(t),
                        t[i] \in E, t[j] \in E
                 PROVE  i = j
      BY DEF Once
    <3>1. \A k \in 1 .. Len(s) - 1 : t[k] \notin E
      <4> SUFFICES ASSUME NEW k \in 1 .. Len(s) - 1 PROVE s[k + 1] \notin E
        BY <2>1
      <4>1. k + 1 \in 1 .. Len(s)
        BY <2>1
      <4> QED
        BY <4>1 DEF Has
    <3> QED
      BY <2>1, <3>1
  <2>4. e \notin E => Once(t, E)
    <3> SUFFICES ASSUME e \notin E, NEW i \in 1 .. Len(t), NEW j \in 1 .. Len(t),
                        t[i] \in E, t[j] \in E
                 PROVE  i = j
      BY DEF Once
    <3>1. i \in 1 .. Len(s) - 1 /\ j \in 1 .. Len(s) - 1
      BY <2>1
    <3>2. s[i + 1] \in E /\ s[j + 1] \in E /\ i + 1 \in 1 .. Len(s) /\ j + 1 \in 1 .. Len(s)
      BY <2>1, <3>1
    <3>3. i + 1 = j + 1
      BY <3>2 DEF Once
    <3> QED
      BY <3>1, <3>3
  <2>5. ASSUME e \notin E, Has(t, E) PROVE Has(s, E) /\ Head(s) \notin E
    <3>1. PICK i \in 1 .. Len(t) : t[i] \in E
      BY <2>5 DEF Has
    <3>2. i \in 1 .. Len(s) - 1 /\ s[i + 1] \in E /\ i + 1 \in 1 .. Len(s) /\ 1 \in 1 .. Len(s)
      BY <2>1, <2>5, <3>1
    <3>3. s[1] \notin E
      <4>1. i + 1 # 1
        BY <3>2
      <4> QED
        BY <3>2, <4>1 DEF Once
    <3> QED
      BY <2>1, <3>2, <3>3 DEF Has
  <2>6. ASSUME Has(s, E), ~ Has(t, E) PROVE Head(s) \in E
    <3>1. PICK i \in 1 .. Len(s) : s[i] \in E
      BY <2>6 DEF Has
    <3>2. CASE i = 1
      BY <2>1, <3>1, <3>2
    <3>3. CASE i # 1
      <4>1. i - 1 \in 1 .. Len(t) /\ i - 1 \in 1 .. Len(s) - 1 /\ (i - 1) + 1 = i
        BY <2>1, <3>3
      <4>2. t[i - 1] = s[i]
        BY <2>1, <4>1
      <4> QED
        BY <2>6, <3>1, <4>1, <4>2 DEF Has
    <3> QED
      BY <3>2, <3>3
  <2>7. Head(s) \in E => Has(s, E)
    BY <2>1 DEF Has
  <2> QED
    BY <1>2, <2>2, <2>3, <2>4, <2>5, <2>6, <2>7 DEF t
<1> QED
  BY <1>1, <1>2

LEMMA AppendHas ==
    ASSUME NEW S, NEW s \in Seq(S), NEW e \in S, NEW E, Once(s, E)
    PROVE  /\ Has(Append(s, e), E) <=> Has(s, E) \/ e \in E
           /\ (e \in E => ~ Has(s, E)) => Once(Append(s, e), E)
<1> DEFINE t == Append(s, e)
<1>1. Len(t) = Len(s) + 1 /\ t[Len(s) + 1] = e /\ Len(s) \in Nat
      /\ \A i \in 1 .. Len(s) : t[i] = s[i]
  BY AppendIs
<1> HIDE DEF t
<1>2. Has(t, E) <=> Has(s, E) \/ e \in E
  <2>1. Has(t, E) => Has(s, E) \/ e \in E
    BY <1>1 DEF Has
  <2>2. Has(s, E) => Has(t, E)
    BY <1>1 DEF Has
  <2>3. e \in E => Has(t, E)
    <3>1. Len(s) + 1 \in 1 .. Len(t)
      BY <1>1
    <3> QED
      BY <1>1, <3>1 DEF Has
  <2> QED
    BY <2>1, <2>2, <2>3
<1>3. (e \in E => ~ Has(s, E)) => Once(t, E)
  BY <1>1 DEF Has, Once
<1> QED
  BY <1>2, <1>3 DEF t

LEMMA FrontHas ==
    ASSUME NEW S, NEW s \in Seq(S), s # <<>>, NEW E, Once(s, E)
    PROVE  /\ Once(Front(s), E)
           /\ Last(s) \in E => Has(s, E) /\ ~ Has(Front(s), E)
           /\ Last(s) \notin E => (Has(Front(s), E) <=> Has(s, E))
<1> DEFINE t == Front(s)
<1>1. /\ Len(s) \in Nat /\ Len(s) >= 1 /\ Len(t) = Len(s) - 1 /\ Last(s) = s[Len(s)]
      /\ \A i \in 1 .. Len(s) - 1 : t[i] = s[i]
  BY FrontIs
<1> HIDE DEF t
<1>2. Once(t, E)
  BY <1>1 DEF Once
<1>3. Last(s) \in E => Has(s, E)
  BY <1>1 DEF Has
<1>4. ASSUME Last(s) \in E, Has(t, E) PROVE FALSE
  <2>1. PICK i \in 1 .. Len(t) : t[i] \in E
    BY <1>4 DEF Has
  <2>2. i \in 1 .. Len(s) /\ s[i] \in E /\ i # Len(s) /\ Len(s) \in 1 .. Len(s)
    BY <1>1, <2>1
  <2> QED
    BY <1>1, <1>4, <2>2 DEF Once
<1>5. Last(s) \notin E => (Has(t, E) <=> Has(s, E))
  <2>1. Has(t, E) => Has(s, E)
    BY <1>1 DEF Has
  <2>2. ASSUME Last(s) \notin E, Has(s, E) PROVE Has(t, E)
    <3>1. PICK i \in 1 .. Len(s) : s[i] \in E
      BY <2>2 DEF Has
    <3>2. i # Len(s)
      BY <1>1, <2>2, <3>1
    <3> QED
      BY <1>1, <3>1, <3>2 DEF Has
  <2> QED
    BY <2>1, <2>2
<1> QED
  BY <1>2, <1>3, <1>4, <1>5 DEF t

LEMMA EmptyHas == \A E : ~ Has(<<>>, E) /\ Once(<<>>, E)
  BY DEF Has, Once

----------------------------------------------------------------------------
(* The shapes of the state, and that every step keeps them.                  *)
Staging == [refs : SUBSET Children, removals : SUBSET Children,
            part : BOOLEAN, pos : Positions \cup {Nowhere}]
Reloading == [flying : SUBSET (1 .. 2), watched : SUBSET (1 .. 2), tracked : 0 .. 2]

Copied == save.at \in {"baking", "moving", "writing"}
Baked == save.at \in {"moving", "writing"}
BakedChildren == IF save.at = "writing" THEN save.written.children ELSE save.children

ContentsTyped == manifest \in Contents /\ view \in Contents /\ opened \in Contents

StagedTyped == pending \in Staging /\ pending.removals \subseteq manifest.children

StacksTyped ==
    /\ undoStack \in Seq(Entry) /\ redoStack \in Seq(Entry)
    /\ Len(undoStack) + Len(redoStack) <= MaxUndo

LoadsTyped ==
    /\ inserts \in [Children -> {"not yet", "resolving", "loading", "over"}]
    /\ reloads \in [Children -> Reloading]
    /\ \A c \in Children :
          reloads[c].watched \cup ({reloads[c].tracked} \ {0}) \subseteq reloads[c].flying

SaveTyped ==
    /\ save.at \in {"idle", "waiting", "baking", "moving", "writing"}
    /\ Copied => save.refs \subseteq Children
    /\ save.at = "baking" => save.part \in BOOLEAN
    /\ save.at = "moving" => save.children \subseteq Children /\ save.part \in BOOLEAN
    /\ save.at = "writing" => save.written \in Contents

DraftTyped == ContentsTyped /\ StagedTyped /\ StacksTyped /\ LoadsTyped /\ SaveTyped

----------------------------------------------------------------------------
(* Entries, and what pushing one does to the stacks.                         *)
LEMMA Entries ==
    /\ \A p, q \in Positions : [type |-> "move", before |-> p, after |-> q] \in Entry
    /\ \A c \in Children, b \in BOOLEAN : [type |-> "child", child |-> c, fromPending |-> b] \in Entry
    /\ [type |-> "part"] \in Entry
  BY DEF Entry

LEMMA EntryKinds ==
    ASSUME NEW e \in Entry
    PROVE  \/ e.type = "child" /\ e.child \in Children /\ e.fromPending \in BOOLEAN
                /\ e = [type |-> "child", child |-> e.child, fromPending |-> e.fromPending]
           \/ e.type = "part" /\ e = [type |-> "part"]
           \/ e.type = "move" /\ e.before \in Positions /\ e.after \in Positions
  BY DEF Entry

LEMMA AfterTyped ==
    ASSUME NEW e \in Entry, NEW v \in Contents
    PROVE  After(v, e) \in Contents
<1>1. CASE e.type = "child"
  <2>1. After(v, e) = [v EXCEPT !.children = @ \ {e.child}]
    BY <1>1 DEF After
  <2> QED
    BY <2>1 DEF Contents
<1>2. CASE e.type = "part"
  <2>1. After(v, e) = [v EXCEPT !.part = FALSE]
    BY <1>2 DEF After
  <2> QED
    BY <2>1 DEF Contents
<1>3. CASE e.type = "move"
  <2>1. After(v, e) = [v EXCEPT !.pos = e.after] /\ e.after \in Positions
    BY <1>3, EntryKinds DEF After
  <2> QED
    BY <2>1 DEF Contents
<1> QED
  BY <1>1, <1>2, <1>3, EntryKinds

LEMMA PushTyped ==
    ASSUME StacksTyped, ContentsTyped, NEW e \in Entry, Push(e)
    PROVE  StacksTyped' /\ opened' \in Contents /\ undoStack' = Pushed(undoStack, e) /\ redoStack' = <<>>
<1>1. /\ undoStack \in Seq(Entry) /\ Len(undoStack) \in Nat /\ Len(redoStack) \in Nat
      /\ Len(undoStack) + Len(redoStack) <= MaxUndo
  BY LenProperties DEF StacksTyped
<1>2. Len(undoStack) <= MaxUndo
  BY <1>1, UndoBound
<1>3. undoStack' = Pushed(undoStack, e) /\ redoStack' = <<>>
  BY DEF Push, Pushed
<1>4. undoStack' \in Seq(Entry) /\ Len(undoStack') <= MaxUndo /\ Len(undoStack') \in Nat
  <2>1. CASE Len(undoStack) # MaxUndo
    BY <1>1, <1>2, <1>3, <2>1, PushedOnRoom, UndoBound
  <2>2. CASE Len(undoStack) = MaxUndo
    BY <1>1, <1>2, <1>3, <2>2, PushedOnFull, UndoBound
  <2> QED
    BY <2>1, <2>2
<1>5. <<>> \in Seq(Entry) /\ Len(<<>>) = 0
  OBVIOUS
<1>6. opened' \in Contents
  <2>1. CASE Len(undoStack) # MaxUndo
    BY <2>1 DEF Push, ContentsTyped
  <2>2. CASE Len(undoStack) = MaxUndo
    <3>1. opened' = After(opened, Head(undoStack))
      BY <2>2 DEF Push
    <3>2. Head(undoStack) \in Entry
      BY <1>1, <2>2, TailIs, UndoBound
    <3> QED
      BY <3>1, <3>2, AfterTyped DEF ContentsTyped
  <2> QED
    BY <2>1, <2>2
<1> QED
  BY <1>3, <1>4, <1>5, <1>6 DEF StacksTyped

(* Undo and redo move an entry from one stack to the other.                  *)
LEMMA UndoTyped ==
    ASSUME StacksTyped, undoStack # <<>>,
           undoStack' = Front(undoStack), redoStack' = Append(redoStack, Last(undoStack))
    PROVE  StacksTyped' /\ Last(undoStack) \in Entry
<1>1. /\ Front(undoStack) \in Seq(Entry) /\ Len(Front(undoStack)) = Len(undoStack) - 1
      /\ Len(undoStack) \in Nat /\ Last(undoStack) \in Entry
  BY FrontIs DEF StacksTyped
<1>2. /\ Append(redoStack, Last(undoStack)) \in Seq(Entry)
      /\ Len(Append(redoStack, Last(undoStack))) = Len(redoStack) + 1 /\ Len(redoStack) \in Nat
  BY <1>1, AppendIs DEF StacksTyped
<1> QED
  BY <1>1, <1>2, UndoBound DEF StacksTyped

LEMMA RedoTyped ==
    ASSUME StacksTyped, redoStack # <<>>,
           redoStack' = Front(redoStack), undoStack' = Append(undoStack, Last(redoStack))
    PROVE  StacksTyped' /\ Last(redoStack) \in Entry
<1>1. /\ Front(redoStack) \in Seq(Entry) /\ Len(Front(redoStack)) = Len(redoStack) - 1
      /\ Len(redoStack) \in Nat /\ Last(redoStack) \in Entry
  BY FrontIs DEF StacksTyped
<1>2. /\ Append(undoStack, Last(redoStack)) \in Seq(Entry)
      /\ Len(Append(undoStack, Last(redoStack))) = Len(undoStack) + 1 /\ Len(undoStack) \in Nat
  BY <1>1, AppendIs DEF StacksTyped
<1> QED
  BY <1>1, <1>2, UndoBound DEF StacksTyped

----------------------------------------------------------------------------
(* The edits keep the types of what they stage and show.                     *)
EditTyped ==
    /\ view' \in Contents /\ StagedTyped' /\ LoadsTyped'

LEMMA StageTyped ==
    ASSUME DraftTyped, NEW p \in Positions, Stage(p), UNCHANGED <<manifest, inserts, reloads>>
    PROVE  EditTyped
<1>1. view' \in Contents
  BY DEF DraftTyped, ContentsTyped, Stage, Contents
<1>2. StagedTyped'
  BY DEF DraftTyped, StagedTyped, Stage, Staging
<1>3. LoadsTyped'
  BY DEF DraftTyped, LoadsTyped
<1> QED
  BY <1>1, <1>2, <1>3 DEF EditTyped

LEMMA StageRemovalTyped ==
    ASSUME DraftTyped, StageRemoval, UNCHANGED <<manifest, inserts, reloads>>
    PROVE  EditTyped
<1>1. view' \in Contents
  BY DEF DraftTyped, ContentsTyped, StageRemoval, Contents
<1>2. StagedTyped'
  BY DEF DraftTyped, StagedTyped, StageRemoval, Staging
<1>3. LoadsTyped'
  BY DEF DraftTyped, LoadsTyped
<1> QED
  BY <1>1, <1>2, <1>3 DEF EditTyped

LEMMA RestorePartTyped ==
    ASSUME DraftTyped, RestorePart, UNCHANGED <<manifest, inserts, reloads>>
    PROVE  EditTyped
<1>1. view' \in Contents
  BY DEF DraftTyped, ContentsTyped, RestorePart, Contents
<1>2. StagedTyped'
  BY DEF DraftTyped, StagedTyped, RestorePart, Staging
<1>3. LoadsTyped'
  BY DEF DraftTyped, LoadsTyped
<1> QED
  BY <1>1, <1>2, <1>3 DEF EditTyped

(* A reload of one child changes, and keeps its types.                       *)
LEMMA ReloadsTyped ==
    ASSUME LoadsTyped, inserts' = inserts, NEW c \in Children, NEW r \in Reloading,
           r.watched \cup ({r.tracked} \ {0}) \subseteq r.flying,
           reloads' = [reloads EXCEPT ![c] = r]
    PROVE  LoadsTyped' /\ reloads'[c] = r /\ \A d \in Children \ {c} : reloads'[d] = reloads[d]
<1>1. reloads' \in [Children -> Reloading] /\ reloads'[c] = r
      /\ \A d \in Children \ {c} : reloads'[d] = reloads[d]
  BY DEF LoadsTyped
<1> QED
  BY <1>1 DEF LoadsTyped

LEMMA UnlinkReload ==
    ASSUME LoadsTyped, inserts' = inserts, NEW c \in Children,
           reloads' = [reloads EXCEPT ![c].watched = @ \cup ({reloads[c].tracked} \ {0})]
    PROVE  /\ LoadsTyped'
           /\ reloads'[c].flying = reloads[c].flying /\ reloads'[c].tracked = reloads[c].tracked
           /\ reloads'[c].watched = reloads[c].watched \cup ({reloads[c].tracked} \ {0})
           /\ \A d \in Children \ {c} : reloads'[d] = reloads[d]
<1> DEFINE r == [reloads[c] EXCEPT !.watched = @ \cup ({reloads[c].tracked} \ {0})]
<1>1. reloads[c] \in Reloading /\ reloads \in [Children -> Reloading]
      /\ reloads[c].watched \cup ({reloads[c].tracked} \ {0}) \subseteq reloads[c].flying
  BY DEF LoadsTyped
<1>2. /\ r \in Reloading
      /\ r.flying = reloads[c].flying /\ r.tracked = reloads[c].tracked
      /\ r.watched = reloads[c].watched \cup ({reloads[c].tracked} \ {0})
  BY <1>1 DEF Reloading
<1>3. reloads' = [reloads EXCEPT ![c] = r]
  BY <1>1
<1> HIDE DEF r
<1> QED
  BY <1>1, <1>2, <1>3, ReloadsTyped

LEMMA UnlinkTyped ==
    ASSUME DraftTyped, NEW c \in Children, Linked(c), Unlink(c), UNCHANGED <<manifest, inserts>>
    PROVE  EditTyped
<1>1. view' \in Contents
  BY DEF DraftTyped, ContentsTyped, Unlink, Contents
<1>2. StagedTyped'
  <2>1. CASE c \in pending.refs
    BY <2>1 DEF DraftTyped, StagedTyped, Unlink, Staging
  <2>2. CASE c \notin pending.refs
    BY <2>2 DEF DraftTyped, StagedTyped, Unlink, Linked, Staging
  <2> QED
    BY <2>1, <2>2
<1>3. LoadsTyped'
  BY UnlinkReload DEF DraftTyped, Unlink
<1> QED
  BY <1>1, <1>2, <1>3 DEF EditTyped

(* The reload a reinsertion starts.                                          *)
LEMMA ReinsertReload ==
    ASSUME DraftTyped, NEW e \in Entry, e.type = "child", Reinsert(e), inserts' = inserts
    PROVE  \E n \in 1 .. 2 :
             /\ n \notin reloads[e.child].flying /\ LoadsTyped'
             /\ reloads'[e.child] = [flying |-> reloads[e.child].flying \cup {n},
                                     watched |-> reloads[e.child].watched \ {n}, tracked |-> n]
             /\ \A d \in Children \ {e.child} : reloads'[d] = reloads[d]
<1> DEFINE free == {k \in 1 .. 2 : k \notin reloads[e.child].flying}
           n == CHOOSE k \in free : TRUE
           r == [flying |-> reloads[e.child].flying \cup {n},
                 watched |-> reloads[e.child].watched \ {n}, tracked |-> n]
<1>1. e.child \in Children
  BY EntryKinds
<1>2. free # {}
  BY DEF Reinsert
<1>3. n \in free
  BY <1>2
<1>4. n \in 1 .. 2 /\ n \notin reloads[e.child].flying
  BY <1>3
<1>5. reloads \in [Children -> Reloading]
  BY DEF DraftTyped, LoadsTyped
<1>6. reloads' = [reloads EXCEPT ![e.child] = r]
  BY <1>1, <1>5 DEF Reinsert
<1> HIDE DEF n, free
<1>7. reloads[e.child] \in Reloading
      /\ reloads[e.child].watched \subseteq reloads[e.child].flying
  BY <1>1, <1>5 DEF DraftTyped, LoadsTyped
<1>8. r \in Reloading
  BY <1>4, <1>7 DEF Reloading
<1>9. r.watched \cup ({r.tracked} \ {0}) \subseteq r.flying
  BY <1>4, <1>7
<1> HIDE DEF r
<1>10. LoadsTyped' /\ reloads'[e.child] = r /\ \A d \in Children \ {e.child} : reloads'[d] = reloads[d]
  BY <1>1, <1>6, <1>8, <1>9, ReloadsTyped DEF DraftTyped
<1> QED
  BY <1>4, <1>10 DEF r

LEMMA ReinsertTyped ==
    ASSUME DraftTyped, NEW e \in Entry, e.type = "child", Reinsert(e), UNCHANGED <<manifest, inserts>>
    PROVE  EditTyped
<1>1. view' \in Contents
  BY DEF DraftTyped, ContentsTyped, Reinsert
<1>2. LoadsTyped'
  BY ReinsertReload
<1>3. e.child \in Children
  BY EntryKinds
<1>4. pending' = IF e.fromPending THEN [pending EXCEPT !.refs = @ \cup {e.child}]
                 ELSE [pending EXCEPT !.removals = @ \ {e.child}]
  BY DEF Reinsert
<1>5. StagedTyped'
  <2>1. CASE e.fromPending
    BY <1>3, <1>4, <2>1 DEF DraftTyped, StagedTyped, Staging
  <2>2. CASE ~ e.fromPending
    BY <1>3, <1>4, <2>2 DEF DraftTyped, StagedTyped, Staging
  <2> QED
    BY <2>1, <2>2
<1> QED
  BY <1>1, <1>2, <1>5 DEF EditTyped

LEMMA UndoEditTyped ==
    ASSUME DraftTyped, NEW e \in Entry, UndoEdit(e), UNCHANGED <<manifest, inserts>>
    PROVE  EditTyped
<1>1. CASE e.type = "child"
  BY <1>1, ReinsertTyped DEF UndoEdit
<1>2. CASE e.type = "part"
  BY <1>2, RestorePartTyped DEF UndoEdit
<1>3. CASE e.type = "move"
  BY <1>3, StageTyped, EntryKinds DEF UndoEdit
<1> QED
  BY <1>1, <1>2, <1>3, EntryKinds

LEMMA RedoEditTyped ==
    ASSUME DraftTyped, NEW e \in Entry, RedoEdit(e), UNCHANGED <<manifest, inserts>>
    PROVE  EditTyped
<1>1. CASE e.type = "child" /\ Linked(e.child)
  BY <1>1, UnlinkTyped, EntryKinds DEF RedoEdit
<1>2. CASE e.type = "child" /\ ~ Linked(e.child)
  <2>1. UNCHANGED <<view, pending, reloads>>
    BY <1>2 DEF RedoEdit
  <2> QED
    BY <2>1 DEF EditTyped, DraftTyped, ContentsTyped, StagedTyped, LoadsTyped
<1>3. CASE e.type = "part"
  BY <1>3, StageRemovalTyped DEF RedoEdit
<1>4. CASE e.type = "move"
  BY <1>4, StageTyped, EntryKinds DEF RedoEdit
<1> QED
  BY <1>1, <1>2, <1>3, <1>4, EntryKinds

LEMMA SaveStays == ASSUME SaveTyped, save' = save PROVE SaveTyped'
  BY DEF SaveTyped, Copied

LEMMA MoveTyped == ASSUME DraftTyped, Move PROVE DraftTyped'
<1>1. PICK p \in Positions \ {view.pos} :
        Stage(p) /\ Push([type |-> "move", before |-> view.pos, after |-> p])
  BY DEF Move
<1>2. UNCHANGED <<manifest, inserts, reloads, save>>
  BY DEF Move
<1>3. [type |-> "move", before |-> view.pos, after |-> p] \in Entry
  BY Entries DEF DraftTyped, ContentsTyped, Contents
<1>4. StacksTyped' /\ opened' \in Contents
  BY <1>1, <1>3, PushTyped DEF DraftTyped
<1>5. EditTyped
  BY <1>1, <1>2, StageTyped
<1> QED
  BY <1>2, <1>4, <1>5, SaveStays DEF EditTyped, DraftTyped, ContentsTyped

LEMMA RemovePartTyped == ASSUME DraftTyped, RemovePart PROVE DraftTyped'
<1>1. StageRemoval /\ Push([type |-> "part"]) /\ UNCHANGED <<manifest, inserts, reloads, save>>
  BY DEF RemovePart
<1>2. StacksTyped' /\ opened' \in Contents
  BY <1>1, Entries, PushTyped DEF DraftTyped
<1>3. EditTyped
  BY <1>1, StageRemovalTyped
<1> QED
  BY <1>1, <1>2, <1>3, SaveStays DEF EditTyped, DraftTyped, ContentsTyped

LEMMA RemoveChildTyped == ASSUME DraftTyped, NEW c \in Children, RemoveChild(c) PROVE DraftTyped'
<1>1. /\ Linked(c) /\ Unlink(c) /\ UNCHANGED <<manifest, inserts, save>>
      /\ Push([type |-> "child", child |-> c, fromPending |-> c \in pending.refs])
  BY DEF RemoveChild
<1>2. [type |-> "child", child |-> c, fromPending |-> c \in pending.refs] \in Entry
  <2>1. CASE c \in pending.refs
    <3>1. [type |-> "child", child |-> c, fromPending |-> TRUE] \in Entry
      BY Entries
    <3>2. (c \in pending.refs) = TRUE
      BY <2>1
    <3> QED
      BY <3>1, <3>2
  <2>2. CASE c \notin pending.refs
    <3>1. [type |-> "child", child |-> c, fromPending |-> FALSE] \in Entry
      BY Entries
    <3>2. (c \in pending.refs) = FALSE
      BY <2>2
    <3> QED
      BY <3>1, <3>2
  <2> QED
    BY <2>1, <2>2
<1>3. StacksTyped' /\ opened' \in Contents
  BY <1>1, <1>2, PushTyped DEF DraftTyped
<1>4. EditTyped
  BY <1>1, UnlinkTyped
<1> QED
  BY <1>1, <1>3, <1>4, SaveStays DEF EditTyped, DraftTyped, ContentsTyped

LEMMA UndoIsTyped == ASSUME DraftTyped, Undo PROVE DraftTyped'
<1>1. /\ undoStack # <<>> /\ UndoEdit(Last(undoStack)) /\ undoStack' = Front(undoStack)
      /\ redoStack' = Append(redoStack, Last(undoStack))
      /\ UNCHANGED <<manifest, opened, inserts, save>>
  BY DEF Undo
<1>2. StacksTyped' /\ Last(undoStack) \in Entry
  BY <1>1, UndoTyped DEF DraftTyped
<1>3. EditTyped
  BY <1>1, <1>2, UndoEditTyped
<1> QED
  BY <1>1, <1>2, <1>3, SaveStays DEF EditTyped, DraftTyped, ContentsTyped

LEMMA RedoIsTyped == ASSUME DraftTyped, Redo PROVE DraftTyped'
<1>1. /\ redoStack # <<>> /\ RedoEdit(Last(redoStack)) /\ redoStack' = Front(redoStack)
      /\ undoStack' = Append(undoStack, Last(redoStack))
      /\ UNCHANGED <<manifest, opened, inserts, save>>
  BY DEF Redo
<1>2. StacksTyped' /\ Last(redoStack) \in Entry
  BY <1>1, RedoTyped DEF DraftTyped
<1>3. EditTyped
  BY <1>1, <1>2, RedoEditTyped
<1> QED
  BY <1>1, <1>2, <1>3, SaveStays DEF EditTyped, DraftTyped, ContentsTyped

(* The steps of a drop.                                                      *)
LEMMA DropTyped ==
    ASSUME DraftTyped, NEW c \in Children,
           Drop(c) \/ Inserting(c) \/ Unresolved(c) \/ Inserted(c) \/ InsertFails(c)
    PROVE  DraftTyped'
<1>1. /\ UNCHANGED <<manifest, undoStack, redoStack, reloads, save>>
      /\ \E i \in {"not yet", "resolving", "loading", "over"} : inserts' = [inserts EXCEPT ![c] = i]
      /\ view' \in {view, [view EXCEPT !.children = @ \cup {c}]}
      /\ opened' \in {opened, [opened EXCEPT !.children = @ \cup {c}]}
      /\ pending' \in {pending, [pending EXCEPT !.refs = @ \cup {c}], [pending EXCEPT !.refs = @ \ {c}]}
  BY DEF Drop, Inserting, Unresolved, Inserted, InsertFails
<1>2. StacksTyped'
  BY <1>1 DEF DraftTyped, StacksTyped
<1>3. LoadsTyped'
  BY <1>1 DEF DraftTyped, LoadsTyped
<1>4. ContentsTyped'
  <2>1. /\ view \in Contents /\ [view EXCEPT !.children = @ \cup {c}] \in Contents
        /\ opened \in Contents /\ [opened EXCEPT !.children = @ \cup {c}] \in Contents
    BY DEF DraftTyped, ContentsTyped, Contents
  <2> QED
    BY <1>1, <2>1 DEF DraftTyped, ContentsTyped
<1>5. StagedTyped'
  <2>1. /\ pending \in Staging /\ pending.removals \subseteq manifest.children
        /\ [pending EXCEPT !.refs = @ \cup {c}] \in Staging
        /\ [pending EXCEPT !.refs = @ \ {c}] \in Staging
        /\ [pending EXCEPT !.refs = @ \cup {c}].removals = pending.removals
        /\ [pending EXCEPT !.refs = @ \ {c}].removals = pending.removals
    BY DEF DraftTyped, StagedTyped, Staging
  <2> QED
    BY <1>1, <2>1 DEF StagedTyped
<1> QED
  BY <1>1, <1>2, <1>3, <1>4, <1>5, SaveStays DEF DraftTyped

LEMMA SettledIs ==
    ASSUME NEW r \in Reloading, NEW n \in 1 .. 2,
           r.watched \cup ({r.tracked} \ {0}) \subseteq r.flying
    PROVE  LET q == SettledReload(r, n) IN
           /\ q \in Reloading /\ q.watched \cup ({q.tracked} \ {0}) \subseteq q.flying
           /\ q.flying = r.flying \ {n} /\ q.watched = r.watched \ {n} /\ q.tracked = 0
  BY DEF SettledReload, Reloading

LEMMA ReloadedTyped == ASSUME DraftTyped, NEW c \in Children, NEW n \in 1 .. 2, Reloaded(c, n) PROVE DraftTyped'
<1>1. /\ reloads' = [reloads EXCEPT ![c] = SettledReload(@, n)]
      /\ view' \in {[view EXCEPT !.children = @ \ {c}], [view EXCEPT !.children = @ \cup {c}]}
      /\ UNCHANGED <<manifest, pending, opened, undoStack, redoStack, inserts, save>>
  BY DEF Reloaded
<1>2. /\ reloads[c] \in Reloading /\ reloads \in [Children -> Reloading]
      /\ reloads[c].watched \cup ({reloads[c].tracked} \ {0}) \subseteq reloads[c].flying
  BY DEF DraftTyped, LoadsTyped
<1>3. reloads' = [reloads EXCEPT ![c] = SettledReload(reloads[c], n)]
  BY <1>1
<1>4. LoadsTyped'
  BY <1>1, <1>2, <1>3, SettledIs, ReloadsTyped DEF DraftTyped
<1>5. ContentsTyped'
  BY <1>1 DEF DraftTyped, ContentsTyped, Contents
<1>6. StacksTyped' /\ StagedTyped'
  BY <1>1 DEF DraftTyped, StacksTyped, StagedTyped
<1> QED
  BY <1>1, <1>4, <1>5, <1>6, SaveStays DEF DraftTyped

(* The steps of a save.                                                      *)
LEMMA EditsStay ==
    ASSUME DraftTyped, UNCHANGED <<manifest, pending, view, opened, undoStack, redoStack, inserts, reloads>>
    PROVE  ContentsTyped' /\ StagedTyped' /\ StacksTyped' /\ LoadsTyped'
  BY DEF DraftTyped, ContentsTyped, StagedTyped, StacksTyped, LoadsTyped

LEMMA BeginSaveTyped == ASSUME DraftTyped, BeginSave PROVE DraftTyped'
<1>1. save'.at = "waiting"
  BY DEF BeginSave
<1>2. SaveTyped'
  BY <1>1 DEF SaveTyped, Copied
<1> QED
  BY <1>2, EditsStay DEF BeginSave, DraftTyped

LEMMA CopyTyped == ASSUME DraftTyped, Copy PROVE DraftTyped'
<1>1. save'.at = "baking" /\ save'.refs = pending.refs /\ save'.part = pending.part
  BY DEF Copy
<1>2. SaveTyped'
  BY <1>1 DEF SaveTyped, Copied, DraftTyped, StagedTyped, Staging
<1> QED
  BY <1>2, EditsStay DEF Copy, DraftTyped

LEMMA BakeTyped == ASSUME DraftTyped, Bake PROVE DraftTyped'
<1>1. /\ save.at = "baking" /\ save'.at = "moving" /\ save'.refs = save.refs
      /\ save'.children = (manifest.children \cup save.refs) \ pending.removals
      /\ save'.part = (manifest.part /\ ~ save.part)
  BY DEF Bake
<1>2. SaveTyped'
  BY <1>1 DEF SaveTyped, Copied, DraftTyped, ContentsTyped, Contents
<1> QED
  BY <1>2, EditsStay DEF Bake, DraftTyped

LEMMA ApplyTransformsTyped == ASSUME DraftTyped, ApplyTransforms PROVE DraftTyped'
<1>1. /\ save.at = "moving" /\ save'.at = "writing" /\ save'.refs = save.refs
      /\ save'.written = [children |-> save.children, part |-> save.part,
                          pos |-> IF pending.pos = Nowhere THEN manifest.pos ELSE pending.pos]
  BY DEF ApplyTransforms
<1>2. save.children \subseteq Children /\ save.part \in BOOLEAN /\ save.refs \subseteq Children
  BY <1>1 DEF DraftTyped, SaveTyped, Copied
<1>3. (IF pending.pos = Nowhere THEN manifest.pos ELSE pending.pos) \in Positions
  BY DEF DraftTyped, ContentsTyped, StagedTyped, Contents, Staging
<1>4. SaveTyped'
  BY <1>1, <1>2, <1>3 DEF SaveTyped, Copied, Contents
<1> QED
  BY <1>4, EditsStay DEF ApplyTransforms, DraftTyped

LEMMA SavedTyped == ASSUME DraftTyped, Saved PROVE DraftTyped'
<1>1. /\ save.at = "writing" /\ manifest' = save.written
      /\ pending' = [Nothing EXCEPT !.refs = pending.refs \ save.refs]
      /\ save'.at = "idle"
      /\ UNCHANGED <<view, opened, undoStack, redoStack, inserts, reloads>>
  BY DEF Saved, LeftPendingAfter, NotSaving
<1>2. ContentsTyped'
  BY <1>1 DEF DraftTyped, ContentsTyped, SaveTyped
<1>3. StagedTyped'
  BY <1>1 DEF DraftTyped, StagedTyped, Staging, Nothing
<1>4. SaveTyped'
  BY <1>1 DEF SaveTyped, Copied
<1>5. StacksTyped' /\ LoadsTyped'
  BY <1>1 DEF DraftTyped, StacksTyped, LoadsTyped
<1> QED
  BY <1>2, <1>3, <1>4, <1>5 DEF DraftTyped

LEMMA SaveFailsTyped == ASSUME DraftTyped, SaveFails PROVE DraftTyped'
<1>1. save'.at = "idle"
  BY DEF SaveFails, NotSaving
<1>2. SaveTyped'
  BY <1>1 DEF SaveTyped, Copied
<1> QED
  BY <1>2, EditsStay DEF SaveFails, DraftTyped

LEMMA EditsInitTyped == ASSUME EditsInit PROVE DraftTyped
<1>1. PICK cs \in SUBSET Children, p \in Positions :
        manifest = [children |-> cs, part |-> TRUE, pos |-> p]
  BY DEF EditsInit
<1>2. ContentsTyped
  BY <1>1 DEF EditsInit, ContentsTyped, Contents
<1>3. StagedTyped
  BY <1>1 DEF EditsInit, StagedTyped, Staging, Nothing
<1>4. StacksTyped
  <2>1. <<>> \in Seq(Entry) /\ Len(<<>>) = 0
    OBVIOUS
  <2>2. undoStack = <<>> /\ redoStack = <<>>
    BY DEF EditsInit
  <2> QED
    BY <2>1, <2>2, UndoBound DEF StacksTyped
<1>5. LoadsTyped
  <2>1. NoReload \in Reloading /\ NoReload.watched = {} /\ NoReload.tracked = 0
    BY DEF NoReload, Reloading
  <2>2. \A c \in Children : reloads[c] = NoReload
    BY DEF EditsInit
  <2>3. inserts \in [Children -> {"not yet", "resolving", "loading", "over"}]
    BY DEF EditsInit
  <2>4. reloads \in [Children -> Reloading]
    BY <2>1 DEF EditsInit
  <2> QED
    BY <2>1, <2>2, <2>3, <2>4 DEF LoadsTyped
<1>6. SaveTyped
  BY DEF EditsInit, SaveTyped, NotSaving, Copied
<1> QED
  BY <1>2, <1>3, <1>4, <1>5, <1>6 DEF DraftTyped

LEMMA EditsTypedStep == ASSUME DraftTyped, [EditsNext]_editVars PROVE DraftTyped'
<1>1. CASE UNCHANGED editVars
  BY <1>1, EditsStay, SaveStays DEF editVars, DraftTyped
<1> QED
  BY <1>1, MoveTyped, RemovePartTyped, UndoIsTyped, RedoIsTyped, DropTyped, RemoveChildTyped,
     ReloadedTyped, BeginSaveTyped, CopyTyped, BakeTyped, ApplyTransformsTyped, SavedTyped,
     SaveFailsTyped DEF EditsNext

----------------------------------------------------------------------------
(* What is known of a child.                                                 *)

(* The next save writes the child.                                           *)
Writes(c) == (c \in manifest.children \/ c \in pending.refs) /\ c \notin pending.removals

(* Before its insertion a child is nowhere, and before it has been loaded it *)
(* is not shown and nothing can be undone of it.                             *)
NotYet(c) ==
    inserts[c] \in {"not yet", "resolving"} =>
        /\ c \notin pending.refs /\ c \notin pending.removals /\ c \notin manifest.children
        /\ Copied => c \notin save.refs
        /\ Baked => c \notin BakedChildren

NotShown(c) ==
    inserts[c] # "over" =>
        /\ c \notin view.children /\ c \notin opened.children
        /\ ~ Has(undoStack, OfChild(c)) /\ ~ Has(redoStack, OfChild(c))
        /\ reloads[c].flying = {}

(* A child is staged once, and a save that has copied or baked it agrees     *)
(* with what is staged now.                                                  *)
Staged(c) ==
    /\ c \in pending.refs => c \notin pending.removals /\ c \notin manifest.children
    /\ inserts[c] = "loading" => Writes(c)
    /\ Copied /\ c \in save.refs => c \in pending.refs
    /\ Baked => (c \in BakedChildren <=>
                   (c \in manifest.children \/ c \in save.refs) /\ c \notin pending.removals)

(* A child whose reload is under way will be shown as the reload's watcher   *)
(* finds it.                                                                 *)
Shown(c) ==
    /\ Settled(c) => (c \in view.children <=> Writes(c))
    /\ reloads[c].flying # {} =>
          /\ c \notin view.children
          /\ reloads[c].flying = {reloads[c].tracked}
          /\ reloads[c].tracked \in reloads[c].watched <=> ~ Writes(c)

(* Its removal is on one of the stacks once, and on the undo stack exactly   *)
(* if it was there before and is not now.                                    *)
ChildStacked(c) ==
    /\ Has(undoStack, OfChild(c)) => ~ Writes(c)
    /\ Has(redoStack, OfChild(c)) => Writes(c)
    /\ Once(undoStack, OfChild(c)) /\ Once(redoStack, OfChild(c))
    /\ inserts[c] = "over" =>
          (c \in opened.children <=> Writes(c) \/ Has(undoStack, OfChild(c)))

ChildOK(c) ==
    /\ NotYet(c) /\ NotShown(c)
    /\ c \notin strayed => Staged(c) /\ Shown(c) /\ ChildStacked(c)

----------------------------------------------------------------------------
(* A step that does not concern a child.                                     *)
SameFor(c) ==
    /\ inserts'[c] = inserts[c] /\ reloads'[c] = reloads[c]
    /\ c \in pending'.refs <=> c \in pending.refs
    /\ c \in pending'.removals <=> c \in pending.removals
    /\ c \in manifest'.children <=> c \in manifest.children
    /\ c \in view'.children <=> c \in view.children
    /\ c \in strayed => c \in strayed'

SameStacks(c) ==
    /\ Has(undoStack', OfChild(c)) => Has(undoStack, OfChild(c))
    /\ Has(redoStack', OfChild(c)) => Has(redoStack, OfChild(c))
    /\ Once(undoStack', OfChild(c)) /\ Once(redoStack', OfChild(c))
    /\ c \in opened'.children <=>
          c \in opened.children /\ (Has(undoStack, OfChild(c)) => Has(undoStack', OfChild(c)))

LEMMA ChildStays ==
    ASSUME NEW c \in Children, ChildOK(c), SameFor(c), SameStacks(c), save' = save
    PROVE  ChildOK(c)'
<1> USE DEF SameFor, SameStacks
<1>1. NotYet(c)'
  BY DEF ChildOK, NotYet, Copied, Baked, BakedChildren
<1>2. NotShown(c)'
  BY DEF ChildOK, NotShown
<1>3. Writes(c)' <=> Writes(c)
  BY DEF Writes
<1>4. ASSUME c \notin strayed' PROVE Staged(c)' /\ Shown(c)' /\ ChildStacked(c)'
  <2>1. Staged(c) /\ Shown(c) /\ ChildStacked(c)
    BY <1>4 DEF ChildOK
  <2>2. Staged(c)'
    BY <1>3, <2>1 DEF Staged, Copied, Baked, BakedChildren
  <2>3. Shown(c)'
    BY <1>3, <2>1 DEF Shown, Settled
  <2>4. ChildStacked(c)'
    BY <1>3, <2>1 DEF ChildStacked
  <2> QED
    BY <2>2, <2>3, <2>4
<1> QED
  BY <1>1, <1>2, <1>4 DEF ChildOK

(* Nothing is said of a child that is over and has strayed.                  *)
LEMMA ChildGone ==
    ASSUME NEW c \in Children, inserts'[c] = "over", c \in strayed'
    PROVE  ChildOK(c)'
  BY DEF ChildOK, NotYet, NotShown

LEMMA OnceEach ==
    ASSUME NEW c \in Children, ChildOK(c), inserts[c] # "over" \/ c \notin strayed
    PROVE  Once(undoStack, OfChild(c)) /\ Once(redoStack, OfChild(c))
<1>1. CASE inserts[c] # "over"
  BY <1>1 DEF ChildOK, NotShown, Has, Once
<1>2. CASE c \notin strayed
  BY <1>2 DEF ChildOK, ChildStacked
<1> QED
  BY <1>1, <1>2

(* The entries of other edits do not concern it.                             *)
LEMMA OtherEntry ==
    ASSUME NEW c \in Children, NEW e \in Entry, e.type # "child" \/ e.child # c
    PROVE  e \notin OfChild(c)
  BY DEF OfChild

LEMMA OwnEntry ==
    ASSUME NEW c \in Children, NEW e \in Entry, e.type = "child", e.child = c
    PROVE  e \in OfChild(c)
<1>1. e.fromPending \in BOOLEAN
      /\ e = [type |-> "child", child |-> e.child, fromPending |-> e.fromPending]
  BY EntryKinds
<1> QED
  BY <1>1 DEF OfChild

LEMMA StacksStay ==
    ASSUME NEW c \in Children, ChildOK(c), inserts[c] # "over" \/ c \notin strayed,
           UNCHANGED <<undoStack, redoStack>>, c \in opened'.children <=> c \in opened.children
    PROVE  SameStacks(c)
  BY OnceEach DEF SameStacks

LEMMA AfterChildren ==
    ASSUME NEW c \in Children, NEW e \in Entry, NEW v \in Contents
    PROVE  c \in After(v, e).children <=> c \in v.children /\ e \notin OfChild(c)
<1>1. CASE e.type = "child"
  <2>1. After(v, e) = [v EXCEPT !.children = @ \ {e.child}]
    BY <1>1 DEF After
  <2>2. After(v, e).children = v.children \ {e.child}
    BY <2>1 DEF Contents
  <2> QED
    BY <1>1, <2>2, OtherEntry, OwnEntry
<1>2. CASE e.type = "part"
  <2>1. After(v, e) = [v EXCEPT !.part = FALSE]
    BY <1>2 DEF After
  <2>2. After(v, e).children = v.children
    BY <2>1 DEF Contents
  <2> QED
    BY <1>2, <2>2, OtherEntry
<1>3. CASE e.type = "move"
  <2>1. After(v, e) = [v EXCEPT !.pos = e.after]
    BY <1>3 DEF After
  <2>2. After(v, e).children = v.children
    BY <2>1 DEF Contents
  <2> QED
    BY <1>3, <2>2, OtherEntry
<1> QED
  BY <1>1, <1>2, <1>3, EntryKinds

LEMMA StackLength ==
    ASSUME StacksTyped
    PROVE  /\ undoStack \in Seq(Entry) /\ redoStack \in Seq(Entry)
           /\ Len(undoStack) \in Nat /\ Len(redoStack) \in Nat
           /\ Len(undoStack) <= MaxUndo
           /\ Len(undoStack) = MaxUndo => Head(undoStack) \in Entry
<1>1. /\ undoStack \in Seq(Entry) /\ redoStack \in Seq(Entry)
      /\ Len(undoStack) \in Nat /\ Len(redoStack) \in Nat
      /\ Len(undoStack) + Len(redoStack) <= MaxUndo
  BY LenProperties DEF StacksTyped
<1>2. Len(undoStack) <= MaxUndo
  BY <1>1, UndoBound
<1>3. Len(undoStack) = MaxUndo => Head(undoStack) \in Entry
  BY <1>1, TailIs, UndoBound
<1> QED
  BY <1>1, <1>2, <1>3

(* An entry the stack is too small for is dropped with its effect on the     *)
(* view the stack leads back to.                                             *)
LEMMA PushOther ==
    ASSUME DraftTyped, NEW c \in Children, ChildOK(c), inserts[c] # "over" \/ c \notin strayed,
           NEW e \in Entry, e \notin OfChild(c), Push(e)
    PROVE  SameStacks(c)
<1>1. /\ undoStack \in Seq(Entry) /\ Len(undoStack) <= MaxUndo /\ Len(undoStack) \in Nat
      /\ Len(undoStack) = MaxUndo => Head(undoStack) \in Entry
  BY StackLength DEF DraftTyped
<1>2. Once(undoStack, OfChild(c))
  BY OnceEach
<1>3. undoStack' = Pushed(undoStack, e) /\ redoStack' = <<>>
  BY DEF Push, Pushed
<1>4. /\ Once(undoStack', OfChild(c))
      /\ Has(undoStack', OfChild(c)) =>
            Has(undoStack, OfChild(c)) /\ ~ (Len(undoStack) = MaxUndo /\ Head(undoStack) \in OfChild(c))
      /\ Has(undoStack, OfChild(c)) =>
            Has(undoStack', OfChild(c)) \/ (Len(undoStack) = MaxUndo /\ Head(undoStack) \in OfChild(c))
      /\ Len(undoStack) = MaxUndo /\ Head(undoStack) \in OfChild(c) => Has(undoStack, OfChild(c))
  BY <1>1, <1>2, <1>3, PushedHas
<1>5. c \in opened'.children <=>
        c \in opened.children /\ ~ (Len(undoStack) = MaxUndo /\ Head(undoStack) \in OfChild(c))
  <2>1. CASE Len(undoStack) = MaxUndo
    <3>1. opened' = After(opened, Head(undoStack))
      BY <2>1 DEF Push
    <3> QED
      BY <1>1, <2>1, <3>1, AfterChildren DEF DraftTyped, ContentsTyped
  <2>2. CASE Len(undoStack) # MaxUndo
    BY <2>2 DEF Push
  <2> QED
    BY <2>1, <2>2
<1> QED
  BY <1>3, <1>4, <1>5, EmptyHas DEF SameStacks

LEMMA UndoOther ==
    ASSUME DraftTyped, NEW c \in Children, ChildOK(c), inserts[c] # "over" \/ c \notin strayed,
           undoStack # <<>>, Last(undoStack) \notin OfChild(c),
           undoStack' = Front(undoStack), redoStack' = Append(redoStack, Last(undoStack)),
           opened' = opened
    PROVE  SameStacks(c)
<1>1. undoStack \in Seq(Entry) /\ redoStack \in Seq(Entry)
  BY DEF DraftTyped, StacksTyped
<1>2. Once(undoStack, OfChild(c)) /\ Once(redoStack, OfChild(c))
  BY OnceEach
<1>3. Last(undoStack) \in Entry
  BY <1>1, FrontIs
<1>4. Once(undoStack', OfChild(c)) /\ (Has(undoStack', OfChild(c)) <=> Has(undoStack, OfChild(c)))
  BY <1>1, <1>2, FrontHas
<1>5. Once(redoStack', OfChild(c)) /\ (Has(redoStack', OfChild(c)) <=> Has(redoStack, OfChild(c)))
  BY <1>1, <1>2, <1>3, AppendHas
<1> QED
  BY <1>4, <1>5 DEF SameStacks

LEMMA RedoOther ==
    ASSUME DraftTyped, NEW c \in Children, ChildOK(c), inserts[c] # "over" \/ c \notin strayed,
           redoStack # <<>>, Last(redoStack) \notin OfChild(c),
           redoStack' = Front(redoStack), undoStack' = Append(undoStack, Last(redoStack)),
           opened' = opened
    PROVE  SameStacks(c)
<1>1. undoStack \in Seq(Entry) /\ redoStack \in Seq(Entry)
  BY DEF DraftTyped, StacksTyped
<1>2. Once(undoStack, OfChild(c)) /\ Once(redoStack, OfChild(c))
  BY OnceEach
<1>3. Last(redoStack) \in Entry
  BY <1>1, FrontIs
<1>4. Once(redoStack', OfChild(c)) /\ (Has(redoStack', OfChild(c)) <=> Has(redoStack, OfChild(c)))
  BY <1>1, <1>2, FrontHas
<1>5. Once(undoStack', OfChild(c)) /\ (Has(undoStack', OfChild(c)) <=> Has(undoStack, OfChild(c)))
  BY <1>1, <1>2, <1>3, AppendHas
<1> QED
  BY <1>4, <1>5 DEF SameStacks

----------------------------------------------------------------------------
(* The edits, for a child that they do not concern.                          *)
LEMMA StageSame ==
    ASSUME DraftTyped, NEW c \in Children, NEW p, Stage(p), UNCHANGED <<manifest, inserts, reloads>>
    PROVE  SameFor(c)
<1>1. /\ view' = [view EXCEPT !.pos = p] /\ pending' = [pending EXCEPT !.pos = p]
      /\ strayed \subseteq strayed'
  BY DEF Stage
<1>2. view \in Contents /\ pending \in Staging
  BY DEF DraftTyped, ContentsTyped, StagedTyped
<1>3. view'.children = view.children
      /\ pending'.refs = pending.refs /\ pending'.removals = pending.removals
  BY <1>1, <1>2 DEF Contents, Staging
<1> QED
  BY <1>1, <1>3 DEF SameFor

LEMMA PartSame ==
    ASSUME DraftTyped, NEW c \in Children, StageRemoval \/ RestorePart,
           UNCHANGED <<manifest, inserts, reloads>>
    PROVE  SameFor(c)
<1>1. \E b \in BOOLEAN :
      /\ view' = [view EXCEPT !.part = b] /\ pending' = [pending EXCEPT !.part = ~ b]
      /\ strayed \subseteq strayed'
  BY DEF StageRemoval, RestorePart
<1>2. view \in Contents /\ pending \in Staging
  BY DEF DraftTyped, ContentsTyped, StagedTyped
<1>3. view'.children = view.children
      /\ pending'.refs = pending.refs /\ pending'.removals = pending.removals
  BY <1>1, <1>2 DEF Contents, Staging
<1> QED
  BY <1>1, <1>3 DEF SameFor

LEMMA UnlinkIs ==
    ASSUME DraftTyped, NEW d \in Children, Unlink(d), inserts' = inserts
    PROVE  /\ view'.children = view.children \ {d}
           /\ d \in pending.refs =>
                pending'.refs = pending.refs \ {d} /\ pending'.removals = pending.removals
           /\ d \notin pending.refs =>
                pending'.refs = pending.refs /\ pending'.removals = pending.removals \cup {d}
           /\ pending'.refs \subseteq pending.refs /\ d \notin pending'.refs
           /\ reloads'[d].flying = reloads[d].flying /\ reloads'[d].tracked = reloads[d].tracked
           /\ reloads'[d].watched = reloads[d].watched \cup ({reloads[d].tracked} \ {0})
           /\ \A c \in Children \ {d} : reloads'[c] = reloads[c]
           /\ strayed \subseteq strayed'
           /\ d \in pending.refs /\ Copied => d \in strayed'
           /\ Baked => d \in strayed'
<1>1. view \in Contents /\ pending \in Staging /\ LoadsTyped
  BY DEF DraftTyped, ContentsTyped, StagedTyped
<1>2. view'.children = view.children \ {d}
  BY <1>1 DEF Unlink, Contents
<1>3. CASE d \in pending.refs
  <2>1. pending'.refs = pending.refs \ {d} /\ pending'.removals = pending.removals
    BY <1>1, <1>3 DEF Unlink, Staging
  <2>2. strayed' = strayed \cup Late("ref", d)
    BY <1>3 DEF Unlink
  <2>3. Copied => d \in strayed'
    BY <2>2 DEF Late, TooLateFor, Copied
  <2> QED
    BY <1>1, <1>2, <1>3, <2>1, <2>2, <2>3, UnlinkReload DEF Unlink, Copied, Baked
<1>4. CASE d \notin pending.refs
  <2>1. pending'.refs = pending.refs /\ pending'.removals = pending.removals \cup {d}
    BY <1>1, <1>4 DEF Unlink, Staging
  <2>2. strayed' = strayed \cup Late("removal", d)
    BY <1>4 DEF Unlink
  <2>3. Baked => d \in strayed'
    BY <2>2 DEF Late, TooLateFor, Baked
  <2> QED
    BY <1>1, <1>2, <1>4, <2>1, <2>2, <2>3, UnlinkReload DEF Unlink
<1> QED
  BY <1>3, <1>4

LEMMA UnlinkSame ==
    ASSUME DraftTyped, NEW c \in Children, NEW d \in Children, c # d, Unlink(d),
           UNCHANGED <<manifest, inserts>>
    PROVE  SameFor(c)
<1> HIDE DEF Unlink
<1>1. d \in pending.refs \/ d \notin pending.refs
  OBVIOUS
<1> QED
  BY <1>1, UnlinkIs DEF SameFor

LEMMA ReinsertIs ==
    ASSUME DraftTyped, NEW e \in Entry, e.type = "child", Reinsert(e), inserts' = inserts
    PROVE  /\ view' = view /\ e.child \in Children
           /\ e.fromPending =>
                pending'.refs = pending.refs \cup {e.child} /\ pending'.removals = pending.removals
           /\ ~ e.fromPending =>
                pending'.refs = pending.refs /\ pending'.removals = pending.removals \ {e.child}
           /\ strayed \subseteq strayed'
           /\ e.fromPending /\ Copied => e.child \in strayed'
           /\ Baked => e.child \in strayed'
           /\ e.child \notin strayed' =>
                (e.fromPending <=> e.child \notin pending.removals) /\ reloads[e.child].flying = {}
<1>1. pending \in Staging /\ e.child \in Children /\ e.fromPending \in BOOLEAN
  BY EntryKinds DEF DraftTyped, StagedTyped
<1>2. strayed' = strayed \cup Late(IF e.fromPending THEN "ref" ELSE "removal", e.child)
                  \cup (IF e.fromPending <=> e.child \notin pending.removals THEN {} ELSE {e.child})
                  \cup (IF reloads[e.child].flying = {} THEN {} ELSE {e.child})
  BY DEF Reinsert
<1>3. pending' = IF e.fromPending THEN [pending EXCEPT !.refs = @ \cup {e.child}]
                 ELSE [pending EXCEPT !.removals = @ \ {e.child}]
  BY DEF Reinsert
<1>4. e.child \notin strayed' =>
        (e.fromPending <=> e.child \notin pending.removals) /\ reloads[e.child].flying = {}
  BY <1>2
<1>5. CASE e.fromPending
  <2>1. pending'.refs = pending.refs \cup {e.child} /\ pending'.removals = pending.removals
    BY <1>1, <1>3, <1>5 DEF Staging
  <2>2. Late("ref", e.child) \subseteq strayed'
    BY <1>2, <1>5
  <2>3. Copied \/ Baked => e.child \in strayed'
    BY <2>2 DEF Late, TooLateFor, Copied, Baked
  <2> QED
    BY <1>1, <1>2, <1>4, <1>5, <2>1, <2>3 DEF Reinsert
<1>6. CASE ~ e.fromPending
  <2>1. pending'.refs = pending.refs /\ pending'.removals = pending.removals \ {e.child}
    BY <1>1, <1>3, <1>6 DEF Staging
  <2>2. Late("removal", e.child) \subseteq strayed'
    BY <1>2, <1>6
  <2>3. Baked => e.child \in strayed'
    BY <2>2 DEF Late, TooLateFor, Baked
  <2> QED
    BY <1>1, <1>2, <1>4, <1>6, <2>1, <2>3 DEF Reinsert
<1> QED
  BY <1>5, <1>6

LEMMA ReinsertSame ==
    ASSUME DraftTyped, NEW e \in Entry, e.type = "child", Reinsert(e), NEW c \in Children,
           c # e.child, UNCHANGED <<manifest, inserts>>
    PROVE  SameFor(c)
<1>1. reloads'[c] = reloads[c]
  BY ReinsertReload
<1> QED
  BY <1>1, ReinsertIs DEF SameFor

----------------------------------------------------------------------------
(* Every step keeps it.                                                      *)
LEMMA ChildKept ==
    ASSUME NEW c \in Children, ChildOK(c), SameFor(c), save' = save,
           inserts[c] # "over" \/ c \notin strayed => SameStacks(c)
    PROVE  ChildOK(c)'
<1>1. CASE inserts[c] # "over" \/ c \notin strayed
  BY <1>1, ChildStays
<1>2. CASE inserts[c] = "over" /\ c \in strayed
  <2>1. inserts'[c] = "over" /\ c \in strayed'
    BY <1>2 DEF SameFor
  <2> QED
    BY <2>1, ChildGone
<1> QED
  BY <1>1, <1>2

(* A step after which nothing is said of the child but what it shows.        *)
LEMMA ChildOver ==
    ASSUME NEW c \in Children, inserts'[c] = "over",
           c \notin strayed' => Staged(c)' /\ Shown(c)' /\ ChildStacked(c)'
    PROVE  ChildOK(c)'
  BY DEF ChildOK, NotYet, NotShown

LEMMA MoveChild == ASSUME DraftTyped, NEW c \in Children, ChildOK(c), Move PROVE ChildOK(c)'
<1>1. PICK p \in Positions \ {view.pos} :
        Stage(p) /\ Push([type |-> "move", before |-> view.pos, after |-> p])
  BY DEF Move
<1>2. UNCHANGED <<manifest, inserts, reloads, save>>
  BY DEF Move
<1>3. [type |-> "move", before |-> view.pos, after |-> p] \in Entry
  BY Entries DEF DraftTyped, ContentsTyped, Contents
<1>4. [type |-> "move", before |-> view.pos, after |-> p] \notin OfChild(c)
  BY DEF OfChild
<1>5. SameFor(c)
  BY <1>1, <1>2, StageSame
<1>6. inserts[c] # "over" \/ c \notin strayed => SameStacks(c)
  BY <1>1, <1>3, <1>4, PushOther
<1> QED
  BY <1>2, <1>5, <1>6, ChildKept

LEMMA RemovePartChild == ASSUME DraftTyped, NEW c \in Children, ChildOK(c), RemovePart PROVE ChildOK(c)'
<1>1. StageRemoval /\ Push([type |-> "part"]) /\ UNCHANGED <<manifest, inserts, reloads, save>>
  BY DEF RemovePart
<1>2. [type |-> "part"] \in Entry
  BY Entries
<1>3. [type |-> "part"] \notin OfChild(c)
  BY DEF OfChild
<1>4. SameFor(c)
  BY <1>1, PartSame
<1>5. inserts[c] # "over" \/ c \notin strayed => SameStacks(c)
  BY <1>1, <1>2, <1>3, PushOther
<1> QED
  BY <1>1, <1>4, <1>5, ChildKept

(* An unlinked child stays as staged as it was, and a reload of it under way *)
(* is watched.                                                               *)
LEMMA UnlinkOwn ==
    ASSUME DraftTyped, NEW c \in Children, ChildOK(c), Linked(c), Unlink(c),
           UNCHANGED <<manifest, inserts, save>>,
           inserts[c] = "over", c \notin strayed', Writes(c)
    PROVE  c \notin strayed /\ ~ Writes(c)' /\ Staged(c)' /\ Shown(c)'
<1>1. /\ view'.children = view.children \ {c}
      /\ c \in pending.refs => pending'.removals = pending.removals
      /\ c \notin pending.refs => pending'.removals = pending.removals \cup {c}
      /\ c \notin pending'.refs
      /\ reloads'[c].flying = reloads[c].flying /\ reloads'[c].tracked = reloads[c].tracked
      /\ reloads'[c].watched = reloads[c].watched \cup ({reloads[c].tracked} \ {0})
      /\ strayed \subseteq strayed'
      /\ c \in pending.refs /\ Copied => c \in strayed'
      /\ Baked => c \in strayed'
  BY UnlinkIs
<1> HIDE DEF Unlink
<1>2. c \notin strayed /\ Staged(c) /\ Shown(c)
  BY <1>1 DEF ChildOK
<1>3. ~ Writes(c)'
  <2>1. CASE c \in pending.refs
    <3>1. c \notin manifest.children
      BY <1>2, <2>1 DEF Staged
    <3> QED
      BY <1>1, <3>1 DEF Writes
  <2>2. CASE c \notin pending.refs
    BY <1>1, <2>2 DEF Writes
  <2> QED
    BY <2>1, <2>2
<1>4. Staged(c)'
  <2>1. ~ Baked /\ ~ Baked'
    BY <1>1 DEF Baked
  <2>2. ~ (Copied' /\ c \in save'.refs)
    BY <1>1, <1>2 DEF Staged, Copied
  <2> QED
    BY <1>1, <2>1, <2>2 DEF Staged
<1>5. Shown(c)'
  <2>1. c \notin view'.children
    BY <1>1
  <2>2. ASSUME reloads'[c].flying # {} PROVE
             reloads'[c].flying = {reloads'[c].tracked} /\ reloads'[c].tracked \in reloads'[c].watched
    <3>1. reloads[c].flying = {reloads[c].tracked}
      BY <1>1, <1>2, <2>2 DEF Shown
    <3>2. reloads[c].flying \subseteq 1 .. 2
      BY DEF DraftTyped, LoadsTyped, Reloading
    <3>3. reloads[c].tracked # 0
      BY <3>1, <3>2
    <3> QED
      BY <1>1, <3>1, <3>3
  <2> QED
    BY <1>3, <2>1, <2>2 DEF Shown
<1> QED
  BY <1>2, <1>3, <1>4, <1>5

LEMMA RemoveChildOwn ==
    ASSUME DraftTyped, NEW c \in Children, ChildOK(c), RemoveChild(c)
    PROVE  ChildOK(c)'
<1> DEFINE e == [type |-> "child", child |-> c, fromPending |-> c \in pending.refs]
<1>1. /\ c \in view.children /\ Linked(c) /\ Unlink(c) /\ Push(e)
      /\ UNCHANGED <<manifest, inserts, save>>
  BY DEF RemoveChild
<1>2. e \in Entry /\ e \in OfChild(c)
  <2>1. (c \in pending.refs) \in BOOLEAN
    OBVIOUS
  <2>2. \A b \in BOOLEAN : [type |-> "child", child |-> c, fromPending |-> b] \in Entry
    BY Entries
  <2>3. \A b \in BOOLEAN : [type |-> "child", child |-> c, fromPending |-> b] \in OfChild(c)
    BY DEF OfChild
  <2> QED
    BY <2>1, <2>2, <2>3
<1> HIDE DEF e
<1>3. inserts[c] = "over" /\ inserts'[c] = "over"
  BY <1>1 DEF ChildOK, NotShown
<1>4. ASSUME c \notin strayed' PROVE Staged(c)' /\ Shown(c)' /\ ChildStacked(c)'
  <2>1. c \notin strayed
    <3> HIDE DEF Unlink, Push
    <3> QED
      BY <1>1, <1>4, UnlinkIs
  <2>2. Staged(c) /\ Shown(c) /\ ChildStacked(c)
    BY <2>1 DEF ChildOK
  <2>3. Writes(c)
    <3>1. Settled(c)
      BY <1>1, <1>3, <2>2 DEF Shown, Settled
    <3> QED
      BY <1>1, <2>2, <3>1 DEF Shown
  <2>4. ~ Writes(c)' /\ Staged(c)' /\ Shown(c)'
    BY <1>1, <1>3, <1>4, <2>3, UnlinkOwn
  <2>5. ~ Has(undoStack, OfChild(c)) /\ Once(undoStack, OfChild(c)) /\ c \in opened.children
    BY <1>3, <2>2, <2>3 DEF ChildStacked
  <2>6. undoStack' = Pushed(undoStack, e) /\ redoStack' = <<>>
    BY <1>1 DEF Push, Pushed
  <2>7. undoStack \in Seq(Entry) /\ Len(undoStack) <= MaxUndo
        /\ (Len(undoStack) = MaxUndo => Head(undoStack) \in Entry)
    BY StackLength DEF DraftTyped
  <2>8. Has(undoStack', OfChild(c)) /\ Once(undoStack', OfChild(c))
        /\ ~ (Len(undoStack) = MaxUndo /\ Head(undoStack) \in OfChild(c))
    BY <1>2, <2>5, <2>6, <2>7, PushedHas
  <2>9. c \in opened'.children
    <3>1. CASE Len(undoStack) = MaxUndo
      <4>1. opened' = After(opened, Head(undoStack))
        BY <1>1, <3>1 DEF Push
      <4> QED
        BY <2>5, <2>7, <2>8, <3>1, <4>1, AfterChildren DEF DraftTyped, ContentsTyped
    <3>2. CASE Len(undoStack) # MaxUndo
      BY <1>1, <2>5, <3>2 DEF Push
    <3> QED
      BY <3>1, <3>2
  <2>10. ChildStacked(c)'
    BY <2>4, <2>6, <2>8, <2>9, EmptyHas DEF ChildStacked
  <2> QED
    BY <2>4, <2>10
<1> QED
  BY <1>3, <1>4, ChildOver

LEMMA RemoveChildChild ==
    ASSUME DraftTyped, NEW c \in Children, ChildOK(c), NEW d \in Children, RemoveChild(d)
    PROVE  ChildOK(c)'
<1>1. CASE c = d
  BY <1>1, RemoveChildOwn
<1>2. CASE c # d
  <2> DEFINE e == [type |-> "child", child |-> d, fromPending |-> d \in pending.refs]
  <2>1. /\ Unlink(d) /\ Push(e) /\ UNCHANGED <<manifest, inserts, save>>
    BY DEF RemoveChild
  <2>2. e \in Entry
    <3>1. (d \in pending.refs) \in BOOLEAN
      OBVIOUS
    <3>2. \A b \in BOOLEAN : [type |-> "child", child |-> d, fromPending |-> b] \in Entry
      BY Entries
    <3> QED
      BY <3>1, <3>2
  <2>3. e \notin OfChild(c)
    BY <1>2 DEF OfChild
  <2> HIDE DEF e
  <2>4. SameFor(c)
    BY <1>2, <2>1, UnlinkSame
  <2>5. inserts[c] # "over" \/ c \notin strayed => SameStacks(c)
    BY <2>1, <2>2, <2>3, PushOther
  <2> QED
    BY <2>1, <2>4, <2>5, ChildKept
<1> QED
  BY <1>1, <1>2

----------------------------------------------------------------------------
(* Undo and redo.                                                            *)
LEMMA RedoOwn ==
    ASSUME DraftTyped, NEW c \in Children, ChildOK(c), Redo, Last(redoStack) \in OfChild(c)
    PROVE  ChildOK(c)'
<1> DEFINE e == Last(redoStack)
<1>1. /\ redoStack # <<>> /\ RedoEdit(e) /\ redoStack' = Front(redoStack)
      /\ undoStack' = Append(undoStack, e) /\ UNCHANGED <<manifest, opened, inserts, save>>
  BY DEF Redo
<1>2. undoStack \in Seq(Entry) /\ redoStack \in Seq(Entry) /\ e \in Entry
  BY <1>1, FrontIs DEF DraftTyped, StacksTyped
<1>3. e.type = "child" /\ e.child = c
  BY DEF OfChild
<1>4. Has(redoStack, OfChild(c))
  <2>1. Len(redoStack) \in 1 .. Len(redoStack) /\ redoStack[Len(redoStack)] = e
    BY <1>1, <1>2, FrontIs
  <2> QED
    BY <2>1 DEF Has
<1>5. inserts[c] = "over" /\ inserts'[c] = "over"
  BY <1>1, <1>4 DEF ChildOK, NotShown
<1>6. CASE ~ Linked(c)
  <2>1. c \in strayed'
    BY <1>1, <1>3, <1>6 DEF RedoEdit
  <2> QED
    BY <1>5, <2>1, ChildGone
<1>7. ASSUME Linked(c), c \notin strayed' PROVE Staged(c)' /\ Shown(c)' /\ ChildStacked(c)'
  <2>1. Unlink(c)
    BY <1>1, <1>3, <1>7 DEF RedoEdit
  <2>2. c \notin strayed
    BY <1>1, <1>7, <2>1, UnlinkIs
  <2>3. ChildStacked(c)
    BY <2>2 DEF ChildOK
  <2>4. Writes(c)
    BY <1>4, <2>3 DEF ChildStacked
  <2>5. ~ Writes(c)' /\ Staged(c)' /\ Shown(c)'
    BY <1>1, <1>5, <1>7, <2>1, <2>4, UnlinkOwn
  <2>6. /\ ~ Has(undoStack, OfChild(c)) /\ Once(undoStack, OfChild(c))
        /\ Once(redoStack, OfChild(c)) /\ c \in opened.children
    BY <1>5, <2>3, <2>4 DEF ChildStacked
  <2>7. Has(undoStack', OfChild(c)) /\ Once(undoStack', OfChild(c))
    BY <1>1, <1>2, <2>6, AppendHas
  <2>8. ~ Has(redoStack', OfChild(c)) /\ Once(redoStack', OfChild(c))
    BY <1>1, <1>2, <2>6, FrontHas
  <2>9. ChildStacked(c)'
    BY <1>1, <2>5, <2>6, <2>7, <2>8 DEF ChildStacked
  <2> QED
    BY <2>5, <2>9
<1> QED
  BY <1>5, <1>6, <1>7, ChildOver

LEMMA RedoChild == ASSUME DraftTyped, NEW c \in Children, ChildOK(c), Redo PROVE ChildOK(c)'
<1>1. CASE Last(redoStack) \in OfChild(c)
  BY <1>1, RedoOwn
<1>2. CASE Last(redoStack) \notin OfChild(c)
  <2> DEFINE e == Last(redoStack)
  <2>1. /\ redoStack # <<>> /\ RedoEdit(e) /\ redoStack' = Front(redoStack)
        /\ undoStack' = Append(undoStack, e) /\ UNCHANGED <<manifest, opened, inserts, save>>
    BY DEF Redo
  <2>2. e \in Entry
    BY <2>1, FrontIs DEF DraftTyped, StacksTyped
  <2>3. SameFor(c)
    <3> HIDE DEF e
    <3>1. CASE e.type = "child" /\ Linked(e.child)
      <4>1. Unlink(e.child) /\ e.child \in Children
        BY <2>1, <2>2, <3>1, EntryKinds DEF RedoEdit
      <4>2. c # e.child
        BY <1>2, <2>2, <3>1, OwnEntry DEF e
      <4> QED
        BY <2>1, <4>1, <4>2, UnlinkSame
    <3>2. CASE e.type = "child" /\ ~ Linked(e.child)
      <4>1. UNCHANGED <<view, pending, reloads>> /\ strayed \subseteq strayed'
        BY <2>1, <3>2 DEF RedoEdit
      <4> QED
        BY <2>1, <4>1 DEF SameFor
    <3>3. CASE e.type = "part"
      <4>1. StageRemoval /\ UNCHANGED reloads
        BY <2>1, <3>3 DEF RedoEdit
      <4> QED
        BY <2>1, <4>1, PartSame
    <3>4. CASE e.type = "move"
      <4>1. Stage(e.after) /\ UNCHANGED reloads
        BY <2>1, <3>4 DEF RedoEdit
      <4> QED
        BY <2>1, <4>1, StageSame
    <3> QED
      BY <2>2, <3>1, <3>2, <3>3, <3>4, EntryKinds
  <2>4. inserts[c] # "over" \/ c \notin strayed => SameStacks(c)
    BY <1>2, <2>1, RedoOther
  <2> QED
    BY <2>1, <2>3, <2>4, ChildKept
<1> QED
  BY <1>1, <1>2

(* What was staged of a child is back, and a reload of it has started.       *)
LEMMA ReinsertOwn ==
    ASSUME DraftTyped, NEW e \in Entry, e.type = "child", NEW c \in Children, c = e.child,
           ChildOK(c), Reinsert(e), UNCHANGED <<manifest, inserts, save>>,
           inserts[c] = "over", c \notin strayed', ~ Writes(c)
    PROVE  c \notin strayed /\ Writes(c)' /\ Staged(c)' /\ Shown(c)'
<1>1. /\ view' = view /\ strayed \subseteq strayed'
      /\ e.fromPending =>
           pending'.refs = pending.refs \cup {c} /\ pending'.removals = pending.removals
      /\ ~ e.fromPending =>
           pending'.refs = pending.refs /\ pending'.removals = pending.removals \ {c}
      /\ ~ (e.fromPending /\ Copied) /\ ~ Baked
      /\ (e.fromPending <=> c \notin pending.removals) /\ reloads[c].flying = {}
  BY ReinsertIs
<1>2. \E n \in 1 .. 2 :
        reloads'[c] = [flying |-> reloads[c].flying \cup {n},
                       watched |-> reloads[c].watched \ {n}, tracked |-> n]
  BY ReinsertReload
<1> HIDE DEF Reinsert
<1>3. c \notin strayed /\ Staged(c) /\ Shown(c)
  BY <1>1 DEF ChildOK
<1>4. pending.removals \subseteq manifest.children
  BY DEF DraftTyped, StagedTyped
<1>5. ~ Baked' /\ (Copied' <=> Copied)
  BY <1>1 DEF Baked, Copied
<1>6. Writes(c)' /\ Staged(c)'
  <2>1. CASE e.fromPending
    <3>1. c \notin pending.removals /\ c \notin manifest.children
      BY <1>1, <2>1 DEF Writes
    <3> QED
      BY <1>1, <1>5, <2>1, <3>1 DEF Writes, Staged
  <2>2. CASE ~ e.fromPending
    <3>1. c \in pending.removals /\ c \in manifest.children
      BY <1>1, <1>4, <2>2
    <3>2. c \notin pending.refs /\ ~ (Copied /\ c \in save.refs)
      BY <1>3, <3>1 DEF Staged
    <3> QED
      BY <1>1, <1>5, <2>2, <3>1, <3>2 DEF Writes, Staged
  <2> QED
    BY <2>1, <2>2
<1>7. Shown(c)'
  <2>1. c \notin view'.children
    BY <1>1, <1>3 DEF Shown, Settled
  <2>2. PICK n \in 1 .. 2 :
        reloads'[c] = [flying |-> reloads[c].flying \cup {n},
                       watched |-> reloads[c].watched \ {n}, tracked |-> n]
    BY <1>2
  <2>3. reloads'[c].flying = {n} /\ reloads'[c].tracked = n /\ n \notin reloads'[c].watched
    BY <1>1, <2>2
  <2> QED
    BY <1>6, <2>1, <2>3 DEF Shown, Settled
<1> QED
  BY <1>3, <1>6, <1>7

LEMMA UndoOwn ==
    ASSUME DraftTyped, NEW c \in Children, ChildOK(c), Undo, Last(undoStack) \in OfChild(c)
    PROVE  ChildOK(c)'
<1> DEFINE e == Last(undoStack)
<1>1. /\ undoStack # <<>> /\ UndoEdit(e) /\ undoStack' = Front(undoStack)
      /\ redoStack' = Append(redoStack, e) /\ UNCHANGED <<manifest, opened, inserts, save>>
  BY DEF Undo
<1>2. undoStack \in Seq(Entry) /\ redoStack \in Seq(Entry) /\ e \in Entry
  BY <1>1, FrontIs DEF DraftTyped, StacksTyped
<1>3. e.type = "child" /\ e.child = c
  BY DEF OfChild
<1>4. Has(undoStack, OfChild(c))
  <2>1. Len(undoStack) \in 1 .. Len(undoStack) /\ undoStack[Len(undoStack)] = e
    BY <1>1, <1>2, FrontIs
  <2> QED
    BY <2>1 DEF Has
<1>5. inserts[c] = "over" /\ inserts'[c] = "over"
  BY <1>1, <1>4 DEF ChildOK, NotShown
<1>6. Reinsert(e)
  BY <1>1, <1>3 DEF UndoEdit
<1>7. ASSUME c \notin strayed' PROVE Staged(c)' /\ Shown(c)' /\ ChildStacked(c)'
  <2>2. c \notin strayed
    BY <1>1, <1>2, <1>3, <1>6, <1>7, ReinsertIs
  <2>3. ChildStacked(c)
    BY <2>2 DEF ChildOK
  <2>4. ~ Writes(c)
    BY <1>4, <2>3 DEF ChildStacked
  <2>5. Writes(c)' /\ Staged(c)' /\ Shown(c)'
    BY <1>1, <1>2, <1>3, <1>5, <1>6, <1>7, <2>4, ReinsertOwn
  <2>6. /\ ~ Has(redoStack, OfChild(c)) /\ Once(undoStack, OfChild(c))
        /\ Once(redoStack, OfChild(c)) /\ c \in opened.children
    BY <1>4, <1>5, <2>3, <2>4 DEF ChildStacked
  <2>7. ~ Has(undoStack', OfChild(c)) /\ Once(undoStack', OfChild(c))
    BY <1>1, <1>2, <2>6, FrontHas
  <2>8. Has(redoStack', OfChild(c)) /\ Once(redoStack', OfChild(c))
    BY <1>1, <1>2, <2>6, AppendHas
  <2>9. ChildStacked(c)'
    BY <1>1, <2>5, <2>6, <2>7, <2>8 DEF ChildStacked
  <2> QED
    BY <2>5, <2>9
<1> QED
  BY <1>5, <1>7, ChildOver

LEMMA UndoChild == ASSUME DraftTyped, NEW c \in Children, ChildOK(c), Undo PROVE ChildOK(c)'
<1>1. CASE Last(undoStack) \in OfChild(c)
  BY <1>1, UndoOwn
<1>2. CASE Last(undoStack) \notin OfChild(c)
  <2> DEFINE e == Last(undoStack)
  <2>1. /\ undoStack # <<>> /\ UndoEdit(e) /\ undoStack' = Front(undoStack)
        /\ redoStack' = Append(redoStack, e) /\ UNCHANGED <<manifest, opened, inserts, save>>
    BY DEF Undo
  <2>2. e \in Entry
    BY <2>1, FrontIs DEF DraftTyped, StacksTyped
  <2>3. SameFor(c)
    <3> HIDE DEF e
    <3>1. CASE e.type = "child"
      <4>1. Reinsert(e)
        BY <2>1, <3>1 DEF UndoEdit
      <4>2. c # e.child
        BY <1>2, <2>2, <3>1, OwnEntry DEF e
      <4> QED
        BY <2>1, <2>2, <3>1, <4>1, <4>2, ReinsertSame
    <3>3. CASE e.type = "part"
      <4>1. RestorePart /\ UNCHANGED reloads
        BY <2>1, <3>3 DEF UndoEdit
      <4> QED
        BY <2>1, <4>1, PartSame
    <3>4. CASE e.type = "move"
      <4>1. Stage(e.before) /\ UNCHANGED reloads
        BY <2>1, <3>4 DEF UndoEdit
      <4> QED
        BY <2>1, <4>1, StageSame
    <3> QED
      BY <2>2, <3>1, <3>3, <3>4, EntryKinds
  <2>4. inserts[c] # "over" \/ c \notin strayed => SameStacks(c)
    BY <1>2, <2>1, UndoOther
  <2> QED
    BY <2>1, <2>3, <2>4, ChildKept
<1> QED
  BY <1>1, <1>2

----------------------------------------------------------------------------
(* The steps of a drop, for the child dropped and for another.               *)
LEMMA DropOther ==
    ASSUME DraftTyped, NEW c \in Children, ChildOK(c), NEW d \in Children, c # d,
           Drop(d) \/ Inserting(d) \/ Unresolved(d) \/ Inserted(d) \/ InsertFails(d)
    PROVE  ChildOK(c)'
<1>1. /\ UNCHANGED <<manifest, undoStack, redoStack, reloads, save>>
      /\ \E i \in {"not yet", "resolving", "loading", "over"} : inserts' = [inserts EXCEPT ![d] = i]
      /\ view' \in {view, [view EXCEPT !.children = @ \cup {d}]}
      /\ opened' \in {opened, [opened EXCEPT !.children = @ \cup {d}]}
      /\ pending' \in {pending, [pending EXCEPT !.refs = @ \cup {d}], [pending EXCEPT !.refs = @ \ {d}]}
      /\ strayed \subseteq strayed'
  BY DEF Drop, Inserting, Unresolved, Inserted, InsertFails
<1>2. inserts'[c] = inserts[c]
  BY <1>1 DEF DraftTyped, LoadsTyped
<1>3. /\ c \in pending'.refs <=> c \in pending.refs
      /\ c \in pending'.removals <=> c \in pending.removals
  <2>1. pending \in Staging
    BY DEF DraftTyped, StagedTyped
  <2>2. /\ [pending EXCEPT !.refs = @ \cup {d}].refs = pending.refs \cup {d}
        /\ [pending EXCEPT !.refs = @ \ {d}].refs = pending.refs \ {d}
        /\ [pending EXCEPT !.refs = @ \cup {d}].removals = pending.removals
        /\ [pending EXCEPT !.refs = @ \ {d}].removals = pending.removals
    BY <2>1 DEF Staging
  <2> QED
    BY <1>1, <2>2
<1>4. /\ c \in view'.children <=> c \in view.children
      /\ c \in opened'.children <=> c \in opened.children
  <2>1. view \in Contents /\ opened \in Contents
    BY DEF DraftTyped, ContentsTyped
  <2>2. /\ [view EXCEPT !.children = @ \cup {d}].children = view.children \cup {d}
        /\ [opened EXCEPT !.children = @ \cup {d}].children = opened.children \cup {d}
    BY <2>1 DEF Contents
  <2>3. view'.children = view.children \/ view'.children = view.children \cup {d}
    BY <1>1, <2>2
  <2>4. opened'.children = opened.children \/ opened'.children = opened.children \cup {d}
    BY <1>1, <2>2
  <2> QED
    BY <2>3, <2>4
<1>5. SameFor(c)
  BY <1>1, <1>2, <1>3, <1>4 DEF SameFor
<1>6. inserts[c] # "over" \/ c \notin strayed => SameStacks(c)
  BY <1>1, <1>4, StacksStay
<1> QED
  BY <1>1, <1>5, <1>6, ChildKept

LEMMA DropOwn ==
    ASSUME DraftTyped, NEW c \in Children, ChildOK(c), Drop(c)
    PROVE  ChildOK(c)'
<1>1. /\ inserts[c] = "not yet" /\ inserts'[c] = "resolving"
      /\ UNCHANGED <<manifest, pending, view, opened, undoStack, redoStack, reloads, save, strayed>>
  BY DEF Drop, DraftTyped, LoadsTyped
<1>2. Writes(c)' <=> Writes(c)
  BY <1>1 DEF Writes
<1>3. NotYet(c)'
  BY <1>1 DEF ChildOK, NotYet, Copied, Baked, BakedChildren
<1>4. NotShown(c)'
  BY <1>1 DEF ChildOK, NotShown
<1>5. ASSUME c \notin strayed' PROVE Staged(c)' /\ Shown(c)' /\ ChildStacked(c)'
  <2>1. Staged(c) /\ Shown(c) /\ ChildStacked(c)
    BY <1>1, <1>5 DEF ChildOK
  <2>2. Staged(c)'
    BY <1>1, <2>1 DEF Staged, Copied, Baked, BakedChildren
  <2>3. Shown(c)'
    BY <1>1, <1>2, <2>1 DEF Shown, Settled
  <2>4. ChildStacked(c)'
    BY <1>1, <1>2, <2>1 DEF ChildStacked
  <2> QED
    BY <2>2, <2>3, <2>4
<1> QED
  BY <1>3, <1>4, <1>5 DEF ChildOK

LEMMA InsertingOwn ==
    ASSUME DraftTyped, NEW c \in Children, ChildOK(c), Inserting(c)
    PROVE  ChildOK(c)'
<1>1. /\ inserts[c] = "resolving" /\ inserts'[c] = "loading"
      /\ pending'.refs = pending.refs \cup {c} /\ pending'.removals = pending.removals
      /\ UNCHANGED <<manifest, view, opened, undoStack, redoStack, reloads, save, strayed>>
  BY DEF Inserting, DraftTyped, LoadsTyped, StagedTyped, Staging
<1>2. /\ c \notin pending.removals /\ c \notin manifest.children
      /\ ~ (Copied' /\ c \in save'.refs)
      /\ ~ (Baked' /\ c \in save'.refs)
      /\ ~ (Baked' /\ c \in BakedChildren')
  BY <1>1 DEF ChildOK, NotYet, Copied, Baked, BakedChildren
<1>3. NotShown(c)' /\ NotShown(c)
  BY <1>1 DEF ChildOK, NotShown
<1>4. Writes(c)'
  BY <1>1, <1>2 DEF Writes
<1>5. Staged(c)'
  BY <1>1, <1>2, <1>4 DEF Staged
<1>6. Shown(c)'
  BY <1>1, <1>3 DEF Shown, Settled, NotShown
<1>7. ChildStacked(c)'
  BY <1>1, <1>3 DEF ChildStacked, NotShown, Has, Once
<1> QED
  BY <1>1, <1>3, <1>5, <1>6, <1>7 DEF ChildOK, NotYet

LEMMA UnresolvedOwn ==
    ASSUME DraftTyped, NEW c \in Children, ChildOK(c), Unresolved(c)
    PROVE  ChildOK(c)'
<1>1. /\ inserts[c] = "resolving" /\ inserts'[c] = "over"
      /\ UNCHANGED <<manifest, pending, view, opened, undoStack, redoStack, reloads, save, strayed>>
  BY DEF Unresolved, DraftTyped, LoadsTyped
<1>2. /\ c \notin pending.refs /\ c \notin pending.removals /\ c \notin manifest.children
      /\ ~ (Copied' /\ c \in save'.refs)
      /\ ~ (Baked' /\ c \in save'.refs)
      /\ ~ (Baked' /\ c \in BakedChildren')
  BY <1>1 DEF ChildOK, NotYet, Copied, Baked, BakedChildren
<1>3. NotShown(c)
  BY DEF ChildOK
<1>4. ~ Writes(c)'
  BY <1>1, <1>2 DEF Writes
<1>5. Staged(c)'
  BY <1>1, <1>2 DEF Staged
<1>6. Shown(c)'
  BY <1>1, <1>3, <1>4 DEF Shown, NotShown
<1>7. ChildStacked(c)'
  BY <1>1, <1>3, <1>4 DEF ChildStacked, NotShown, Has, Once
<1> QED
  BY <1>1, <1>5, <1>6, <1>7, ChildOver

LEMMA InsertedOwn ==
    ASSUME DraftTyped, NEW c \in Children, ChildOK(c), Inserted(c)
    PROVE  ChildOK(c)'
<1>1. /\ inserts[c] = "loading" /\ inserts'[c] = "over"
      /\ view'.children = view.children \cup {c} /\ opened'.children = opened.children \cup {c}
      /\ UNCHANGED <<manifest, pending, undoStack, redoStack, reloads, save, strayed>>
  BY DEF Inserted, DraftTyped, LoadsTyped, ContentsTyped, Contents
<1>2. NotShown(c)
  BY DEF ChildOK
<1>3. ASSUME c \notin strayed' PROVE Staged(c)' /\ Shown(c)' /\ ChildStacked(c)'
  <2>1. Staged(c)
    BY <1>1, <1>3 DEF ChildOK
  <2>2. Writes(c)'
    BY <1>1, <2>1 DEF Staged, Writes
  <2>3. Staged(c)'
    BY <1>1, <2>1, <2>2 DEF Staged, Copied, Baked, BakedChildren
  <2>4. Shown(c)'
    BY <1>1, <1>2, <2>2 DEF Shown, NotShown
  <2>5. ChildStacked(c)'
    BY <1>1, <1>2, <2>2 DEF ChildStacked, NotShown, Has, Once
  <2> QED
    BY <2>3, <2>4, <2>5
<1> QED
  BY <1>1, <1>3, ChildOver

LEMMA InsertFailsOwn ==
    ASSUME DraftTyped, NEW c \in Children, ChildOK(c), InsertFails(c)
    PROVE  ChildOK(c)'
<1>1. /\ inserts[c] = "loading" /\ inserts'[c] = "over"
      /\ pending'.refs = pending.refs \ {c} /\ pending'.removals = pending.removals
      /\ UNCHANGED <<manifest, view, opened, undoStack, redoStack, reloads, save>>
  BY DEF InsertFails, DraftTyped, LoadsTyped, StagedTyped, Staging
<1>2. strayed' = strayed \cup Late("ref", c) \cup (IF c \in pending.refs THEN {} ELSE {c})
  BY DEF InsertFails
<1>3. NotShown(c)
  BY DEF ChildOK
<1>4. ASSUME c \notin strayed' PROVE Staged(c)' /\ Shown(c)' /\ ChildStacked(c)'
  <2>1. c \notin strayed /\ c \in pending.refs /\ ~ Copied /\ ~ Baked
    BY <1>2, <1>4 DEF Late, TooLateFor, Copied, Baked
  <2>2. Staged(c)
    BY <2>1 DEF ChildOK
  <2>3. ~ Copied' /\ ~ Baked'
    BY <1>1, <2>1 DEF Copied, Baked
  <2>4. ~ Writes(c)' /\ c \notin pending'.refs
    BY <1>1, <2>1, <2>2 DEF Staged, Writes
  <2>5. Staged(c)'
    BY <1>1, <2>3, <2>4 DEF Staged
  <2>6. Shown(c)'
    BY <1>1, <1>3, <2>4 DEF Shown, NotShown
  <2>7. ChildStacked(c)'
    BY <1>1, <1>3, <2>4 DEF ChildStacked, NotShown, Has, Once
  <2> QED
    BY <2>5, <2>6, <2>7
<1> QED
  BY <1>1, <1>4, ChildOver

LEMMA DropChild ==
    ASSUME DraftTyped, NEW c \in Children, ChildOK(c), NEW d \in Children,
           Drop(d) \/ Inserting(d) \/ Unresolved(d) \/ Inserted(d) \/ InsertFails(d)
    PROVE  ChildOK(c)'
<1>1. CASE c # d
  BY <1>1, DropOther
<1>2. CASE c = d
  BY <1>2, DropOwn, InsertingOwn, UnresolvedOwn, InsertedOwn, InsertFailsOwn
<1> QED
  BY <1>1, <1>2

----------------------------------------------------------------------------
(* A reload ends.                                                            *)
LEMMA ReloadedIs ==
    ASSUME DraftTyped, NEW d \in Children, NEW n \in 1 .. 2, Reloaded(d, n)
    PROVE  /\ n \in reloads[d].flying
           /\ reloads'[d].flying = reloads[d].flying \ {n}
           /\ n \in reloads[d].watched /\ IsUnlinked(d) => view'.children = view.children \ {d}
           /\ ~ (n \in reloads[d].watched /\ IsUnlinked(d)) => view'.children = view.children \cup {d}
           /\ \A c \in Children \ {d} : reloads'[c] = reloads[c]
           /\ UNCHANGED <<manifest, pending, opened, undoStack, redoStack, inserts, save, strayed>>
<1>1. /\ n \in reloads[d].flying
      /\ reloads' = [reloads EXCEPT ![d] = SettledReload(reloads[d], n)]
      /\ UNCHANGED <<manifest, pending, opened, undoStack, redoStack, inserts, save, strayed>>
      /\ view' = IF n \in reloads[d].watched /\ IsUnlinked(d)
                 THEN [view EXCEPT !.children = @ \ {d}]
                 ELSE [view EXCEPT !.children = @ \cup {d}]
  BY DEF Reloaded
<1>2. reloads'[d].flying = reloads[d].flying \ {n} /\ \A c \in Children \ {d} : reloads'[c] = reloads[c]
  BY <1>1 DEF DraftTyped, LoadsTyped, SettledReload
<1>3. view \in Contents
  BY DEF DraftTyped, ContentsTyped
<1>4. CASE n \in reloads[d].watched /\ IsUnlinked(d)
  <2>1. view' = [view EXCEPT !.children = @ \ {d}]
    BY <1>1, <1>4
  <2> QED
    BY <1>1, <1>2, <1>3, <1>4, <2>1 DEF Contents
<1>5. CASE ~ (n \in reloads[d].watched /\ IsUnlinked(d))
  <2>1. view' = [view EXCEPT !.children = @ \cup {d}]
    BY <1>1, <1>5
  <2> QED
    BY <1>1, <1>2, <1>3, <1>5, <2>1 DEF Contents
<1> QED
  BY <1>4, <1>5

LEMMA ReloadedOwn ==
    ASSUME DraftTyped, NEW c \in Children, ChildOK(c), NEW n \in 1 .. 2, Reloaded(c, n)
    PROVE  ChildOK(c)'
<1>1. /\ n \in reloads[c].flying
      /\ reloads'[c].flying = reloads[c].flying \ {n}
      /\ n \in reloads[c].watched /\ IsUnlinked(c) => view'.children = view.children \ {c}
      /\ ~ (n \in reloads[c].watched /\ IsUnlinked(c)) => view'.children = view.children \cup {c}
      /\ UNCHANGED <<manifest, pending, opened, undoStack, redoStack, inserts, save, strayed>>
  BY ReloadedIs
<1> HIDE DEF Reloaded
<1>2. inserts[c] = "over" /\ inserts'[c] = "over"
  BY <1>1 DEF ChildOK, NotShown
<1>3. ASSUME c \notin strayed' PROVE Staged(c)' /\ Shown(c)' /\ ChildStacked(c)'
  <2>1. Staged(c) /\ Shown(c) /\ ChildStacked(c)
    BY <1>1, <1>3 DEF ChildOK
  <2>2. Writes(c)' <=> Writes(c)
    BY <1>1 DEF Writes
  <2>3. /\ reloads[c].flying = {reloads[c].tracked} /\ n = reloads[c].tracked
        /\ n \in reloads[c].watched <=> ~ Writes(c)
    BY <1>1, <2>1 DEF Shown
  <2>4. reloads'[c].flying = {}
    BY <1>1, <2>3
  <2>5. c \in view'.children <=> Writes(c)
    <3>1. ~ Writes(c) => IsUnlinked(c)
      BY DEF Writes, IsUnlinked
    <3> QED
      BY <1>1, <2>3, <3>1
  <2>6. Shown(c)'
    BY <2>2, <2>4, <2>5 DEF Shown
  <2>7. Staged(c)'
    BY <1>1, <2>1, <2>2 DEF Staged, Copied, Baked, BakedChildren
  <2>8. ChildStacked(c)'
    BY <1>1, <2>1, <2>2 DEF ChildStacked
  <2> QED
    BY <2>6, <2>7, <2>8
<1> QED
  BY <1>2, <1>3, ChildOver

LEMMA ReloadedChild ==
    ASSUME DraftTyped, NEW c \in Children, ChildOK(c), NEW d \in Children, NEW n \in 1 .. 2, Reloaded(d, n)
    PROVE  ChildOK(c)'
<1>1. CASE c = d
  BY <1>1, ReloadedOwn
<1>2. CASE c # d
  <2>1. /\ reloads'[c] = reloads[c] /\ (c \in view'.children <=> c \in view.children)
        /\ UNCHANGED <<manifest, pending, opened, undoStack, redoStack, inserts, save, strayed>>
    BY <1>2, ReloadedIs
  <2> HIDE DEF Reloaded
  <2>2. SameFor(c)
    BY <2>1 DEF SameFor
  <2>3. inserts[c] # "over" \/ c \notin strayed => SameStacks(c)
    BY <2>1, StacksStay
  <2> QED
    BY <2>1, <2>2, <2>3, ChildKept
<1> QED
  BY <1>1, <1>2

----------------------------------------------------------------------------
(* The steps of a save change nothing that is shown.                         *)
LEMMA SaveChild ==
    ASSUME NEW c \in Children, ChildOK(c), NotYet(c)',
           UNCHANGED <<view, opened, undoStack, redoStack, inserts, reloads, strayed>>,
           c \notin strayed => Staged(c)' /\ (Writes(c)' <=> Writes(c))
    PROVE  ChildOK(c)'
<1>1. NotShown(c)'
  BY DEF ChildOK, NotShown
<1>2. ASSUME c \notin strayed' PROVE Staged(c)' /\ Shown(c)' /\ ChildStacked(c)'
  <2>1. Staged(c)' /\ (Writes(c)' <=> Writes(c)) /\ Shown(c) /\ ChildStacked(c)
    BY <1>2 DEF ChildOK
  <2>2. Shown(c)'
    BY <2>1 DEF Shown, Settled
  <2>3. ChildStacked(c)'
    BY <2>1 DEF ChildStacked
  <2> QED
    BY <2>1, <2>2, <2>3
<1> QED
  BY <1>1, <1>2 DEF ChildOK

LEMMA UncopiedChild ==
    ASSUME NEW c \in Children, ChildOK(c), ~ Copied',
           UNCHANGED <<manifest, pending, view, opened, undoStack, redoStack, inserts, reloads, strayed>>
    PROVE  ChildOK(c)'
<1>1. ~ Baked'
  BY DEF Baked, Copied
<1>2. Writes(c)' <=> Writes(c)
  BY DEF Writes
<1>3. NotYet(c)'
  BY <1>1 DEF ChildOK, NotYet
<1>4. c \notin strayed => Staged(c)'
  BY <1>1, <1>2 DEF ChildOK, Staged
<1> QED
  BY <1>2, <1>3, <1>4, SaveChild

LEMMA CopyChild == ASSUME NEW c \in Children, ChildOK(c), Copy PROVE ChildOK(c)'
<1>1. /\ save'.at = "baking" /\ save'.refs = pending.refs
      /\ UNCHANGED <<manifest, pending, view, opened, undoStack, redoStack, inserts, reloads, strayed>>
  BY DEF Copy
<1>2. ~ Baked'
  BY <1>1 DEF Baked
<1>3. Writes(c)' <=> Writes(c)
  BY <1>1 DEF Writes
<1>4. NotYet(c)'
  BY <1>1, <1>2 DEF ChildOK, NotYet
<1>5. c \notin strayed => Staged(c)'
  BY <1>1, <1>2, <1>3 DEF ChildOK, Staged
<1> QED
  BY <1>1, <1>3, <1>4, <1>5, SaveChild

LEMMA BakeChild == ASSUME NEW c \in Children, ChildOK(c), Bake PROVE ChildOK(c)'
<1>1. /\ save.at = "baking" /\ save'.at = "moving" /\ save'.refs = save.refs
      /\ save'.children = (manifest.children \cup save.refs) \ pending.removals
      /\ UNCHANGED <<manifest, pending, view, opened, undoStack, redoStack, inserts, reloads, strayed>>
  BY DEF Bake
<1>2. Copied /\ Copied' /\ Baked'
      /\ BakedChildren' = (manifest.children \cup save.refs) \ pending.removals
  BY <1>1 DEF Baked, Copied, BakedChildren
<1>3. Writes(c)' <=> Writes(c)
  BY <1>1 DEF Writes
<1>4. NotYet(c)'
  BY <1>1, <1>2 DEF ChildOK, NotYet
<1>5. c \notin strayed => Staged(c)'
  BY <1>1, <1>2, <1>3 DEF ChildOK, Staged
<1> QED
  BY <1>1, <1>3, <1>4, <1>5, SaveChild

LEMMA ApplyTransformsChild == ASSUME NEW c \in Children, ChildOK(c), ApplyTransforms PROVE ChildOK(c)'
<1>1. /\ save.at = "moving" /\ save'.at = "writing" /\ save'.refs = save.refs
      /\ save'.written = [children |-> save.children, part |-> save.part,
                          pos |-> IF pending.pos = Nowhere THEN manifest.pos ELSE pending.pos]
      /\ UNCHANGED <<manifest, pending, view, opened, undoStack, redoStack, inserts, reloads, strayed>>
  BY DEF ApplyTransforms
<1>2. Copied /\ Copied' /\ Baked /\ Baked' /\ BakedChildren' = BakedChildren
  BY <1>1 DEF Baked, Copied, BakedChildren
<1>3. Writes(c)' <=> Writes(c)
  BY <1>1 DEF Writes
<1>4. NotYet(c)'
  BY <1>1, <1>2 DEF ChildOK, NotYet
<1>5. c \notin strayed => Staged(c)'
  BY <1>1, <1>2, <1>3 DEF ChildOK, Staged
<1> QED
  BY <1>1, <1>3, <1>4, <1>5, SaveChild

(* What was written is what was staged, and no more of it is dropped.        *)
LEMMA SavedChild == ASSUME NEW c \in Children, ChildOK(c), Saved PROVE ChildOK(c)'
<1>1. /\ save.at = "writing" /\ save'.at = "idle"
      /\ manifest'.children = save.written.children
      /\ pending'.refs = pending.refs \ save.refs /\ pending'.removals = {}
      /\ UNCHANGED <<view, opened, undoStack, redoStack, inserts, reloads, strayed>>
  BY DEF Saved, LeftPendingAfter, Nothing, NotSaving
<1>2. Copied /\ Baked /\ BakedChildren = save.written.children /\ ~ Copied' /\ ~ Baked'
  BY <1>1 DEF Baked, Copied, BakedChildren
<1>3. NotYet(c)'
  BY <1>1, <1>2 DEF ChildOK, NotYet
<1>4. ASSUME c \notin strayed PROVE Staged(c)' /\ (Writes(c)' <=> Writes(c))
  <2>1. Staged(c)
    BY <1>4 DEF ChildOK
  <2>2. Writes(c)' <=> Writes(c)
    BY <1>1, <1>2, <2>1 DEF Staged, Writes
  <2>3. Staged(c)'
    BY <1>1, <1>2, <2>1, <2>2 DEF Staged
  <2> QED
    BY <2>2, <2>3
<1> QED
  BY <1>1, <1>3, <1>4, SaveChild

(* No step disturbs what is known of a child.                                *)
LEMMA ChildStep ==
    ASSUME DraftTyped, NEW c \in Children, ChildOK(c), [EditsNext]_editVars
    PROVE  ChildOK(c)'
<1>1. CASE UNCHANGED editVars
  BY <1>1 DEF editVars, ChildOK, NotYet, NotShown, Staged, Shown, Settled, ChildStacked, Writes,
              Copied, Baked, BakedChildren
<1>2. BeginSave \/ SaveFails => ChildOK(c)'
  BY UncopiedChild DEF BeginSave, SaveFails, Copied, NotSaving
<1> QED
  BY <1>1, <1>2, MoveChild, RemovePartChild, UndoChild, RedoChild, DropChild, RemoveChildChild,
     ReloadedChild, CopyChild, BakeChild, ApplyTransformsChild, SavedChild DEF EditsNext

LEMMA EditsInitChild == ASSUME EditsInit, NEW c \in Children PROVE ChildOK(c)
<1>1. PICK cs \in SUBSET Children, p \in Positions :
        manifest = [children |-> cs, part |-> TRUE, pos |-> p]
  BY DEF EditsInit
<1>2. /\ view = manifest /\ opened = manifest /\ undoStack = <<>> /\ redoStack = <<>>
      /\ manifest.children = cs /\ inserts[c] = IF c \in cs THEN "over" ELSE "not yet"
      /\ pending.refs = {} /\ pending.removals = {} /\ reloads[c].flying = {}
      /\ ~ Copied /\ ~ Baked
  BY <1>1 DEF EditsInit, Nothing, NoReload, NotSaving, Copied, Baked
<1>3. ~ Has(undoStack, OfChild(c)) /\ ~ Has(redoStack, OfChild(c))
      /\ Once(undoStack, OfChild(c)) /\ Once(redoStack, OfChild(c))
  BY <1>2, EmptyHas
<1> QED
  BY <1>2, <1>3 DEF ChildOK, NotYet, NotShown, Staged, Shown, Settled, ChildStacked, Writes

----------------------------------------------------------------------------
(* The part is on one of the stacks once, and shown before its removal.      *)
PartStacked ==
    /\ Has(undoStack, OfPart) => ~ view.part
    /\ Has(redoStack, OfPart) => view.part
    /\ Once(undoStack, OfPart) /\ Once(redoStack, OfPart)
    /\ opened.part <=> view.part \/ Has(undoStack, OfPart)

WritesPart == manifest.part /\ ~ pending.part

(* The save under way removes the part exactly if the next one would.        *)
PartStaged ==
    Part \notin strayed =>
        /\ view.part <=> WritesPart
        /\ pending.part => manifest.part
        /\ save.at = "baking" => (save.part <=> pending.part)
        /\ save.at = "moving" => (save.part <=> WritesPart)
        /\ save.at = "writing" => (save.written.part <=> WritesPart)

PartOK == PartStacked /\ PartStaged

----------------------------------------------------------------------------
SamePart ==
    /\ view'.part = view.part /\ pending'.part = pending.part
    /\ manifest' = manifest /\ save' = save /\ strayed \subseteq strayed'

SamePartStacks ==
    /\ Has(undoStack', OfPart) => Has(undoStack, OfPart)
    /\ Has(redoStack', OfPart) => Has(redoStack, OfPart)
    /\ Once(undoStack', OfPart) /\ Once(redoStack', OfPart)
    /\ opened'.part <=> opened.part /\ (Has(undoStack, OfPart) => Has(undoStack', OfPart))

LEMMA PartStays == ASSUME PartOK, SamePart, SamePartStacks PROVE PartOK'
<1>1. PartStacked'
  BY DEF PartOK, PartStacked, SamePart, SamePartStacks
<1>2. PartStaged'
  BY DEF PartOK, PartStaged, SamePart, WritesPart
<1> QED
  BY <1>1, <1>2 DEF PartOK

LEMMA PartStacksStay ==
    ASSUME PartOK, UNCHANGED <<undoStack, redoStack>>, opened'.part = opened.part
    PROVE  SamePartStacks
  BY DEF PartOK, PartStacked, SamePartStacks

LEMMA PartEntry == ASSUME NEW e \in Entry PROVE e \in OfPart <=> e.type = "part"
<1>1. e \in OfPart => e.type = "part"
  BY DEF OfPart
<1>2. e.type = "part" => e \in OfPart
  BY EntryKinds DEF OfPart
<1> QED
  BY <1>1, <1>2

LEMMA AfterPart ==
    ASSUME NEW e \in Entry, NEW v \in Contents
    PROVE  After(v, e).part <=> v.part /\ e \notin OfPart
<1>1. CASE e.type = "child"
  <2>1. After(v, e) = [v EXCEPT !.children = @ \ {e.child}]
    BY <1>1 DEF After
  <2>2. After(v, e).part = v.part
    BY <2>1 DEF Contents
  <2> QED
    BY <1>1, <2>2, PartEntry
<1>2. CASE e.type = "part"
  <2>1. After(v, e) = [v EXCEPT !.part = FALSE]
    BY <1>2 DEF After
  <2>2. After(v, e).part = FALSE
    BY <2>1 DEF Contents
  <2> QED
    BY <1>2, <2>2, PartEntry
<1>3. CASE e.type = "move"
  <2>1. After(v, e) = [v EXCEPT !.pos = e.after]
    BY <1>3 DEF After
  <2>2. After(v, e).part = v.part
    BY <2>1 DEF Contents
  <2> QED
    BY <1>3, <2>2, PartEntry
<1> QED
  BY <1>1, <1>2, <1>3, EntryKinds

(* What an entry that is pushed out takes with it.                           *)
LEMMA PushedPart ==
    ASSUME DraftTyped, PartOK, NEW e \in Entry, Push(e)
    PROVE  /\ redoStack' = <<>>
           /\ e \notin OfPart => SamePartStacks
           /\ e \in OfPart /\ ~ Has(undoStack, OfPart) =>
                Has(undoStack', OfPart) /\ Once(undoStack', OfPart)
                /\ (opened'.part <=> opened.part)
<1>1. /\ undoStack \in Seq(Entry) /\ Len(undoStack) <= MaxUndo /\ Len(undoStack) \in Nat
      /\ Len(undoStack) = MaxUndo => Head(undoStack) \in Entry
  BY StackLength DEF DraftTyped
<1>2. Once(undoStack, OfPart)
  BY DEF PartOK, PartStacked
<1>3. undoStack' = Pushed(undoStack, e) /\ redoStack' = <<>>
  BY DEF Push, Pushed
<1>4. opened'.part <=>
        opened.part /\ ~ (Len(undoStack) = MaxUndo /\ Head(undoStack) \in OfPart)
  <2>1. CASE Len(undoStack) = MaxUndo
    <3>1. opened' = After(opened, Head(undoStack))
      BY <2>1 DEF Push
    <3> QED
      BY <1>1, <2>1, <3>1, AfterPart DEF DraftTyped, ContentsTyped
  <2>2. CASE Len(undoStack) # MaxUndo
    BY <2>2 DEF Push
  <2> QED
    BY <2>1, <2>2
<1>5. e \notin OfPart => SamePartStacks
  <2> SUFFICES ASSUME e \notin OfPart PROVE SamePartStacks
    OBVIOUS
  <2>1. /\ Once(undoStack', OfPart)
        /\ Has(undoStack', OfPart) =>
              Has(undoStack, OfPart) /\ ~ (Len(undoStack) = MaxUndo /\ Head(undoStack) \in OfPart)
        /\ Has(undoStack, OfPart) =>
              Has(undoStack', OfPart) \/ (Len(undoStack) = MaxUndo /\ Head(undoStack) \in OfPart)
        /\ Len(undoStack) = MaxUndo /\ Head(undoStack) \in OfPart => Has(undoStack, OfPart)
    BY <1>1, <1>2, <1>3, PushedHas
  <2> QED
    BY <1>3, <1>4, <2>1, EmptyHas DEF SamePartStacks
<1>6. e \in OfPart /\ ~ Has(undoStack, OfPart) =>
                Has(undoStack', OfPart) /\ Once(undoStack', OfPart)
                /\ ~ (Len(undoStack) = MaxUndo /\ Head(undoStack) \in OfPart)
  BY <1>1, <1>2, <1>3, PushedHas
<1> QED
  BY <1>3, <1>4, <1>5, <1>6

----------------------------------------------------------------------------
(* The edits of something else.                                              *)
LEMMA StagePart ==
    ASSUME DraftTyped, NEW p, Stage(p), UNCHANGED <<manifest, save>>
    PROVE  SamePart
<1>1. /\ view' = [view EXCEPT !.pos = p] /\ pending' = [pending EXCEPT !.pos = p]
      /\ strayed \subseteq strayed'
  BY DEF Stage
<1>2. view'.part = view.part /\ pending'.part = pending.part
  BY <1>1 DEF DraftTyped, ContentsTyped, StagedTyped, Contents, Staging
<1> QED
  BY <1>1, <1>2 DEF SamePart

LEMMA UnlinkPart ==
    ASSUME DraftTyped, NEW c \in Children, Unlink(c), UNCHANGED <<manifest, save>>
    PROVE  SamePart
<1>1. /\ view' = [view EXCEPT !.children = @ \ {c}]
      /\ pending' \in {[pending EXCEPT !.refs = @ \ {c}], [pending EXCEPT !.removals = @ \cup {c}]}
      /\ strayed \subseteq strayed'
  BY DEF Unlink
<1>2. pending \in Staging /\ view \in Contents
  BY DEF DraftTyped, ContentsTyped, StagedTyped
<1>3. [pending EXCEPT !.refs = @ \ {c}].part = pending.part
      /\ [pending EXCEPT !.removals = @ \cup {c}].part = pending.part
  BY <1>2 DEF Staging
<1>4. view'.part = view.part
  BY <1>1, <1>2 DEF Contents
<1> QED
  BY <1>1, <1>3, <1>4 DEF SamePart

LEMMA ReinsertPart ==
    ASSUME DraftTyped, NEW e \in Entry, e.type = "child", Reinsert(e), UNCHANGED <<manifest, save>>
    PROVE  SamePart
<1>1. /\ view' = view
      /\ pending' \in {[pending EXCEPT !.refs = @ \cup {e.child}], [pending EXCEPT !.removals = @ \ {e.child}]}
      /\ strayed \subseteq strayed'
  BY DEF Reinsert
<1>2. pending \in Staging
  BY DEF DraftTyped, StagedTyped
<1>3. [pending EXCEPT !.refs = @ \cup {e.child}].part = pending.part
      /\ [pending EXCEPT !.removals = @ \ {e.child}].part = pending.part
  BY <1>2 DEF Staging
<1> QED
  BY <1>1, <1>3 DEF SamePart

(* The removal of the part, and its restoring.                               *)
LEMMA StageRemovalPart ==
    ASSUME DraftTyped, PartOK, view.part, StageRemoval, UNCHANGED <<manifest, save>>
    PROVE  ~ view'.part /\ PartStaged'
<1>1. view'.part = FALSE /\ pending'.part = TRUE
  BY DEF StageRemoval, DraftTyped, ContentsTyped, StagedTyped, Contents, Staging
<1>2. ASSUME Part \notin strayed' PROVE Part \notin strayed /\ ~ Copied
  BY <1>2 DEF StageRemoval, Late, TooLateFor, Copied
<1>3. ASSUME Part \notin strayed' PROVE manifest.part
  BY <1>2, <1>3 DEF PartOK, PartStaged, WritesPart
<1>4. PartStaged'
  BY <1>1, <1>2, <1>3 DEF PartStaged, WritesPart, Copied
<1> QED
  BY <1>1, <1>4

LEMMA RestorePartPart ==
    ASSUME DraftTyped, PartOK, RestorePart, UNCHANGED <<manifest, save>>
    PROVE  view'.part /\ PartStaged'
<1>1. view'.part = TRUE /\ pending'.part = FALSE
  BY DEF RestorePart, DraftTyped, ContentsTyped, StagedTyped, Contents, Staging
<1>2. ASSUME Part \notin strayed' PROVE Part \notin strayed /\ ~ Copied /\ pending.part
  BY <1>2 DEF RestorePart, Late, TooLateFor, Copied
<1>3. ASSUME Part \notin strayed' PROVE manifest.part
  BY <1>2, <1>3 DEF PartOK, PartStaged
<1>4. PartStaged'
  BY <1>1, <1>2, <1>3 DEF PartStaged, WritesPart, Copied
<1> QED
  BY <1>1, <1>4

LEMMA MovePart == ASSUME DraftTyped, PartOK, Move PROVE PartOK'
<1>1. PICK p \in Positions \ {view.pos} :
        Stage(p) /\ Push([type |-> "move", before |-> view.pos, after |-> p])
  BY DEF Move
<1>2. UNCHANGED <<manifest, inserts, reloads, save>>
  BY DEF Move
<1>3. [type |-> "move", before |-> view.pos, after |-> p] \in Entry
  BY Entries DEF DraftTyped, ContentsTyped, Contents
<1>4. [type |-> "move", before |-> view.pos, after |-> p] \notin OfPart
  BY DEF OfPart
<1> QED
  BY <1>1, <1>2, <1>3, <1>4, StagePart, PushedPart, PartStays

LEMMA RemoveChildPart == ASSUME DraftTyped, PartOK, NEW d \in Children, RemoveChild(d) PROVE PartOK'
<1> DEFINE e == [type |-> "child", child |-> d, fromPending |-> d \in pending.refs]
<1>1. /\ Unlink(d) /\ Push(e) /\ UNCHANGED <<manifest, inserts, save>>
  BY DEF RemoveChild
<1>2. e \in Entry
  <2>1. (d \in pending.refs) \in BOOLEAN
    OBVIOUS
  <2>2. \A b \in BOOLEAN : [type |-> "child", child |-> d, fromPending |-> b] \in Entry
    BY Entries
  <2> QED
    BY <2>1, <2>2
<1>3. e \notin OfPart
  BY DEF OfPart
<1> HIDE DEF e
<1> QED
  BY <1>1, <1>2, <1>3, UnlinkPart, PushedPart, PartStays

LEMMA RemovePartPart == ASSUME DraftTyped, PartOK, RemovePart PROVE PartOK'
<1>1. /\ view.part /\ StageRemoval /\ Push([type |-> "part"])
      /\ UNCHANGED <<manifest, inserts, reloads, save>>
  BY DEF RemovePart
<1>2. [type |-> "part"] \in Entry /\ [type |-> "part"] \in OfPart
  BY Entries DEF OfPart
<1>3. ~ view'.part /\ PartStaged'
  BY <1>1, StageRemovalPart
<1>4. ~ Has(undoStack, OfPart) /\ opened.part
  BY <1>1 DEF PartOK, PartStacked
<1>5. redoStack' = <<>> /\ Has(undoStack', OfPart) /\ Once(undoStack', OfPart)
      /\ (opened'.part <=> opened.part)
  BY <1>1, <1>2, <1>4, PushedPart
<1>6. PartStacked'
  BY <1>3, <1>4, <1>5, EmptyHas DEF PartStacked
<1> QED
  BY <1>3, <1>6 DEF PartOK

LEMMA UndoPart == ASSUME DraftTyped, PartOK, Undo PROVE PartOK'
<1> DEFINE e == Last(undoStack)
<1>1. /\ undoStack # <<>> /\ UndoEdit(e) /\ undoStack' = Front(undoStack)
      /\ redoStack' = Append(redoStack, e) /\ UNCHANGED <<manifest, opened, inserts, save>>
  BY DEF Undo
<1>2. undoStack \in Seq(Entry) /\ redoStack \in Seq(Entry) /\ e \in Entry
  BY <1>1, FrontIs DEF DraftTyped, StacksTyped
<1>3. PartStacked /\ Once(undoStack, OfPart) /\ Once(redoStack, OfPart)
  BY DEF PartOK, PartStacked
<1>4. /\ Once(undoStack', OfPart)
      /\ e \in OfPart => Has(undoStack, OfPart) /\ ~ Has(undoStack', OfPart)
      /\ e \notin OfPart => (Has(undoStack', OfPart) <=> Has(undoStack, OfPart))
  BY <1>1, <1>2, <1>3, FrontHas
<1>5. /\ Has(redoStack', OfPart) <=> Has(redoStack, OfPart) \/ e \in OfPart
      /\ (e \in OfPart => ~ Has(redoStack, OfPart)) => Once(redoStack', OfPart)
  BY <1>1, <1>2, <1>3, AppendHas
<1> HIDE DEF e
<1>6. CASE e.type = "part"
  <2>1. RestorePart /\ e \in OfPart
    BY <1>1, <1>2, <1>6, PartEntry DEF UndoEdit
  <2>2. view'.part /\ PartStaged'
    BY <1>1, <2>1, RestorePartPart
  <2>3. PartStacked'
    BY <1>1, <1>3, <1>4, <1>5, <2>1, <2>2 DEF PartStacked
  <2> QED
    BY <2>2, <2>3 DEF PartOK
<1>7. CASE e.type # "part"
  <2>1. SamePart
    <3>1. CASE e.type = "child"
      BY <1>1, <1>2, <3>1, ReinsertPart DEF UndoEdit
    <3>2. CASE e.type = "move"
      BY <1>1, <1>2, <3>2, StagePart DEF UndoEdit
    <3> QED
      BY <1>2, <1>7, <3>1, <3>2, EntryKinds
  <2>2. e \notin OfPart
    BY <1>2, <1>7, PartEntry
  <2>3. SamePartStacks
    BY <1>1, <1>4, <1>5, <2>2 DEF SamePartStacks
  <2> QED
    BY <2>1, <2>3, PartStays
<1> QED
  BY <1>6, <1>7

LEMMA RedoPart == ASSUME DraftTyped, PartOK, Redo PROVE PartOK'
<1> DEFINE e == Last(redoStack)
<1>1. /\ redoStack # <<>> /\ RedoEdit(e) /\ redoStack' = Front(redoStack)
      /\ undoStack' = Append(undoStack, e) /\ UNCHANGED <<manifest, opened, inserts, save>>
  BY DEF Redo
<1>2. undoStack \in Seq(Entry) /\ redoStack \in Seq(Entry) /\ e \in Entry
  BY <1>1, FrontIs DEF DraftTyped, StacksTyped
<1>3. PartStacked /\ Once(undoStack, OfPart) /\ Once(redoStack, OfPart)
  BY DEF PartOK, PartStacked
<1>4. /\ Once(redoStack', OfPart)
      /\ e \in OfPart => Has(redoStack, OfPart) /\ ~ Has(redoStack', OfPart)
      /\ e \notin OfPart => (Has(redoStack', OfPart) <=> Has(redoStack, OfPart))
  BY <1>1, <1>2, <1>3, FrontHas
<1>5. /\ Has(undoStack', OfPart) <=> Has(undoStack, OfPart) \/ e \in OfPart
      /\ (e \in OfPart => ~ Has(undoStack, OfPart)) => Once(undoStack', OfPart)
  BY <1>1, <1>2, <1>3, AppendHas
<1> HIDE DEF e
<1>6. CASE e.type = "part"
  <2>1. StageRemoval /\ e \in OfPart
    BY <1>1, <1>2, <1>6, PartEntry DEF RedoEdit
  <2>2. view.part
    BY <1>3, <1>4, <2>1 DEF PartStacked
  <2>3. ~ view'.part /\ PartStaged'
    BY <1>1, <2>1, <2>2, StageRemovalPart
  <2>4. PartStacked'
    BY <1>1, <1>3, <1>4, <1>5, <2>1, <2>2, <2>3 DEF PartStacked
  <2> QED
    BY <2>3, <2>4 DEF PartOK
<1>7. CASE e.type # "part"
  <2>1. SamePart
    <3>1. CASE e.type = "child" /\ Linked(e.child)
      <4>1. e.child \in Children /\ Unlink(e.child)
        BY <1>1, <1>2, <3>1, EntryKinds DEF RedoEdit
      <4> QED
        BY <1>1, <4>1, UnlinkPart
    <3>2. CASE e.type = "child" /\ ~ Linked(e.child)
      <4>1. UNCHANGED <<view, pending>> /\ strayed \subseteq strayed'
        BY <1>1, <3>2 DEF RedoEdit
      <4> QED
        BY <1>1, <4>1 DEF SamePart
    <3>3. CASE e.type = "move"
      BY <1>1, <1>2, <3>3, StagePart DEF RedoEdit
    <3> QED
      BY <1>2, <1>7, <3>1, <3>2, <3>3, EntryKinds
  <2>2. e \notin OfPart
    BY <1>2, <1>7, PartEntry
  <2>3. SamePartStacks
    BY <1>1, <1>4, <1>5, <2>2 DEF SamePartStacks
  <2> QED
    BY <2>1, <2>3, PartStays
<1> QED
  BY <1>6, <1>7

LEMMA DropPart ==
    ASSUME DraftTyped, PartOK, NEW d \in Children,
           Drop(d) \/ Inserting(d) \/ Unresolved(d) \/ Inserted(d) \/ InsertFails(d)
    PROVE  PartOK'
<1>1. /\ UNCHANGED <<manifest, undoStack, redoStack, save>>
      /\ view' \in {view, [view EXCEPT !.children = @ \cup {d}]}
      /\ opened' \in {opened, [opened EXCEPT !.children = @ \cup {d}]}
      /\ pending' \in {pending, [pending EXCEPT !.refs = @ \cup {d}], [pending EXCEPT !.refs = @ \ {d}]}
      /\ strayed \subseteq strayed'
  BY DEF Drop, Inserting, Unresolved, Inserted, InsertFails
<1>2. pending'.part = pending.part
  <2>1. pending \in Staging
    BY DEF DraftTyped, StagedTyped
  <2>2. /\ [pending EXCEPT !.refs = @ \cup {d}].part = pending.part
        /\ [pending EXCEPT !.refs = @ \ {d}].part = pending.part
    BY <2>1 DEF Staging
  <2> QED
    BY <1>1, <2>2
<1>3. view'.part = view.part /\ opened'.part = opened.part
  <2>1. view \in Contents /\ opened \in Contents
    BY DEF DraftTyped, ContentsTyped
  <2>2. /\ [view EXCEPT !.children = @ \cup {d}].part = view.part
        /\ [opened EXCEPT !.children = @ \cup {d}].part = opened.part
    BY <2>1 DEF Contents
  <2> QED
    BY <1>1, <2>2
<1>4. SamePart
  BY <1>1, <1>2, <1>3 DEF SamePart
<1> QED
  BY <1>1, <1>3, <1>4, PartStacksStay, PartStays

LEMMA ReloadedPart ==
    ASSUME DraftTyped, PartOK, NEW d \in Children, NEW n \in 1 .. 2, Reloaded(d, n) PROVE PartOK'
<1>1. /\ UNCHANGED <<manifest, pending, opened, undoStack, redoStack, save, strayed>>
      /\ view' \in {[view EXCEPT !.children = @ \ {d}], [view EXCEPT !.children = @ \cup {d}]}
  BY DEF Reloaded
<1>2. view'.part = view.part
  <2>1. view \in Contents
    BY DEF DraftTyped, ContentsTyped
  <2>2. /\ [view EXCEPT !.children = @ \ {d}].part = view.part
        /\ [view EXCEPT !.children = @ \cup {d}].part = view.part
    BY <2>1 DEF Contents
  <2> QED
    BY <1>1, <2>2
<1>3. SamePart
  BY <1>1, <1>2 DEF SamePart
<1> QED
  BY <1>1, <1>3, PartStacksStay, PartStays

(* The steps of a save.                                                      *)
LEMMA SavePart ==
    ASSUME PartOK, UNCHANGED <<view, opened, undoStack, redoStack, strayed>>,
           Part \notin strayed => PartStaged'
    PROVE  PartOK'
<1>1. PartStacked'
  BY DEF PartOK, PartStacked
<1>2. PartStaged'
  BY DEF PartStaged
<1> QED
  BY <1>1, <1>2 DEF PartOK

LEMMA UncopiedPart ==
    ASSUME PartOK, ~ Copied',
           UNCHANGED <<manifest, pending, view, opened, undoStack, redoStack, strayed>>
    PROVE  PartOK'
<1>1. Part \notin strayed => PartStaged'
  BY DEF PartOK, PartStaged, WritesPart, Copied
<1> QED
  BY <1>1, SavePart

LEMMA CopyPart == ASSUME PartOK, Copy PROVE PartOK'
<1>1. /\ save'.at = "baking" /\ save'.part = pending.part
      /\ UNCHANGED <<manifest, pending, view, opened, undoStack, redoStack, strayed>>
  BY DEF Copy
<1>2. Part \notin strayed => PartStaged'
  BY <1>1 DEF PartOK, PartStaged, WritesPart
<1> QED
  BY <1>1, <1>2, SavePart

LEMMA BakePart == ASSUME PartOK, Bake PROVE PartOK'
<1>1. /\ save.at = "baking" /\ save'.at = "moving" /\ save'.part = (manifest.part /\ ~ save.part)
      /\ UNCHANGED <<manifest, pending, view, opened, undoStack, redoStack, strayed>>
  BY DEF Bake
<1>2. Part \notin strayed => PartStaged'
  BY <1>1 DEF PartOK, PartStaged, WritesPart
<1> QED
  BY <1>1, <1>2, SavePart

LEMMA ApplyTransformsPart == ASSUME PartOK, ApplyTransforms PROVE PartOK'
<1>1. /\ save.at = "moving" /\ save'.at = "writing" /\ save'.written.part = save.part
      /\ UNCHANGED <<manifest, pending, view, opened, undoStack, redoStack, strayed>>
  BY DEF ApplyTransforms
<1>2. Part \notin strayed => PartStaged'
  BY <1>1 DEF PartOK, PartStaged, WritesPart
<1> QED
  BY <1>1, <1>2, SavePart

LEMMA SavedPart == ASSUME PartOK, Saved PROVE PartOK'
<1>1. /\ save.at = "writing" /\ save'.at = "idle"
      /\ manifest'.part = save.written.part /\ pending'.part = FALSE
      /\ UNCHANGED <<view, opened, undoStack, redoStack, strayed>>
  BY DEF Saved, LeftPendingAfter, Nothing, NotSaving
<1>2. Part \notin strayed => PartStaged'
  BY <1>1 DEF PartOK, PartStaged, WritesPart
<1> QED
  BY <1>1, <1>2, SavePart

LEMMA PartStep == ASSUME DraftTyped, PartOK, [EditsNext]_editVars PROVE PartOK'
<1>1. CASE UNCHANGED editVars
  BY <1>1 DEF editVars, PartOK, PartStacked, PartStaged, WritesPart
<1>2. BeginSave \/ SaveFails => PartOK'
  BY UncopiedPart DEF BeginSave, SaveFails, Copied, NotSaving
<1> QED
  BY <1>1, <1>2, MovePart, RemovePartPart, UndoPart, RedoPart, DropPart, RemoveChildPart,
     ReloadedPart, CopyPart, BakePart, ApplyTransformsPart, SavedPart DEF EditsNext

LEMMA EditsInitPart == ASSUME EditsInit PROVE PartOK
<1>1. PICK cs \in SUBSET Children, p \in Positions :
        manifest = [children |-> cs, part |-> TRUE, pos |-> p]
  BY DEF EditsInit
<1>2. view = manifest /\ opened = manifest /\ undoStack = <<>> /\ redoStack = <<>>
  BY DEF EditsInit
<1>3. manifest.part = TRUE
  BY <1>1
<1>4. pending.part = FALSE /\ save.at = "idle"
  BY DEF EditsInit, Nothing, NotSaving
<1> QED
  BY <1>2, <1>3, <1>4, EmptyHas DEF PartOK, PartStacked, PartStaged, WritesPart

----------------------------------------------------------------------------
WritesPos == IF pending.pos = Nowhere THEN manifest.pos ELSE pending.pos

NodeStaged ==
    Node \notin strayed =>
        /\ view.pos = WritesPos
        /\ save.at = "writing" => save.written.pos = WritesPos

(* The node is at p, and at q after the edit of the entry.                   *)
Moves(e, p, q) == IF e.type = "move" THEN e.before = p /\ e.after = q ELSE p = q

(* The entries of the undo stack lead from p to q, those of the redo stack,  *)
(* undone from the last to the first, lead on from q.                        *)
Leads(f, s, p, q) ==
    /\ f[0] = p /\ f[Len(s)] = q
    /\ \A i \in 1 .. Len(s) : Moves(s[i], f[i - 1], f[i])
Traced(s, p, q) == \E f \in [0 .. Len(s) -> Positions] : Leads(f, s, p, q)

LeadsOn(f, s, q) ==
    /\ f[Len(s)] = q
    /\ \A i \in 1 .. Len(s) : Moves(s[i], f[i], f[i - 1])
TracedOn(s, q) == \E f \in [0 .. Len(s) -> Positions] : LeadsOn(f, s, q)

NodeTraced == Traced(undoStack, opened.pos, view.pos) /\ TracedOn(redoStack, view.pos)

NodeOK == NodeStaged /\ NodeTraced

----------------------------------------------------------------------------
LEMMA TraceAppend ==
    ASSUME NEW s \in Seq(Entry), NEW e \in Entry, NEW p, NEW q, NEW r \in Positions,
           Traced(s, p, q), Moves(e, q, r)
    PROVE  Traced(Append(s, e), p, r)
<1> DEFINE t == Append(s, e)
<1>1. /\ Len(t) = Len(s) + 1 /\ t[Len(s) + 1] = e /\ Len(s) \in Nat
      /\ \A i \in 1 .. Len(s) : t[i] = s[i]
  BY AppendIs
<1> HIDE DEF t
<1>2. PICK f \in [0 .. Len(s) -> Positions] : Leads(f, s, p, q)
  BY DEF Traced
<1> DEFINE g == [i \in 0 .. Len(t) |-> IF i <= Len(s) THEN f[i] ELSE r]
<1>3. g \in [0 .. Len(t) -> Positions]
  <2> SUFFICES ASSUME NEW i \in 0 .. Len(t) PROVE (IF i <= Len(s) THEN f[i] ELSE r) \in Positions
    OBVIOUS
  <2>1. i <= Len(s) => i \in 0 .. Len(s)
    BY <1>1
  <2> QED
    BY <2>1
<1>4. g[0] = f[0] /\ g[Len(t)] = r /\ \A i \in 0 .. Len(s) : g[i] = f[i]
  BY <1>1
<1> HIDE DEF g
<1>5. \A i \in 1 .. Len(t) : Moves(t[i], g[i - 1], g[i])
  <2> SUFFICES ASSUME NEW i \in 1 .. Len(t) PROVE Moves(t[i], g[i - 1], g[i])
    OBVIOUS
  <2>1. CASE i = Len(t)
    <3>1. t[i] = e /\ g[i] = r
      BY <1>1, <1>4, <2>1
    <3>2. i - 1 = Len(s) /\ Len(s) \in 0 .. Len(s)
      BY <1>1, <2>1
    <3>3. g[i - 1] = q
      BY <1>2, <1>4, <3>2 DEF Leads
    <3> QED
      BY <3>1, <3>3
  <2>2. CASE i # Len(t)
    <3>1. i \in 1 .. Len(s) /\ i \in 0 .. Len(s) /\ i - 1 \in 0 .. Len(s)
      BY <1>1, <2>2
    <3>2. t[i] = s[i] /\ g[i - 1] = f[i - 1] /\ g[i] = f[i]
      BY <1>1, <1>4, <3>1
    <3>3. Moves(s[i], f[i - 1], f[i])
      BY <1>2, <3>1 DEF Leads
    <3> QED
      BY <3>2, <3>3
  <2> QED
    BY <2>1, <2>2
<1>6. Leads(g, t, p, r)
  BY <1>2, <1>4, <1>5 DEF Leads
<1>7. Traced(t, p, r)
  BY <1>3, <1>6 DEF Traced
<1> QED
  BY <1>7 DEF t

LEMMA TraceFront ==
    ASSUME NEW s \in Seq(Entry), s # <<>>, NEW p, NEW q, Traced(s, p, q)
    PROVE  \E r \in Positions : Traced(Front(s), p, r) /\ Moves(Last(s), r, q)
<1> DEFINE t == Front(s)
<1>1. /\ Len(s) \in Nat /\ Len(s) >= 1 /\ Len(t) = Len(s) - 1 /\ Last(s) = s[Len(s)]
      /\ \A i \in 1 .. Len(s) - 1 : t[i] = s[i]
  BY FrontIs
<1> HIDE DEF t
<1>2. PICK f \in [0 .. Len(s) -> Positions] : Leads(f, s, p, q)
  BY DEF Traced
<1> DEFINE g == [i \in 0 .. Len(t) |-> f[i]]
<1>3. g \in [0 .. Len(t) -> Positions] /\ \A i \in 0 .. Len(t) : g[i] = f[i]
  <2>1. \A i \in 0 .. Len(t) : i \in 0 .. Len(s)
    BY <1>1
  <2> QED
    BY <2>1
<1> HIDE DEF g
<1>4. 0 \in 0 .. Len(t) /\ Len(t) \in 0 .. Len(t) /\ Len(s) \in 1 .. Len(s)
  BY <1>1
<1>5. \A i \in 1 .. Len(t) : Moves(t[i], g[i - 1], g[i])
  <2> SUFFICES ASSUME NEW i \in 1 .. Len(t) PROVE Moves(t[i], g[i - 1], g[i])
    OBVIOUS
  <2>1. i \in 1 .. Len(s) /\ i \in 1 .. Len(s) - 1 /\ i \in 0 .. Len(t) /\ i - 1 \in 0 .. Len(t)
    BY <1>1
  <2>2. t[i] = s[i] /\ g[i - 1] = f[i - 1] /\ g[i] = f[i]
    BY <1>1, <1>3, <2>1
  <2>3. Moves(s[i], f[i - 1], f[i])
    BY <1>2, <2>1 DEF Leads
  <2> QED
    BY <2>2, <2>3
<1>6. Leads(g, t, p, f[Len(t)])
  BY <1>2, <1>3, <1>4, <1>5 DEF Leads
<1>7. Traced(t, p, f[Len(t)])
  BY <1>3, <1>6 DEF Traced
<1>8. Moves(Last(s), f[Len(t)], q)
  <2>1. Moves(s[Len(s)], f[Len(s) - 1], f[Len(s)])
    BY <1>2, <1>4 DEF Leads
  <2> QED
    BY <1>1, <1>2, <2>1 DEF Leads
<1>9. f[Len(t)] \in Positions
  BY <1>1, <1>4
<1> QED
  BY <1>7, <1>8, <1>9 DEF t

LEMMA TraceTail ==
    ASSUME NEW s \in Seq(Entry), Len(s) >= 1, NEW p, NEW q, Traced(s, p, q)
    PROVE  \E r \in Positions : Traced(Tail(s), r, q) /\ Moves(Head(s), p, r)
<1> DEFINE t == Tail(s)
<1>1. /\ Len(s) \in Nat /\ Len(t) = Len(s) - 1 /\ Head(s) = s[1]
      /\ \A i \in 1 .. Len(s) - 1 : t[i] = s[i + 1]
  BY TailIs, LenProperties
<1> HIDE DEF t
<1>2. PICK f \in [0 .. Len(s) -> Positions] : Leads(f, s, p, q)
  BY DEF Traced
<1> DEFINE g == [i \in 0 .. Len(t) |-> f[i + 1]]
<1>3. g \in [0 .. Len(t) -> Positions] /\ \A i \in 0 .. Len(t) : g[i] = f[i + 1]
  <2>1. \A i \in 0 .. Len(t) : i + 1 \in 0 .. Len(s)
    BY <1>1
  <2> QED
    BY <2>1
<1> HIDE DEF g
<1>4. 0 \in 0 .. Len(t) /\ Len(t) \in 0 .. Len(t) /\ 1 \in 1 .. Len(s) /\ Len(t) + 1 = Len(s) /\ 0 + 1 = 1 /\ 1 - 1 = 0
  BY <1>1
<1>5. \A i \in 1 .. Len(t) : Moves(t[i], g[i - 1], g[i])
  <2> SUFFICES ASSUME NEW i \in 1 .. Len(t) PROVE Moves(t[i], g[i - 1], g[i])
    OBVIOUS
  <2>1. /\ i + 1 \in 1 .. Len(s) /\ i \in 1 .. Len(s) - 1 /\ i \in 0 .. Len(t) /\ i - 1 \in 0 .. Len(t)
        /\ (i + 1) - 1 = i /\ (i - 1) + 1 = i
    BY <1>1
  <2>2. t[i] = s[i + 1] /\ g[i - 1] = f[i] /\ g[i] = f[i + 1]
    BY <1>1, <1>3, <2>1
  <2>3. Moves(s[i + 1], f[i], f[i + 1])
    BY <1>2, <2>1 DEF Leads
  <2> QED
    BY <2>2, <2>3
<1>6. Leads(g, t, f[1], q)
  BY <1>2, <1>3, <1>4, <1>5 DEF Leads
<1>7. Traced(t, f[1], q)
  BY <1>3, <1>6 DEF Traced
<1>8. Moves(Head(s), p, f[1])
  <2>1. Moves(s[1], f[0], f[1])
    BY <1>2, <1>4 DEF Leads
  <2> QED
    BY <1>1, <1>2, <2>1 DEF Leads
<1>9. f[1] \in Positions
  BY <1>1, <1>4
<1> QED
  BY <1>7, <1>8, <1>9 DEF t

LEMMA TraceOnAppend ==
    ASSUME NEW s \in Seq(Entry), NEW e \in Entry, NEW q, NEW r \in Positions,
           TracedOn(s, q), Moves(e, r, q)
    PROVE  TracedOn(Append(s, e), r)
<1> DEFINE t == Append(s, e)
<1>1. /\ Len(t) = Len(s) + 1 /\ t[Len(s) + 1] = e /\ Len(s) \in Nat
      /\ \A i \in 1 .. Len(s) : t[i] = s[i]
  BY AppendIs
<1> HIDE DEF t
<1>2. PICK f \in [0 .. Len(s) -> Positions] : LeadsOn(f, s, q)
  BY DEF TracedOn
<1> DEFINE g == [i \in 0 .. Len(t) |-> IF i <= Len(s) THEN f[i] ELSE r]
<1>3. g \in [0 .. Len(t) -> Positions]
  <2> SUFFICES ASSUME NEW i \in 0 .. Len(t) PROVE (IF i <= Len(s) THEN f[i] ELSE r) \in Positions
    OBVIOUS
  <2>1. i <= Len(s) => i \in 0 .. Len(s)
    BY <1>1
  <2> QED
    BY <2>1
<1>4. g[Len(t)] = r /\ \A i \in 0 .. Len(s) : g[i] = f[i]
  BY <1>1
<1> HIDE DEF g
<1>5. \A i \in 1 .. Len(t) : Moves(t[i], g[i], g[i - 1])
  <2> SUFFICES ASSUME NEW i \in 1 .. Len(t) PROVE Moves(t[i], g[i], g[i - 1])
    OBVIOUS
  <2>1. CASE i = Len(t)
    <3>1. t[i] = e /\ g[i] = r
      BY <1>1, <1>4, <2>1
    <3>2. i - 1 = Len(s) /\ Len(s) \in 0 .. Len(s)
      BY <1>1, <2>1
    <3>3. g[i - 1] = q
      BY <1>2, <1>4, <3>2 DEF LeadsOn
    <3> QED
      BY <3>1, <3>3
  <2>2. CASE i # Len(t)
    <3>1. i \in 1 .. Len(s) /\ i \in 0 .. Len(s) /\ i - 1 \in 0 .. Len(s)
      BY <1>1, <2>2
    <3>2. t[i] = s[i] /\ g[i - 1] = f[i - 1] /\ g[i] = f[i]
      BY <1>1, <1>4, <3>1
    <3>3. Moves(s[i], f[i], f[i - 1])
      BY <1>2, <3>1 DEF LeadsOn
    <3> QED
      BY <3>2, <3>3
  <2> QED
    BY <2>1, <2>2
<1>6. LeadsOn(g, t, r)
  BY <1>4, <1>5 DEF LeadsOn
<1>7. TracedOn(t, r)
  BY <1>3, <1>6 DEF TracedOn
<1> QED
  BY <1>7 DEF t

LEMMA TraceOnFront ==
    ASSUME NEW s \in Seq(Entry), s # <<>>, NEW q, TracedOn(s, q)
    PROVE  \E r \in Positions : TracedOn(Front(s), r) /\ Moves(Last(s), q, r)
<1> DEFINE t == Front(s)
<1>1. /\ Len(s) \in Nat /\ Len(s) >= 1 /\ Len(t) = Len(s) - 1 /\ Last(s) = s[Len(s)]
      /\ \A i \in 1 .. Len(s) - 1 : t[i] = s[i]
  BY FrontIs
<1> HIDE DEF t
<1>2. PICK f \in [0 .. Len(s) -> Positions] : LeadsOn(f, s, q)
  BY DEF TracedOn
<1> DEFINE g == [i \in 0 .. Len(t) |-> f[i]]
<1>3. g \in [0 .. Len(t) -> Positions] /\ \A i \in 0 .. Len(t) : g[i] = f[i]
  <2>1. \A i \in 0 .. Len(t) : i \in 0 .. Len(s)
    BY <1>1
  <2> QED
    BY <2>1
<1> HIDE DEF g
<1>4. Len(t) \in 0 .. Len(t) /\ Len(s) \in 1 .. Len(s)
  BY <1>1
<1>5. \A i \in 1 .. Len(t) : Moves(t[i], g[i], g[i - 1])
  <2> SUFFICES ASSUME NEW i \in 1 .. Len(t) PROVE Moves(t[i], g[i], g[i - 1])
    OBVIOUS
  <2>1. i \in 1 .. Len(s) /\ i \in 1 .. Len(s) - 1 /\ i \in 0 .. Len(t) /\ i - 1 \in 0 .. Len(t)
    BY <1>1
  <2>2. t[i] = s[i] /\ g[i - 1] = f[i - 1] /\ g[i] = f[i]
    BY <1>1, <1>3, <2>1
  <2>3. Moves(s[i], f[i], f[i - 1])
    BY <1>2, <2>1 DEF LeadsOn
  <2> QED
    BY <2>2, <2>3
<1>6. LeadsOn(g, t, f[Len(t)])
  BY <1>3, <1>4, <1>5 DEF LeadsOn
<1>7. TracedOn(t, f[Len(t)])
  BY <1>3, <1>6 DEF TracedOn
<1>8. Moves(Last(s), q, f[Len(t)])
  <2>1. Moves(s[Len(s)], f[Len(s)], f[Len(s) - 1])
    BY <1>2, <1>4 DEF LeadsOn
  <2> QED
    BY <1>1, <1>2, <2>1 DEF LeadsOn
<1>9. f[Len(t)] \in Positions
  BY <1>1, <1>4
<1> QED
  BY <1>7, <1>8, <1>9 DEF t

LEMMA TraceEmpty ==
    ASSUME NEW p \in Positions
    PROVE  Traced(<<>>, p, p) /\ TracedOn(<<>>, p)
<1> DEFINE f == [i \in 0 .. Len(<<>>) |-> p]
<1>1. Len(<<>>) = 0 /\ 0 \in 0 .. 0
  OBVIOUS
<1>2. f \in [0 .. Len(<<>>) -> Positions] /\ f[0] = p
  BY <1>1
<1> HIDE DEF f
<1>3. \A i \in 1 .. Len(<<>>) : FALSE
  BY <1>1
<1>4. Leads(f, <<>>, p, p) /\ LeadsOn(f, <<>>, p)
  BY <1>1, <1>2, <1>3 DEF Leads, LeadsOn
<1> QED
  BY <1>2, <1>4 DEF Traced, TracedOn

(* A move takes the node from one position to another; what else is edited   *)
(* leaves it where it is.                                                    *)
LEMMA AfterPos ==
    ASSUME NEW e \in Entry, NEW v \in Contents, NEW p, NEW q, v.pos = p, Moves(e, p, q)
    PROVE  After(v, e).pos = q
<1>1. CASE e.type = "child"
  <2>1. After(v, e) = [v EXCEPT !.children = @ \ {e.child}]
    BY <1>1 DEF After
  <2>2. After(v, e).pos = v.pos
    BY <2>1 DEF Contents
  <2> QED
    BY <1>1, <2>2 DEF Moves
<1>2. CASE e.type = "part"
  <2>1. After(v, e) = [v EXCEPT !.part = FALSE]
    BY <1>2 DEF After
  <2>2. After(v, e).pos = v.pos
    BY <2>1 DEF Contents
  <2> QED
    BY <1>2, <2>2 DEF Moves
<1>3. CASE e.type = "move"
  <2>1. After(v, e) = [v EXCEPT !.pos = e.after]
    BY <1>3 DEF After
  <2>2. After(v, e).pos = e.after
    BY <2>1 DEF Contents
  <2> QED
    BY <1>3, <2>2 DEF Moves
<1> QED
  BY <1>1, <1>2, <1>3, EntryKinds

LEMMA PushTraced ==
    ASSUME DraftTyped, NodeTraced, NEW e \in Entry, Push(e), view'.pos \in Positions,
           Moves(e, view.pos, view'.pos)
    PROVE  NodeTraced'
<1>1. /\ undoStack \in Seq(Entry) /\ Len(undoStack) \in Nat
      /\ Len(undoStack) = MaxUndo => Head(undoStack) \in Entry
      /\ opened \in Contents
  BY StackLength DEF DraftTyped, ContentsTyped
<1>2. Traced(undoStack, opened.pos, view.pos)
  BY DEF NodeTraced
<1>3. Traced(undoStack', opened'.pos, view'.pos)
  <2>1. CASE Len(undoStack) = MaxUndo
    <3>1. opened' = After(opened, Head(undoStack)) /\ undoStack' = Append(Tail(undoStack), e)
      BY <2>1 DEF Push
    <3>2. Len(undoStack) >= 1
      BY <2>1, UndoBound
    <3>3. PICK r \in Positions : Traced(Tail(undoStack), r, view.pos) /\ Moves(Head(undoStack), opened.pos, r)
      BY <1>1, <1>2, <3>2, TraceTail
    <3>4. opened'.pos = r
      BY <1>1, <2>1, <3>1, <3>3, AfterPos
    <3>5. Tail(undoStack) \in Seq(Entry)
      BY <1>1, <3>2, TailIs
    <3>6. Traced(Append(Tail(undoStack), e), r, view'.pos)
      BY <3>3, <3>5, TraceAppend
    <3> QED
      BY <3>1, <3>4, <3>6
  <2>2. CASE Len(undoStack) # MaxUndo
    <3>1. opened' = opened /\ undoStack' = Append(undoStack, e)
      BY <2>2 DEF Push
    <3>2. Traced(Append(undoStack, e), opened.pos, view'.pos)
      BY <1>1, <1>2, TraceAppend
    <3> QED
      BY <3>1, <3>2
  <2> QED
    BY <2>1, <2>2
<1>4. redoStack' = <<>>
  BY DEF Push
<1>5. TracedOn(redoStack', view'.pos)
  BY <1>4, TraceEmpty
<1> QED
  BY <1>3, <1>5 DEF NodeTraced

LEMMA UndoTraced ==
    ASSUME DraftTyped, NodeTraced, undoStack # <<>>,
           undoStack' = Front(undoStack), redoStack' = Append(redoStack, Last(undoStack)),
           opened' = opened,
           Last(undoStack).type = "move" => view'.pos = Last(undoStack).before,
           Last(undoStack).type # "move" => view'.pos = view.pos
    PROVE  NodeTraced'
<1>1. undoStack \in Seq(Entry) /\ redoStack \in Seq(Entry) /\ Last(undoStack) \in Entry
  BY FrontIs DEF DraftTyped, StacksTyped
<1>2. Traced(undoStack, opened.pos, view.pos) /\ TracedOn(redoStack, view.pos)
  BY DEF NodeTraced
<1>3. PICK r \in Positions :
        Traced(Front(undoStack), opened.pos, r) /\ Moves(Last(undoStack), r, view.pos)
  BY <1>1, <1>2, TraceFront
<1>4. view'.pos = r
  BY <1>3 DEF Moves
<1>5. TracedOn(Append(redoStack, Last(undoStack)), r)
  BY <1>1, <1>2, <1>3, TraceOnAppend
<1> QED
  BY <1>3, <1>4, <1>5 DEF NodeTraced

LEMMA RedoTraced ==
    ASSUME DraftTyped, NodeTraced, redoStack # <<>>,
           redoStack' = Front(redoStack), undoStack' = Append(undoStack, Last(redoStack)),
           opened' = opened,
           Last(redoStack).type = "move" => view'.pos = Last(redoStack).after,
           Last(redoStack).type # "move" => view'.pos = view.pos
    PROVE  NodeTraced'
<1>1. undoStack \in Seq(Entry) /\ redoStack \in Seq(Entry) /\ Last(redoStack) \in Entry
  BY FrontIs DEF DraftTyped, StacksTyped
<1>2. Traced(undoStack, opened.pos, view.pos) /\ TracedOn(redoStack, view.pos)
  BY DEF NodeTraced
<1>3. PICK r \in Positions : TracedOn(Front(redoStack), r) /\ Moves(Last(redoStack), view.pos, r)
  BY <1>1, <1>2, TraceOnFront
<1>4. view'.pos = r
  BY <1>3 DEF Moves
<1>5. Traced(Append(undoStack, Last(redoStack)), opened.pos, r)
  BY <1>1, <1>2, <1>3, TraceAppend
<1> QED
  BY <1>3, <1>4, <1>5 DEF NodeTraced

SameNode ==
    /\ view'.pos = view.pos /\ pending'.pos = pending.pos
    /\ manifest' = manifest /\ save' = save /\ strayed \subseteq strayed'

LEMMA NodeStays == ASSUME NodeStaged, SameNode PROVE NodeStaged'
  BY DEF NodeStaged, SameNode, WritesPos

LEMMA StageNode ==
    ASSUME DraftTyped, NodeStaged, NEW p \in Positions, Stage(p), UNCHANGED <<manifest, save>>
    PROVE  view'.pos = p /\ NodeStaged'
<1>1. view'.pos = p /\ pending'.pos = p
  BY DEF Stage, DraftTyped, ContentsTyped, StagedTyped, Contents, Staging
<1>2. p # Nowhere
  BY UndoBound
<1>3. Node \notin strayed' => save.at # "writing"
  BY DEF Stage, Late, TooLateFor
<1> HIDE DEF Stage
<1>4. NodeStaged'
  BY <1>1, <1>2, <1>3 DEF NodeStaged, WritesPos
<1> QED
  BY <1>1, <1>4

LEMMA PartNode ==
    ASSUME DraftTyped, StageRemoval \/ RestorePart, UNCHANGED <<manifest, save>>
    PROVE  SameNode
<1>1. \E b \in BOOLEAN :
      /\ view' = [view EXCEPT !.part = b] /\ pending' = [pending EXCEPT !.part = ~ b]
      /\ strayed \subseteq strayed'
  BY DEF StageRemoval, RestorePart
<1>2. view'.pos = view.pos /\ pending'.pos = pending.pos
  BY <1>1 DEF DraftTyped, ContentsTyped, StagedTyped, Contents, Staging
<1> QED
  BY <1>1, <1>2 DEF SameNode

LEMMA UnlinkNode ==
    ASSUME DraftTyped, NEW c \in Children, Unlink(c), UNCHANGED <<manifest, save>>
    PROVE  SameNode
<1>1. /\ view' = [view EXCEPT !.children = @ \ {c}]
      /\ pending' \in {[pending EXCEPT !.refs = @ \ {c}], [pending EXCEPT !.removals = @ \cup {c}]}
      /\ strayed \subseteq strayed'
  BY DEF Unlink
<1>2. pending \in Staging /\ view \in Contents
  BY DEF DraftTyped, ContentsTyped, StagedTyped
<1>3. [pending EXCEPT !.refs = @ \ {c}].pos = pending.pos
      /\ [pending EXCEPT !.removals = @ \cup {c}].pos = pending.pos
  BY <1>2 DEF Staging
<1>4. view'.pos = view.pos
  BY <1>1, <1>2 DEF Contents
<1> QED
  BY <1>1, <1>3, <1>4 DEF SameNode

LEMMA ReinsertNode ==
    ASSUME DraftTyped, NEW e \in Entry, e.type = "child", Reinsert(e), UNCHANGED <<manifest, save>>
    PROVE  SameNode
<1>1. /\ view' = view
      /\ pending' \in {[pending EXCEPT !.refs = @ \cup {e.child}], [pending EXCEPT !.removals = @ \ {e.child}]}
      /\ strayed \subseteq strayed'
  BY DEF Reinsert
<1>2. pending \in Staging
  BY DEF DraftTyped, StagedTyped
<1>3. [pending EXCEPT !.refs = @ \cup {e.child}].pos = pending.pos
      /\ [pending EXCEPT !.removals = @ \ {e.child}].pos = pending.pos
  BY <1>2 DEF Staging
<1> QED
  BY <1>1, <1>3 DEF SameNode

LEMMA MoveNode == ASSUME DraftTyped, NodeOK, Move PROVE NodeOK'
<1>1. PICK p \in Positions \ {view.pos} :
        Stage(p) /\ Push([type |-> "move", before |-> view.pos, after |-> p])
  BY DEF Move
<1>2. UNCHANGED <<manifest, inserts, reloads, save>>
  BY DEF Move
<1> DEFINE e == [type |-> "move", before |-> view.pos, after |-> p]
<1>3. e \in Entry
  BY Entries DEF DraftTyped, ContentsTyped, Contents
<1>4. view'.pos = p /\ NodeStaged'
  BY <1>1, <1>2, StageNode DEF NodeOK
<1>5. Moves(e, view.pos, view'.pos)
  BY <1>4 DEF Moves
<1>6. NodeTraced'
  <2>1. Push(e)
    BY <1>1
  <2> HIDE DEF e
  <2> QED
    BY <1>3, <1>4, <1>5, <2>1, PushTraced DEF NodeOK
<1> QED
  BY <1>4, <1>6 DEF NodeOK

LEMMA RemovePartNode == ASSUME DraftTyped, NodeOK, RemovePart PROVE NodeOK'
<1>1. /\ StageRemoval /\ Push([type |-> "part"]) /\ UNCHANGED <<manifest, inserts, reloads, save>>
  BY DEF RemovePart
<1>2. [type |-> "part"] \in Entry
  BY Entries
<1>3. SameNode
  BY <1>1, PartNode
<1>4. Moves([type |-> "part"], view.pos, view'.pos) /\ view'.pos \in Positions
  BY <1>3 DEF Moves, SameNode, DraftTyped, ContentsTyped, Contents
<1> QED
  BY <1>1, <1>2, <1>3, <1>4, NodeStays, PushTraced DEF NodeOK

LEMMA RemoveChildNode == ASSUME DraftTyped, NodeOK, NEW d \in Children, RemoveChild(d) PROVE NodeOK'
<1> DEFINE e == [type |-> "child", child |-> d, fromPending |-> d \in pending.refs]
<1>1. /\ Unlink(d) /\ Push(e) /\ UNCHANGED <<manifest, inserts, save>>
  BY DEF RemoveChild
<1>2. e \in Entry
  <2>1. (d \in pending.refs) \in BOOLEAN
    OBVIOUS
  <2>2. \A b \in BOOLEAN : [type |-> "child", child |-> d, fromPending |-> b] \in Entry
    BY Entries
  <2> QED
    BY <2>1, <2>2
<1>3. e.type # "move"
  OBVIOUS
<1> HIDE DEF e
<1>4. SameNode
  BY <1>1, UnlinkNode
<1>5. Moves(e, view.pos, view'.pos) /\ view'.pos \in Positions
  BY <1>3, <1>4 DEF Moves, SameNode, DraftTyped, ContentsTyped, Contents
<1> QED
  BY <1>1, <1>2, <1>4, <1>5, NodeStays, PushTraced DEF NodeOK

LEMMA UndoNode == ASSUME DraftTyped, NodeOK, Undo PROVE NodeOK'
<1> DEFINE e == Last(undoStack)
<1>1. /\ undoStack # <<>> /\ UndoEdit(e) /\ undoStack' = Front(undoStack)
      /\ redoStack' = Append(redoStack, e) /\ UNCHANGED <<manifest, opened, inserts, save>>
  BY DEF Undo
<1>2. e \in Entry
  BY <1>1, FrontIs DEF DraftTyped, StacksTyped
<1>3. /\ NodeStaged' /\ (e.type = "move" => view'.pos = e.before)
      /\ (e.type # "move" => view'.pos = view.pos)
  <2> HIDE DEF e
  <2>1. CASE e.type = "child"
    <3>1. SameNode
      BY <1>1, <1>2, <2>1, ReinsertNode DEF UndoEdit
    <3> QED
      BY <2>1, <3>1, NodeStays DEF NodeOK, SameNode
  <2>2. CASE e.type = "part"
    <3>1. SameNode
      BY <1>1, <1>2, <2>2, PartNode DEF UndoEdit
    <3> QED
      BY <2>2, <3>1, NodeStays DEF NodeOK, SameNode
  <2>3. CASE e.type = "move"
    <3>1. Stage(e.before) /\ e.before \in Positions
      BY <1>1, <1>2, <2>3, EntryKinds DEF UndoEdit
    <3> QED
      BY <1>1, <2>3, <3>1, StageNode DEF NodeOK
  <2> QED
    BY <1>2, <2>1, <2>2, <2>3, EntryKinds
<1>4. NodeTraced'
  BY <1>1, <1>3, UndoTraced DEF NodeOK
<1> QED
  BY <1>3, <1>4 DEF NodeOK

LEMMA RedoNode == ASSUME DraftTyped, NodeOK, Redo PROVE NodeOK'
<1> DEFINE e == Last(redoStack)
<1>1. /\ redoStack # <<>> /\ RedoEdit(e) /\ redoStack' = Front(redoStack)
      /\ undoStack' = Append(undoStack, e) /\ UNCHANGED <<manifest, opened, inserts, save>>
  BY DEF Redo
<1>2. e \in Entry
  BY <1>1, FrontIs DEF DraftTyped, StacksTyped
<1>3. /\ NodeStaged' /\ (e.type = "move" => view'.pos = e.after)
      /\ (e.type # "move" => view'.pos = view.pos)
  <2> HIDE DEF e
  <2>1. CASE e.type = "child" /\ Linked(e.child)
    <3>1. Unlink(e.child) /\ e.child \in Children
      BY <1>1, <1>2, <2>1, EntryKinds DEF RedoEdit
    <3>2. SameNode
      BY <1>1, <3>1, UnlinkNode
    <3> QED
      BY <2>1, <3>2, NodeStays DEF NodeOK, SameNode
  <2>2. CASE e.type = "child" /\ ~ Linked(e.child)
    <3>1. UNCHANGED <<view, pending>> /\ strayed \subseteq strayed'
      BY <1>1, <2>2 DEF RedoEdit
    <3>2. SameNode
      BY <1>1, <3>1 DEF SameNode
    <3> QED
      BY <2>2, <3>2, NodeStays DEF NodeOK, SameNode
  <2>3. CASE e.type = "part"
    <3>1. SameNode
      BY <1>1, <1>2, <2>3, PartNode DEF RedoEdit
    <3> QED
      BY <2>3, <3>1, NodeStays DEF NodeOK, SameNode
  <2>4. CASE e.type = "move"
    <3>1. Stage(e.after) /\ e.after \in Positions
      BY <1>1, <1>2, <2>4, EntryKinds DEF RedoEdit
    <3> QED
      BY <1>1, <2>4, <3>1, StageNode DEF NodeOK
  <2> QED
    BY <1>2, <2>1, <2>2, <2>3, <2>4, EntryKinds
<1>4. NodeTraced'
  BY <1>1, <1>3, RedoTraced DEF NodeOK
<1> QED
  BY <1>3, <1>4 DEF NodeOK

LEMMA NodeKept ==
    ASSUME NodeOK, NodeStaged', UNCHANGED <<undoStack, redoStack>>,
           view'.pos = view.pos, opened'.pos = opened.pos
    PROVE  NodeOK'
  BY DEF NodeOK, NodeTraced

LEMMA DropNode ==
    ASSUME DraftTyped, NodeOK, NEW d \in Children,
           Drop(d) \/ Inserting(d) \/ Unresolved(d) \/ Inserted(d) \/ InsertFails(d)
    PROVE  NodeOK'
<1>1. /\ UNCHANGED <<manifest, undoStack, redoStack, save>>
      /\ view' \in {view, [view EXCEPT !.children = @ \cup {d}]}
      /\ opened' \in {opened, [opened EXCEPT !.children = @ \cup {d}]}
      /\ pending' \in {pending, [pending EXCEPT !.refs = @ \cup {d}], [pending EXCEPT !.refs = @ \ {d}]}
      /\ strayed \subseteq strayed'
  BY DEF Drop, Inserting, Unresolved, Inserted, InsertFails
<1>2. pending'.pos = pending.pos
  <2>1. pending \in Staging
    BY DEF DraftTyped, StagedTyped
  <2>2. /\ [pending EXCEPT !.refs = @ \cup {d}].pos = pending.pos
        /\ [pending EXCEPT !.refs = @ \ {d}].pos = pending.pos
    BY <2>1 DEF Staging
  <2> QED
    BY <1>1, <2>2
<1>3. view'.pos = view.pos /\ opened'.pos = opened.pos
  <2>1. view \in Contents /\ opened \in Contents
    BY DEF DraftTyped, ContentsTyped
  <2>2. /\ [view EXCEPT !.children = @ \cup {d}].pos = view.pos
        /\ [opened EXCEPT !.children = @ \cup {d}].pos = opened.pos
    BY <2>1 DEF Contents
  <2> QED
    BY <1>1, <2>2
<1>4. NodeStaged'
  BY <1>1, <1>2, <1>3, NodeStays DEF SameNode, NodeOK
<1> QED
  BY <1>1, <1>3, <1>4, NodeKept

LEMMA ReloadedNode ==
    ASSUME DraftTyped, NodeOK, NEW d \in Children, NEW n \in 1 .. 2, Reloaded(d, n) PROVE NodeOK'
<1>1. /\ UNCHANGED <<manifest, pending, opened, undoStack, redoStack, save, strayed>>
      /\ view' \in {[view EXCEPT !.children = @ \ {d}], [view EXCEPT !.children = @ \cup {d}]}
  BY DEF Reloaded
<1>2. view'.pos = view.pos
  <2>1. view \in Contents
    BY DEF DraftTyped, ContentsTyped
  <2>2. /\ [view EXCEPT !.children = @ \ {d}].pos = view.pos
        /\ [view EXCEPT !.children = @ \cup {d}].pos = view.pos
    BY <2>1 DEF Contents
  <2> QED
    BY <1>1, <2>2
<1>3. NodeStaged'
  BY <1>1, <1>2, NodeStays DEF SameNode, NodeOK
<1> QED
  BY <1>1, <1>2, <1>3, NodeKept

(* The steps of a save.                                                      *)
LEMMA UnwrittenNode ==
    ASSUME NodeOK, save'.at # "writing",
           UNCHANGED <<manifest, pending, view, opened, undoStack, redoStack, strayed>>
    PROVE  NodeOK'
<1>1. NodeStaged'
  BY DEF NodeOK, NodeStaged, WritesPos
<1> QED
  BY <1>1, NodeKept

LEMMA ApplyTransformsNode == ASSUME NodeOK, ApplyTransforms PROVE NodeOK'
<1>1. /\ save'.at = "writing" /\ save'.written.pos = WritesPos
      /\ UNCHANGED <<manifest, pending, view, opened, undoStack, redoStack, strayed>>
  BY DEF ApplyTransforms, WritesPos
<1>2. NodeStaged'
  BY <1>1 DEF NodeOK, NodeStaged, WritesPos
<1> QED
  BY <1>1, <1>2, NodeKept

LEMMA SavedNode == ASSUME NodeOK, Saved PROVE NodeOK'
<1>1. /\ save.at = "writing" /\ save'.at = "idle"
      /\ manifest'.pos = save.written.pos /\ pending'.pos = Nowhere
      /\ UNCHANGED <<view, opened, undoStack, redoStack, strayed>>
  BY DEF Saved, LeftPendingAfter, Nothing, NotSaving
<1>2. NodeStaged'
  BY <1>1 DEF NodeOK, NodeStaged, WritesPos
<1> QED
  BY <1>1, <1>2, NodeKept

LEMMA NodeStep == ASSUME DraftTyped, NodeOK, [EditsNext]_editVars PROVE NodeOK'
<1>1. CASE UNCHANGED editVars
  BY <1>1 DEF editVars, NodeOK, NodeTraced, NodeStaged, WritesPos
<1>2. BeginSave \/ SaveFails \/ Copy \/ Bake => NodeOK'
  BY UnwrittenNode DEF BeginSave, SaveFails, Copy, Bake, NotSaving
<1> QED
  BY <1>1, <1>2, MoveNode, RemovePartNode, UndoNode, RedoNode, DropNode, RemoveChildNode,
     ReloadedNode, ApplyTransformsNode, SavedNode DEF EditsNext

LEMMA EditsInitNode == ASSUME EditsInit PROVE NodeOK
<1>1. PICK cs \in SUBSET Children, p \in Positions :
        manifest = [children |-> cs, part |-> TRUE, pos |-> p]
  BY DEF EditsInit
<1>2. view = manifest /\ opened = manifest /\ undoStack = <<>> /\ redoStack = <<>>
  BY DEF EditsInit
<1>3. manifest.pos = p
  BY <1>1
<1>4. pending.pos = Nowhere /\ save.at = "idle"
  BY DEF EditsInit, Nothing, NotSaving
<1>5. NodeTraced
  BY <1>2, <1>3, TraceEmpty DEF NodeTraced
<1> QED
  BY <1>2, <1>4, <1>5 DEF NodeOK, NodeStaged, WritesPos

----------------------------------------------------------------------------
(* What holds of every child, of the part and of the node at every step of   *)
(* the editing, undoing and saving in DraftEdits.                            *)
EditsInv == DraftTyped /\ (\A c \in Children : ChildOK(c)) /\ PartOK /\ NodeOK

(* An edit, an undo, a reload that ends or a save that goes on disturbs none *)
(* of it: what strays is said so by the step that makes it stray.            *)
THEOREM EditsInvariant == EditsSpec => []EditsInv
<1>1. EditsInit => EditsInv
  BY EditsInitTyped, EditsInitChild, EditsInitPart, EditsInitNode DEF EditsInv
<1>2. EditsInv /\ [EditsNext]_editVars => EditsInv'
  <2> SUFFICES ASSUME EditsInv, [EditsNext]_editVars PROVE EditsInv'
    OBVIOUS
  <2>1. DraftTyped' /\ PartOK' /\ NodeOK'
    BY EditsTypedStep, PartStep, NodeStep DEF EditsInv
  <2>2. \A c \in Children : ChildOK(c)'
    BY ChildStep DEF EditsInv
  <2> QED
    BY <2>1, <2>2 DEF EditsInv
<1> QED
  BY <1>1, <1>2, PTL DEF EditsSpec

(* The shapes of the staged edits (scene-loader.ts, undo-stack.ts): no child *)
(* is staged as inserted and as removed, only a reload that is under way is  *)
(* watched or tracked, and the two stacks together keep MAX_UNDO.            *)
THEOREM EditsTyped == EditsSpec => []EditsTypeOK
<1>1. EditsInv => EditsTypeOK
  <2> SUFFICES ASSUME EditsInv PROVE EditsTypeOK
    OBVIOUS
  <2>1. pending.refs \cap pending.removals \subseteq strayed
    <3> SUFFICES ASSUME NEW c \in pending.refs \cap pending.removals, c \notin strayed PROVE FALSE
      OBVIOUS
    <3>1. c \in Children
      BY DEF EditsInv, DraftTyped, StagedTyped, Staging
    <3>2. Staged(c)
      BY <3>1 DEF EditsInv, ChildOK
    <3> QED
      BY <3>2 DEF Staged
  <2>2. pending \in [refs : SUBSET Children, removals : SUBSET Children,
                    part : BOOLEAN, pos : Positions \cup {Nowhere}]
    BY DEF EditsInv, DraftTyped, StagedTyped, Staging
  <2>3. /\ reloads \in [Children -> [flying : SUBSET (1 .. 2), watched : SUBSET (1 .. 2), tracked : 0 .. 2]]
        /\ inserts \in [Children -> {"not yet", "resolving", "loading", "over"}]
        /\ \A c \in Children : reloads[c].watched \cup ({reloads[c].tracked} \ {0}) \subseteq reloads[c].flying
    BY DEF EditsInv, DraftTyped, LoadsTyped, Reloading
  <2> QED
    BY <2>1, <2>2, <2>3 DEF EditsTypeOK, EditsInv, DraftTyped, ContentsTyped, StacksTyped
<1> QED
  BY <1>1, EditsInvariant, PTL

(* What the viewport shows is what the next save would write                 *)
(* (manifest-builder.ts), however edits, undos, reloads and an earlier save  *)
(* interleave.                                                               *)
THEOREM ViewIsSaved == EditsSpec => []ViewIsWhatASaveWrites
<1>1. EditsInv => ViewIsWhatASaveWrites
  <2> SUFFICES ASSUME EditsInv PROVE Agree(view, WouldWrite)
    BY DEF ViewIsWhatASaveWrites
  <2>1. ASSUME NEW c \in Children \ strayed, Settled(c)
        PROVE  c \in view.children <=> c \in WouldWrite.children
    <3>1. Shown(c)
      BY DEF EditsInv, ChildOK
    <3>2. c \in WouldWrite.children <=> Writes(c)
      BY DEF WouldWrite, Writes
    <3> QED
      BY <2>1, <3>1, <3>2 DEF Shown
  <2>2. ASSUME Part \notin strayed PROVE view.part = WouldWrite.part
    <3>1. view.part <=> WritesPart
      BY <2>2 DEF EditsInv, PartOK, PartStaged
    <3>2. view.part \in BOOLEAN
      BY DEF EditsInv, DraftTyped, ContentsTyped, Contents
    <3>3. WouldWrite.part = WritesPart /\ WritesPart \in BOOLEAN
      BY DEF WouldWrite, WritesPart
    <3> QED
      BY <3>1, <3>2, <3>3
  <2>3. ASSUME Node \notin strayed PROVE view.pos = WouldWrite.pos
    BY <2>3 DEF EditsInv, NodeOK, NodeStaged, WritesPos, WouldWrite
  <2> QED
    BY <2>1, <2>2, <2>3 DEF Agree
<1> QED
  BY <1>1, EditsInvariant, PTL

----------------------------------------------------------------------------
(* Undoing every entry: what the view then shows, entry by entry.            *)
IsUndone(u, s, v) ==
    u = [k \in 0 .. Len(s) |-> IF k = Len(s) THEN v ELSE Before(u[k + 1], s[k + 1])]

(* An entry of the kind lies above the k-th.                                 *)
Above(s, k, E) == \E j \in (k + 1) .. Len(s) : s[j] \in E

UndoneTo(s, v, f, k) ==
    [children |-> {c \in Children : c \in v.children \/ Above(s, k, OfChild(c))},
     part |-> v.part \/ Above(s, k, OfPart),
     pos |-> f[k]]

LEMMA AboveIs ==
    ASSUME NEW s \in Seq(Entry), NEW E
    PROVE  /\ ~ Above(s, Len(s), E)
           /\ Above(s, 0, E) <=> Has(s, E)
           /\ \A k \in 0 .. Len(s) - 1 : Above(s, k, E) <=> Above(s, k + 1, E) \/ s[k + 1] \in E
<1>1. Len(s) \in Nat
  BY LenProperties
<1>2. ~ Above(s, Len(s), E)
  BY <1>1 DEF Above
<1>3. Above(s, 0, E) <=> Has(s, E)
  BY <1>1 DEF Above, Has
<1>4. ASSUME NEW k \in 0 .. Len(s) - 1
      PROVE  Above(s, k, E) <=> Above(s, k + 1, E) \/ s[k + 1] \in E
  <2>1. (k + 1) .. Len(s) = {k + 1} \cup ((k + 1) + 1) .. Len(s)
    BY <1>1
  <2> QED
    BY <2>1 DEF Above
<1> QED
  BY <1>2, <1>3, <1>4

LEMMA SameContents ==
    ASSUME NEW v \in Contents, NEW w \in Contents,
           v.children = w.children, v.part = w.part, v.pos = w.pos
    PROVE  v = w
  BY DEF Contents

LEMMA UndoneStep ==
    ASSUME NEW s \in Seq(Entry), NEW v \in Contents, NEW p, NEW f \in [0 .. Len(s) -> Positions],
           Leads(f, s, p, v.pos)
    PROVE  /\ UndoneTo(s, v, f, Len(s)) = v
           /\ \A k \in 0 .. Len(s) - 1 :
                UndoneTo(s, v, f, k) = Before(UndoneTo(s, v, f, k + 1), s[k + 1])
<1>1. Len(s) \in Nat /\ \A k \in 0 .. Len(s) - 1 : k + 1 \in 1 .. Len(s)
  BY LenProperties
<1>2. v.children \subseteq Children /\ v.part \in BOOLEAN /\ v.pos \in Positions
  BY DEF Contents
<1>3. ASSUME NEW k \in 0 .. Len(s)
      PROVE  UndoneTo(s, v, f, k) \in Contents
             /\ UndoneTo(s, v, f, k).children = {c \in Children : c \in v.children \/ Above(s, k, OfChild(c))}
             /\ UndoneTo(s, v, f, k).part = (v.part \/ Above(s, k, OfPart))
             /\ UndoneTo(s, v, f, k).pos = f[k]
  BY DEF UndoneTo, Contents
<1>4. UndoneTo(s, v, f, Len(s)) = v
  <2>1. Len(s) \in 0 .. Len(s)
    BY <1>1
  <2>2. {c \in Children : c \in v.children \/ Above(s, Len(s), OfChild(c))} = v.children
    BY <1>2, AboveIs
  <2>3. (v.part \/ Above(s, Len(s), OfPart)) = v.part
    BY <1>2, AboveIs
  <2>4. f[Len(s)] = v.pos
    BY DEF Leads
  <2> QED
    BY <1>3, <2>1, <2>2, <2>3, <2>4, SameContents
<1>5. ASSUME NEW k \in 0 .. Len(s) - 1
      PROVE  UndoneTo(s, v, f, k) = Before(UndoneTo(s, v, f, k + 1), s[k + 1])
  <2> DEFINE e == s[k + 1]
             u == UndoneTo(s, v, f, k + 1)
             w == UndoneTo(s, v, f, k)
  <2>1. e \in Entry /\ k \in 0 .. Len(s) /\ k + 1 \in 0 .. Len(s) /\ k + 1 \in 1 .. Len(s)
        /\ (k + 1) - 1 = k
    BY <1>1, ElementOfSeq
  <2>2. Moves(e, f[k], f[k + 1])
    BY <2>1 DEF Leads
  <2>3. w \in Contents /\ u \in Contents /\ w.pos = f[k] /\ u.pos = f[k + 1]
    BY <1>3, <2>1
  <2>4. \A c \in Children : c \in w.children <=> c \in u.children \/ e \in OfChild(c)
    BY <1>3, <2>1, AboveIs
  <2>5. w.part = (u.part \/ e \in OfPart)
    <3>1. Above(s, k, OfPart) <=> Above(s, k + 1, OfPart) \/ e \in OfPart
      BY AboveIs
    <3>2. w.part = (v.part \/ Above(s, k, OfPart)) /\ u.part = (v.part \/ Above(s, k + 1, OfPart))
      BY <1>3, <2>1
    <3> QED
      BY <3>1, <3>2
  <2> HIDE DEF e, u, w
  <2>6. w.children \subseteq Children /\ u.children \subseteq Children
        /\ w.part \in BOOLEAN /\ u.part \in BOOLEAN
    BY <2>3 DEF Contents
  <2>7. CASE e.type = "child"
    <3>1. Before(u, e) = [u EXCEPT !.children = @ \cup {e.child}] /\ e.child \in Children
      BY <2>1, <2>7, EntryKinds DEF Before
    <3>2. /\ Before(u, e) \in Contents
          /\ Before(u, e).children = u.children \cup {e.child}
          /\ Before(u, e).part = u.part /\ Before(u, e).pos = u.pos
      BY <2>3, <3>1 DEF Contents
    <3>3. w.children = u.children \cup {e.child}
      BY <2>1, <2>4, <2>6, <2>7, <3>1, OtherEntry, OwnEntry
    <3>4. w.part = u.part
      <4>1. e \notin OfPart
        BY <2>1, <2>7, PartEntry
      <4> QED
        BY <2>5, <2>6, <4>1
    <3>5. w.pos = u.pos
      BY <2>2, <2>3, <2>7 DEF Moves
    <3> QED
      BY <2>3, <3>2, <3>3, <3>4, <3>5, SameContents DEF e, u, w
  <2>8. CASE e.type = "part"
    <3>1. Before(u, e) = [u EXCEPT !.part = TRUE]
      BY <2>8 DEF Before
    <3>2. /\ Before(u, e) \in Contents /\ Before(u, e).children = u.children
          /\ Before(u, e).part = TRUE /\ Before(u, e).pos = u.pos
      BY <2>3, <3>1 DEF Contents
    <3>3. w.children = u.children
      BY <2>1, <2>4, <2>6, <2>8, OtherEntry
    <3>4. w.part = TRUE
      <4>1. e \in OfPart
        BY <2>1, <2>8, PartEntry
      <4> QED
        BY <2>5, <4>1
    <3>5. w.pos = u.pos
      BY <2>2, <2>3, <2>8 DEF Moves
    <3> QED
      BY <2>3, <3>2, <3>3, <3>4, <3>5, SameContents DEF e, u, w
  <2>9. CASE e.type = "move"
    <3>1. Before(u, e) = [u EXCEPT !.pos = e.before] /\ e.before \in Positions
      BY <2>1, <2>9, EntryKinds DEF Before
    <3>2. /\ Before(u, e) \in Contents /\ Before(u, e).children = u.children
          /\ Before(u, e).part = u.part /\ Before(u, e).pos = e.before
      BY <2>3, <3>1 DEF Contents
    <3>3. w.children = u.children
      BY <2>1, <2>4, <2>6, <2>9, OtherEntry
    <3>4. w.part = u.part
      <4>1. e \notin OfPart
        BY <2>1, <2>9, PartEntry
      <4> QED
        BY <2>5, <2>6, <4>1
    <3>5. w.pos = e.before
      BY <2>2, <2>3, <2>9 DEF Moves
    <3> QED
      BY <2>3, <3>2, <3>3, <3>4, <3>5, SameContents DEF e, u, w
  <2> QED
    BY <2>1, <2>7, <2>8, <2>9, EntryKinds
<1> QED
  BY <1>4, <1>5

LEMMA UndoneIs ==
    ASSUME NEW s \in Seq(Entry), NEW v \in Contents, NEW p, NEW f \in [0 .. Len(s) -> Positions],
           Leads(f, s, p, v.pos)
    PROVE  /\ \E u : IsUndone(u, s, v)
           /\ \A u : IsUndone(u, s, v) => u[0] = UndoneTo(s, v, f, 0)
<1>1. Len(s) \in Nat
  BY LenProperties
<1> DEFINE w == [k \in 0 .. Len(s) |-> UndoneTo(s, v, f, k)]
<1>2. w[Len(s)] = v /\ \A k \in 0 .. Len(s) - 1 : w[k] = Before(w[k + 1], s[k + 1])
  <2>1. Len(s) \in 0 .. Len(s) /\ \A k \in 0 .. Len(s) - 1 : k \in 0 .. Len(s) /\ k + 1 \in 0 .. Len(s)
    BY <1>1
  <2>2. \A k \in 0 .. Len(s) : w[k] = UndoneTo(s, v, f, k)
    OBVIOUS
  <2> HIDE DEF w
  <2>3. UndoneTo(s, v, f, Len(s)) = v
    BY UndoneStep
  <2>4. ASSUME NEW k \in 0 .. Len(s) - 1 PROVE w[k] = Before(w[k + 1], s[k + 1])
    <3>1. UndoneTo(s, v, f, k) = Before(UndoneTo(s, v, f, k + 1), s[k + 1])
      BY UndoneStep
    <3>2. w[k] = UndoneTo(s, v, f, k) /\ w[k + 1] = UndoneTo(s, v, f, k + 1)
      BY <2>1, <2>2
    <3> QED
      BY <3>1, <3>2
  <2> QED
    BY <2>1, <2>2, <2>3, <2>4
<1>3. w = [k \in 0 .. Len(s) |-> w[k]] /\ w[0] = UndoneTo(s, v, f, 0)
  BY <1>1
<1> HIDE DEF w
<1>4. IsUndone(w, s, v)
  <2>1. \A k \in 0 .. Len(s) : w[k] = IF k = Len(s) THEN v ELSE Before(w[k + 1], s[k + 1])
    <3> SUFFICES ASSUME NEW k \in 0 .. Len(s)
                 PROVE  w[k] = IF k = Len(s) THEN v ELSE Before(w[k + 1], s[k + 1])
      OBVIOUS
    <3>1. CASE k = Len(s)
      BY <1>2, <3>1
    <3>2. CASE k # Len(s)
      <4>1. k \in 0 .. Len(s) - 1
        BY <1>1, <3>2
      <4> QED
        BY <1>2, <3>2, <4>1
    <3> QED
      BY <3>1, <3>2
  <2>2. [k \in 0 .. Len(s) |-> w[k]]
          = [k \in 0 .. Len(s) |-> IF k = Len(s) THEN v ELSE Before(w[k + 1], s[k + 1])]
    BY <2>1
  <2> QED
    BY <1>3, <2>2 DEF IsUndone
<1>5. ASSUME NEW u, IsUndone(u, s, v) PROVE u[0] = w[0]
  <2>1. \A k \in 0 .. Len(s) : u[k] = IF k = Len(s) THEN v ELSE Before(u[k + 1], s[k + 1])
    BY <1>5 DEF IsUndone
  <2>2. u[Len(s)] = v /\ \A k \in 0 .. Len(s) - 1 : u[k] = Before(u[k + 1], s[k + 1])
    <3>1. Len(s) \in 0 .. Len(s) /\ \A k \in 0 .. Len(s) - 1 : k \in 0 .. Len(s) /\ k # Len(s)
      BY <1>1
    <3> QED
      BY <2>1, <3>1, Zenon
  <2> HIDE <2>1
  <2> DEFINE bad == {m \in 0 .. Len(s) : u[Len(s) - m] # w[Len(s) - m]}
  <2>3. ASSUME bad # {} PROVE FALSE
    <3>1. bad \subseteq Nat
      BY <1>1
    <3>2. PICK m \in bad : \A k \in bad : m <= k
      BY <2>3, <3>1, Minimal
    <3>3. m # 0
      BY <1>1, <1>2, <2>2, <3>2
    <3>4. m - 1 \in 0 .. Len(s) /\ m - 1 \notin bad /\ Len(s) - m \in 0 .. Len(s) - 1
          /\ (Len(s) - m) + 1 = Len(s) - (m - 1)
      BY <1>1, <3>2, <3>3
    <3>5. u[(Len(s) - m) + 1] = w[(Len(s) - m) + 1]
      BY <3>4
    <3>6. u[Len(s) - m] = w[Len(s) - m]
      BY <1>2, <2>2, <3>4, <3>5
    <3> QED
      BY <3>2, <3>6
  <2>4. Len(s) \in 0 .. Len(s) /\ Len(s) - Len(s) = 0
    BY <1>1
  <2> QED
    BY <2>3, <2>4
<1> QED
  BY <1>3, <1>4, <1>5

(* Undoing every entry of the stack (undo-stack.ts) leads to the view before *)
(* the oldest of them, over saves, redone edits and entries pushed out.      *)
THEOREM UndoingLeadsBack == EditsSpec => []UndoLeadsBack
<1>1. EditsInv => UndoLeadsBack
  <2> SUFFICES ASSUME EditsInv PROVE UndoLeadsBack
    OBVIOUS
  <2> DEFINE n == Len(undoStack)
             Is(u) == u = [k \in 0 .. n |-> IF k = n THEN view ELSE Before(u[k + 1], undoStack[k + 1])]
             undone == CHOOSE u : Is(u)
  <2>1. UndoLeadsBack <=> Agree(undone[0], opened)
    BY DEF UndoLeadsBack
  <2>2. undoStack \in Seq(Entry) /\ view \in Contents /\ opened \in Contents
    BY DEF EditsInv, DraftTyped, StacksTyped, ContentsTyped
  <2>3. PICK f \in [0 .. Len(undoStack) -> Positions] : Leads(f, undoStack, opened.pos, view.pos)
    BY DEF EditsInv, NodeOK, NodeTraced, Traced
  <2>4. \A u : IsUndone(u, undoStack, view) <=> Is(u)
    BY DEF IsUndone
  <2>5. (\E u : Is(u)) /\ \A u : Is(u) => u[0] = UndoneTo(undoStack, view, f, 0)
    BY <2>2, <2>3, <2>4, UndoneIs
  <2>6. Is(undone)
    <3> HIDE DEF Is
    <3> QED
      BY <2>5
  <2>7. undone[0] = UndoneTo(undoStack, view, f, 0)
    BY <2>5, <2>6
  <2> HIDE DEF undone, Is
  <2> DEFINE w == UndoneTo(undoStack, view, f, 0)
  <2>8. /\ \A c \in Children : c \in w.children <=> c \in view.children \/ Has(undoStack, OfChild(c))
        /\ w.part = (view.part \/ Has(undoStack, OfPart))
        /\ w.pos = opened.pos
    <3>1. \A E : Above(undoStack, 0, E) <=> Has(undoStack, E)
      BY <2>2, AboveIs
    <3> QED
      BY <2>3, <3>1 DEF UndoneTo, Leads
  <2> HIDE DEF w
  <2>9. ASSUME NEW c \in Children \ strayed, Settled(c)
        PROVE  c \in w.children <=> c \in opened.children
    <3>1. ChildOK(c)
      BY DEF EditsInv
    <3>2. CASE inserts[c] = "over"
      <4>1. Shown(c) /\ ChildStacked(c)
        BY <3>1 DEF ChildOK
      <4> QED
        BY <2>8, <2>9, <3>2, <4>1 DEF Shown, ChildStacked
    <3>3. CASE inserts[c] # "over"
      BY <2>8, <3>1, <3>3 DEF ChildOK, NotShown
    <3> QED
      BY <3>2, <3>3
  <2>10. w.part = opened.part
    <3>1. opened.part <=> view.part \/ Has(undoStack, OfPart)
      BY DEF EditsInv, PartOK, PartStacked
    <3>2. opened.part \in BOOLEAN
      BY <2>2 DEF Contents
    <3> QED
      BY <2>8, <3>1, <3>2
  <2>11. Agree(w, opened)
    BY <2>8, <2>9, <2>10 DEF Agree
  <2> QED
    BY <2>1, <2>7, <2>11 DEF w
<1> QED
  BY <1>1, EditsInvariant, PTL

=============================================================================
