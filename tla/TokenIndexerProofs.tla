------------------------- MODULE TokenIndexerProofs -------------------------
(***************************************************************************)
(* Proofs about TokenIndexer: everything keeps its type, the two editor    *)
(* maps mirror each other, and an index at the tip of the chain has the    *)
(* chain's owners and, but for the lists it could not read, its Editors.   *)
(*                                                                         *)
(* The inductive invariant says of an index what it has seen: up to the    *)
(* block it has scanned, who held each token after the last move, and that *)
(* a list it holds is the chain's unless the set changed in a later block  *)
(* or its refresh is still to come or has failed.                          *)
(***************************************************************************)
EXTENDS TokenIndexer, SequenceTheorems, WellFoundedInduction, TLAPS

(* The least and the greatest of numbers.                                  *)
LEMMA MinOfTwo ==
    ASSUME NEW a \in Nat, NEW b \in Nat
    PROVE  /\ Min({a, b}) \in {a, b} /\ Min({a, b}) \in Nat
           /\ Min({a, b}) <= a /\ Min({a, b}) <= b
<1>1. \E x \in {a, b} : \A y \in {a, b} : x <= y
  OBVIOUS
<1>2. Min({a, b}) \in {a, b} /\ \A y \in {a, b} : Min({a, b}) <= y
  BY <1>1 DEF Min
<1> QED
  BY <1>2

LEMMA MaxOfTwo ==
    ASSUME NEW a \in Nat, NEW b \in Nat
    PROVE  Max({a, b}) \in {a, b} /\ Max({a, b}) \in Nat /\ a <= Max({a, b}) /\ b <= Max({a, b})
<1>1. \E x \in {a, b} : \A y \in {a, b} : x >= y
  OBVIOUS
<1>2. Max({a, b}) \in {a, b} /\ \A y \in {a, b} : Max({a, b}) >= y
  BY <1>1 DEF Max
<1> QED
  BY <1>2

LEMMA Minimal ==
    ASSUME NEW T, T \subseteq Nat, T # {}
    PROVE  \E n \in T : \A m \in T : n <= m
<1>1. PICK x \in T : \A y \in T : ~(<<y, x>> \in OpToRel(<, Nat))
  BY NatLessThanWellFounded, WFMin
<1>2. \A y \in T : ~(y < x)
  BY <1>1 DEF OpToRel
<1> QED
  BY <1>2

(* The least bound of a set of blocks is its greatest member.              *)
LEMMA LastBlock ==
    ASSUME NEW n \in Nat, NEW S, S \subseteq 1 .. n, S # {}
    PROVE  Max(S) \in S /\ \A y \in S : y <= Max(S)
<1> DEFINE bounds == {k \in Nat : \A x \in S : x <= k}
<1>1. n \in bounds /\ bounds \subseteq Nat
  OBVIOUS
<1>2. PICK k \in bounds : \A l \in bounds : k <= l
  BY <1>1, Minimal
<1>3. k \in S
  <2> SUFFICES ASSUME k \notin S PROVE FALSE
    OBVIOUS
  <2>1. \A x \in S : x \in Nat /\ x >= 1 /\ x <= k /\ x # k
    BY <1>2
  <2>2. k >= 1 /\ k \in Nat
    <3>1. PICK x : x \in S
      OBVIOUS
    <3>2. k \in Nat /\ x \in Nat /\ x >= 1 /\ x <= k
      BY <1>2, <2>1, <3>1
    <3> QED
      BY <3>2
  <2>3. k - 1 \in bounds
    BY <2>1, <2>2
  <2> QED
    BY <1>2, <2>2, <2>3
<1>4. \E x \in S : \A y \in S : x >= y
  <2>1. \A y \in S : y <= k /\ y \in Nat /\ k \in Nat
    BY <1>2
  <2> QED
    BY <1>3, <2>1
<1>5. Max(S) \in S /\ \A y \in S : Max(S) >= y
  BY <1>4 DEF Max
<1>6. \A y \in S : y \in Int
  OBVIOUS
<1> QED
  BY <1>5, <1>6

LEMMA ChunkTyped ==
    ASSUME TypeOK
    PROVE  /\ Wider \in 1 .. Ceiling
           /\ chunk > 1 => \A cap \in (1 .. Ceiling) \cup {None} : Shrunk(cap) \in 1 .. Ceiling
<1>0. chunk \in 1 .. Ceiling /\ Ceiling \in Nat \ {0} /\ None \notin Nat
  BY ConstantsAssumption DEF TypeOK
<1>1. Wider \in 1 .. Ceiling
  <2>1. Wider \in {Ceiling, 2 * chunk} /\ Wider \in Nat /\ Wider <= Ceiling
    BY <1>0, MinOfTwo DEF Wider
  <2> QED
    BY <1>0, <2>1
<1>2. ASSUME chunk > 1, NEW cap \in (1 .. Ceiling) \cup {None} PROVE Shrunk(cap) \in 1 .. Ceiling
  <2>1. chunk \div 2 \in Nat /\ chunk \div 2 <= chunk
    BY <1>0
  <2>2. Max({1, chunk \div 2}) \in 1 .. Ceiling
    <3>1. Max({1, chunk \div 2}) \in {1, chunk \div 2} /\ 1 <= Max({1, chunk \div 2})
      BY <2>1, MaxOfTwo
    <3> QED
      BY <1>0, <2>1, <3>1
  <2>3. cap # None => Max({1, cap}) \in 1 .. Ceiling
    <3> SUFFICES ASSUME cap # None PROVE Max({1, cap}) \in 1 .. Ceiling
      OBVIOUS
    <3>1. cap \in Nat /\ cap <= Ceiling
      BY <1>0
    <3>2. Max({1, cap}) \in {1, cap} /\ 1 <= Max({1, cap}) /\ Max({1, cap}) \in Nat
      BY <3>1, MaxOfTwo
    <3> QED
      BY <1>0, <3>1, <3>2
  <2> QED
    BY <2>2, <2>3 DEF Shrunk
<1> QED
  BY <1>1, <1>2

---------------------------------------------------------------------------
(* What the events L of a chain say of a token, whose holder is h and whose  *)
(* Editors are eds.                                                          *)
EditedAt(L, t, b) == L[b].token = t /\ L[b].edited
BurntAt(L, t, b) == L[b].token = t /\ L[b].to = Zero
MovedAt(L, t, b) == L[b].token = t /\ L[b].to # None

(* Nothing after block s sets the Editors.                                 *)
Settled(L, t, s) == \A b \in DOMAIN L : b > s => ~EditedAt(L, t, b) /\ ~BurntAt(L, t, b)

(* Block s leaves the token with h.                                        *)
HeldAfter(L, t, s, h) ==
    \/ h = None /\ \A b \in DOMAIN L : b <= s => ~MovedAt(L, t, b)
    \/ \E m \in DOMAIN L :
          /\ m <= s /\ MovedAt(L, t, m) /\ h = L[m].to
          /\ \A n \in DOMAIN L : n <= s /\ MovedAt(L, t, n) => n <= m

(* Nobody edits a token that is not held, and a burnt one was not edited     *)
(* since.                                                                    *)
ChainOK(L, t, h, eds) ==
    /\ HeldAfter(L, t, Len(L), h)
    /\ h \notin Wallet => eds = {}
    /\ Settled(L, t, 0) => eds = {}
    /\ \A b \in DOMAIN L :
          BurntAt(L, t, b) /\ (\A c \in DOMAIN L : c > b => ~EditedAt(L, t, c)) => eds = {}
    /\ h = Zero =>
          \A b \in DOMAIN L : EditedAt(L, t, b) => \E c \in DOMAIN L : c > b /\ BurntAt(L, t, c)

(* An index ix has the holders as of the last block it scanned, and the       *)
(* Editors of now where nothing set them since, but for the tokens whose list *)
(* it has still to read, or could not; a burnt token has none in any case.    *)
Covered(L, t, h, eds, ix) ==
    /\ HeldAfter(L, t, ix.scanned, ix.owner[t])
    /\ \A w \in Wallet : t \in ix.shared[w] <=> w \in ix.editors[t]
    /\ h = Zero /\ Settled(L, t, ix.scanned) => ix.editors[t] = {}

IndexOK(L, own, eds, ix, pending) ==
    /\ ix.scanned <= Len(L)
    /\ \A t \in Token :
          /\ Covered(L, t, own[t], eds[t], ix)
          /\ t \notin ix.missed \cup pending =>
                (Settled(L, t, ix.scanned) => ix.editors[t] = eds[t])

Pending ==
    CASE job.step = "refresh" -> job.left
      [] job.step = "list"    -> job.left \cup {job.token}
      [] OTHER                -> {}

JobOK ==
    /\ job.step = "fetch" =>
          /\ job.from \in {index.scanned, index.scanned + 1}
          /\ job.from <= job.latest /\ job.latest <= Len(log)
    /\ job.step \in {"refresh", "list"} =>
          job.to = index.scanned /\ job.to <= job.latest /\ job.latest <= Len(log)
    /\ job.step = "list" =>
          (Settled(log, job.token, index.scanned) => job.list = editors[job.token])

IInv ==
    /\ TypeOK
    /\ \A t \in Token : ChainOK(log, t, owner[t], editors[t])
    /\ IndexOK(log, owner, editors, index, Pending)
    /\ IndexOK(log, owner, editors, file, {})
    /\ JobOK

---------------------------------------------------------------------------
(* A block more.                                                           *)

(* The four calls, by what they have in common.                            *)
Call(t, e, h, eds, h1, eds1) ==
    /\ e \in Event /\ e.token = t
    /\ h1 = IF e.to = None THEN h ELSE e.to
    /\ h1 \notin Wallet => eds1 = {}
    /\ h1 = Zero => e.to = Zero
    /\ e.to = Zero => eds1 = {} /\ ~e.edited
    /\ ~e.edited => e.to = Zero \/ (e.to \in Wallet /\ eds1 = eds)

LEMMA LongerLog ==
    ASSUME NEW L \in Seq(Event), NEW e \in Event
    PROVE  LET M == Append(L, e) IN
           /\ M \in Seq(Event) /\ Len(M) = Len(L) + 1 /\ Len(L) \in Nat
           /\ DOMAIN L = 1 .. Len(L) /\ DOMAIN M = 1 .. (Len(L) + 1)
           /\ \A b \in DOMAIN L : M[b] = L[b]
           /\ M[Len(L) + 1] = e
  BY AppendProperties, LenProperties

LEMMA SettledLonger ==
    ASSUME NEW L \in Seq(Event), NEW e \in Event, NEW x \in Token, NEW s \in Nat, s <= Len(L)
    PROVE  /\ Settled(Append(L, e), x, s) => Settled(L, x, s)
           /\ Settled(Append(L, e), x, s) => ~(e.token = x /\ (e.edited \/ e.to = Zero))
<1> DEFINE M == Append(L, e)
<1>1. /\ Len(L) \in Nat /\ DOMAIN L = 1 .. Len(L) /\ DOMAIN M = 1 .. (Len(L) + 1)
      /\ \A b \in DOMAIN L : M[b] = L[b]
      /\ M[Len(L) + 1] = e
  BY LongerLog
<1> HIDE DEF M
<1>2. ASSUME Settled(M, x, s) PROVE Settled(L, x, s)
  BY <1>1, <1>2 DEF Settled, EditedAt, BurntAt
<1>3. ASSUME Settled(M, x, s) PROVE ~(e.token = x /\ (e.edited \/ e.to = Zero))
  <2>1. Len(L) + 1 \in DOMAIN M /\ Len(L) + 1 > s
    BY <1>1
  <2>2. ~EditedAt(M, x, Len(L) + 1) /\ ~BurntAt(M, x, Len(L) + 1)
    BY <1>3, <2>1 DEF Settled
  <2> QED
    BY <1>1, <2>2 DEF EditedAt, BurntAt
<1> QED
  BY <1>2, <1>3 DEF M

LEMMA HeldLonger ==
    ASSUME NEW L \in Seq(Event), NEW e \in Event, NEW x \in Token, NEW h,
           NEW s \in Nat, s <= Len(L), HeldAfter(L, x, s, h)
    PROVE  /\ HeldAfter(Append(L, e), x, s, h)
           /\ s = Len(L) => HeldAfter(Append(L, e), x, s + 1,
                                IF e.token = x /\ e.to # None THEN e.to ELSE h)
<1> DEFINE M == Append(L, e)
<1>1. /\ Len(L) \in Nat /\ DOMAIN L = 1 .. Len(L) /\ DOMAIN M = 1 .. (Len(L) + 1)
      /\ \A b \in DOMAIN L : M[b] = L[b]
      /\ M[Len(L) + 1] = e
  BY LongerLog
<1> HIDE DEF M
<1>2. /\ \A b \in DOMAIN L : b \in DOMAIN M /\ (MovedAt(M, x, b) <=> MovedAt(L, x, b))
      /\ MovedAt(M, x, Len(L) + 1) <=> e.token = x /\ e.to # None
  BY <1>1 DEF MovedAt
<1>3. \A b \in DOMAIN M : b <= s => b \in DOMAIN L
  BY <1>1
<1>4. HeldAfter(M, x, s, h)
  BY <1>1, <1>2, <1>3 DEF HeldAfter
<1>5. ASSUME s = Len(L), e.token = x, e.to # None PROVE HeldAfter(M, x, s + 1, e.to)
  <2>1. Len(L) + 1 \in DOMAIN M /\ \A n \in DOMAIN M : n <= Len(L) + 1
    BY <1>1
  <2> QED
    BY <1>1, <1>2, <1>5, <2>1 DEF HeldAfter
<1>6. ASSUME s = Len(L), ~(e.token = x /\ e.to # None) PROVE HeldAfter(M, x, s + 1, h)
  <2>1. \A b \in DOMAIN M : MovedAt(M, x, b) => b <= s
    BY <1>1, <1>2, <1>6
  <2>2. s + 1 \in Nat /\ \A b \in DOMAIN M : b <= s => b <= s + 1
    BY <1>1
  <2> QED
    BY <1>4, <2>1, <2>2 DEF HeldAfter
<1> QED
  BY <1>4, <1>5, <1>6 DEF M

LEMMA ChainGrows ==
    ASSUME NEW L \in Seq(Event), NEW t \in Token, NEW e, NEW h, NEW eds, NEW h1, NEW eds1,
           Call(t, e, h, eds, h1, eds1), ChainOK(L, t, h, eds)
    PROVE  ChainOK(Append(L, e), t, h1, eds1)
<1> DEFINE M == Append(L, e)
<1>0. e \in Event /\ e.token = t
  BY DEF Call
<1>1. /\ Len(L) \in Nat /\ DOMAIN L = 1 .. Len(L) /\ DOMAIN M = 1 .. (Len(L) + 1)
      /\ \A b \in DOMAIN L : M[b] = L[b]
      /\ M[Len(L) + 1] = e /\ Len(M) = Len(L) + 1
  BY <1>0, LongerLog
<1>2. HeldAfter(M, t, Len(M), h1)
  BY <1>0, <1>1, HeldLonger DEF ChainOK, Call
<1>3. Settled(M, t, 0) => eds1 = {}
  BY <1>0, <1>1, SettledLonger DEF ChainOK, Call
<1> HIDE DEF M
<1>4. Len(L) + 1 \in DOMAIN M /\ \A b \in DOMAIN L : b \in DOMAIN M /\ Len(L) + 1 > b
  BY <1>1
<1>5. /\ \A b \in DOMAIN L : (BurntAt(M, t, b) <=> BurntAt(L, t, b)) /\ (EditedAt(M, t, b) <=> EditedAt(L, t, b))
      /\ BurntAt(M, t, Len(L) + 1) <=> e.to = Zero
      /\ EditedAt(M, t, Len(L) + 1) <=> e.edited
  BY <1>0, <1>1 DEF BurntAt, EditedAt
<1>6. ASSUME NEW b \in DOMAIN M, BurntAt(M, t, b), \A c \in DOMAIN M : c > b => ~EditedAt(M, t, c)
      PROVE  eds1 = {}
  <2>1. CASE b \in DOMAIN L
    <3>1. ~e.edited
      BY <1>4, <1>5, <1>6, <2>1
    <3>2. eds = {}
      BY <1>4, <1>5, <1>6, <2>1 DEF ChainOK
    <3> QED
      BY <3>1, <3>2 DEF Call
  <2>2. CASE b = Len(L) + 1
    BY <1>5, <1>6, <2>2 DEF Call
  <2> QED
    BY <1>1, <2>1, <2>2
<1>7. ASSUME h1 = Zero, NEW b \in DOMAIN M, EditedAt(M, t, b)
      PROVE  \E c \in DOMAIN M : c > b /\ BurntAt(M, t, c)
  <2>1. e.to = Zero
    BY <1>7 DEF Call
  <2>2. CASE b \in DOMAIN L
    BY <1>4, <1>5, <2>1, <2>2
  <2>3. CASE b = Len(L) + 1
    <3>1. e.edited
      BY <1>5, <1>7, <2>3
    <3> QED
      BY <2>1, <3>1 DEF Call
  <2> QED
    BY <1>1, <2>2, <2>3
<1>8. h1 \notin Wallet => eds1 = {}
  BY DEF Call
<1>9. ChainOK(M, t, h1, eds1)
  BY <1>2, <1>3, <1>6, <1>7, <1>8 DEF ChainOK
<1> QED
  BY <1>9 DEF M

(* An index stays as good as it was.                                       *)
LEMMA IndexGrows ==
    ASSUME NEW L \in Seq(Event), NEW own \in [Token -> Holder], NEW eds \in [Token -> SUBSET Wallet],
           NEW t \in Token, NEW e, NEW h1 \in Holder, NEW eds1 \in SUBSET Wallet,
           Call(t, e, own[t], eds[t], h1, eds1),
           NEW ix \in Index, NEW pending, IndexOK(L, own, eds, ix, pending)
    PROVE  IndexOK(Append(L, e), [own EXCEPT ![t] = h1], [eds EXCEPT ![t] = eds1], ix, pending)
<1> DEFINE M == Append(L, e)
           own1 == [own EXCEPT ![t] = h1]
           eds2 == [eds EXCEPT ![t] = eds1]
<1>0. e \in Event /\ e.token = t /\ ix.scanned \in Nat /\ ix.scanned <= Len(L)
  BY DEF Call, Index, IndexOK
<1>1. Len(M) = Len(L) + 1 /\ Len(L) \in Nat
  BY <1>0, LongerLog
<1>2. \A x \in Token : HeldAfter(M, x, ix.scanned, ix.owner[x])
  BY <1>0, HeldLonger DEF IndexOK, Covered
<1>3. \A x \in Token : Settled(M, x, ix.scanned) => Settled(L, x, ix.scanned)
  BY <1>0, SettledLonger
<1>4. \A x \in Token \ {t} : own1[x] = own[x] /\ eds2[x] = eds[x]
  OBVIOUS
<1>5. own1[t] = h1 /\ eds2[t] = eds1
  OBVIOUS
<1>6. Settled(M, t, ix.scanned) => e.to \in Wallet /\ eds1 = eds[t] /\ h1 # Zero
  <2> SUFFICES ASSUME Settled(M, t, ix.scanned) PROVE e.to \in Wallet /\ eds1 = eds[t] /\ h1 # Zero
    OBVIOUS
  <2>1. ~e.edited /\ e.to # Zero
    BY <1>0, SettledLonger
  <2> QED
    BY <2>1 DEF Call
<1> HIDE DEF M, own1, eds2
<1>7. \A x \in Token : Covered(M, x, own1[x], eds2[x], ix)
  <2>1. \A x \in Token \ {t} : Covered(M, x, own1[x], eds2[x], ix)
    BY <1>2, <1>3, <1>4 DEF IndexOK, Covered
  <2>2. Covered(M, t, own1[t], eds2[t], ix)
    BY <1>2, <1>5, <1>6 DEF IndexOK, Covered
  <2> QED
    BY <2>1, <2>2
<1>8. ASSUME NEW x \in Token, x \notin ix.missed \cup pending, Settled(M, x, ix.scanned)
      PROVE  ix.editors[x] = eds2[x]
  <2>1. ix.editors[x] = eds[x]
    BY <1>3, <1>8 DEF IndexOK
  <2> QED
    BY <1>4, <1>5, <1>6, <1>8, <2>1
<1>9. IndexOK(M, own1, eds2, ix, pending)
  BY <1>0, <1>1, <1>7, <1>8 DEF IndexOK
<1> QED
  BY <1>9 DEF M, own1, eds2

(* A call of the chain.                                                    *)
LEMMA CallInv ==
    ASSUME IInv, NEW t \in Token, NEW e, NEW h1 \in Holder, NEW eds1 \in SUBSET Wallet,
           Call(t, e, owner[t], editors[t], h1, eds1),
           log' = Append(log, e), owner' = [owner EXCEPT ![t] = h1],
           editors' = [editors EXCEPT ![t] = eds1],
           UNCHANGED <<index, file, job, chunk, streak, asked>>
    PROVE  IInv'
<1>1. /\ log \in Seq(Event) /\ owner \in [Token -> Holder] /\ editors \in [Token -> SUBSET Wallet]
      /\ index \in Index /\ file \in Index
  BY DEF IInv, TypeOK
<1>2. e \in Event
  BY DEF Call
<1>3. log' \in Seq(Event) /\ Len(log') = Len(log) + 1 /\ Len(log) \in Nat
  BY <1>1, <1>2, LongerLog
<1>4. TypeOK'
  BY <1>1, <1>3 DEF IInv, TypeOK
<1>5. \A x \in Token : ChainOK(log', x, owner'[x], editors'[x])
  <2>1. ChainOK(log', t, owner'[t], editors'[t])
    <3>1. ChainOK(Append(log, e), t, h1, eds1)
      BY <1>1, ChainGrows DEF IInv
    <3> QED
      BY <1>1, <3>1
  <2>2. ASSUME NEW x \in Token \ {t} PROVE ChainOK(log', x, owner'[x], editors'[x])
    <3> DEFINE M == Append(log, e)
    <3>1. /\ DOMAIN log = 1 .. Len(log) /\ DOMAIN M = 1 .. (Len(log) + 1)
          /\ \A b \in DOMAIN log : M[b] = log[b]
          /\ M[Len(log) + 1] = e /\ e.token = t
      BY <1>1, <1>2, LongerLog DEF Call
    <3>2. ChainOK(log, x, owner[x], editors[x]) /\ owner'[x] = owner[x] /\ editors'[x] = editors[x]
      BY <1>1 DEF IInv
    <3>3. Len(log) \in Nat /\ Len(M) = Len(log) + 1 /\ HeldAfter(M, x, Len(M), owner[x])
      BY <1>1, <1>2, <1>3, <3>1, <3>2, HeldLonger DEF ChainOK
    <3>4. Settled(M, x, 0) => Settled(log, x, 0)
      BY <1>1, <1>2, <1>3, SettledLonger
    <3> HIDE DEF M
    <3>5. /\ \A b \in DOMAIN log : /\ b \in DOMAIN M
                                   /\ BurntAt(M, x, b) <=> BurntAt(log, x, b)
                                   /\ EditedAt(M, x, b) <=> EditedAt(log, x, b)
          /\ \A b \in DOMAIN M : BurntAt(M, x, b) \/ EditedAt(M, x, b) => b \in DOMAIN log
      BY <1>3, <3>1 DEF BurntAt, EditedAt
    <3>6. ChainOK(M, x, owner[x], editors[x])
      BY <3>2, <3>3, <3>4, <3>5 DEF ChainOK
    <3> QED
      BY <3>2, <3>6 DEF M
  <2> QED
    BY <2>1, <2>2
<1>6. IndexOK(log', owner', editors', index, Pending)
  BY <1>1, IndexGrows DEF IInv
<1>7. IndexOK(log', owner', editors', file, {})
  BY <1>1, IndexGrows DEF IInv
<1>8. JobOK'
  <2>1. JobOK
    BY DEF IInv
  <2>2. job.step = "fetch" => job.latest \in Nat
    BY DEF IInv, TypeOK, Fetching, Refreshing, Listing, Idle
  <2>3. job.step \in {"refresh", "list"} => job.latest \in Nat
    BY DEF IInv, TypeOK, Fetching, Refreshing, Listing, Idle
  <2>4. ASSUME job.step = "list", Settled(log', job.token, index.scanned)
        PROVE  job.list = editors'[job.token]
    <3>1. job.token \in Token /\ index.scanned \in Nat /\ index.scanned <= Len(log)
      BY <1>1, <2>4 DEF IInv, TypeOK, Fetching, Refreshing, Listing, Idle, IndexOK, Index
    <3>2. Settled(log, job.token, index.scanned)
      BY <1>1, <1>2, <2>4, <3>1, SettledLonger
    <3>3. job.list = editors[job.token]
      BY <2>1, <2>4, <3>2 DEF JobOK
    <3>4. job.token = t => ~e.edited /\ e.to # Zero
      BY <1>1, <1>2, <2>4, <3>1, SettledLonger DEF Call
    <3>5. job.token = t => eds1 = editors[t]
      BY <3>4 DEF Call
    <3> QED
      BY <1>1, <3>1, <3>3, <3>5
  <2> QED
    BY <1>3, <2>1, <2>2, <2>3, <2>4 DEF JobOK
<1>9. Pending' = Pending
  BY DEF Pending
<1> QED
  BY <1>4, <1>5, <1>6, <1>7, <1>8, <1>9 DEF IInv

LEMMA ChainInv ==
    ASSUME IInv, NEW t \in Token, Publish(t) \/ Transfer(t) \/ UpdateEditors(t) \/ Burn(t)
    PROVE  IInv'
<1>0. /\ owner \in [Token -> Holder] /\ editors \in [Token -> SUBSET Wallet]
      /\ Zero \notin Wallet /\ None \notin Wallet \cup {Zero}
  BY ConstantsAssumption DEF IInv, TypeOK
<1>1. CASE Publish(t)
  <2>1. PICK w \in Wallet : Mine(t, w, TRUE) /\ owner' = [owner EXCEPT ![t] = w]
                            /\ editors' = [editors EXCEPT ![t] = {w}]
    BY <1>1 DEF Publish
  <2> DEFINE e == [token |-> t, to |-> w, edited |-> TRUE]
  <2>2. Call(t, e, owner[t], editors[t], w, {w})
    BY <1>0 DEF Call, Event, Holder
  <2>3. w \in Holder /\ {w} \in SUBSET Wallet
    BY DEF Holder
  <2> QED
    BY <2>1, <2>2, <2>3, CallInv DEF Mine
<1>2. CASE Transfer(t)
  <2>1. PICK w \in Wallet : Mine(t, w, FALSE) /\ owner' = [owner EXCEPT ![t] = w]
    BY <1>2 DEF Transfer
  <2> DEFINE e == [token |-> t, to |-> w, edited |-> FALSE]
  <2>2. Call(t, e, owner[t], editors[t], w, editors[t])
    BY <1>0 DEF Call, Event, Holder
  <2>3. w \in Holder /\ editors[t] \in SUBSET Wallet /\ editors' = [editors EXCEPT ![t] = editors[t]]
    BY <1>0, <1>2 DEF Holder, Transfer
  <2> QED
    BY <2>1, <2>2, <2>3, CallInv DEF Mine
<1>3. CASE UpdateEditors(t)
  <2>1. PICK set \in SUBSET Wallet : editors' = [editors EXCEPT ![t] = set]
    BY <1>3 DEF UpdateEditors
  <2> DEFINE e == [token |-> t, to |-> None, edited |-> TRUE]
  <2>2. Call(t, e, owner[t], editors[t], owner[t], set)
    BY <1>0, <1>3 DEF Call, Event, Holder, UpdateEditors
  <2>3. owner' = [owner EXCEPT ![t] = owner[t]] /\ owner[t] \in Holder /\ Mine(t, None, TRUE)
    BY <1>0, <1>3 DEF UpdateEditors
  <2> QED
    BY <2>1, <2>2, <2>3, CallInv DEF Mine
<1>4. CASE Burn(t)
  <2> DEFINE e == [token |-> t, to |-> Zero, edited |-> FALSE]
  <2>1. Call(t, e, owner[t], editors[t], Zero, {})
    BY <1>0 DEF Call, Event, Holder
  <2>2. Zero \in Holder /\ {} \in SUBSET Wallet
    BY DEF Holder
  <2> QED
    BY <1>4, <2>1, <2>2, CallInv DEF Burn, Mine
<1> QED
  BY <1>1, <1>2, <1>3, <1>4

(* What a chunk's logs and a list do to an index.                          *)
LEMMA WithoutIs ==
    ASSUME NEW ix \in Index, NEW tokens \in SUBSET Token
    PROVE  LET r == Without(ix, tokens) IN
           /\ r \in Index /\ r.scanned = ix.scanned /\ r.owner = ix.owner
           /\ r.editors = [t \in Token |-> IF t \in tokens THEN {} ELSE ix.editors[t]]
           /\ r.shared = [w \in Wallet |-> ix.shared[w] \ {t \in tokens : w \in ix.editors[t]}]
           /\ r.missed = ix.missed \ tokens
<1> DEFINE eds == [t \in Token |-> IF t \in tokens THEN {} ELSE ix.editors[t]]
           sh  == [w \in Wallet |-> ix.shared[w] \ {t \in tokens : w \in ix.editors[t]}]
           mi  == ix.missed \ tokens
<1>1. /\ ix.owner \in [Token -> Holder] /\ ix.scanned \in Nat
      /\ eds \in [Token -> SUBSET Wallet] /\ sh \in [Wallet -> SUBSET Token] /\ mi \in SUBSET Token
  BY DEF Index
<1>2. Without(ix, tokens) = [ix EXCEPT !.editors = eds, !.shared = sh, !.missed = mi]
  BY DEF Without
<1> HIDE DEF eds, sh, mi
<1>3. Without(ix, tokens) =
        [scanned |-> ix.scanned, owner |-> ix.owner, editors |-> eds, shared |-> sh, missed |-> mi]
  BY <1>2 DEF Index
<1>4. /\ Without(ix, tokens).scanned = ix.scanned /\ Without(ix, tokens).owner = ix.owner
      /\ Without(ix, tokens).editors = eds /\ Without(ix, tokens).shared = sh
      /\ Without(ix, tokens).missed = mi
  BY <1>3
<1>5. Without(ix, tokens) \in Index
  BY <1>1, <1>3 DEF Index
<1> QED
  BY <1>4, <1>5 DEF eds, sh, mi

Latest(t, from, to, h) == IF Moves(t, from, to) = {} THEN h ELSE log[Max(Moves(t, from, to))].to

LEMMA AppliedIs ==
    ASSUME TypeOK, NEW from \in Nat, NEW to \in Nat
    PROVE  LET r == Applied(from, to)
               gone == Burnt(from, to) IN
           /\ r \in Index /\ r.scanned = to
           /\ r.owner = [t \in Token |-> Latest(t, from, to, index.owner[t])]
           /\ r.editors = [t \in Token |-> IF t \in gone THEN {} ELSE index.editors[t]]
           /\ r.shared = [w \in Wallet |-> index.shared[w] \ {t \in gone : w \in index.editors[t]}]
           /\ r.missed = index.missed \ gone
<1> DEFINE gone == Burnt(from, to)
           own == [t \in Token |-> Latest(t, from, to, index.owner[t])]
           ix == Without(index, gone)
<1>1. gone \in SUBSET Token /\ index \in Index
  BY DEF Burnt, TypeOK
<1>2. /\ ix \in Index /\ ix.scanned = index.scanned /\ ix.owner = index.owner
      /\ ix.editors = [t \in Token |-> IF t \in gone THEN {} ELSE index.editors[t]]
      /\ ix.shared = [w \in Wallet |-> index.shared[w] \ {t \in gone : w \in index.editors[t]}]
      /\ ix.missed = index.missed \ gone
  BY <1>1, WithoutIs
<1>3. own \in [Token -> Holder]
  <2> SUFFICES ASSUME NEW t \in Token PROVE Latest(t, from, to, index.owner[t]) \in Holder
    OBVIOUS
  <2>1. index.owner[t] \in Holder
    BY <1>1 DEF Index
  <2>2. Moves(t, from, to) # {} => log[Max(Moves(t, from, to))].to \in Holder
    <3> SUFFICES ASSUME Moves(t, from, to) # {} PROVE log[Max(Moves(t, from, to))].to \in Holder
      OBVIOUS
    <3>1. log \in Seq(Event) /\ Len(log) \in Nat /\ DOMAIN log = 1 .. Len(log)
      BY DEF TypeOK
    <3>2. Moves(t, from, to) \subseteq 1 .. Len(log)
      BY <3>1 DEF Moves, Blocks
    <3>3. PICK m : m = Max(Moves(t, from, to))
      OBVIOUS
    <3>4. m \in 1 .. Len(log)
      BY <3>1, <3>2, <3>3, LastBlock
    <3>5. log[m] \in Event
      BY <3>1, <3>4
    <3> QED
      BY <3>3, <3>5 DEF Event
  <2> QED
    BY <2>1, <2>2 DEF Latest
<1>4. Applied(from, to) = [ix EXCEPT !.scanned = to, !.owner = own]
  <2>1. Applied(from, to) = [ix EXCEPT !.scanned = to,
            !.owner = [t \in Token |-> Latest(t, from, to, ix.owner[t])]]
    BY DEF Applied, Latest
  <2> QED
    BY <1>2, <2>1
<1> HIDE DEF own, ix
<1>5. Applied(from, to) = [scanned |-> to, owner |-> own, editors |-> ix.editors,
                           shared |-> ix.shared, missed |-> ix.missed]
  BY <1>2, <1>4 DEF Index
<1>6. /\ Applied(from, to).scanned = to /\ Applied(from, to).owner = own
      /\ Applied(from, to).editors = ix.editors /\ Applied(from, to).shared = ix.shared
      /\ Applied(from, to).missed = ix.missed
  BY <1>5
<1>7. Applied(from, to) \in Index
  BY <1>2, <1>3, <1>5 DEF Index
<1> QED
  BY <1>2, <1>6, <1>7 DEF own

(* The holder after the chunk is the one of its last move.                 *)
LEMMA LatestHolds ==
    ASSUME TypeOK, NEW t \in Token, NEW s \in Nat, NEW from \in Nat, NEW to \in Nat,
           from <= s + 1, s <= to, NEW h, HeldAfter(log, t, s, h)
    PROVE  HeldAfter(log, t, to, Latest(t, from, to, h))
<1> DEFINE moves == Moves(t, from, to)
<1>1. log \in Seq(Event) /\ Len(log) \in Nat /\ DOMAIN log = 1 .. Len(log)
  BY DEF TypeOK
<1>2. \A b : b \in moves <=> b \in DOMAIN log /\ from <= b /\ b <= to /\ MovedAt(log, t, b)
  BY <1>1 DEF Moves, Blocks, MovedAt
<1>3. Latest(t, from, to, h) = IF moves = {} THEN h ELSE log[Max(moves)].to
  BY DEF Latest
<1> HIDE DEF moves
<1>4. CASE moves = {}
  <2>1. \A b \in DOMAIN log : b <= to /\ MovedAt(log, t, b) => b <= s
    BY <1>1, <1>2, <1>4
  <2>2. \A b \in DOMAIN log : b <= s => b <= to
    BY <1>1
  <2>3. HeldAfter(log, t, to, h)
    BY <2>1, <2>2 DEF HeldAfter
  <2> QED
    BY <1>3, <1>4, <2>3
<1>5. CASE moves # {}
  <2>1. PICK m : m = Max(moves)
    OBVIOUS
  <2>2. m \in moves /\ \A n \in moves : n <= m
    <3>1. moves \subseteq 1 .. Len(log)
      BY <1>1, <1>2
    <3> QED
      BY <1>1, <1>5, <2>1, <3>1, LastBlock
  <2>3. \A n \in DOMAIN log : n <= to /\ MovedAt(log, t, n) => n <= m
    <3> SUFFICES ASSUME NEW n \in DOMAIN log, n <= to, MovedAt(log, t, n) PROVE n <= m
      OBVIOUS
    <3>1. from <= n \/ n < from
      BY <1>1
    <3>2. m \in Nat /\ from <= m
      BY <1>1, <1>2, <2>2
    <3> QED
      BY <1>1, <1>2, <2>2, <3>1, <3>2
  <2>4. HeldAfter(log, t, to, log[m].to)
    BY <1>2, <2>2, <2>3 DEF HeldAfter
  <2> QED
    BY <1>3, <1>5, <2>1, <2>4
<1> QED
  BY <1>4, <1>5

(* The chunk's logs make the index good up to the chunk's end, but for the   *)
(* lists that it says to read.                                               *)
LEMMA AppliedOK ==
    ASSUME IInv, job.step = "fetch", NEW from \in Nat, NEW to \in Nat,
           from \in {index.scanned, index.scanned + 1}, index.scanned <= to, to <= Len(log)
    PROVE  IndexOK(log, owner, editors, Applied(from, to), Edited(from, to))
<1> DEFINE r == Applied(from, to)
           gone == Burnt(from, to)
           s == index.scanned
<1>1. /\ log \in Seq(Event) /\ Len(log) \in Nat /\ DOMAIN log = 1 .. Len(log)
      /\ index \in Index /\ s \in Nat /\ s <= Len(log)
  BY DEF IInv, TypeOK, Index, IndexOK
<1>2. /\ r.scanned = to
      /\ r.owner = [t \in Token |-> Latest(t, from, to, index.owner[t])]
      /\ r.editors = [t \in Token |-> IF t \in gone THEN {} ELSE index.editors[t]]
      /\ r.shared = [w \in Wallet |-> index.shared[w] \ {t \in gone : w \in index.editors[t]}]
      /\ r.missed = index.missed \ gone
  BY AppliedIs DEF IInv
<1>3. \A t \in Token : t \in gone <=> \E b \in DOMAIN log : from <= b /\ b <= to /\ BurntAt(log, t, b)
  BY <1>1 DEF Burnt, Blocks, BurntAt
<1>4. \A t \in Token : t \in Edited(from, to) <=>
          \E b \in DOMAIN log : from <= b /\ b <= to /\ EditedAt(log, t, b)
  BY <1>1 DEF Edited, Blocks, EditedAt
<1>5. Pending = {}
  BY DEF Pending
<1> HIDE DEF r, gone
<1>6. ASSUME NEW t \in Token
      PROVE  /\ Covered(log, t, owner[t], editors[t], index)
             /\ t \notin index.missed => (Settled(log, t, s) => index.editors[t] = editors[t])
             /\ ChainOK(log, t, owner[t], editors[t])
  BY <1>5 DEF IInv, IndexOK
<1>7. ASSUME NEW t \in Token, t \notin gone, t \notin Edited(from, to), Settled(log, t, to)
      PROVE  Settled(log, t, s)
  <2> SUFFICES ASSUME NEW b \in DOMAIN log, b > s
               PROVE  ~EditedAt(log, t, b) /\ ~BurntAt(log, t, b)
    BY DEF Settled
  <2>1. CASE b > to
    BY <1>7, <2>1 DEF Settled
  <2>2. CASE b <= to
    <3>1. from <= b
      BY <1>1
    <3> QED
      BY <1>3, <1>4, <1>7, <2>2, <3>1
  <2> QED
    BY <1>1, <2>1, <2>2
<1>8. ASSUME NEW t \in Token PROVE Covered(log, t, owner[t], editors[t], r)
  <2>1. HeldAfter(log, t, to, r.owner[t])
    <3>1. HeldAfter(log, t, s, index.owner[t])
      BY <1>6 DEF Covered
    <3>2. TypeOK /\ from <= s + 1
      BY <1>1 DEF IInv
    <3>3. PICK h : h = index.owner[t]
      OBVIOUS
    <3>4. HeldAfter(log, t, to, Latest(t, from, to, h))
      BY <1>1, <3>1, <3>2, <3>3, LatestHolds
    <3> QED
      BY <1>2, <3>3, <3>4
  <2>2. \A w \in Wallet : t \in r.shared[w] <=> w \in r.editors[t]
    <3>1. \A w \in Wallet : t \in index.shared[w] <=> w \in index.editors[t]
      BY <1>6 DEF Covered
    <3>2. \A w \in Wallet : t \in r.shared[w] <=> t \in index.shared[w] /\ ~(t \in gone /\ w \in index.editors[t])
      BY <1>2
    <3>3. r.editors[t] = IF t \in gone THEN {} ELSE index.editors[t]
      BY <1>2
    <3> QED
      BY <3>1, <3>2, <3>3
  <2>3. ASSUME owner[t] = Zero, Settled(log, t, to), t \notin gone PROVE index.editors[t] = {}
    <3>1. t \notin Edited(from, to)
      <4> SUFFICES ASSUME NEW b \in DOMAIN log, from <= b, b <= to, EditedAt(log, t, b) PROVE FALSE
        BY <1>4
      <4>1. PICK c \in DOMAIN log : c > b /\ BurntAt(log, t, c)
        BY <1>6, <2>3 DEF ChainOK
      <4>2. ~(c > to)
        BY <2>3, <4>1 DEF Settled
      <4>3. from <= c /\ c <= to
        BY <1>1, <4>1, <4>2
      <4> QED
        BY <1>3, <2>3, <4>1, <4>3
    <3>2. Settled(log, t, s)
      BY <1>7, <2>3, <3>1
    <3> QED
      BY <1>6, <2>3, <3>2 DEF Covered
  <2>4. owner[t] = Zero /\ Settled(log, t, to) => r.editors[t] = {}
    BY <1>2, <2>3
  <2> QED
    BY <1>2, <2>1, <2>2, <2>4 DEF Covered
<1>9. ASSUME NEW t \in Token, t \notin r.missed \cup Edited(from, to), Settled(log, t, to)
      PROVE  r.editors[t] = editors[t]
  <2>1. CASE t \in gone
    <3>1. PICK b \in DOMAIN log : from <= b /\ b <= to /\ BurntAt(log, t, b)
      BY <1>3, <2>1
    <3>2. \A c \in DOMAIN log : c > b => ~EditedAt(log, t, c)
      <4> SUFFICES ASSUME NEW c \in DOMAIN log, c > b, EditedAt(log, t, c) PROVE FALSE
        OBVIOUS
      <4>1. ~(c > to)
        BY <1>9 DEF Settled
      <4>2. from <= c /\ c <= to
        BY <1>1, <3>1, <4>1
      <4> QED
        BY <1>4, <1>9, <4>2
    <3>3. editors[t] = {}
      BY <1>6, <3>1, <3>2 DEF ChainOK
    <3> QED
      BY <1>2, <2>1, <3>3
  <2>2. CASE t \notin gone
    <3>1. Settled(log, t, s) /\ t \notin index.missed
      BY <1>2, <1>7, <1>9, <2>2
    <3> QED
      BY <1>2, <1>6, <2>2, <3>1
  <2> QED
    BY <2>1, <2>2
<1>10. IndexOK(log, owner, editors, r, Edited(from, to))
  BY <1>2, <1>8, <1>9 DEF IndexOK
<1> QED
  BY <1>10 DEF r

LEMMA WithEditorsIs ==
    ASSUME TypeOK, NEW t \in Token, NEW set \in SUBSET Wallet
    PROVE  LET r == WithEditors(t, set) IN
           /\ r \in Index /\ r.scanned = index.scanned /\ r.owner = index.owner
           /\ r.editors = [index.editors EXCEPT ![t] = set]
           /\ \A w \in Wallet, x \in Token :
                 x \in r.shared[w] <=> IF x = t THEN w \in set \/ (x \in index.shared[w] /\ w \notin index.editors[t])
                                       ELSE x \in index.shared[w]
           /\ r.missed = index.missed \ {t}
<1> DEFINE ix == Without(index, {t})
           sh == [w \in Wallet |-> IF w \in set THEN ix.shared[w] \cup {t} ELSE ix.shared[w]]
           eds == [ix.editors EXCEPT ![t] = set]
<1>1. index \in Index /\ {t} \in SUBSET Token
  BY DEF TypeOK
<1>2. /\ ix \in Index /\ ix.scanned = index.scanned /\ ix.owner = index.owner
      /\ ix.editors = [x \in Token |-> IF x \in {t} THEN {} ELSE index.editors[x]]
      /\ ix.shared = [w \in Wallet |-> index.shared[w] \ {x \in {t} : w \in index.editors[x]}]
      /\ ix.missed = index.missed \ {t}
  BY <1>1, WithoutIs
<1>3. /\ ix.owner \in [Token -> Holder] /\ ix.scanned \in Nat /\ ix.missed \in SUBSET Token
      /\ ix.editors \in [Token -> SUBSET Wallet] /\ ix.shared \in [Wallet -> SUBSET Token]
  BY <1>2 DEF Index
<1> HIDE DEF ix
<1>4. WithEditors(t, set) = [ix EXCEPT !.editors = eds, !.shared = sh]
  <2>1. WithEditors(t, set) = [ix EXCEPT !.editors[t] = set, !.shared = sh]
    BY DEF WithEditors, ix
  <2> QED
    BY <1>2, <2>1 DEF Index
<1>5. eds \in [Token -> SUBSET Wallet] /\ sh \in [Wallet -> SUBSET Token]
  BY <1>3
<1>6. eds = [index.editors EXCEPT ![t] = set]
  BY <1>1, <1>2 DEF Index
<1>7. \A w \in Wallet, x \in Token :
          x \in sh[w] <=> IF x = t THEN w \in set \/ (x \in index.shared[w] /\ w \notin index.editors[t])
                          ELSE x \in index.shared[w]
  BY <1>2
<1> HIDE DEF eds, sh
<1>8. WithEditors(t, set) = [scanned |-> ix.scanned, owner |-> ix.owner, editors |-> eds,
                             shared |-> sh, missed |-> ix.missed]
  BY <1>2, <1>4 DEF Index
<1>9. /\ WithEditors(t, set).scanned = index.scanned /\ WithEditors(t, set).owner = index.owner
      /\ WithEditors(t, set).editors = eds /\ WithEditors(t, set).shared = sh
      /\ WithEditors(t, set).missed = index.missed \ {t}
  BY <1>2, <1>8
<1>10. WithEditors(t, set) \in Index
  BY <1>3, <1>5, <1>8 DEF Index
<1> QED
  BY <1>6, <1>7, <1>9, <1>10

(* The steps of a catch-up.                                                *)
LEMMA JobFields ==
    ASSUME TypeOK
    PROVE  /\ job.step = "fetch" => job.from \in Nat /\ job.latest \in Nat
           /\ job.step = "refresh" => job.to \in Nat /\ job.latest \in Nat /\ job.left \in SUBSET Token
           /\ job.step = "list" =>
                 /\ job.to \in Nat /\ job.latest \in Nat /\ job.left \in SUBSET Token
                 /\ job.token \in Token /\ job.list \in SUBSET Wallet
           /\ job.step = "idle" => job = Idle
           /\ job.step \in {"idle", "fetch", "refresh", "list"}
<1>1. CASE job \in Fetching
  BY <1>1 DEF Fetching
<1>2. CASE job \in Refreshing
  BY <1>2 DEF Refreshing
<1>3. CASE job \in Listing
  BY <1>3 DEF Listing
<1>4. CASE job = Idle
  BY <1>4 DEF Idle
<1> QED
  BY <1>1, <1>2, <1>3, <1>4 DEF TypeOK

LEMMA FetchIs ==
    ASSUME NEW from \in Nat, NEW latest \in Nat
    PROVE  /\ Fetch(from, latest) \in Fetching /\ Fetch(from, latest).step = "fetch"
           /\ Fetch(from, latest).from = from /\ Fetch(from, latest).latest = latest
  BY DEF Fetch, Fetching

LEMMA RefreshIs ==
    ASSUME NEW to \in Nat, NEW latest \in Nat, NEW left \in SUBSET Token
    PROVE  /\ Refresh(to, latest, left) \in Refreshing /\ Refresh(to, latest, left).step = "refresh"
           /\ Refresh(to, latest, left).to = to /\ Refresh(to, latest, left).latest = latest
           /\ Refresh(to, latest, left).left = left
  BY DEF Refresh, Refreshing

LEMMA IndexerStep ==
    ASSUME IInv, UNCHANGED chainVars,
           index' \in Index, file' \in Index, job' \in Fetching \cup Refreshing \cup Listing \cup {Idle},
           chunk' \in 1 .. Ceiling, streak' \in Nat, asked' \in Nat \cup {None},
           IndexOK(log, owner, editors, index', Pending'),
           IndexOK(log, owner, editors, file', {}), JobOK'
    PROVE  IInv'
<1>1. TypeOK'
  BY DEF IInv, TypeOK, chainVars
<1>2. \A t \in Token : ChainOK(log', t, owner'[t], editors'[t])
  BY DEF IInv, chainVars
<1> QED
  BY <1>1, <1>2 DEF IInv, chainVars

(* The lists that are awaited may become more.                             *)
LEMMA MorePending ==
    ASSUME NEW L, NEW own, NEW eds, NEW ix, NEW p, NEW q, p \subseteq q, IndexOK(L, own, eds, ix, p)
    PROVE  IndexOK(L, own, eds, ix, q)
  BY DEF IndexOK

LEMMA LogTyped == ASSUME TypeOK PROVE Len(log) \in Nat /\ index.scanned \in Nat
  BY DEF TypeOK, Index

LEMMA NoJobInv ==
    ASSUME IInv, UNCHANGED chainVars, UNCHANGED file,
           (index' = index /\ Pending = {}) \/ index' = file, job' = Idle,
           chunk' \in 1 .. Ceiling, streak' \in Nat, asked' \in Nat \cup {None}
    PROVE  IInv'
<1>1. job'.step = "idle"
  BY DEF Idle
<1>2. Pending' = {} /\ JobOK'
  BY <1>1 DEF Pending, JobOK
<1>3. index' \in Index /\ file' \in Index
  BY DEF IInv, TypeOK
<1>4. IndexOK(log, owner, editors, index', Pending')
  BY <1>2 DEF IInv
<1> QED
  BY <1>2, <1>3, <1>4, IndexerStep DEF IInv

LEMMA StartInv == ASSUME IInv, Start PROVE IInv'
<1>0. TypeOK /\ IndexOK(log, owner, editors, index, {}) /\ Len(log) \in Nat /\ index.scanned \in Nat
  BY LogTyped DEF IInv, Start, Pending, Idle
<1>1. /\ job' \in Fetching /\ job'.step = "fetch"
      /\ job'.from = index.scanned /\ job'.latest = Len(log)
  BY <1>0, FetchIs DEF Start, Tip
<1>2. Pending' = {}
  BY <1>1 DEF Pending
<1>3. JobOK'
  BY <1>0, <1>1 DEF Start, Tip, chainVars, JobOK
<1> QED
  BY <1>0, <1>1, <1>2, <1>3, IndexerStep DEF Start, TypeOK, IInv

LEMMA FetchedInv == ASSUME IInv, Fetched PROVE IInv'
<1> DEFINE to == Min({job.from + chunk - 1, job.latest})
           from == job.from
<1>1. /\ TypeOK /\ job.step = "fetch" /\ index' = Applied(from, to)
      /\ job' = Refresh(to, job.latest, Edited(from, to))
      /\ UNCHANGED <<chainVars, file, asked>>
  BY DEF Fetched, IInv
<1>2. /\ Len(log) \in Nat /\ index.scanned \in Nat /\ from \in Nat /\ job.latest \in Nat
      /\ from \in {index.scanned, index.scanned + 1} /\ from <= job.latest /\ job.latest <= Len(log)
  BY <1>1, LogTyped, JobFields DEF IInv, JobOK
<1>3. chunk \in Nat /\ chunk >= 1 /\ streak \in Nat /\ chunk \in 1 .. Ceiling
  BY <1>1, ConstantsAssumption DEF TypeOK
<1>4. to \in Nat /\ from <= to /\ to <= job.latest
  <2>1. from + chunk - 1 \in Nat /\ from <= from + chunk - 1
    BY <1>2, <1>3
  <2>2. to \in {from + chunk - 1, job.latest} /\ to \in Nat /\ to <= job.latest
    BY <1>2, <2>1, MinOfTwo
  <2> QED
    BY <1>2, <2>1, <2>2
<1> HIDE DEF to
<1>5. index.scanned <= to /\ to <= Len(log)
  BY <1>2, <1>4
<1>6. IndexOK(log, owner, editors, Applied(from, to), Edited(from, to))
  BY <1>1, <1>2, <1>4, <1>5, AppliedOK
<1>7. Applied(from, to) \in Index /\ Applied(from, to).scanned = to
  BY <1>1, <1>2, <1>4, AppliedIs
<1>8. Edited(from, to) \in SUBSET Token
  BY DEF Edited
<1>9. /\ job' \in Refreshing /\ job'.step = "refresh" /\ job'.to = to
      /\ job'.latest = job.latest /\ job'.left = Edited(from, to)
  BY <1>1, <1>2, <1>4, <1>8, RefreshIs
<1>10. Pending' = Edited(from, to)
  BY <1>9 DEF Pending
<1>11. JobOK'
  BY <1>1, <1>2, <1>4, <1>7, <1>9 DEF JobOK, chainVars
<1>12. chunk' \in 1 .. Ceiling /\ streak' \in Nat
  BY <1>1, <1>3, ChunkTyped DEF Fetched
<1> QED
  BY <1>1, <1>6, <1>7, <1>9, <1>10, <1>11, <1>12, IndexerStep DEF IInv, TypeOK

LEMMA RejectedInv == ASSUME IInv, Rejected PROVE IInv'
<1>1. chunk' \in 1 .. Ceiling
  BY ChunkTyped DEF Rejected, IInv
<1>2. Pending' = Pending /\ JobOK'
  BY DEF Rejected, Pending, JobOK, IInv, chainVars
<1> QED
  BY <1>1, <1>2, IndexerStep DEF Rejected, IInv, TypeOK

LEMMA FetchFailsInv == ASSUME IInv, FetchFails PROVE IInv'
<1>1. Pending = {}
  BY DEF FetchFails, Pending
<1> QED
  BY <1>1, NoJobInv DEF FetchFails, IInv, TypeOK

LEMMA RestartInv == ASSUME IInv, Restart PROVE IInv'
<1>1. Ceiling \in 1 .. Ceiling
  BY ConstantsAssumption
<1> QED
  BY <1>1, NoJobInv DEF Restart

LEMMA ReadListInv == ASSUME IInv, NEW t \in Token, ReadList(t) PROVE IInv'
<1>1. /\ TypeOK /\ job.step = "refresh" /\ t \in job.left
      /\ UNCHANGED <<chainVars, index, file, chunk, streak, asked>>
  BY DEF ReadList, IInv
<1>2. job.to \in Nat /\ job.latest \in Nat /\ job.left \in SUBSET Token /\ editors[t] \in SUBSET Wallet
  BY <1>1, JobFields DEF TypeOK
<1>3. /\ job' \in Listing /\ job'.step = "list" /\ job'.to = job.to /\ job'.latest = job.latest
      /\ job'.left = job.left \ {t} /\ job'.token = t /\ job'.list = editors[t]
  BY <1>2 DEF ReadList, Listing
<1>4. Pending = job.left /\ Pending' = job.left
  BY <1>1, <1>3 DEF Pending
<1>5. JobOK'
  BY <1>1, <1>3 DEF IInv, JobOK, chainVars
<1> QED
  BY <1>1, <1>3, <1>4, <1>5, IndexerStep DEF IInv, TypeOK

LEMMA SetEditorsInv == ASSUME IInv, SetEditors PROVE IInv'
<1>1. /\ TypeOK /\ job.step = "list" /\ index' = WithEditors(job.token, job.list)
      /\ job' = Refresh(job.to, job.latest, job.left)
      /\ UNCHANGED <<chainVars, file, chunk, streak, asked>>
  BY DEF SetEditors, IInv
<1>2. /\ job.to \in Nat /\ job.latest \in Nat /\ job.left \in SUBSET Token
      /\ job.token \in Token /\ job.list \in SUBSET Wallet
  BY <1>1, JobFields
<1>3. PICK t \in Token, set \in SUBSET Wallet : t = job.token /\ set = job.list
  BY <1>2
<1> DEFINE r == WithEditors(t, set)
<1>4. /\ r \in Index /\ r.scanned = index.scanned /\ r.owner = index.owner
      /\ r.editors = [index.editors EXCEPT ![t] = set]
      /\ \A w \in Wallet, x \in Token :
            x \in r.shared[w] <=> IF x = t THEN w \in set \/ (x \in index.shared[w] /\ w \notin index.editors[t])
                                  ELSE x \in index.shared[w]
      /\ r.missed = index.missed \ {t}
  BY <1>1, WithEditorsIs
<1>5. index.editors \in [Token -> SUBSET Wallet] /\ index' = r
  BY <1>1, <1>3 DEF TypeOK, Index
<1> HIDE DEF r
<1>6. r.editors[t] = set /\ \A x \in Token \ {t} : r.editors[x] = index.editors[x]
  BY <1>4, <1>5
<1>7. Settled(log, t, index.scanned) => set = editors[t]
  BY <1>1, <1>3 DEF IInv, JobOK
<1>8. /\ job' \in Refreshing /\ job'.step = "refresh" /\ job'.to = job.to
      /\ job'.latest = job.latest /\ job'.left = job.left
  BY <1>1, <1>2, RefreshIs
<1>9. Pending = job.left \cup {t} /\ Pending' = job.left
  BY <1>1, <1>3, <1>8 DEF Pending
<1>10. \A x \in Token : /\ Covered(log, x, owner[x], editors[x], index)
                        /\ ChainOK(log, x, owner[x], editors[x])
  BY DEF IInv, IndexOK
<1>11. ASSUME NEW x \in Token \ {t} PROVE Covered(log, x, owner[x], editors[x], r)
  BY <1>4, <1>6, <1>10 DEF Covered
<1>12. Covered(log, t, owner[t], editors[t], r)
  <2>1. \A w \in Wallet : t \in index.shared[w] <=> w \in index.editors[t]
    BY <1>10 DEF Covered
  <2>2. \A w \in Wallet : t \in r.shared[w] <=> w \in r.editors[t]
    BY <1>4, <1>6, <2>1
  <2>3. owner[t] = Zero => editors[t] = {}
    BY <1>10, ConstantsAssumption DEF ChainOK
  <2>4. owner[t] = Zero /\ Settled(log, t, r.scanned) => r.editors[t] = {}
    BY <1>4, <1>6, <1>7, <2>3
  <2> QED
    BY <1>4, <1>10, <2>2, <2>4 DEF Covered
<1>13. ASSUME NEW x \in Token, x \notin r.missed \cup job.left, Settled(log, x, r.scanned)
       PROVE  r.editors[x] = editors[x]
  <2>1. CASE x = t
    BY <1>4, <1>6, <1>7, <1>13, <2>1
  <2>2. CASE x # t
    <3>1. x \notin index.missed \cup Pending /\ Settled(log, x, index.scanned)
      BY <1>4, <1>9, <1>13, <2>2
    <3>2. index.editors[x] = editors[x]
      BY <3>1 DEF IInv, IndexOK
    <3> QED
      BY <1>6, <2>2, <3>2
  <2> QED
    BY <2>1, <2>2
<1>14. IndexOK(log, owner, editors, index', Pending')
  <2>1. r.scanned <= Len(log)
    BY <1>4 DEF IInv, IndexOK
  <2>2. IndexOK(log, owner, editors, r, job.left)
    BY <1>11, <1>12, <1>13, <2>1 DEF IndexOK
  <2> QED
    BY <1>5, <1>9, <2>2
<1>15. JobOK'
  BY <1>1, <1>4, <1>5, <1>8 DEF IInv, JobOK, chainVars
<1> QED
  BY <1>1, <1>4, <1>5, <1>8, <1>14, <1>15, IndexerStep DEF IInv, TypeOK

LEMMA RefreshFailsInv == ASSUME IInv, NEW t \in Token, RefreshFails(t) PROVE IInv'
<1>1. /\ TypeOK /\ job.step \in {"refresh", "list"}
      /\ index' = [index EXCEPT !.missed = @ \cup {t}]
      /\ job' = Refresh(job.to, job.latest, job.left \ {t})
      /\ UNCHANGED <<chainVars, file, chunk, streak, asked>>
  BY DEF RefreshFails, IInv
<1>2. job.to \in Nat /\ job.latest \in Nat /\ job.left \ {t} \in SUBSET Token /\ index \in Index
  BY <1>1, JobFields DEF TypeOK
<1>3. /\ job' \in Refreshing /\ job'.step = "refresh" /\ job'.to = job.to
      /\ job'.latest = job.latest /\ job'.left = job.left \ {t}
  BY <1>1, <1>2, RefreshIs
<1>4. Pending' = job.left \ {t} /\ Pending \subseteq (job.left \ {t}) \cup {t}
  BY <1>1, <1>3 DEF Pending, RefreshFails
<1>5. /\ index' \in Index /\ index'.scanned = index.scanned /\ index'.owner = index.owner
      /\ index'.editors = index.editors /\ index'.shared = index.shared
      /\ index'.missed = index.missed \cup {t}
  BY <1>1, <1>2 DEF Index
<1>6. IndexOK(log, owner, editors, index', Pending')
  <2>1. \A x \in Token : Covered(log, x, owner[x], editors[x], index')
    BY <1>5 DEF IInv, IndexOK, Covered
  <2>2. \A x \in Token : x \notin index'.missed \cup Pending' => x \notin index.missed \cup Pending
    BY <1>4, <1>5
  <2>3. \A x \in Token : x \notin index'.missed \cup Pending' =>
            (Settled(log, x, index'.scanned) => index'.editors[x] = editors[x])
    BY <1>5, <2>2 DEF IInv, IndexOK
  <2>4. index'.scanned <= Len(log)
    BY <1>5 DEF IInv, IndexOK
  <2> QED
    BY <2>1, <2>3, <2>4 DEF IndexOK
<1>7. JobOK'
  BY <1>1, <1>3, <1>5 DEF IInv, JobOK, chainVars
<1> QED
  BY <1>1, <1>3, <1>5, <1>6, <1>7, IndexerStep DEF IInv, TypeOK

LEMMA BlankOK ==
    ASSUME IInv
    PROVE  Blank \in Index /\ IndexOK(log, owner, editors, Blank, {})
<1>0. log \in Seq(Event) /\ Len(log) \in Nat /\ DOMAIN log = 1 .. Len(log)
  BY DEF IInv, TypeOK
<1>1. /\ Blank.scanned = 0 /\ Blank.owner = [t \in Token |-> None]
      /\ Blank.editors = [t \in Token |-> {}] /\ Blank.shared = [w \in Wallet |-> {}]
  BY DEF Blank
<1>2. Blank \in Index
  BY DEF Blank, Index, Holder
<1>3. \A t \in Token : HeldAfter(log, t, 0, None)
  BY <1>0 DEF HeldAfter
<1>4. \A t \in Token : Covered(log, t, owner[t], editors[t], Blank)
  BY <1>1, <1>3 DEF Covered
<1>5. \A t \in Token : Settled(log, t, 0) => editors[t] = {}
  BY DEF IInv, ChainOK
<1> QED
  BY <1>0, <1>1, <1>2, <1>4, <1>5 DEF IndexOK

LEMMA SaveInv == ASSUME IInv, Save PROVE IInv'
<1>1. /\ TypeOK /\ job.step = "refresh" /\ job.left = {} /\ file' \in {index, file, Blank}
      /\ UNCHANGED <<chainVars, index, chunk, streak>>
  BY DEF Save, IInv
<1>2. job.to \in Nat /\ job.latest \in Nat /\ job.to = index.scanned /\ job.latest <= Len(log)
  BY <1>1, JobFields DEF IInv, JobOK
<1>3. Pending = {}
  BY <1>1 DEF Pending
<1>4. file' \in Index /\ IndexOK(log, owner, editors, file', {})
  BY <1>1, <1>3, BlankOK DEF IInv, TypeOK
<1>5. CASE job.to < job.latest /\ job' = Fetch(job.to + 1, job.latest) /\ UNCHANGED asked
  <2>1. /\ job' \in Fetching /\ job'.step = "fetch"
        /\ job'.from = job.to + 1 /\ job'.latest = job.latest
    BY <1>2, <1>5, FetchIs
  <2>2. Pending' = {}
    BY <2>1 DEF Pending
  <2>3. JobOK'
    BY <1>1, <1>2, <1>5, <2>1 DEF JobOK, chainVars
  <2> QED
    BY <1>1, <1>3, <1>4, <1>5, <2>1, <2>2, <2>3, IndexerStep DEF IInv, TypeOK
<1>6. CASE job' = Idle /\ asked' = None
  <2>1. job'.step = "idle"
    BY <1>6 DEF Idle
  <2>2. Pending' = {} /\ JobOK'
    BY <2>1 DEF Pending, JobOK
  <2> QED
    BY <1>1, <1>3, <1>4, <1>6, <2>2, IndexerStep DEF IInv, TypeOK
<1> QED
  BY <1>5, <1>6 DEF Save

LEMMA AskingInv == ASSUME IInv, Ask \/ AtTip \/ GiveUp \/ UNCHANGED vars PROVE IInv'
<1>0. asked \in Nat \cup {None} /\ Len(log) \in Nat
  BY LogTyped DEF IInv, TypeOK
<1>1. /\ UNCHANGED <<chainVars, index, file, job, chunk, streak>>
      /\ asked' \in Nat \cup {None}
  <2>1. CASE Ask
    BY <1>0, <2>1 DEF Ask, Tip
  <2>2. CASE AtTip
    BY <2>2 DEF AtTip
  <2>3. CASE GiveUp
    BY <2>3 DEF GiveUp
  <2>4. CASE UNCHANGED vars
    BY <1>0, <2>4 DEF vars, chainVars
  <2> QED
    BY <2>1, <2>2, <2>3, <2>4
<1>2. Pending' = Pending /\ JobOK'
  BY <1>1 DEF Pending, JobOK, IInv, chainVars
<1> QED
  BY <1>1, <1>2, IndexerStep DEF IInv, TypeOK

LEMMA InitInv == Init => IInv
<1> SUFFICES ASSUME Init PROVE IInv
  OBVIOUS
<1>1. /\ log = <<>> /\ log \in Seq(Event) /\ Len(log) = 0 /\ DOMAIN log = {}
      /\ index = Blank /\ file = Blank /\ job.step = "idle"
  BY DEF Init, Idle
<1>2. /\ Blank.scanned = 0 /\ Blank.owner = [t \in Token |-> None]
      /\ Blank.editors = [t \in Token |-> {}] /\ Blank.shared = [w \in Wallet |-> {}]
  BY DEF Blank
<1>3. Blank \in Index
  BY DEF Blank, Index, Holder
<1>4. TypeOK
  BY <1>1, <1>3, ConstantsAssumption DEF Init, TypeOK, Holder
<1>5. \A t \in Token : HeldAfter(log, t, 0, None)
  BY <1>1 DEF HeldAfter
<1>6. \A t \in Token : ChainOK(log, t, owner[t], editors[t])
  BY <1>1, <1>5, ConstantsAssumption DEF Init, ChainOK
<1>7. \A p : IndexOK(log, owner, editors, Blank, p)
  BY <1>1, <1>2, <1>5 DEF Init, IndexOK, Covered
<1>8. JobOK
  BY <1>1 DEF JobOK
<1> QED
  BY <1>1, <1>4, <1>6, <1>7, <1>8 DEF IInv

LEMMA StepInv == IInv /\ [Next]_vars => IInv'
<1> SUFFICES ASSUME IInv, [Next]_vars PROVE IInv'
  OBVIOUS
<1>1. ASSUME NEW t \in Token, Publish(t) \/ Transfer(t) \/ UpdateEditors(t) \/ Burn(t)
      PROVE  IInv'
  BY <1>1, ChainInv
<1>2. CASE Start \/ Fetched \/ Rejected \/ FetchFails \/ SetEditors \/ Save
  BY <1>2, StartInv, FetchedInv, RejectedInv, FetchFailsInv, SetEditorsInv, SaveInv
<1>3. ASSUME NEW t \in Token, ReadList(t) \/ RefreshFails(t) PROVE IInv'
  BY <1>3, ReadListInv, RefreshFailsInv
<1>4. CASE Restart
  BY <1>4, RestartInv
<1>5. CASE Ask \/ AtTip \/ GiveUp \/ UNCHANGED vars
  BY <1>5, AskingInv
<1> QED
  BY <1>1, <1>2, <1>3, <1>4, <1>5 DEF Next, CatchUp

---------------------------------------------------------------------------
LEMMA Invariant == Spec => []IInv
  BY InitInv, StepInv, PTL DEF Spec

(* Everything has its type; the width of a chunk stays between one block and *)
(* the ceiling, however it is widened and shrunk.  token-indexer.ts:         *)
(* _growChunk, _shrinkChunk.                                                 *)
THEOREM TypeCorrect == Spec => []TypeOK
<1>1. IInv => TypeOK
  BY DEF IInv
<1> QED
  BY <1>1, Invariant, PTL

(* A block has one last move of a token.                                   *)
LEMMA OneHolder ==
    ASSUME NEW L \in Seq(Event), NEW t \in Token, NEW s \in Nat, NEW h, NEW k,
           HeldAfter(L, t, s, h), HeldAfter(L, t, s, k)
    PROVE  h = k
<1>1. DOMAIN L = 1 .. Len(L) /\ Len(L) \in Nat
  OBVIOUS
<1>2. \A m, n \in DOMAIN L : m <= n /\ n <= m => m = n
  BY <1>1
<1> QED
  BY <1>2 DEF HeldAfter

(* Whatever the chunks, the crashes, the failed saves and the events between *)
(* a log and the list that is read for it: an index at the tip has the       *)
(* owners of the chain, and its Editors but for the lists it could not read. *)
(* token-indexer.ts: _catchUp, _applyLogs, _refreshEditorSets, _saveState.   *)
THEOREM Current == Spec => []IndexIsCurrent
<1>1. IInv => IndexIsCurrent
  <2> SUFFICES ASSUME IInv, AtRest, NEW t \in Token
               PROVE  /\ index.owner[t] = owner[t]
                      /\ t \notin index.missed => index.editors[t] = editors[t]
    BY DEF IndexIsCurrent
  <2>1. TypeOK /\ log \in Seq(Event) /\ Len(log) \in Nat /\ DOMAIN log = 1 .. Len(log)
    BY DEF IInv, TypeOK
  <2>2. index.scanned = Len(log) /\ Pending = {}
    BY DEF AtRest, Tip, Pending, Idle
  <2>3. HeldAfter(log, t, Len(log), index.owner[t]) /\ HeldAfter(log, t, Len(log), owner[t])
    BY <2>2 DEF IInv, IndexOK, Covered, ChainOK
  <2>4. Settled(log, t, Len(log))
    BY <2>1 DEF Settled
  <2> QED
    BY <2>1, <2>2, <2>3, <2>4, OneHolder DEF IInv, IndexOK
<1> QED
  BY <1>1, Invariant, PTL

(* The two editor maps, from which a wallet's shared assets are answered,    *)
(* mirror each other in memory and in the file, and no burnt token is shared *)
(* at the tip, even where its last list could not be read.                   *)
(* token-indexer.ts: _setTokenEditors, _removeTokenEditors, getSharedTokens. *)
THEOREM Mirrored == Spec => []MapsAgree
<1>1. IInv => MapsAgree
  <2> SUFFICES ASSUME IInv PROVE MapsAgree
    OBVIOUS
  <2>1. \A ix \in {index, file}, t \in Token, w \in Wallet :
            t \in ix.shared[w] <=> w \in ix.editors[t]
    BY DEF IInv, IndexOK, Covered
  <2>2. ASSUME AtRest, NEW w \in Wallet, NEW t \in Shared(w) PROVE owner[t] \in Wallet
    <3>1. /\ TypeOK /\ log \in Seq(Event) /\ Len(log) \in Nat /\ DOMAIN log = 1 .. Len(log)
          /\ index \in Index /\ owner \in [Token -> Holder]
      BY DEF IInv, TypeOK
    <3>2. t \in Token /\ t \in index.shared[w] /\ index.owner[t] # None
      BY <2>2, <3>1 DEF Shared, Index
    <3>3. index.scanned = Len(log)
      BY <2>2 DEF AtRest, Tip
    <3>4. HeldAfter(log, t, Len(log), index.owner[t]) /\ HeldAfter(log, t, Len(log), owner[t])
      BY <3>2, <3>3 DEF IInv, IndexOK, Covered, ChainOK
    <3>5. owner[t] # None
      BY <3>1, <3>2, <3>4, OneHolder
    <3>6. Settled(log, t, index.scanned)
      BY <3>1, <3>3 DEF Settled
    <3>7. index.editors[t] # {}
      BY <2>1, <3>2
    <3>8. owner[t] # Zero
      BY <3>2, <3>6, <3>7 DEF IInv, IndexOK, Covered
    <3> QED
      BY <3>1, <3>2, <3>5, <3>8 DEF Holder
  <2> QED
    BY <2>1, <2>2 DEF MapsAgree
<1> QED
  BY <1>1, Invariant, PTL
=============================================================================
