---------------------------- MODULE IpfsGCProofs ----------------------------
(* Proofs about IpfsGC, for any contents, tokens, runs and times.            *)
EXTENDS IpfsGC, TLAPS

------------------------------------------------------------------------------
(* Types. *)

LEMMA InitTyped == Init => TypeOK
  BY ConstantsAssumption DEF Init, TypeOK, NoDraft, NoMarks, Marks, Off

LEMMA ScanTyped ==
    ASSUME TypeOK, NEW k \in Chain, NEW since \in Nat, NEW live \in BOOLEAN,
           NEW left \in SUBSET Token, NEW reached \in SUBSET Cid,
           NEW failed \in BOOLEAN
    PROVE  Scan(k, since, live, left, reached, failed) \in Scanning
  BY DEF Scan, Scanning

LEMMA SweepTyped ==
    ASSUME NEW k \in Chain, NEW since \in Nat, NEW todo \in SUBSET Cid,
           NEW next \in [Chain -> Marks]
    PROVE  Sweep(k, since, todo, next) \in Sweeping
  BY DEF Sweep, Sweeping

(* What a run holds, by its stage. *)
LEMMA ScanIsTyped ==
    ASSUME TypeOK, NEW r \in Run, run[r].stage = "scan"
    PROVE  run[r] \in Scanning
  BY DEF TypeOK, Off, Sweeping

LEMMA SweepIsTyped ==
    ASSUME TypeOK, NEW r \in Run, run[r].stage = "sweep"
    PROVE  run[r] \in Sweeping
  BY DEF TypeOK, Off, Scanning

LEMMA MarkedTyped ==
    ASSUME NEW orphans, NEW previous \in Marks, NEW since \in Nat
    PROVE  Marked(orphans, previous, since) \in Marks
  BY DEF Marked, Marks

LEMMA PointsTyped ==
    ASSUME TypeOK, NEW t \in Token, NEW cids \in SUBSET Cid, Points(t, cids)
    PROVE  reach' \in [Token -> SUBSET Cid] /\ idle' \in [Cid -> Nat]
  BY DEF Points, TypeOK

LEMMA BecomesTyped ==
    ASSUME TypeOK, NEW r \in Run, NEW g \in Scanning \cup Sweeping \cup {Off},
           Becomes(r, g),
           UNCHANGED <<now, uploaded, idle, draft, reach, marks>>,
           pinned' \in SUBSET Cid
    PROVE  TypeOK'
  BY DEF Becomes, TypeOK

LEMMA TypeStep == TypeOK /\ [Next]_vars => TypeOK'
  <1> SUFFICES ASSUME TypeOK, [Next]_vars PROVE TypeOK'
    OBVIOUS
  <1>1. ASSUME NEW t \in Token, Upload(t) PROVE TypeOK'
    <2>1. PICK new \in SUBSET Cid, linked \in SUBSET Reached :
              /\ pinned' = pinned \cup new
              /\ uploaded' = uploaded \cup new
              /\ idle' = [c \in Cid |-> IF c \in new THEN now ELSE idle[c]]
              /\ draft' = [draft EXCEPT
                              ![t] = [cids |-> new \cup linked, at |-> now]]
      BY <1>1 DEF Upload
    <2>2. Reached \in SUBSET Cid
      BY DEF Reached, TypeOK
    <2>3. new \cup linked \in SUBSET Cid
      BY <2>2
    <2>4. draft' \in [Token -> [cids: SUBSET Cid, at: Nat]]
      BY <2>1, <2>3 DEF TypeOK
    <2> QED
      BY <1>1, <2>1, <2>4 DEF Upload, TypeOK
  <1>2. ASSUME NEW t \in Token, Land(t) PROVE TypeOK'
    <2>1. PICK kept \in SUBSET reach[t] : Points(t, kept \cup draft[t].cids)
      BY <1>2 DEF Land
    <2>2. kept \cup draft[t].cids \in SUBSET Cid
      BY DEF TypeOK
    <2>3. reach' \in [Token -> SUBSET Cid] /\ idle' \in [Cid -> Nat]
      BY <2>1, <2>2, PointsTyped
    <2>4. draft' \in [Token -> [cids: SUBSET Cid, at: Nat]]
      BY <1>2 DEF Land, TypeOK, NoDraft
    <2> QED
      BY <1>2, <2>3, <2>4 DEF Land, TypeOK
  <1>3. ASSUME NEW t \in Token, Discard(t) PROVE TypeOK'
    BY <1>3 DEF Discard, TypeOK, NoDraft
  <1>4. ASSUME NEW t \in Token, Burn(t) PROVE TypeOK'
    <2>1. reach' \in [Token -> SUBSET Cid] /\ idle' \in [Cid -> Nat]
      BY <1>4, PointsTyped DEF Burn
    <2> QED
      BY <1>4, <2>1 DEF Burn, TypeOK
  <1>5. ASSUME NEW r \in Run, Start(r) PROVE TypeOK'
    <2>1. PICK k \in Chain, live \in BOOLEAN :
              Becomes(r, Scan(k, now, live,
                              {t \in Token : Live(t) /\ ChainOf[t] = k},
                              {}, FALSE))
      BY <1>5 DEF Start
    <2>2. Scan(k, now, live, {t \in Token : Live(t) /\ ChainOf[t] = k},
               {}, FALSE) \in Scanning
      BY ScanTyped DEF TypeOK
    <2> QED
      BY <1>5, <2>1, <2>2, BecomesTyped DEF Start, TypeOK
  <1>6. ASSUME NEW r \in Run, NEW t \in Token, ReadToken(r, t) PROVE TypeOK'
    <2> DEFINE g == run[r]
    <2>1. g \in Scanning
      BY <1>6, ScanIsTyped DEF ReadToken
    <2>2. Scan(g.chain, g.since, g.live, g.left \ {t},
               g.reached \cup reach[t], g.failed) \in Scanning
      BY <2>1 DEF Scan, Scanning, TypeOK
    <2> QED
      BY <1>6, <2>2, BecomesTyped DEF ReadToken, TypeOK
  <1>7. ASSUME NEW r \in Run, NEW t \in Token, ReadFails(r, t) PROVE TypeOK'
    <2> DEFINE g == run[r]
    <2>1. g \in Scanning
      BY <1>7, ScanIsTyped DEF ReadFails
    <2>2. PICK part \in SUBSET reach[t] :
              Becomes(r, Scan(g.chain, g.since, g.live, g.left \ {t},
                              g.reached \cup part, TRUE))
      BY <1>7 DEF ReadFails
    <2>3. Scan(g.chain, g.since, g.live, g.left \ {t},
               g.reached \cup part, TRUE) \in Scanning
      BY <2>1 DEF Scan, Scanning, TypeOK
    <2> QED
      BY <1>7, <2>2, <2>3, BecomesTyped DEF ReadFails, TypeOK
  <1>8. ASSUME NEW r \in Run, List(r) PROVE TypeOK'
    <2> DEFINE g == run[r]
               orphans == pinned \ g.reached
    <2>1. g \in Scanning
      BY <1>8, ScanIsTyped DEF List
    <2>2. PICK file \in {marks, NoMarks} :
              \E todo \in SUBSET Cid :
                  Becomes(r, Sweep(g.chain, g.since, todo,
                      [file EXCEPT ![g.chain] =
                          Marked(orphans, file[g.chain], g.since)]))
      BY <1>8 DEF List, Eligible, TypeOK
    <2>3. PICK todo \in SUBSET Cid :
              Becomes(r, Sweep(g.chain, g.since, todo,
                  [file EXCEPT ![g.chain] =
                      Marked(orphans, file[g.chain], g.since)]))
      BY <2>2
    <2>4. file \in [Chain -> Marks] /\ g.chain \in Chain /\ g.since \in Nat
      BY <2>1 DEF TypeOK, NoMarks, Marks, Scanning
    <2>5. Marked(orphans, file[g.chain], g.since) \in Marks
      BY <2>4, MarkedTyped
    <2>6. Sweep(g.chain, g.since, todo,
                [file EXCEPT ![g.chain] =
                    Marked(orphans, file[g.chain], g.since)]) \in Sweeping
      BY <2>4, <2>5, SweepTyped
    <2> QED
      BY <1>8, <2>3, <2>6, BecomesTyped DEF List, TypeOK
  <1>9. ASSUME NEW r \in Run, NEW c \in Cid, Unpin(r, c) PROVE TypeOK'
    <2> DEFINE g == run[r]
    <2>1. g \in Sweeping
      BY <1>9, SweepIsTyped DEF Unpin
    <2>2. g.chain \in Chain /\ g.since \in Nat /\ g.todo \ {c} \in SUBSET Cid
          /\ g.next \in [Chain -> Marks]
      BY <2>1 DEF Sweeping
    <2>3. Forget(g.next, g.chain, c) \in [Chain -> Marks]
      BY <2>2 DEF Forget, Marks
    <2>4. Sweep(g.chain, g.since, g.todo \ {c}, Forget(g.next, g.chain, c))
              \in Sweeping
      BY <2>2, <2>3, SweepTyped
    <2> QED
      BY <1>9, <2>4, BecomesTyped DEF Unpin, TypeOK
  <1>10. ASSUME NEW r \in Run, NEW c \in Cid, UnpinFails(r, c) PROVE TypeOK'
    <2> DEFINE g == run[r]
    <2>1. g \in Sweeping
      BY <1>10, SweepIsTyped DEF UnpinFails
    <2>2. Sweep(g.chain, g.since, g.todo \ {c}, g.next) \in Sweeping
      BY <2>1, SweepTyped DEF Sweeping
    <2> QED
      BY <1>10, <2>2, BecomesTyped DEF UnpinFails, TypeOK
  <1>11. ASSUME NEW r \in Run, Commit(r) PROVE TypeOK'
    <2>1. run[r] \in Sweeping
      BY <1>11, SweepIsTyped DEF Commit
    <2> QED
      BY <1>11, <2>1 DEF Commit, Becomes, Sweeping, TypeOK
  <1>12. ASSUME NEW r \in Run, Stop(r) PROVE TypeOK'
    BY <1>12, BecomesTyped DEF Stop, TypeOK
  <1>13. CASE Tick
    BY <1>13 DEF Tick, TypeOK
  <1>14. CASE UNCHANGED vars
    BY <1>14 DEF vars, TypeOK
  <1> QED
    BY <1>1, <1>2, <1>3, <1>4, <1>5, <1>6, <1>7, <1>8, <1>9, <1>10, <1>11,
       <1>12, <1>13, <1>14 DEF Next, Step

(* Every reachable state has its types. *)
THEOREM Typed == Spec => []TypeOK
  BY InitTyped, TypeStep, PTL DEF Spec

------------------------------------------------------------------------------
(* Content in use is kept, if the grace period covers a publication and a    *)
(* run, drafts hold new content only and one chain uses the storage.  A run  *)
(* may miss content that is published, or moved, while it scans; the         *)
(* invariant says that it misses nothing that was settled when it began, and *)
(* that no mark is old enough to condemn the rest.                           *)

Origins ==
    /\ pinned \subseteq uploaded
    /\ \A c \in Cid : Alive(c) => c \in uploaded /\ c \in pinned

OnTime ==
    /\ \A c \in Cid : idle[c] <= now
    /\ \A t \in Token : draft[t] # NoDraft =>
          draft[t].at <= now /\ now <= draft[t].at + PublishTime
    /\ \A r \in Run : run[r] # Off =>
          run[r].since <= now /\ now <= run[r].since + RunTime

(* A draft's content is its own, and settled when the draft was made. *)
Fresh ==
    \A t \in Token : \A c \in draft[t].cids :
        /\ idle[c] = draft[t].at
        /\ c \notin Reached
        /\ \A u \in Token \ {t} : c \notin draft[u].cids

Dated(m) ==
    \A k \in Chain, c \in Cid : m[k][c] # NoMark =>
        /\ c \in uploaded
        /\ Alive(c) => idle[c] <= m[k][c] + RunTime

(* A scan without an error has reached, or will, what was settled before. *)
Complete(r) ==
    run[r].stage = "scan" /\ ~run[r].failed =>
        \A t \in Token : \A c \in reach[t] :
            idle[c] + PublishTime < run[r].since =>
                t \in run[r].left \/ c \in run[r].reached

Condemned(todo) == \A c \in todo : c \in uploaded /\ ~Alive(c)

Harmless(r) ==
    run[r].stage = "sweep" => Dated(run[r].next) /\ Condemned(run[r].todo)

IInv ==
    /\ TypeOK
    /\ Origins
    /\ OnTime
    /\ Fresh
    /\ Dated(marks)
    /\ \A r \in Run : Complete(r) /\ Harmless(r)

LEMMA InitInvariant == Init => IInv
  <1> SUFFICES ASSUME Init PROVE IInv
    OBVIOUS
  <1>1. \A c \in Cid : ~Alive(c)
    BY DEF Init, Alive, Reached, NoDraft
  <1>2. Dated(marks)
    BY ConstantsAssumption DEF Init, Dated, NoMarks
  <1>3. Fresh
    BY DEF Init, Fresh, NoDraft
  <1>4. OnTime
    BY DEF Init, OnTime, NoDraft, Off
  <1>5. \A r \in Run : Complete(r) /\ Harmless(r)
    BY DEF Init, Complete, Harmless, Off
  <1> QED
    BY <1>1, <1>2, <1>3, <1>4, <1>5, InitTyped DEF IInv, Init, Origins

(* What a step of a client or of the chain leaves alone: old content does    *)
(* not come to life, what lives on keeps its date, and what a token comes to *)
(* reach was settled a publication ago at most.                              *)
Orderly ==
    /\ uploaded \subseteq uploaded'
    /\ \A c \in Cid : Alive(c)' => Alive(c) \/ c \notin uploaded
    /\ \A c \in Cid : Alive(c) /\ Alive(c)' => idle'[c] = idle[c]
    /\ \A t \in Token : \A c \in reach'[t] :
          c \notin reach[t] => Alive(c) /\ now <= idle[c] + PublishTime

LEMMA OrderlyMarks ==
    ASSUME IInv, Orderly, NEW m \in [Chain -> Marks], Dated(m)
    PROVE  \A k \in Chain, c \in Cid : m[k][c] # NoMark =>
               /\ c \in uploaded'
               /\ Alive(c)' => idle'[c] <= m[k][c] + RunTime
  BY DEF Dated, Orderly

LEMMA OrderlySweeps ==
    ASSUME IInv, Orderly, NEW todo \in SUBSET Cid, Condemned(todo)
    PROVE  \A c \in todo : c \in uploaded' /\ ~Alive(c)'
  BY DEF Condemned, Orderly

LEMMA OrderlyScans ==
    ASSUME IInv, TypeOK', Orderly, UNCHANGED run, NEW r \in Run
    PROVE  Complete(r)'
  <1> SUFFICES ASSUME run[r].stage = "scan", ~run[r].failed,
                      NEW t \in Token, NEW c \in reach'[t],
                      idle'[c] + PublishTime < run[r].since
               PROVE  t \in run[r].left \/ c \in run[r].reached
    BY DEF Complete
  <1>1. c \in Cid /\ c \in Reached'
    BY DEF TypeOK, Reached
  <1>2. Alive(c)'
    BY <1>1 DEF Alive
  <1>3. run[r] \in Scanning
    BY ScanIsTyped DEF IInv
  <1>4. run[r] # Off
    BY DEF Off
  <1>5. run[r].since <= now /\ run[r].since \in Nat /\ now \in Nat
        /\ idle[c] \in Nat /\ idle'[c] \in Nat
    BY <1>1, <1>3, <1>4 DEF IInv, OnTime, Scanning, TypeOK
  <1>6. CASE c \in reach[t]
    <2>1. Alive(c)
      BY <1>1, <1>6 DEF Alive, Reached
    <2>2. idle'[c] = idle[c]
      BY <1>1, <1>2, <2>1 DEF Orderly
    <2> QED
      BY <1>6, <2>2 DEF IInv, Complete
  <1>7. CASE c \notin reach[t]
    <2>1. Alive(c) /\ now <= idle[c] + PublishTime
      BY <1>7 DEF Orderly
    <2>2. idle'[c] = idle[c]
      BY <1>1, <1>2, <2>1 DEF Orderly
    <2> QED
      BY <1>5, <2>1, <2>2, ConstantsAssumption
  <1> QED
    BY <1>6, <1>7

LEMMA ClientStep ==
    ASSUME IInv, TypeOK', Orderly, Origins', OnTime', Fresh',
           UNCHANGED <<marks, run>>
    PROVE  IInv'
  <1>1. Dated(marks)'
    BY OrderlyMarks DEF IInv, TypeOK, Dated
  <1>2. ASSUME NEW r \in Run PROVE Complete(r)'
    BY <1>2, OrderlyScans
  <1>3. ASSUME NEW r \in Run PROVE Harmless(r)'
    <2> SUFFICES ASSUME run[r].stage = "sweep"
                 PROVE  Dated(run[r].next)' /\ Condemned(run[r].todo)'
      BY DEF Harmless
    <2>1. run[r] \in Sweeping
      BY SweepIsTyped DEF IInv
    <2>2. run[r].next \in [Chain -> Marks] /\ run[r].todo \in SUBSET Cid
      BY <2>1 DEF Sweeping
    <2>3. Dated(run[r].next) /\ Condemned(run[r].todo)
      BY DEF IInv, Harmless
    <2>4. Dated(run[r].next)'
      BY <2>2, <2>3, OrderlyMarks DEF Dated
    <2>5. Condemned(run[r].todo)'
      BY <2>2, <2>3, OrderlySweeps DEF Condemned
    <2> QED
      BY <2>4, <2>5
  <1> QED
    BY <1>1, <1>2, <1>3 DEF IInv

(* Content that has a draft has one that is not empty. *)
LEMMA DraftIsMade ==
    ASSUME TypeOK, NEW t \in Token, NEW c \in draft[t].cids
    PROVE  draft[t] # NoDraft /\ c \in Cid
  BY DEF TypeOK, NoDraft

LEMMA UploadKeeps ==
    ASSUME ~Reuse, IInv, TypeOK', NEW t \in Token, Upload(t)
    PROVE  Orderly /\ Origins' /\ OnTime' /\ Fresh'
  <1>1. PICK new \in SUBSET Cid :
            /\ new \cap uploaded = {}
            /\ pinned' = pinned \cup new
            /\ uploaded' = uploaded \cup new
            /\ idle' = [c \in Cid |-> IF c \in new THEN now ELSE idle[c]]
            /\ draft' = [draft EXCEPT ![t] = [cids |-> new, at |-> now]]
            /\ UNCHANGED <<now, reach, marks, run>>
    <2>1. PICK new \in SUBSET Cid, linked \in SUBSET Reached :
              /\ new \cap uploaded = {} /\ linked = {}
              /\ pinned' = pinned \cup new
              /\ uploaded' = uploaded \cup new
              /\ idle' = [c \in Cid |-> IF c \in new THEN now ELSE idle[c]]
              /\ draft' = [draft EXCEPT
                              ![t] = [cids |-> new \cup linked, at |-> now]]
              /\ UNCHANGED <<now, reach, marks, run>>
      BY DEF Upload
    <2>2. new \cup linked = new
      BY <2>1
    <2> QED
      BY <2>1, <2>2
  <1>2. draft[t] = NoDraft
    BY DEF Upload
  <1>3. /\ draft'[t] = [cids |-> new, at |-> now]
        /\ \A u \in Token \ {t} : draft'[u] = draft[u]
    BY <1>1 DEF IInv, TypeOK
  <1>4. Reached' = Reached
    BY <1>1 DEF Reached
  <1>5. \A c \in Cid : Alive(c)' <=> Alive(c) \/ c \in new
    <2>1. draft[t].cids = {}
      BY <1>2 DEF NoDraft
    <2>2. draft'[t].cids = new
      BY <1>3
    <2> QED
      BY <1>3, <1>4, <2>1, <2>2 DEF Alive
  <1>6. \A c \in Cid : Alive(c) => c \notin new /\ c \in pinned
    BY <1>1 DEF IInv, Origins
  <1>7. Orderly
    BY <1>1, <1>5, <1>6 DEF Orderly, IInv, TypeOK
  <1>8. Origins'
    BY <1>1, <1>5, <1>6 DEF IInv, Origins
  <1>9. OnTime'
    <2>1. \A c \in Cid : idle'[c] <= now
      BY <1>1 DEF IInv, OnTime, TypeOK
    <2>2. \A u \in Token : draft'[u] # NoDraft =>
              draft'[u].at <= now /\ now <= draft'[u].at + PublishTime
      BY <1>3, ConstantsAssumption DEF IInv, OnTime, TypeOK
    <2> QED
      BY <1>1, <2>1, <2>2 DEF IInv, OnTime
  <1>10. Fresh'
    <2> SUFFICES ASSUME NEW u \in Token, NEW c \in draft'[u].cids
                 PROVE  /\ idle'[c] = draft'[u].at
                        /\ c \notin Reached'
                        /\ \A v \in Token \ {u} : c \notin draft'[v].cids
      BY DEF Fresh
    <2>1. c \in Cid
      BY DEF TypeOK
    <2>2. CASE u = t
      <3>1. c \in new
        BY <1>3, <2>2
      <3>2. ~Alive(c)
        BY <1>6, <2>1, <3>1
      <3>3. c \notin Reached /\ \A v \in Token : c \notin draft[v].cids
        BY <3>2 DEF Alive
      <3> QED
        BY <1>1, <1>3, <1>4, <2>1, <2>2, <3>1, <3>3
    <2>3. CASE u # t
      <3>1. c \in draft[u].cids /\ draft'[u] = draft[u]
        BY <1>3, <2>3
      <3>2. Alive(c)
        BY <3>1 DEF Alive
      <3>3. c \notin new /\ idle'[c] = idle[c]
        BY <1>1, <1>6, <2>1, <3>2
      <3>4. /\ idle[c] = draft[u].at
            /\ c \notin Reached
            /\ \A v \in Token \ {u} : c \notin draft[v].cids
        BY <3>1 DEF IInv, Fresh
      <3> QED
        BY <1>3, <1>4, <3>1, <3>3, <3>4
    <2> QED
      BY <2>2, <2>3
  <1> QED
    BY <1>7, <1>8, <1>9, <1>10

(* What Points does, for each content. *)
LEMMA PointsMoves ==
    ASSUME TypeOK, NEW t \in Token, NEW cids \in SUBSET Cid, Points(t, cids)
    PROVE  /\ reach'[t] = cids
           /\ \A u \in Token \ {t} : reach'[u] = reach[u]
           /\ \A c \in Cid : idle'[c] =
                  IF c \in Reached /\ c \notin Reached' THEN now ELSE idle[c]
  <1>1. reach' = [reach EXCEPT ![t] = cids]
    BY DEF Points
  <1>2. \A c \in Cid :
            (\A u \in Token : c \notin reach'[u]) <=> c \notin Reached'
    BY DEF Reached
  <1>3. idle' = [c \in Cid |->
            IF c \in Reached /\ c \notin Reached' THEN now ELSE idle[c]]
    BY <1>2 DEF Points
  <1> QED
    BY <1>1, <1>3 DEF TypeOK

(* Of what is in use, dates change for what is dropped, by whichever call. *)
LEMMA PointsOnTime ==
    ASSUME IInv, NEW t \in Token, NEW cids \in SUBSET Cid, Points(t, cids),
           UNCHANGED now
    PROVE  \A c \in Cid : idle'[c] <= now
  BY PointsMoves DEF IInv, OnTime, TypeOK

LEMMA LandKeeps ==
    ASSUME IInv, TypeOK', NEW t \in Token, Land(t)
    PROVE  Orderly /\ Origins' /\ OnTime' /\ Fresh'
  <1>1. PICK kept \in SUBSET reach[t] : Points(t, kept \cup draft[t].cids)
    BY DEF Land
  <1> DEFINE cids == kept \cup draft[t].cids
  <1>2. TypeOK /\ cids \in SUBSET Cid
    BY DEF IInv, TypeOK
  <1>3. /\ reach'[t] = cids
        /\ \A u \in Token \ {t} : reach'[u] = reach[u]
        /\ \A c \in Cid : idle'[c] =
               IF c \in Reached /\ c \notin Reached' THEN now ELSE idle[c]
    BY <1>1, <1>2, PointsMoves
  <1>4. /\ draft'[t] = NoDraft
        /\ \A u \in Token \ {t} : draft'[u] = draft[u]
        /\ UNCHANGED <<now, pinned, uploaded, marks, run>>
    BY <1>2 DEF Land, TypeOK
  <1>5. draft'[t].cids = {}
    BY <1>4 DEF NoDraft
  <1>6. \A c \in Reached' : c \in Reached \/ c \in draft[t].cids
    BY <1>3 DEF Reached
  <1>7. \A c \in Cid : Alive(c)' => Alive(c)
    BY <1>4, <1>5, <1>6 DEF Alive
  <1>8. ASSUME NEW c \in Cid, Alive(c)' PROVE idle'[c] = idle[c]
    <2>1. CASE c \in Reached'
      BY <1>3, <2>1
    <2>2. CASE c \notin Reached'
      <3>1. PICK u \in Token : c \in draft'[u].cids
        BY <1>8, <2>2 DEF Alive
      <3>2. c \in draft[u].cids
        BY <1>4, <1>5, <3>1
      <3>3. c \notin Reached
        BY <3>2 DEF IInv, Fresh
      <3> QED
        BY <1>3, <3>3
    <2> QED
      BY <2>1, <2>2
  <1>9. ASSUME NEW u \in Token, NEW c \in reach'[u], c \notin reach[u]
        PROVE  Alive(c) /\ now <= idle[c] + PublishTime
    <2>1. u = t /\ c \in draft[t].cids
      BY <1>3, <1>9
    <2>2. draft[t] # NoDraft
      BY <1>2, <2>1, DraftIsMade
    <2>3. idle[c] = draft[t].at /\ now <= draft[t].at + PublishTime
      BY <2>1, <2>2 DEF IInv, Fresh, OnTime
    <2> QED
      BY <2>1, <2>3 DEF Alive
  <1>10. Orderly
    BY <1>4, <1>7, <1>8, <1>9 DEF Orderly
  <1>11. Origins'
    BY <1>4, <1>7 DEF IInv, Origins
  <1>12. OnTime'
    <2>1. \A c \in Cid : idle'[c] <= now
      BY <1>1, <1>2, <1>4, PointsOnTime
    <2>2. \A u \in Token : draft'[u] # NoDraft =>
              draft'[u].at <= now /\ now <= draft'[u].at + PublishTime
      BY <1>4 DEF IInv, OnTime
    <2> QED
      BY <1>4, <2>1, <2>2 DEF IInv, OnTime
  <1>13. Fresh'
    <2> SUFFICES ASSUME NEW u \in Token, NEW c \in draft'[u].cids
                 PROVE  /\ idle'[c] = draft'[u].at
                        /\ c \notin Reached'
                        /\ \A v \in Token \ {u} : c \notin draft'[v].cids
      BY DEF Fresh
    <2>1. u # t /\ c \in draft[u].cids /\ draft'[u] = draft[u]
      BY <1>4, <1>5
    <2>2. /\ idle[c] = draft[u].at
          /\ c \notin Reached
          /\ \A v \in Token \ {u} : c \notin draft[v].cids
      BY <2>1 DEF IInv, Fresh
    <2>3. c \in Cid /\ c \notin Reached'
      BY <1>2, <1>6, <2>1, <2>2, DraftIsMade
    <2> QED
      BY <1>3, <1>4, <1>5, <2>1, <2>2, <2>3
  <1> QED
    BY <1>10, <1>11, <1>12, <1>13

LEMMA DiscardKeeps ==
    ASSUME IInv, TypeOK', NEW t \in Token, Discard(t)
    PROVE  Orderly /\ Origins' /\ OnTime' /\ Fresh'
  <1>1. /\ draft'[t] = NoDraft
        /\ \A u \in Token \ {t} : draft'[u] = draft[u]
        /\ UNCHANGED <<now, pinned, uploaded, idle, reach, run>>
    BY DEF Discard, IInv, TypeOK
  <1>2. draft'[t].cids = {}
    BY <1>1 DEF NoDraft
  <1>3. Reached' = Reached
    BY <1>1 DEF Reached
  <1>4. \A c \in Cid : Alive(c)' => Alive(c)
    BY <1>1, <1>2, <1>3 DEF Alive
  <1>5. Orderly
    BY <1>1, <1>4 DEF Orderly
  <1>6. Origins'
    BY <1>1, <1>4 DEF IInv, Origins
  <1>7. OnTime'
    BY <1>1 DEF IInv, OnTime
  <1>8. Fresh'
    BY <1>1, <1>2, <1>3 DEF IInv, Fresh
  <1> QED
    BY <1>5, <1>6, <1>7, <1>8

LEMMA BurnKeeps ==
    ASSUME IInv, TypeOK', NEW t \in Token, Burn(t)
    PROVE  Orderly /\ Origins' /\ OnTime' /\ Fresh'
  <1>1. TypeOK /\ Points(t, {}) /\ UNCHANGED <<now, pinned, uploaded, draft, run>>
    BY DEF Burn, IInv
  <1>2. /\ \A u \in Token : reach'[u] \subseteq reach[u]
        /\ \A c \in Cid : idle'[c] =
               IF c \in Reached /\ c \notin Reached' THEN now ELSE idle[c]
    BY <1>1, PointsMoves
  <1>3. Reached' \subseteq Reached
    BY <1>2 DEF Reached
  <1>4. \A c \in Cid : Alive(c)' => Alive(c)
    BY <1>1, <1>3 DEF Alive
  <1>5. \A c \in Cid : Alive(c)' => idle'[c] = idle[c]
    BY <1>1, <1>2 DEF Alive, IInv, Fresh
  <1>6. Orderly
    BY <1>1, <1>2, <1>4, <1>5 DEF Orderly
  <1>7. Origins'
    BY <1>1, <1>4 DEF IInv, Origins
  <1>8. OnTime'
    <2>1. \A c \in Cid : idle'[c] <= now
      BY <1>1, PointsOnTime
    <2> QED
      BY <1>1, <2>1 DEF IInv, OnTime
  <1>9. Fresh'
    BY <1>1, <1>2, <1>3, DraftIsMade DEF IInv, Fresh
  <1> QED
    BY <1>6, <1>7, <1>8, <1>9

LEMMA TickKeeps ==
    ASSUME IInv, TypeOK', Tick
    PROVE  Orderly /\ Origins' /\ OnTime' /\ Fresh'
  <1>1. UNCHANGED <<pinned, uploaded, idle, draft, reach, run>> /\ now' = now + 1
    BY DEF Tick
  <1>2. Reached' = Reached /\ \A c \in Cid : Alive(c)' <=> Alive(c)
    BY <1>1 DEF Reached, Alive
  <1>3. Orderly
    BY <1>1, <1>2 DEF Orderly
  <1>4. Origins'
    BY <1>1, <1>2 DEF IInv, Origins
  <1>5. OnTime'
    <2>1. now \in Nat /\ \A c \in Cid : idle[c] \in Nat
      BY DEF IInv, TypeOK
    <2>2. \A c \in Cid : idle'[c] <= now'
      BY <1>1, <2>1 DEF IInv, OnTime
    <2>3. \A t \in Token : draft[t] # NoDraft =>
              draft[t].at <= now' /\ now' <= draft[t].at + PublishTime
      <3> SUFFICES ASSUME NEW t \in Token, draft[t] # NoDraft
                   PROVE  draft[t].at <= now' /\ now' <= draft[t].at + PublishTime
        OBVIOUS
      <3>1. draft[t].at \in Nat /\ draft[t].at <= now
            /\ now < draft[t].at + PublishTime
        BY DEF IInv, OnTime, TypeOK, Tick
      <3> QED
        BY <1>1, <2>1, <3>1, ConstantsAssumption
    <2>4. \A r \in Run : run[r] # Off =>
              run[r].since <= now' /\ now' <= run[r].since + RunTime
      <3> SUFFICES ASSUME NEW r \in Run, run[r] # Off
                   PROVE  run[r].since <= now' /\ now' <= run[r].since + RunTime
        OBVIOUS
      <3>1. run[r].since \in Nat
        BY DEF IInv, TypeOK, Scanning, Sweeping
      <3>2. run[r].since <= now /\ now < run[r].since + RunTime
        BY DEF IInv, OnTime, Tick
      <3> QED
        BY <1>1, <2>1, <3>1, <3>2, ConstantsAssumption
    <2> QED
      BY <1>1, <2>2, <2>3, <2>4 DEF OnTime
  <1>6. Fresh'
    BY <1>1, <1>2 DEF IInv, Fresh
  <1> QED
    BY <1>3, <1>4, <1>5, <1>6

(* A step of a run: what it comes to hold, and what it writes. *)
LEMMA RunStep ==
    ASSUME IInv, TypeOK', NEW r \in Run, NEW g \in Scanning \cup Sweeping \cup {Off},
           Becomes(r, g),
           UNCHANGED <<now, uploaded, idle, draft, reach>>,
           pinned' \subseteq pinned,
           \A c \in Cid : Alive(c) => c \in pinned',
           Dated(marks'),
           g # Off => g.since <= now /\ now <= g.since + RunTime,
           g.stage = "scan" /\ ~g.failed =>
               \A t \in Token : \A c \in reach[t] :
                   idle[c] + PublishTime < g.since =>
                       t \in g.left \/ c \in g.reached,
           g.stage = "sweep" => Dated(g.next) /\ Condemned(g.todo)
    PROVE  IInv'
  <1>1. /\ run'[r] = g
        /\ \A q \in Run \ {r} : run'[q] = run[q]
    BY DEF Becomes, IInv, TypeOK
  <1>2. Reached' = Reached
    BY DEF Reached
  <1>3. \A c \in Cid : Alive(c)' <=> Alive(c)
    BY <1>2 DEF Alive
  <1>4. Origins'
    BY <1>3 DEF IInv, Origins
  <1>5. OnTime'
    BY <1>1 DEF IInv, OnTime
  <1>6. Fresh'
    BY <1>2 DEF IInv, Fresh
  <1>7. Dated(marks)'
    BY <1>3 DEF Dated
  <1>8. ASSUME NEW q \in Run PROVE Complete(q)'
    BY <1>1 DEF IInv, Complete
  <1>9. ASSUME NEW q \in Run PROVE Harmless(q)'
    <2> SUFFICES ASSUME run'[q].stage = "sweep"
                 PROVE  Dated(run[q].next)' /\ Condemned(run[q].todo)'
      BY DEF Harmless
    <2>1. Dated(run'[q].next) /\ Condemned(run'[q].todo)
      BY <1>1 DEF IInv, Harmless
    <2>2. run'[q].todo \in SUBSET Cid
      BY DEF TypeOK, Scanning, Sweeping, Off
    <2>3. Dated(run[q].next)'
      BY <1>3, <2>1 DEF Dated
    <2>4. Condemned(run[q].todo)'
      BY <1>3, <2>1, <2>2 DEF Condemned
    <2> QED
      BY <2>3, <2>4
  <1> QED
    BY <1>4, <1>5, <1>6, <1>7, <1>8, <1>9 DEF IInv

(* What a scan or a sweep is known to satisfy. *)
LEMMA ScanHolds ==
    ASSUME IInv, NEW r \in Run, run[r].stage = "scan"
    PROVE  /\ run[r] \in Scanning /\ run[r] # Off
           /\ run[r].since \in Nat /\ now \in Nat
           /\ run[r].since <= now /\ now <= run[r].since + RunTime
  <1>1. run[r] \in Scanning /\ run[r] # Off
    BY ScanIsTyped DEF IInv, Off
  <1> QED
    BY <1>1 DEF IInv, OnTime, TypeOK, Scanning

LEMMA SweepHolds ==
    ASSUME IInv, NEW r \in Run, run[r].stage = "sweep"
    PROVE  /\ run[r] \in Sweeping /\ run[r] # Off
           /\ run[r].since <= now /\ now <= run[r].since + RunTime
           /\ Dated(run[r].next) /\ Condemned(run[r].todo)
  <1>1. run[r] \in Sweeping /\ run[r] # Off
    BY SweepIsTyped DEF IInv, Off
  <1> QED
    BY <1>1 DEF IInv, OnTime, Harmless

LEMMA StartKeeps ==
    ASSUME OneChain, IInv, TypeOK', NEW r \in Run, Start(r)
    PROVE  IInv'
  <1>1. PICK k \in Chain, live \in BOOLEAN :
            Becomes(r, Scan(k, now, live,
                            {t \in Token : Live(t) /\ ChainOf[t] = k},
                            {}, FALSE))
    BY DEF Start
  <1> DEFINE left == {t \in Token : Live(t) /\ ChainOf[t] = k}
             g == Scan(k, now, live, left, {}, FALSE)
  <1>2. g \in Scanning
    BY ScanTyped DEF IInv, TypeOK
  <1>3. g.since = now /\ g.left = left /\ g.stage = "scan"
    BY DEF Scan
  <1>4. \A t \in Token : \A c \in reach[t] : t \in left
    BY DEF OneChain, Live
  <1>5. now <= now + RunTime /\ now <= now
    BY ConstantsAssumption DEF IInv, TypeOK
  <1>6. /\ UNCHANGED <<now, pinned, uploaded, idle, draft, reach, marks>>
        /\ Dated(marks)
        /\ \A c \in Cid : Alive(c) => c \in pinned
    BY DEF Start, IInv, Origins
  <1>7. Becomes(r, g)
    BY <1>1
  <1> HIDE DEF g
  <1> QED
    BY <1>2, <1>3, <1>4, <1>5, <1>6, <1>7, RunStep

LEMMA ReadTokenKeeps ==
    ASSUME IInv, TypeOK', NEW r \in Run, NEW t \in Token, ReadToken(r, t)
    PROVE  IInv'
  <1> DEFINE h == run[r]
             g == Scan(h.chain, h.since, h.live, h.left \ {t},
                       h.reached \cup reach[t], h.failed)
  <1>1. /\ h \in Scanning /\ h.stage = "scan"
        /\ h.since <= now /\ now <= h.since + RunTime
    BY ScanHolds DEF ReadToken
  <1>2. g \in Scanning
    BY <1>1 DEF Scan, Scanning, IInv, TypeOK
  <1>3. /\ g.since = h.since /\ g.left = h.left \ {t} /\ g.failed = h.failed
        /\ g.reached = h.reached \cup reach[t] /\ g.stage = "scan"
    BY DEF Scan
  <1>4. ASSUME ~h.failed, NEW u \in Token, NEW c \in reach[u],
               idle[c] + PublishTime < h.since
        PROVE  u \in h.left \ {t} \/ c \in h.reached \cup reach[t]
    BY <1>1, <1>4 DEF IInv, Complete
  <1>5. /\ UNCHANGED <<now, pinned, uploaded, idle, draft, reach, marks>>
        /\ Dated(marks)
        /\ \A c \in Cid : Alive(c) => c \in pinned
        /\ Becomes(r, g)
    BY DEF ReadToken, IInv, Origins
  <1> HIDE DEF g
  <1> QED
    BY <1>1, <1>2, <1>3, <1>4, <1>5, RunStep

LEMMA ReadFailsKeeps ==
    ASSUME IInv, TypeOK', NEW r \in Run, NEW t \in Token, ReadFails(r, t)
    PROVE  IInv'
  <1> DEFINE h == run[r]
  <1>1. /\ h \in Scanning
        /\ h.since <= now /\ now <= h.since + RunTime
    BY ScanHolds DEF ReadFails
  <1>2. PICK part \in SUBSET reach[t] :
            Becomes(r, Scan(h.chain, h.since, h.live, h.left \ {t},
                            h.reached \cup part, TRUE))
    BY DEF ReadFails
  <1> DEFINE g == Scan(h.chain, h.since, h.live, h.left \ {t},
                       h.reached \cup part, TRUE)
  <1>3. g \in Scanning
    BY <1>1 DEF Scan, Scanning, IInv, TypeOK
  <1>4. g.since = h.since /\ g.failed /\ g.stage = "scan"
    BY DEF Scan
  <1>5. /\ UNCHANGED <<now, pinned, uploaded, idle, draft, reach, marks>>
        /\ Dated(marks)
        /\ \A c \in Cid : Alive(c) => c \in pinned
    BY DEF ReadFails, IInv, Origins
  <1>6. Becomes(r, g)
    BY <1>2
  <1> HIDE DEF g
  <1> QED
    BY <1>1, <1>3, <1>4, <1>5, <1>6, RunStep

(* The heart of it: what a sure run lists and finds eligible is not in use.  *)
LEMMA EligibleIsCondemned ==
    ASSUME IInv, GraceCovers, NEW r \in Run, run[r].stage = "scan",
           run[r].left = {}, ~run[r].failed,
           NEW previous \in Marks,
           \A c \in Cid : previous[c] # NoMark /\ Alive(c) =>
               idle[c] <= previous[c] + RunTime,
           NEW c \in Eligible(pinned \ run[r].reached,
                              Marked(pinned \ run[r].reached, previous,
                                     run[r].since), run[r].since)
    PROVE  c \in uploaded /\ ~Alive(c)
  <1> DEFINE g == run[r]
             mark == Marked(pinned \ g.reached, previous, g.since)
  <1>1. g.since \in Nat /\ now \in Nat /\ g.since <= now
    BY ScanHolds
  <1>2. /\ c \in pinned /\ c \notin g.reached
        /\ g.since >= mark[c] + GraceTime
    BY DEF Eligible
  <1>3. c \in Cid /\ c \in uploaded
    BY <1>2 DEF IInv, Origins, TypeOK
  <1>4. mark[c] = IF previous[c] = NoMark THEN g.since ELSE previous[c]
    BY <1>2, <1>3 DEF Marked
  <1>5. previous[c] # NoMark /\ previous[c] \in Nat /\ mark[c] = previous[c]
    <2>1. PublishTime + RunTime < GraceTime /\ PublishTime \in Nat
          /\ RunTime \in Nat /\ GraceTime \in Nat
      BY ConstantsAssumption DEF GraceCovers
    <2>2. previous[c] = NoMark => FALSE
      BY <1>1, <1>2, <1>4, <2>1
    <2> QED
      BY <1>3, <1>4, <2>2 DEF Marks
  <1>6. SUFFICES ASSUME Alive(c) PROVE FALSE
    BY <1>3
  <1>7. idle[c] <= previous[c] + RunTime /\ idle[c] \in Nat
    BY <1>3, <1>5, <1>6 DEF IInv, TypeOK
  <1>8. idle[c] + PublishTime < g.since
    <2> HIDE DEF g, mark
    <2> QED
      BY <1>1, <1>2, <1>5, <1>7, ConstantsAssumption DEF GraceCovers
  <1>9. CASE \E t \in Token : c \in draft[t].cids
    <2>1. PICK t \in Token : c \in draft[t].cids
      BY <1>9
    <2>2. draft[t] # NoDraft
      BY <2>1, DraftIsMade DEF IInv
    <2>3. idle[c] = draft[t].at /\ now <= draft[t].at + PublishTime
      BY <2>1, <2>2 DEF IInv, Fresh, OnTime
    <2> QED
      BY <1>1, <1>7, <1>8, <2>3, ConstantsAssumption
  <1>10. CASE c \in Reached
    <2>1. PICK t \in Token : c \in reach[t]
      BY <1>10 DEF Reached
    <2>2. t \in g.left \/ c \in g.reached
      BY <1>8, <2>1 DEF IInv, Complete
    <2> QED
      BY <1>2, <2>2
  <1> QED
    BY <1>6, <1>9, <1>10 DEF Alive

LEMMA ListKeeps ==
    ASSUME GraceCovers, IInv, TypeOK', NEW r \in Run, List(r)
    PROVE  IInv'
  <1> DEFINE h == run[r]
             orphans == pinned \ h.reached
  <1>1. /\ h \in Scanning /\ h.stage = "scan" /\ h.left = {} /\ ~h.failed
        /\ h.chain \in Chain /\ h.since \in Nat
        /\ h.since <= now /\ now <= h.since + RunTime
    BY ScanHolds DEF List, Sure, Scanning
  <1>2. PICK file \in {marks, NoMarks} :
            \E todo \in SUBSET Eligible(orphans,
                  Marked(orphans, file[h.chain], h.since), h.since) :
                Becomes(r, Sweep(h.chain, h.since, todo,
                    [file EXCEPT ![h.chain] =
                        Marked(orphans, file[h.chain], h.since)]))
    BY DEF List
  <1> DEFINE mark == Marked(orphans, file[h.chain], h.since)
  <1>3. PICK todo \in SUBSET Eligible(orphans, mark, h.since) :
            Becomes(r, Sweep(h.chain, h.since, todo,
                             [file EXCEPT ![h.chain] = mark]))
    BY <1>2
  <1> DEFINE next == [file EXCEPT ![h.chain] = mark]
             g == Sweep(h.chain, h.since, todo, next)
  <1>4. file \in [Chain -> Marks] /\ Dated(file)
    BY DEF IInv, TypeOK, NoMarks, Marks, Dated
  <1>5. mark \in Marks
    BY <1>1, <1>4, MarkedTyped
  <1>6. orphans \subseteq Cid /\ orphans \subseteq uploaded
    BY DEF IInv, TypeOK, Origins
  <1>7. todo \in SUBSET Cid
    BY <1>6 DEF Eligible
  <1>8. g \in Sweeping
    BY <1>1, <1>4, <1>5, <1>7, SweepTyped
  <1>9. \A c \in Cid : file[h.chain][c] # NoMark /\ Alive(c) =>
            idle[c] <= file[h.chain][c] + RunTime
    BY <1>1, <1>4 DEF Dated
  <1>10. Condemned(todo)
    <2>1. file[h.chain] \in Marks
      BY <1>1, <1>4
    <2> QED
      BY <1>1, <1>3, <1>9, <2>1, EligibleIsCondemned DEF Condemned
  <1>11. Dated(next)
    <2> SUFFICES ASSUME NEW k \in Chain, NEW c \in Cid, next[k][c] # NoMark
                 PROVE  /\ c \in uploaded
                        /\ Alive(c) => idle[c] <= next[k][c] + RunTime
      BY DEF Dated
    <2>1. CASE k # h.chain
      <3>1. next[k] = file[k]
        BY <1>4, <2>1
      <3> QED
        BY <1>4, <3>1 DEF Dated
    <2>2. CASE k = h.chain
      <3>1. next[k] = mark
        BY <1>4, <2>2
      <3>2. c \in orphans
        BY <3>1 DEF Marked
      <3>3. mark[c] = IF file[h.chain][c] = NoMark THEN h.since
                      ELSE file[h.chain][c]
        BY <3>2 DEF Marked
      <3>4. idle[c] <= h.since + RunTime
        <4>1. idle[c] <= now /\ idle[c] \in Nat /\ now \in Nat
          BY DEF IInv, OnTime, TypeOK
        <4> QED
          BY <1>1, <4>1, ConstantsAssumption
      <3>5. Alive(c) => idle[c] <= mark[c] + RunTime
        BY <1>9, <3>3, <3>4
      <3> QED
        BY <1>6, <3>1, <3>2, <3>5
    <2> QED
      BY <2>1, <2>2
  <1>12. /\ UNCHANGED <<now, pinned, uploaded, idle, draft, reach, marks>>
         /\ Dated(marks)
         /\ \A c \in Cid : Alive(c) => c \in pinned
         /\ Becomes(r, g)
    BY <1>3 DEF List, IInv, Origins
  <1>13. g.stage = "sweep" /\ g.since = h.since /\ g.next = next /\ g.todo = todo
    BY DEF Sweep
  <1> HIDE DEF g, next, mark
  <1> QED
    BY <1>1, <1>8, <1>10, <1>11, <1>12, <1>13, RunStep

LEMMA UnpinKeeps ==
    ASSUME IInv, TypeOK', NEW r \in Run, NEW c \in Cid, Unpin(r, c)
    PROVE  IInv'
  <1> DEFINE h == run[r]
             g == Sweep(h.chain, h.since, h.todo \ {c},
                        Forget(h.next, h.chain, c))
  <1>1. /\ h \in Sweeping /\ h.since <= now /\ now <= h.since + RunTime
        /\ Dated(h.next) /\ Condemned(h.todo)
    BY SweepHolds DEF Unpin
  <1>2. /\ h.chain \in Chain /\ h.since \in Nat /\ h.todo \ {c} \in SUBSET Cid
        /\ h.next \in [Chain -> Marks]
    BY <1>1 DEF Sweeping
  <1>3. Forget(h.next, h.chain, c) \in [Chain -> Marks]
    BY <1>2 DEF Forget, Marks
  <1>4. g \in Sweeping
    BY <1>2, <1>3, SweepTyped
  <1>5. Dated(Forget(h.next, h.chain, c))
    BY <1>1, <1>2 DEF Dated, Forget, Marks
  <1>6. Condemned(h.todo \ {c}) /\ ~Alive(c)
    BY <1>1 DEF Condemned, Unpin
  <1>7. /\ UNCHANGED <<now, uploaded, idle, draft, reach, marks>>
        /\ pinned' = pinned \ {c}
        /\ Dated(marks)
        /\ Becomes(r, g)
    BY DEF Unpin, IInv
  <1>8. \A d \in Cid : Alive(d) => d \in pinned'
    BY <1>6, <1>7 DEF IInv, Origins
  <1>9. /\ g.stage = "sweep" /\ g.since = h.since /\ g.todo = h.todo \ {c}
        /\ g.next = Forget(h.next, h.chain, c)
    BY DEF Sweep
  <1> HIDE DEF g
  <1> QED
    BY <1>1, <1>4, <1>5, <1>6, <1>7, <1>8, <1>9, RunStep

LEMMA UnpinFailsKeeps ==
    ASSUME IInv, TypeOK', NEW r \in Run, NEW c \in Cid, UnpinFails(r, c)
    PROVE  IInv'
  <1> DEFINE h == run[r]
             g == Sweep(h.chain, h.since, h.todo \ {c}, h.next)
  <1>1. /\ h \in Sweeping /\ h.since <= now /\ now <= h.since + RunTime
        /\ Dated(h.next) /\ Condemned(h.todo)
    BY SweepHolds DEF UnpinFails
  <1>2. g \in Sweeping /\ Condemned(h.todo \ {c})
    BY <1>1, SweepTyped DEF Sweeping, Condemned
  <1>3. /\ UNCHANGED <<now, pinned, uploaded, idle, draft, reach, marks>>
        /\ Dated(marks)
        /\ \A d \in Cid : Alive(d) => d \in pinned
        /\ Becomes(r, g)
    BY DEF UnpinFails, IInv, Origins
  <1>4. /\ g.stage = "sweep" /\ g.since = h.since /\ g.todo = h.todo \ {c}
        /\ g.next = h.next
    BY DEF Sweep
  <1> HIDE DEF g
  <1> QED
    BY <1>1, <1>2, <1>3, <1>4, RunStep

LEMMA EndKeeps ==
    ASSUME IInv, TypeOK', NEW r \in Run, Commit(r) \/ Stop(r)
    PROVE  IInv'
  <1>1. Dated(marks')
    BY SweepHolds DEF Commit, Stop, IInv
  <1>2. /\ UNCHANGED <<now, pinned, uploaded, idle, draft, reach>>
        /\ Becomes(r, Off)
        /\ \A c \in Cid : Alive(c) => c \in pinned
    BY DEF Commit, Stop, IInv, Origins
  <1>3. Off.stage = "off"
    BY DEF Off
  <1> QED
    BY <1>1, <1>2, <1>3, RunStep

LEMMA InvariantStep ==
    ASSUME GraceCovers, ~Reuse, OneChain
    PROVE  IInv /\ [Next]_vars => IInv'
  <1> SUFFICES ASSUME IInv, [Next]_vars PROVE IInv'
    OBVIOUS
  <1>1. TypeOK'
    BY TypeStep DEF IInv
  <1>2. ASSUME NEW t \in Token, Upload(t) PROVE IInv'
    BY <1>1, <1>2, UploadKeeps, ClientStep DEF Upload
  <1>3. ASSUME NEW t \in Token, Land(t) PROVE IInv'
    BY <1>1, <1>3, LandKeeps, ClientStep DEF Land
  <1>4. ASSUME NEW t \in Token, Discard(t) PROVE IInv'
    BY <1>1, <1>4, DiscardKeeps, ClientStep DEF Discard
  <1>5. ASSUME NEW t \in Token, Burn(t) PROVE IInv'
    BY <1>1, <1>5, BurnKeeps, ClientStep DEF Burn
  <1>6. CASE Tick
    BY <1>1, <1>6, TickKeeps, ClientStep DEF Tick
  <1>7. ASSUME NEW r \in Run, Step(r) PROVE IInv'
    BY <1>1, <1>7, StartKeeps, ReadTokenKeeps, ReadFailsKeeps, ListKeeps,
       UnpinKeeps, UnpinFailsKeeps, EndKeeps DEF Step
  <1>8. CASE UNCHANGED vars
    <2>1. Reached' = Reached /\ \A c \in Cid : Alive(c)' <=> Alive(c)
      BY <1>8 DEF vars, Reached, Alive
    <2>2. Orderly
      BY <1>8, <2>1 DEF vars, Orderly
    <2>3. Origins' /\ OnTime' /\ Fresh'
      BY <1>8, <2>1 DEF vars, IInv, Origins, OnTime, Fresh
    <2> QED
      BY <1>1, <1>8, <2>2, <2>3, ClientStep DEF vars
  <1> QED
    BY <1>2, <1>3, <1>4, <1>5, <1>6, <1>7, <1>8 DEF Next

LEMMA Invariance ==
    ASSUME GraceCovers, ~Reuse, OneChain
    PROVE  Spec => []IInv
  BY InitInvariant, InvariantStep, PTL DEF Spec

(* What a live token reaches stays pinned, whatever runs and clients do      *)
(* between each other's steps.                                               *)
THEOREM LiveContentSurvives ==
    ASSUME GraceCovers, ~Reuse, OneChain
    PROVE  Spec => []LiveContentIsKept
  <1>1. IInv => LiveContentIsKept
    BY DEF IInv, TypeOK, Origins, Alive, Reached, LiveContentIsKept
  <1> QED
    BY <1>1, Invariance, PTL

(* So does what is uploaded and not yet published. *)
THEOREM InFlightContentSurvives ==
    ASSUME GraceCovers, ~Reuse, OneChain
    PROVE  Spec => []InFlightIsCovered
  <1>1. IInv => InFlightIsCovered
    BY DEF IInv, TypeOK, Origins, Alive, InFlightIsCovered
  <1> QED
    BY <1>1, Invariance, PTL

(* Whatever overlapping runs write back, no mark on content in use is older  *)
(* than the content by more than a run.                                      *)
THEOREM MarksAreNotOlder ==
    ASSUME GraceCovers, ~Reuse, OneChain
    PROVE  Spec => []NoMarkBeforeUpload
  <1>1. IInv => NoMarkBeforeUpload
    BY DEF IInv, Dated, NoMarkBeforeUpload
  <1> QED
    BY <1>1, Invariance, PTL
=============================================================================
