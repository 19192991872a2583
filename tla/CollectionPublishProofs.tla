---------------------- MODULE CollectionPublishProofs ----------------------
(* For any tokens, assets, writers and bounds: the documents and pointers of *)
(* CollectionPublish implement the table of Collections; everything is typed *)
(* and names what was written; a replaced document stays within reach; and   *)
(* what a living collection lists is pinned.  In that order, each on the     *)
(* invariants proved before it.                                              *)
EXTENDS CollectionPublish, WellFoundedInduction, TLAPS

(* The steps of a writer that hold something, as sets of their own.          *)
Targeted ==
    [at : {"targeted"}, token : Tokens, mint : BOOLEAN, base : DocIds \cup {None},
     asset : Assets, version : VersionIds]
Signing ==
    [at : {"signing"}, token : Tokens, mint : BOOLEAN, base : DocIds \cup {None},
     doc : DocIds, removed : VersionIds \cup {None}]
Unpinning == [at : {"unpinning"}, token : Tokens, version : VersionIds]
Burning == [at : {"burning"}, token : Tokens]

(* What the refinement rests on: all of it typed, apart from what is         *)
(* unpinned and the histories of LiveContentIsPinned ...                     *)
Typed ==
    /\ Assets # {}
    /\ docs \in Seq(Doc) /\ Len(docs) <= MaxDocs
    /\ versions \in Seq(Version) /\ Len(versions) <= MaxVersions
    /\ uri \in [Tokens -> 0 .. Len(docs)]
    /\ disturbed \in [Tokens -> Nat]
    /\ writer \in [Writers -> Writer]

(* ... and a change that waits for its signature is a change of one asset    *)
(* of the document it was merged into, both of them written.  Documents are  *)
(* only ever added, so it stays one.                                         *)
OneChange(base, doc) ==
    \E a \in Assets : \A x \in Assets \ {a} : docs[doc].assets[x] = AssetsOf(base)[x]

ChangeIsSmall ==
    \A w \in Writers :
        /\ writer[w].at = "targeted" =>
              /\ writer[w].base \in 0 .. Len(docs)
              /\ writer[w].mint => writer[w].base = None
        /\ writer[w].at = "signing" =>
              /\ writer[w].base \in 0 .. Len(docs)
              /\ writer[w].mint => writer[w].base = None
              /\ writer[w].doc \in 1 .. Len(docs)
              /\ OneChange(writer[w].base, writer[w].doc)

TableInv == Typed /\ ChangeIsSmall

----------------------------------------------------------------------------
LEMMA WriterSplits == Writer = {Idle} \cup Targeted \cup Signing \cup Unpinning \cup Burning
  BY DEF Writer, Targeted, Signing, Unpinning, Burning

LEMMA TargetedIsTyped ==
    ASSUME Typed, NEW w \in Writers, writer[w].at = "targeted"
    PROVE  writer[w] \in Targeted
  BY WriterSplits DEF Typed, Idle, Signing, Unpinning, Burning

LEMMA SigningIsTyped ==
    ASSUME Typed, NEW w \in Writers, writer[w].at = "signing"
    PROVE  writer[w] \in Signing
  BY WriterSplits DEF Typed, Idle, Targeted, Unpinning, Burning

LEMMA BurningIsTyped ==
    ASSUME Typed, NEW w \in Writers, writer[w].at = "burning"
    PROVE  writer[w] \in Burning
  BY WriterSplits DEF Typed, Idle, Targeted, Unpinning, Signing

LEMMA UnpinningIsTyped ==
    ASSUME Typed, NEW w \in Writers, writer[w].at = "unpinning"
    PROVE  writer[w] \in Unpinning
  BY WriterSplits DEF Typed, Idle, Targeted, Burning, Signing

(* What a document lists. *)
LEMMA AssetsTyped ==
    ASSUME Typed, NEW d \in 0 .. Len(docs)
    PROVE  AssetsOf(d) \in [Assets -> VersionIds \cup {None}]
<1>1. CASE d = None
  BY <1>1 DEF AssetsOf, NoAssets
<1>2. CASE d # None
  <2>1. d \in 1 .. Len(docs)
    BY <1>2 DEF None, Typed
  <2>2. docs[d] \in Doc
    BY <2>1 DEF Typed
  <2> QED
    BY <1>2, <2>2 DEF AssetsOf, Doc
<1> QED
  BY <1>1, <1>2

LEMMA MergedTyped ==
    ASSUME Typed, NEW base \in 0 .. Len(docs), NEW a \in Assets,
           NEW v \in VersionIds \cup {None}, NEW prev \in DocIds \cup {None}
    PROVE  /\ Merged(base, a, v, prev) \in Doc
           /\ \A x \in Assets \ {a} :
                  Merged(base, a, v, prev).assets[x] = AssetsOf(base)[x]
  BY AssetsTyped DEF Merged, Doc

(* A document added leaves the others where they are. *)
LEMMA AddedDoc ==
    ASSUME Typed, CanWriteDoc, NEW d \in Doc, docs' = Append(docs, d)
    PROVE  /\ docs' \in Seq(Doc) /\ Len(docs') = Len(docs) + 1
           /\ Len(docs') <= MaxDocs
           /\ docs'[NewDoc] = d
           /\ NewDoc \in DocIds /\ NewDoc \in 1 .. Len(docs')
           /\ \A i \in 1 .. Len(docs) : docs'[i] = docs[i]
           /\ \A i \in 0 .. Len(docs) : AssetsOf(i)' = AssetsOf(i) /\ i \in 0 .. Len(docs')
  BY BoundsAssumption DEF Typed, CanWriteDoc, NewDoc, DocIds, AssetsOf, None, NoAssets

(* Documents that were written stay, so what is read of them does. *)
LEMMA ChangeStays ==
    ASSUME Typed, CanWriteDoc, NEW d \in Doc, docs' = Append(docs, d),
           NEW base \in 0 .. Len(docs), NEW doc \in 1 .. Len(docs),
           OneChange(base, doc)
    PROVE  OneChange(base, doc)'
<1>1. AssetsOf(base)' = AssetsOf(base) /\ docs'[doc] = docs[doc]
  BY AddedDoc
<1> QED
  BY <1>1 DEF OneChange, AssetsOf

(* A writer moves to a step of its type; the documents are those there were, *)
(* or one more. *)
LEMMA MoveTyped ==
    ASSUME Typed, NEW w \in Writers, NEW step \in Writer, Moves(w, step),
           uri' \in [Tokens -> 0 .. Len(docs')], disturbed' \in [Tokens -> Nat],
           \/ UNCHANGED docs
           \/ CanWriteDoc /\ \E d \in Doc : docs' = Append(docs, d),
           \/ UNCHANGED versions
           \/ CanWriteVersion /\ \E v \in Version : versions' = Append(versions, v)
    PROVE  Typed'
<1>1. docs' \in Seq(Doc) /\ Len(docs') <= MaxDocs
  <2>1. CASE UNCHANGED docs
    BY <2>1 DEF Typed
  <2>2. CASE CanWriteDoc /\ \E d \in Doc : docs' = Append(docs, d)
    BY <2>2, AddedDoc
  <2> QED
    BY <2>1, <2>2
<1>2. versions' \in Seq(Version) /\ Len(versions') <= MaxVersions
  <2>1. CASE UNCHANGED versions
    BY <2>1 DEF Typed
  <2>2. CASE CanWriteVersion /\ \E v \in Version : versions' = Append(versions, v)
    BY <2>2, BoundsAssumption DEF Typed, CanWriteVersion
  <2> QED
    BY <2>1, <2>2
<1>3. writer' \in [Writers -> Writer]
  BY DEF Moves, Typed
<1> QED
  BY <1>1, <1>2, <1>3 DEF Typed

(* One writer moves. *)
LEMMA MovesTo ==
    ASSUME TableInv, NEW w \in Writers, NEW step, Moves(w, step)
    PROVE  writer'[w] = step /\ \A u \in Writers \ {w} : writer'[u] = writer[u]
  BY DEF TableInv, Typed, Moves

(* The changes of the other writers stay small when one moves. *)
LEMMA OthersStay ==
    ASSUME TableInv, NEW w \in Writers, NEW step, Moves(w, step),
           \/ UNCHANGED docs
           \/ CanWriteDoc /\ \E d \in Doc : docs' = Append(docs, d),
           step.at = "targeted" =>
              /\ step.base \in 0 .. Len(docs')
              /\ step.mint => step.base = None,
           step.at = "signing" =>
              /\ step.base \in 0 .. Len(docs')
              /\ step.mint => step.base = None
              /\ step.doc \in 1 .. Len(docs')
              /\ OneChange(step.base, step.doc)'
    PROVE  ChangeIsSmall'
<1>1. writer'[w] = step /\ \A u \in Writers \ {w} : writer'[u] = writer[u]
  BY MovesTo
<1>2. Len(docs) \in Nat /\ Len(docs') \in Nat /\ Len(docs) <= Len(docs')
  <2>1. CASE UNCHANGED docs
    BY <2>1 DEF TableInv, Typed
  <2>2. CASE CanWriteDoc /\ \E d \in Doc : docs' = Append(docs, d)
    BY <2>2, AddedDoc DEF TableInv, Typed
  <2> QED
    BY <2>1, <2>2
<1>3. ASSUME NEW base \in 0 .. Len(docs), NEW doc \in 1 .. Len(docs), OneChange(base, doc)
      PROVE  OneChange(base, doc)'
  <2>1. CASE UNCHANGED docs
    BY <1>3, <2>1 DEF OneChange, AssetsOf
  <2>2. CASE CanWriteDoc /\ \E d \in Doc : docs' = Append(docs, d)
    BY <1>3, <2>2, ChangeStays DEF TableInv
  <2> QED
    BY <2>1, <2>2
<1>4. ASSUME NEW u \in Writers, writer'[u].at = "targeted"
      PROVE  /\ writer'[u].base \in 0 .. Len(docs')
             /\ writer'[u].mint => writer'[u].base = None
  <2>1. CASE u = w
    BY <1>1, <1>4, <2>1
  <2>2. CASE u # w
    BY <1>1, <1>2, <1>4, <2>2 DEF TableInv, ChangeIsSmall
  <2> QED
    BY <2>1, <2>2
<1>5. ASSUME NEW u \in Writers, writer'[u].at = "signing"
      PROVE  /\ writer'[u].base \in 0 .. Len(docs')
             /\ writer'[u].mint => writer'[u].base = None
             /\ writer'[u].doc \in 1 .. Len(docs')
             /\ OneChange(writer[u].base, writer[u].doc)'
  <2>1. CASE u = w
    BY <1>1, <1>5, <2>1 DEF OneChange, AssetsOf
  <2>2. CASE u # w
    <3>1. /\ writer[u].base \in 0 .. Len(docs)
          /\ writer[u].mint => writer[u].base = None
          /\ writer[u].doc \in 1 .. Len(docs)
          /\ OneChange(writer[u].base, writer[u].doc)
      BY <1>1, <1>5, <2>2 DEF TableInv, ChangeIsSmall
    <3> DEFINE base == writer[u].base
               doc == writer[u].doc
    <3>2. \E a \in Assets : \A x \in Assets \ {a} :
              docs'[doc].assets[x] = (IF base = None THEN NoAssets ELSE docs'[base].assets)[x]
      <4> HIDE DEF base, doc
      <4>1. base \in 0 .. Len(docs) /\ doc \in 1 .. Len(docs) /\ OneChange(base, doc)
        BY <3>1 DEF base, doc
      <4> QED
        BY <1>3, <4>1 DEF OneChange, AssetsOf
    <3>3. writer'[u] = writer[u]
      BY <1>1, <2>2
    <3>4. OneChange(writer[u].base, writer[u].doc)'
      BY <3>2, <3>3 DEF OneChange, AssetsOf
    <3> QED
      BY <1>2, <3>1, <3>3, <3>4
  <2> QED
    BY <2>1, <2>2
<1> QED
  BY <1>4, <1>5 DEF ChangeIsSmall

----------------------------------------------------------------------------
(* The invariant.                                                           *)

LEMMA InitInv == Init => TableInv
<1> SUFFICES ASSUME Init PROVE TableInv
  OBVIOUS
<1>1. PICK a \in Assets :
          /\ versions = <<[asset |-> a, prev |-> None]>>
          /\ docs = <<[assets |-> [NoAssets EXCEPT ![a] = 1], prev |-> None]>>
  BY DEF Init
<1>2. Typed
  <2>1. docs[1] \in Doc /\ versions[1] \in Version
    BY <1>1, BoundsAssumption DEF Doc, Version, NoAssets, VersionIds, None
  <2>2. docs \in Seq(Doc) /\ Len(docs) = 1 /\ versions \in Seq(Version) /\ Len(versions) = 1
    BY <1>1, <2>1
  <2>3. writer \in [Writers -> Writer]
    BY WriterSplits DEF Init
  <2> QED
    BY <1>1, <2>2, <2>3, BoundsAssumption DEF Init, Typed, None
<1>3. ChangeIsSmall
  BY DEF Init, ChangeIsSmall, Idle
<1> QED
  BY <1>2, <1>3 DEF TableInv

(* Writing an asset manifest, and the choice of the target. *)
LEMMA WriteVersionInv ==
    ASSUME TableInv, NEW w \in Writers, NEW a \in Assets,
           NEW prev \in 0 .. Len(versions), NEW token \in Tokens, NEW mint \in BOOLEAN,
           NEW base \in 0 .. Len(docs), mint => base = None,
           WriteVersion(w, a, prev, token, mint, base)
    PROVE  TableInv' /\ UNCHANGED <<uri, docs, disturbed>>
<1> DEFINE step == [at |-> "targeted", token |-> token, mint |-> mint, base |-> base,
                    asset |-> a, version |-> NewVersion]
           new == [asset |-> a, prev |-> prev]
<1>1. /\ UNCHANGED <<uri, docs, disturbed>> /\ Moves(w, step)
      /\ CanWriteVersion /\ versions' = Append(versions, new)
  BY DEF WriteVersion
<1>2. new \in Version /\ step \in Writer /\ step.at # "signing"
  BY <1>1, BoundsAssumption, WriterSplits
     DEF TableInv, Typed, Version, VersionIds, DocIds, CanWriteVersion, NewVersion,
         Targeted, None
<1>3. Typed'
  BY <1>1, <1>2, MoveTyped DEF TableInv, Typed
<1>4. ChangeIsSmall'
  BY <1>1, <1>2, OthersStay
<1> QED
  BY <1>1, <1>3, <1>4 DEF TableInv

(* Writing a document and asking for the signature. *)
LEMMA WriteDocInv ==
    ASSUME TableInv, NEW w \in Writers, NEW token \in Tokens, NEW mint \in BOOLEAN,
           NEW base \in 0 .. Len(docs), mint => base = None,
           NEW d \in Doc, NEW a \in Assets, NEW removed \in VersionIds \cup {None},
           \A x \in Assets \ {a} : d.assets[x] = AssetsOf(base)[x],
           CanWriteDoc, docs' = Append(docs, d),
           NEW doc, doc = NewDoc,
           Moves(w, [at |-> "signing", token |-> token, mint |-> mint, base |-> base,
                     doc |-> doc, removed |-> removed]),
           UNCHANGED <<uri, disturbed>>,
           \/ UNCHANGED versions
           \/ CanWriteVersion /\ \E v \in Version : versions' = Append(versions, v)
    PROVE  TableInv' /\ (\A i \in 0 .. Len(docs) : AssetsOf(i)' = AssetsOf(i))
<1> DEFINE step == [at |-> "signing", token |-> token, mint |-> mint, base |-> base,
                    doc |-> doc, removed |-> removed]
<1>t. Typed
  BY DEF TableInv
<1>1. /\ docs'[doc] = d /\ doc \in DocIds /\ doc \in 1 .. Len(docs')
      /\ Len(docs') = Len(docs) + 1
      /\ \A i \in 0 .. Len(docs) : AssetsOf(i)' = AssetsOf(i) /\ i \in 0 .. Len(docs')
  BY <1>t, AddedDoc
<1>2. step \in Writer
  <2>1. base \in DocIds \cup {None}
    BY <1>t, BoundsAssumption DEF Typed, DocIds, None
  <2> QED
    BY <1>1, <2>1, WriterSplits DEF Signing
<1>3. uri' \in [Tokens -> 0 .. Len(docs')]
  BY <1>t, <1>1 DEF Typed
<1>4. Typed'
  BY <1>t, <1>2, <1>3, MoveTyped DEF Typed
<1>5. OneChange(base, doc)'
  <2>1. AssetsOf(base)' = AssetsOf(base)
    BY <1>1
  <2>2. \A x \in Assets \ {a} : docs'[doc].assets[x] = AssetsOf(base)'[x]
    BY <1>1, <2>1
  <2> QED
    BY <2>2 DEF OneChange
<1>6. ChangeIsSmall'
  <2>1. /\ step.at = "signing" /\ step.base = base /\ step.mint = mint /\ step.doc = doc
        /\ step.at # "targeted"
    OBVIOUS
  <2>2. OneChange(step.base, step.doc)'
    BY <1>5, <2>1
  <2> QED
    BY <1>1, <2>1, <2>2, OthersStay
<1> QED
  BY <1>1, <1>4, <1>6 DEF TableInv

(* The table does not change as long as the pointers and what they point to  *)
(* stay.                                                                     *)
TableVars == <<Live, [t \in Tokens |-> AssetsOf(uri[t])], disturbed>>

LEMMA SameTable ==
    ASSUME Typed, UNCHANGED <<uri, disturbed>>,
           \A i \in 0 .. Len(docs) : AssetsOf(i)' = AssetsOf(i)
    PROVE  UNCHANGED TableVars
<1>1. \A t \in Tokens : AssetsOf(uri[t])' = AssetsOf(uri[t])
  BY DEF Typed, AssetsOf
<1>2. Live' = Live
  BY DEF Live
<1> QED
  BY <1>1, <1>2 DEF TableVars

(* A step of one writer that writes no document and moves no pointer.        *)
LEMMA QuietInv ==
    ASSUME TableInv, NEW w \in Writers, NEW step \in Writer, Moves(w, step),
           step.at \notin {"targeted", "signing"},
           UNCHANGED <<uri, docs, versions, disturbed>>
    PROVE  TableInv' /\ UNCHANGED TableVars
<1>1. Typed'
  BY MoveTyped DEF TableInv, Typed
<1>2. ChangeIsSmall'
  BY OthersStay
<1>3. UNCHANGED TableVars
  BY SameTable DEF TableInv, AssetsOf
<1> QED
  BY <1>1, <1>2, <1>3 DEF TableInv

LEMMA IdleInv ==
    ASSUME TableInv, NEW w \in Writers, Moves(w, Idle),
           UNCHANGED <<uri, docs, versions, disturbed>>
    PROVE  TableInv' /\ UNCHANGED TableVars
<1>1. Idle \in Writer /\ Idle.at \notin {"targeted", "signing"}
  BY WriterSplits DEF Idle
<1> QED
  BY <1>1, QuietInv

(* Where a publication goes: to nothing, or to what was read of the token.   *)
LEMMA PublishIs ==
    ASSUME TableInv, NEW w \in Writers, NEW a \in Assets, NEW prev \in 0 .. Len(versions),
           \/ \E t \in Tokens : PublishPreferred(w, a, prev, t)
           \/ \E documentKnown \in BOOLEAN : PublishDefault(w, a, prev, documentKnown)
           \/ PublishNew(w, a, prev)
    PROVE  \E token \in Tokens, mint \in BOOLEAN, base \in 0 .. Len(docs) :
              /\ mint => base = None
              /\ base \in {None, uri[token]}
              /\ WriteVersion(w, a, prev, token, mint, base)
<1>1. Default \in Tokens /\ None \in 0 .. Len(docs) /\ \A t \in Tokens : uri[t] \in 0 .. Len(docs)
  BY DefaultAssumption DEF TableInv, Typed, None
<1>2. CASE \E t \in Tokens : PublishPreferred(w, a, prev, t)
  BY <1>1, <1>2 DEF PublishPreferred
<1>3. CASE \E documentKnown \in BOOLEAN : PublishDefault(w, a, prev, documentKnown)
  BY <1>1, <1>3 DEF PublishDefault
<1>4. CASE PublishNew(w, a, prev)
  BY <1>1, <1>4 DEF PublishNew
<1> QED
  BY <1>2, <1>3, <1>4

LEMMA PublishStep ==
    ASSUME TableInv, NEW w \in Writers, NEW a \in Assets, NEW prev \in 0 .. Len(versions),
           \/ \E t \in Tokens : PublishPreferred(w, a, prev, t)
           \/ \E documentKnown \in BOOLEAN : PublishDefault(w, a, prev, documentKnown)
           \/ PublishNew(w, a, prev)
    PROVE  TableInv' /\ UNCHANGED TableVars
<1>1. PICK token \in Tokens, mint \in BOOLEAN, base \in 0 .. Len(docs) :
          /\ mint => base = None
          /\ WriteVersion(w, a, prev, token, mint, base)
  BY PublishIs
<1>2. TableInv' /\ UNCHANGED <<uri, docs, disturbed>>
  BY <1>1, WriteVersionInv
<1> QED
  BY <1>2, SameTable DEF TableInv, AssetsOf

LEMMA WriteMergedStep ==
    ASSUME TableInv, NEW w \in Writers, NEW prevKnown \in BOOLEAN, WriteMerged(w, prevKnown)
    PROVE  TableInv' /\ UNCHANGED TableVars
<1> DEFINE p == writer[w]
           prev == IF p.mint \/ ~prevKnown THEN None ELSE uri[p.token]
<1>1. /\ p.at = "targeted" /\ CanWriteDoc /\ UNCHANGED <<uri, versions, disturbed>>
      /\ docs' = Append(docs, Merged(p.base, p.asset, p.version, prev))
      /\ Moves(w, [at |-> "signing", token |-> p.token, mint |-> p.mint, base |-> p.base,
                   doc |-> NewDoc, removed |-> None])
  BY DEF WriteMerged
<1>2. p \in Targeted
  BY <1>1, TargetedIsTyped DEF TableInv
<1>3. p.base \in 0 .. Len(docs) /\ (p.mint => p.base = None)
  BY <1>1 DEF TableInv, ChangeIsSmall
<1>4. prev \in DocIds \cup {None}
  BY <1>2, BoundsAssumption DEF TableInv, Typed, Targeted, DocIds, None
<1> DEFINE token == p.token
           mint == p.mint
           base == p.base
           a == p.asset
           d == Merged(p.base, p.asset, p.version, prev)
<1>5. PICK doc : doc = NewDoc
  OBVIOUS
<1>6. /\ token \in Tokens /\ mint \in BOOLEAN /\ base \in 0 .. Len(docs) /\ a \in Assets
      /\ mint => base = None
      /\ d \in Doc
      /\ \A x \in Assets \ {a} : d.assets[x] = AssetsOf(base)[x]
  BY <1>2, <1>3, <1>4, MergedTyped DEF TableInv, Targeted
<1>7. /\ CanWriteDoc /\ docs' = Append(docs, d)
      /\ Moves(w, [at |-> "signing", token |-> token, mint |-> mint, base |-> base,
                   doc |-> doc, removed |-> None])
  BY <1>1, <1>5
<1>8. TableInv' /\ \A i \in 0 .. Len(docs) : AssetsOf(i)' = AssetsOf(i)
  <2> HIDE DEF token, mint, base, a, d
  <2>1. \E T \in Tokens, M \in BOOLEAN, B \in 0 .. Len(docs), A \in Assets, D \in Doc :
            /\ M => B = None
            /\ \A x \in Assets \ {A} : D.assets[x] = AssetsOf(B)[x]
            /\ docs' = Append(docs, D)
            /\ Moves(w, [at |-> "signing", token |-> T, mint |-> M, base |-> B,
                         doc |-> doc, removed |-> None])
    BY <1>6, <1>7
  <2> QED
    BY <1>1, <1>5, <2>1, WriteDocInv
<1> QED
  BY <1>1, <1>8, SameTable DEF TableInv

(* A change in place is one of the document the URI names. *)
LEMMA WriteChangeInv ==
    ASSUME TableInv, NEW w \in Writers, NEW t \in Tokens, NEW a \in Assets,
           NEW v \in VersionIds \cup {None}, NEW removed \in VersionIds \cup {None},
           WriteChange(w, t, a, v, removed),
           UNCHANGED <<uri, disturbed>>,
           \/ UNCHANGED versions
           \/ CanWriteVersion /\ \E n \in Version : versions' = Append(versions, n)
    PROVE  TableInv' /\ UNCHANGED TableVars
<1>1. PICK base, doc : base = uri[t] /\ doc = NewDoc
  OBVIOUS
<1>2. base \in 0 .. Len(docs) /\ base \in DocIds \cup {None}
  BY <1>1, BoundsAssumption DEF TableInv, Typed, DocIds, None
<1>3. /\ CanWriteDoc /\ docs' = Append(docs, Merged(base, a, v, base))
      /\ Moves(w, [at |-> "signing", token |-> t, mint |-> FALSE, base |-> base,
                   doc |-> doc, removed |-> removed])
  BY <1>1 DEF WriteChange
<1>4. /\ Merged(base, a, v, base) \in Doc
      /\ \A x \in Assets \ {a} : Merged(base, a, v, base).assets[x] = AssetsOf(base)[x]
  BY <1>2, MergedTyped DEF TableInv
<1>5. TableInv' /\ \A i \in 0 .. Len(docs) : AssetsOf(i)' = AssetsOf(i)
  BY <1>1, <1>2, <1>3, <1>4, WriteDocInv
<1> QED
  BY <1>5, SameTable DEF TableInv

LEMMA ListedTyped ==
    ASSUME TableInv, NEW t \in Tokens, NEW a \in Assets
    PROVE  AssetsOf(uri[t])[a] \in VersionIds \cup {None}
  BY AssetsTyped DEF TableInv, Typed

LEMMA ChangeStep ==
    ASSUME TableInv, NEW w \in Writers, NEW t \in Tokens, NEW a \in Assets,
           Upload(w, t, a) \/ Delete(w, t, a) \/ \E source \in Tokens : Fork(w, source, t, a)
    PROVE  TableInv' /\ UNCHANGED TableVars
<1>1. CASE Upload(w, t, a)
  <2>1. NewVersion \in VersionIds /\ [asset |-> a, prev |-> None] \in Version
    BY <1>1, BoundsAssumption
       DEF Upload, CanWriteVersion, NewVersion, VersionIds, Version, None, TableInv, Typed
  <2> QED
    BY <1>1, <2>1, WriteChangeInv DEF Upload
<1>2. CASE Delete(w, t, a)
  BY <1>2, ListedTyped, WriteChangeInv DEF Delete
<1>3. CASE \E source \in Tokens : Fork(w, source, t, a)
  BY <1>3, ListedTyped, WriteChangeInv DEF Fork
<1> QED
  BY <1>1, <1>2, <1>3

LEMMA CreateNamedStep ==
    ASSUME TableInv, NEW w \in Writers, NEW t \in Tokens, CreateNamed(w, t)
    PROVE  TableInv' /\ UNCHANGED TableVars
<1> DEFINE doc == NewDoc
<1>1. PICK a \in Assets : TRUE
  BY AssetsAssumption
<1> DEFINE d == [assets |-> NoAssets, prev |-> None]
<1>2. d \in Doc /\ (\A x \in Assets \ {a} : d.assets[x] = AssetsOf(None)[x]) /\ None \in 0 .. Len(docs)
  BY DEF Doc, NoAssets, AssetsOf, None, TableInv, Typed
<1>3. TableInv' /\ \A i \in 0 .. Len(docs) : AssetsOf(i)' = AssetsOf(i)
  <2>1. /\ CanWriteDoc /\ docs' = Append(docs, d) /\ UNCHANGED <<uri, versions, disturbed>>
        /\ Moves(w, [at |-> "signing", token |-> t, mint |-> TRUE, base |-> None,
                     doc |-> doc, removed |-> None])
    BY <1>1 DEF CreateNamed
  <2> HIDE DEF d
  <2>2. PICK base \in 0 .. Len(docs) : base = None
    BY <1>2
  <2> QED
    BY <1>1, <1>2, <2>1, <2>2, WriteDocInv
<1> QED
  BY <1>3, SameTable DEF TableInv, CreateNamed

(* A mined call: the one that changes the table.                             *)
LEMMA MineStep ==
    ASSUME TableInv, NEW w \in Writers, Mine(w)
    PROVE  TableInv' /\ Table!Next
<1> DEFINE c == writer[w]
           t == c.token
           next == IF c.removed = None THEN Idle
                   ELSE [at |-> "unpinning", token |-> c.token, version |-> c.removed]
<1>1. /\ c.at = "signing" /\ Moves(w, next) /\ UNCHANGED <<docs, versions>>
      /\ uri' = [uri EXCEPT ![t] = c.doc]
      /\ disturbed' = IF c.base = uri[t] THEN disturbed ELSE [disturbed EXCEPT ![t] = @ + 1]
      /\ IF c.mint THEN t \notin Live ELSE t \in Live
  BY DEF Mine
<1>2. c \in Signing
  BY <1>1, SigningIsTyped DEF TableInv
<1>3. /\ t \in Tokens /\ c.doc \in 1 .. Len(docs) /\ c.base \in 0 .. Len(docs)
      /\ c.mint => c.base = None
      /\ OneChange(c.base, c.doc)
  BY <1>1, <1>2 DEF TableInv, ChangeIsSmall, Signing
<1>4. next \in Writer /\ next.at \notin {"targeted", "signing"}
  BY <1>2, WriterSplits DEF Signing, Unpinning, Idle
<1>5. uri' \in [Tokens -> 0 .. Len(docs')] /\ disturbed' \in [Tokens -> Nat]
  BY <1>1, <1>3 DEF TableInv, Typed
<1>6. TableInv'
  <2>1. Typed'
    BY <1>1, <1>4, <1>5, MoveTyped DEF TableInv
  <2>2. ChangeIsSmall'
    <3> HIDE DEF next
    <3> QED
      BY <1>1, <1>4, OthersStay
  <2> QED
    BY <2>1, <2>2 DEF TableInv
<1>7. Table!Next
  <2> DEFINE entries == [u \in Tokens |-> AssetsOf(uri[u])]
  <2>1. /\ entries'[t] = docs[c.doc].assets
        /\ \A u \in Tokens \ {t} : entries'[u] = entries[u]
        /\ Live' = Live \cup {t}
        /\ t \in Live <=> uri[t] # None
    BY <1>1, <1>3 DEF AssetsOf, Live, None, TableInv, Typed
  <2>2. PICK a \in Assets : \A x \in Assets \ {a} : docs[c.doc].assets[x] = AssetsOf(c.base)[x]
    BY <1>3 DEF OneChange
  <2>3. CASE c.mint
    <3>1. t \notin Live /\ c.base = None /\ uri[t] = None /\ disturbed' = disturbed
      BY <1>1, <1>3, <2>1, <2>3
    <3>2. Table!Create(t, a)
      BY <2>1, <2>2, <3>1 DEF Table!Create, Table!SameBut, Table!NoAssets, AssetsOf, NoAssets, None
    <3> QED
      BY <1>3, <3>2 DEF Table!Next
  <2>4. CASE ~c.mint /\ c.base = uri[t]
    <3>1. t \in Live /\ Live' = Live /\ disturbed' = disturbed
      BY <1>1, <2>1, <2>4
    <3>2. \A x \in Assets \ {a} : entries'[t][x] = entries[t][x]
      BY <1>3, <2>1, <2>2, <2>4
    <3>3. Table!Change(t, a)
      BY <2>1, <3>1, <3>2 DEF Table!Change, Table!SameBut
    <3> QED
      BY <1>3, <3>3 DEF Table!Next
  <2>5. CASE ~c.mint /\ c.base # uri[t]
    <3>1. t \in Live /\ Live' = Live /\ disturbed' = [disturbed EXCEPT ![t] = @ + 1]
      BY <1>1, <2>1, <2>5
    <3>2. Table!Disturb(t)
      BY <2>1, <3>1 DEF Table!Disturb, Table!SameBut
    <3> QED
      BY <1>3, <3>2 DEF Table!Next
  <2> QED
    BY <1>2, <2>3, <2>4, <2>5 DEF Signing
<1> QED
  BY <1>6, <1>7

LEMMA MineBurnStep ==
    ASSUME TableInv, NEW w \in Writers, MineBurn(w)
    PROVE  TableInv' /\ Table!Next
<1> DEFINE t == writer[w].token
<1>1. /\ writer[w].at = "burning" /\ t \in Live /\ uri' = [uri EXCEPT ![t] = None]
      /\ Moves(w, Idle) /\ UNCHANGED <<docs, versions, disturbed>>
  BY DEF MineBurn
<1>2. t \in Tokens
  BY <1>1 DEF Live
<1>3. Idle \in Writer /\ Idle.at \notin {"targeted", "signing"}
  BY WriterSplits DEF Idle
<1>4. uri' \in [Tokens -> 0 .. Len(docs')] /\ disturbed' \in [Tokens -> Nat]
  <2>1. Len(docs) \in Nat /\ docs' = docs
    BY <1>1 DEF TableInv, Typed
  <2>2. None \in 0 .. Len(docs')
    BY <2>1 DEF None
  <2>3. uri \in [Tokens -> 0 .. Len(docs')] /\ disturbed' \in [Tokens -> Nat]
    BY <1>1, <2>1 DEF TableInv, Typed
  <2> QED
    BY <1>1, <2>2, <2>3
<1>5. TableInv'
  BY <1>1, <1>3, <1>4, MoveTyped, OthersStay DEF TableInv
<1>6. Table!Burn(t)
  <2> DEFINE entries == [u \in Tokens |-> AssetsOf(uri[u])]
  <2>1. /\ entries'[t] = NoAssets
        /\ \A u \in Tokens \ {t} : entries'[u] = entries[u]
        /\ Live' = Live \ {t}
    BY <1>1, <1>2 DEF AssetsOf, Live, None, TableInv, Typed
  <2> QED
    BY <1>1, <2>1 DEF Table!Burn, Table!SameBut, Table!NoAssets, NoAssets, None
<1> QED
  BY <1>2, <1>5, <1>6 DEF Table!Next

LEMMA QuietStep ==
    ASSUME TableInv, NEW w \in Writers,
           \/ Decline(w) \/ UnpinDeleted(w) \/ DeclineBurn(w)
           \/ \E t \in Tokens : UnpinBurning(w, t)
    PROVE  TableInv' /\ UNCHANGED TableVars
<1>1. CASE Decline(w) \/ UnpinDeleted(w) \/ DeclineBurn(w)
  BY <1>1, IdleInv DEF Decline, UnpinDeleted, DeclineBurn
<1>2. ASSUME NEW t \in Tokens, UnpinBurning(w, t) PROVE TableInv' /\ UNCHANGED TableVars
  <2>1. [at |-> "burning", token |-> t] \in Writer
    BY WriterSplits DEF Burning
  <2> QED
    BY <1>2, <2>1, QuietInv DEF UnpinBurning
<1> QED
  BY <1>1, <1>2

----------------------------------------------------------------------------
(* Every step of the clients and the backend is a step of the table, or none *)
(* at all.                                                                   *)
LEMMA Step ==
    ASSUME TableInv, [Next]_vars
    PROVE  TableInv' /\ [Table!Next]_TableVars
<1>1. CASE UNCHANGED vars
  <2>1. Typed' /\ ChangeIsSmall'
    BY <1>1 DEF vars, TableInv, Typed, ChangeIsSmall, OneChange, AssetsOf
  <2>2. UNCHANGED TableVars
    BY <1>1, SameTable DEF vars, TableInv, AssetsOf
  <2> QED
    BY <2>1, <2>2 DEF TableInv
<1>2. ASSUME NEW w \in Writers, NEW a \in Assets, NEW prev \in 0 .. Len(versions),
             \/ \E t \in Tokens : PublishPreferred(w, a, prev, t)
             \/ \E documentKnown \in BOOLEAN : PublishDefault(w, a, prev, documentKnown)
             \/ PublishNew(w, a, prev)
      PROVE  TableInv' /\ UNCHANGED TableVars
  BY <1>2, PublishStep
<1>3. ASSUME NEW w \in Writers, NEW prevKnown \in BOOLEAN, WriteMerged(w, prevKnown)
      PROVE  TableInv' /\ UNCHANGED TableVars
  BY <1>3, WriteMergedStep
<1>4. ASSUME NEW w \in Writers, NEW t \in Tokens, CreateNamed(w, t)
      PROVE  TableInv' /\ UNCHANGED TableVars
  BY <1>4, CreateNamedStep
<1>5. ASSUME NEW w \in Writers, NEW t \in Tokens, NEW a \in Assets,
             Upload(w, t, a) \/ Delete(w, t, a) \/ \E source \in Tokens : Fork(w, source, t, a)
      PROVE  TableInv' /\ UNCHANGED TableVars
  BY <1>5, ChangeStep
<1>6. ASSUME NEW w \in Writers,
             \/ Decline(w) \/ UnpinDeleted(w) \/ DeclineBurn(w)
             \/ \E t \in Tokens : UnpinBurning(w, t)
      PROVE  TableInv' /\ UNCHANGED TableVars
  BY <1>6, QuietStep
<1>7. ASSUME NEW w \in Writers, Mine(w) \/ MineBurn(w)
      PROVE  TableInv' /\ Table!Next
  BY <1>7, MineStep, MineBurnStep
<1> QED
  BY <1>1, <1>2, <1>3, <1>4, <1>5, <1>6, <1>7 DEF Next

LEMMA InitTable == Init => Table!Init
<1> SUFFICES ASSUME Init PROVE Table!Init
  OBVIOUS
<1>1. Typed
  BY InitInv DEF TableInv
<1>2. Live \subseteq Tokens
  BY DEF Live
<1>3. [t \in Tokens |-> AssetsOf(uri[t])] \in [Tokens -> [Assets -> Nat]]
  <2>1. ASSUME NEW t \in Tokens PROVE AssetsOf(uri[t]) \in [Assets -> Nat]
    <3>1. AssetsOf(uri[t]) \in [Assets -> VersionIds \cup {None}]
      BY <1>1, AssetsTyped DEF Typed
    <3> QED
      BY <3>1, BoundsAssumption DEF VersionIds, None
  <2> QED
    BY <2>1
<1>4. \A t \in Tokens \ Live : AssetsOf(uri[t]) = NoAssets
  BY DEF Live, AssetsOf
<1> QED
  BY <1>2, <1>3, <1>4 DEF Init, Table!Init, Table!NoAssets, NoAssets, None

(* What a writer carries across the awaits of publishCollection between      *)
(* reading the collection and the signature has its type, and the document   *)
(* that waits for the signature changes one asset of the one it was merged   *)
(* into.                                                                     *)
THEOREM TableInvariant == Spec => []TableInv
<1>1. Init => TableInv
  BY InitInv
<1>2. TableInv /\ [Next]_vars => TableInv'
  BY Step
<1> QED
  BY <1>1, <1>2, PTL DEF Spec

(* The documents, the pointers and their races implement the table: a mined  *)
(* call changes one entry, and replaces a whole table only when counted.     *)
(* collection.ts publishCollection, asset-delete.ts, library-ops.ts.         *)
THEOREM Refinement == Spec => ImplementsTable
<1>1. Init => Table!Init
  BY InitTable
<1>2. TableInv /\ [Next]_vars => [Table!Next]_TableVars
  BY Step
<1> QED
  BY <1>1, <1>2, TableInvariant, PTL DEF Spec, ImplementsTable, Table!Spec, TableVars

----------------------------------------------------------------------------
(* What the recursive definitions compute.  A set of numbers that is not     *)
(* empty has a least element, so there is no least manifest, or document,    *)
(* at which a statement about walks along the predecessors fails first.      *)

LEMMA Minimal ==
    ASSUME NEW T, T \subseteq Nat, T # {}
    PROVE  \E n \in T : \A m \in T : n <= m
<1>1. PICK x \in T : \A y \in T : ~(<<y, x>> \in OpToRel(<, Nat))
  BY NatLessThanWellFounded, WFMin
<1>2. \A y \in T : ~(y < x)
  BY <1>1 DEF OpToRel
<1> QED
  BY <1>2

(* A walk backwards along predecessors that are smaller ends.              *)
WalksBack(prev, N) == N \in Nat /\ \A i \in 1 .. N : prev[i] \in 0 .. (i - 1)

IsChain(c, prev, N) == c = [u \in 0 .. N |-> IF u = None THEN {} ELSE {u} \cup c[prev[u]]]

LEMMA ChainExists ==
    ASSUME NEW prev, NEW N, WalksBack(prev, N)
    PROVE  \E c : IsChain(c, prev, N)
<1> DEFINE bad == {n \in 0 .. N : ~ \E c : IsChain(c, prev, n)}
<1>0. N \in 0 .. N
  BY DEF WalksBack
<1> SUFFICES ASSUME bad # {} PROVE FALSE
  BY <1>0
<1>1. bad \subseteq Nat
  BY DEF WalksBack
<1>2. PICK n \in bad : \A m \in bad : n <= m
  BY <1>1, Minimal
<1>3. CASE n = 0
  <2>1. IsChain([u \in 0 .. 0 |-> {}], prev, 0)
    BY DEF IsChain, None
  <2> QED
    BY <1>2, <1>3, <2>1
<1>4. CASE n # 0
  <2>1. n \in 1 .. N /\ n - 1 \in 0 .. N /\ n - 1 \notin bad
    BY <1>2, <1>4 DEF WalksBack
  <2>2. PICK c : IsChain(c, prev, n - 1)
    BY <2>1
  <2> DEFINE d == [u \in 0 .. n |-> IF u = n THEN {n} \cup c[prev[n]] ELSE c[u]]
  <2>c. \A u \in 0 .. (n - 1) : c[u] = IF u = None THEN {} ELSE {u} \cup c[prev[u]]
    BY <2>2 DEF IsChain
  <2>3. c[0] = {} /\ \A u \in 1 .. (n - 1) : c[u] = {u} \cup c[prev[u]]
    <3>1. 0 \in 0 .. (n - 1) /\ 1 .. (n - 1) \subseteq 0 .. (n - 1) /\ 0 \notin 1 .. (n - 1)
      BY <1>4, <2>1
    <3> QED
      BY <2>c, <3>1, Zenon DEF None
  <2>4. \A u \in 1 .. n : prev[u] \in 0 .. (u - 1)
    BY <2>1 DEF WalksBack
  <2>5. /\ n \in Nat \ {0}
        /\ d[n] = {n} \cup c[prev[n]]
        /\ \A u \in 0 .. (n - 1) : d[u] = c[u]
    BY <1>4, <2>1, <2>4
  <2>d. d = [u \in 0 .. n |-> d[u]]
    OBVIOUS
  <2> HIDE DEF d
  <2>6. d[0] = {} /\ \A u \in 1 .. n : d[u] = {u} \cup d[prev[u]]
    <3>1. d[0] = {}
      BY <2>3, <2>5
    <3>2. ASSUME NEW u \in 1 .. n PROVE d[u] = {u} \cup d[prev[u]]
      <4>1. d[prev[u]] = c[prev[u]]
        BY <2>4, <2>5
      <4>2. CASE u = n
        BY <2>5, <4>1, <4>2
      <4>3. CASE u \in 1 .. (n - 1)
        BY <2>3, <2>5, <4>1, <4>3
      <4> QED
        BY <2>5, <4>2, <4>3
    <3> QED
      BY <3>1, <3>2
  <2>7. IsChain(d, prev, n)
    BY <2>d, <2>5, <2>6 DEF IsChain, None
  <2> QED
    BY <1>2, <2>7
<1> QED
  BY <1>3, <1>4

Prev == [v \in 1 .. Len(versions) |-> versions[v].prev]

LEMMA ChainIs ==
    ASSUME WalksBack(Prev, Len(versions))
    PROVE  \E c : /\ IsChain(c, Prev, Len(versions))
                  /\ \A v : VersionChain(v) = c[v]
<1> DEFINE Same(c) == c = [u \in 0 .. Len(versions) |->
                             IF u = None THEN {} ELSE {u} \cup c[versions[u].prev]]
           chain == CHOOSE c : Same(c)
<1>1. \A v : VersionChain(v) = chain[v]
  BY DEF VersionChain
<1>2. ASSUME NEW c PROVE IsChain(c, Prev, Len(versions)) <=> Same(c)
  <2>1. \A u \in 0 .. Len(versions) : u # None => Prev[u] = versions[u].prev
    BY DEF Prev, None, WalksBack
  <2>2. [u \in 0 .. Len(versions) |-> IF u = None THEN {} ELSE {u} \cup c[Prev[u]]]
      = [u \in 0 .. Len(versions) |-> IF u = None THEN {} ELSE {u} \cup c[versions[u].prev]]
    BY <2>1
  <2> QED
    BY <2>2 DEF IsChain
<1>3. \E c : Same(c)
  BY <1>2, ChainExists
<1>4. Same(chain)
  <2> HIDE DEF Same
  <2> QED
   BY <1>3
<1> QED
  BY <1>1, <1>2, <1>4

VersionsOK ==
    /\ versions \in Seq(Version)
    /\ \A v \in 1 .. Len(versions) :
          /\ versions[v].prev \in 0 .. (v - 1)
          /\ versions[v].prev # None => versions[versions[v].prev].asset = versions[v].asset

ChainsUnfold ==
    /\ \A v \in {None} : VersionChain(v) = {}
    /\ \A v \in 1 .. Len(versions) : VersionChain(v) = {v} \cup VersionChain(versions[v].prev)

LEMMA ChainsDoUnfold == VersionsOK => ChainsUnfold
<1> SUFFICES ASSUME VersionsOK PROVE ChainsUnfold
  OBVIOUS
<1>1. Len(versions) \in Nat
  BY DEF VersionsOK
<1>2. WalksBack(Prev, Len(versions))
  BY <1>1 DEF VersionsOK, WalksBack, Prev
<1>3. PICK c : IsChain(c, Prev, Len(versions)) /\ \A v : VersionChain(v) = c[v]
  BY <1>2, ChainIs
<1>4. \A u \in 0 .. Len(versions) : c[u] = IF u = None THEN {} ELSE {u} \cup c[Prev[u]]
  BY <1>3 DEF IsChain
<1>5. 0 \in 0 .. Len(versions) /\ 1 .. Len(versions) \subseteq 0 .. Len(versions)
      /\ 0 \notin 1 .. Len(versions)
  BY <1>1
<1>6. \A v \in 1 .. Len(versions) : Prev[v] = versions[v].prev
  BY DEF Prev
<1> QED
  BY <1>3, <1>4, <1>5, <1>6, Zenon DEF ChainsUnfold, None

LEMMA ChainsUnfoldNext == (VersionsOK => ChainsUnfold)'
  BY ChainsDoUnfold, PTL

LEMMA Chains ==
    ASSUME VersionsOK
    PROVE  /\ VersionChain(None) = {}
           /\ \A v \in 0 .. Len(versions) :
                 /\ VersionChain(v) \subseteq 1 .. v
                 /\ \A u \in VersionChain(v) :
                       /\ versions[u].asset = versions[v].asset
                       /\ VersionChain(u) \subseteq VersionChain(v)
<1> DEFINE OK(v) == /\ VersionChain(v) \subseteq 1 .. v
                    /\ \A u \in VersionChain(v) :
                          /\ versions[u].asset = versions[v].asset
                          /\ VersionChain(u) \subseteq VersionChain(v)
           bad == {v \in 0 .. Len(versions) : ~OK(v)}
<1>1. ChainsUnfold /\ Len(versions) \in Nat
  BY ChainsDoUnfold DEF VersionsOK
<1> SUFFICES ASSUME bad # {} PROVE FALSE
  BY <1>1 DEF ChainsUnfold
<1>2. bad \subseteq Nat
  OBVIOUS
<1>3. PICK v \in bad : \A u \in bad : v <= u
  BY <1>2, Minimal
<1>4. v \in 1 .. Len(versions)
  BY <1>1, <1>3 DEF ChainsUnfold, None
<1> DEFINE p == versions[v].prev
<1>5. /\ p \in 0 .. (v - 1) /\ VersionChain(v) = {v} \cup VersionChain(p)
      /\ p # None => versions[p].asset = versions[v].asset
  BY <1>1, <1>4 DEF ChainsUnfold, VersionsOK
<1>6. OK(p)
  BY <1>3, <1>4, <1>5
<1>7. p = None => VersionChain(p) = {}
  BY <1>1 DEF ChainsUnfold
<1>8. OK(v)
  <2> HIDE DEF p
  <2>1. VersionChain(v) \subseteq 1 .. v
    BY <1>4, <1>5, <1>6
  <2>2. ASSUME NEW u \in VersionChain(v)
        PROVE  versions[u].asset = versions[v].asset /\ VersionChain(u) \subseteq VersionChain(v)
    BY <1>5, <1>6, <1>7
  <2> QED
    BY <2>1, <2>2
<1> QED
  BY <1>3, <1>8

(* A manifest that is written changes no chain.                            *)
LEMMA ChainsStay ==
    ASSUME VersionsOK, VersionsOK', Len(versions) <= Len(versions'),
           \A v \in 1 .. Len(versions) : versions'[v] = versions[v]
    PROVE  \A v \in 0 .. Len(versions) : VersionChain(v)' = VersionChain(v)
<1> DEFINE bad == {v \in 0 .. Len(versions) : VersionChain(v)' # VersionChain(v)}
<1>1. ChainsUnfold /\ ChainsUnfold' /\ Len(versions) \in Nat /\ Len(versions') \in Nat
  BY ChainsDoUnfold, ChainsUnfoldNext DEF VersionsOK
<1> SUFFICES ASSUME bad # {} PROVE FALSE
  OBVIOUS
<1>2. bad \subseteq Nat
  OBVIOUS
<1>3. PICK v \in bad : \A u \in bad : v <= u
  BY <1>2, Minimal
<1>4. v \in 1 .. Len(versions)
  <2>1. v = 0 => VersionChain(v) = {} /\ VersionChain(v)' = {}
    BY <1>1 DEF ChainsUnfold, None
  <2>2. v \in 0 .. Len(versions) /\ VersionChain(v)' # VersionChain(v)
    BY <1>3
  <2>3. v # 0
    BY <2>1, <2>2
  <2> QED
    BY <1>1, <2>2, <2>3
<1>5. versions[v].prev \in 0 .. (v - 1) /\ versions'[v].prev = versions[v].prev
  BY <1>4 DEF VersionsOK
<1>6. versions[v].prev \notin bad
  BY <1>3, <1>4, <1>5
<1>7. VersionChain(versions[v].prev)' = VersionChain(versions[v].prev)
  BY <1>4, <1>5, <1>6
<1>8. VersionChain(v) = {v} \cup VersionChain(versions[v].prev)
  BY <1>1, <1>4 DEF ChainsUnfold
<1>9. VersionChain(v)' = {v} \cup VersionChain(versions[v].prev)'
  BY <1>1, <1>4 DEF ChainsUnfold
<1> QED
  BY <1>3, <1>7, <1>8, <1>9

(* One step further back from every document, and the walks made of such    *)
(* steps.                                                                   *)
Row(prev, N, m, w) ==
    [e \in 0 .. N |-> IF e = None THEN {} ELSE {e} \cup (IF m = 0 THEN {} ELSE w[m - 1][prev[e]])]
IsWalk(w, prev, N, n) == w = [m \in 0 .. n |-> Row(prev, N, m, w)]

First(prev, N) == [e \in 0 .. N |-> IF e = None THEN {} ELSE {e}]
Further(prev, N, row) == [e \in 0 .. N |-> IF e = None THEN {} ELSE {e} \cup row[prev[e]]]

LEMMA WalkIs ==
    ASSUME NEW prev, NEW N \in Nat, NEW n \in Nat, NEW w
    PROVE  IsWalk(w, prev, N, n) <=>
              /\ w = [m \in 0 .. n |-> w[m]]
              /\ w[0] = First(prev, N)
              /\ \A m \in 1 .. n : w[m] = Further(prev, N, w[m - 1])
<1>1. Row(prev, N, 0, w) = First(prev, N)
  BY DEF Row, First
<1>2. ASSUME NEW m \in 1 .. n PROVE Row(prev, N, m, w) = Further(prev, N, w[m - 1])
  BY DEF Row, Further
<1>3. 0 \in 0 .. n /\ \A m \in 0 .. n : m = 0 \/ m \in 1 .. n
  OBVIOUS
<1>4. ASSUME IsWalk(w, prev, N, n)
      PROVE  /\ w = [m \in 0 .. n |-> w[m]]
             /\ w[0] = First(prev, N)
             /\ \A m \in 1 .. n : w[m] = Further(prev, N, w[m - 1])
  <2> DEFINE R(m) == Row(prev, N, m, w)
  <2>1. w = [m \in 0 .. n |-> R(m)]
    BY <1>4 DEF IsWalk
  <2> HIDE DEF R
  <2>2. \A m \in 0 .. n : w[m] = R(m)
    BY <2>1
  <2>3. w = [m \in 0 .. n |-> w[m]]
    BY <2>1
  <2> QED
    BY <1>1, <1>2, <1>3, <2>2, <2>3 DEF R
<1>5. ASSUME /\ w = [m \in 0 .. n |-> w[m]]
             /\ w[0] = First(prev, N)
             /\ \A m \in 1 .. n : w[m] = Further(prev, N, w[m - 1])
      PROVE  IsWalk(w, prev, N, n)
  <2> DEFINE R(m) == Row(prev, N, m, w)
  <2>1. \A m \in 0 .. n : w[m] = R(m)
    BY <1>1, <1>2, <1>3, <1>5
  <2> HIDE DEF R
  <2>2. w = [m \in 0 .. n |-> R(m)]
    BY <1>5, <2>1
  <2> QED
    BY <2>2 DEF IsWalk, R
<1> QED
  BY <1>4, <1>5

LEMMA WalkSteps ==
    ASSUME NEW prev, NEW N \in Nat, NEW n \in Nat, NEW w, IsWalk(w, prev, N, n)
    PROVE  /\ w[0] = First(prev, N)
           /\ \A m \in 1 .. n : w[m] = Further(prev, N, w[m - 1])
  BY WalkIs

LEMMA WalkExists ==
    ASSUME NEW prev, NEW N \in Nat, NEW n \in Nat
    PROVE  \E w : IsWalk(w, prev, N, n)
<1> DEFINE bad == {k \in Nat : ~ \E w : IsWalk(w, prev, N, k)}
<1> SUFFICES ASSUME bad # {} PROVE FALSE
  OBVIOUS
<1>1. PICK k \in bad : \A m \in bad : k <= m
  BY Minimal
<1>2. CASE k = 0
  <2>1. PICK w : w = [m \in 0 .. 0 |-> First(prev, N)]
    OBVIOUS
  <2>2. w[0] = First(prev, N) /\ w = [m \in 0 .. 0 |-> w[m]] /\ 1 .. 0 = {}
    BY <2>1
  <2>3. IsWalk(w, prev, N, 0)
    BY <2>2, WalkIs
  <2> QED
    BY <1>1, <1>2, <2>3
<1>3. CASE k # 0
  <2>1. k - 1 \in Nat /\ k - 1 \notin bad /\ k \in Nat
    BY <1>1, <1>3
  <2>2. PICK w : IsWalk(w, prev, N, k - 1)
    BY <2>1
  <2>3. /\ w[0] = First(prev, N)
        /\ \A m \in 1 .. (k - 1) : w[m] = Further(prev, N, w[m - 1])
    BY <2>1, <2>2, WalkIs
  <2>4. PICK x : x = [m \in 0 .. k |-> IF m = k THEN Further(prev, N, w[k - 1]) ELSE w[m]]
    OBVIOUS
  <2>5. /\ \A m \in 0 .. (k - 1) : x[m] = w[m]
        /\ x[k] = Further(prev, N, w[k - 1])
        /\ x = [m \in 0 .. k |-> x[m]]
    BY <1>3, <2>1, <2>4
  <2>6. x[0] = First(prev, N)
    <3>1. 0 \in 0 .. (k - 1)
      BY <2>1
    <3> QED
      BY <2>3, <2>5, <3>1
  <2>7. ASSUME NEW m \in 1 .. k PROVE x[m] = Further(prev, N, x[m - 1])
    <3>1. m - 1 \in 0 .. (k - 1) /\ (m = k \/ (m \in 1 .. (k - 1) /\ m \in 0 .. (k - 1)))
      BY <2>1
    <3> QED
      BY <2>3, <2>5, <3>1
  <2>8. IsWalk(x, prev, N, k)
    BY <2>1, <2>5, <2>6, <2>7, WalkIs
  <2> QED
    BY <1>1, <2>8
<1> QED
  BY <1>2, <1>3

LEMMA WalksAgree ==
    ASSUME NEW prev, NEW N \in Nat, NEW n \in Nat, NEW k \in Nat, NEW w, NEW x,
           IsWalk(w, prev, N, n), IsWalk(x, prev, N, k)
    PROVE  \A m \in Nat : m <= n /\ m <= k => w[m] = x[m]
<1> DEFINE bad == {m \in Nat : m <= n /\ m <= k /\ w[m] # x[m]}
<1> SUFFICES ASSUME bad # {} PROVE FALSE
  OBVIOUS
<1>1. PICK m \in bad : \A l \in bad : m <= l
  BY Minimal
<1>2. /\ w[0] = First(prev, N) /\ \A l \in 1 .. n : w[l] = Further(prev, N, w[l - 1])
      /\ x[0] = First(prev, N) /\ \A l \in 1 .. k : x[l] = Further(prev, N, x[l - 1])
  <2>1. ASSUME NEW l \in Nat, NEW z, IsWalk(z, prev, N, l)
        PROVE  z[0] = First(prev, N) /\ \A i \in 1 .. l : z[i] = Further(prev, N, z[i - 1])
    BY <2>1, WalkIs
  <2> QED
    BY <2>1
<1>3. m # 0
  BY <1>1, <1>2
<1>4. w[m - 1] = x[m - 1] /\ m \in 1 .. n /\ m \in 1 .. k
  BY <1>1, <1>3
<1> QED
  BY <1>1, <1>2, <1>4

PrevDoc == [d \in 1 .. Len(docs) |-> docs[d].prev]

PrevsOK == docs \in Seq(Doc) /\ \A d \in 1 .. Len(docs) : docs[d].prev \in 0 .. (d - 1)

LEMMA AncestorsAre ==
    ASSUME PrevsOK, NEW n \in Nat
    PROVE  \E w : /\ IsWalk(w, PrevDoc, Len(docs), n)
                  /\ w[0] = First(PrevDoc, Len(docs))
                  /\ \A m \in 1 .. n : w[m] = Further(PrevDoc, Len(docs), w[m - 1])
                  /\ \A d : Ancestors(d, n) = w[n][d]
<1> DEFINE Same(w) == w = [m \in 0 .. n |-> [e \in 0 .. Len(docs) |->
              IF e = None THEN {} ELSE {e} \cup (IF m = 0 THEN {} ELSE w[m - 1][docs[e].prev])]]
           walk == CHOOSE w : Same(w)
<1>1. \A d : Ancestors(d, n) = walk[n][d]
  BY DEF Ancestors
<1>2. Len(docs) \in Nat
  BY DEF PrevsOK
<1>3. ASSUME NEW w PROVE IsWalk(w, PrevDoc, Len(docs), n) <=> Same(w)
  <2>1. \A e \in 0 .. Len(docs) : e # None => PrevDoc[e] = docs[e].prev
    BY <1>2 DEF PrevDoc, None
  <2> DEFINE R(m) == [e \in 0 .. Len(docs) |->
              IF e = None THEN {} ELSE {e} \cup (IF m = 0 THEN {} ELSE w[m - 1][docs[e].prev])]
  <2>2. ASSUME NEW m \in 0 .. n PROVE Row(PrevDoc, Len(docs), m, w) = R(m)
    BY <2>1 DEF Row
  <2>3. [m \in 0 .. n |-> Row(PrevDoc, Len(docs), m, w)] = [m \in 0 .. n |-> R(m)]
    <3> HIDE DEF R
    <3> QED
      BY <2>2
  <2> QED
    BY <2>3 DEF IsWalk
<1>4. \E w : Same(w)
  <2> HIDE DEF Same
  <2> QED
    BY <1>2, <1>3, WalkExists
<1>5. Same(walk)
  <2> HIDE DEF Same
  <2> QED
    BY <1>4
<1> QED
  <2> HIDE DEF Same, walk
  <2>1. IsWalk(walk, PrevDoc, Len(docs), n)
    BY <1>3, <1>5
  <2> QED
    BY <1>1, <1>2, <2>1, WalkSteps

AncestorsUnfold ==
    /\ \A n \in Nat, d \in {None} : Ancestors(d, n) = {}
    /\ \A d \in 1 .. Len(docs), n \in {0} : Ancestors(d, n) = {d}
    /\ \A d \in 1 .. Len(docs), n \in Nat \ {0} :
          Ancestors(d, n) = {d} \cup Ancestors(docs[d].prev, n - 1)

LEMMA AncestorsDoUnfold == PrevsOK => AncestorsUnfold
<1> SUFFICES ASSUME PrevsOK PROVE AncestorsUnfold
  OBVIOUS
<1>1. Len(docs) \in Nat
  BY DEF PrevsOK
<1>2. 0 \in 0 .. Len(docs) /\ \A d \in 1 .. Len(docs) : d \in 0 .. Len(docs) /\ d # 0
  BY <1>1
<1>3. \A d \in 1 .. Len(docs) : PrevDoc[d] = docs[d].prev
  BY DEF PrevDoc
<1>f. /\ First(PrevDoc, Len(docs))[0] = {}
      /\ \A d \in 1 .. Len(docs) : First(PrevDoc, Len(docs))[d] = {d}
  BY <1>2 DEF First, None
<1>g. ASSUME NEW row
      PROVE  /\ Further(PrevDoc, Len(docs), row)[0] = {}
             /\ \A d \in 1 .. Len(docs) :
                   Further(PrevDoc, Len(docs), row)[d] = {d} \cup row[docs[d].prev]
  BY <1>2, <1>3 DEF Further, None
<1>4. ASSUME NEW n \in Nat PROVE Ancestors(0, n) = {}
  <2>1. PICK w : /\ w[0] = First(PrevDoc, Len(docs))
                 /\ \A m \in 1 .. n : w[m] = Further(PrevDoc, Len(docs), w[m - 1])
                 /\ \A d : Ancestors(d, n) = w[n][d]
    BY AncestorsAre
  <2>2. CASE n = 0
    BY <1>f, <2>1, <2>2
  <2>3. CASE n \in 1 .. n
    BY <1>g, <2>1, <2>3
  <2> QED
    BY <2>2, <2>3
<1>5. ASSUME NEW d \in 1 .. Len(docs) PROVE Ancestors(d, 0) = {d}
  <2>1. PICK w : /\ w[0] = First(PrevDoc, Len(docs))
                 /\ \A e : Ancestors(e, 0) = w[0][e]
    BY AncestorsAre
  <2> QED
    BY <1>f, <2>1
<1>6. ASSUME NEW d \in 1 .. Len(docs), NEW n \in Nat \ {0}
      PROVE  Ancestors(d, n) = {d} \cup Ancestors(docs[d].prev, n - 1)
  <2>0. n \in Nat /\ n - 1 \in Nat /\ n - 1 <= n /\ n \in 1 .. n
    OBVIOUS
  <2>1. PICK w : /\ IsWalk(w, PrevDoc, Len(docs), n)
                 /\ \A m \in 1 .. n : w[m] = Further(PrevDoc, Len(docs), w[m - 1])
                 /\ \A e : Ancestors(e, n) = w[n][e]
    BY <2>0, AncestorsAre
  <2>2. PICK x : /\ IsWalk(x, PrevDoc, Len(docs), n - 1)
                 /\ \A e : Ancestors(e, n - 1) = x[n - 1][e]
    BY <2>0, AncestorsAre
  <2>3. w[n - 1] = x[n - 1]
    BY <1>1, <2>0, <2>1, <2>2, WalksAgree
  <2> QED
    BY <1>g, <2>0, <2>1, <2>2, <2>3
<1> QED
  BY <1>4, <1>5, <1>6 DEF AncestorsUnfold, None

LEMMA AncestorsUnfoldNext == (PrevsOK => AncestorsUnfold)'
  BY AncestorsDoUnfold, PTL

(* What is closed under predecessors holds the ancestors of its members.    *)
LEMMA AncestorsWithin ==
    ASSUME PrevsOK, NEW S, \A e \in S \ {None} : e \in 1 .. Len(docs) /\ docs[e].prev \in S \cup {None},
           NEW n \in Nat, NEW d \in S \cup {None}
    PROVE  Ancestors(d, n) \subseteq S
<1> DEFINE bad == {m \in Nat : \E e \in S \cup {None} : ~(Ancestors(e, m) \subseteq S)}
<1> SUFFICES ASSUME bad # {} PROVE FALSE
  OBVIOUS
<1>0. AncestorsUnfold
  BY AncestorsDoUnfold
<1>1. PICK m \in bad : \A l \in bad : m <= l
  BY Minimal
<1>2. PICK e \in S \cup {None} : ~(Ancestors(e, m) \subseteq S)
  BY <1>1
<1>3. e # None
  BY <1>0, <1>1, <1>2 DEF AncestorsUnfold
<1>4. e \in 1 .. Len(docs) /\ e \in S /\ docs[e].prev \in S \cup {None}
  BY <1>2, <1>3
<1>5. m # 0
  BY <1>0, <1>2, <1>4 DEF AncestorsUnfold
<1>6. m - 1 \in Nat /\ m - 1 \notin bad /\ m \in Nat \ {0}
  BY <1>1, <1>5
<1>7. Ancestors(docs[e].prev, m - 1) \subseteq S
  BY <1>4, <1>6
<1>8. Ancestors(e, m) = {e} \cup Ancestors(docs[e].prev, m - 1)
  BY <1>0, <1>4, <1>6 DEF AncestorsUnfold
<1> QED
  BY <1>2, <1>4, <1>7, <1>8

LEMMA AncestorsTyped ==
    ASSUME PrevsOK, NEW n \in Nat, NEW d \in 0 .. Len(docs)
    PROVE  Ancestors(d, n) \subseteq 1 .. Len(docs)
<1>1. Len(docs) \in Nat /\ \A e \in 1 .. Len(docs) : docs[e].prev \in 1 .. Len(docs) \cup {None}
  BY DEF PrevsOK, None
<1>2. d \in 1 .. Len(docs) \cup {None}
  BY <1>1 DEF None
<1> QED
  BY <1>1, <1>2, AncestorsWithin

(* A longer walk finds nothing that is not above it, and a walk as long as   *)
(* the document's number finds everything there is.                          *)
LEMMA AncestorsEnd ==
    ASSUME PrevsOK
    PROVE  \A d \in 0 .. Len(docs), n \in Nat : n + 1 >= d => Ancestors(d, n) = Ancestors(d, n + 1)
<1> DEFINE OK(d) == \A n \in Nat : n + 1 >= d => Ancestors(d, n) = Ancestors(d, n + 1)
           bad == {d \in 0 .. Len(docs) : ~OK(d)}
<1> SUFFICES ASSUME bad # {} PROVE FALSE
  OBVIOUS
<1>0. AncestorsUnfold /\ Len(docs) \in Nat /\ bad \subseteq Nat
  BY AncestorsDoUnfold DEF PrevsOK
<1>1. PICK d \in bad : \A e \in bad : d <= e
  BY <1>0, Minimal
<1>2. d # 0
  <2>1. \A n \in Nat : Ancestors(0, n) = {} /\ n + 1 \in Nat
    BY <1>0 DEF AncestorsUnfold, None
  <2>2. OK(0)
    BY <2>1
  <2> HIDE DEF OK
  <2> QED
    BY <1>1, <2>2
<1>3. d \in 1 .. Len(docs) /\ docs[d].prev \in 0 .. (d - 1)
  BY <1>0, <1>1, <1>2 DEF PrevsOK
<1>4. OK(docs[d].prev)
  <2> HIDE DEF OK
  <2> QED
    BY <1>0, <1>1, <1>3
<1>5. ASSUME NEW n \in Nat, n + 1 >= d PROVE Ancestors(d, n) = Ancestors(d, n + 1)
  <2> DEFINE p == docs[d].prev
  <2>1. Ancestors(d, n + 1) = {d} \cup Ancestors(p, n)
    <3>1. n + 1 \in Nat \ {0} /\ (n + 1) - 1 = n
      OBVIOUS
    <3> QED
      BY <1>0, <1>3, <3>1 DEF AncestorsUnfold
  <2>2. CASE n = 0
    <3>1. p = 0
      BY <1>3, <1>5, <2>2
    <3>2. Ancestors(p, n) = {}
      BY <1>0, <3>1 DEF AncestorsUnfold, None
    <3> QED
      BY <1>0, <1>3, <2>1, <2>2, <3>2 DEF AncestorsUnfold
  <2>3. CASE n # 0
    <3>1. n - 1 \in Nat /\ n \in Nat \ {0} /\ (n - 1) + 1 = n /\ n >= p
      BY <1>3, <1>5, <2>3
    <3>2. Ancestors(p, n - 1) = Ancestors(p, n)
      BY <1>4, <3>1
    <3>3. Ancestors(d, n) = {d} \cup Ancestors(p, n - 1)
      BY <1>0, <1>3, <3>1 DEF AncestorsUnfold
    <3> QED
      BY <2>1, <3>2, <3>3
  <2> QED
    BY <2>2, <2>3
<1> QED
  BY <1>1, <1>5

(* A document's walk meets what its predecessor's meets.                     *)
LEMMA AncestorsOfPrev ==
    ASSUME PrevsOK, NEW n \in Nat \ {0}, NEW d \in 1 .. Len(docs), Len(docs) <= n
    PROVE  Ancestors(docs[d].prev, n) \subseteq Ancestors(d, n)
<1> DEFINE p == docs[d].prev
<1>1. p \in 0 .. Len(docs) /\ n - 1 \in Nat /\ (n - 1) + 1 = n /\ n >= p
  BY DEF PrevsOK
<1>2. Ancestors(p, n - 1) = Ancestors(p, n)
  BY <1>1, AncestorsEnd
<1>3. Ancestors(d, n) = {d} \cup Ancestors(p, n - 1)
  BY AncestorsDoUnfold DEF AncestorsUnfold
<1> QED
  BY <1>2, <1>3

(* A document that is written changes no walk.                              *)
LEMMA AncestorsStay ==
    ASSUME PrevsOK, PrevsOK', Len(docs) <= Len(docs'),
           \A d \in 1 .. Len(docs) : docs'[d] = docs[d], NEW n \in Nat
    PROVE  \A d \in 0 .. Len(docs) : Ancestors(d, n)' = Ancestors(d, n)
<1> DEFINE OK(m) == \A d \in 0 .. Len(docs) : Ancestors(d, m)' = Ancestors(d, m)
           bad == {m \in Nat : ~OK(m)}
<1> SUFFICES ASSUME bad # {} PROVE FALSE
  OBVIOUS
<1>0. /\ AncestorsUnfold /\ AncestorsUnfold'
      /\ Len(docs) \in Nat /\ Len(docs') \in Nat
      /\ \A d \in 1 .. Len(docs) : d \in 1 .. Len(docs') /\ docs[d].prev \in 0 .. Len(docs)
                                 /\ docs'[d].prev = docs[d].prev
  BY AncestorsDoUnfold, AncestorsUnfoldNext DEF PrevsOK
<1>1. PICK m \in bad : \A l \in bad : m <= l
  BY Minimal
<1>2. PICK d \in 0 .. Len(docs) : Ancestors(d, m)' # Ancestors(d, m)
  BY <1>1
<1>3. d # None
  BY <1>0, <1>1, <1>2 DEF AncestorsUnfold
<1>4. d \in 1 .. Len(docs)
  BY <1>0, <1>2, <1>3 DEF None
<1>5. m # 0
  <2>1. m = 0 => Ancestors(d, m) = {d} /\ Ancestors(d, m)' = {d}
    BY <1>0, <1>4 DEF AncestorsUnfold
  <2> QED
    BY <1>2, <2>1
<1>6. m \in Nat \ {0} /\ m - 1 \in Nat /\ OK(m - 1)
  <2> HIDE DEF OK
  <2> QED
    BY <1>1, <1>5
<1>7. PICK p \in 0 .. Len(docs) : p = docs[d].prev /\ p = docs'[d].prev
  BY <1>0, <1>4
<1>8. Ancestors(p, m - 1)' = Ancestors(p, m - 1)
  BY <1>6
<1>9. Ancestors(d, m) = {d} \cup Ancestors(p, m - 1)
  BY <1>0, <1>4, <1>6, <1>7 DEF AncestorsUnfold
<1>10. Ancestors(d, m)' = {d} \cup Ancestors(docs[d].prev, m - 1)'
  BY <1>0, <1>4, <1>6 DEF AncestorsUnfold
<1> QED
  BY <1>2, <1>7, <1>8, <1>9, <1>10

----------------------------------------------------------------------------
(* What is written: manifests grow from manifests of their asset, documents  *)
(* list manifests of the assets, and nothing that was written changes.       *)

(* A manifest's entry names a manifest of its asset; what a writer holds was *)
(* written.                                                                  *)
Names(vs, v, x) == v \in 0 .. Len(vs) /\ (v # None => vs[v].asset = x)

DocsOK ==
    /\ PrevsOK
    /\ \A d \in 1 .. Len(docs), x \in Assets : Names(versions, docs[d].assets[x], x)

HoldsOK(vs, q) ==
    /\ q.at = "targeted" => q.version \in 1 .. Len(vs) /\ Names(vs, q.version, q.asset)
    /\ q.at = "signing" => q.removed \in 0 .. Len(vs)
    /\ q.at = "unpinning" => q.version \in 1 .. Len(vs)

HeldOK == \A w \in Writers : HoldsOK(versions, writer[w])

HistoriesOK ==
    /\ unpinned \in [docs : SUBSET (1 .. Len(docs)), versions : SUBSET (1 .. Len(versions))]
    /\ homes \in [VersionIds -> SUBSET Tokens]
    /\ burnFailed \subseteq Tokens
    /\ cut \subseteq Tokens

WrittenInv == VersionsOK /\ DocsOK /\ HeldOK /\ HistoriesOK

(* What a step may write. *)
VersionWritten ==
    \/ UNCHANGED versions
    \/ /\ CanWriteVersion
       /\ \E a \in Assets, p \in 0 .. Len(versions) :
             Names(versions, p, a) /\ versions' = Append(versions, [asset |-> a, prev |-> p])

DocWritten ==
    \/ UNCHANGED docs
    \/ /\ CanWriteDoc
       /\ \E d \in Doc :
             /\ d.prev \in 0 .. Len(docs)
             /\ \A x \in Assets : Names(versions', d.assets[x], x)
             /\ docs' = Append(docs, d)

LEMMA LengthsTyped ==
    ASSUME TableInv
    PROVE  /\ Len(docs) \in Nat /\ Len(docs) <= MaxDocs /\ docs \in Seq(Doc)
           /\ Len(versions) \in Nat /\ Len(versions) <= MaxVersions /\ versions \in Seq(Version)
           /\ MaxDocs \in Nat \ {0} /\ MaxVersions \in Nat \ {0}
           /\ 1 .. Len(docs) \subseteq DocIds /\ 1 .. Len(versions) \subseteq VersionIds
  BY BoundsAssumption DEF TableInv, Typed, DocIds, VersionIds

LEMMA VersionsStay ==
    ASSUME TableInv, VersionsOK, VersionWritten
    PROVE  /\ VersionsOK'
           /\ Len(versions') \in Nat /\ Len(versions) <= Len(versions')
           /\ \A v \in 1 .. Len(versions) : versions'[v] = versions[v]
           /\ \A v \in 0 .. Len(versions) : v \in 0 .. Len(versions')
<1>1. Len(versions) \in Nat /\ versions \in Seq(Version)
  BY LengthsTyped
<1>2. CASE UNCHANGED versions
  BY <1>1, <1>2 DEF VersionsOK
<1>3. CASE ~UNCHANGED versions
  <2>1. PICK a \in Assets, p \in 0 .. Len(versions) :
            CanWriteVersion /\ Names(versions, p, a) /\ versions' = Append(versions, [asset |-> a, prev |-> p])
    BY <1>3 DEF VersionWritten
  <2> DEFINE new == [asset |-> a, prev |-> p]
  <2>2. new \in Version
    BY <1>1, LengthsTyped DEF Version, VersionIds, None
  <2>3. /\ versions' \in Seq(Version) /\ Len(versions') = Len(versions) + 1
        /\ \A v \in 1 .. Len(versions) : versions'[v] = versions[v]
        /\ versions'[Len(versions) + 1] = new
    BY <1>1, <2>1, <2>2
  <2>4. ASSUME NEW v \in 1 .. Len(versions')
        PROVE  /\ versions'[v].prev \in 0 .. (v - 1)
               /\ versions'[v].prev # None => versions'[versions'[v].prev].asset = versions'[v].asset
    <3>1. CASE v \in 1 .. Len(versions)
      <4>1. /\ versions[v].prev \in 0 .. (v - 1)
            /\ versions[v].prev # None => versions[versions[v].prev].asset = versions[v].asset
        BY <3>1 DEF VersionsOK
      <4>2. versions'[v] = versions[v]
        BY <2>3, <3>1
      <4>3. versions[v].prev # None => versions'[versions[v].prev] = versions[versions[v].prev]
        BY <1>1, <2>3, <3>1, <4>1 DEF None
      <4> QED
        BY <4>1, <4>2, <4>3
    <3>2. CASE v = Len(versions) + 1
      BY <1>1, <2>1, <2>3, <3>2 DEF Names, None
    <3> QED
      BY <1>1, <2>3, <3>1, <3>2
  <2>5. VersionsOK'
    BY <2>3, <2>4 DEF VersionsOK
  <2> QED
    BY <1>1, <2>3, <2>5
<1> QED
  BY <1>2, <1>3

LEMMA NamesStay ==
    ASSUME TableInv, VersionsOK, VersionWritten, NEW v, NEW x, Names(versions, v, x)
    PROVE  Names(versions', v, x)
<1>1. Len(versions) \in Nat
  BY LengthsTyped
<1> QED
  BY <1>1, VersionsStay DEF Names, None

LEMMA DocsStay ==
    ASSUME TableInv, VersionsOK, DocsOK, VersionWritten, DocWritten
    PROVE  /\ DocsOK'
           /\ Len(docs') \in Nat /\ Len(docs) <= Len(docs')
           /\ \A d \in 1 .. Len(docs) : docs'[d] = docs[d]
           /\ \A d \in 0 .. Len(docs) : d \in 0 .. Len(docs') /\ AssetsOf(d)' = AssetsOf(d)
<1>1. Len(docs) \in Nat /\ docs \in Seq(Doc)
  BY LengthsTyped
<1>2. \A v, x : Names(versions, v, x) => Names(versions', v, x)
  BY NamesStay
<1>3. CASE UNCHANGED docs
  BY <1>1, <1>2, <1>3 DEF DocsOK, PrevsOK, AssetsOf
<1>4. CASE ~UNCHANGED docs
  <2>1. PICK new \in Doc : /\ new.prev \in 0 .. Len(docs)
                           /\ \A x \in Assets : Names(versions', new.assets[x], x)
                           /\ CanWriteDoc /\ docs' = Append(docs, new)
    BY <1>4 DEF DocWritten
  <2>2. /\ docs' \in Seq(Doc) /\ Len(docs') = Len(docs) + 1
        /\ docs'[Len(docs) + 1] = new
        /\ \A i \in 1 .. Len(docs) : docs'[i] = docs[i]
        /\ \A i \in 0 .. Len(docs) : AssetsOf(i)' = AssetsOf(i) /\ i \in 0 .. Len(docs')
    BY <2>1, AddedDoc DEF TableInv, NewDoc
  <2>3. ASSUME NEW d \in 1 .. Len(docs')
        PROVE  docs'[d].prev \in 0 .. (d - 1) /\ \A x \in Assets : Names(versions', docs'[d].assets[x], x)
    <3>1. CASE d \in 1 .. Len(docs)
      BY <1>2, <2>2, <3>1 DEF DocsOK, PrevsOK
    <3>2. CASE d = Len(docs) + 1
      BY <1>1, <2>1, <2>2, <3>2
    <3> QED
      BY <1>1, <2>2, <3>1, <3>2
  <2>4. DocsOK'
    BY <2>2, <2>3 DEF DocsOK, PrevsOK
  <2> QED
    BY <1>1, <2>2, <2>4
<1> QED
  BY <1>3, <1>4

LEMMA HoldsStay ==
    ASSUME TableInv, VersionsOK, VersionWritten, NEW q, HoldsOK(versions, q)
    PROVE  HoldsOK(versions', q)
<1>1. Len(versions) \in Nat /\ Len(versions') \in Nat /\ Len(versions) <= Len(versions')
  BY LengthsTyped, VersionsStay
<1>2. q.at = "targeted" => Names(versions', q.version, q.asset)
  BY NamesStay DEF HoldsOK
<1> QED
  BY <1>1, <1>2 DEF HoldsOK

LEMMA WrittenMoves ==
    ASSUME TableInv, WrittenInv, VersionWritten, DocWritten,
           NEW w \in Writers, NEW step, Moves(w, step), HoldsOK(versions', step),
           HistoriesOK'
    PROVE  WrittenInv'
<1>1. VersionsOK' /\ DocsOK'
  BY VersionsStay, DocsStay DEF WrittenInv
<1>2. writer'[w] = step /\ \A u \in Writers \ {w} : writer'[u] = writer[u]
  BY MovesTo
<1>3. \A u \in Writers : HoldsOK(versions', writer[u])
  BY HoldsStay DEF WrittenInv, HeldOK
<1>4. \A u \in Writers : HoldsOK(versions', writer'[u])
  BY <1>2, <1>3
<1> QED
  BY <1>1, <1>4 DEF WrittenInv, HeldOK

LEMMA HistoriesStay ==
    ASSUME TableInv, WrittenInv, VersionWritten, DocWritten, UNCHANGED <<unpinned, burnFailed>>,
           homes' \in [VersionIds -> SUBSET Tokens], cut' \subseteq Tokens
    PROVE  HistoriesOK'
<1>1. /\ Len(versions) \in Nat /\ Len(versions') \in Nat /\ Len(versions) <= Len(versions')
      /\ Len(docs) \in Nat /\ Len(docs') \in Nat /\ Len(docs) <= Len(docs')
  BY LengthsTyped, VersionsStay, DocsStay DEF WrittenInv
<1>2. 1 .. Len(versions) \subseteq 1 .. Len(versions') /\ 1 .. Len(docs) \subseteq 1 .. Len(docs')
  BY <1>1
<1> QED
  BY <1>2 DEF HistoriesOK, WrittenInv

LEMMA HousesTyped ==
    ASSUME HistoriesOK, NEW t \in Tokens, NEW v, Houses(t, v)
    PROVE  homes' \in [VersionIds -> SUBSET Tokens]
  BY DEF HistoriesOK, Houses

(* What a document lists is of its asset. *)
LEMMA EntriesNamed ==
    ASSUME TableInv, DocsOK, NEW d \in 0 .. Len(docs), NEW a \in Assets
    PROVE  Names(versions, AssetsOf(d)[a], a)
<1>1. Len(docs) \in Nat /\ Len(versions) \in Nat
  BY LengthsTyped
<1>2. CASE d = None
  BY <1>1, <1>2 DEF AssetsOf, NoAssets, Names, None
<1>3. CASE d # None
  <2>1. d \in 1 .. Len(docs)
    BY <1>1, <1>3 DEF None
  <2> QED
    BY <1>3, <2>1 DEF AssetsOf, DocsOK
<1> QED
  BY <1>2, <1>3

LEMMA UriTyped ==
    ASSUME TableInv, NEW t \in Tokens
    PROVE  uri[t] \in 0 .. Len(docs) /\ (t \in Live => uri[t] \in 1 .. Len(docs))
  BY DEF TableInv, Typed, Live, None

LEMMA EverListedNamed ==
    ASSUME TableInv, DocsOK, NEW t \in Live, NEW a \in Assets, NEW v \in EverListed(t, a, MaxDocs)
    PROVE  \E d \in Ancestors(uri[t], MaxDocs) :
              d \in 1 .. Len(docs) /\ v = AssetsOf(d)[a] /\ Names(versions, v, a)
<1>1. PICK d \in Ancestors(uri[t], MaxDocs) : v = docs[d].assets[a]
  BY DEF EverListed
<1>2. uri[t] \in 0 .. Len(docs) /\ MaxDocs \in Nat
  BY UriTyped, LengthsTyped DEF Live
<1>3. d \in 1 .. Len(docs)
  BY <1>1, <1>2, AncestorsTyped DEF DocsOK
<1>4. d # None
  BY <1>3 DEF None
<1> QED
  BY <1>1, <1>3, <1>4 DEF DocsOK, AssetsOf

LEMMA WriteVersionWritten ==
    ASSUME TableInv, WrittenInv, NEW w \in Writers, NEW a \in Assets,
           NEW prev \in 0 .. Len(versions), NEW token, NEW mint, NEW base,
           WriteVersion(w, a, prev, token, mint, base)
    PROVE  WrittenInv' /\ VersionWritten /\ UNCHANGED docs
<1> DEFINE step == [at |-> "targeted", token |-> token, mint |-> mint, base |-> base,
                    asset |-> a, version |-> NewVersion]
<1>1. /\ CanWriteVersion /\ versions' = Append(versions, [asset |-> a, prev |-> prev])
      /\ Moves(w, step) /\ UNCHANGED <<docs, unpinned, homes, burnFailed, cut>>
      /\ prev # None => \E t \in Live : prev \in EverListed(t, a, MaxDocs)
  BY DEF WriteVersion
<1>2. Names(versions, prev, a)
  <2>1. CASE prev = None
    BY <2>1 DEF Names
  <2>2. CASE prev # None
    BY <1>1, <2>2, EverListedNamed DEF WrittenInv
  <2> QED
    BY <2>1, <2>2
<1>3. VersionWritten /\ DocWritten
  BY <1>1, <1>2 DEF VersionWritten, DocWritten
<1>4. HoldsOK(versions', step)
  <2>1. /\ Len(versions') = Len(versions) + 1 /\ Len(versions) \in Nat
        /\ versions'[Len(versions) + 1].asset = a
    BY <1>1, LengthsTyped
  <2> QED
    BY <2>1 DEF HoldsOK, Names, NewVersion
<1>5. HistoriesOK'
  BY <1>1, <1>3, HistoriesStay DEF WrittenInv, HistoriesOK
<1>6. WrittenInv'
  <2> HIDE DEF step
  <2> QED
    BY <1>1, <1>3, <1>4, <1>5, WrittenMoves
<1> QED
  BY <1>1, <1>3, <1>6

(* The chains of the manifests, the entries of the documents, and everything *)
(* a document leads to.                                                      *)
Chain == [v \in 0 .. Len(versions) |-> VersionChain(v)]
Entries == [d \in 0 .. Len(docs) |-> AssetsOf(d)]
Within == [d \in 0 .. Len(docs) |-> UNION {Chain[Entries[d][a]] : a \in Assets}]

LEMMA ChainFacts ==
    ASSUME TableInv, WrittenInv
    PROVE  /\ Chain[None] = {}
           /\ \A v \in 0 .. Len(versions) :
                 /\ Chain[v] \subseteq 1 .. Len(versions)
                 /\ v # None => v \in Chain[v]
                 /\ \A u \in Chain[v] : versions[u].asset = versions[v].asset
<1>1. Len(versions) \in Nat
  BY LengthsTyped
<1>2. \A v \in 0 .. Len(versions) : Chain[v] = VersionChain(v)
  BY DEF Chain
<1>3. 0 \in 0 .. Len(versions) /\ \A v \in 0 .. Len(versions) : v # 0 => v \in 1 .. Len(versions)
  BY <1>1
<1>4. \A v \in 1 .. Len(versions) : v \in VersionChain(v)
  BY ChainsDoUnfold DEF ChainsUnfold, WrittenInv
<1>5. \A v \in 0 .. Len(versions) : VersionChain(v) \subseteq 1 .. Len(versions)
  <2> SUFFICES ASSUME NEW v \in 0 .. Len(versions) PROVE VersionChain(v) \subseteq 1 .. Len(versions)
    OBVIOUS
  <2>1. VersionChain(v) \subseteq 1 .. v
    BY Chains DEF WrittenInv
  <2> QED
    BY <1>1, <2>1
<1> QED
  BY <1>2, <1>3, <1>4, <1>5, Chains DEF WrittenInv, None

LEMMA EntryFacts ==
    ASSUME TableInv, WrittenInv
    PROVE  /\ None \in 0 .. Len(docs) /\ Within[None] = {} /\ \A a \in Assets : Entries[None][a] = None
           /\ \A d \in 0 .. Len(docs) :
                 /\ Entries[d] = AssetsOf(d)
                 /\ Within[d] \subseteq 1 .. Len(versions)
                 /\ \A a \in Assets :
                       /\ Names(versions, Entries[d][a], a)
                       /\ Chain[Entries[d][a]] \subseteq Within[d]
                       /\ Entries[d][a] # None => Entries[d][a] \in Within[d]
                 /\ \A u \in Within[d] : \E a \in Assets : u \in Chain[Entries[d][a]]
<1>1. Len(docs) \in Nat /\ None \in 0 .. Len(docs)
  BY LengthsTyped DEF None
<1>2. \A d \in 0 .. Len(docs) : Entries[d] = AssetsOf(d)
  BY DEF Entries
<1>3. \A a \in Assets : Entries[None][a] = None
  BY <1>1, <1>2 DEF AssetsOf, NoAssets
<1>4. \A d \in 0 .. Len(docs), a \in Assets : Names(versions, Entries[d][a], a)
  BY <1>2, EntriesNamed DEF WrittenInv
<1>5. \A d \in 0 .. Len(docs) : Within[d] = UNION {Chain[Entries[d][a]] : a \in Assets}
  BY DEF Within
<1>6. Within[None] = {}
  BY <1>1, <1>3, <1>5, ChainFacts
<1>7. \A d \in 0 .. Len(docs), a \in Assets :
          /\ Entries[d][a] \in 0 .. Len(versions)
          /\ Chain[Entries[d][a]] \subseteq 1 .. Len(versions)
          /\ Entries[d][a] # None => Entries[d][a] \in Chain[Entries[d][a]]
  BY <1>4, ChainFacts DEF Names
<1>8. \A d \in 0 .. Len(docs) :
          /\ \A a \in Assets : Chain[Entries[d][a]] \subseteq Within[d]
          /\ \A u \in Within[d] : \E a \in Assets : u \in Chain[Entries[d][a]]
  BY <1>5
<1> QED
  BY <1>1, <1>2, <1>3, <1>4, <1>6, <1>7, <1>8

(* What is written stays: its chain, its entries and what it leads to.       *)
DataStays ==
    /\ Len(versions) \in Nat /\ Len(versions') \in Nat /\ Len(versions) <= Len(versions')
    /\ Len(docs) \in Nat /\ Len(docs') \in Nat /\ Len(docs) <= Len(docs')
    /\ \A v \in 1 .. Len(versions) : versions'[v] = versions[v]
    /\ \A d \in 1 .. Len(docs) : docs'[d] = docs[d]
    /\ \A v \in 0 .. Len(versions) : v \in 0 .. Len(versions') /\ Chain'[v] = Chain[v]
    /\ \A d \in 0 .. Len(docs) :
          d \in 0 .. Len(docs') /\ Entries'[d] = Entries[d] /\ Within'[d] = Within[d]

LEMMA DataDoesStay ==
    ASSUME TableInv, WrittenInv, VersionWritten, DocWritten
    PROVE  DataStays
<1>1. /\ Len(versions) \in Nat /\ Len(versions') \in Nat /\ Len(versions) <= Len(versions')
      /\ Len(docs) \in Nat /\ Len(docs') \in Nat /\ Len(docs) <= Len(docs')
      /\ \A v \in 1 .. Len(versions) : versions'[v] = versions[v]
      /\ \A d \in 1 .. Len(docs) : docs'[d] = docs[d]
      /\ \A v \in 0 .. Len(versions) : v \in 0 .. Len(versions')
      /\ \A d \in 0 .. Len(docs) : d \in 0 .. Len(docs') /\ AssetsOf(d)' = AssetsOf(d)
      /\ VersionsOK'
  BY LengthsTyped, VersionsStay, DocsStay DEF WrittenInv
<1>2. \A v \in 0 .. Len(versions) : VersionChain(v)' = VersionChain(v)
  BY <1>1, ChainsStay DEF WrittenInv
<1>3. \A v \in 0 .. Len(versions) : Chain'[v] = Chain[v]
  BY <1>1, <1>2 DEF Chain
<1>4. \A d \in 0 .. Len(docs) : Entries'[d] = Entries[d]
  BY <1>1 DEF Entries
<1>5. ASSUME NEW d \in 0 .. Len(docs) PROVE Within'[d] = Within[d]
  <2>1. \A a \in Assets : Entries[d][a] \in 0 .. Len(versions)
    BY EntryFacts DEF Names
  <2>2. \A a \in Assets : Chain'[Entries'[d][a]] = Chain[Entries[d][a]]
    BY <1>3, <1>4, <2>1
  <2>3. /\ Within[d] = UNION {Chain[Entries[d][a]] : a \in Assets}
        /\ Within'[d] = UNION {Chain'[Entries'[d][a]] : a \in Assets}
    BY <1>1 DEF Within
  <2> QED
    BY <2>2, <2>3
<1> QED
  BY <1>1, <1>3, <1>4, <1>5 DEF DataStays

(* A step that writes a document and waits for the signature: doc replaces   *)
(* the URI of t.  The change is of one entry, to a manifest of the writer's, *)
(* a new one, one another collection lists, or none.                         *)
AddsDoc(w, t, mint, base, a, v, prev, removed) ==
    /\ t \in Tokens /\ mint \in BOOLEAN /\ base \in 0 .. Len(docs) /\ a \in Assets
    /\ prev \in {None, uri[t]}
    /\ Names(versions', v, a)
    /\ removed \in {None, AssetsOf(base)[a]} /\ (removed # None => v = None)
    /\ \/ /\ writer[w] = Idle
          /\ base \in {None, uri[t]}
          /\ \/ v = None
             \/ v = Len(versions) + 1 /\ Chain'[v] = {v}
             \/ \E source \in Tokens \ {t} : v = AssetsOf(uri[source])[a]
       \/ /\ writer[w].at = "targeted" /\ base = writer[w].base /\ t = writer[w].token
          /\ v = writer[w].version
    /\ CanWriteDoc
    /\ docs' = Append(docs, Merged(base, a, v, prev))
    /\ Moves(w, [at |-> "signing", token |-> t, mint |-> mint, base |-> base,
                 doc |-> Len(docs) + 1, removed |-> removed])
    /\ VersionWritten
    /\ UNCHANGED <<uri, unpinned, disturbed, burnFailed>>
    /\ homes' \in [VersionIds -> SUBSET Tokens]
    /\ \A u \in 1 .. Len(versions) : homes[u] \subseteq homes'[u]
    /\ \A u \in Chain'[v] : t \in homes'[u]
    /\ cut \subseteq cut' /\ cut' \subseteq Tokens
    /\ mint => base = None
    /\ ~mint /\ t \notin cut' => prev = uri[t]

LEMMA ChainSame == ASSUME UNCHANGED versions PROVE Chain' = Chain
  BY DEF Chain, VersionChain

LEMMA HousesDo ==
    ASSUME TableInv, WrittenInv, UNCHANGED versions, NEW t \in Tokens,
           NEW v \in 0 .. Len(versions), Houses(t, v)
    PROVE  /\ homes' \in [VersionIds -> SUBSET Tokens]
           /\ \A u \in 1 .. Len(versions) : homes[u] \subseteq homes'[u]
           /\ \A u \in Chain'[v] : t \in homes'[u]
<1>1. \A u \in VersionIds : homes'[u] = IF u \in VersionChain(v) THEN homes[u] \cup {t} ELSE homes[u]
  BY DEF Houses
<1>2. VersionChain(v) = Chain[v] /\ Chain' = Chain
  BY DEF Chain, VersionChain
<1>3. Chain[v] \subseteq 1 .. Len(versions) /\ Len(versions) \in Nat /\ 1 .. Len(versions) \subseteq VersionIds
  BY ChainFacts, LengthsTyped
<1>4. homes' \in [VersionIds -> SUBSET Tokens]
  BY HousesTyped DEF WrittenInv
<1> QED
  BY <1>1, <1>2, <1>3, <1>4

LEMMA WriteMergedAdds ==
    ASSUME TableInv, WrittenInv, NEW w \in Writers, NEW prevKnown \in BOOLEAN,
           WriteMerged(w, prevKnown)
    PROVE  \E t, mint, base, a, v, prev, removed : AddsDoc(w, t, mint, base, a, v, prev, removed)
<1> DEFINE p == writer[w]
           prev == IF p.mint \/ ~prevKnown THEN None ELSE uri[p.token]
<1>1. /\ p.at = "targeted" /\ CanWriteDoc /\ UNCHANGED <<uri, versions, unpinned, disturbed, burnFailed>>
      /\ docs' = Append(docs, Merged(p.base, p.asset, p.version, prev))
      /\ Moves(w, [at |-> "signing", token |-> p.token, mint |-> p.mint, base |-> p.base,
                   doc |-> Len(docs) + 1, removed |-> None])
      /\ Houses(p.token, p.version)
      /\ cut' = IF p.mint \/ prevKnown THEN cut ELSE cut \cup {p.token}
  BY DEF WriteMerged, NewDoc
<1>2. p \in Targeted
  BY <1>1, TargetedIsTyped DEF TableInv
<1>3. p.base \in 0 .. Len(docs) /\ (p.mint => p.base = None)
  BY <1>1 DEF TableInv, ChangeIsSmall
<1>4. p.version \in 1 .. Len(versions) /\ Names(versions, p.version, p.asset)
  BY <1>1 DEF WrittenInv, HeldOK, HoldsOK
<1>5. p.token \in Tokens /\ p.mint \in BOOLEAN /\ p.asset \in Assets
  BY <1>2 DEF Targeted
<1>6. prev \in {None, uri[p.token]} /\ (~p.mint /\ p.token \notin cut' => prev = uri[p.token])
  BY <1>1
<1>7. VersionWritten /\ versions' = versions
  BY <1>1 DEF VersionWritten
<1>8. cut \subseteq cut' /\ cut' \subseteq Tokens
  BY <1>1, <1>5 DEF WrittenInv, HistoriesOK
<1>9. p.version \in 0 .. Len(versions)
  BY <1>4
<1>10. /\ homes' \in [VersionIds -> SUBSET Tokens]
       /\ \A u \in 1 .. Len(versions) : homes[u] \subseteq homes'[u]
       /\ \A u \in Chain'[p.version] : p.token \in homes'[u]
  <2> DEFINE T == p.token  V == p.version
  <2>1. \E t \in Tokens, v \in 0 .. Len(versions) : t = T /\ v = V /\ Houses(t, v)
    BY <1>1, <1>5, <1>9
  <2> HIDE DEF T, V
  <2>2. PICK t \in Tokens, v \in 0 .. Len(versions) : t = T /\ v = V /\ Houses(t, v)
    BY <2>1
  <2>3. /\ homes' \in [VersionIds -> SUBSET Tokens]
        /\ \A u \in 1 .. Len(versions) : homes[u] \subseteq homes'[u]
        /\ \A u \in Chain'[v] : t \in homes'[u]
    BY <1>1, <2>2, HousesDo
  <2> QED
    BY <2>2, <2>3 DEF T, V
<1>11. AddsDoc(w, p.token, p.mint, p.base, p.asset, p.version, prev, None)
  <2> HIDE DEF prev
  <2> QED
    BY <1>1, <1>3, <1>4, <1>5, <1>6, <1>7, <1>8, <1>10 DEF AddsDoc
<1> QED
  BY <1>11

LEMMA CreateNamedAdds ==
    ASSUME TableInv, WrittenInv, NEW w \in Writers, NEW t \in Tokens, CreateNamed(w, t)
    PROVE  \E a : AddsDoc(w, t, TRUE, None, a, None, None, None)
<1>1. PICK a \in Assets : TRUE
  BY AssetsAssumption
<1>2. Merged(None, a, None, None) = [assets |-> NoAssets, prev |-> None]
  BY DEF Merged, AssetsOf, NoAssets
<1>3. /\ writer[w] = Idle /\ CanWriteDoc /\ docs' = Append(docs, Merged(None, a, None, None))
      /\ Moves(w, [at |-> "signing", token |-> t, mint |-> TRUE, base |-> None,
                   doc |-> Len(docs) + 1, removed |-> None])
      /\ UNCHANGED <<uri, versions, unpinned, disturbed, homes, burnFailed, cut>>
  BY <1>2 DEF CreateNamed, NewDoc
<1>4. None \in 0 .. Len(docs) /\ Names(versions', None, a) /\ Len(versions) \in Nat
  BY <1>3, LengthsTyped DEF None, Names
<1>5. VersionWritten /\ Chain' = Chain /\ Chain[None] = {}
  BY <1>3, ChainFacts, ChainSame DEF VersionWritten
<1>6. homes' \in [VersionIds -> SUBSET Tokens] /\ cut \subseteq cut' /\ cut' \subseteq Tokens
  BY <1>3 DEF WrittenInv, HistoriesOK
<1> QED
  BY <1>3, <1>4, <1>5, <1>6 DEF AddsDoc

LEMMA DeleteAdds ==
    ASSUME TableInv, WrittenInv, NEW w \in Writers, NEW t \in Tokens, NEW a \in Assets,
           Delete(w, t, a)
    PROVE  \E base, prev, removed : AddsDoc(w, t, FALSE, base, a, None, prev, removed)
<1>1. PICK base, removed : base = uri[t] /\ removed = AssetsOf(base)[a]
  OBVIOUS
<1>2. /\ writer[w] = Idle /\ t \in Live /\ CanWriteDoc
      /\ docs' = Append(docs, Merged(base, a, None, base))
      /\ Moves(w, [at |-> "signing", token |-> t, mint |-> FALSE, base |-> base,
                   doc |-> Len(docs) + 1, removed |-> removed])
      /\ UNCHANGED <<uri, versions, unpinned, disturbed, homes, burnFailed, cut>>
  BY <1>1 DEF Delete, WriteChange, NewDoc
<1>4. base \in 0 .. Len(docs) /\ Names(versions', None, a) /\ Len(versions) \in Nat
  BY <1>1, <1>2, LengthsTyped, UriTyped DEF None, Names
<1>5. VersionWritten /\ Chain' = Chain /\ Chain[None] = {}
  BY <1>2, ChainFacts, ChainSame DEF VersionWritten
<1>6. homes' \in [VersionIds -> SUBSET Tokens] /\ cut \subseteq cut' /\ cut' \subseteq Tokens
  BY <1>2 DEF WrittenInv, HistoriesOK
<1>7. AddsDoc(w, t, FALSE, base, a, None, base, removed)
  BY <1>1, <1>2, <1>4, <1>5, <1>6 DEF AddsDoc
<1> QED
  BY <1>7

LEMMA ForkAdds ==
    ASSUME TableInv, WrittenInv, NEW w \in Writers, NEW source \in Tokens, NEW t \in Tokens,
           NEW a \in Assets, Fork(w, source, t, a)
    PROVE  \E base, v, prev : AddsDoc(w, t, FALSE, base, a, v, prev, None)
<1>1. PICK base, v : base = uri[t] /\ v = AssetsOf(uri[source])[a]
  OBVIOUS
<1>2. /\ writer[w] = Idle /\ t \in Live /\ CanWriteDoc /\ source \in Tokens \ {t}
      /\ docs' = Append(docs, Merged(base, a, v, base))
      /\ Moves(w, [at |-> "signing", token |-> t, mint |-> FALSE, base |-> base,
                   doc |-> Len(docs) + 1, removed |-> None])
      /\ Houses(t, v)
      /\ UNCHANGED <<uri, versions, unpinned, disturbed, burnFailed, cut>>
  BY <1>1 DEF Fork, WriteChange, NewDoc
<1>3. Names(versions', v, a) /\ v \in 0 .. Len(versions)
  BY <1>1, <1>2, UriTyped, EntriesNamed DEF WrittenInv, Names
<1>4. base \in 0 .. Len(docs) /\ Len(versions) \in Nat
  BY <1>1, <1>2, LengthsTyped, UriTyped
<1>5. VersionWritten
  BY <1>2 DEF VersionWritten
<1>6. cut \subseteq cut' /\ cut' \subseteq Tokens
  BY <1>2 DEF WrittenInv, HistoriesOK
<1>7. AddsDoc(w, t, FALSE, base, a, v, base, None)
  BY <1>1, <1>2, <1>3, <1>4, <1>5, <1>6, HousesDo DEF AddsDoc
<1> QED
  BY <1>7

LEMMA UploadAdds ==
    ASSUME TableInv, WrittenInv, NEW w \in Writers, NEW t \in Tokens, NEW a \in Assets,
           Upload(w, t, a)
    PROVE  \E base, v, prev : AddsDoc(w, t, FALSE, base, a, v, prev, None)
<1>1. PICK base, v : base = uri[t] /\ v = Len(versions) + 1
  OBVIOUS
<1>2. /\ writer[w] = Idle /\ t \in Live /\ CanWriteDoc /\ CanWriteVersion
      /\ docs' = Append(docs, Merged(base, a, v, base))
      /\ versions' = Append(versions, [asset |-> a, prev |-> None])
      /\ Moves(w, [at |-> "signing", token |-> t, mint |-> FALSE, base |-> base,
                   doc |-> Len(docs) + 1, removed |-> None])
      /\ homes' = [homes EXCEPT ![v] = {t}]
      /\ UNCHANGED <<uri, unpinned, disturbed, burnFailed, cut>>
  BY <1>1 DEF Upload, WriteChange, NewDoc, NewVersion
<1>3. /\ Len(versions) \in Nat /\ Len(versions) < MaxVersions /\ MaxVersions \in Nat
      /\ versions \in Seq(Version)
  BY <1>2, LengthsTyped DEF CanWriteVersion
<1>4. v \in VersionIds /\ v \in 1 .. Len(versions') /\ versions'[v] = [asset |-> a, prev |-> None]
      /\ Len(versions') = Len(versions) + 1
  BY <1>1, <1>2, <1>3 DEF VersionIds
<1>5. VersionWritten
  <2>1. None \in 0 .. Len(versions) /\ Names(versions, None, a)
    BY <1>3 DEF None, Names
  <2> QED
    BY <1>2, <2>1 DEF VersionWritten
<1>6. Chain'[v] = {v}
  <2>1. ChainsUnfold'
    BY <1>5, VersionsStay, ChainsUnfoldNext DEF WrittenInv
  <2>2. PICK p \in {None} : TRUE
    OBVIOUS
  <2>3. VersionChain(v)' = {v} \cup VersionChain(versions[v].prev)'
    BY <1>4, <2>1 DEF ChainsUnfold
  <2>4. versions'[v].prev = p
    BY <1>4, <2>2
  <2>5. VersionChain(p)' = {}
    BY <2>1, <2>2 DEF ChainsUnfold
  <2>6. Chain'[v] = VersionChain(v)'
    BY <1>4 DEF Chain
  <2> QED
    BY <2>3, <2>4, <2>5, <2>6
<1>7. base \in 0 .. Len(docs) /\ Names(versions', v, a)
  BY <1>1, <1>2, <1>3, <1>4, UriTyped DEF Names
<1>8. /\ homes' \in [VersionIds -> SUBSET Tokens]
      /\ \A u \in VersionIds : homes'[u] = IF u = v THEN {t} ELSE homes[u]
      /\ cut \subseteq cut' /\ cut' \subseteq Tokens
  BY <1>2, <1>4 DEF WrittenInv, HistoriesOK
<1>9. \A u \in 1 .. Len(versions) : homes[u] \subseteq homes'[u]
  <2>1. \A u \in 1 .. Len(versions) : u \in VersionIds /\ u # v
    BY <1>1, <1>3 DEF VersionIds
  <2> QED
    BY <1>8, <2>1
<1>10. \A u \in Chain'[v] : t \in homes'[u]
  BY <1>4, <1>6, <1>8
<1>11. AddsDoc(w, t, FALSE, base, a, v, base, None)
  BY <1>1, <1>2, <1>5, <1>6, <1>7, <1>8, <1>9, <1>10 DEF AddsDoc
<1> QED
  BY <1>11

(* The steps, by what they do to what is written and held.                   *)
Publishes(w, a, prev, token, mint, base) ==
    /\ a \in Assets /\ prev \in 0 .. Len(versions)
    /\ token \in Tokens /\ mint \in BOOLEAN /\ base \in 0 .. Len(docs)
    /\ base \in {None, uri[token]}
    /\ WriteVersion(w, a, prev, token, mint, base)

Ends(w) == Decline(w) \/ UnpinDeleted(w) \/ DeclineBurn(w)

LEMMA StepKinds ==
    ASSUME TableInv, WrittenInv, Next
    PROVE  \E w \in Writers :
              \/ \E a, prev, token, mint, base : Publishes(w, a, prev, token, mint, base)
              \/ \E t, mint, base, a, v, prev, removed :
                    AddsDoc(w, t, mint, base, a, v, prev, removed)
              \/ Mine(w)
              \/ Ends(w)
              \/ \E t \in Tokens : UnpinBurning(w, t)
              \/ MineBurn(w)
<1>1. PICK w \in Writers :
        \/ \E a \in Assets, prev \in 0 .. Len(versions) :
              \/ \E t \in Tokens : PublishPreferred(w, a, prev, t)
              \/ \E documentKnown \in BOOLEAN : PublishDefault(w, a, prev, documentKnown)
              \/ PublishNew(w, a, prev)
        \/ \E prevKnown \in BOOLEAN : WriteMerged(w, prevKnown)
        \/ \E t \in Tokens : CreateNamed(w, t)
        \/ \E t \in Tokens, a \in Assets : Upload(w, t, a) \/ Delete(w, t, a)
        \/ \E source, t \in Tokens, a \in Assets : Fork(w, source, t, a)
        \/ Mine(w)
        \/ Decline(w)
        \/ UnpinDeleted(w)
        \/ \E t \in Tokens : UnpinBurning(w, t)
        \/ MineBurn(w)
        \/ DeclineBurn(w)
  BY DEF Next
<1>2. ASSUME NEW a \in Assets, NEW prev \in 0 .. Len(versions),
              \/ \E t \in Tokens : PublishPreferred(w, a, prev, t)
              \/ \E documentKnown \in BOOLEAN : PublishDefault(w, a, prev, documentKnown)
              \/ PublishNew(w, a, prev)
      PROVE  \E token, mint, base : Publishes(w, a, prev, token, mint, base)
  BY <1>2, PublishIs DEF Publishes
<1>3. ASSUME \/ \E prevKnown \in BOOLEAN : WriteMerged(w, prevKnown)
             \/ \E t \in Tokens : CreateNamed(w, t)
             \/ \E t \in Tokens, a \in Assets : Upload(w, t, a) \/ Delete(w, t, a)
             \/ \E source, t \in Tokens, a \in Assets : Fork(w, source, t, a)
      PROVE  \E t, mint, base, a, v, prev, removed : AddsDoc(w, t, mint, base, a, v, prev, removed)
  <2>1. CASE \E prevKnown \in BOOLEAN : WriteMerged(w, prevKnown)
    BY <2>1, WriteMergedAdds
  <2>2. CASE \E t \in Tokens : CreateNamed(w, t)
    BY <2>2, CreateNamedAdds
  <2>3. CASE \E t \in Tokens, a \in Assets : Upload(w, t, a)
    BY <2>3, UploadAdds
  <2>4. CASE \E t \in Tokens, a \in Assets : Delete(w, t, a)
    BY <2>4, DeleteAdds
  <2>5. CASE \E source, t \in Tokens, a \in Assets : Fork(w, source, t, a)
    BY <2>5, ForkAdds
  <2> QED
    BY <1>3, <2>1, <2>2, <2>3, <2>4, <2>5
<1> QED
  BY <1>1, <1>2, <1>3 DEF Ends

LEMMA AddsDocWritten ==
    ASSUME TableInv, WrittenInv, NEW w \in Writers,
           NEW t, NEW mint, NEW base, NEW a, NEW v, NEW prev, NEW removed,
           AddsDoc(w, t, mint, base, a, v, prev, removed)
    PROVE  WrittenInv' /\ DocWritten
<1> DEFINE d == Merged(base, a, v, prev)
           step == [at |-> "signing", token |-> t, mint |-> mint, base |-> base,
                    doc |-> Len(docs) + 1, removed |-> removed]
<1>1. /\ t \in Tokens /\ base \in 0 .. Len(docs) /\ a \in Assets
      /\ prev \in {None, uri[t]} /\ Names(versions', v, a)
      /\ removed \in {None, AssetsOf(base)[a]}
      /\ CanWriteDoc /\ docs' = Append(docs, d) /\ Moves(w, step) /\ VersionWritten
      /\ UNCHANGED <<unpinned, burnFailed>>
      /\ homes' \in [VersionIds -> SUBSET Tokens] /\ cut' \subseteq Tokens
  BY DEF AddsDoc
<1>2. /\ Len(versions) \in Nat /\ Len(versions') \in Nat /\ Len(versions) <= Len(versions')
      /\ Len(versions') <= MaxVersions
  <2>1. Len(versions') <= MaxVersions
    <3>1. CASE UNCHANGED versions
      BY <3>1, LengthsTyped
    <3>2. CASE CanWriteVersion /\ \E x \in Assets, p \in 0 .. Len(versions) :
                   versions' = Append(versions, [asset |-> x, prev |-> p])
      BY <3>2, LengthsTyped DEF CanWriteVersion
    <3> QED
      BY <1>1, <3>1, <3>2 DEF VersionWritten
  <2> QED
    BY <1>1, <2>1, LengthsTyped, VersionsStay DEF WrittenInv
<1>3. prev \in 0 .. Len(docs) /\ prev \in DocIds \cup {None} /\ v \in VersionIds \cup {None}
  <2>1. uri[t] \in 0 .. Len(docs) /\ None \in 0 .. Len(docs)
    BY <1>1, UriTyped, LengthsTyped DEF None
  <2>2. prev \in DocIds \cup {None}
    BY <1>1, <2>1, LengthsTyped DEF DocIds, None
  <2>3. v \in VersionIds \cup {None}
    BY <1>1, <1>2, BoundsAssumption DEF Names, VersionIds, None
  <2> QED
    BY <1>1, <2>1, <2>2, <2>3
<1>4. d \in Doc /\ d.prev = prev /\ d.assets = [AssetsOf(base) EXCEPT ![a] = v]
  BY <1>1, <1>3, MergedTyped DEF TableInv, Merged
<1>5. \A x \in Assets : Names(versions', d.assets[x], x)
  <2>1. AssetsOf(base) \in [Assets -> VersionIds \cup {None}]
    BY <1>1, AssetsTyped DEF TableInv
  <2>2. \A x \in Assets : Names(versions', AssetsOf(base)[x], x)
    BY <1>1, EntriesNamed, NamesStay DEF WrittenInv
  <2> QED
    BY <1>1, <1>4, <2>1, <2>2
<1>6. DocWritten
  <2> HIDE DEF d
  <2> QED
    BY <1>1, <1>3, <1>4, <1>5 DEF DocWritten
<1>7. HoldsOK(versions', step)
  <2>1. removed \in 0 .. Len(versions)
    <3>1. None \in 0 .. Len(versions) /\ AssetsOf(base)[a] \in 0 .. Len(versions)
      BY <1>1, <1>2, EntriesNamed DEF WrittenInv, Names, None
    <3> QED
      BY <1>1, <3>1
  <2> QED
    BY <1>2, <2>1 DEF HoldsOK
<1>8. HistoriesOK'
  BY <1>1, <1>6, HistoriesStay
<1> QED
  <2> HIDE DEF d, step
  <2> QED
    BY <1>1, <1>6, <1>7, <1>8, WrittenMoves

(* A step that writes nothing. *)
LEMMA QuietWritten ==
    ASSUME TableInv, WrittenInv, NEW w \in Writers, NEW step, Moves(w, step),
           HoldsOK(versions, step), UNCHANGED <<docs, versions, homes>>,
           unpinned' \in [docs : SUBSET (1 .. Len(docs)), versions : SUBSET (1 .. Len(versions))],
           burnFailed' \subseteq Tokens, cut' \subseteq Tokens
    PROVE  WrittenInv' /\ VersionWritten /\ DocWritten
<1>1. VersionWritten /\ DocWritten
  BY DEF VersionWritten, DocWritten
<1>2. HistoriesOK'
  BY DEF HistoriesOK, WrittenInv
<1>3. HoldsOK(versions', step)
  OBVIOUS
<1> QED
  BY <1>1, <1>2, <1>3, WrittenMoves

LEMMA MineWritten ==
    ASSUME TableInv, WrittenInv, NEW w \in Writers, Mine(w)
    PROVE  WrittenInv' /\ VersionWritten /\ DocWritten
<1> DEFINE c == writer[w]
           next == IF c.removed = None THEN Idle
                   ELSE [at |-> "unpinning", token |-> c.token, version |-> c.removed]
<1>1. /\ c.at = "signing" /\ Moves(w, next) /\ UNCHANGED <<docs, versions, unpinned, homes, burnFailed>>
      /\ cut' = IF \E other \in Writers \ {w} : Signs(other, c.token) THEN cut \cup {c.token} ELSE cut
  BY DEF Mine
<1>2. c.token \in Tokens /\ c.removed \in 0 .. Len(versions) /\ Len(versions) \in Nat
  BY <1>1, SigningIsTyped, LengthsTyped DEF TableInv, Signing, WrittenInv, HeldOK, HoldsOK
<1>3. HoldsOK(versions, next)
  BY <1>2 DEF HoldsOK, Idle, None
<1>4. cut' \subseteq Tokens /\ burnFailed' \subseteq Tokens
      /\ unpinned' \in [docs : SUBSET (1 .. Len(docs)), versions : SUBSET (1 .. Len(versions))]
  BY <1>1, <1>2 DEF WrittenInv, HistoriesOK
<1> QED
  <2> HIDE DEF next
  <2> QED
    BY <1>1, <1>3, <1>4, QuietWritten

LEMMA EndsWritten ==
    ASSUME TableInv, WrittenInv, NEW w \in Writers, Ends(w)
    PROVE  /\ WrittenInv' /\ VersionWritten /\ DocWritten
           /\ Moves(w, Idle) /\ UNCHANGED <<uri, docs, versions, disturbed, homes, cut>>
           /\ unpinned'.docs = unpinned.docs
           /\ unpinned.versions \subseteq unpinned'.versions
           /\ unpinned'.versions # unpinned.versions =>
                 /\ writer[w].at = "unpinning"
                 /\ unpinned'.versions = unpinned.versions \cup Chain[writer[w].version]
           /\ burnFailed' = burnFailed \/ (writer[w].at = "burning" /\ burnFailed' = burnFailed \cup {writer[w].token})
           /\ writer[w].at = "burning" => writer[w].token \in burnFailed'
<1>1. HoldsOK(versions, Idle)
  BY DEF HoldsOK, Idle
<1>2. CASE Decline(w)
  BY <1>1, <1>2, QuietWritten DEF Decline, WrittenInv, HistoriesOK
<1>3. CASE DeclineBurn(w)
  <2>1. writer[w].token \in Tokens
    BY <1>3, BurningIsTyped DEF DeclineBurn, TableInv, Burning
  <2> QED
    BY <1>1, <1>3, <2>1, QuietWritten DEF DeclineBurn, WrittenInv, HistoriesOK
<1>4. CASE UnpinDeleted(w)
  <2> DEFINE v == writer[w].version
  <2>1. /\ writer[w].at = "unpinning" /\ Moves(w, Idle)
        /\ UNCHANGED <<uri, docs, versions, disturbed, homes, burnFailed, cut>>
        /\ \/ unpinned' = [unpinned EXCEPT !.versions = @ \cup VersionChain(v)]
           \/ UNCHANGED unpinned
    BY <1>4 DEF UnpinDeleted
  <2>2. v \in 0 .. Len(versions)
    BY <2>1, LengthsTyped DEF WrittenInv, HeldOK, HoldsOK
  <2>3. Chain[v] = VersionChain(v) /\ Chain[v] \subseteq 1 .. Len(versions)
    BY <2>2, ChainFacts DEF Chain
  <2> HIDE DEF v
  <2>4. /\ unpinned' \in [docs : SUBSET (1 .. Len(docs)), versions : SUBSET (1 .. Len(versions))]
        /\ unpinned'.docs = unpinned.docs
        /\ \/ unpinned'.versions = unpinned.versions
           \/ unpinned'.versions = unpinned.versions \cup Chain[v]
    BY <2>1, <2>3 DEF WrittenInv, HistoriesOK
  <2>5. burnFailed' \subseteq Tokens /\ cut' \subseteq Tokens
    BY <2>1 DEF WrittenInv, HistoriesOK
  <2>6. WrittenInv' /\ VersionWritten /\ DocWritten
    BY <1>1, <2>1, <2>4, <2>5, QuietWritten
  <2> QED
    BY <2>1, <2>4, <2>6 DEF v
<1> QED
  BY <1>2, <1>3, <1>4 DEF Ends

LEMMA UnpinBurningWritten ==
    ASSUME TableInv, WrittenInv, NEW w \in Writers, NEW t \in Tokens, UnpinBurning(w, t)
    PROVE  /\ WrittenInv' /\ VersionWritten /\ DocWritten
           /\ unpinned'.versions = unpinned.versions
           /\ unpinned'.docs \subseteq unpinned.docs \cup Ancestors(uri[t], MaxDocs)
<1>1. /\ writer[w] = Idle /\ Moves(w, [at |-> "burning", token |-> t])
      /\ UNCHANGED <<uri, docs, versions, disturbed, homes, burnFailed, cut>>
      /\ \/ unpinned' = [unpinned EXCEPT !.docs = @ \cup Ancestors(uri[t], MaxDocs)]
         \/ UNCHANGED unpinned
  BY DEF UnpinBurning
<1>2. Ancestors(uri[t], MaxDocs) \subseteq 1 .. Len(docs)
  BY UriTyped, LengthsTyped, AncestorsTyped DEF WrittenInv, DocsOK
<1>3. /\ unpinned' \in [docs : SUBSET (1 .. Len(docs)), versions : SUBSET (1 .. Len(versions))]
      /\ unpinned'.versions = unpinned.versions
      /\ unpinned'.docs \subseteq unpinned.docs \cup Ancestors(uri[t], MaxDocs)
  BY <1>1, <1>2 DEF WrittenInv, HistoriesOK
<1>4. burnFailed' \subseteq Tokens /\ cut' \subseteq Tokens
  BY <1>1 DEF WrittenInv, HistoriesOK
<1>5. HoldsOK(versions, [at |-> "burning", token |-> t])
  BY DEF HoldsOK
<1> QED
  BY <1>1, <1>3, <1>4, <1>5, QuietWritten

LEMMA MineBurnWritten ==
    ASSUME TableInv, WrittenInv, NEW w \in Writers, MineBurn(w)
    PROVE  WrittenInv' /\ VersionWritten /\ DocWritten
<1>1. HoldsOK(versions, Idle)
  BY DEF HoldsOK, Idle
<1>2. /\ Moves(w, Idle) /\ UNCHANGED <<docs, versions, unpinned, homes, burnFailed, cut>>
  BY DEF MineBurn
<1>3. burnFailed' \subseteq Tokens /\ cut' \subseteq Tokens
      /\ unpinned' \in [docs : SUBSET (1 .. Len(docs)), versions : SUBSET (1 .. Len(versions))]
  BY <1>2 DEF WrittenInv, HistoriesOK
<1> QED
  BY <1>1, <1>2, <1>3, QuietWritten

LEMMA WrittenStep ==
    ASSUME TableInv, WrittenInv, [Next]_vars
    PROVE  WrittenInv'
<1>1. CASE UNCHANGED vars
  BY <1>1 DEF vars, WrittenInv, VersionsOK, DocsOK, PrevsOK, HeldOK, HistoriesOK
<1>2. CASE Next
  BY <1>2, StepKinds, WriteVersionWritten, AddsDocWritten, MineWritten, EndsWritten,
     UnpinBurningWritten, MineBurnWritten DEF Publishes
<1> QED
  BY <1>1, <1>2

LEMMA InitWritten == Init => WrittenInv
<1> SUFFICES ASSUME Init PROVE WrittenInv
  OBVIOUS
<1>0. TableInv
  BY InitInv
<1>1. PICK a \in Assets :
          /\ versions = <<[asset |-> a, prev |-> None]>>
          /\ docs = <<[assets |-> [NoAssets EXCEPT ![a] = 1], prev |-> None]>>
  BY DEF Init
<1>2. /\ Len(versions) = 1 /\ Len(docs) = 1 /\ versions[1].prev = None /\ versions[1].asset = a
      /\ docs[1].prev = None
      /\ \A x \in Assets : docs[1].assets[x] = IF x = a THEN 1 ELSE None
  BY <1>1 DEF NoAssets
<1>3. VersionsOK
  BY <1>0, <1>2 DEF TableInv, Typed, VersionsOK, None
<1>4. DocsOK
  BY <1>0, <1>2 DEF TableInv, Typed, DocsOK, PrevsOK, Names, None
<1>5. HeldOK
  BY DEF Init, HeldOK, HoldsOK, Idle
<1>6. HistoriesOK
  BY DEF Init, HistoriesOK
<1> QED
  BY <1>3, <1>4, <1>5, <1>6 DEF WrittenInv

(* Predecessors were written before their successors (manifest/utils.ts and  *)
(* collection.ts write prev_asset_manifest_cid into manifest and document),  *)
(* an entry names a version of its own asset, and so does all that a writer  *)
(* of publishCollection holds between two awaits.                            *)
THEOREM WrittenInvariant == Spec => []WrittenInv
<1>1. Init => WrittenInv
  BY InitWritten
<1>2. TableInv /\ WrittenInv /\ [Next]_vars => WrittenInv'
  BY WrittenStep
<1> QED
  BY <1>1, <1>2, TableInvariant, PTL DEF Spec

(* Every CID that a pointer, a document, a version or a writer of            *)
(* publishCollection and asset-delete.ts holds names something written, and  *)
(* both chains of predecessors lead strictly backwards, so walking them      *)
(* ends.                                                                     *)
THEOREM TypeCorrect == Spec => []TypeOK
<1>1. TableInv /\ WrittenInv => TypeOK
  <2> SUFFICES ASSUME TableInv, WrittenInv PROVE TypeOK
    OBVIOUS
  <2>1. unpinned \in [docs : SUBSET DocIds, versions : SUBSET VersionIds]
    BY LengthsTyped DEF WrittenInv, HistoriesOK
  <2>2. \A i \in DOMAIN docs : docs[i].prev < i
    BY LengthsTyped DEF WrittenInv, DocsOK, PrevsOK
  <2> QED
    BY <2>1, <2>2 DEF TypeOK, TableInv, Typed, WrittenInv, HistoriesOK
<1> QED
  BY <1>1, TableInvariant, WrittenInvariant, PTL

----------------------------------------------------------------------------
(* The document a mined call replaces.                                       *)

(* A document that waits for its signature names the document it will        *)
(* replace, as long as nothing of the token was cut.                         *)
NamesReplaced(q) ==
    q.at = "signing" /\ ~q.mint /\ q.token \notin cut =>
        uri[q.token] = None \/ docs[q.doc].prev = uri[q.token]

ReachInv == \A w \in Writers : NamesReplaced(writer[w])

(* The writers that do not move keep it if the pointers do.                  *)
LEMMA ReachStays ==
    ASSUME TableInv, WrittenInv, ReachInv, VersionWritten, DocWritten, cut \subseteq cut',
           NEW u \in Writers, writer'[u] = writer[u],
           writer[u].at = "signing" /\ writer[u].token \notin cut' =>
               uri'[writer[u].token] \in {None, uri[writer[u].token]}
    PROVE  NamesReplaced(writer[u])'
<1>1. writer[u].at = "signing" => docs'[writer[u].doc] = docs[writer[u].doc]
  BY DataDoesStay DEF DataStays, TableInv, ChangeIsSmall
<1> QED
  BY <1>1 DEF ReachInv, NamesReplaced

LEMMA ReachMoves ==
    ASSUME TableInv, WrittenInv, ReachInv, VersionWritten, DocWritten, cut \subseteq cut',
           NEW w \in Writers, NEW step, Moves(w, step),
           \A u \in Writers \ {w} : writer[u].at = "signing" /\ writer[u].token \notin cut' =>
               uri'[writer[u].token] \in {None, uri[writer[u].token]},
           step.at = "signing" /\ ~step.mint /\ step.token \notin cut' =>
               uri'[step.token] = None \/ docs'[step.doc].prev = uri'[step.token]
    PROVE  ReachInv'
<1>1. writer'[w] = step /\ \A u \in Writers \ {w} : writer'[u] = writer[u]
  BY MovesTo
<1>2. \A u \in Writers \ {w} : NamesReplaced(writer[u])'
  BY <1>1, ReachStays
<1>3. NamesReplaced(writer[w])'
  BY <1>1 DEF NamesReplaced
<1> QED
  BY <1>2, <1>3 DEF ReachInv

(* What the mined call replaces is met from what replaces it.                *)
MeetsReplaced ==
    \A t \in Tokens :
        uri'[t] # uri[t] /\ uri[t] # None /\ uri'[t] # None /\ t \notin cut' =>
            Ancestors(uri[t], MaxDocs) \subseteq Ancestors(uri[t], MaxDocs)'

LEMMA MineReach ==
    ASSUME TableInv, WrittenInv, ReachInv, NEW w \in Writers, Mine(w)
    PROVE  ReachInv' /\ MeetsReplaced
<1> DEFINE c == writer[w]
           next == IF c.removed = None THEN Idle
                   ELSE [at |-> "unpinning", token |-> c.token, version |-> c.removed]
<1>1. /\ c.at = "signing" /\ Moves(w, next) /\ UNCHANGED docs
      /\ IF c.mint THEN c.token \notin Live ELSE c.token \in Live
      /\ uri' = [uri EXCEPT ![c.token] = c.doc]
      /\ cut' = IF \E other \in Writers \ {w} : Signs(other, c.token) THEN cut \cup {c.token} ELSE cut
  BY DEF Mine
<1>2. /\ c.token \in Tokens /\ c.mint \in BOOLEAN /\ c.doc \in 1 .. Len(docs)
      /\ uri \in [Tokens -> 0 .. Len(docs)]
  BY <1>1, SigningIsTyped DEF TableInv, Typed, Signing, ChangeIsSmall
<1>3. next.at # "signing"
  BY DEF Idle
<1>4. \A u \in Writers \ {w} : writer[u].at = "signing" /\ writer[u].token \notin cut' =>
          uri'[writer[u].token] \in {None, uri[writer[u].token]}
  <2> SUFFICES ASSUME NEW u \in Writers \ {w}, writer[u].at = "signing", writer[u].token \notin cut'
               PROVE  uri'[writer[u].token] \in {None, uri[writer[u].token]}
    OBVIOUS
  <2>1. writer[u].token # c.token
    BY <1>1 DEF Signs
  <2>2. writer[u].token \in Tokens
    BY SigningIsTyped DEF TableInv, Signing
  <2> QED
    BY <1>1, <1>2, <2>1, <2>2
<1>5. ReachInv'
  <2> HIDE DEF next
  <2> QED
    BY <1>1, <1>3, <1>4, MineWritten, ReachMoves
<1>6. MeetsReplaced
  <2> SUFFICES ASSUME NEW t \in Tokens, uri'[t] # uri[t], uri[t] # None, t \notin cut'
               PROVE  Ancestors(uri[t], MaxDocs) \subseteq Ancestors(uri[t], MaxDocs)'
    BY DEF MeetsReplaced
  <2>1. t = c.token /\ uri'[t] = c.doc
    BY <1>1, <1>2
  <2>2. t \in Live /\ ~c.mint /\ t \notin cut
    BY <1>1, <1>2, <2>1 DEF Live
  <2>3. docs[c.doc].prev = uri[t]
    BY <1>1, <2>1, <2>2 DEF ReachInv, NamesReplaced
  <2> DEFINE old == uri[t]
             new == uri'[t]
  <2>4. Ancestors(docs[c.doc].prev, MaxDocs) \subseteq Ancestors(c.doc, MaxDocs)
    BY <1>2, LengthsTyped, AncestorsOfPrev DEF WrittenInv, DocsOK
  <2>5. Ancestors(uri[t], MaxDocs) \subseteq Ancestors(uri'[t], MaxDocs)
    BY <2>1, <2>3, <2>4
  <2>6. Ancestors(uri'[t], MaxDocs) = Ancestors(uri[t], MaxDocs)'
    BY <1>1 DEF Ancestors
  <2> QED
    BY <2>5, <2>6
<1> QED
  BY <1>5, <1>6

LEMMA ReachStep ==
    ASSUME TableInv, WrittenInv, ReachInv, [Next]_vars
    PROVE  ReachInv' /\ [MeetsReplaced]_vars
<1>1. CASE UNCHANGED vars
  BY <1>1 DEF vars, ReachInv, NamesReplaced
<1>2. ASSUME UNCHANGED uri PROVE MeetsReplaced
  BY <1>2 DEF MeetsReplaced
<1>3. ASSUME NEW w \in Writers, NEW a, NEW prev, NEW token, NEW mint, NEW base,
             Publishes(w, a, prev, token, mint, base)
      PROVE  ReachInv' /\ MeetsReplaced
  <2>1. /\ Moves(w, [at |-> "targeted", token |-> token, mint |-> mint, base |-> base,
                     asset |-> a, version |-> NewVersion])
        /\ UNCHANGED <<uri, docs, cut>> /\ VersionWritten /\ DocWritten
    BY <1>3, WriteVersionWritten DEF Publishes, WriteVersion, DocWritten
  <2>2. ReachInv'
    BY <2>1, ReachMoves
  <2> QED
    BY <1>2, <2>1, <2>2
<1>4. ASSUME NEW w \in Writers, NEW t, NEW mint, NEW base, NEW a, NEW v, NEW prev, NEW removed,
             AddsDoc(w, t, mint, base, a, v, prev, removed)
      PROVE  ReachInv' /\ MeetsReplaced
  <2> DEFINE step == [at |-> "signing", token |-> t, mint |-> mint, base |-> base,
                      doc |-> Len(docs) + 1, removed |-> removed]
  <2>1. /\ Moves(w, step) /\ UNCHANGED uri /\ cut \subseteq cut' /\ VersionWritten /\ DocWritten
        /\ docs' = Append(docs, Merged(base, a, v, prev))
        /\ ~mint /\ t \notin cut' => prev = uri[t]
    BY <1>4, AddsDocWritten DEF AddsDoc
  <2>2. docs'[Len(docs) + 1].prev = prev
    BY <2>1, LengthsTyped DEF Merged
  <2>3. step.at = "signing" /\ ~step.mint /\ step.token \notin cut' =>
            uri'[step.token] = None \/ docs'[step.doc].prev = uri'[step.token]
    BY <2>1, <2>2
  <2>4. ReachInv'
    <3> HIDE DEF step
    <3> QED
      BY <2>1, <2>3, ReachMoves
  <2> QED
    BY <1>2, <2>1, <2>4
<1>5. ASSUME NEW w \in Writers, Ends(w) PROVE ReachInv' /\ MeetsReplaced
  <2>1. /\ Moves(w, Idle) /\ UNCHANGED <<uri, cut>> /\ VersionWritten /\ DocWritten
        /\ Idle.at # "signing"
    BY <1>5, EndsWritten DEF Idle
  <2> QED
    BY <1>2, <2>1, ReachMoves
<1>6. ASSUME NEW w \in Writers, NEW t \in Tokens, UnpinBurning(w, t)
      PROVE  ReachInv' /\ MeetsReplaced
  <2>1. /\ Moves(w, [at |-> "burning", token |-> t]) /\ UNCHANGED <<uri, cut>>
        /\ VersionWritten /\ DocWritten
    BY <1>6, UnpinBurningWritten DEF UnpinBurning
  <2> QED
    BY <1>2, <2>1, ReachMoves
<1>7. ASSUME NEW w \in Writers, MineBurn(w) PROVE ReachInv' /\ MeetsReplaced
  <2> DEFINE t == writer[w].token
  <2>1. /\ Moves(w, Idle) /\ uri' = [uri EXCEPT ![t] = None] /\ UNCHANGED cut
        /\ VersionWritten /\ DocWritten /\ Idle.at # "signing"
    BY <1>7, MineBurnWritten DEF MineBurn, Idle
  <2>2. \A u \in Tokens : uri'[u] \in {None, uri[u]}
    BY <2>1 DEF TableInv, Typed
  <2>3. \A u \in Writers : writer[u].at = "signing" => writer[u].token \in Tokens
    BY SigningIsTyped DEF TableInv, Signing
  <2>4. ReachInv'
    BY <2>1, <2>2, <2>3, ReachMoves
  <2> QED
    BY <2>2, <2>4 DEF MeetsReplaced
<1>8. CASE Next
  BY <1>8, <1>3, <1>4, <1>5, <1>6, <1>7, MineReach, StepKinds
<1> QED
  BY <1>1, <1>8

(* Restoring and unpinning walk back along prev_asset_manifest_cid: a        *)
(* document that a mined call of publishCollection, asset-delete.ts or       *)
(* library-ops.ts replaces stays within the walk from the one that replaces  *)
(* it, unless two writers were signing for the collection at once or the     *)
(* predecessor could not be read.                                            *)
THEOREM Reachable == Spec => ReplacedStaysReachable
<1>1. Init => ReachInv
  BY DEF Init, ReachInv, NamesReplaced, Idle
<1>2. TableInv /\ WrittenInv /\ ReachInv /\ [Next]_vars => ReachInv' /\ [MeetsReplaced]_vars
  BY ReachStep
<1> QED
  BY <1>1, <1>2, TableInvariant, WrittenInvariant, PTL DEF Spec, ReplacedStaysReachable, MeetsReplaced

----------------------------------------------------------------------------
(* The documents that are unpinned.                                          *)

(* The document of a change that waits for its signature is nobody else's.   *)
Unsigned(doc) ==
    /\ \A t \in Tokens : uri[t] # doc
    /\ \A d \in 1 .. Len(docs) : docs[d].prev # doc
    /\ doc \notin unpinned.docs
    /\ \A u \in Writers : writer[u].at \in {"targeted", "signing"} => writer[u].base # doc

PendingOK ==
    \A w \in Writers : writer[w].at = "signing" =>
        /\ Unsigned(writer[w].doc)
        /\ \A u \in Writers \ {w} : writer[u].at = "signing" => writer[u].doc # writer[w].doc

(* Every document was written for one token, and its predecessors for the    *)
(* same one.                                                                 *)
WrittenFor(owner) ==
    /\ \A d \in 1 .. Len(docs) : docs[d].prev # None => owner[docs[d].prev] = owner[d]
    /\ \A t \in Tokens : uri[t] # None => owner[uri[t]] = t
    /\ \A w \in Writers : writer[w].at = "signing" => owner[writer[w].doc] = writer[w].token

LinesOK == \E owner \in [1 .. Len(docs) -> Tokens] : WrittenFor(owner)

Burnt(t) == t \in burnFailed \/ \E w \in Writers : writer[w] = [at |-> "burning", token |-> t]

DocumentsPinned == \A t \in Live : uri[t] \in unpinned.docs => Burnt(t)

DocInv == PendingOK /\ LinesOK /\ DocumentsPinned

(* It is not met from any document that is in use.                           *)
LEMMA UnsignedIsAway ==
    ASSUME TableInv, WrittenInv, NEW doc \in 1 .. Len(docs), Unsigned(doc), NEW t \in Tokens, NEW n \in Nat
    PROVE  doc \notin Ancestors(uri[t], n)
<1> DEFINE S == (1 .. Len(docs)) \ {doc}
<1>1. \A e \in S \ {None} : e \in 1 .. Len(docs) /\ docs[e].prev \in S \cup {None}
  BY LengthsTyped DEF Unsigned, WrittenInv, DocsOK, PrevsOK, None
<1>2. uri[t] \in S \cup {None}
  BY UriTyped, LengthsTyped DEF Unsigned, None
<1>3. Ancestors(uri[t], n) \subseteq S
  BY <1>1, <1>2, AncestorsWithin DEF WrittenInv, DocsOK
<1> QED
  BY <1>3

(* The writers and the pointers move, and no document is written.            *)
LEMMA PendingMoves ==
    ASSUME TableInv, WrittenInv, PendingOK, UNCHANGED docs,
           NEW w \in Writers, NEW step, Moves(w, step), step.at # "signing",
           step.at = "targeted" => \E t \in Tokens : step.base \in {None, uri[t]},
           \A t \in Tokens : \/ uri'[t] \in {None, uri[t]}
                             \/ writer[w].at = "signing" /\ uri'[t] = writer[w].doc,
           unpinned'.docs \subseteq unpinned.docs \cup UNION {Ancestors(uri[t], MaxDocs) : t \in Tokens}
    PROVE  PendingOK'
<1>1. writer'[w] = step /\ \A u \in Writers \ {w} : writer'[u] = writer[u]
  BY MovesTo
<1> SUFFICES ASSUME NEW u \in Writers, writer'[u].at = "signing"
             PROVE  /\ Unsigned(writer[u].doc)'
                    /\ \A z \in Writers \ {u} : writer'[z].at = "signing" => writer'[z].doc # writer'[u].doc
  BY DEF PendingOK
<1>2. u # w /\ writer'[u] = writer[u] /\ writer[u].at = "signing"
  BY <1>1
<1>3. PICK doc \in 1 .. Len(docs) : doc = writer[u].doc
  BY <1>2 DEF TableInv, ChangeIsSmall
<1>4. Unsigned(doc) /\ \A z \in Writers \ {u} : writer[z].at = "signing" => writer[z].doc # doc
  BY <1>2, <1>3 DEF PendingOK
<1>5. doc # None /\ MaxDocs \in Nat
  BY <1>3, LengthsTyped DEF None
<1>6. \A t \in Tokens : uri'[t] # doc
  BY <1>2, <1>4, <1>5 DEF Unsigned
<1>7. doc \notin unpinned'.docs
  <2>1. \A t \in Tokens : doc \notin Ancestors(uri[t], MaxDocs)
    BY <1>4, <1>5, UnsignedIsAway
  <2> QED
    BY <1>4, <2>1 DEF Unsigned
<1>8. \A z \in Writers : writer'[z].at \in {"targeted", "signing"} => writer'[z].base # doc
  BY <1>1, <1>4, <1>5 DEF Unsigned
<1>9. \A z \in Writers \ {u} : writer'[z].at = "signing" => writer'[z].doc # doc
  BY <1>1, <1>4
<1> QED
  BY <1>2, <1>3, <1>4, <1>6, <1>7, <1>8, <1>9 DEF Unsigned

LEMMA PendingAdds ==
    ASSUME TableInv, WrittenInv, PendingOK, NEW w \in Writers,
           NEW t, NEW mint, NEW base, NEW a, NEW v, NEW prev, NEW removed,
           AddsDoc(w, t, mint, base, a, v, prev, removed)
    PROVE  PendingOK'
<1> DEFINE step == [at |-> "signing", token |-> t, mint |-> mint, base |-> base,
                    doc |-> Len(docs) + 1, removed |-> removed]
           new == Len(docs) + 1
<1>1. /\ Moves(w, step) /\ t \in Tokens /\ UNCHANGED <<uri, unpinned>> /\ base \in 0 .. Len(docs)
      /\ prev \in {None, uri[t]}
      /\ base \in {None, uri[t]} \/ (writer[w].at = "targeted" /\ base = writer[w].base)
      /\ docs' = Append(docs, Merged(base, a, v, prev))
  BY DEF AddsDoc
<1>2. writer'[w] = step /\ \A u \in Writers \ {w} : writer'[u] = writer[u]
  <2> HIDE DEF step
  <2> QED
    BY <1>1, MovesTo
<1>3. Len(docs) \in Nat /\ docs \in Seq(Doc)
  BY LengthsTyped
<1>4. /\ Len(docs') = new /\ docs'[new].prev = prev /\ \A d \in 1 .. Len(docs) : docs'[d] = docs[d]
  BY <1>1, <1>3 DEF Merged
<1>5. prev \in 0 .. Len(docs) /\ \A s \in Tokens : uri[s] \in 0 .. Len(docs)
  BY <1>1, <1>3, UriTyped DEF None
<1>6. /\ \A u \in Writers : writer[u].at \in {"targeted", "signing"} => writer[u].base \in 0 .. Len(docs)
      /\ \A u \in Writers : writer[u].at = "signing" => writer[u].doc \in 1 .. Len(docs)
      /\ \A d \in 1 .. Len(docs) : docs[d].prev \in 0 .. Len(docs)
      /\ unpinned.docs \subseteq 1 .. Len(docs)
  BY <1>3 DEF TableInv, ChangeIsSmall, WrittenInv, DocsOK, PrevsOK, HistoriesOK
<1>7. /\ Unsigned(writer[w].doc)'
      /\ \A z \in Writers \ {w} : writer'[z].at = "signing" => writer'[z].doc # writer'[w].doc
  <2>1. \A d \in 1 .. Len(docs') : docs'[d].prev # new
    BY <1>3, <1>4, <1>5, <1>6
  <2>2. \A z \in Writers : writer'[z].at \in {"targeted", "signing"} => writer'[z].base # new
    BY <1>1, <1>2, <1>3, <1>6
  <2>3. (\A s \in Tokens : uri'[s] # new) /\ new \notin unpinned'.docs
    BY <1>1, <1>3, <1>5, <1>6
  <2>4. writer'[w].doc = new
    BY <1>2
  <2>5. \A z \in Writers \ {w} : writer'[z].at = "signing" => writer'[z].doc # new
    BY <1>2, <1>3, <1>6
  <2> HIDE DEF new
  <2> QED
    BY <2>1, <2>2, <2>3, <2>4, <2>5 DEF Unsigned
<1>8. ASSUME NEW u \in Writers \ {w}, writer'[u].at = "signing"
      PROVE  /\ Unsigned(writer[u].doc)'
             /\ \A z \in Writers \ {u} : writer'[z].at = "signing" => writer'[z].doc # writer'[u].doc
  <2>1. writer'[u] = writer[u] /\ writer[u].at = "signing"
    BY <1>2, <1>8
  <2>2. PICK doc \in 1 .. Len(docs) : doc = writer[u].doc
    BY <1>6, <2>1
  <2>3. Unsigned(doc) /\ \A z \in Writers \ {u} : writer[z].at = "signing" => writer[z].doc # doc
    BY <2>1, <2>2 DEF PendingOK
  <2>4. doc # None /\ doc # new /\ prev # doc /\ base # doc
    BY <1>1, <1>3, <2>2, <2>3 DEF Unsigned, None
  <2>5. \A d \in 1 .. Len(docs') : docs'[d].prev # doc
    BY <1>3, <1>4, <2>3, <2>4 DEF Unsigned
  <2>6. \A z \in Writers : writer'[z].at \in {"targeted", "signing"} => writer'[z].base # doc
    BY <1>2, <2>3, <2>4 DEF Unsigned
  <2>7. \A z \in Writers \ {u} : writer'[z].at = "signing" => writer'[z].doc # doc
    BY <1>2, <2>3, <2>4
  <2>8. (\A s \in Tokens : uri'[s] # doc) /\ doc \notin unpinned'.docs
    BY <1>1, <2>3 DEF Unsigned
  <2> HIDE DEF new, step
  <2> QED
    BY <2>1, <2>2, <2>5, <2>6, <2>7, <2>8 DEF Unsigned
<1> QED
  BY <1>7, <1>8 DEF PendingOK

LEMMA LinesMove ==
    ASSUME TableInv, WrittenInv, LinesOK, UNCHANGED docs,
           NEW w \in Writers, NEW step, Moves(w, step), step.at # "signing",
           \A t \in Tokens :
              \/ uri'[t] \in {None, uri[t]}
              \/ writer[w].at = "signing" /\ writer[w].token = t /\ uri'[t] = writer[w].doc
    PROVE  LinesOK'
<1>1. writer'[w] = step /\ \A u \in Writers \ {w} : writer'[u] = writer[u]
  BY MovesTo
<1>2. PICK owner \in [1 .. Len(docs) -> Tokens] : WrittenFor(owner)
  BY DEF LinesOK
<1>3. WrittenFor(owner)'
  BY <1>1, <1>2 DEF WrittenFor
<1> QED
  BY <1>2, <1>3 DEF LinesOK

LEMMA LinesAdd ==
    ASSUME TableInv, WrittenInv, LinesOK, NEW w \in Writers,
           NEW t, NEW mint, NEW base, NEW a, NEW v, NEW prev, NEW removed,
           AddsDoc(w, t, mint, base, a, v, prev, removed)
    PROVE  LinesOK'
<1> DEFINE step == [at |-> "signing", token |-> t, mint |-> mint, base |-> base,
                    doc |-> Len(docs) + 1, removed |-> removed]
           new == Len(docs) + 1
<1>1. /\ Moves(w, step) /\ t \in Tokens /\ UNCHANGED uri
      /\ prev \in {None, uri[t]}
      /\ docs' = Append(docs, Merged(base, a, v, prev))
  BY DEF AddsDoc
<1>2. writer'[w] = step /\ \A u \in Writers \ {w} : writer'[u] = writer[u]
  <2> HIDE DEF step
  <2> QED
    BY <1>1, MovesTo
<1>3. Len(docs) \in Nat /\ docs \in Seq(Doc)
  BY LengthsTyped
<1>4. /\ Len(docs') = new /\ docs'[new].prev = prev /\ \A d \in 1 .. Len(docs) : docs'[d] = docs[d]
  BY <1>1, <1>3 DEF Merged
<1>5. /\ \A u \in Writers : writer[u].at = "signing" => writer[u].doc \in 1 .. Len(docs)
      /\ \A d \in 1 .. Len(docs) : docs[d].prev # None => docs[d].prev \in 1 .. Len(docs)
      /\ \A s \in Tokens : uri[s] # None => uri[s] \in 1 .. Len(docs)
  BY <1>3, UriTyped DEF TableInv, ChangeIsSmall, WrittenInv, DocsOK, PrevsOK, None
<1>6. PICK owner \in [1 .. Len(docs) -> Tokens] : WrittenFor(owner)
  BY DEF LinesOK
<1>7. PICK line : line = [d \in 1 .. new |-> IF d = new THEN t ELSE owner[d]]
  OBVIOUS
<1>8. /\ line \in [1 .. new -> Tokens] /\ line[new] = t
      /\ \A d \in 1 .. Len(docs) : line[d] = owner[d] /\ d \in 1 .. new
  BY <1>1, <1>3, <1>7
<1>9. ASSUME NEW d \in 1 .. new, docs'[d].prev # None PROVE line[docs'[d].prev] = line[d]
  <2>1. CASE d \in 1 .. Len(docs)
    BY <1>4, <1>5, <1>6, <1>8, <1>9, <2>1 DEF WrittenFor
  <2>2. CASE d = new
    BY <1>1, <1>4, <1>5, <1>6, <1>8, <1>9, <2>2 DEF WrittenFor
  <2> QED
    BY <1>3, <2>1, <2>2
<1>10. \A s \in Tokens : uri'[s] # None => line[uri'[s]] = s
  BY <1>1, <1>5, <1>6, <1>8 DEF WrittenFor
<1>11. \A u \in Writers : writer'[u].at = "signing" => line[writer'[u].doc] = writer'[u].token
  BY <1>2, <1>5, <1>6, <1>8 DEF WrittenFor
<1>12. WrittenFor(line)' /\ line \in [1 .. Len(docs') -> Tokens]
  BY <1>4, <1>8, <1>9, <1>10, <1>11 DEF WrittenFor
<1> QED
  BY <1>12 DEF LinesOK

(* What a burn unpins was written for the token.                             *)
LEMMA BurnsOwn ==
    ASSUME TableInv, WrittenInv, LinesOK, NEW t \in Tokens, NEW s \in Live, s # t, NEW n \in Nat
    PROVE  uri[s] \notin Ancestors(uri[t], n)
<1>1. PICK owner \in [1 .. Len(docs) -> Tokens] : WrittenFor(owner)
  BY DEF LinesOK
<1> DEFINE S == {d \in 1 .. Len(docs) : owner[d] = t}
<1>2. \A e \in S \ {None} : e \in 1 .. Len(docs) /\ docs[e].prev \in S \cup {None}
  BY <1>1, LengthsTyped DEF WrittenFor, WrittenInv, DocsOK, PrevsOK, None
<1>3. uri[t] \in S \cup {None}
  BY <1>1, UriTyped DEF WrittenFor, Live, None
<1>4. Ancestors(uri[t], n) \subseteq S
  BY <1>2, <1>3, AncestorsWithin DEF WrittenInv, DocsOK
<1>5. owner[uri[s]] = s
  BY <1>1 DEF WrittenFor, Live
<1> QED
  BY <1>4, <1>5

LEMMA DocumentsStayPinned ==
    ASSUME TableInv, DocumentsPinned, UNCHANGED unpinned, burnFailed \subseteq burnFailed',
           NEW w \in Writers, NEW step, Moves(w, step), writer[w].at # "burning",
           \A t \in Tokens : uri'[t] \in {None, uri[t]} \/ uri'[t] \notin unpinned.docs
    PROVE  DocumentsPinned'
<1>1. writer'[w] = step /\ \A u \in Writers \ {w} : writer'[u] = writer[u]
  BY MovesTo
<1> SUFFICES ASSUME NEW t \in Tokens, uri'[t] # None, uri'[t] \in unpinned.docs
             PROVE  Burnt(t)'
  BY DEF DocumentsPinned, Live
<1>2. uri'[t] = uri[t] /\ t \in Live
  BY DEF Live
<1>3. Burnt(t)
  BY <1>2 DEF DocumentsPinned
<1>4. CASE t \in burnFailed
  BY <1>4 DEF Burnt
<1>5. ASSUME NEW u \in Writers, writer[u] = [at |-> "burning", token |-> t]
      PROVE  Burnt(t)'
  <2>1. u # w
    BY <1>5
  <2> QED
    BY <1>1, <1>5, <2>1 DEF Burnt
<1> QED
  BY <1>3, <1>4, <1>5 DEF Burnt

LEMMA BurningEnds ==
    ASSUME TableInv, WrittenInv, DocumentsPinned, NEW w \in Writers, Moves(w, Idle),
           unpinned'.docs = unpinned.docs, burnFailed \subseteq burnFailed',
           \A t \in Tokens : uri'[t] \in {None, uri[t]},
           writer[w].at = "burning" =>
              writer[w].token \in burnFailed' \/ uri'[writer[w].token] = None
    PROVE  DocumentsPinned'
<1>1. writer'[w] = Idle /\ \A u \in Writers \ {w} : writer'[u] = writer[u]
  BY MovesTo
<1> SUFFICES ASSUME NEW t \in Tokens, uri'[t] # None, uri'[t] \in unpinned.docs
             PROVE  Burnt(t)'
  BY DEF DocumentsPinned, Live
<1>2. uri'[t] = uri[t] /\ t \in Live
  BY DEF Live
<1>3. Burnt(t)
  BY <1>2 DEF DocumentsPinned
<1>4. CASE t \in burnFailed
  BY <1>4 DEF Burnt
<1>5. ASSUME NEW u \in Writers, writer[u] = [at |-> "burning", token |-> t]
      PROVE  Burnt(t)'
  <2>1. CASE u = w
    BY <1>5, <2>1 DEF Burnt
  <2>2. CASE u # w
    BY <1>1, <1>5, <2>2 DEF Burnt
  <2> QED
    BY <2>1, <2>2
<1> QED
  BY <1>3, <1>4, <1>5 DEF Burnt

LEMMA DocStep ==
    ASSUME TableInv, WrittenInv, DocInv, [Next]_vars
    PROVE  DocInv'
<1>0. PendingOK /\ LinesOK /\ DocumentsPinned
  BY DEF DocInv
<1>1. CASE UNCHANGED vars
  BY <1>0, <1>1 DEF vars, DocInv, PendingOK, Unsigned, LinesOK, WrittenFor, DocumentsPinned, Live, Burnt
<1>2. ASSUME NEW w \in Writers, NEW a, NEW prev, NEW token, NEW mint, NEW base,
             Publishes(w, a, prev, token, mint, base)
      PROVE  DocInv'
  <2>1. /\ Moves(w, [at |-> "targeted", token |-> token, mint |-> mint, base |-> base,
                     asset |-> a, version |-> NewVersion])
        /\ UNCHANGED <<uri, docs, unpinned, burnFailed>> /\ writer[w].at = "idle"
        /\ token \in Tokens /\ base \in {None, uri[token]}
    BY <1>2 DEF Publishes, WriteVersion, Idle
  <2>2. PendingOK' /\ LinesOK'
    BY <1>0, <2>1, PendingMoves, LinesMove
  <2>3. DocumentsPinned'
    BY <1>0, <2>1, DocumentsStayPinned
  <2> QED
    BY <2>2, <2>3 DEF DocInv
<1>3. ASSUME NEW w \in Writers, NEW t, NEW mint, NEW base, NEW a, NEW v, NEW prev, NEW removed,
             AddsDoc(w, t, mint, base, a, v, prev, removed)
      PROVE  DocInv'
  <2> DEFINE step == [at |-> "signing", token |-> t, mint |-> mint, base |-> base,
                      doc |-> Len(docs) + 1, removed |-> removed]
  <2>1. Moves(w, step) /\ UNCHANGED <<uri, unpinned, burnFailed>> /\ writer[w].at # "burning"
    BY <1>3 DEF AddsDoc, Idle
  <2>2. DocumentsPinned'
    <3> HIDE DEF step
    <3> QED
      BY <1>0, <2>1, DocumentsStayPinned
  <2> QED
    BY <1>0, <1>3, <2>2, PendingAdds, LinesAdd DEF DocInv
<1>4. ASSUME NEW w \in Writers, Mine(w) PROVE DocInv'
  <2> DEFINE c == writer[w]
             next == IF c.removed = None THEN Idle
                     ELSE [at |-> "unpinning", token |-> c.token, version |-> c.removed]
  <2>1. /\ c.at = "signing" /\ Moves(w, next) /\ UNCHANGED <<docs, unpinned, burnFailed>>
        /\ uri' = [uri EXCEPT ![c.token] = c.doc]
    BY <1>4 DEF Mine
  <2>2. next.at \notin {"signing", "targeted"}
    BY DEF Idle
  <2>3. c.token \in Tokens
    BY <2>1, SigningIsTyped DEF TableInv, Signing
  <2>4. \A t \in Tokens : uri'[t] = uri[t] \/ (c.token = t /\ uri'[t] = c.doc)
    BY <2>1, <2>3 DEF TableInv, Typed
  <2>5. c.doc \notin unpinned.docs
    BY <1>0, <2>1 DEF PendingOK, Unsigned
  <2> HIDE DEF next
  <2>6. PendingOK' /\ LinesOK'
    BY <1>0, <2>1, <2>2, <2>4, PendingMoves, LinesMove
  <2>7. DocumentsPinned'
    BY <1>0, <2>1, <2>4, <2>5, DocumentsStayPinned
  <2> QED
    BY <2>6, <2>7 DEF DocInv
<1>5. ASSUME NEW w \in Writers, Ends(w) PROVE DocInv'
  <2>1. /\ Moves(w, Idle) /\ Idle.at \notin {"targeted", "signing"}
        /\ UNCHANGED <<uri, docs>> /\ unpinned'.docs = unpinned.docs
        /\ burnFailed \subseteq burnFailed'
        /\ writer[w].at = "burning" => writer[w].token \in burnFailed'
    BY <1>5, EndsWritten DEF Idle
  <2>2. PendingOK' /\ LinesOK'
    BY <1>0, <2>1, PendingMoves, LinesMove
  <2>3. DocumentsPinned'
    BY <1>0, <2>1, BurningEnds
  <2> QED
    BY <2>2, <2>3 DEF DocInv
<1>6. ASSUME NEW w \in Writers, NEW t \in Tokens, UnpinBurning(w, t) PROVE DocInv'
  <2>1. /\ Moves(w, [at |-> "burning", token |-> t]) /\ writer[w] = Idle
        /\ UNCHANGED <<uri, docs, burnFailed>>
        /\ unpinned'.docs \subseteq unpinned.docs \cup Ancestors(uri[t], MaxDocs)
    BY <1>6, UnpinBurningWritten DEF UnpinBurning
  <2>2. PendingOK' /\ LinesOK'
    BY <1>0, <2>1, PendingMoves, LinesMove
  <2>3. writer'[w] = [at |-> "burning", token |-> t] /\ \A u \in Writers \ {w} : writer'[u] = writer[u]
    BY <2>1, MovesTo
  <2>4. ASSUME NEW s \in Live, uri[s] \in unpinned'.docs PROVE Burnt(s)'
    <3>1. CASE s = t
      BY <2>3, <3>1 DEF Burnt
    <3>2. CASE s # t
      <4>1. Burnt(s)
        BY <1>0, <2>1, <2>4, <3>2, BurnsOwn, LengthsTyped DEF DocumentsPinned
      <4> QED
        BY <2>1, <2>3, <4>1 DEF Burnt, Idle
    <3> QED
      BY <3>1, <3>2
  <2>5. DocumentsPinned'
    BY <2>1, <2>4 DEF DocumentsPinned, Live
  <2> QED
    BY <2>2, <2>5 DEF DocInv
<1>7. ASSUME NEW w \in Writers, MineBurn(w) PROVE DocInv'
  <2>1. /\ Moves(w, Idle) /\ Idle.at \notin {"targeted", "signing"}
        /\ UNCHANGED <<docs, unpinned, burnFailed>>
        /\ writer[w].at = "burning" /\ uri' = [uri EXCEPT ![writer[w].token] = None]
    BY <1>7 DEF MineBurn, Idle
  <2>2. writer[w].token \in Tokens
    BY <2>1, BurningIsTyped DEF TableInv, Burning
  <2>3. uri'[writer[w].token] = None /\ \A t \in Tokens : uri'[t] \in {None, uri[t]}
    BY <2>1, <2>2 DEF TableInv, Typed
  <2>4. PendingOK' /\ LinesOK'
    BY <1>0, <2>1, <2>3, PendingMoves, LinesMove
  <2>5. DocumentsPinned'
    BY <1>0, <2>1, <2>3, BurningEnds
  <2> QED
    BY <2>4, <2>5 DEF DocInv
<1>8. CASE Next
  BY <1>8, <1>2, <1>3, <1>4, <1>5, <1>6, <1>7, StepKinds
<1> QED
  BY <1>1, <1>8

LEMMA InitDoc == Init => DocInv
<1> SUFFICES ASSUME Init PROVE DocInv
  OBVIOUS
<1>0. PICK a \in Assets : docs = <<[assets |-> [NoAssets EXCEPT ![a] = 1], prev |-> None]>>
  BY DEF Init
<1>1. Len(docs) = 1 /\ docs[1].prev = None
  BY <1>0
<1>2. PICK minted \in Tokens : uri = [t \in Tokens |-> IF t = minted THEN 1 ELSE None]
  BY DEF Init
<1>3. LinesOK
  <2>1. PICK owner : owner = [d \in 1 .. 1 |-> minted]
    OBVIOUS
  <2>2. owner \in [1 .. Len(docs) -> Tokens] /\ WrittenFor(owner)
    BY <1>1, <1>2, <2>1 DEF WrittenFor, Init, Idle, None
  <2> QED
    BY <2>2 DEF LinesOK
<1> QED
  BY <1>3 DEF DocInv, Init, PendingOK, DocumentsPinned, Idle

----------------------------------------------------------------------------
(* The manifests that are unpinned.                                          *)

(* The manifests that a writer is about to list or to unpin; the ones that   *)
(* are unpinned or about to be; those that only one writer knows of.         *)
Held ==
    [w \in Writers |->
        IF writer[w].at \in {"targeted", "unpinning"} THEN Chain[writer[w].version]
        ELSE IF writer[w].at = "signing" THEN Chain[writer[w].removed] ELSE {}]

Doomed ==
    unpinned.versions \cup
    UNION {Chain[writer[w].version] : w \in {u \in Writers : writer[u].at = "unpinning"}}

Fresh ==
    [w \in Writers |->
        {v \in 1 .. Len(versions) :
            /\ v \notin unpinned.versions
            /\ \A u \in Writers \ {w} : v \notin Held[u]
            /\ \A d \in 1 .. Len(docs) :
                  v \in Within[d] => writer[w].at = "signing" /\ writer[w].doc = d}]

(* What a document leads to was written for its token.                       *)
TokensHouse == \A t \in Tokens : \A v \in Within[uri[t]] : t \in homes[v]

Houseful(w) ==
    LET q == writer[w] IN
    /\ q.at \in {"targeted", "signing"} => \A v \in Within[q.base] : q.token \in homes[v]
    /\ q.at = "signing" => \A v \in Within[q.doc] : q.token \in homes[v]
    /\ q.at = "unpinning" => \A v \in Chain[q.version] : q.token \in homes[v]

(* What a publication will list is new, or listed elsewhere, or was listed   *)
(* in the document it was merged into; what it will unpin it does not list.  *)
Careful(w) ==
    LET q == writer[w] IN
    /\ q.at = "targeted" => q.version \in Fresh[w]
    /\ q.at = "signing" =>
          /\ \A x \in Assets :
                \/ Entries[q.doc][x] \in {None, Entries[q.base][x]}
                \/ homes[Entries[q.doc][x]] # {q.token}
                \/ Entries[q.doc][x] \in Fresh[w]
          /\ q.removed # None =>
                \E a \in Assets : q.removed = Entries[q.base][a] /\ Entries[q.doc][a] = None

Kept ==
    \A t \in Live : disturbed[t] = 0 =>
        \A x \in Assets :
            Entries[uri[t]][x] # None /\ Entries[uri[t]][x] \in Doomed =>
                homes[Entries[uri[t]][x]] # {t}

ManifestInv ==
    /\ TokensHouse
    /\ \A w \in Writers : Houseful(w) /\ Careful(w)
    /\ Kept

HomesGrow == \A v \in 1 .. Len(versions) : homes[v] \subseteq homes'[v]

LEMMA HeldFacts ==
    ASSUME TableInv, WrittenInv, NEW w \in Writers
    PROVE  /\ Held[w] \subseteq 1 .. Len(versions)
           /\ writer[w].at \in {"targeted", "unpinning"} =>
                 writer[w].version \in 0 .. Len(versions) /\ Held[w] = Chain[writer[w].version]
           /\ writer[w].at = "signing" =>
                 writer[w].removed \in 0 .. Len(versions) /\ Held[w] = Chain[writer[w].removed]
           /\ writer[w].at \in {"targeted", "signing"} => writer[w].base \in 0 .. Len(docs)
           /\ writer[w].at = "signing" => writer[w].doc \in 1 .. Len(docs) /\ writer[w].doc \in 0 .. Len(docs)
           /\ writer[w].at \notin {"targeted", "signing", "unpinning"} => Held[w] = {}
<1>1. Len(versions) \in Nat /\ Len(docs) \in Nat
  BY LengthsTyped
<1>2. /\ writer[w].at \in {"targeted", "unpinning"} => writer[w].version \in 0 .. Len(versions)
      /\ writer[w].at = "signing" => writer[w].removed \in 0 .. Len(versions)
  BY <1>1 DEF WrittenInv, HeldOK, HoldsOK
<1>3. /\ writer[w].at \in {"targeted", "signing"} => writer[w].base \in 0 .. Len(docs)
      /\ writer[w].at = "signing" => writer[w].doc \in 1 .. Len(docs) /\ writer[w].doc \in 0 .. Len(docs)
  BY <1>1 DEF TableInv, ChangeIsSmall
<1>4. \A v \in 0 .. Len(versions) : Chain[v] \subseteq 1 .. Len(versions)
  BY ChainFacts
<1> QED
  BY <1>2, <1>3, <1>4 DEF Held

(* What the writers that do not move hold, stays.                            *)
LEMMA HeldStays ==
    ASSUME TableInv, WrittenInv, DataStays, NEW w \in Writers, NEW step, Moves(w, step),
           NEW u \in Writers \ {w}
    PROVE  writer'[u] = writer[u] /\ Held'[u] = Held[u]
<1>1. writer'[u] = writer[u]
  BY MovesTo
<1>2. \A v \in 0 .. Len(versions) : Chain'[v] = Chain[v]
  BY DEF DataStays
<1>3. Held'[u] = IF writer[u].at \in {"targeted", "unpinning"} THEN Chain'[writer[u].version]
                 ELSE IF writer[u].at = "signing" THEN Chain'[writer[u].removed] ELSE {}
  BY <1>1 DEF Held
<1> QED
  BY <1>1, <1>2, <1>3, HeldFacts DEF Held

LEMMA FreshStays ==
    ASSUME TableInv, WrittenInv, DataStays, NEW w \in Writers, NEW step, Moves(w, step),
           NEW u \in Writers \ {w}, NEW v \in Fresh[u],
           v \notin Held'[w], v \notin unpinned'.versions,
           \A d \in 1 .. Len(docs') : d \notin 1 .. Len(docs) => v \notin Within'[d]
    PROVE  v \in Fresh'[u]
<1>1. /\ v \in 1 .. Len(versions) /\ \A z \in Writers \ {u} : v \notin Held[z]
      /\ \A d \in 1 .. Len(docs) : v \in Within[d] => writer[u].at = "signing" /\ writer[u].doc = d
  BY DEF Fresh
<1>2. writer'[u] = writer[u] /\ \A z \in Writers \ {u} : v \notin Held'[z]
  BY <1>1, HeldStays
<1>3. v \in 1 .. Len(versions')
  BY <1>1 DEF DataStays
<1>4. \A d \in 1 .. Len(docs') : v \in Within'[d] => writer'[u].at = "signing" /\ writer'[u].doc = d
  BY <1>1, <1>2 DEF DataStays
<1> QED
  BY <1>2, <1>3, <1>4 DEF Fresh

(* What only one writer knows of is listed nowhere that others build on.     *)
LEMMA FreshAway ==
    ASSUME TableInv, WrittenInv, PendingOK, NEW u \in Writers, NEW v \in Fresh[u]
    PROVE  /\ \A t \in Tokens : v \notin Within[uri[t]]
           /\ \A z \in Writers : writer[z].at \in {"targeted", "signing"} => v \notin Within[writer[z].base]
           /\ \A t \in Tokens, d \in 1 .. Len(docs) : d \in Ancestors(uri[t], MaxDocs) => v \notin Within[d]
<1>1. \A d \in 0 .. Len(docs) : v \in Within[d] =>
          d \in 1 .. Len(docs) /\ writer[u].at = "signing" /\ writer[u].doc = d
  <2>1. Within[None] = {} /\ \A d \in 0 .. Len(docs) : d # None => d \in 1 .. Len(docs)
    BY EntryFacts, LengthsTyped DEF None
  <2> QED
    BY <2>1 DEF Fresh
<1>2. \A d \in 1 .. Len(docs) : writer[u].at = "signing" /\ writer[u].doc = d => Unsigned(d)
  BY DEF PendingOK
<1>3. \A t \in Tokens : v \notin Within[uri[t]]
  BY <1>1, <1>2, UriTyped DEF Unsigned
<1>4. \A z \in Writers : writer[z].at \in {"targeted", "signing"} => v \notin Within[writer[z].base]
  BY <1>1, <1>2, HeldFacts DEF Unsigned
<1>5. \A t \in Tokens, d \in 1 .. Len(docs) : d \in Ancestors(uri[t], MaxDocs) => v \notin Within[d]
  <2> SUFFICES ASSUME NEW t \in Tokens, NEW d \in 1 .. Len(docs), d \in Ancestors(uri[t], MaxDocs),
                      v \in Within[d]
               PROVE  FALSE
    OBVIOUS
  <2>1. Unsigned(d) /\ MaxDocs \in Nat
    BY <1>1, <1>2, LengthsTyped
  <2> QED
    BY <2>1, UnsignedIsAway
<1> QED
  BY <1>3, <1>4, <1>5

(* The writers that do not move stay houseful and careful.                   *)
LEMMA OthersKeep ==
    ASSUME TableInv, WrittenInv, DataStays, HomesGrow, NEW w \in Writers, NEW step, Moves(w, step),
           NEW u \in Writers \ {w}, Houseful(u), Careful(u), Fresh[u] \subseteq Fresh'[u]
    PROVE  Houseful(u)' /\ Careful(u)'
<1>1. writer'[u] = writer[u]
  BY MovesTo
<1>2. /\ \A d \in 0 .. Len(docs) :
            /\ Within'[d] = Within[d] /\ Entries'[d] = Entries[d] /\ Within[d] \subseteq 1 .. Len(versions)
            /\ \A x \in Assets : Entries[d][x] # None => Entries[d][x] \in Within[d]
      /\ \A v \in 0 .. Len(versions) : Chain'[v] = Chain[v] /\ Chain[v] \subseteq 1 .. Len(versions)
  BY EntryFacts, ChainFacts DEF DataStays
<1>3. Houseful(u)'
  BY <1>1, <1>2, HeldFacts DEF Houseful, HomesGrow
<1>4. ASSUME writer[u].at = "signing", NEW x \in Assets
      PROVE  LET e == Entries[writer[u].doc][x] IN
             \/ e \in {None, Entries[writer[u].base][x]}
             \/ homes'[e] # {writer[u].token}
             \/ e \in Fresh'[u]
  <2> DEFINE e == Entries[writer[u].doc][x]
  <2>1. e # None => e \in Within[writer[u].doc] /\ e \in 1 .. Len(versions)
    BY <1>2, <1>4, HeldFacts
  <2>2. e # None => writer[u].token \in homes[e] /\ homes[e] \subseteq homes'[e]
    BY <1>4, <2>1 DEF Houseful, HomesGrow
  <2>3. \/ e \in {None, Entries[writer[u].base][x]}
        \/ homes[e] # {writer[u].token}
        \/ e \in Fresh[u]
    BY <1>4 DEF Careful
  <2> HIDE DEF e
  <2>4. \/ e \in {None, Entries[writer[u].base][x]}
        \/ homes'[e] # {writer[u].token}
        \/ e \in Fresh'[u]
    BY <2>2, <2>3
  <2> QED
    BY <2>4 DEF e
<1>5. writer[u].at = "signing" =>
          /\ Entries'[writer[u].doc] = Entries[writer[u].doc]
          /\ Entries'[writer[u].base] = Entries[writer[u].base]
  BY <1>2, HeldFacts
<1>6. Careful(u)'
  BY <1>1, <1>4, <1>5 DEF Careful
<1> QED
  BY <1>3, <1>6

LEMMA HouseStays ==
    ASSUME TableInv, WrittenInv, DataStays, HomesGrow, TokensHouse,
           \A t \in Tokens : uri'[t] \in {None, uri[t]}
    PROVE  TokensHouse'
<1>1. \A t \in Tokens : Within'[uri'[t]] = Within[uri'[t]] /\ Within[uri'[t]] \subseteq 1 .. Len(versions)
  BY EntryFacts, UriTyped DEF DataStays
<1>2. \A t \in Tokens : Within[uri'[t]] \subseteq Within[uri[t]]
  BY EntryFacts
<1> QED
  BY <1>1, <1>2 DEF TokensHouse, HomesGrow

LEMMA DoomedShrinks ==
    ASSUME TableInv, WrittenInv, DataStays, NEW w \in Writers, NEW step, Moves(w, step),
           step.at # "unpinning",
           \/ unpinned'.versions = unpinned.versions
           \/ /\ writer[w].at = "unpinning"
              /\ unpinned'.versions = unpinned.versions \cup Chain[writer[w].version]
    PROVE  Doomed' \subseteq Doomed
<1> SUFFICES ASSUME NEW v \in Doomed' PROVE v \in Doomed
  OBVIOUS
<1>1. writer'[w] = step /\ \A u \in Writers \ {w} : writer'[u] = writer[u]
  BY MovesTo
<1>2. CASE v \in unpinned'.versions
  BY <1>2 DEF Doomed
<1>3. ASSUME NEW u \in Writers, writer'[u].at = "unpinning", v \in Chain'[writer'[u].version]
      PROVE  v \in Doomed
  <2>1. u # w /\ writer'[u] = writer[u]
    BY <1>1, <1>3
  <2>2. Chain'[writer[u].version] = Chain[writer[u].version]
    BY <1>3, <2>1, HeldFacts DEF DataStays
  <2> QED
    BY <1>3, <2>1, <2>2 DEF Doomed
<1> QED
  BY <1>2, <1>3 DEF Doomed

LEMMA KeptStays ==
    ASSUME TableInv, WrittenInv, DataStays, HomesGrow, TokensHouse, Kept, Doomed' \subseteq Doomed,
           UNCHANGED disturbed, \A t \in Tokens : uri'[t] \in {None, uri[t]}
    PROVE  Kept'
<1> SUFFICES ASSUME NEW t \in Tokens, uri'[t] # None, disturbed[t] = 0, NEW x \in Assets,
                    Entries'[uri'[t]][x] # None, Entries'[uri'[t]][x] \in Doomed'
             PROVE  homes'[Entries'[uri'[t]][x]] # {t}
  BY DEF Kept, Live
<1>1. uri'[t] = uri[t] /\ t \in Live /\ uri[t] \in 0 .. Len(docs)
  BY UriTyped DEF Live
<1>2. Entries'[uri'[t]] = Entries[uri[t]]
  BY <1>1 DEF DataStays
<1>3. PICK v : v = Entries[uri[t]][x]
  OBVIOUS
<1>4. v \in Within[uri[t]] /\ v \in 1 .. Len(versions)
  BY <1>1, <1>2, <1>3, EntryFacts
<1>5. t \in homes[v] /\ homes[v] # {t} /\ homes[v] \subseteq homes'[v]
  BY <1>1, <1>2, <1>3, <1>4 DEF Kept, TokensHouse, HomesGrow
<1> QED
  BY <1>2, <1>3, <1>5

LEMMA ManifestMoves ==
    ASSUME TableInv, WrittenInv, ManifestInv, DataStays, HomesGrow,
           NEW w \in Writers, NEW step, Moves(w, step),
           \A u \in Writers \ {w} : Fresh[u] \subseteq Fresh'[u],
           Houseful(w)', Careful(w)', TokensHouse', Kept'
    PROVE  ManifestInv'
<1>1. \A u \in Writers \ {w} : Houseful(u)' /\ Careful(u)'
  BY OthersKeep DEF ManifestInv
<1> QED
  BY <1>1 DEF ManifestInv

(* A manifest that is written grows from one that was listed.                *)
LEMMA PublishesChain ==
    ASSUME TableInv, WrittenInv, NEW w \in Writers,
           NEW a, NEW prev, NEW token, NEW mint, NEW base,
           Publishes(w, a, prev, token, mint, base)
    PROVE  /\ NewVersion \in 1 .. Len(versions') /\ NewVersion \notin 1 .. Len(versions)
           /\ Chain'[NewVersion] = {NewVersion} \cup Chain[prev]
           /\ prev # None =>
                \E t \in Tokens, d \in 1 .. Len(docs) :
                   d \in Ancestors(uri[t], MaxDocs) /\ Chain[prev] \subseteq Within[d]
<1>1. /\ a \in Assets /\ prev \in 0 .. Len(versions)
      /\ versions' = Append(versions, [asset |-> a, prev |-> prev])
      /\ prev # None => \E t \in Live : prev \in EverListed(t, a, MaxDocs)
      /\ VersionWritten /\ UNCHANGED docs
  BY WriteVersionWritten DEF Publishes, WriteVersion
<1>2. DataStays
  BY <1>1, DataDoesStay DEF DocWritten
<1>3. PICK n : n = Len(versions) + 1
  OBVIOUS
<1>4. /\ Len(versions) \in Nat /\ Len(versions') = n /\ n \in 1 .. Len(versions')
      /\ n \notin 1 .. Len(versions) /\ versions'[n].prev = prev
  BY <1>1, <1>3, LengthsTyped
<1>5. ChainsUnfold'
  BY <1>1, VersionsStay, ChainsUnfoldNext DEF WrittenInv
<1>6. VersionChain(n)' = {n} \cup VersionChain(versions[n].prev)'
  BY <1>4, <1>5 DEF ChainsUnfold
<1>7. Chain'[n] = VersionChain(n)'
  BY <1>4 DEF Chain
<1>8. PICK p \in 0 .. Len(versions) : p = prev
  BY <1>1
<1>9. VersionChain(p)' = Chain'[p] /\ Chain'[p] = Chain[p]
  BY <1>2 DEF Chain, DataStays
<1>10. versions'[n].prev = p
  BY <1>4, <1>8
<1>11. Chain'[n] = {n} \cup Chain[prev]
  BY <1>6, <1>7, <1>8, <1>9, <1>10
<1>12. ASSUME prev # None
       PROVE  \E t \in Tokens, d \in 1 .. Len(docs) :
                   d \in Ancestors(uri[t], MaxDocs) /\ Chain[prev] \subseteq Within[d]
  <2>1. PICK t \in Live : prev \in EverListed(t, a, MaxDocs)
    BY <1>1, <1>12
  <2>2. PICK d \in Ancestors(uri[t], MaxDocs) : d \in 1 .. Len(docs) /\ prev = AssetsOf(d)[a]
    BY <1>1, <2>1, EverListedNamed DEF WrittenInv
  <2>3. d \in 0 .. Len(docs)
    BY <2>2, LengthsTyped
  <2>4. Chain[prev] \subseteq Within[d]
    BY <1>1, <2>2, <2>3, EntryFacts
  <2> QED
    BY <2>1, <2>2, <2>4 DEF Live
<1> QED
  BY <1>3, <1>4, <1>11, <1>12 DEF NewVersion

LEMMA ManifestPublishes ==
    ASSUME TableInv, WrittenInv, PendingOK, ManifestInv, NEW w \in Writers,
           NEW a, NEW prev, NEW token, NEW mint, NEW base,
           Publishes(w, a, prev, token, mint, base)
    PROVE  ManifestInv'
<1> DEFINE step == [at |-> "targeted", token |-> token, mint |-> mint, base |-> base,
                    asset |-> a, version |-> NewVersion]
<1>1. /\ Moves(w, step) /\ UNCHANGED <<uri, docs, unpinned, disturbed, homes>>
      /\ writer[w] = Idle /\ VersionWritten /\ DocWritten
      /\ token \in Tokens /\ base \in 0 .. Len(docs) /\ base \in {None, uri[token]}
  BY WriteVersionWritten DEF Publishes, WriteVersion, DocWritten
<1>2. DataStays /\ HomesGrow
  BY <1>1, DataDoesStay DEF HomesGrow
<1>3. PICK n : n = NewVersion
  OBVIOUS
<1>4. /\ n \in 1 .. Len(versions') /\ n \notin 1 .. Len(versions)
      /\ Chain'[n] = {n} \cup Chain[prev]
      /\ prev # None => \E t \in Tokens, d \in 1 .. Len(docs) :
                           d \in Ancestors(uri[t], MaxDocs) /\ Chain[prev] \subseteq Within[d]
  BY <1>3, PublishesChain
<1>5. /\ writer'[w].at = "targeted" /\ writer'[w].version = n /\ writer'[w].token = token
      /\ writer'[w].base = base
  <2>1. writer'[w] = step
    <3> HIDE DEF step
    <3> QED
      BY <1>1, MovesTo
  <2> QED
    BY <1>3, <2>1
<1> HIDE DEF step
<1>6. Held'[w] = Chain'[n]
  BY <1>5 DEF Held
<1>7. \A u \in Writers \ {w} : Held'[u] = Held[u]
  BY <1>1, <1>2, HeldStays
<1>8. ASSUME NEW u \in Writers \ {w}, NEW v \in Fresh[u] PROVE v \in Fresh'[u]
  <2>1. v \in 1 .. Len(versions) /\ v \notin unpinned'.versions
    BY <1>1 DEF Fresh
  <2>2. v \notin Chain[prev]
    <3>1. CASE prev = None
      BY <3>1, ChainFacts
    <3>2. CASE prev # None
      BY <1>4, <3>2, FreshAway
    <3> QED
      BY <3>1, <3>2
  <2>3. v \notin Held'[w]
    BY <1>4, <1>6, <2>1, <2>2
  <2> QED
    BY <1>1, <1>2, <2>1, <2>3, FreshStays
<1>9. n \in Fresh'[w]
  <2>1. n \notin unpinned'.versions
    BY <1>1, <1>4 DEF WrittenInv, HistoriesOK
  <2>2. \A u \in Writers \ {w} : n \notin Held'[u]
    BY <1>4, <1>7, HeldFacts
  <2>3. \A d \in 1 .. Len(docs') : n \notin Within'[d]
    <3>1. \A d \in 1 .. Len(docs') : d \in 0 .. Len(docs)
      BY <1>1, LengthsTyped
    <3> QED
      BY <1>2, <1>4, <3>1, EntryFacts DEF DataStays
  <2> QED
    BY <1>4, <2>1, <2>2, <2>3 DEF Fresh
<1>10. Careful(w)'
  BY <1>5, <1>9 DEF Careful
<1>11. Houseful(w)'
  <2>1. Within'[base] = Within[base]
    BY <1>1, <1>2 DEF DataStays
  <2>2. \A v \in Within[base] : token \in homes[v]
    BY <1>1, EntryFacts DEF ManifestInv, TokensHouse
  <2> QED
    BY <1>1, <1>5, <2>1, <2>2 DEF Houseful
<1>12. TokensHouse'
  BY <1>1, <1>2, HouseStays DEF ManifestInv
<1>13. Doomed' \subseteq Doomed
  <2>1. step.at # "unpinning"
    BY DEF step
  <2> QED
    BY <1>1, <1>2, <2>1, DoomedShrinks
<1>14. Kept'
  BY <1>1, <1>2, <1>13, KeptStays DEF ManifestInv
<1> QED
  BY <1>1, <1>2, <1>8, <1>10, <1>11, <1>12, <1>14, ManifestMoves

(* What the new document leads to.                                           *)
LEMMA AddsDocData ==
    ASSUME TableInv, WrittenInv, NEW w \in Writers,
           NEW t, NEW mint, NEW base, NEW a, NEW v, NEW prev, NEW removed,
           AddsDoc(w, t, mint, base, a, v, prev, removed)
    PROVE  LET new == Len(docs) + 1 IN
           /\ DataStays /\ HomesGrow
           /\ new \in 1 .. Len(docs') /\ Len(docs') = new
           /\ Entries'[new][a] = v
           /\ \A x \in Assets \ {a} : Entries'[new][x] = Entries[base][x]
           /\ \A u \in Within'[new] : u \in Within[base] \/ u \in Chain'[v]
           /\ Chain[removed] \subseteq Within[base]
<1>1. /\ base \in 0 .. Len(docs) /\ a \in Assets
      /\ docs' = Append(docs, Merged(base, a, v, prev)) /\ VersionWritten
      /\ removed \in {None, AssetsOf(base)[a]}
      /\ \A u \in 1 .. Len(versions) : homes[u] \subseteq homes'[u]
  BY DEF AddsDoc
<1>2. WrittenInv' /\ DocWritten
  BY AddsDocWritten
<1>3. DataStays /\ HomesGrow
  BY <1>1, <1>2, DataDoesStay DEF HomesGrow
<1>4. PICK new : new = Len(docs) + 1
  OBVIOUS
<1>5. /\ Len(docs) \in Nat /\ Len(docs') = new /\ new \in 1 .. Len(docs') /\ new \in 0 .. Len(docs')
      /\ new # None /\ docs'[new] = Merged(base, a, v, prev)
  BY <1>1, <1>4, LengthsTyped DEF None
<1>6. Entries'[new] = [AssetsOf(base) EXCEPT ![a] = v]
  BY <1>5 DEF Entries, AssetsOf, Merged
<1>7. AssetsOf(base) \in [Assets -> VersionIds \cup {None}] /\ Entries[base] = AssetsOf(base)
  BY <1>1, AssetsTyped, EntryFacts DEF TableInv
<1>8. Entries'[new][a] = v /\ \A x \in Assets \ {a} : Entries'[new][x] = Entries[base][x]
  BY <1>1, <1>6, <1>7
<1>9. Within'[new] = UNION {Chain'[Entries'[new][x]] : x \in Assets}
  BY <1>5 DEF Within
<1>10. ASSUME NEW x \in Assets \ {a} PROVE Chain'[Entries'[new][x]] \subseteq Within[base]
  <2>1. /\ Entries[base][x] \in 0 .. Len(versions) /\ Chain[Entries[base][x]] \subseteq Within[base]
    BY <1>1, EntryFacts DEF Names
  <2> QED
    BY <1>3, <1>8, <2>1 DEF DataStays
<1>11. \A u \in Within'[new] : u \in Within[base] \/ u \in Chain'[v]
  BY <1>8, <1>9, <1>10
<1>12. Chain[removed] \subseteq Within[base]
  BY <1>1, <1>7, EntryFacts, ChainFacts
<1> QED
  BY <1>3, <1>4, <1>5, <1>8, <1>11, <1>12

LEMMA ManifestAdds ==
    ASSUME TableInv, WrittenInv, PendingOK, ManifestInv, NEW w \in Writers,
           NEW t, NEW mint, NEW base, NEW a, NEW v, NEW prev, NEW removed,
           AddsDoc(w, t, mint, base, a, v, prev, removed)
    PROVE  ManifestInv'
<1> DEFINE step == [at |-> "signing", token |-> t, mint |-> mint, base |-> base,
                    doc |-> Len(docs) + 1, removed |-> removed]
<1>1. /\ Moves(w, step) /\ UNCHANGED <<uri, unpinned, disturbed>>
      /\ t \in Tokens /\ base \in 0 .. Len(docs) /\ a \in Assets
      /\ Names(versions', v, a)
      /\ removed \in {None, AssetsOf(base)[a]} /\ (removed # None => v = None)
      /\ \/ /\ writer[w] = Idle
            /\ base \in {None, uri[t]}
            /\ \/ v = None
               \/ v = Len(versions) + 1 /\ Chain'[v] = {v}
               \/ \E source \in Tokens \ {t} : v = AssetsOf(uri[source])[a]
         \/ /\ writer[w].at = "targeted" /\ base = writer[w].base /\ t = writer[w].token
            /\ v = writer[w].version
      /\ \A u \in Chain'[v] : t \in homes'[u]
  BY DEF AddsDoc
<1>2. PICK new : new = Len(docs) + 1
  OBVIOUS
<1>3. /\ DataStays /\ HomesGrow
      /\ new \in 1 .. Len(docs') /\ Len(docs') = new
      /\ Entries'[new][a] = v
      /\ \A x \in Assets \ {a} : Entries'[new][x] = Entries[base][x]
      /\ \A u \in Within'[new] : u \in Within[base] \/ u \in Chain'[v]
      /\ Chain[removed] \subseteq Within[base]
  BY <1>2, AddsDocData
<1>4. /\ writer'[w].at = "signing" /\ writer'[w].token = t /\ writer'[w].base = base
      /\ writer'[w].doc = new /\ writer'[w].removed = removed
  <2>1. writer'[w] = step
    <3> HIDE DEF step
    <3> QED
      BY <1>1, MovesTo
  <2> QED
    BY <1>2, <2>1
<1>5. /\ removed \in 0 .. Len(versions) /\ Chain'[removed] = Chain[removed]
      /\ Within'[base] = Within[base] /\ Entries'[base] = Entries[base]
      /\ Chain'[None] = {} /\ Entries[base] = AssetsOf(base)
      /\ \A x \in Assets : Entries[base][x] \in 0 .. Len(versions)
  BY <1>1, <1>3, EntryFacts, ChainFacts DEF DataStays, Names, None
<1> HIDE DEF step
<1>6. Held'[w] = Chain[removed]
  BY <1>4, <1>5 DEF Held
<1>7. ASSUME writer[w] = Idle, NEW source \in Tokens \ {t}, v = AssetsOf(uri[source])[a]
      PROVE  Chain'[v] = Chain[v] /\ Chain[v] \subseteq Within[uri[source]] /\ v \in 0 .. Len(versions)
             /\ (v # None => v \in Within[uri[source]])
  <2>1. PICK d \in 0 .. Len(docs) : d = uri[source]
    BY UriTyped
  <2>2. v = Entries[d][a]
    BY <1>7, <2>1, EntryFacts
  <2>3. v \in 0 .. Len(versions) /\ Chain[v] \subseteq Within[d] /\ (v # None => v \in Within[d])
    BY <1>1, <2>2, EntryFacts DEF Names
  <2> QED
    BY <1>3, <2>1, <2>3 DEF DataStays
<1>8. \A u \in Writers \ {w} : Held'[u] = Held[u]
  BY <1>1, <1>3, HeldStays
<1>9. ASSUME NEW u \in Writers \ {w}, NEW f \in Fresh[u]
      PROVE  f \notin Within[base] /\ f \notin Chain'[v]
  <2>1. f \in 1 .. Len(versions) /\ f \notin Held[w] /\ Len(versions) \in Nat
    BY LengthsTyped DEF Fresh
  <2>2. f \notin Within[base]
    <3>1. CASE base \in {None, uri[t]}
      BY <1>1, <3>1, FreshAway, EntryFacts
    <3>2. CASE writer[w].at = "targeted" /\ base = writer[w].base
      BY <3>2, FreshAway
    <3> QED
      BY <1>1, <3>1, <3>2
  <2>3. CASE writer[w] = Idle /\ v = None
    BY <1>5, <2>2, <2>3
  <2>4. CASE writer[w] = Idle /\ v = Len(versions) + 1 /\ Chain'[v] = {v}
    BY <2>1, <2>2, <2>4
  <2>5. CASE writer[w] = Idle /\ \E source \in Tokens \ {t} : v = AssetsOf(uri[source])[a]
    BY <1>7, <2>2, <2>5, FreshAway
  <2>6. CASE writer[w].at = "targeted" /\ v = writer[w].version
    <3>1. v \in 0 .. Len(versions) /\ Held[w] = Chain[v]
      BY <2>6, HeldFacts
    <3> QED
      BY <1>3, <2>1, <2>2, <3>1 DEF DataStays
  <2> QED
    BY <1>1, <2>3, <2>4, <2>5, <2>6
<1>10. ASSUME NEW u \in Writers \ {w}, NEW f \in Fresh[u] PROVE f \in Fresh'[u]
  <2>1. f \in 1 .. Len(versions) /\ f \notin unpinned'.versions
    BY <1>1 DEF Fresh
  <2>2. f \notin Held'[w]
    BY <1>3, <1>6, <1>9
  <2>3. \A d \in 1 .. Len(docs') : d \notin 1 .. Len(docs) => f \notin Within'[d]
    <3>1. \A d \in 1 .. Len(docs') : d \notin 1 .. Len(docs) => d = new
      BY <1>2, <1>3, LengthsTyped
    <3> QED
      BY <1>3, <1>9, <3>1
  <2> QED
    BY <1>1, <1>3, <2>1, <2>2, <2>3, FreshStays
<1>11. Houseful(w)'
  <2>1. \A u \in Within[base] : t \in homes[u] /\ u \in 1 .. Len(versions)
    <3>1. CASE base \in {None, uri[t]}
      BY <1>1, <3>1, EntryFacts DEF ManifestInv, TokensHouse
    <3>2. CASE writer[w].at = "targeted" /\ base = writer[w].base /\ t = writer[w].token
      BY <1>1, <3>2, EntryFacts DEF ManifestInv, Houseful
    <3> QED
      BY <1>1, <3>1, <3>2
  <2>2. \A u \in Within[base] : t \in homes'[u]
    BY <1>3, <2>1 DEF HomesGrow
  <2>3. \A u \in Within'[new] : t \in homes'[u]
    BY <1>1, <1>3, <2>2
  <2> QED
    BY <1>4, <1>5, <2>2, <2>3 DEF Houseful
<1>12. \/ v \in {None, Entries[base][a]}
       \/ homes'[v] # {t}
       \/ v \in Fresh'[w]
  <2>1. CASE writer[w] = Idle /\ v = None
    BY <2>1
  <2>2. CASE writer[w] = Idle /\ v = Len(versions) + 1 /\ Chain'[v] = {v}
    <3>1. v \notin 1 .. Len(versions) /\ v \in 1 .. Len(versions')
      BY <1>1, <2>2, LengthsTyped DEF Names
    <3>2. v \notin unpinned'.versions
      BY <1>1, <3>1 DEF WrittenInv, HistoriesOK
    <3>3. \A u \in Writers \ {w} : v \notin Held'[u]
      BY <1>8, <3>1, HeldFacts
    <3>4. ASSUME NEW d \in 1 .. Len(docs'), v \in Within'[d] PROVE d = new
      <4>1. CASE d \in 0 .. Len(docs)
        BY <1>3, <3>1, <3>4, <4>1, EntryFacts DEF DataStays
      <4> QED
        BY <1>2, <1>3, <4>1, LengthsTyped
    <3> QED
      BY <1>4, <3>1, <3>2, <3>3, <3>4 DEF Fresh
  <2>3. ASSUME writer[w] = Idle, NEW source \in Tokens \ {t}, v = AssetsOf(uri[source])[a], v # None
        PROVE  homes'[v] # {t}
    <3>1. source \in homes[v] /\ v \in 1 .. Len(versions)
      BY <1>7, <2>3, EntryFacts, UriTyped DEF ManifestInv, TokensHouse
    <3> QED
      BY <1>3, <3>1 DEF HomesGrow
  <2>4. CASE writer[w].at = "targeted" /\ v = writer[w].version
    <3>1. v \in Fresh[w]
      BY <2>4 DEF ManifestInv, Careful
    <3>2. /\ v \in 1 .. Len(versions') /\ v \notin unpinned'.versions
          /\ \A u \in Writers \ {w} : v \notin Held'[u]
          /\ \A d \in 1 .. Len(docs) : v \notin Within[d]
      <4>1. /\ v \in 1 .. Len(versions) /\ v \notin unpinned.versions
            /\ \A u \in Writers \ {w} : v \notin Held[u]
            /\ \A d \in 1 .. Len(docs) : v \notin Within[d]
        BY <2>4, <3>1 DEF Fresh
      <4>2. v \in 1 .. Len(versions')
        BY <1>3, <4>1 DEF DataStays
      <4> QED
        BY <1>1, <1>8, <4>1, <4>2
    <3>3. ASSUME NEW d \in 1 .. Len(docs'), v \in Within'[d] PROVE d = new
      <4>1. CASE d \in 1 .. Len(docs)
        <5>1. Within'[d] = Within[d]
          BY <1>3, <4>1 DEF DataStays
        <5> QED
          BY <3>2, <3>3, <4>1, <5>1
      <4> QED
        BY <1>2, <1>3, <4>1, LengthsTyped
    <3> QED
      BY <1>4, <3>2, <3>3 DEF Fresh
  <2> QED
    BY <1>1, <2>1, <2>2, <2>3, <2>4
<1>13. Careful(w)'
  <2>1. ASSUME NEW x \in Assets
        PROVE  \/ Entries'[new][x] \in {None, Entries'[base][x]}
               \/ homes'[Entries'[new][x]] # {t}
               \/ Entries'[new][x] \in Fresh'[w]
    <3>1. CASE x = a
      BY <1>3, <1>5, <1>12, <3>1
    <3>2. CASE x # a
      BY <1>3, <1>5, <3>2
    <3> QED
      BY <3>1, <3>2
  <2>2. removed # None => \E x \in Assets : removed = Entries'[base][x] /\ Entries'[new][x] = None
    BY <1>1, <1>3, <1>5
  <2> QED
    BY <1>4, <2>1, <2>2 DEF Careful
<1>14. TokensHouse'
  BY <1>1, <1>3, HouseStays DEF ManifestInv
<1>15. Doomed' \subseteq Doomed
  <2>1. step.at # "unpinning"
    BY DEF step
  <2> QED
    BY <1>1, <1>3, <2>1, DoomedShrinks
<1>16. Kept'
  BY <1>1, <1>3, <1>15, KeptStays DEF ManifestInv
<1> QED
  BY <1>1, <1>3, <1>10, <1>11, <1>13, <1>14, <1>16, ManifestMoves

(* A writer ends, or goes to burn. *)
LEMMA ManifestEnds ==
    ASSUME TableInv, WrittenInv, ManifestInv, NEW w \in Writers, NEW step, Moves(w, step),
           step.at \notin {"targeted", "signing", "unpinning"},
           UNCHANGED <<docs, versions, homes, disturbed>>,
           \A t \in Tokens : uri'[t] \in {None, uri[t]},
           \/ unpinned'.versions = unpinned.versions
           \/ /\ writer[w].at = "unpinning"
              /\ unpinned'.versions = unpinned.versions \cup Chain[writer[w].version]
    PROVE  ManifestInv'
<1>1. DataStays /\ HomesGrow
  BY DataDoesStay DEF VersionWritten, DocWritten, HomesGrow
<1>2. writer'[w] = step
  BY MovesTo
<1>3. ASSUME NEW u \in Writers \ {w}, NEW v \in Fresh[u] PROVE v \in Fresh'[u]
  <2>1. v \notin unpinned.versions /\ v \notin Held[w]
    BY DEF Fresh
  <2>2. v \notin unpinned'.versions
    BY <2>1, HeldFacts
  <2>3. v \notin Held'[w]
    BY <1>2 DEF Held
  <2> QED
    BY <1>1, <2>2, <2>3, FreshStays
<1>4. Houseful(w)' /\ Careful(w)'
  BY <1>2 DEF Houseful, Careful
<1>5. TokensHouse'
  BY <1>1, HouseStays DEF ManifestInv
<1>6. Kept'
  BY <1>1, DoomedShrinks, KeptStays DEF ManifestInv
<1> QED
  BY <1>1, <1>3, <1>4, <1>5, <1>6, ManifestMoves

LEMMA ManifestMines ==
    ASSUME TableInv, WrittenInv, ManifestInv, NEW w \in Writers, Mine(w)
    PROVE  ManifestInv'
<1> DEFINE c == writer[w]
           t == c.token
           next == IF c.removed = None THEN Idle
                   ELSE [at |-> "unpinning", token |-> c.token, version |-> c.removed]
<1>1. /\ c.at = "signing" /\ Moves(w, next) /\ UNCHANGED <<docs, versions, unpinned, homes, burnFailed>>
      /\ uri' = [uri EXCEPT ![t] = c.doc]
      /\ disturbed' = IF c.base = uri[t] THEN disturbed ELSE [disturbed EXCEPT ![t] = @ + 1]
  BY DEF Mine
<1>2. /\ t \in Tokens /\ c.doc \in 1 .. Len(docs) /\ c.doc \in 0 .. Len(docs)
      /\ c.base \in 0 .. Len(docs) /\ c.removed \in 0 .. Len(versions) /\ Held[w] = Chain[c.removed]
  BY <1>1, SigningIsTyped, HeldFacts DEF TableInv, Signing
<1>3. /\ uri'[t] = c.doc /\ \A s \in Tokens \ {t} : uri'[s] = uri[s]
      /\ disturbed \in [Tokens -> Nat]
      /\ \A s \in Tokens \ {t} : disturbed'[s] = disturbed[s]
      /\ disturbed'[t] = 0 => c.base = uri[t] /\ disturbed[t] = 0
  <2>1. /\ uri'[t] = c.doc /\ \A s \in Tokens \ {t} : uri'[s] = uri[s]
        /\ disturbed \in [Tokens -> Nat] /\ \A s \in Tokens \ {t} : disturbed'[s] = disturbed[s]
    BY <1>1, <1>2 DEF TableInv, Typed
  <2>2. disturbed'[t] = 0 => c.base = uri[t] /\ disturbed[t] = 0
    BY <1>1, <1>2, <2>1
  <2> QED
    BY <2>1, <2>2
<1>4. /\ writer'[w].at # "signing" /\ writer'[w].at # "targeted"
      /\ c.removed = None => writer'[w].at # "unpinning"
      /\ writer'[w].at = "unpinning" => writer'[w].token = t /\ writer'[w].version = c.removed
      /\ c.removed # None => writer'[w].at = "unpinning"
  <2>1. writer'[w] = next
    <3> HIDE DEF next
    <3> QED
      BY <1>1, MovesTo
  <2> QED
    BY <2>1 DEF Idle
<1> HIDE DEF next
<1>5. DataStays /\ HomesGrow
  BY <1>1, DataDoesStay DEF VersionWritten, DocWritten, HomesGrow
<1>6. Held'[w] \subseteq Chain[c.removed]
  <2>1. Chain'[c.removed] = Chain[c.removed]
    BY <1>2, <1>5 DEF DataStays
  <2> QED
    BY <1>4, <2>1 DEF Held
<1>7. ASSUME NEW u \in Writers \ {w}, NEW v \in Fresh[u] PROVE v \in Fresh'[u]
  <2>1. v \notin unpinned'.versions /\ v \notin Held'[w]
    BY <1>1, <1>2, <1>6 DEF Fresh
  <2>2. docs' = docs
    BY <1>1
  <2> QED
    BY <1>1, <1>5, <2>1, <2>2, FreshStays
<1>8. /\ \A v \in Within[c.base] : t \in homes[v]
      /\ \A v \in Within[c.doc] : t \in homes[v]
      /\ Houseful(w) /\ Careful(w)
  BY <1>1 DEF ManifestInv, Houseful
<1>9. c.removed # None =>
         /\ c.removed \in Within[c.base] /\ Chain[c.removed] \subseteq Within[c.base]
         /\ \E a \in Assets : c.removed = Entries[c.base][a] /\ Entries[c.doc][a] = None
  BY <1>1, <1>2, <1>8, EntryFacts DEF Careful
<1>10. \A v \in Chain[c.removed] : t \in homes[v]
  BY <1>8, <1>9, ChainFacts
<1>11. Houseful(w)' /\ Careful(w)'
  <2>1. Chain'[c.removed] = Chain[c.removed] /\ homes' = homes
    BY <1>1, <1>2, <1>5 DEF DataStays
  <2>2. writer'[w].at = "unpinning" => \A v \in Chain'[writer'[w].version] : writer'[w].token \in homes'[v]
    BY <1>4, <1>10, <2>1
  <2> QED
    BY <1>4, <2>2 DEF Houseful, Careful
<1>12. TokensHouse'
  <2>1. \A s \in Tokens : uri'[s] \in 0 .. Len(docs)
    BY <1>2, <1>3, UriTyped
  <2>2. \A s \in Tokens : Within'[uri'[s]] = Within[uri'[s]]
    BY <1>5, <2>1 DEF DataStays
  <2>3. \A s \in Tokens : \A v \in Within[uri'[s]] : s \in homes[v]
    BY <1>3, <1>8 DEF ManifestInv, TokensHouse
  <2> QED
    BY <1>1, <2>2, <2>3 DEF TokensHouse
<1>13. Doomed' \subseteq Doomed \cup Chain[c.removed]
  <2>1. \A u \in Writers \ {w} : writer'[u] = writer[u]
    BY <1>1, MovesTo
  <2>2. Chain' = Chain
    BY <1>1, ChainSame
  <2>3. ASSUME NEW u \in Writers, writer'[u].at = "unpinning"
        PROVE  Chain'[writer'[u].version] \subseteq Doomed \cup Chain[c.removed]
    BY <1>4, <2>1, <2>2, <2>3 DEF Doomed
  <2> QED
    BY <1>1, <2>3 DEF Doomed
<1>14. Entries' = Entries
  BY <1>1 DEF Entries, AssetsOf
<1>15. ASSUME NEW s \in Tokens \ {t}, s \in Live', disturbed'[s] = 0, NEW x \in Assets,
              Entries[uri[s]][x] # None, Entries[uri[s]][x] \in Doomed'
       PROVE  homes[Entries[uri[s]][x]] # {s}
  <2>1. PICK v : v = Entries[uri[s]][x]
    OBVIOUS
  <2>2. s \in Live /\ disturbed[s] = 0
    BY <1>3, <1>15 DEF Live
  <2>3. CASE v \in Doomed
    BY <1>15, <2>1, <2>2, <2>3 DEF ManifestInv, Kept
  <2>4. CASE v \in Chain[c.removed]
    BY <1>10, <2>1, <2>4
  <2> QED
    BY <1>13, <1>15, <2>1, <2>3, <2>4
<1>16. ASSUME disturbed'[t] = 0, NEW x \in Assets,
              Entries[c.doc][x] # None, Entries[c.doc][x] \in Doomed'
       PROVE  homes[Entries[c.doc][x]] # {t}
  <2>1. PICK v : v = Entries[c.doc][x]
    OBVIOUS
  <2>2. c.base = uri[t] /\ disturbed[t] = 0
    BY <1>3, <1>16
  <2>3. v # None /\ v \in 0 .. Len(versions) /\ versions[v].asset = x
    BY <1>2, <1>16, <2>1, EntryFacts DEF Names
  <2>4. v \notin Chain[c.removed]
    <3>1. CASE c.removed = None
      BY <3>1, ChainFacts
    <3>2. CASE c.removed # None
      <4>1. PICK a \in Assets : c.removed = Entries[c.base][a] /\ Entries[c.doc][a] = None
        BY <1>9, <3>2
      <4>2. a # x
        BY <1>16, <4>1
      <4>3. versions[c.removed].asset = a
        BY <1>2, <3>2, <4>1, EntryFacts DEF Names
      <4>4. \A u \in Chain[c.removed] : versions[u].asset = a
        BY <1>2, <4>3, ChainFacts
      <4> QED
        BY <2>3, <4>2, <4>4
    <3> QED
      BY <3>1, <3>2
  <2>5. v \in Doomed
    BY <1>13, <1>16, <2>1, <2>4
  <2>6. \/ v = Entries[c.base][x]
        \/ homes[v] # {t}
        \/ v \in Fresh[w]
    BY <1>1, <1>8, <2>1, <2>3 DEF Careful
  <2>7. CASE v = Entries[c.base][x]
    <3>1. uri[t] # None
      BY <2>2, <2>3, <2>7, EntryFacts
    <3>2. t \in Live
      BY <1>2, <3>1 DEF Live
    <3> QED
      BY <2>1, <2>2, <2>3, <2>5, <2>7, <3>2 DEF ManifestInv, Kept
  <2>8. v \notin Fresh[w]
    <3>1. ASSUME NEW u \in Writers, writer[u].at = "unpinning", v \in Chain[writer[u].version]
          PROVE  v \notin Fresh[w]
      <4>1. u # w /\ v \in Held[u]
        BY <1>1, <3>1, HeldFacts
      <4> QED
        BY <4>1 DEF Fresh
    <3>2. v \in unpinned.versions => v \notin Fresh[w]
      BY DEF Fresh
    <3> QED
      BY <2>5, <3>1, <3>2 DEF Doomed
  <2> QED
    BY <2>1, <2>6, <2>7, <2>8
<1>17. Kept'
  BY <1>1, <1>3, <1>14, <1>15, <1>16 DEF Kept, Live
<1> QED
  BY <1>1, <1>5, <1>7, <1>11, <1>12, <1>17, ManifestMoves

LEMMA ManifestStep ==
    ASSUME TableInv, WrittenInv, DocInv, ManifestInv, [Next]_vars
    PROVE  ManifestInv'
<1>0. PendingOK
  BY DEF DocInv
<1>1. CASE UNCHANGED vars
  <2>1. /\ UNCHANGED <<uri, docs, versions, unpinned, writer, disturbed, homes>>
        /\ Chain' = Chain
    BY <1>1, ChainSame DEF vars
  <2>2. Entries' = Entries
    BY <2>1 DEF Entries, AssetsOf
  <2>3. Within' = Within
    BY <2>1, <2>2 DEF Within
  <2>4. Held' = Held /\ Doomed' = Doomed
    BY <2>1 DEF Held, Doomed
  <2>5. Fresh' = Fresh
    BY <2>1, <2>3, <2>4 DEF Fresh
  <2>6. TokensHouse' /\ Kept'
    BY <2>1, <2>2, <2>3, <2>4 DEF ManifestInv, TokensHouse, Kept, Live
  <2>7. \A w \in Writers : Houseful(w)' /\ Careful(w)'
    BY <2>1, <2>2, <2>3, <2>5 DEF ManifestInv, Houseful, Careful
  <2> QED
    BY <2>6, <2>7 DEF ManifestInv
<1>2. ASSUME NEW w \in Writers, Ends(w) PROVE ManifestInv'
  <2>1. /\ Moves(w, Idle) /\ UNCHANGED <<uri, docs, versions, disturbed, homes>>
        /\ Idle.at \notin {"targeted", "signing", "unpinning"}
        /\ \/ unpinned'.versions = unpinned.versions
           \/ /\ writer[w].at = "unpinning"
              /\ unpinned'.versions = unpinned.versions \cup Chain[writer[w].version]
    BY <1>2, EndsWritten DEF Idle
  <2> QED
    BY <2>1, ManifestEnds
<1>3. ASSUME NEW w \in Writers, NEW t \in Tokens, UnpinBurning(w, t) PROVE ManifestInv'
  <2>1. /\ Moves(w, [at |-> "burning", token |-> t])
        /\ UNCHANGED <<uri, docs, versions, disturbed, homes>>
        /\ unpinned'.versions = unpinned.versions
    BY <1>3, UnpinBurningWritten DEF UnpinBurning
  <2> QED
    BY <2>1, ManifestEnds
<1>4. ASSUME NEW w \in Writers, MineBurn(w) PROVE ManifestInv'
  <2>1. /\ Moves(w, Idle) /\ UNCHANGED <<docs, versions, unpinned, disturbed, homes>>
        /\ Idle.at \notin {"targeted", "signing", "unpinning"}
        /\ uri' = [uri EXCEPT ![writer[w].token] = None]
    BY <1>4 DEF MineBurn, Idle
  <2>2. \A t \in Tokens : uri'[t] \in {None, uri[t]}
    BY <2>1 DEF TableInv, Typed
  <2> QED
    BY <2>1, <2>2, ManifestEnds
<1>5. CASE Next
  BY <1>0, <1>2, <1>3, <1>4, <1>5, StepKinds, ManifestPublishes, ManifestAdds, ManifestMines
<1> QED
  BY <1>1, <1>5

LEMMA InitManifest == Init => ManifestInv
<1> SUFFICES ASSUME Init PROVE ManifestInv
  OBVIOUS
<1>1. TableInv /\ WrittenInv
  BY InitInv, InitWritten
<1>2. PICK minted \in Tokens :
          /\ uri = [t \in Tokens |-> IF t = minted THEN 1 ELSE None]
          /\ homes = [v \in VersionIds |-> IF v = 1 THEN {minted} ELSE {}]
  BY DEF Init
<1>3. PICK a \in Assets : versions = <<[asset |-> a, prev |-> None]>>
  BY DEF Init
<1>4. Len(versions) = 1 /\ 1 \in VersionIds
  BY <1>3, BoundsAssumption DEF VersionIds
<1>5. TokensHouse
  <2>1. ASSUME NEW t \in Tokens, NEW v \in Within[uri[t]] PROVE t \in homes[v]
    <3>1. uri[t] # None
      BY <1>1, <2>1, EntryFacts
    <3>2. t = minted
      BY <1>2, <3>1
    <3>3. v = 1
      BY <1>1, <1>4, <2>1, EntryFacts, UriTyped
    <3> QED
      BY <1>2, <1>4, <3>2, <3>3
  <2> QED
    BY <2>1 DEF TokensHouse
<1>6. \A w \in Writers : Houseful(w) /\ Careful(w)
  BY DEF Init, Idle, Houseful, Careful
<1>7. Doomed = {}
  BY DEF Init, Idle, Doomed
<1> QED
  BY <1>5, <1>6, <1>7 DEF ManifestInv, Kept

(* Why POST /ipfs/unpin spares what lives: a document belongs to one token   *)
(* and is unpinned only by a burn of that token, and a manifest that a       *)
(* deletion is about to unpin, with its earlier versions, was taken off its  *)
(* collection by the mined call before (asset-delete.ts).                    *)
THEOREM PinnedInvariant == Spec => [](DocInv /\ ManifestInv)
<1>1. Init => DocInv /\ ManifestInv
  BY InitDoc, InitManifest
<1>2. TableInv /\ WrittenInv /\ DocInv /\ ManifestInv /\ [Next]_vars => DocInv' /\ ManifestInv'
  BY DocStep, ManifestStep
<1> QED
  BY <1>1, <1>2, TableInvariant, WrittenInvariant, PTL DEF Spec

(* What a living collection lists stays pinned through the deletions and     *)
(* burns of asset-delete.ts, library-ops.ts and POST /ipfs/unpin, but for    *)
(* manifests another collection listed, blind replacements and burns not     *)
(* mined.                                                                    *)
THEOREM Pinned == Spec => []LiveContentIsPinned
<1>1. TableInv /\ WrittenInv /\ DocInv /\ ManifestInv => LiveContentIsPinned
  <2> SUFFICES ASSUME TableInv, WrittenInv, DocInv, ManifestInv, NEW t \in Live
               PROVE  /\ disturbed[t] = 0 => \A v \in Listed(t) \cap unpinned.versions : homes[v] # {t}
                      /\ uri[t] \in unpinned.docs =>
                            t \in burnFailed \/ \E w \in Writers : writer[w] = [at |-> "burning", token |-> t]
    BY DEF LiveContentIsPinned
  <2>1. Entries[uri[t]] = AssetsOf(uri[t])
    BY EntryFacts, UriTyped DEF Live
  <2>2. ASSUME disturbed[t] = 0, NEW v \in Listed(t) \cap unpinned.versions PROVE homes[v] # {t}
    <3>1. PICK a \in Assets : v = Entries[uri[t]][a] /\ v # None
      BY <2>1, <2>2 DEF Listed
    <3>2. v \in Doomed
      BY <2>2 DEF Doomed
    <3> QED
      BY <2>2, <3>1, <3>2 DEF ManifestInv, Kept
  <2>3. uri[t] \in unpinned.docs => Burnt(t)
    BY DEF DocInv, DocumentsPinned
  <2> QED
    BY <2>2, <2>3 DEF Burnt
<1> QED
  BY <1>1, TableInvariant, WrittenInvariant, PinnedInvariant, PTL
=============================================================================
