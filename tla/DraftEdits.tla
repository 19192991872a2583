----------------------------- MODULE DraftEdits -----------------------------
(***************************************************************************)
(* The unsaved edits of the asset in the Studio: nested assets inserted    *)
(* and unlinked (scene-loader.ts, child-remove.ts), parts removed          *)
(* (part-remove.ts), nodes moved (transform-commit.ts), the undo and redo  *)
(* stacks over them (undo-stack.ts, undo-controller.ts), and the save that *)
(* writes them while editing goes on (manifest-builder.ts).                *)
(*                                                                         *)
(* An edit is staged beside the manifest and shown at once; a save copies  *)
(* some of the staged edits when it begins, reads the others later, and    *)
(* clears them when the manifest is written.                               *)
(***************************************************************************)
EXTENDS Naturals, SequencesExt

CONSTANTS
    Children,   \* node ids of nested assets
    Copies,     \* those inserted as a copy, with no child_ref once saved
    Positions,  \* transforms of the one node that is moved
    MaxUndo     \* MAX_UNDO: entries the undo stack keeps

ASSUME ConstantsAssumption ==
    /\ Copies \subseteq Children
    /\ "nowhere" \notin Positions
    /\ MaxUndo \in Nat \ {0}

VARIABLES
    manifest,   \* currentManifest: the version last saved or loaded
    pending,    \* the staged edits: refs, removals, part, pos
    view,       \* what the viewport shows
    opened,     \* history: what it showed before the first undoable edit
    undoStack,
    redoStack,
    inserts,    \* the drop of each child: not yet, resolving, loading, over
    reloads,    \* reloads of a child under way: which, watched, tracked
    save,       \* the save that may be under way
    strayed     \* history: what one of the cases below took out of step

editVars == <<manifest, pending, view, opened, undoStack, redoStack, inserts, reloads, save, strayed>>

\* One model with a part that can be removed, and one node that can be moved.
Part == "part"
Node == "node"
Nowhere == "nowhere"

Contents == [children : SUBSET Children, part : BOOLEAN, pos : Positions]

Entry ==
    [type : {"child"}, child : Children, fromPending : BOOLEAN]
    \cup [type : {"part"}]
    \cup [type : {"move"}, before : Positions, after : Positions]

Nothing == [refs |-> {}, removals |-> {}, part |-> FALSE, pos |-> Nowhere]
NotSaving == [at |-> "idle"]
NoReload == [flying |-> {}, watched |-> {}, tracked |-> 0]

EditsInit ==
    /\ \E cs \in SUBSET Children, p \in Positions :
        manifest = [children |-> cs, part |-> TRUE, pos |-> p]
    /\ view = manifest
    /\ opened = manifest
    /\ pending = Nothing
    /\ undoStack = <<>>
    /\ redoStack = <<>>
    /\ inserts = [c \in Children |-> IF c \in manifest.children THEN "over" ELSE "not yet"]
    /\ reloads = [c \in Children |-> NoReload]
    /\ save = NotSaving
    /\ strayed = {}

---------------------------------------------------------------------------
(* The undo stack.                                                         *)

\* The view an entry's edit gives, and the one it was made on.
After(v, e) ==
    CASE e.type = "child" -> [v EXCEPT !.children = @ \ {e.child}]
      [] e.type = "part" -> [v EXCEPT !.part = FALSE]
      [] e.type = "move" -> [v EXCEPT !.pos = e.after]

Before(v, e) ==
    CASE e.type = "child" -> [v EXCEPT !.children = @ \cup {e.child}]
      [] e.type = "part" -> [v EXCEPT !.part = TRUE]
      [] e.type = "move" -> [v EXCEPT !.pos = e.before]

(* Mutant: an edit leaves what had been undone on the redo stack. *)
PushKeepsRedo(e) ==
    /\ undoStack' = IF Len(undoStack) = MaxUndo THEN Append(Tail(undoStack), e) ELSE Append(undoStack, e)
    /\ opened' = IF Len(undoStack) = MaxUndo THEN After(opened, Head(undoStack)) ELSE opened
    /\ redoStack' = redoStack

\* pushUndoEntry
Push(e) ==
    /\ undoStack' = IF Len(undoStack) = MaxUndo THEN Append(Tail(undoStack), e) ELSE Append(undoStack, e)
    /\ opened' = IF Len(undoStack) = MaxUndo THEN After(opened, Head(undoStack)) ELSE opened
    /\ redoStack' = <<>>

---------------------------------------------------------------------------
(* What a save takes: the refs and the parts are copied when it begins,    *)
(* the removals and the transforms read when it comes to them.             *)

Saving == save # NotSaving

TooLateFor(type) ==
    \/ type = "part" /\ save.at \in {"baking", "moving", "writing"}
    \/ type = "ref" /\ save.at \in {"baking", "moving", "writing"}
    \/ type = "removal" /\ save.at \in {"moving", "writing"}
    \/ type = "move" /\ save.at = "writing"

Late(type, e) == IF TooLateFor(type) THEN {e} ELSE {}

---------------------------------------------------------------------------
(* Moving a node.                                                          *)

\* stageNodeTransform
Stage(p) ==
    /\ view' = [view EXCEPT !.pos = p]
    /\ pending' = [pending EXCEPT !.pos = p]
    /\ strayed' = strayed \cup Late("move", Node)

\* commitTransformChange
Move ==
    /\ \E p \in Positions \ {view.pos} :
        /\ Stage(p)
        /\ Push([type |-> "move", before |-> view.pos, after |-> p])
    /\ UNCHANGED <<manifest, inserts, reloads, save>>

---------------------------------------------------------------------------
(* Removing a part.                                                        *)

\* stageRemoval
StageRemoval ==
    /\ view' = [view EXCEPT !.part = FALSE]
    /\ pending' = [pending EXCEPT !.part = TRUE]
    /\ strayed' = strayed \cup Late("part", Part)

\* restorePart: of a removal that has been saved there is nothing to take back.
RestorePart ==
    /\ view' = [view EXCEPT !.part = TRUE]
    /\ pending' = [pending EXCEPT !.part = FALSE]
    /\ strayed' = strayed \cup Late("part", Part) \cup (IF pending.part THEN {} ELSE {Part})

RemovePart ==
    /\ view.part
    /\ StageRemoval
    /\ Push([type |-> "part"])
    /\ UNCHANGED <<manifest, inserts, reloads, save>>

---------------------------------------------------------------------------
(* Inserting a child.                                                      *)

\* handleLinkedAssetDropped: the child is resolved, pushed and loaded.
Drop(c) ==
    /\ inserts[c] = "not yet"
    /\ inserts' = [inserts EXCEPT ![c] = "resolving"]
    /\ UNCHANGED <<manifest, pending, view, opened, undoStack, redoStack, reloads, save, strayed>>

Inserting(c) ==
    /\ inserts[c] = "resolving"
    /\ inserts' = [inserts EXCEPT ![c] = "loading"]
    /\ pending' = [pending EXCEPT !.refs = @ \cup {c}]
    /\ UNCHANGED <<manifest, view, opened, undoStack, redoStack, reloads, save, strayed>>

Unresolved(c) ==
    /\ inserts[c] = "resolving"
    /\ inserts' = [inserts EXCEPT ![c] = "over"]
    /\ UNCHANGED <<manifest, pending, view, opened, undoStack, redoStack, reloads, save, strayed>>

\* The child appears; an insertion is no entry of the undo stack.
Inserted(c) ==
    /\ inserts[c] = "loading"
    /\ inserts' = [inserts EXCEPT ![c] = "over"]
    /\ view' = [view EXCEPT !.children = @ \cup {c}]
    /\ opened' = [opened EXCEPT !.children = @ \cup {c}]
    /\ UNCHANGED <<manifest, pending, undoStack, redoStack, reloads, save, strayed>>

\* The rollback of a load that failed; a save may have copied the ref, or have
\* written it.
InsertFails(c) ==
    /\ inserts[c] = "loading"
    /\ inserts' = [inserts EXCEPT ![c] = "over"]
    /\ pending' = [pending EXCEPT !.refs = @ \ {c}]
    /\ strayed' = strayed \cup Late("ref", c) \cup (IF c \in pending.refs THEN {} ELSE {c})
    /\ UNCHANGED <<manifest, view, opened, undoStack, redoStack, reloads, save>>

---------------------------------------------------------------------------
(* Unlinking a child.                                                      *)

\* unlinkChildAssetNode finds it among the pending refs or in the manifest.
Linked(c) == c \in pending.refs \/ (c \in manifest.children /\ c \notin Copies)

\* _disposeAfterPendingReload: the tracked reload is watched.
Unlink(c) ==
    /\ view' = [view EXCEPT !.children = @ \ {c}]
    /\ pending' = IF c \in pending.refs
                  THEN [pending EXCEPT !.refs = @ \ {c}]
                  ELSE [pending EXCEPT !.removals = @ \cup {c}]
    /\ reloads' = [reloads EXCEPT ![c].watched = @ \cup ({reloads[c].tracked} \ {0})]
    /\ strayed' = strayed \cup Late(IF c \in pending.refs THEN "ref" ELSE "removal", c)

RemoveChild(c) ==
    /\ c \in view.children
    /\ Linked(c)
    /\ Unlink(c)
    /\ Push([type |-> "child", child |-> c, fromPending |-> c \in pending.refs])
    /\ UNCHANGED <<manifest, inserts, save>>

\* reinsertChildAssetNode: the pending ref, or the manifest's node, is back,
\* and a reload starts and is the one tracked.  The entry says which, as of its
\* first time: a save since may have consumed the mark of the removal, or have
\* turned the pending ref into a node of the manifest.
Reinsert(e) ==
    LET c == e.child
        free == {n \in 1 .. 2 : n \notin reloads[c].flying}
        n == CHOOSE k \in free : TRUE
    IN
    /\ free # {}
    /\ pending' = IF e.fromPending
                  THEN [pending EXCEPT !.refs = @ \cup {c}]
                  ELSE [pending EXCEPT !.removals = @ \ {c}]
    /\ reloads' = [reloads EXCEPT ![c] = [flying |-> @.flying \cup {n}, watched |-> @.watched \ {n}, tracked |-> n]]
    /\ strayed' = strayed
                  \cup Late(IF e.fromPending THEN "ref" ELSE "removal", c)
                  \cup (IF e.fromPending <=> c \notin pending.removals THEN {} ELSE {c})
                  \cup (IF reloads[c].flying = {} THEN {} ELSE {c})
    /\ view' = view

\* _isUnlinked
IsUnlinked(c) == c \in pending.removals \/ c \notin pending.refs

(* Mutant: a reload that is over stays tracked. *)
SettledStaysTracked(r, n) == [r EXCEPT !.flying = @ \ {n}, !.watched = @ \ {n}]

\* A reload is over; its own callback forgets the tracked one, whichever it is.
SettledReload(r, n) == [flying |-> r.flying \ {n}, watched |-> r.watched \ {n}, tracked |-> 0]

\* The reloaded child appears, unless a watcher finds it unlinked again.
Reloaded(c, n) ==
    /\ n \in reloads[c].flying
    /\ reloads' = [reloads EXCEPT ![c] = SettledReload(@, n)]
    /\ view' = IF n \in reloads[c].watched /\ IsUnlinked(c)
               THEN [view EXCEPT !.children = @ \ {c}]
               ELSE [view EXCEPT !.children = @ \cup {c}]
    /\ UNCHANGED <<manifest, pending, opened, undoStack, redoStack, inserts, save, strayed>>

---------------------------------------------------------------------------
(* Undo and redo.                                                          *)

UndoEdit(e) ==
    CASE e.type = "child" -> Reinsert(e)
      [] e.type = "part" -> RestorePart /\ UNCHANGED reloads
      [] e.type = "move" -> Stage(e.before) /\ UNCHANGED reloads

\* A child that is found nowhere stays as it is.
RedoEdit(e) ==
    CASE e.type = "child" /\ Linked(e.child) -> Unlink(e.child)
      [] e.type = "child" /\ ~ Linked(e.child) ->
            /\ strayed' = strayed \cup {e.child}
            /\ UNCHANGED <<view, pending, reloads>>
      [] e.type = "part" -> StageRemoval /\ UNCHANGED reloads
      [] e.type = "move" -> Stage(e.after) /\ UNCHANGED reloads

Undo ==
    /\ undoStack # <<>>
    /\ UndoEdit(Last(undoStack))
    /\ undoStack' = Front(undoStack)
    /\ redoStack' = Append(redoStack, Last(undoStack))
    /\ UNCHANGED <<manifest, opened, inserts, save>>

Redo ==
    /\ redoStack # <<>>
    /\ RedoEdit(Last(redoStack))
    /\ redoStack' = Front(redoStack)
    /\ undoStack' = Append(undoStack, Last(redoStack))
    /\ UNCHANGED <<manifest, opened, inserts, save>>

---------------------------------------------------------------------------
(* A save.                                                                 *)

\* It waits for the drops under way when it is called, not for later ones.
BeginSave ==
    /\ ~ Saving
    /\ save' = [at |-> "waiting", drops |-> {c \in Children : inserts[c] \in {"resolving", "loading"}}]
    /\ UNCHANGED <<manifest, pending, view, opened, undoStack, redoStack, inserts, reloads, strayed>>

Copy ==
    /\ save.at = "waiting"
    /\ \A c \in save.drops : inserts[c] = "over"
    /\ save' = [at |-> "baking", refs |-> pending.refs, part |-> pending.part]
    /\ UNCHANGED <<manifest, pending, view, opened, undoStack, redoStack, inserts, reloads, strayed>>

\* applyPendingChildRefs, with the removals of now.
Bake ==
    /\ save.at = "baking"
    /\ save' = [at |-> "moving", refs |-> save.refs,
                children |-> (manifest.children \cup save.refs) \ pending.removals,
                part |-> manifest.part /\ ~ save.part]
    /\ UNCHANGED <<manifest, pending, view, opened, undoStack, redoStack, inserts, reloads, strayed>>

\* applyTransformEdits, with the transforms of now.
ApplyTransforms ==
    /\ save.at = "moving"
    /\ save' = [at |-> "writing", refs |-> save.refs,
                written |-> [children |-> save.children, part |-> save.part,
                             pos |-> IF pending.pos = Nowhere THEN manifest.pos ELSE pending.pos]]
    /\ UNCHANGED <<manifest, pending, view, opened, undoStack, redoStack, inserts, reloads, strayed>>

(* Mutant: the trailing clear drops the refs no save has written, too. *)
LeftPendingAfterNone(refs) == Nothing

\* The trailing clears: of the refs only those that were written go.
LeftPendingAfter(refs) == [Nothing EXCEPT !.refs = pending.refs \ refs]

\* recordSavedVersion, or the no-change outcome, and the clears.
Saved ==
    /\ save.at = "writing"
    /\ manifest' = save.written
    /\ pending' = LeftPendingAfter(save.refs)
    /\ save' = NotSaving
    /\ UNCHANGED <<view, opened, undoStack, redoStack, inserts, reloads, strayed>>

\* The manifest that was being prepared is dropped, the staged edits stay.
SaveFails ==
    /\ Saving
    /\ save' = NotSaving
    /\ UNCHANGED <<manifest, pending, view, opened, undoStack, redoStack, inserts, reloads, strayed>>

EditsNext ==
    \/ Move \/ RemovePart \/ Undo \/ Redo
    \/ \E c \in Children :
        \/ Drop(c) \/ Inserting(c) \/ Unresolved(c) \/ Inserted(c) \/ InsertFails(c)
        \/ RemoveChild(c)
        \/ \E n \in 1 .. 2 : Reloaded(c, n)
    \/ BeginSave \/ Copy \/ Bake \/ ApplyTransforms \/ Saved \/ SaveFails

EditsSpec == EditsInit /\ [][EditsNext]_editVars

---------------------------------------------------------------------------
(* Properties.                                                             *)

Settled(c) == reloads[c].flying = {} /\ inserts[c] # "loading"

\* What the next save would write.
WouldWrite ==
    [children |-> (manifest.children \cup pending.refs) \ pending.removals,
     part |-> manifest.part /\ ~ pending.part,
     pos |-> IF pending.pos = Nowhere THEN manifest.pos ELSE pending.pos]

Agree(v, w) ==
    /\ \A c \in Children \ strayed : Settled(c) => (c \in v.children <=> c \in w.children)
    /\ Part \notin strayed => v.part = w.part
    /\ Node \notin strayed => v.pos = w.pos

\* The shapes of the state: no child is both inserted and removed, a reload
\* that is watched or tracked is under way, and the undo stack keeps its bound.
EditsTypeOK ==
    /\ manifest \in Contents /\ view \in Contents /\ opened \in Contents
    /\ pending \in [refs : SUBSET Children, removals : SUBSET Children,
                    part : BOOLEAN, pos : Positions \cup {Nowhere}]
    /\ pending.refs \cap pending.removals \subseteq strayed
    /\ undoStack \in Seq(Entry) /\ redoStack \in Seq(Entry)
    /\ Len(undoStack) + Len(redoStack) <= MaxUndo
    /\ inserts \in [Children -> {"not yet", "resolving", "loading", "over"}]
    /\ reloads \in [Children -> [flying : SUBSET (1 .. 2), watched : SUBSET (1 .. 2), tracked : 0 .. 2]]
    /\ \A c \in Children : reloads[c].watched \cup ({reloads[c].tracked} \ {0}) \subseteq reloads[c].flying

\* What the viewport shows is what the next save writes, whatever was edited,
\* undone or dropped while an earlier save was writing: the copies that
\* manifest-builder.ts:743-752 makes are there for that.
ViewIsWhatASaveWrites == Agree(view, WouldWrite)

\* Undoing every edit that is on the stack leads back to the view before the
\* oldest of them, over saves and redone edits (undo-stack.ts:1-5).
UndoLeadsBack ==
    LET undone[k \in 0 .. Len(undoStack)] ==
            IF k = Len(undoStack) THEN view
            ELSE Before(undone[k + 1], undoStack[k + 1])
    IN  Agree(undone[0], opened)

\* "A part removed while this save writes stays pending", as
\* manifest-builder.ts:750 has it: a part that is no longer shown is not in the
\* manifest, or its removal is staged.  The trailing clear forgets it.
RemovedPartStaysRemoved == ~ view.part /\ ~ Saving => ~ WouldWrite.part

=============================================================================
