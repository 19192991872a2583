---------------------------- MODULE MCDraftEdits ----------------------------
(* A linked child and one inserted as a copy. *)
EXTENDS DraftEdits, TLC

CONSTANTS link, copy, here, there

MCChildren == {link, copy}
MCCopies == {copy}
MCPositions == {here, there}

\* A behaviour is followed until something strays.
InStep == strayed = {}

Symmetry == Permutations(MCPositions)

=============================================================================
