SPECIFICATION EditsSpec
CONSTANTS
    link = link
    copy = copy
    here = here
    there = there
    Children <- MCChildren
    Copies <- MCCopies
    Positions <- MCPositions
    MaxUndo = 3
SYMMETRY Symmetry
CONSTRAINT InStep
INVARIANTS
    EditsTypeOK
    ViewIsWhatASaveWrites
    UndoLeadsBack
CHECK_DEADLOCK FALSE
