SPECIFICATION LiveSpec
CONSTANTS
    h1 = h1
    h2 = h2
    o1 = o1
    o2 = o2
    Objs = {o1}
    Nobody = Nobody
    NDBuf = 2
    SizeofDeferred = 48
    HeapCells <- MCTwoHeap
    Cells <- MCCellsTwo
INVARIANTS
    CellsAccounted
    PendingForLiving
    FlagMeansPending
PROPERTY PendingSettles
