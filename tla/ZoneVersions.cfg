SPECIFICATION Spec
CONSTANTS
    n1 = n1
    t1 = t1
    t2 = t2
    t3 = t3
    None = None
    Nodes <- MCNodes
    Readers <- MCReaders
    Writers <- MCWriters
    MaxSerial = 4
    MaxHeaders = 3
SYMMETRY ReaderSymmetry
INVARIANTS Snapshots BoundStays LeastIsClean NodeReferences HiddenIsDirty
CHECK_DEADLOCK FALSE
