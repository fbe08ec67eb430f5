CONSTANTS
    Keys = {0, 1, 2, 3}
    Values = {z, v}
    Zero = z
    WrongWidth = WrongWidth
    MaxEntries = 3
    MaxSeq = 6
SPECIFICATION Spec
INVARIANTS
    TypeOK
    IndexesAgree
    StampsBehindSeq
    WithinCapacity
PROPERTIES
    FailureChangesNothing
    ImplementsBpfMap
