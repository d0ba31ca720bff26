CONSTANTS
    alice = alice
    bob = bob
    Sides <- MCSides
    Readers <- MCReaders
    Letters = {l1, l2}
    Pollers = {p1, p2}
    MaxCommands <- MCMaxCommands
SYMMETRY Symmetry
SPECIFICATION Spec
INVARIANTS RollbackStillWorks CommitIsMutualAndFinal LegacyStoredOnce
CHECK_DEADLOCK FALSE
