SPECIFICATION FairSpec
CONSTANT Canonical <- SixStages
INVARIANTS OneLoop OutOfOrderIsLate
PROPERTY DiagramSettles
