SPECIFICATION Spec
INVARIANTS
    StoreInv
PROPERTIES
    SavedLatchSurvives
    RemovalSurvives
