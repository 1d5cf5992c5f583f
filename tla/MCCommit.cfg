SPECIFICATION Spec
CONSTANT
    MaxIds = 2
INVARIANTS
    TypeOK
    OnlyUnversionedDangle
PROPERTIES
    ImplementsAtomicInteractions
