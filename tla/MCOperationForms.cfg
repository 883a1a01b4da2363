CONSTANTS
    Operations <- MCOperations
    ManifestClass <- Classification
SPECIFICATION Spec
INVARIANTS
    ReadStaysRead
    DestructiveStaysDestructive
