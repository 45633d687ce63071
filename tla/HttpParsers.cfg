SPECIFICATION Spec
INVARIANTS
    CleanElements
    FieldWhole
    NoTrap
    AddressParts
PROPERTY
    ImplementsHead
CHECK_DEADLOCK FALSE
