SPECIFICATION Spec
CONSTANTS
    b1 = b1
    b2 = b2
    Body = {b1, b2}
    Nothing = Nothing
    Keep = 2
    MaxTime = 5
INVARIANTS TypeOK VersionsBounded
PROPERTIES ImplementsRegister RetainsLatest
