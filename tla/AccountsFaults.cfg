SPECIFICATION Spec
SYMMETRY Symmetry
CONSTRAINT FewOverlaps
CONSTANTS
    r1 = r1
    r2 = r2
    a = a
    b = b
    t1 = t1
    t2 = t2
    Null = Null
    Requests = {r1, r2}
    Users = {a, b}
    Tokens = {t1, t2}
    Changes <- OneField
INVARIANTS
    AccountsTypeOK
    OnlyActiveServed
    RevocationIsComplete
PROPERTIES
    AdminRemains
