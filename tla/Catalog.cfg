\* Creations, renames and deletions of two users' products, four at a time.
SPECIFICATION Spec
CONSTANTS
    staff = staff
    admin = admin
    p1 = p1
    p2 = p2
    p3 = p3
    tape = tape
    Tape = Tape
    box = box
    Users = {staff, admin}
    Admins = {admin}
    Ids = {p1, p2, p3}
    Skus = {tape, Tape, box}
    Normal <- MCNormal
    Requests = {r1, r2, r3, r4}
    Asks <- MCAsks
    Keep = Keep
    Nothing = Nothing
    NoRow = NoRow
SYMMETRY Symmetry
CHECK_DEADLOCK FALSE
INVARIANTS
    SkuUnique
PROPERTIES
    HistoryKept
    ChangedByRight
    ConflictHasCause
