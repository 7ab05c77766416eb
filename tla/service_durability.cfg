SPECIFICATION Spec
CONSTANTS
    a = a
    b = b
    p = p
    q = q
    t1 = t1
    t2 = t2
    x = x
    y = y
    Empty = Empty
    Missing = Missing
    Field = {a, b, p, q}
    Tokens = {t1, t2}
    Locations = {x, y}
    MaxLocations = 2
    Usernames <- PlainUsernames
    Passwords <- PlainPasswords
    Faults <- CrashOnly
SYMMETRY TokenSymmetry
INVARIANTS UsersFileListsAcked DiskMatchesMemory
PROPERTIES ImplementsAccounts
