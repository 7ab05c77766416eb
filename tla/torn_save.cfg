SPECIFICATION Spec
CONSTANTS
    a = a
    b = b
    p = p
    q = q
    t1 = t1
    t2 = t2
    x = x
    Empty = Empty
    Missing = Missing
    Field = {a, b, p, q}
    Tokens = {t1, t2}
    Locations = {x}
    MaxLocations = 1
    Usernames <- PlainUsernames
    Passwords <- PlainPasswords
    Faults <- TornSave
SYMMETRY TokenSymmetry
INVARIANT UsersFileListsAcked
