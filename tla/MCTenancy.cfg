CONSTANTS
    r1 = r1 r2 = r2 j1 = j1
    admin = admin u1 = u1 u2 = u2
    c1 = c1 c2 = c2 k1 = k1
    Users = {admin, u1, u2}
    Admin = admin
    Slots = {r1, r2, j1}
    ProcessOf <- MCProcessOf
    Conns = {c1, c2, k1}
    PoolOf <- MCPoolOf
    None = None
    MaxKek = 2
    MaxBoots = 3
SPECIFICATION Spec
SYMMETRY Symmetry
INVARIANTS OwnRowsOnly AccountsOfOthersForAdmin KeyWithAccount OnlyLateKeysLeftBehind
CHECK_DEADLOCK FALSE
