SPECIFICATION Spec
CONSTANTS
    Users = {u1, u2}
    Passwords = {p1, p2}
    None = None
    Tokens = {t1, t2, t3}
    Cookies = {s1, s2}
    Requests = {r1, r2}
    Scripts = {c1, c2}
    MaxParams = 1
SYMMETRY Symmetry
CHECK_DEADLOCK FALSE
INVARIANTS
    AtMostOneAdmin
    TokenWorksOnce
    
    PasswordIsLatest
    
    ErasureComplete
