CONSTANTS
    Tab = {x, y}
    x = x
    y = y
    Token = {"k1", "k2"}
    User = {"ann", "bob"}
    None = None
    UserOf <- MCUserOf
    NoticesMayBeLate = TRUE
    MaxInFlight = 2
SPECIFICATION Spec
INVARIANTS
    SignOutIsHeard
