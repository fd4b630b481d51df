CONSTANTS
    Tab = {x, y}
    x = x
    y = y
    Token = {"k1", "k2"}
    User = {"ann", "bob"}
    None = None
    UserOf <- MCUserOf
    NoticesMayBeLate = FALSE
    MaxInFlight = 1
SPECIFICATION FairSpec
INVARIANTS
    TabsFollowTheStore
PROPERTIES
    RestoringEnds
