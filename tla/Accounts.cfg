\* Two requests at a time over one connection, and a name that is given away
\* again: two accounts, two passwords.
CONSTANTS
    s1 = s1
    s2 = s2
    n0 = n0
    n1 = n1
    p = p
    q = q
    Placeholder = Placeholder
    Slots <- MCSlots
    Names <- MCNames
    Passwords <- MCPasswords
    SeedName <- MCSeedName
    HowMany = 1
    PoolSize = 1
    MaxAccounts = 2
SPECIFICATION Spec
INVARIANTS
    TypeOK
    OneUserPerName
    IdentityIsProven
    CreatedIsYours
PROPERTY EveryoneAnswered
