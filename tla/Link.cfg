SPECIFICATION Spec
CONSTANTS
    b1 = b1  b2 = b2  r1 = r1  r2 = r2  u1 = u1  u2 = u2
    d1 = d1  d2 = d2  repo = repo  l1 = l1  l2 = l2
    Browsers = {b1, b2}
    Requests = {r1, r2}
    Links = {l1, l2}
    Users = {u1, u2}
    Accounts = {d1, d2}
    Repositories = {repo}
    Author <- LinkAuthor
    Repository <- LinkRepository
    NoAccount = NoAccount
    NoBrowser = NoBrowser
    MaxNonces = 4
SYMMETRY LinkSymmetry
INVARIANTS
    TypeOK
    OneUserPerAccount
PROPERTIES
    ConnectionsEarned
    SpentForGood
    LinksAsPromised
