SPECIFICATION FairSpec
CONSTANTS
    Users = {u1}
    Links = {l1, l2}
    Chats = {c1, c2}
    Handlers = {h1, h2}
    NoUser = NoUser
    NoLink = NoLink
    NoChat = NoChat
    NoMessage = NoMessage
    MaxFaults = 1
INVARIANTS
    TypeOK
    VoidLinksAreGone
PROPERTY StartIsServed
CHECK_DEADLOCK FALSE
