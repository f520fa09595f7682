SPECIFICATION Spec
CONSTANTS
    Tasks = {t1, t2}
    None = None
    Users = {user1}
    Limits = {1}
    UserLimit = 2
    MaxRedeemed = 3
    MaxStock = 1
    Areas = {area}
    MaxWrites = 2
    Recipients = {user1, user2}
    Tokens = {token}
    Senders = {t1}
    Worker = worker
    MaxNotes = 2
    MaxReplies = 2
PROPERTY ResolvedStaysResolved
CHECK_DEADLOCK FALSE
