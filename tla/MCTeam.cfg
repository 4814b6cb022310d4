SPECIFICATION Spec
CONSTANTS
    None = None
    Handlers = {1, 2}
    boss = boss
    clerk = clerk
    rival = rival
    admin = admin
    fresh = fresh
    s1 = s1
    s2 = s2
    s3 = s3
    Accounts <- MCAccounts
    Sellers <- MCSellers
    Nonces = {1, 2}
    Chats <- MCChats
    Tied = {}
    World <- MCWorld
    Mixes <- MCMixes
INVARIANTS TeamsStand CardsStayInTheTeam TeamIsTold
CHECK_DEADLOCK FALSE
