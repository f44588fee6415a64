CONSTANTS
    s1 = s1
    s2 = s2
    Slots <- MCSlots
    web = web
    app = app
    u1 = u1
    u2 = u2
    Clients <- MCClients
    WebClients <- MCWebClients
    Users <- MCUsers
    MaxInterval = 2
    Budgets <- MCBudgets
SYMMETRY Symmetry
SPECIFICATION Spec
INVARIANTS
    AcceptedOnce
    RunsAsOwner
    CaptchaUsedOnce
    LogoutEndsSession
