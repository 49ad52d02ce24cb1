SPECIFICATION ASpec
CONSTANTS
    dAdmin = dAdmin
    dUser = dUser
    u1 = u1
    u2 = u2
    adminTest = adminTest
    userTest = userTest
    own = own
    bad = bad
    Clients = {c1, c2}
    Ids = {dAdmin, dUser, u1, u2}
    DummyId <- MCDummyId
    Boxes = {adminTest, userTest, own, bad}
    BadBoxes = {bad}
    DummyBox <- MCDummyBox
    Spellings <- MCSpellings
    Passwords = {"long enough", "short"}
    GoodPasswords = {"long enough"}
    TTL = 1
    MaxTime = 1
    MaxRestarts = 1
    None = None
INVARIANTS AInv TokensNameUsers RoomsByAdmins NoAdminWithoutTestMode AccountsCanLogIn SeedIsHonest
PROPERTIES DummiesEnd
SYMMETRY Interchangeable
