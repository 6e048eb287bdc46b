SPECIFICATION MCSpec
CONSTANTS
    Phones = {p1, p2}
    RequestIds = {q1, q2}
    Requests = {c1, c2}
    None = None
    root = "ADMIN"
    child = "ADMIN_LIST"
    NoParent = NoParent
    Modules = {"ADMIN"}
    ParentOf <- MCRoot
    Actions = {"VIEW"}
    Settings = {"smtp_host"}
    AppTables = {"admins"}
    Catalogue <- MCCatalogue
    Commands = {c1, c2}
    MaxStarts = 2
    MaxEdits = 1
    Accounts = {p1, p2}
    Handlers = {c1, c2}
    mail = mail
    phone1 = phone1
    phone2 = phone2
    google1 = google1
    google2 = google2
    apple = apple
    Emails = {mail}
    PhoneNumbers = {phone1, phone2}
    GoogleIds = {google1, google2}
    AppleIds = {apple}
    Payloads <- MCPayloads
    NewUsers <- MCNewUsers
    Changes <- MCChanges
    Null = Null
SYMMETRY MCSymmetry
VIEW MCView
CHECK_DEADLOCK FALSE
INVARIANT TypeOK
INVARIANT PhoneProven
INVARIANT CodeProven
PROPERTY OneAccountPerCode
INVARIANT SeedTypeOK
INVARIANT CompletedIsComplete
INVARIANT ResetIsExact
INVARIANT LoneSeederSucceeds
INVARIANT IdentityTypeOK
INVARIANT LinkedIsFound
INVARIANT EmailWasFree
PROPERTY WritesFollowPhoneBook
