SPECIFICATION SeedSpec
CONSTANTS
    root = "ADMIN"
    child = "ADMIN_LIST"
    NoParent = NoParent
    Modules = {"ADMIN", "ADMIN_LIST"}
    ParentOf <- MCParentOf
    Actions = {"VIEW"}
    Settings = {"smtp_host"}
    AppTables = {"admins"}
    Catalogue <- MCCatalogue
    Commands = {c1}
    MaxStarts = 1
    MaxEdits = 0
CHECK_DEADLOCK FALSE
INVARIANT SeedSeedsEverything
