\* one caller, every sequence of calls
CONSTANTS
    Names = {reader, writer}
    Actions = {read, write, long, cut}
    Cut <- MCCut
    Unset = unset
    ROLE_ACTIONS_SIZE = 3
    UINT = 8
    Collections <- MCCollections
    MaxGiven = 3
    NoRole = norole
    NoRoles = noroles
    reader = reader
    writer = writer
    read = read
    write = write
    long = long
    cut = cut
SPECIFICATION Spec
INVARIANTS
    TypeOK
    HoldsWhatWasGiven
    GrantsNothingElse
    SearchSaysWhatIsStored
