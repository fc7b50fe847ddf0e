SPECIFICATION Spec
CONSTANTS
    Tokens = {t1}
    Names = {name}
    Values = {v1}
    Owners = {alice}
    User = alice
    NameProperty = name
    Contracts = {erc721, other}
    Erc721 = erc721
    NoOwner = NoOwner
    Unset = Unset
    Blank = Blank
    DbFails = TRUE
    ApiFails = TRUE
    MaxTransfers = 1
    MaxSets = 1
    Loads = {l1, l2}
    Confirms = {c1}
    Polls = 1
INVARIANT ValidIsMinted
PROPERTIES RegistrySpec ButtonsComeBack PageCatchesUp
CHECK_DEADLOCK FALSE
