CONSTANTS
    Accounts = {deployer, reenterer}
    Contracts = {reenterer}
    Owner = deployer
    Midnights = {midnight}
    Epochs = {2, 3}
    Conditions = {condition}
    Sizes = {0, 1, 2}
    Crossed = {0}
    MaxDeposits = 3
    MaxSettlements = 2
    MaxDepth = 2
SPECIFICATION Spec
INVARIANTS BooksBalance SettledOnce CommittedIsAccountedFor EveryLayerSound ExactReleasesAreBacked
