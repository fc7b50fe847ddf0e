SPECIFICATION HookSpec
CONSTANTS
    Primitives = {erc721, effectstream}
    L2 = {effectstream}
    Refreshes = {f1, f2}
    Null = Null
INVARIANT ColumnsFollowSchema
PROPERTIES KeepsWhatItShowed InitialLoadEnds
