SPECIFICATION FairSpec
CONSTANTS
    root = root
    sub = sub
    away = away
    inner = inner
    one = one
    two = two
    mbox = mbox
    secret = secret
    spool = spool
    fifo = fifo
    absent = absent
    Root = root
    Dirs <- MCDirs
    Files <- MCFiles
    Specials = {fifo}
    Nothing = absent
    Outside <- MCOutside
    Names <- MCNames
    Trees <- MCTrees
    Swaps <- MCSwaps
    MaxSwaps = 2
    Platforms = {"posix", "nt"}
    Folded <- MCFolded
    Composed <- MCComposed
    Original <- MCOriginal
    Mailboxes = {mbox, spool}
    Containers = {inner}
    Givens <- MCGivens
INVARIANTS
    TypeOK
    ReadConfined
    InventoryInOrder
    EveryEntryRecorded
    SnapshotsWhole
PROPERTIES
    IntakeEnds
