SPECIFICATION Spec
CONSTANTS
    root = root
    sub = sub
    away = away
    inner = inner
    one = one
    two = two
    mbox = mbox
    secret = secret
    spool = spool
    fifo = fifo
    absent = absent
    Root = root
    Dirs <- MCDirs
    Files <- MCFiles
    Specials = {fifo}
    Nothing = absent
    Outside <- MCOutside
    Names <- TwinNames
    Trees <- TwinTrees
    Swaps = {}
    MaxSwaps = 0
    Platforms = {"posix", "nt"}
    Folded <- TwinFolded
    Composed <- TwinFolded
    Original <- TwinOriginal
    Mailboxes = {mbox, spool}
    Containers = {inner}
    Givens <- DirectoryGiven
INVARIANTS
    EveryEntryRecorded
