SPECIFICATION Spec
CONSTANTS
    NoBody = NoBody
    Undecoded = NoBody
    Mailboxes <- MCMailboxes
    small = small
    large = large
    pack = pack
    nest = nest
    liar = liar
    torn = torn
    refused = refused
    quine = quine
    reply = reply
    letter = letter
    note = note
    box = box
    crate = crate
    solid = solid
    seven = seven
    rotten = rotten
    roll = roll
    Content = {small, large, pack}
    Size <- MCSize
    Shape <- MCShape
    Parts <- MCParts
    Unsafe <- MCUnsafe
    Broken <- MCBroken
    Unrolled <- MCUnrolled
    Policies <- LoosePolicy
    Sources <- PackSource
    Mishaps = 2
INVARIANTS
    AllOrNothing
