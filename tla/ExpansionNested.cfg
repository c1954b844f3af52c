SPECIFICATION Spec
CONSTANTS
    NoBody = NoBody
    Undecoded = NoBody
    Mailboxes <- MCMailboxes
    small = small
    large = large
    pack = pack
    nest = nest
    liar = liar
    torn = torn
    refused = refused
    quine = quine
    reply = reply
    letter = letter
    note = note
    box = box
    crate = crate
    solid = solid
    seven = seven
    rotten = rotten
    roll = roll
    Content = {small, large, pack, nest, liar, torn, refused, quine, reply, letter, note, box, crate, solid, seven, rotten, roll}
    Size <- MCSize
    Shape <- MCShape
    Parts <- MCParts
    Unsafe <- MCUnsafe
    Broken <- MCBroken
    Unrolled <- MCUnrolled
    Policies <- AllPolicies
    Sources <- AllSources
    Mishaps = 1
INVARIANTS
    TypeOK
    FailureHasOwner
    ChargesAccounted
    RecursionBounded
    InsideExpanded
    AllOrNothing
    NothingLost
    JournalHolds
    PrivateReleased
    PrivateBounded
    MailLeavesDistinct
PROPERTIES
    RecordsStay
