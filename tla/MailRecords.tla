----------------------------- MODULE MailRecords -----------------------------
(***************************************************************************)
(* What an expansion makes of the leaves of mail (_process_mail_container, *)
(* _process_mail_leaf): the parts of a container, and records whose ids    *)
(* must tell the leaves apart.                                             *)
(***************************************************************************)
EXTENDS Expansion, Mail

\* The leaves of mail as parts: nothing is declared, a leaf is as deep as the messages
\* around it.
PartsOf(leaves) ==
    [i \in DOMAIN leaves |->
        [body |-> leaves[i].body, declared |-> 0, most |-> 0, folder |-> 0,
         hops |-> Hops(leaves[i]), whole |-> leaves[i].whole]]

\* Why a leaf fails, if it does; the id of a failure has it hashed in.
Fate(leaf) ==
    IF Hops(leaf) > policy.depth THEN "depth" ELSE IF leaf.body = Undecoded THEN "undecoded" ELSE "kept"

\* Where the walk over a mailbox emits its leaves: message, position, turn.
Places(box) ==
    UNION { UNION { {<<i, pos, turn>> : turn \in DOMAIN MboxLeaves(box, i, pos)} :
                    pos \in DOMAIN box[i] } : i \in DOMAIN box }
LeafAt(box, place) == MboxLeaves(box, place[1], place[2])[place[3]]

\* Two leaves of one mailbox with the same nodes around them.
SameNodes(box, a, b) == a # b /\ LeafAt(box, a).ancestry = LeafAt(box, b).ancestry
TwinsOf(box) ==
    {<<LeafAt(box, t[1]), LeafAt(box, t[2])>> :
        t \in {u \in Places(box) \X Places(box) : SameNodes(box, u[1], u[2])}}
Twins == UNION {TwinsOf(box) : box \in Mailboxes}

\* No two leaves of a mailbox get the same record id under the policy at hand, however
\* multiparts and attached messages are nested and even if all names and bodies are
\* equal: one record would replace the other.  A position can stand for the id.
MailLeavesDistinct == \A pair \in Twins : Fate(pair[1]) # Fate(pair[2])
=============================================================================
