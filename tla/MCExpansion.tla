---------------------------- MODULE MCExpansion -----------------------------
(***************************************************************************)
(* Instances of Expansion for TLC.                                         *)
(***************************************************************************)
EXTENDS MailRecords

CONSTANTS
    small, large,   \* plain files of one and three bytes
    pack,           \* a ZIP with both
    nest,           \* a TAR with pack, twice, and a plain file
    liar,           \* a ZIP that declares less than it holds
    torn,           \* a ZIP whose last member does not match its checksum
    refused,        \* a ZIP with a link in it
    quine,          \* a ZIP that contains itself
    reply,          \* a message with pack and a part that cannot be decoded
    letter,         \* a message with text, reply attached and a plain file
    note,           \* a message that is a plain file and nothing else
    box,            \* an mbox with a message of pack and letter, one without headers, note
    crate,          \* a ZIP with box and nest
    solid,          \* a 7z of one folder, with more in it than it declares
    seven,          \* a 7z of two folders, likewise
    rotten,         \* a 7z whose last member does not match its checksum
    roll            \* a TAR with solid and a plain file in a zstandard stream

Packed(c, declared, most, folder) ==
    [body |-> c, declared |-> declared, most |-> most, folder |-> folder, hops |-> 1, whole |-> FALSE]
Member(c, declared) == Packed(c, declared, 3, 0)

\* Messages, and what their walk makes of them.
File(c) == Node("part", c, <<>>)
Text == Node("display", small, <<>>)
ReplyMessage == Node("multipart", reply, <<File(Undecoded), File(pack)>>)
LetterMessage == Node("multipart", letter, <<Text, Node("rfc822", letter, <<ReplyMessage>>), File(small)>>)
NoteMessage == Node("part", small, <<>>)
BoxMessages ==
    << Node("multipart", large, <<File(pack), File(letter)>>), Node("bytes", small, <<>>), NoteMessage >>

\* Each walked once.
ReplyLeaves == IterMessage(ReplyMessage)
LetterLeaves == IterMessage(LetterMessage)
NoteLeaves == IterMessage(NoteMessage)
BoxLeaves == IterMbox(BoxMessages)

MCSize == [c \in Content |-> IF c = large THEN 3 ELSE IF c = nest THEN 2 ELSE 1]

MCShape ==
    [c \in Content |->
        CASE c \in {small, large} -> "plain"
          [] c = nest -> "tar"
          [] c \in {reply, letter, note} -> "message"
          [] c = box -> "mbox"
          [] c \in {solid, seven, rotten} -> "7z"
          [] c = roll -> "zst"
          [] OTHER -> "zip"]

MCParts ==
    [c \in Content |->
        CASE c \in {pack, torn, refused} -> <<Member(small, 1), Member(large, 3)>>
          [] c = nest -> <<Member(pack, 1), Member(pack, 1), Member(small, 1)>>
          [] c = liar -> <<Member(large, 1), Member(large, 1)>>
          [] c = quine -> <<Member(quine, 1), Member(small, 1)>>
          [] c = reply -> PartsOf(ReplyLeaves)
          [] c = letter -> PartsOf(LetterLeaves)
          [] c = note -> PartsOf(NoteLeaves)
          [] c = box -> PartsOf(BoxLeaves)
          [] c = crate -> <<Member(box, 1), Member(nest, 2)>>
          [] c = solid -> <<Packed(pack, 1, 2, 1), Packed(large, 1, 4, 1), Packed(small, 1, 4, 1)>>
          [] c = seven -> <<Packed(small, 1, 4, 1), Packed(large, 1, 4, 2), Packed(small, 1, 4, 2)>>
          [] c = rotten -> <<Packed(small, 1, 4, 1), Packed(large, 1, 4, 2)>>
          [] c = roll -> <<Member(solid, 1), Member(small, 1)>>
          [] OTHER -> <<>>]

MCUnsafe == {refused}
MCBroken == {torn, rotten}
MCUnrolled == [c \in Content |-> IF c = roll THEN 5 ELSE 0]

Limits(depth, perContainer, perRun, member, container, run) ==
    [depth |-> depth, partsPerContainer |-> perContainer, partsPerRun |-> perRun,
     memberBytes |-> member, containerBytes |-> container, runBytes |-> run]

\* Each limit alone, and most of them in pairs, small enough to bite.
AllPolicies ==
    { Limits(depth, count, 20, 3, container, run) :
        depth \in {1, 2, 4}, count \in {2, 4}, container \in {4, 8, 13}, run \in {14, 40} }
    \cup { Limits(4, 4, run, 3, 20, 40) : run \in {4, 5, 7, 9} }
    \cup { Limits(4, 4, 20, 2, 20, 40), Limits(4, 4, 20, 3, 4, 5) }

LoosePolicy == {Limits(4, 4, 40, 3, 40, 99)}

\* Every content alone; two files that share the limits of the run.
AllSources == {<<c>> : c \in Content} \cup {<<large, box>>, <<letter, nest>>, <<torn, pack>>}

PackSource == {<<pack>>}

\* All MIME trees of three levels with up to two children each, alone, and some of them
\* in one mailbox.  The leaves are alike, since names and bodies may be; a message has
\* the bytes of what is in it or others.
Alike == {File(small), Text}
TreesOver(bodies, below) ==
    {Node(type, body, children) :
        type \in {"multipart", "rfc822"}, body \in bodies, children \in BoundedSeq(below, 2)}
Inner == TreesOver({nest}, Alike)
MimeTrees == Alike \cup Inner \cup TreesOver({nest, pack}, Alike \cup Inner)
MCMailboxes ==
    {<<tree>> : tree \in MimeTrees} \cup {BoxMessages}
    \cup {<<one, other>> : one, other \in Alike \cup Inner \cup {Node("bytes", small, <<>>)}}
=============================================================================
