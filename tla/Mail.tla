-------------------------------- MODULE Mail ---------------------------------
(***************************************************************************)
(* The leaves of mail (mail.py): the walk over the MIME structure of a     *)
(* message, with the nodes that say where each leaf came from, and the     *)
(* messages of a mailbox in their order.                                   *)
(*                                                                         *)
(* A message is a tree: a function from its positions, paths of child      *)
(* indices from the message itself, <<>>, to what is there: a type and a   *)
(* body (a content; for a message the content of its bytes).  Types:       *)
(* "multipart"; "rfc822", a part that holds attached messages; "display",  *)
(* a body that a mail program shows and that is not emitted; "part", any   *)
(* other leaf, whose body is Undecoded if its transfer encoding is broken; *)
(* "bytes", what begins like a message of a mailbox but has no header to   *)
(* identify it by.                                                         *)
(***************************************************************************)
EXTENDS Integers, SequencesExt

CONSTANTS Undecoded,
          Mailboxes     \* sequences of messages to walk

Types == {"multipart", "rfc822", "display", "part", "bytes"}

Node(type, body, children) ==
    [pos \in {<<>>} \cup UNION {{<<i>> \o below : below \in DOMAIN children[i]} : i \in DOMAIN children} |->
        IF pos = <<>> THEN [type |-> type, body |-> body] ELSE children[Head(pos)][Tail(pos)]]

IsMessage(tree) ==
    /\ <<>> \in DOMAIN tree
    /\ \A pos \in DOMAIN tree :
           /\ pos \in Seq(Nat \ {0})
           /\ tree[pos].type \in Types
           /\ pos # <<>> => Front(pos) \in DOMAIN tree

ASSUME MailAssumption == \A box \in Mailboxes : \A i \in DOMAIN box : i \in Nat /\ IsMessage(box[i])

\* AncestryNode, by kind and identifier.
PartNode(path) == [kind |-> "mime_part", id |-> path]
MessageNode(path) == [kind |-> "message", id |-> path]

\* MailLeaf: where it came from, what it holds, whether it is a whole message.
Yield(ancestry, body, whole) == [ancestry |-> ancestry, body |-> body, whole |-> whole]

\* Mutant: the path of a part begins again in every multipart.
IndexOnly(path, i) == <<i>>

ChildPath(path, i) == Append(path, i)

-----------------------------------------------------------------------------
\* How the walk comes to a position: the arguments of its call of _walk_message,
\* whether there is one, and what was yielded just before it.
Call(ancestry, path, digests, walked, yields) ==
    [ancestry |-> ancestry, path |-> path, digests |-> digests, walked |-> walked, yields |-> yields]

FirstCall(tree, ancestry) == Call(ancestry, <<>>, {tree[<<>>].body}, TRUE, <<>>)

\* To an attached message.  It is emitted whole; what is in it follows under a
\* message node of its own, with part paths that begin again, unless its bytes are
\* those of a message around it.
ToAttached(from, i, child) ==
    LET path == ChildPath(from.path, i)
        inPart == Append(from.ancestry, PartNode(path))
        cycle == child.body \in from.digests IN
    Call(Append(inPart, MessageNode(path)), <<>>, from.digests \cup {child.body}, ~cycle,
         <<Yield(inPart, child.body, TRUE)>> \o
             IF cycle THEN <<Yield(Append(inPart, MessageNode(<<>>)), Undecoded, FALSE)>> ELSE <<>>)

\* To a child of a multipart.
ToChild(from, i) == Call(from.ancestry, ChildPath(from.path, i), from.digests, TRUE, <<>>)

NotCalled(from) == Call(from.ancestry, from.path, from.digests, FALSE, <<>>)

\* From the call for a part of this type to its i-th child.
Onward(from, type, i, child) ==
    CASE from.walked /\ type = "rfc822" -> ToAttached(from, i, child)
      [] from.walked /\ type = "multipart" -> ToChild(from, i)
      [] OTHER -> NotCalled(from)

CallAt(tree, ancestry, pos) ==
    LET call[n \in 0 .. Len(pos)] ==
            IF n = 0 THEN FirstCall(tree, ancestry)
            ELSE Onward(call[n - 1], tree[SubSeq(pos, 1, n - 1)].type, pos[n], tree[SubSeq(pos, 1, n)]) IN
    call[Len(pos)]

\* A part that is neither attached nor divided nor shown is a leaf.
OwnLeaf(part, call) ==
    IF call.walked /\ part.type = "part"
      THEN LET at == IF call.path = <<>> THEN <<1>> ELSE call.path IN
           <<Yield(Append(call.ancestry, PartNode(at)), part.body, FALSE)>>
      ELSE <<>>

\* What is emitted at a position.
LeavesAt(tree, ancestry, pos) ==
    LET call == CallAt(tree, ancestry, pos) IN call.yields \o OwnLeaf(tree[pos], call)

\* The order in which the walk comes to the positions: a part before what is in
\* it, and that before the next part.
Earlier(pos, next) ==
    \/ IsStrictPrefix(pos, next)
    \/ \E k \in DOMAIN pos \cap DOMAIN next :
           /\ pos[k] < next[k]
           /\ \A j \in 1 .. k - 1 : pos[j] = next[j]

WalkMessage(tree, ancestry) ==
    LET order == SetToSortSeq(DOMAIN tree, Earlier) IN
    FlattenSeq([k \in DOMAIN order |-> LeavesAt(tree, ancestry, order[k])])

\* iter_message_path, under the node that _process_mail_container gives it.
IterMessage(message) == WalkMessage(message, <<MessageNode(<<1>>)>>)

\* iter_mbox.  What has no header to identify it by is one leaf that fails.
MboxLeaves(box, i, pos) ==
    LET message == <<MessageNode(<<i>>)>> IN
    IF box[i][<<>>].type # "bytes" THEN LeavesAt(box[i], message, pos)
    ELSE IF pos = <<>> THEN <<Yield(message, Undecoded, FALSE)>> ELSE <<>>

IterMbox(box) ==
    FlattenSeq([i \in DOMAIN box |->
        LET order == SetToSortSeq(DOMAIN box[i], Earlier) IN
        FlattenSeq([k \in DOMAIN order |-> MboxLeaves(box, i, order[k])])])

\* _process_mail_leaf counts the messages around a leaf as depth.
Hops(leaf) == Len(SelectSeq(leaf.ancestry, LAMBDA node : node.kind = "message"))
=============================================================================
