------------------------------ MODULE MCIntake -------------------------------
(***************************************************************************)
(* Source directories for TLC.  Inside the root: the directory sub with    *)
(* one file, two files whose names fold to the same text, a mailbox, at    *)
(* times a link, a FIFO or a dangling link.  Outside: a directory that     *)
(* looks like sub, a file and a mailbox.                                   *)
(***************************************************************************)
EXTENDS Intake

CONSTANTS
    root, sub, away,                        \* directories, away outside
    inner, one, two, mbox, secret, spool,   \* files, secret and spool outside
    fifo, absent

MCDirs == {root, sub, away}
MCFiles == {inner, one, two, mbox, secret, spool}
MCOutside == {away, secret, spool}

\* d: a directory; f and F: files, equal after folding only (strasse and its
\* spelling with a sharp s); m: a mailbox.
MCNames == {"d", "f", "F", "m"}
Position == [n \in MCNames |->
    CASE n = "d" -> <<1, 1, 1>> [] n = "F" -> <<2, 2, 2>> [] n = "f" -> <<2, 3, 3>>
      [] n = "m" -> <<3, 4, 4>>]
MCFolded == [n \in MCNames |-> Position[n][1]]
MCComposed == [n \in MCNames |-> Position[n][2]]
MCOriginal == [n \in MCNames |-> Position[n][3]]

\* One letter, composed and decomposed.
TwinNames == {"e", "E"}
TwinFolded == [n \in TwinNames |-> 1]
TwinOriginal == [n \in TwinNames |-> IF n = "e" THEN 1 ELSE 2]

Plain(object) == [to |-> object, link |-> FALSE]
Link(object) == [to |-> object, link |-> TRUE]

\* A directory with some names taken.
Holding(names, entries) ==
    [n \in names |-> IF n \in DOMAIN entries THEN entries[n] ELSE Vacant]

Tree(atRoot) ==
    [d \in MCDirs |->
        CASE d = root -> Holding(MCNames, atRoot)
          [] d = sub -> Holding(MCNames, [n \in {"f"} |-> Plain(inner)])
          [] d = away -> Holding(MCNames, [f |-> Plain(secret), m |-> Plain(spool)])]

MCTrees == {
    Tree([d |-> Plain(sub), m |-> Plain(mbox)]),
    Tree([F |-> Plain(one), f |-> Plain(two)]),
    Tree([d |-> Plain(fifo), F |-> Link(absent), f |-> Plain(one), m |-> Link(spool)]) }

Put(dir, name, entry) == [dir |-> dir, name |-> name, entry |-> entry]

MCSwaps == {
    Put(root, "d", Link(away)), Put(root, "d", Plain(sub)),
    Put(sub, "f", Link(secret)), Put(root, "f", Plain(fifo)), Put(root, "f", Vacant),
    Put(root, "m", Link(spool)), Put(root, "m", Plain(one)), Put(root, "m", Vacant) }

MCGivens == {<<>>, <<"m">>}
DirectoryGiven == {<<>>}

TwinTrees == {[d \in MCDirs |->
    Holding(TwinNames, IF d = root THEN [e |-> Plain(one), E |-> Plain(two)] ELSE <<>>)]}
=============================================================================
