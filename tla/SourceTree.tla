----------------------------- MODULE SourceTree ------------------------------
(***************************************************************************)
(* Opening a file below the source directory (source_io.open_source) while *)
(* others replace entries of that directory.  On POSIX the path is walked  *)
(* with one descriptor per component; on Windows the components are        *)
(* inspected, the path is opened, and the handle is inspected.  Each       *)
(* system call is a step of its own; between two of them the tree may be   *)
(* another one.                                                            *)
(*                                                                         *)
(* The file system is modelled from how source_io.py and the walk use it:  *)
(* directories map names to entries, an entry leads to an object either    *)
(* directly or as a link that has been resolved.  Only links lead from the *)
(* source to objects outside of it.                                        *)
(***************************************************************************)
EXTENDS Naturals, FiniteSets, SequencesExt

CONSTANTS
    Root,       \* the source directory
    Dirs,       \* directory objects, those outside included
    Files,      \* regular files
    Specials,   \* FIFOs, sockets, devices
    Nothing,    \* what a dangling link or a missing name leads to
    Outside,    \* the objects that are not below Root
    Names,      \* names of directory entries
    Trees,      \* file systems a run may start with
    Swaps,      \* what others may do: entries they put in place
    MaxSwaps,   \* how often
    Platforms   \* "posix", "nt" or both

Objects == Dirs \cup Files \cup Specials \cup {Nothing}
Entries == [to : Objects, link : BOOLEAN]
Vacant == [to |-> Nothing, link |-> FALSE]

\* Without a link nothing inside leads out.
LeadsInside(dir, entry) == dir \in Outside \/ entry.link \/ entry.to \notin Outside

ASSUME TreeAssumption ==
    /\ Root \in Dirs /\ Root \notin Outside /\ Outside \subseteq Objects
    /\ Nothing \notin Dirs \cup Files \cup Specials \cup Outside
    /\ Dirs \cap Files = {} /\ Dirs \cap Specials = {} /\ Files \cap Specials = {}
    /\ Trees \subseteq [Dirs -> [Names -> Entries]]
    /\ \A t \in Trees : \A d \in Dirs : \A n \in Names : LeadsInside(d, t[d][n])
    /\ Swaps \subseteq [dir : Dirs, name : Names, entry : Entries]
    /\ \A s \in Swaps : LeadsInside(s.dir, s.entry)
    /\ MaxSwaps \in Nat
    /\ Platforms \subseteq {"posix", "nt"}

VARIABLES
    platform,   \* os.name
    fs,         \* the entries of every directory
    swaps,      \* how many replacements others may still make
    opening     \* {} or {the call of open_source in progress}

treeVars == <<platform, fs, swaps, opening>>

TreeInit ==
    /\ platform \in Platforms
    /\ fs \in Trees
    /\ swaps = MaxSwaps
    /\ opening = {}

\* Somebody else renames, links, creates or removes an entry.
Swap ==
    /\ swaps > 0
    /\ \E s \in Swaps :
         /\ fs[s.dir][s.name] # s.entry
         /\ fs' = [fs EXCEPT ![s.dir][s.name] = s.entry]
    /\ swaps' = swaps - 1
    /\ UNCHANGED <<platform, opening>>

-----------------------------------------------------------------------------
\* What system calls see.

Enter(tree, object, name) == IF object \in Dirs THEN tree[object][name].to ELSE Nothing

\* From the root, name by name.
Reached(tree, path) ==
    LET at[i \in 0 .. Len(path)] == IF i = 0 THEN Root ELSE Enter(tree, at[i - 1], path[i])
    IN  at[Len(path)]

\* A path with every link followed, as open and scandir see it.
Follow(path) == Reached(fs, path)

\* The entry itself, reached through links if an ancestor is one, as lstat does.
Lstat(path) ==
    LET dir == Follow(Front(path)) IN
    IF dir \in Dirs THEN fs[dir][Last(path)] ELSE Vacant

\* ENOENT rather than ENOTDIR.
NoEntry(path) ==
    /\ Follow(path) = Nothing
    /\ \A i \in 1 .. Len(path) - 1 : Follow(SubSeq(path, 1, i)) \in Dirs \cup {Nothing}

IsLinkOrSpecial(entry) == entry.link \/ entry.to \in Specials

-----------------------------------------------------------------------------
\* open_source.  done: components behind; dir: the descriptor of the last one
\* (POSIX); before: the regular file lstat saw at the path (Windows).

StartOpen(path) == opening' = {[path |-> path, done |-> 0, dir |-> Root, before |-> Nothing]}

Component(o) == o.path[o.done + 1]
AtLeaf(o) == o.done + 1 = Len(o.path)
Ancestor(o) == SubSeq(o.path, 1, o.done + 1)
Passed(o) == [o EXCEPT !.done = @ + 1]

\* O_DIRECTORY | O_NOFOLLOW.
\* Mutant: without O_NOFOLLOW.
AnyDirectory(entry) == entry.to \in Dirs

PlainDirectory(entry) == ~entry.link /\ entry.to \in Dirs

\* O_NOFOLLOW | O_NONBLOCK, then fstat.
PlainFile(entry) == ~entry.link /\ entry.to \in Files

\* Mutant: without O_NONBLOCK, opening a FIFO waits for somebody to write to it.
WaitsForWriter(o) == platform = "nt" \/ ~AtLeaf(o) \/ fs[o.dir][Component(o)].to \notin Specials

\* With it every system call returns.
Returns(o) == TRUE

\* The handle is what lstat saw, and its final path is below the root.
\* Mutant: the final path is not compared.
SameIdentity(o, object) == object = o.before

Proven(o, object) == object = o.before /\ object \notin Outside

\* One component further, no result yet.
OpenGoesOn(o) ==
    /\ o \in opening /\ Returns(o)
    /\ \/ /\ platform = "posix" /\ ~AtLeaf(o)
          /\ PlainDirectory(fs[o.dir][Component(o)])
          /\ opening' = {[Passed(o) EXCEPT !.dir = fs[o.dir][Component(o)].to]}
       \/ /\ platform = "nt" /\ ~AtLeaf(o)
          /\ ~Lstat(Ancestor(o)).link /\ Lstat(Ancestor(o)) # Vacant
          /\ opening' = {Passed(o)}
       \/ /\ platform = "nt" /\ AtLeaf(o) /\ o.before = Nothing
          /\ PlainFile(Lstat(o.path))
          /\ opening' = {[o EXCEPT !.before = Lstat(o.path).to]}

\* open_source returns a handle of object.
Opens(o, object) ==
    /\ o \in opening /\ Returns(o) /\ AtLeaf(o)
    /\ \/ /\ platform = "posix"
          /\ PlainFile(fs[o.dir][Component(o)])
          /\ object = fs[o.dir][Component(o)].to
       \/ /\ platform = "nt" /\ o.before # Nothing
          /\ object = Follow(o.path) /\ Proven(o, object)
    /\ opening' = {}

\* open_source raises: UnsafeSourceError, or the OSError of a call on Windows.
Refuses(o, reason) ==
    /\ o \in opening /\ Returns(o)
    /\ \/ /\ platform = "posix" /\ reason = "unsafe_entry"
          /\ IF AtLeaf(o) THEN ~PlainFile(fs[o.dir][Component(o)])
                          ELSE ~PlainDirectory(fs[o.dir][Component(o)])
       \/ /\ platform = "nt" /\ ~AtLeaf(o)
          /\ \/ Lstat(Ancestor(o)) = Vacant /\ reason = "unreadable"
             \/ Lstat(Ancestor(o)).link /\ reason = "unsafe_entry"
       \/ /\ platform = "nt" /\ AtLeaf(o) /\ o.before = Nothing
          /\ \/ Lstat(o.path) = Vacant /\ reason = "unreadable"
             \/ Lstat(o.path) # Vacant /\ ~PlainFile(Lstat(o.path)) /\ reason = "unsafe_entry"
       \/ /\ platform = "nt" /\ AtLeaf(o) /\ o.before # Nothing
          /\ \/ Follow(o.path) \notin Files /\ reason = "unreadable"
             \/ /\ Follow(o.path) \in Files /\ ~Proven(o, Follow(o.path))
                /\ reason = "unsafe_entry"
    /\ opening' = {}

TreeTypeOK ==
    /\ platform \in Platforms
    /\ fs \in [Dirs -> [Names -> Entries]]
    /\ swaps \in 0 .. MaxSwaps
    /\ \A o \in opening :
         /\ o \in [path : Seq(Names), done : Nat, dir : Dirs, before : Files \cup {Nothing}]
         /\ o.done < Len(o.path)
    /\ \A o, u \in opening : o = u
=============================================================================
