-------------------------------- MODULE Fs ---------------------------------
(* The virtio filesystem device (devices/virtio/fs): a directory of the    *)
(* host served to a guest over FUSE.  The device thread serves one request *)
(* at a time, so a request is one step; a request the code refuses changes *)
(* nothing and is no step.  `tree` is the directory of the host, `told` is *)
(* what the guest was told and has not forgotten, `moved` the files that   *)
(* were renamed or removed since, `page` what it has read of a listing.    *)
(* The guest resolves links itself, as a FUSE client does: no request asks *)
(* the host to follow one.                                                 *)
EXTENDS Integers, Sequences, FiniteSets, SequencesExt, FiniteSetsExt, TLC

CONSTANTS
    NAMES,       \* names of files
    DEPTH,       \* bound: length of a path below the root
    INODES,      \* bound: files ever made
    NODES,       \* bound: node numbers given out
    HANDLES      \* bound: handles given out

VARIABLES tree, kind, full, nodes, numbers, next, open, handle, writable, told, moved

vars == <<tree, kind, full, nodes, numbers, next, open, handle, writable, told, moved>>

ROOT == 1
Start == << >> :> 1 @@ <<"a">> :> 2

\* Files of the host.  Removing a file or moving it never changes its inode.
host == <<tree, kind, full>>

\* The tables of Shared.
table == <<nodes, numbers, next>>
handles == <<open, handle>>

Exists(at) == at \in DOMAIN tree
KindAt(at) == kind[tree[at]]
Parent(at) == SubSeq(at, 1, Len(at) - 1)
Children(at) == {p \in DOMAIN tree : Len(p) = Len(at) + 1 /\ IsPrefix(at, p)}
Below(at) == {p \in DOMAIN tree : IsPrefix(at, p)}

Init ==
    /\ tree = Start
    /\ kind = <<"dir", "file">>
    /\ full = <<FALSE, FALSE>>
    /\ nodes = ROOT :> << >>
    /\ numbers = << >> :> ROOT
    /\ next = ROOT + 1
    /\ open = << >>
    /\ handle = 1
    /\ writable \in BOOLEAN
    /\ told = ROOT :> [at |-> << >>, ino |-> 1]
    /\ moved = {}

\* Names a guest may send: some are not names, and a dot is the directory itself.
Named == NAMES \cup {".", "..", "a/b", ""}

\* Path of a name under a node, or none.
Under(parent, name) ==
    IF parent \notin DOMAIN nodes \/ name \in {"", "..", "a/b"} THEN {}
    ELSE IF name = "." THEN {nodes[parent]}
    ELSE {Append(nodes[parent], name)}

\* A path is met a second time under the number it has.
NumberOf(at) == IF at \in DOMAIN numbers THEN numbers[at] ELSE next

\* Mutant: a path is numbered again each time it is met.
NumberAgain(at) ==
    /\ next <= NODES
    /\ nodes' = next :> at @@ nodes
    /\ numbers' = at :> next @@ numbers
    /\ next' = next + 1

Number(at) ==
    /\ NumberOf(at) <= NODES
    /\ nodes' = NumberOf(at) :> at @@ nodes
    /\ numbers' = at :> NumberOf(at) @@ numbers
    /\ next' = IF at \in DOMAIN numbers THEN next ELSE next + 1

\* The entry an answer carries: the guest holds the number from then on.
Entry(at, ino) == told' = NumberOf(at) :> [at |-> at, ino |-> ino] @@ told

Lookup(parent, name) ==
    \E at \in Under(parent, name) :
        /\ Exists(at)
        /\ Number(at)
        /\ Entry(at, tree[at])
        /\ UNCHANGED <<host, handles, writable, moved>>

\* FORGET on the request queue drops the node, the root excepted.
Forget(n) ==
    /\ n \in DOMAIN told \ {ROOT}
    /\ nodes' = [m \in DOMAIN nodes \ {n} |-> nodes[m]]
    /\ numbers' = [p \in DOMAIN numbers \ {nodes[m] : m \in DOMAIN nodes \cap {n}} |-> numbers[p]]
    /\ told' = [m \in DOMAIN told \ {n} |-> told[m]]
    /\ UNCHANGED <<host, next, handles, writable, moved>>

\* BATCH_FORGET, and whatever comes on the high priority queue, is answered and left.
ForgetUnheard(n) ==
    /\ n \in DOMAIN told \ {ROOT}
    /\ told' = [m \in DOMAIN told \ {n} |-> told[m]]
    /\ UNCHANGED <<host, table, handles, writable, moved>>

\* What a file of the host is asked by its path.
Getattr(n) ==
    IF n \in DOMAIN nodes /\ nodes[n] \in DOMAIN tree THEN tree[nodes[n]] ELSE 0

\* Shared::open and Shared::open_dir: the next handle, never one given before.
Handed(entry) ==
    /\ handle <= HANDLES
    /\ open' = handle :> entry @@ open
    /\ handle' = handle + 1

FileHandle(ino, write) == [ino |-> ino, write |-> write, at |-> << >>, names |-> << >>, page |-> << >>]

MayOpen(at, write) ==
    /\ Exists(at)
    /\ KindAt(at) # "link"
    /\ write => writable /\ KindAt(at) = "file"

Open(n, write) ==
    /\ n \in DOMAIN nodes
    /\ MayOpen(nodes[n], write)
    /\ Handed(FileHandle(tree[nodes[n]], write))
    /\ UNCHANGED <<host, table, writable, told, moved>>

\* A directory is listed once, as it is opened.
NamesOf(at) == <<".", "..">> \o SetToSeq({Last(p) : p \in Children(at)})

OpenDir(n) ==
    /\ n \in DOMAIN nodes
    /\ Exists(nodes[n])
    /\ KindAt(nodes[n]) = "dir"
    /\ Handed([ino |-> tree[nodes[n]], write |-> FALSE, at |-> nodes[n],
               names |-> NamesOf(nodes[n]), page |-> << >>])
    /\ UNCHANGED <<host, table, writable, told, moved>>

\* The names from an offset on.
Listing(h, offset) == SubSeq(open[h].names, offset + 1, Len(open[h].names))

\* As many names as there is room for, from where the last answer ended.
ReadDir(h, room) ==
    /\ h \in DOMAIN open
    /\ open[h].names # << >>
    /\ LET names == Listing(h, Len(open[h].page))
       IN open' = [open EXCEPT ![h].page = @ \o SubSeq(names, 1, Min({room, Len(names)}))]
    /\ UNCHANGED <<host, table, handle, writable, told, moved>>

\* With entries: one name that still stands is numbered, one that is gone has node zero.
ReadDirPlus(h) ==
    /\ h \in DOMAIN open
    /\ LET names == Listing(h, Len(open[h].page))
       IN /\ open[h].names # << >> /\ names # << >>
          /\ open' = [open EXCEPT ![h].page = Append(@, Head(names))]
          /\ LET at == Append(open[h].at, Head(names))
             IN IF Head(names) \notin {".", ".."} /\ Exists(at)
                THEN Number(at) /\ Entry(at, tree[at])
                ELSE UNCHANGED <<table, told>>
    /\ UNCHANGED <<host, handle, writable, moved>>

Release(h) ==
    /\ h \in DOMAIN open
    /\ open' = [g \in DOMAIN open \ {h} |-> open[g]]
    /\ UNCHANGED <<host, table, handle, writable, told, moved>>

Write(h) ==
    /\ writable
    /\ h \in DOMAIN open
    /\ open[h].write
    /\ full' = [full EXCEPT ![open[h].ino] = TRUE]
    /\ UNCHANGED <<tree, kind, table, handles, writable, told, moved>>

\* SETATTR cuts the file at the path of the node.
Setattr(n) ==
    /\ writable
    /\ n \in DOMAIN nodes
    /\ Exists(nodes[n])
    /\ KindAt(nodes[n]) = "file"
    /\ full' = [full EXCEPT ![tree[nodes[n]]] = FALSE]
    /\ UNCHANGED <<tree, kind, table, handles, writable, told, moved>>

\* A new file at a path whose directory stands.
Made(at, what) ==
    /\ ~Exists(at)
    /\ Len(kind) < INODES
    /\ Len(at) <= DEPTH
    /\ Exists(Parent(at)) /\ KindAt(Parent(at)) = "dir"
    /\ tree' = at :> Len(kind) + 1 @@ tree
    /\ kind' = Append(kind, what)
    /\ full' = Append(full, FALSE)

\* CREATE opens what is there, cutting it if told to, or makes it; the handle it gives is
\* opened by the path again.
Create(parent, name, cut, write) ==
    /\ writable
    /\ \E at \in Under(parent, name) :
          /\ \/ /\ Made(at, "file")
                /\ Entry(at, Len(kind) + 1)
                /\ Handed(FileHandle(Len(kind) + 1, write))
             \/ /\ Exists(at) /\ KindAt(at) = "file"
                /\ full' = [full EXCEPT ![tree[at]] = @ /\ ~cut]
                /\ Entry(at, tree[at])
                /\ Handed(FileHandle(tree[at], write))
                /\ UNCHANGED <<tree, kind>>
          /\ Number(at)
    /\ UNCHANGED <<writable, moved>>

\* MKDIR and SYMLINK make what was not there.
MakeNode(parent, name, what) ==
    /\ writable
    /\ \E at \in Under(parent, name) :
          /\ Made(at, what)
          /\ Number(at)
          /\ Entry(at, Len(kind) + 1)
    /\ UNCHANGED <<handles, writable, moved>>

Mkdir(parent, name) == MakeNode(parent, name, "dir")
Symlink(parent, name) == MakeNode(parent, name, "link")

MayUnlink(at, directory) ==
    /\ Exists(at) /\ at # << >>
    /\ IF directory THEN KindAt(at) = "dir" /\ Children(at) = {} ELSE KindAt(at) # "dir"

\* UNLINK and RMDIR change the host alone: the node stays until it is forgotten.
Unlink(parent, name, directory) ==
    /\ writable
    /\ \E at \in Under(parent, name) :
          /\ name # "."
          /\ MayUnlink(at, directory)
          /\ tree' = [p \in DOMAIN tree \ {at} |-> tree[p]]
          /\ moved' = moved \cup {tree[at]}
    /\ UNCHANGED <<kind, full, table, handles, writable, told>>

\* rename(2): a directory is not moved below itself, and only an empty one is replaced.
MayRename(from, to) ==
    /\ Exists(from) /\ from # << >> /\ to # << >>
    /\ ~IsPrefix(from, to)
    /\ \A p \in Below(from) : Len(p) - Len(from) + Len(to) <= DEPTH
    /\ Exists(Parent(to)) /\ KindAt(Parent(to)) = "dir"
    /\ Exists(to) => /\ (KindAt(to) = "dir") = (KindAt(from) = "dir")
                     /\ Children(to) = {}

Renamed(from, to) ==
    LET Rest(p, q) == SubSeq(p, Len(q) + 1, Len(p))
        gone == Below(from) \cup {to}
        new == {to \o Rest(p, from) : p \in Below(from)}
    IN [p \in (DOMAIN tree \ gone) \cup new |->
            IF p \in new THEN tree[from \o Rest(p, to)] ELSE tree[p]]

\* The tables of nodes are not told of a rename.
Rename(parent, name, toParent, toName) ==
    /\ writable
    /\ "." \notin {name, toName}
    /\ \E from \in Under(parent, name), to \in Under(toParent, toName) :
          /\ MayRename(from, to)
          /\ tree' = Renamed(from, to)
          /\ moved' = moved \cup {tree[p] : p \in Below(from) \cup (Below(to) \cap {to})}
    /\ UNCHANGED <<kind, full, table, handles, writable, told>>

Change(n, name) ==
    \/ Mkdir(n, name)
    \/ Symlink(n, name)
    \/ \E cut, write \in BOOLEAN : Create(n, name, cut, write)
    \/ \E directory \in BOOLEAN : Unlink(n, name, directory)
    \/ \E to \in DOMAIN told, toName \in Named : Rename(n, name, to, toName)

OnNode(n) ==
    \/ Forget(n)
    \/ ForgetUnheard(n)
    \/ OpenDir(n)
    \/ Setattr(n)
    \/ \E write \in BOOLEAN : Open(n, write)
    \/ \E name \in Named : Lookup(n, name) \/ Change(n, name)

OnHandle(h) ==
    \/ Release(h)
    \/ Write(h)
    \/ ReadDirPlus(h)
    \/ \E room \in 1 .. 2 : ReadDir(h, room)

Next ==
    \/ \E n \in DOMAIN told : OnNode(n)
    \/ \E h \in DOMAIN open : OnHandle(h)

Spec == Init /\ [][Next]_vars
-----------------------------------------------------------------------------
\* The two tables of Shared are each other's inverse and the root is in them, through every
\* order of lookups, forgets and changes.
TablesAgree ==
    /\ nodes[ROOT] = << >>
    /\ \A n \in DOMAIN nodes : n < next /\ nodes[n] \in DOMAIN numbers /\ numbers[nodes[n]] = n
    /\ \A p \in DOMAIN numbers : numbers[p] \in DOMAIN nodes /\ nodes[numbers[p]] = p

\* A number the guest holds is known for the path it was told, and answers with the file it
\* was told, unless the guest itself moved or removed that file.
HeldStands ==
    \A n \in DOMAIN told :
        /\ n \in DOMAIN nodes
        /\ nodes[n] = told[n].at
        /\ told[n].ino \notin moved => Getattr(n) = told[n].ino

\* A guest that reads a directory in pieces sees the listing of the moment it was opened,
\* each name once, whatever is made or removed meanwhile.
ListingIsOne == \A h \in DOMAIN open : IsPrefix(open[h].page, open[h].names)

\* A share that is not writable stays as it was.
ReadOnlyKept == writable \/ (tree = Start /\ \A i \in DOMAIN full : ~full[i])

\* The share is sound: tables, numbers, listings, and nothing changed that may not be.
ShareSound == TablesAgree /\ HeldStands /\ ListingIsOne /\ ReadOnlyKept
=============================================================================
