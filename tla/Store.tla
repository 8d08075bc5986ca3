------------------------------- MODULE Store -------------------------------
(***************************************************************************)
(* The template store (src/lingcage/src/template/store.rs): processes that *)
(* build, register, get and remove templates over one directory, with no   *)
(* lock but the flock on a template's RAM image.                           *)
(*                                                                         *)
(* Each file operation is a step, and any step may fail or be the last of  *)
(* its process.  A file is absent, torn (a copy not finished) or whole; of *)
(* the contents only that is kept.  The RAM image is an inode, for that is *)
(* what a flock is on: register links the inode of the directory it is     *)
(* given, a copy or a build makes a new one.                               *)
(***************************************************************************)
EXTENDS Naturals

CONSTANTS Ids,       \* content addresses
          CrossFs,   \* ids registered from a directory on another filesystem
          Baked,     \* ids a build may come to
          Names,     \* alias names
          Clients,   \* processes, each doing one thing at a time
          Writers,   \* those that change the store
          Spare,     \* inodes for images copied or built
          None

ASSUME StoreAssumption ==
    /\ CrossFs \subseteq Ids /\ Baked \subseteq Ids /\ Writers \subseteq Clients
    /\ None \notin Ids \cup Spare \cup Names /\ Ids \cap Spare = {}

\* ram.img and template.json; state.json and kernel.img come and go between
\* them, and nothing below tells apart whether they are there.
Files == {"ram", "meta"}

\* The order in which register places them: template.json comes last.
Placed == <<"ram", "meta">>

\* The image register links is the inode of its source, named by the id.
Images == Ids \cup Spare

VARIABLES
    made,    \* ids with a directory
    file,    \* what is under each name of each directory
    image,   \* the inode of its ram.img, or None
    alias,   \* where each alias leads, or None
    at,      \* where each client is
    on,      \* the id it works on, or None
    name,    \* the alias its build asks for, or None
    nth,     \* the file register places next
    listed,  \* the names its remove_dir_all has yet to unlink
    fd,      \* the image it has open, or None
    found,   \* what that image was when opened
    shared,  \* clients with a shared flock on their image
    excl,    \* clients with an exclusive one
    stage,   \* directories each build has outside the templates
    guest    \* clients whose build boot runs

disk == <<made, file, image, alias>>
work == <<on, name, nth, listed>>
lease == <<fd, found, shared, excl>>
boot == <<stage, guest>>
vars == <<disk, at, work, lease, boot>>

Init ==
    /\ made = {}
    /\ file = [id \in Ids |-> [f \in Files |-> "none"]]
    /\ image = [id \in Ids |-> None]
    /\ alias = [n \in Names |-> None]
    /\ at = [c \in Clients |-> "idle"]
    /\ on = [c \in Clients |-> None]
    /\ name = [c \in Clients |-> None]
    /\ nth = [c \in Clients |-> 1]
    /\ listed = [c \in Clients |-> {}]
    /\ fd = [c \in Clients |-> None]
    /\ found = [c \in Clients |-> "none"]
    /\ shared = {} /\ excl = {}
    /\ stage = [c \in Clients |-> {}]
    /\ guest = {}

Goto(c, step) == at' = [at EXCEPT ![c] = step]

\* The call of c is over: its locals are gone and its files closed.
Return(c) ==
    /\ Goto(c, "idle")
    /\ on' = [on EXCEPT ![c] = None]
    /\ name' = [name EXCEPT ![c] = None]
    /\ nth' = [nth EXCEPT ![c] = 1]
    /\ listed' = [listed EXCEPT ![c] = {}]
    /\ fd' = [fd EXCEPT ![c] = None]
    /\ found' = [found EXCEPT ![c] = "none"]
    /\ shared' = shared \ {c}
    /\ excl' = excl \ {c}

\* remove_dir_all begins: it lists the directory, then unlinks name by name.
ListDir(c) == listed' = [listed EXCEPT ![c] = {f \in Files : file[on[c]][f] # "none"}]

SetFile(id, f, what) == file' = [file EXCEPT ![id][f] = what]

\* ram.img of id is now inode i.
SetImage(id, f, i) ==
    image' = IF f = "ram" THEN [image EXCEPT ![id] = i] ELSE image

\* An inode no name leads to and nobody has open.
Free == {i \in Spare : /\ \A id \in Ids : image[id] # i
                       /\ \A c \in Clients : fd[c] # i}

----------------------------------------------------------------------------
(* get and open_template.                                                    *)

\* An id of a directory, or an alias that leads to one: TemplateStore::resolve.
Resolves(id) == id \in made

Get(c, id) ==
    /\ at[c] = "idle" /\ Resolves(id)
    /\ Goto(c, "meta") /\ on' = [on EXCEPT ![c] = id]
    /\ UNCHANGED <<disk, name, nth, listed, lease, boot>>

ReadMeta(c) ==
    /\ at[c] = "meta"
    /\ UNCHANGED <<disk, boot>>
    /\ \/ file[on[c]]["meta"] = "whole" /\ Goto(c, "open") /\ UNCHANGED <<work, lease>>
       \/ file[on[c]]["meta"] # "whole" /\ Return(c)

OpenImage(c) ==
    /\ at[c] = "open"
    /\ UNCHANGED <<disk, boot>>
    /\ \/ /\ image[on[c]] # None
          /\ fd' = [fd EXCEPT ![c] = image[on[c]]]
          /\ found' = [found EXCEPT ![c] = file[on[c]]["ram"]]
          /\ Goto(c, "lock") /\ UNCHANGED <<work, shared, excl>>
       \/ image[on[c]] = None /\ Return(c)

\* Mutant: LOCK_EX for LOCK_SH.
LockExclusive(c) ==
    /\ at[c] = "lock"
    /\ \A d \in shared \cup excl : fd[d] # fd[c]
    /\ Goto(c, "have") /\ shared' = shared \cup {c}
    /\ UNCHANGED <<disk, work, fd, found, excl, boot>>

LockShared(c) ==
    /\ at[c] = "lock"
    /\ \A d \in excl : fd[d] # fd[c]
    /\ Goto(c, "have") /\ shared' = shared \cup {c}
    /\ UNCHANGED <<disk, work, fd, found, excl, boot>>

\* The Template is dropped.
Drop(c) ==
    /\ at[c] = "have" /\ Return(c)
    /\ UNCHANGED <<disk, boot>>

----------------------------------------------------------------------------
(* register.                                                                 *)

\* The source was found good: its digest, stamp and layout match.
Register(w, id) ==
    /\ at[w] = "idle"
    /\ made' = made \cup {id}
    /\ Goto(w, "place") /\ on' = [on EXCEPT ![w] = id]
    /\ UNCHANGED <<file, image, alias, name, nth, listed, lease, boot>>

\* Past the file in hand.
PlaceNext(w) ==
    /\ nth' = [nth EXCEPT ![w] = IF @ = 2 THEN 1 ELSE @ + 1]
    /\ Goto(w, IF nth[w] = 2 THEN "meta" ELSE "place")

Keep(w) ==
    /\ at[w] = "place"
    /\ file[on[w]][Placed[nth[w]]] # "none"
    /\ PlaceNext(w)
    /\ UNCHANGED <<disk, on, name, listed, lease, boot>>

Link(w) ==
    /\ at[w] = "place" /\ on[w] \in made \ CrossFs
    /\ file[on[w]][Placed[nth[w]]] = "none"
    /\ SetFile(on[w], Placed[nth[w]], "whole")
    /\ SetImage(on[w], Placed[nth[w]], on[w])
    /\ PlaceNext(w)
    /\ UNCHANGED <<made, alias, on, name, listed, lease, boot>>

\* Across filesystems the file is copied instead, which takes time.
Copy(w) ==
    /\ at[w] = "place" /\ on[w] \in made \cap CrossFs
    /\ file[on[w]][Placed[nth[w]]] = "none"
    /\ Placed[nth[w]] = "ram" => Free # {}
    /\ SetFile(on[w], Placed[nth[w]], "torn")
    /\ SetImage(on[w], Placed[nth[w]], CHOOSE i \in Free : TRUE)
    /\ Goto(w, "copy")
    /\ UNCHANGED <<made, alias, work, lease, boot>>

Copied(w) ==
    /\ at[w] = "copy"
    /\ file' = [file EXCEPT ![on[w]][Placed[nth[w]]] = IF @ = "torn" THEN "whole" ELSE @]
    /\ PlaceNext(w)
    /\ UNCHANGED <<made, image, alias, on, name, listed, lease, boot>>

----------------------------------------------------------------------------
(* remove.                                                                   *)

Remove(w, id) ==
    /\ at[w] = "idle" /\ Resolves(id)
    /\ Goto(w, "remove") /\ on' = [on EXCEPT ![w] = id]
    /\ UNCHANGED <<disk, name, nth, listed, lease, boot>>

RemoveOpen(w) ==
    /\ at[w] = "remove"
    /\ UNCHANGED <<disk, boot>>
    /\ \/ /\ image[on[w]] # None
          /\ fd' = [fd EXCEPT ![w] = image[on[w]]]
          /\ Goto(w, "try")
          /\ UNCHANGED <<work, found, shared, excl>>
       \/ image[on[w]] = None /\ Return(w)

InUse(w) == \E c \in shared \cup excl : fd[c] = fd[w]

\* Mutant: the answer of flock is not looked at.
TryLockIgnored(w) ==
    /\ at[w] = "try"
    /\ excl' = excl \cup {w} /\ Goto(w, "aliases")
    /\ UNCHANGED <<disk, work, fd, found, shared, boot>>

TryLock(w) ==
    /\ at[w] = "try"
    /\ UNCHANGED <<disk, boot>>
    /\ \/ /\ ~InUse(w)
          /\ excl' = excl \cup {w} /\ Goto(w, "aliases")
          /\ UNCHANGED <<work, fd, found, shared>>
       \/ InUse(w) /\ Return(w)

\* Mutant: the aliases are left to list, which skips the dangling ones.
UnaliasNone(w) ==
    /\ at[w] = "aliases"
    /\ Goto(w, "sweep") /\ alias' = alias /\ ListDir(w)
    /\ UNCHANGED <<made, file, image, on, name, nth, lease, boot>>

Unalias(w) ==
    /\ at[w] = "aliases"
    /\ UNCHANGED <<made, file, image, on, name, nth, lease, boot>>
    /\ \/ \E n \in Names : /\ alias[n] = on[w]
                           /\ alias' = [alias EXCEPT ![n] = None]
                           /\ UNCHANGED <<at, listed>>
       \/ /\ \A n \in Names : alias[n] # on[w]
          /\ Goto(w, "sweep") /\ alias' = alias /\ ListDir(w)

\* remove_dir_all, of remove and of a build that replaces a partial directory:
\* the files go one by one in any order.
Unlink(w, f) ==
    /\ at[w] \in {"sweep", "replace"} /\ f \in listed[w]
    /\ listed' = [listed EXCEPT ![w] = @ \ {f}]
    /\ SetFile(on[w], f, "none")
    /\ SetImage(on[w], f, None)
    /\ UNCHANGED <<made, alias, at, on, name, nth, lease, boot>>

Empty(id) == \A f \in Files : file[id][f] = "none"

Rmdir(w) ==
    /\ at[w] = "sweep" /\ listed[w] = {} /\ Empty(on[w])
    /\ made' = made \ {on[w]}
    /\ Return(w)
    /\ UNCHANGED <<file, image, alias, boot>>

----------------------------------------------------------------------------
(* build.                                                                    *)

Build(w, id, n) ==
    /\ at[w] = "idle"
    /\ stage' = [stage EXCEPT ![w] = {"staging"}]
    /\ Goto(w, "boot")
    /\ on' = [on EXCEPT ![w] = id] /\ name' = [name EXCEPT ![w] = n]
    /\ UNCHANGED <<disk, nth, listed, lease, guest>>

\* The run directory, the listener and the machine.
Boot(w) ==
    /\ at[w] = "boot"
    /\ stage' = [stage EXCEPT ![w] = @ \cup {"run"}]
    /\ UNCHANGED <<disk, work, lease>>
    /\ \/ guest' = guest \cup {w} /\ Goto(w, "capture")
       \/ guest' = guest /\ Goto(w, "cleanup")

\* The agent connects in time, is identified, and the guest is captured
\* into the staging directory; or any of that fails.
Capture(w) ==
    /\ at[w] = "capture"
    /\ \E next \in {"captured", "not captured"} : Goto(w, next)
    /\ UNCHANGED <<disk, work, lease, boot>>

StopAndWait(w) ==
    /\ at[w] \in {"captured", "not captured"}
    /\ guest' = guest \ {w}
    /\ \/ /\ stage' = [stage EXCEPT ![w] = @ \ {"run"}]
          /\ Goto(w, IF at[w] = "captured" THEN "bake" ELSE "cleanup")
       \/ stage' = stage /\ Goto(w, "cleanup")
    /\ UNCHANGED <<disk, work, lease>>

\* Kernel, digests, the check of the initrd and template.json, all staged.
Bake(w) ==
    /\ at[w] = "bake"
    /\ \/ /\ file[on[w]]["meta"] # "none"
          /\ stage' = [stage EXCEPT ![w] = {}]
          /\ Goto(w, "alias") /\ UNCHANGED listed
       \/ /\ file[on[w]]["meta"] = "none"
          /\ Goto(w, IF on[w] \in made THEN "replace" ELSE "rename")
          /\ ListDir(w) /\ UNCHANGED stage
       \/ Goto(w, "cleanup") /\ UNCHANGED <<listed, stage>>
    /\ UNCHANGED <<disk, on, name, nth, lease, guest>>

Replaced(w) ==
    /\ at[w] = "replace" /\ listed[w] = {} /\ Empty(on[w])
    /\ made' = made \ {on[w]}
    /\ Goto(w, "rename")
    /\ UNCHANGED <<file, image, alias, work, lease, boot>>

\* The staged directory takes its place, if that is free.
Rename(w) ==
    /\ at[w] = "rename" /\ Empty(on[w]) /\ Free # {}
    /\ made' = made \cup {on[w]}
    /\ file' = [file EXCEPT ![on[w]] = [f \in Files |-> "whole"]]
    /\ image' = [image EXCEPT ![on[w]] = CHOOSE i \in Free : TRUE]
    /\ stage' = [stage EXCEPT ![w] = {}]
    /\ Goto(w, "alias")
    /\ UNCHANGED <<alias, work, lease, guest>>

\* link_alias: a stale one is removed first.
LinkAlias(w) ==
    /\ at[w] = "alias"
    /\ \/ name[w] = None /\ Goto(w, "meta") /\ alias' = alias
       \/ /\ name[w] # None
          /\ IF alias[name[w]] = None
             THEN alias' = [alias EXCEPT ![name[w]] = on[w]] /\ Goto(w, "meta")
             ELSE alias' = [alias EXCEPT ![name[w]] = None] /\ UNCHANGED at
    /\ UNCHANGED <<made, file, image, work, lease, boot>>

Cleanup(w) ==
    /\ at[w] = "cleanup"
    /\ stage' = [stage EXCEPT ![w] = {}]
    /\ Return(w)
    /\ UNCHANGED <<disk, guest>>

----------------------------------------------------------------------------
(* Failures.                                                                 *)

\* A file operation fails and its error is returned, by build after clean-up.
Fail(c) ==
    /\ UNCHANGED <<disk, boot>>
    /\ \/ /\ at[c] \in {"meta", "open", "lock", "place", "copy",
                       "remove", "try", "aliases", "sweep"}
          /\ Return(c)
       \/ /\ at[c] \in {"replace", "rename", "alias"}
          /\ Goto(c, "cleanup") /\ UNCHANGED <<work, lease>>

\* The process dies: its files are closed and its guest is gone, what it left
\* on disk stays.  A staging directory is never looked at again.
Crash(c) ==
    /\ at[c] # "idle"
    /\ Return(c)
    /\ stage' = [stage EXCEPT ![c] = {}] /\ guest' = guest \ {c}
    /\ UNCHANGED disk

----------------------------------------------------------------------------

\* Steps a call takes by itself.
Step(c) ==
    \/ ReadMeta(c) \/ OpenImage(c) \/ LockShared(c)
    \/ /\ c \in Writers
       /\ \/ Keep(c) \/ Link(c) \/ Copy(c) \/ Copied(c)
          \/ RemoveOpen(c) \/ TryLock(c) \/ Unalias(c) \/ Rmdir(c)
          \/ \E f \in Files : Unlink(c, f)
          \/ Boot(c) \/ Capture(c) \/ StopAndWait(c) \/ Bake(c)
          \/ Replaced(c) \/ Rename(c)
          \/ LinkAlias(c) \/ Cleanup(c)

Call(c) ==
    \/ \E id \in Ids : Get(c, id)
    \/ /\ c \in Writers
       /\ \/ \E id \in Ids : Register(c, id) \/ Remove(c, id)
          \/ \E id \in Baked, n \in Names \cup {None} : Build(c, id, n)

Next == \E c \in Clients : Step(c) \/ Call(c) \/ Drop(c) \/ Fail(c) \/ Crash(c)

Spec == Init /\ [][Next]_vars

\* A call runs until it returns; nothing makes anybody call or drop.  The
\* kernel wakes who waits for a flock each time it is given up.
FairSpec == Spec /\ \A c \in Clients : WF_vars(Step(c)) /\ SF_vars(LockShared(c))

----------------------------------------------------------------------------

TypeOK ==
    /\ made \subseteq Ids
    /\ file \in [Ids -> [Files -> {"none", "torn", "whole"}]]
    /\ image \in [Ids -> Images \cup {None}]
    /\ alias \in [Names -> Ids \cup {None}]
    /\ at \in [Clients -> {"idle", "meta", "open", "lock", "have", "place", "copy", "remove",
                           "try", "aliases", "sweep", "boot", "capture", "captured",
                           "not captured", "bake", "replace", "rename", "alias", "cleanup"}]
    /\ on \in [Clients -> Ids \cup {None}]
    /\ name \in [Clients -> Names \cup {None}]
    /\ nth \in [Clients -> 1 .. 2]
    /\ listed \in [Clients -> SUBSET Files]
    /\ fd \in [Clients -> Images \cup {None}]
    /\ found \in [Clients -> {"none", "torn", "whole"}]
    /\ shared \subseteq Clients /\ excl \subseteq Writers
    /\ stage \in [Clients -> SUBSET {"staging", "run"}]
    /\ guest \subseteq Writers

\* The flock protocol implements the leases: an image appears under its id in
\* one step, and no image is unlinked while a client holds it, unless a build
\* replaces the directory.
Leases == INSTANCE ImageLease WITH opened <- fd, leased <- shared

Implements == Leases!Spec

\* The image of an open template was whole when opened, for a template built
\* here or linked from one filesystem: files are filled before they are named.
HeldIsWhole == \A c \in Clients : at[c] = "have" /\ on[c] \notin CrossFs => found[c] = "whole"

\* An alias leads to a directory, through every crash and error between its
\* steps: build links it last and remove unlinks it first.
AliasLeads == \A n \in Names : alias[n] # None => alias[n] \in made

\* Whatever happened in it, a build that returned runs no guest and has no
\* directory beside the templates.
BuildLeavesNothing == \A c \in Clients : at[c] \in {"idle", "have"} => c \notin guest /\ stage[c] = {}

\* What the calls leave behind is sound: opened images are whole, aliases lead to a
\* directory, and a build that returned has left no guest and no staging directory.
StoreSound == HeldIsWhole /\ AliasLeads /\ BuildLeavesNothing

\* Every call returns: nobody waits for a flock for ever.
CallsReturn == \A c \in Clients : at[c] \notin {"idle", "have"} ~> at[c] \in {"idle", "have"}

=============================================================================
