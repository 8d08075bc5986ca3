---------------------------- MODULE StoreProofs ----------------------------
(***************************************************************************)
(* The store implements the leases of ImageLease and leaves nothing        *)
(* unsound behind, for any ids, clients, names and inodes, as long as one  *)
(* process at a time changes it.                                           *)
(***************************************************************************)
EXTENDS Store, TLAPS

\* The processes that change the store are one.
OneWriter == \A v, w \in Writers : v = w

Building == {"boot", "capture", "captured", "not captured", "bake", "replace", "rename", "alias",
             "cleanup"}
Writing == Building \cup {"place", "copy", "remove", "try", "aliases", "sweep"}
Opened == {"lock", "have", "try", "aliases", "sweep"}

\* What the place of a client says of the image it has open.  In `try` the
\* writer has open what the name leads to; past it it holds the image alone,
\* and the name leads to that image or to none.
Sound(c) ==
    /\ at[c] # "idle" => on[c] \in Ids
    /\ at[c] \in Writing => c \in Writers
    /\ at[c] \in Building => on[c] \in Baked
    /\ at[c] \in Opened <=> fd[c] # None
    /\ c \in shared <=> at[c] = "have"
    /\ c \in excl <=> at[c] \in {"aliases", "sweep"}
    /\ at[c] = "try" => image[on[c]] = fd[c]
    /\ at[c] \in {"aliases", "sweep"} => image[on[c]] \in {None, fd[c]}
    /\ at[c] \in {"aliases", "sweep"} => \A d \in shared : fd[d] # fd[c]

\* A directory has an image exactly when it has a ram.img.
Named == \A id \in Ids : image[id] = None <=> file[id]["ram"] = "none"

Disk ==
    /\ image \in [Ids -> Images \cup {None}]
    /\ file \in [Ids -> [Files -> {"none", "torn", "whole"}]]

Local ==
    /\ at = [c \in Clients |-> at[c]]
    /\ on \in [Clients -> Ids \cup {None}]
    /\ fd \in [Clients -> Images \cup {None}]
    /\ nth \in [Clients -> 1 .. 2]
    /\ shared \subseteq Clients /\ excl \subseteq Clients

IInv == Disk /\ Local /\ Named /\ \A c \in Clients : Sound(c)

\* What a step of c leaves alone.
Frame(c) ==
    \A d \in Clients \ {c} :
        /\ at'[d] = at[d] /\ on'[d] = on[d] /\ fd'[d] = fd[d]
        /\ d \in shared' <=> d \in shared
        /\ d \in excl' <=> d \in excl

\* What a step of c does to the others' images: none but the writer changes
\* one, and a lease is not granted on an image held alone.
Mild(c) ==
    /\ image' = image \/ c \in Writers
    /\ c \in shared' => \/ c \in shared /\ fd'[c] = fd[c]
                        \/ \A e \in excl : fd[e] # fd'[c]

----------------------------------------------------------------------------

\* The store begins in the inductive invariant.
LEMMA InitIInv == Init => IInv
BY StoreAssumption DEF Init, IInv, Disk, Local, Named, Sound, Building, Writing, Opened, Files, Images

\* A step of one client keeps the places of the others sound.
LEMMA OthersSound ==
    ASSUME Local, OneWriter, NEW c \in Clients, NEW d \in Clients, d # c, Frame(c), Mild(c),
           Sound(c), Sound(d), Local'
    PROVE  Sound(d)'
<1>1. /\ at'[d] = at[d] /\ on'[d] = on[d] /\ fd'[d] = fd[d]
      /\ d \in shared' <=> d \in shared
      /\ d \in excl' <=> d \in excl
  BY Zenon DEF Frame
<1>2. at[d] \in {"try", "aliases", "sweep"} => image' = image
  BY Zenon DEF OneWriter, Mild, Sound, Writing
<1>3. ASSUME at[d] \in {"aliases", "sweep"}, NEW e \in shared' PROVE fd'[e] # fd[d]
  <2>1. d \in excl BY <1>3, Zenon DEF Sound
  <2>2. CASE e = c
    BY <1>3, <2>1, <2>2, Zenon DEF Mild, Sound
  <2>3. CASE e # c
    BY <1>3, <2>3, Zenon DEF Frame, Sound, Local
  <2>4. QED BY <2>2, <2>3, Zenon
<1>4. QED BY <1>1, <1>2, <1>3, Zenon DEF Sound

\* Returning keeps the types of what a client has in hand.
LEMMA ReturnLocal ==
    ASSUME Local, NEW c \in Clients, Return(c)
    PROVE  Local'
<1>1. at' = [d \in Clients |-> at'[d]]
  BY Zenon DEF Local, Return, Goto
<1>2. nth' \in [Clients -> 1 .. 2]
  BY DEF Local, Return
<1>3. QED BY <1>1, <1>2, Zenon DEF Local, Return

\* So does going on to the next file.
LEMMA PlaceLocal ==
    ASSUME Local, NEW c \in Clients, PlaceNext(c), UNCHANGED <<on, fd, shared, excl>>
    PROVE  Local'
<1>1. at' = [d \in Clients |-> at'[d]]
  BY Zenon DEF Local, PlaceNext, Goto
<1>2. nth[c] \in 1 .. 2
  BY Zenon DEF Local
<1>3. (IF nth[c] = 2 THEN 1 ELSE nth[c] + 1) \in 1 .. 2
  BY <1>2
<1>4. nth' \in [Clients -> 1 .. 2]
  BY <1>3, Zenon DEF Local, PlaceNext
<1>5. QED BY <1>1, <1>4, Zenon DEF Local

\* Setting a file, and the image with ram.img, keeps the two together.
LEMMA SetsFile ==
    ASSUME Disk, Named, NEW id \in Ids, NEW f \in Files, NEW what \in {"none", "torn", "whole"},
           NEW i, f = "ram" => i \in Images \cup {None} /\ (i = None <=> what = "none"),
           SetFile(id, f, what), SetImage(id, f, i)
    PROVE  Disk' /\ Named'
<1>1. CASE f = "ram"
  BY <1>1, Zenon DEF Disk, Named, Files, SetFile, SetImage
<1>2. CASE f # "ram"
  BY <1>2, Zenon DEF Disk, Named, Files, SetFile, SetImage
<1>3. QED BY <1>1, <1>2, Zenon

\* Get keeps the inductive invariant.
LEMMA GetKeeps ==
    ASSUME IInv, OneWriter, NEW c \in Clients, NEW id \in Ids, Get(c, id)
    PROVE  IInv'
<1>0. c \in Clients /\ Disk /\ Local /\ Sound(c)
  BY StoreAssumption, Zenon DEF IInv
<1>1. Disk' /\ Named'
  BY Zenon DEF IInv, Disk, Named, Get, disk
<1>2. Local'
  BY <1>0, StoreAssumption, Zenon DEF Disk, Local, Sound, Get, Resolves, Goto, disk, work, lease
<1>3. Frame(c)
  BY <1>0, Zenon DEF Frame, Local, Get, Resolves, Goto, disk, work, lease
<1>4. Sound(c)'
  BY <1>0, StoreAssumption, Zenon DEF Local, Disk, Sound, Writing, Building, Opened, Get, Resolves, Goto,
     disk, work, lease
<1>5. Mild(c)
  BY <1>0, Zenon DEF Local, Sound, Mild, Get, Resolves, Goto, disk, work, lease
<1>6. \A d \in Clients : Sound(d)'
  BY <1>0, <1>2, <1>3, <1>4, <1>5, OthersSound, Zenon DEF IInv
<1>7. QED BY <1>1, <1>2, <1>6, Zenon DEF IInv

\* Register keeps the inductive invariant.
LEMMA RegisterKeeps ==
    ASSUME IInv, OneWriter, NEW c \in Writers, NEW id \in Ids, Register(c, id)
    PROVE  IInv'
<1>0. c \in Clients /\ Disk /\ Local /\ Sound(c)
  BY StoreAssumption, Zenon DEF IInv
<1>1. Disk' /\ Named'
  BY Zenon DEF IInv, Disk, Named, Register, disk
<1>2. Local'
  BY <1>0, StoreAssumption, Zenon DEF Disk, Local, Sound, Register, Goto, disk, work, lease
<1>3. Frame(c)
  BY <1>0, Zenon DEF Frame, Local, Register, Goto, disk, work, lease
<1>4. Sound(c)'
  BY <1>0, StoreAssumption, Zenon DEF Local, Disk, Sound, Writing, Building, Opened, Register, Goto, disk,
     work, lease
<1>5. Mild(c)
  BY <1>0, Zenon DEF Local, Sound, Mild, Register, Goto, disk, work, lease
<1>6. \A d \in Clients : Sound(d)'
  BY <1>0, <1>2, <1>3, <1>4, <1>5, OthersSound, Zenon DEF IInv
<1>7. QED BY <1>1, <1>2, <1>6, Zenon DEF IInv

\* Remove keeps the inductive invariant.
LEMMA RemoveKeeps ==
    ASSUME IInv, OneWriter, NEW c \in Writers, NEW id \in Ids, Remove(c, id)
    PROVE  IInv'
<1>0. c \in Clients /\ Disk /\ Local /\ Sound(c)
  BY StoreAssumption, Zenon DEF IInv
<1>1. Disk' /\ Named'
  BY Zenon DEF IInv, Disk, Named, Remove, disk
<1>2. Local'
  BY <1>0, StoreAssumption, Zenon DEF Disk, Local, Sound, Remove, Resolves, Goto, disk, work, lease
<1>3. Frame(c)
  BY <1>0, Zenon DEF Frame, Local, Remove, Resolves, Goto, disk, work, lease
<1>4. Sound(c)'
  BY <1>0, StoreAssumption, Zenon DEF Local, Disk, Sound, Writing, Building, Opened, Remove, Resolves,
     Goto, disk, work, lease
<1>5. Mild(c)
  BY <1>0, Zenon DEF Local, Sound, Mild, Remove, Resolves, Goto, disk, work, lease
<1>6. \A d \in Clients : Sound(d)'
  BY <1>0, <1>2, <1>3, <1>4, <1>5, OthersSound, Zenon DEF IInv
<1>7. QED BY <1>1, <1>2, <1>6, Zenon DEF IInv

\* Build keeps the inductive invariant.
LEMMA BuildKeeps ==
    ASSUME IInv, OneWriter, NEW c \in Writers, NEW id \in Baked, NEW n \in Names \cup {None}, Build(c, id, n)
    PROVE  IInv'
<1>0. c \in Clients /\ Disk /\ Local /\ Sound(c)
  BY StoreAssumption, Zenon DEF IInv
<1>1. Disk' /\ Named'
  BY Zenon DEF IInv, Disk, Named, Build, disk
<1>2. Local'
  BY <1>0, StoreAssumption, Zenon DEF Disk, Local, Sound, Build, Goto, disk, work, lease
<1>3. Frame(c)
  BY <1>0, Zenon DEF Frame, Local, Build, Goto, disk, work, lease
<1>4. Sound(c)'
  BY <1>0, StoreAssumption, Zenon DEF Local, Disk, Sound, Writing, Building, Opened, Build, Goto, disk, work, lease
<1>5. Mild(c)
  BY <1>0, Zenon DEF Local, Sound, Mild, Build, Goto, disk, work, lease
<1>6. \A d \in Clients : Sound(d)'
  BY <1>0, <1>2, <1>3, <1>4, <1>5, OthersSound, Zenon DEF IInv
<1>7. QED BY <1>1, <1>2, <1>6, Zenon DEF IInv

\* ReadMeta keeps the inductive invariant.
LEMMA ReadMetaKeeps ==
    ASSUME IInv, OneWriter, NEW c \in Clients, ReadMeta(c)
    PROVE  IInv'
<1>0. c \in Clients /\ Disk /\ Local /\ Sound(c)
  BY StoreAssumption, Zenon DEF IInv
<1>1. Disk' /\ Named'
  BY Zenon DEF IInv, Disk, Named, ReadMeta, disk
<1>2. Local'
  <2>1. CASE Return(c) BY <1>0, <2>1, ReturnLocal, Zenon
  <2>2. CASE ~Return(c)
    BY <1>0, <2>2, StoreAssumption, ZenonT(30) DEF Disk, Local, Sound, ReadMeta, Goto, work, lease
  <2>3. QED BY <2>1, <2>2, Zenon
<1>3. Frame(c)
  BY <1>0, Zenon DEF Frame, Local, ReadMeta, Return, Goto, disk, work, lease
<1>4. Sound(c)'
  BY <1>0, StoreAssumption, ZenonT(60) DEF Local, Disk, Sound, Writing, Building, Opened, ReadMeta, Return,
     Goto, disk, work, lease
<1>5. Mild(c)
  BY <1>0, Zenon DEF Local, Sound, Mild, ReadMeta, Return, Goto, disk, work, lease
<1>6. \A d \in Clients : Sound(d)'
  BY <1>0, <1>2, <1>3, <1>4, <1>5, OthersSound, Zenon DEF IInv
<1>7. QED BY <1>1, <1>2, <1>6, Zenon DEF IInv

\* OpenImage keeps the inductive invariant.
LEMMA OpenImageKeeps ==
    ASSUME IInv, OneWriter, NEW c \in Clients, OpenImage(c)
    PROVE  IInv'
<1>0. c \in Clients /\ Disk /\ Local /\ Sound(c)
  BY StoreAssumption, Zenon DEF IInv
<1>1. Disk' /\ Named'
  BY Zenon DEF IInv, Disk, Named, OpenImage, disk
<1>2. Local'
  <2>1. CASE Return(c) BY <1>0, <2>1, ReturnLocal, Zenon
  <2>2. CASE ~Return(c)
    BY <1>0, <2>2, StoreAssumption, ZenonT(30) DEF Disk, Local, Sound, OpenImage, Goto, work, lease
  <2>3. QED BY <2>1, <2>2, Zenon
<1>3. Frame(c)
  BY <1>0, Zenon DEF Frame, Local, OpenImage, Return, Goto, disk, work, lease
<1>4. Sound(c)'
  BY <1>0, StoreAssumption, ZenonT(60) DEF Local, Disk, Sound, Writing, Building, Opened, OpenImage, Return,
     Goto, disk, work, lease
<1>5. Mild(c)
  BY <1>0, Zenon DEF Local, Sound, Mild, OpenImage, Return, Goto, disk, work, lease
<1>6. \A d \in Clients : Sound(d)'
  BY <1>0, <1>2, <1>3, <1>4, <1>5, OthersSound, Zenon DEF IInv
<1>7. QED BY <1>1, <1>2, <1>6, Zenon DEF IInv

\* LockShared keeps the inductive invariant.
LEMMA LockSharedKeeps ==
    ASSUME IInv, OneWriter, NEW c \in Clients, LockShared(c)
    PROVE  IInv'
<1>0. c \in Clients /\ Disk /\ Local /\ Sound(c)
  BY StoreAssumption, Zenon DEF IInv
<1>1. Disk' /\ Named'
  BY Zenon DEF IInv, Disk, Named, LockShared, disk
<1>2. Local'
  BY <1>0, StoreAssumption, Zenon DEF Disk, Local, Sound, LockShared, Goto, disk, work, lease
<1>3. Frame(c)
  BY <1>0, Zenon DEF Frame, Local, LockShared, Goto, disk, work, lease
<1>4. Sound(c)'
  BY <1>0, StoreAssumption, Zenon DEF Local, Disk, Sound, Writing, Building, Opened, LockShared, Goto,
     disk, work, lease
<1>5. Mild(c)
  BY <1>0, Zenon DEF Local, Sound, Mild, LockShared, Goto, disk, work, lease
<1>6. \A d \in Clients : Sound(d)'
  BY <1>0, <1>2, <1>3, <1>4, <1>5, OthersSound, Zenon DEF IInv
<1>7. QED BY <1>1, <1>2, <1>6, Zenon DEF IInv

\* Fail keeps the inductive invariant.
LEMMA FailKeeps ==
    ASSUME IInv, OneWriter, NEW c \in Clients, Fail(c)
    PROVE  IInv'
<1>0. c \in Clients /\ Disk /\ Local /\ Sound(c)
  BY StoreAssumption, Zenon DEF IInv
<1>1. Disk' /\ Named'
  BY Zenon DEF IInv, Disk, Named, Fail, disk
<1>2. Local'
  <2>1. CASE Return(c) BY <1>0, <2>1, ReturnLocal, Zenon
  <2>2. CASE ~Return(c)
    BY <1>0, <2>2, StoreAssumption, Zenon DEF Disk, Local, Sound, Fail, Goto, work, lease
  <2>3. QED BY <2>1, <2>2, Zenon
<1>3. Frame(c)
  BY <1>0, Zenon DEF Frame, Local, Fail, Return, Goto, disk, work, lease
<1>4. Sound(c)'
  BY <1>0, StoreAssumption, ZenonT(60) DEF Local, Disk, Sound, Writing, Building, Opened, Fail, Return, Goto,
     disk, work, lease
<1>5. Mild(c)
  BY <1>0, Zenon DEF Local, Sound, Mild, Fail, Return, Goto, disk, work, lease
<1>6. \A d \in Clients : Sound(d)'
  BY <1>0, <1>2, <1>3, <1>4, <1>5, OthersSound, Zenon DEF IInv
<1>7. QED BY <1>1, <1>2, <1>6, Zenon DEF IInv

\* Drop keeps the inductive invariant.
LEMMA DropKeeps ==
    ASSUME IInv, OneWriter, NEW c \in Clients, Drop(c)
    PROVE  IInv'
<1>0. c \in Clients /\ Disk /\ Local /\ Sound(c)
  BY StoreAssumption, Zenon DEF IInv
<1>1. Disk' /\ Named'
  BY Zenon DEF IInv, Disk, Named, Drop, disk
<1>2. Local'
  BY <1>0, ReturnLocal, Zenon DEF Drop
<1>3. Frame(c)
  BY <1>0, Zenon DEF Frame, Local, Drop, Return, Goto, disk, work, lease
<1>4. Sound(c)'
  BY <1>0, StoreAssumption, Zenon DEF Local, Disk, Sound, Writing, Building, Opened, Drop, Return, Goto,
     disk, work, lease
<1>5. Mild(c)
  BY <1>0, Zenon DEF Local, Sound, Mild, Drop, Return, Goto, disk, work, lease
<1>6. \A d \in Clients : Sound(d)'
  BY <1>0, <1>2, <1>3, <1>4, <1>5, OthersSound, Zenon DEF IInv
<1>7. QED BY <1>1, <1>2, <1>6, Zenon DEF IInv

\* Crash keeps the inductive invariant.
LEMMA CrashKeeps ==
    ASSUME IInv, OneWriter, NEW c \in Clients, Crash(c)
    PROVE  IInv'
<1>0. c \in Clients /\ Disk /\ Local /\ Sound(c)
  BY StoreAssumption, Zenon DEF IInv
<1>1. Disk' /\ Named'
  BY Zenon DEF IInv, Disk, Named, Crash, disk
<1>2. Local'
  BY <1>0, ReturnLocal, Zenon DEF Crash
<1>3. Frame(c)
  BY <1>0, Zenon DEF Frame, Local, Crash, Return, Goto, disk, work, lease
<1>4. Sound(c)'
  BY <1>0, StoreAssumption, Zenon DEF Local, Disk, Sound, Writing, Building, Opened, Crash, Return, Goto,
     disk, work, lease
<1>5. Mild(c)
  BY <1>0, Zenon DEF Local, Sound, Mild, Crash, Return, Goto, disk, work, lease
<1>6. \A d \in Clients : Sound(d)'
  BY <1>0, <1>2, <1>3, <1>4, <1>5, OthersSound, Zenon DEF IInv
<1>7. QED BY <1>1, <1>2, <1>6, Zenon DEF IInv

\* Keep keeps the inductive invariant.
LEMMA KeepKeeps ==
    ASSUME IInv, OneWriter, NEW c \in Writers, Keep(c)
    PROVE  IInv'
<1>0. c \in Clients /\ Disk /\ Local /\ Sound(c)
  BY StoreAssumption, Zenon DEF IInv
<1>1. Disk' /\ Named'
  BY Zenon DEF IInv, Disk, Named, Keep, disk
<1>2. Local'
  BY <1>0, PlaceLocal, Zenon DEF Keep, lease
<1>3. Frame(c)
  BY <1>0, Zenon DEF Frame, Local, Keep, PlaceNext, Goto, disk, work, lease
<1>4. Sound(c)'
  BY <1>0, StoreAssumption, Zenon DEF Local, Disk, Sound, Writing, Building, Opened, Keep, PlaceNext, Goto,
     disk, work, lease
<1>5. Mild(c)
  BY <1>0, Zenon DEF Local, Sound, Mild, Keep, PlaceNext, Goto, disk, work, lease
<1>6. \A d \in Clients : Sound(d)'
  BY <1>0, <1>2, <1>3, <1>4, <1>5, OthersSound, Zenon DEF IInv
<1>7. QED BY <1>1, <1>2, <1>6, Zenon DEF IInv

\* Link keeps the inductive invariant.
LEMMA LinkKeeps ==
    ASSUME IInv, OneWriter, NEW c \in Writers, Link(c)
    PROVE  IInv'
<1>0. c \in Clients /\ Disk /\ Local /\ Sound(c)
  BY StoreAssumption, Zenon DEF IInv
<1>1. Disk' /\ Named'
  <2>1. Placed[nth[c]] \in Files /\ on[c] \in Ids /\ on[c] \in Images
    BY <1>0, StoreAssumption DEF Local, Sound, Placed, Files, Images, Link
  <2>2. QED BY <1>0, <2>1, StoreAssumption, SetsFile, Zenon DEF IInv, Link
<1>2. Local'
  BY <1>0, PlaceLocal, Zenon DEF Link, lease
<1>3. Frame(c)
  BY <1>0, Zenon DEF Frame, Local, Link, PlaceNext, Goto, disk, work, lease
<1>4. Sound(c)'
  BY <1>0, StoreAssumption, Zenon DEF Local, Disk, Sound, Writing, Building, Opened, SetImage, Link,
     PlaceNext, Goto, disk, work, lease
<1>5. Mild(c)
  BY <1>0, Zenon DEF Local, Sound, Mild, Link, PlaceNext, Goto, disk, work, lease
<1>6. \A d \in Clients : Sound(d)'
  BY <1>0, <1>2, <1>3, <1>4, <1>5, OthersSound, Zenon DEF IInv
<1>7. QED BY <1>1, <1>2, <1>6, Zenon DEF IInv

\* Copy keeps the inductive invariant.
LEMMA CopyKeeps ==
    ASSUME IInv, OneWriter, NEW c \in Writers, Copy(c)
    PROVE  IInv'
<1>0. c \in Clients /\ Disk /\ Local /\ Sound(c)
  BY StoreAssumption, Zenon DEF IInv
<1>1. Disk' /\ Named'
  <2>1. Placed[nth[c]] \in Files /\ on[c] \in Ids
    BY <1>0, StoreAssumption DEF Local, Sound, Placed, Files, Copy
  <2>2. Placed[nth[c]] = "ram" => (CHOOSE i \in Free : TRUE) \in Images /\ None \notin Images
    BY StoreAssumption, Zenon DEF Free, Copy, Images
  <2>3. QED BY <1>0, <2>1, <2>2, SetsFile, Zenon DEF IInv, Copy
<1>2. Local'
  BY <1>0, StoreAssumption, Zenon DEF Disk, Local, Sound, Copy, Goto, disk, work, lease
<1>3. Frame(c)
  BY <1>0, Zenon DEF Frame, Local, Copy, Goto, disk, work, lease
<1>4. Sound(c)'
  BY <1>0, StoreAssumption, Zenon DEF Local, Disk, Sound, Writing, Building, Opened, SetImage, Copy, Goto,
     disk, work, lease
<1>5. Mild(c)
  BY <1>0, Zenon DEF Local, Sound, Mild, Copy, Goto, disk, work, lease
<1>6. \A d \in Clients : Sound(d)'
  BY <1>0, <1>2, <1>3, <1>4, <1>5, OthersSound, Zenon DEF IInv
<1>7. QED BY <1>1, <1>2, <1>6, Zenon DEF IInv

\* Copied keeps the inductive invariant.
LEMMA CopiedKeeps ==
    ASSUME IInv, OneWriter, NEW c \in Writers, Copied(c)
    PROVE  IInv'
<1>0. c \in Clients /\ Disk /\ Local /\ Sound(c)
  BY StoreAssumption, Zenon DEF IInv
<1>1. Disk' /\ Named'
  <2>1. Placed[nth[c]] \in Files /\ on[c] \in Ids
    BY <1>0, StoreAssumption DEF Local, Sound, Placed, Files, Copied
  <2>2. QED BY <1>0, <2>1, ZenonT(30) DEF IInv, Disk, Named, Files, Copied
<1>2. Local'
  BY <1>0, PlaceLocal, Zenon DEF Copied, lease
<1>3. Frame(c)
  BY <1>0, Zenon DEF Frame, Local, Copied, PlaceNext, Goto, disk, work, lease
<1>4. Sound(c)'
  BY <1>0, StoreAssumption, Zenon DEF Local, Disk, Sound, Writing, Building, Opened, Copied, PlaceNext,
     Goto, disk, work, lease
<1>5. Mild(c)
  BY <1>0, Zenon DEF Local, Sound, Mild, Copied, PlaceNext, Goto, disk, work, lease
<1>6. \A d \in Clients : Sound(d)'
  BY <1>0, <1>2, <1>3, <1>4, <1>5, OthersSound, Zenon DEF IInv
<1>7. QED BY <1>1, <1>2, <1>6, Zenon DEF IInv

\* RemoveOpen keeps the inductive invariant.
LEMMA RemoveOpenKeeps ==
    ASSUME IInv, OneWriter, NEW c \in Writers, RemoveOpen(c)
    PROVE  IInv'
<1>0. c \in Clients /\ Disk /\ Local /\ Sound(c)
  BY StoreAssumption, Zenon DEF IInv
<1>1. Disk' /\ Named'
  BY Zenon DEF IInv, Disk, Named, RemoveOpen, disk
<1>2. Local'
  <2>1. CASE Return(c) BY <1>0, <2>1, ReturnLocal, Zenon
  <2>2. CASE ~Return(c)
    BY <1>0, <2>2, StoreAssumption, Zenon DEF Disk, Local, Sound, RemoveOpen, Goto, work, lease
  <2>3. QED BY <2>1, <2>2, Zenon
<1>3. Frame(c)
  BY <1>0, Zenon DEF Frame, Local, RemoveOpen, Return, Goto, disk, work, lease
<1>4. Sound(c)'
  <2>1. CASE Return(c) BY <1>0, <2>1, StoreAssumption, Zenon DEF Local, Disk, Sound, Writing, Building,
                          Opened, Return, Goto, RemoveOpen
  <2>2. CASE ~Return(c)
    <3>1. /\ at'[c] = "try" /\ on'[c] = on[c] /\ fd'[c] = image[on[c]] /\ image[on[c]] # None
          /\ UNCHANGED <<image, shared, excl>> /\ at[c] = "remove"
      BY <1>0, <2>2, Zenon DEF Local, Goto, RemoveOpen, disk, work
    <3>2. QED BY <1>0, <3>1, Zenon DEF Sound, Writing, Building, Opened
  <2>3. QED BY <2>1, <2>2, Zenon
<1>5. Mild(c)
  BY <1>0, Zenon DEF Local, Sound, Mild, RemoveOpen, Return, Goto, disk, work, lease
<1>6. \A d \in Clients : Sound(d)'
  BY <1>0, <1>2, <1>3, <1>4, <1>5, OthersSound, Zenon DEF IInv
<1>7. QED BY <1>1, <1>2, <1>6, Zenon DEF IInv

\* TryLock keeps the inductive invariant.
LEMMA TryLockKeeps ==
    ASSUME IInv, OneWriter, NEW c \in Writers, TryLock(c)
    PROVE  IInv'
<1>0. c \in Clients /\ Disk /\ Local /\ Sound(c)
  BY StoreAssumption, Zenon DEF IInv
<1>1. Disk' /\ Named'
  BY Zenon DEF IInv, Disk, Named, TryLock, disk
<1>2. Local'
  <2>1. CASE Return(c) BY <1>0, <2>1, ReturnLocal, Zenon
  <2>2. CASE ~Return(c)
    BY <1>0, <2>2, StoreAssumption, ZenonT(30) DEF Disk, Local, Sound, TryLock, Goto, work, lease
  <2>3. QED BY <2>1, <2>2, Zenon
<1>3. Frame(c)
  BY <1>0, Zenon DEF Frame, Local, TryLock, InUse, Return, Goto, disk, work, lease
<1>4. Sound(c)'
  BY <1>0, StoreAssumption, ZenonT(30) DEF Local, Disk, Sound, Writing, Building, Opened, TryLock, InUse,
     Return, Goto, disk, work, lease
<1>5. Mild(c)
  BY <1>0, Zenon DEF Local, Sound, Mild, TryLock, InUse, Return, Goto, disk, work, lease
<1>6. \A d \in Clients : Sound(d)'
  BY <1>0, <1>2, <1>3, <1>4, <1>5, OthersSound, Zenon DEF IInv
<1>7. QED BY <1>1, <1>2, <1>6, Zenon DEF IInv

\* Unalias keeps the inductive invariant.
LEMMA UnaliasKeeps ==
    ASSUME IInv, OneWriter, NEW c \in Writers, Unalias(c)
    PROVE  IInv'
<1>0. c \in Clients /\ Disk /\ Local /\ Sound(c)
  BY StoreAssumption, Zenon DEF IInv
<1>1. Disk' /\ Named'
  BY Zenon DEF IInv, Disk, Named, Unalias, disk
<1>2. Local'
  BY <1>0, StoreAssumption, Zenon DEF Disk, Local, Sound, Unalias, ListDir, Goto, disk, work, lease
<1>3. Frame(c)
  BY <1>0, Zenon DEF Frame, Local, Unalias, ListDir, Goto, disk, work, lease
<1>4. Sound(c)'
  BY <1>0, StoreAssumption, ZenonT(30) DEF Local, Disk, Sound, Writing, Building, Opened, Unalias, ListDir,
     Goto, disk, work, lease
<1>5. Mild(c)
  BY <1>0, Zenon DEF Local, Sound, Mild, Unalias, ListDir, Goto, disk, work, lease
<1>6. \A d \in Clients : Sound(d)'
  BY <1>0, <1>2, <1>3, <1>4, <1>5, OthersSound, Zenon DEF IInv
<1>7. QED BY <1>1, <1>2, <1>6, Zenon DEF IInv

\* Unlink keeps the inductive invariant.
LEMMA UnlinkKeeps ==
    ASSUME IInv, OneWriter, NEW c \in Writers, NEW f \in Files, Unlink(c, f)
    PROVE  IInv'
<1>0. c \in Clients /\ Disk /\ Local /\ Sound(c)
  BY StoreAssumption, Zenon DEF IInv
<1>1. Disk' /\ Named'
  <2>1. on[c] \in Ids
    BY <1>0, Zenon DEF Sound, Unlink
  <2>2. QED BY <1>0, <2>1, StoreAssumption, SetsFile, Zenon DEF IInv, Unlink
<1>2. Local'
  BY <1>0, StoreAssumption, Zenon DEF Disk, Local, Sound, Unlink, Goto, disk, work, lease
<1>3. Frame(c)
  BY <1>0, Zenon DEF Frame, Local, Unlink, Goto, disk, work, lease
<1>4. Sound(c)'
  BY <1>0, StoreAssumption, ZenonT(30) DEF Local, Disk, Sound, Writing, Building, Opened, SetImage, Unlink,
     Goto, disk, work, lease
<1>5. Mild(c)
  BY <1>0, Zenon DEF Local, Sound, Mild, Unlink, Goto, disk, work, lease
<1>6. \A d \in Clients : Sound(d)'
  BY <1>0, <1>2, <1>3, <1>4, <1>5, OthersSound, Zenon DEF IInv
<1>7. QED BY <1>1, <1>2, <1>6, Zenon DEF IInv

\* Rmdir keeps the inductive invariant.
LEMMA RmdirKeeps ==
    ASSUME IInv, OneWriter, NEW c \in Writers, Rmdir(c)
    PROVE  IInv'
<1>0. c \in Clients /\ Disk /\ Local /\ Sound(c)
  BY StoreAssumption, Zenon DEF IInv
<1>1. Disk' /\ Named'
  BY Zenon DEF IInv, Disk, Named, Rmdir, disk
<1>2. Local'
  BY <1>0, ReturnLocal, Zenon DEF Rmdir
<1>3. Frame(c)
  BY <1>0, Zenon DEF Frame, Local, Rmdir, Return, Goto, disk, work, lease
<1>4. Sound(c)'
  BY <1>0, StoreAssumption, Zenon DEF Local, Disk, Sound, Writing, Building, Opened, Rmdir, Return, Goto,
     disk, work, lease
<1>5. Mild(c)
  BY <1>0, Zenon DEF Local, Sound, Mild, Rmdir, Return, Goto, disk, work, lease
<1>6. \A d \in Clients : Sound(d)'
  BY <1>0, <1>2, <1>3, <1>4, <1>5, OthersSound, Zenon DEF IInv
<1>7. QED BY <1>1, <1>2, <1>6, Zenon DEF IInv

\* Boot keeps the inductive invariant.
LEMMA BootKeeps ==
    ASSUME IInv, OneWriter, NEW c \in Writers, Boot(c)
    PROVE  IInv'
<1>0. c \in Clients /\ Disk /\ Local /\ Sound(c)
  BY StoreAssumption, Zenon DEF IInv
<1>1. Disk' /\ Named'
  BY Zenon DEF IInv, Disk, Named, Boot, disk
<1>2. Local'
  BY <1>0, StoreAssumption, Zenon DEF Disk, Local, Sound, Boot, Goto, disk, work, lease
<1>3. Frame(c)
  BY <1>0, Zenon DEF Frame, Local, Boot, Goto, disk, work, lease
<1>4. Sound(c)'
  BY <1>0, StoreAssumption, ZenonT(30) DEF Local, Disk, Sound, Writing, Building, Opened, Boot, Goto, disk, work, lease
<1>5. Mild(c)
  BY <1>0, Zenon DEF Local, Sound, Mild, Boot, Goto, disk, work, lease
<1>6. \A d \in Clients : Sound(d)'
  BY <1>0, <1>2, <1>3, <1>4, <1>5, OthersSound, Zenon DEF IInv
<1>7. QED BY <1>1, <1>2, <1>6, Zenon DEF IInv

\* Capture keeps the inductive invariant.
LEMMA CaptureKeeps ==
    ASSUME IInv, OneWriter, NEW c \in Writers, Capture(c)
    PROVE  IInv'
<1>0. c \in Clients /\ Disk /\ Local /\ Sound(c)
  BY StoreAssumption, Zenon DEF IInv
<1>1. Disk' /\ Named'
  BY Zenon DEF IInv, Disk, Named, Capture, disk
<1>2. Local'
  BY <1>0, StoreAssumption, ZenonT(30) DEF Disk, Local, Sound, Capture, Goto, disk, work, lease
<1>3. Frame(c)
  BY <1>0, Zenon DEF Frame, Local, Capture, Goto, disk, work, lease
<1>4. Sound(c)'
  BY <1>0, StoreAssumption, Zenon DEF Local, Disk, Sound, Writing, Building, Opened, Capture, Goto, disk, work, lease
<1>5. Mild(c)
  BY <1>0, Zenon DEF Local, Sound, Mild, Capture, Goto, disk, work, lease
<1>6. \A d \in Clients : Sound(d)'
  BY <1>0, <1>2, <1>3, <1>4, <1>5, OthersSound, Zenon DEF IInv
<1>7. QED BY <1>1, <1>2, <1>6, Zenon DEF IInv

\* StopAndWait keeps the inductive invariant.
LEMMA StopAndWaitKeeps ==
    ASSUME IInv, OneWriter, NEW c \in Writers, StopAndWait(c)
    PROVE  IInv'
<1>0. c \in Clients /\ Disk /\ Local /\ Sound(c)
  BY StoreAssumption, Zenon DEF IInv
<1>1. Disk' /\ Named'
  BY Zenon DEF IInv, Disk, Named, StopAndWait, disk
<1>2. Local'
  BY <1>0, StoreAssumption, Zenon DEF Disk, Local, Sound, StopAndWait, Goto, disk, work, lease
<1>3. Frame(c)
  BY <1>0, Zenon DEF Frame, Local, StopAndWait, Goto, disk, work, lease
<1>4. Sound(c)'
  BY <1>0, StoreAssumption, ZenonT(30) DEF Local, Disk, Sound, Writing, Building, Opened, StopAndWait, Goto,
     disk, work, lease
<1>5. Mild(c)
  BY <1>0, Zenon DEF Local, Sound, Mild, StopAndWait, Goto, disk, work, lease
<1>6. \A d \in Clients : Sound(d)'
  BY <1>0, <1>2, <1>3, <1>4, <1>5, OthersSound, Zenon DEF IInv
<1>7. QED BY <1>1, <1>2, <1>6, Zenon DEF IInv

\* Bake keeps the inductive invariant.
LEMMA BakeKeeps ==
    ASSUME IInv, OneWriter, NEW c \in Writers, Bake(c)
    PROVE  IInv'
<1>0. c \in Clients /\ Disk /\ Local /\ Sound(c)
  BY StoreAssumption, Zenon DEF IInv
<1>1. Disk' /\ Named'
  BY Zenon DEF IInv, Disk, Named, Bake, disk
<1>2. Local'
  BY <1>0, StoreAssumption, ZenonT(30) DEF Disk, Local, Sound, Bake, ListDir, Goto, disk, work, lease
<1>3. Frame(c)
  BY <1>0, Zenon DEF Frame, Local, Bake, ListDir, Goto, disk, work, lease
<1>4. Sound(c)'
  BY <1>0, StoreAssumption, ZenonT(30) DEF Local, Disk, Sound, Writing, Building, Opened, Bake, ListDir, Goto,
     disk, work, lease
<1>5. Mild(c)
  BY <1>0, Zenon DEF Local, Sound, Mild, Bake, ListDir, Goto, disk, work, lease
<1>6. \A d \in Clients : Sound(d)'
  BY <1>0, <1>2, <1>3, <1>4, <1>5, OthersSound, Zenon DEF IInv
<1>7. QED BY <1>1, <1>2, <1>6, Zenon DEF IInv

\* Replaced keeps the inductive invariant.
LEMMA ReplacedKeeps ==
    ASSUME IInv, OneWriter, NEW c \in Writers, Replaced(c)
    PROVE  IInv'
<1>0. c \in Clients /\ Disk /\ Local /\ Sound(c)
  BY StoreAssumption, Zenon DEF IInv
<1>1. Disk' /\ Named'
  BY Zenon DEF IInv, Disk, Named, Replaced, disk
<1>2. Local'
  BY <1>0, StoreAssumption, Zenon DEF Disk, Local, Sound, Replaced, Goto, disk, work, lease
<1>3. Frame(c)
  BY <1>0, Zenon DEF Frame, Local, Replaced, Goto, disk, work, lease
<1>4. Sound(c)'
  BY <1>0, StoreAssumption, Zenon DEF Local, Disk, Sound, Writing, Building, Opened, Replaced, Goto, disk,
     work, lease
<1>5. Mild(c)
  BY <1>0, Zenon DEF Local, Sound, Mild, Replaced, Goto, disk, work, lease
<1>6. \A d \in Clients : Sound(d)'
  BY <1>0, <1>2, <1>3, <1>4, <1>5, OthersSound, Zenon DEF IInv
<1>7. QED BY <1>1, <1>2, <1>6, Zenon DEF IInv

\* Rename keeps the inductive invariant.
LEMMA RenameKeeps ==
    ASSUME IInv, OneWriter, NEW c \in Writers, Rename(c)
    PROVE  IInv'
<1>0. c \in Clients /\ Disk /\ Local /\ Sound(c)
  BY StoreAssumption, Zenon DEF IInv
<1>1. Disk' /\ Named'
  <2>1. on[c] \in Ids
    BY <1>0, Zenon DEF Sound, Rename
  <2>2. (CHOOSE i \in Free : TRUE) \in Images /\ None \notin Images
    BY StoreAssumption, Zenon DEF Free, Rename, Images
  <2>3. QED BY <1>0, <2>1, <2>2, Zenon DEF IInv, Disk, Named, Files, Rename
<1>2. Local'
  BY <1>0, StoreAssumption, Zenon DEF Disk, Local, Sound, Rename, Goto, disk, work, lease
<1>3. Frame(c)
  BY <1>0, Zenon DEF Frame, Local, Rename, Goto, disk, work, lease
<1>4. Sound(c)'
  BY <1>0, StoreAssumption, Zenon DEF Local, Disk, Sound, Writing, Building, Opened, Rename, Goto, disk, work, lease
<1>5. Mild(c)
  BY <1>0, Zenon DEF Local, Sound, Mild, Rename, Goto, disk, work, lease
<1>6. \A d \in Clients : Sound(d)'
  BY <1>0, <1>2, <1>3, <1>4, <1>5, OthersSound, Zenon DEF IInv
<1>7. QED BY <1>1, <1>2, <1>6, Zenon DEF IInv

\* LinkAlias keeps the inductive invariant.
LEMMA LinkAliasKeeps ==
    ASSUME IInv, OneWriter, NEW c \in Writers, LinkAlias(c)
    PROVE  IInv'
<1>0. c \in Clients /\ Disk /\ Local /\ Sound(c)
  BY StoreAssumption, Zenon DEF IInv
<1>1. Disk' /\ Named'
  BY Zenon DEF IInv, Disk, Named, LinkAlias, disk
<1>2. Local'
  BY <1>0, StoreAssumption, Zenon DEF Disk, Local, Sound, LinkAlias, Goto, disk, work, lease
<1>3. Frame(c)
  BY <1>0, Zenon DEF Frame, Local, LinkAlias, Goto, disk, work, lease
<1>4. Sound(c)'
  BY <1>0, StoreAssumption, ZenonT(30) DEF Local, Disk, Sound, Writing, Building, Opened, LinkAlias, Goto, disk,
     work, lease
<1>5. Mild(c)
  BY <1>0, Zenon DEF Local, Sound, Mild, LinkAlias, Goto, disk, work, lease
<1>6. \A d \in Clients : Sound(d)'
  BY <1>0, <1>2, <1>3, <1>4, <1>5, OthersSound, Zenon DEF IInv
<1>7. QED BY <1>1, <1>2, <1>6, Zenon DEF IInv

\* Cleanup keeps the inductive invariant.
LEMMA CleanupKeeps ==
    ASSUME IInv, OneWriter, NEW c \in Writers, Cleanup(c)
    PROVE  IInv'
<1>0. c \in Clients /\ Disk /\ Local /\ Sound(c)
  BY StoreAssumption, Zenon DEF IInv
<1>1. Disk' /\ Named'
  BY Zenon DEF IInv, Disk, Named, Cleanup, disk
<1>2. Local'
  BY <1>0, ReturnLocal, Zenon DEF Cleanup
<1>3. Frame(c)
  BY <1>0, Zenon DEF Frame, Local, Cleanup, Return, Goto, disk, work, lease
<1>4. Sound(c)'
  BY <1>0, StoreAssumption, Zenon DEF Local, Disk, Sound, Writing, Building, Opened, Cleanup, Return, Goto,
     disk, work, lease
<1>5. Mild(c)
  BY <1>0, Zenon DEF Local, Sound, Mild, Cleanup, Return, Goto, disk, work, lease
<1>6. \A d \in Clients : Sound(d)'
  BY <1>0, <1>2, <1>3, <1>4, <1>5, OthersSound, Zenon DEF IInv
<1>7. QED BY <1>1, <1>2, <1>6, Zenon DEF IInv

----------------------------------------------------------------------------
(* Every step is one of ImageLease or changes none of its variables.        *)

Maps == [Leases!Next]_(Leases!vars)

\* A step that changes no image, no descriptor and no lock is a stutter of the lease.
LEMMA StutterMaps == ASSUME UNCHANGED <<image, fd, shared>> PROVE Maps
BY Zenon DEF Maps, Leases!vars

\* Closing the files of a call gives up its lease.
LEMMA ReturnMaps ==
    ASSUME IInv, NEW c \in Clients, Return(c), UNCHANGED image
    PROVE  Maps
<1>1. Local /\ Sound(c) BY Zenon DEF IInv
<1>2. CASE fd[c] = None
  <2>1. c \notin shared BY <1>1, <1>2, Zenon DEF Sound, Opened
  <2>2. fd' = fd /\ shared' = shared
    BY <1>1, <1>2, <2>1, Zenon DEF Local, Return
  <2>3. QED BY <2>2, StutterMaps, Zenon
<1>3. CASE fd[c] # None
  <2>1. Leases!Close(c) BY <1>3, Zenon DEF Return, Leases!Close
  <2>2. QED BY <2>1, Zenon DEF Maps, Leases!Next
<1>4. QED BY <1>2, <1>3, Zenon

\* Opening an image is an Open of the lease, and giving up a Close.
LEMMA OpenMaps ==
    ASSUME IInv, NEW c \in Clients, OpenImage(c)
    PROVE  Maps
<1>1. CASE Return(c) BY <1>1, ReturnMaps, Zenon DEF OpenImage, disk
<1>2. CASE ~Return(c)
  <2>1. on[c] \in Ids /\ fd[c] = None BY Zenon DEF IInv, Sound, Opened, OpenImage
  <2>2. Leases!Open(c, on[c]) BY <1>2, <2>1, Zenon DEF OpenImage, disk, Leases!Open
  <2>3. QED BY <2>1, <2>2, Zenon DEF Maps, Leases!Next
<1>3. QED BY <1>1, <1>2, Zenon

\* So is the open of a removal.
LEMMA RemoveOpenMaps ==
    ASSUME IInv, NEW c \in Clients, RemoveOpen(c)
    PROVE  Maps
<1>1. CASE Return(c) BY <1>1, ReturnMaps, Zenon DEF RemoveOpen, disk
<1>2. CASE ~Return(c)
  <2>1. on[c] \in Ids /\ fd[c] = None BY Zenon DEF IInv, Sound, Opened, RemoveOpen
  <2>2. Leases!Open(c, on[c]) BY <1>2, <2>1, Zenon DEF RemoveOpen, disk, Leases!Open
  <2>3. QED BY <2>1, <2>2, Zenon DEF Maps, Leases!Next
<1>3. QED BY <1>1, <1>2, Zenon

\* The shared lock is the lease.
LEMMA LockMaps ==
    ASSUME IInv, NEW c \in Clients, LockShared(c)
    PROVE  Maps
<1>1. fd[c] # None /\ c \notin shared BY Zenon DEF IInv, Sound, Opened, LockShared
<1>2. Leases!Lease(c) BY <1>1, Zenon DEF LockShared, disk, Leases!Lease
<1>3. QED BY <1>2, Zenon DEF Maps, Leases!Next

\* Giving id a ram.img publishes its image.
LEMMA SetMaps ==
    ASSUME NEW id \in Ids, NEW f, NEW i, f = "ram" => i \in Images /\ image[id] = None,
           SetImage(id, f, i), UNCHANGED <<fd, shared>>
    PROVE  Maps
<1>1. CASE f = "ram"
  <2>1. Leases!Publish(id, i) BY <1>1, Zenon DEF SetImage, Leases!Publish
  <2>2. QED BY <1>1, <2>1, Zenon DEF Maps, Leases!Next
<1>2. CASE f # "ram" BY <1>2, StutterMaps, Zenon DEF SetImage
<1>3. QED BY <1>1, <1>2, Zenon

\* A link publishes the image it names.
LEMMA LinkMaps ==
    ASSUME IInv, NEW c \in Clients, Link(c)
    PROVE  Maps
<1>1. on[c] \in Ids /\ on[c] \in Images BY Zenon DEF IInv, Sound, Link, Images
<1>2. Placed[nth[c]] = "ram" => image[on[c]] = None BY <1>1, Zenon DEF IInv, Named, Link
<1>3. QED BY <1>1, <1>2, SetMaps, Zenon DEF Link, lease

\* A copy publishes an image of its own.
LEMMA CopyMaps ==
    ASSUME IInv, NEW c \in Clients, Copy(c)
    PROVE  Maps
<1>1. on[c] \in Ids BY Zenon DEF IInv, Sound, Copy
<1>2. Placed[nth[c]] = "ram" => image[on[c]] = None BY <1>1, Zenon DEF IInv, Named, Copy
<1>3. Placed[nth[c]] = "ram" => (CHOOSE i \in Free : TRUE) \in Images BY Zenon DEF Free, Copy, Images
<1>4. QED BY <1>1, <1>2, <1>3, SetMaps, Zenon DEF Copy, lease

\* The rename of a build publishes what it built.
LEMMA RenameMaps ==
    ASSUME IInv, NEW c \in Clients, Rename(c)
    PROVE  Maps
<1>1. on[c] \in Ids BY Zenon DEF IInv, Sound, Rename
<1>2. image[on[c]] = None BY <1>1, Zenon DEF IInv, Named, Rename, Empty, Files
<1>3. (CHOOSE i \in Free : TRUE) \in Images BY Zenon DEF Free, Rename, Images
<1>4. Leases!Publish(on[c], CHOOSE i \in Free : TRUE) BY <1>2, Zenon DEF Rename, lease, Leases!Publish
<1>5. QED BY <1>1, <1>3, <1>4, Zenon DEF Maps, Leases!Next

\* remove unlinks the image it holds alone, a build that of an id it may bake.
LEMMA UnlinkMaps ==
    ASSUME IInv, NEW c \in Clients, NEW f \in Files, Unlink(c, f)
    PROVE  Maps
<1>1. on[c] \in Ids /\ Sound(c) /\ Disk BY Zenon DEF IInv, Sound, Unlink
<1>2. CASE f # "ram" BY <1>2, StutterMaps, Zenon DEF Unlink, SetImage, lease
<1>3. CASE f = "ram" /\ image[on[c]] = None
  <2>1. image' = image BY <1>1, <1>3, Zenon DEF Unlink, SetImage, Disk
  <2>2. QED BY <2>1, StutterMaps, Zenon DEF Unlink, lease
<1>4. CASE f = "ram" /\ image[on[c]] # None
  <2>1. on[c] \in Baked \/ \A d \in shared : fd[d] # image[on[c]]
    BY <1>1, <1>4, ZenonT(30) DEF Unlink, Sound, Building
  <2>2. Leases!Retire(on[c]) BY <1>4, <2>1, Zenon DEF Unlink, SetImage, lease, Leases!Retire
  <2>3. QED BY <1>1, <2>2, Zenon DEF Maps, Leases!Next
<1>5. QED BY <1>2, <1>3, <1>4, Zenon

----------------------------------------------------------------------------

\* A step of the store keeps the inductive invariant and maps to a step of the
\* leases.
LEMMA StepOK ==
    ASSUME IInv, OneWriter, [Next]_vars
    PROVE  IInv' /\ Maps
<1>1. ASSUME NEW c \in Clients, NEW id \in Ids, Get(c, id) PROVE IInv' /\ Maps
  BY <1>1, GetKeeps, StutterMaps, StoreAssumption, Zenon DEF Get, disk, lease
<1>2. ASSUME NEW c \in Writers, NEW id \in Ids, Register(c, id) PROVE IInv' /\ Maps
  BY <1>2, RegisterKeeps, StutterMaps, StoreAssumption, Zenon DEF Register, disk, lease
<1>3. ASSUME NEW c \in Writers, NEW id \in Ids, Remove(c, id) PROVE IInv' /\ Maps
  BY <1>3, RemoveKeeps, StutterMaps, StoreAssumption, Zenon DEF Remove, disk, lease
<1>4. ASSUME NEW c \in Writers, NEW id \in Baked, NEW n \in Names \cup {None}, Build(c, id, n) PROVE IInv' /\ Maps
  BY <1>4, BuildKeeps, StutterMaps, StoreAssumption, Zenon DEF Build, disk, lease
<1>5. ASSUME NEW c \in Clients, ReadMeta(c) PROVE IInv' /\ Maps
  BY <1>5, ReadMetaKeeps, ReturnMaps, StutterMaps, StoreAssumption, Zenon DEF ReadMeta, disk, lease
<1>6. ASSUME NEW c \in Clients, OpenImage(c) PROVE IInv' /\ Maps
  BY <1>6, OpenImageKeeps, OpenMaps, StoreAssumption, Zenon
<1>7. ASSUME NEW c \in Clients, LockShared(c) PROVE IInv' /\ Maps
  BY <1>7, LockSharedKeeps, LockMaps, StoreAssumption, Zenon
<1>8. ASSUME NEW c \in Clients, Fail(c) PROVE IInv' /\ Maps
  BY <1>8, FailKeeps, ReturnMaps, StutterMaps, StoreAssumption, Zenon DEF Fail, disk, lease
<1>9. ASSUME NEW c \in Clients, Drop(c) PROVE IInv' /\ Maps
  BY <1>9, DropKeeps, ReturnMaps, StoreAssumption, Zenon DEF Drop, disk
<1>10. ASSUME NEW c \in Clients, Crash(c) PROVE IInv' /\ Maps
  BY <1>10, CrashKeeps, ReturnMaps, StoreAssumption, Zenon DEF Crash, disk
<1>11. ASSUME NEW c \in Writers, Keep(c) PROVE IInv' /\ Maps
  BY <1>11, KeepKeeps, StutterMaps, StoreAssumption, Zenon DEF Keep, disk, lease
<1>12. ASSUME NEW c \in Writers, Link(c) PROVE IInv' /\ Maps
  BY <1>12, LinkKeeps, LinkMaps, StoreAssumption, Zenon
<1>13. ASSUME NEW c \in Writers, Copy(c) PROVE IInv' /\ Maps
  BY <1>13, CopyKeeps, CopyMaps, StoreAssumption, Zenon
<1>14. ASSUME NEW c \in Writers, Copied(c) PROVE IInv' /\ Maps
  BY <1>14, CopiedKeeps, StutterMaps, StoreAssumption, Zenon DEF Copied, disk, lease
<1>15. ASSUME NEW c \in Writers, RemoveOpen(c) PROVE IInv' /\ Maps
  BY <1>15, RemoveOpenKeeps, RemoveOpenMaps, StoreAssumption, Zenon
<1>16. ASSUME NEW c \in Writers, TryLock(c) PROVE IInv' /\ Maps
  BY <1>16, TryLockKeeps, ReturnMaps, StutterMaps, StoreAssumption, Zenon DEF TryLock, disk, lease
<1>17. ASSUME NEW c \in Writers, Unalias(c) PROVE IInv' /\ Maps
  BY <1>17, UnaliasKeeps, StutterMaps, StoreAssumption, Zenon DEF Unalias, disk, lease
<1>18. ASSUME NEW c \in Writers, NEW f \in Files, Unlink(c, f) PROVE IInv' /\ Maps
  BY <1>18, UnlinkKeeps, UnlinkMaps, StoreAssumption, Zenon
<1>19. ASSUME NEW c \in Writers, Rmdir(c) PROVE IInv' /\ Maps
  BY <1>19, RmdirKeeps, ReturnMaps, StoreAssumption, Zenon DEF Rmdir, disk
<1>20. ASSUME NEW c \in Writers, Boot(c) PROVE IInv' /\ Maps
  BY <1>20, BootKeeps, StutterMaps, StoreAssumption, Zenon DEF Boot, disk, lease
<1>21. ASSUME NEW c \in Writers, Capture(c) PROVE IInv' /\ Maps
  BY <1>21, CaptureKeeps, StutterMaps, StoreAssumption, Zenon DEF Capture, disk, lease
<1>22. ASSUME NEW c \in Writers, StopAndWait(c) PROVE IInv' /\ Maps
  BY <1>22, StopAndWaitKeeps, StutterMaps, StoreAssumption, Zenon DEF StopAndWait, disk, lease
<1>23. ASSUME NEW c \in Writers, Bake(c) PROVE IInv' /\ Maps
  BY <1>23, BakeKeeps, StutterMaps, StoreAssumption, Zenon DEF Bake, disk, lease
<1>24. ASSUME NEW c \in Writers, Replaced(c) PROVE IInv' /\ Maps
  BY <1>24, ReplacedKeeps, StutterMaps, StoreAssumption, Zenon DEF Replaced, disk, lease
<1>25. ASSUME NEW c \in Writers, Rename(c) PROVE IInv' /\ Maps
  BY <1>25, RenameKeeps, RenameMaps, StoreAssumption, Zenon
<1>26. ASSUME NEW c \in Writers, LinkAlias(c) PROVE IInv' /\ Maps
  BY <1>26, LinkAliasKeeps, StutterMaps, StoreAssumption, Zenon DEF LinkAlias, disk, lease
<1>27. ASSUME NEW c \in Writers, Cleanup(c) PROVE IInv' /\ Maps
  BY <1>27, CleanupKeeps, ReturnMaps, StoreAssumption, Zenon DEF Cleanup, disk
<1>28. CASE UNCHANGED vars
  BY <1>28, StutterMaps, ZenonT(30) DEF vars, disk, work, lease, IInv, Disk, Local, Named, Sound
<1>29. QED
  BY <1>1, <1>2, <1>3, <1>4, <1>5, <1>6, <1>7, <1>8, <1>9, <1>10, <1>11, <1>12, <1>13, <1>14, <1>15,
     <1>16, <1>17, <1>18, <1>19, <1>20, <1>21, <1>22, <1>23, <1>24, <1>25, <1>26, <1>27, <1>28,
     StoreAssumption, ZenonT(30) DEF Next, Step, Call

\* One process at a time changing it, the store implements ImageLease: no image
\* is unlinked while a client holds it, whatever fails or crashes in between.
THEOREM StoreImplements == OneWriter => (Spec => Implements)
<1> SUFFICES ASSUME OneWriter PROVE Spec => Implements
  OBVIOUS
<1>1. Init => Leases!Init
  BY Zenon DEF Init, Leases!Init
<1>2. IInv /\ [Next]_vars => IInv' /\ [Leases!Next]_(Leases!vars)
  BY StepOK, Zenon DEF Maps
<1>3. QED BY <1>1, <1>2, InitIInv, PTL DEF Spec, Implements, Leases!Spec

----------------------------------------------------------------------------
(* What the calls leave behind.                                             *)

Staged == {"boot", "capture", "captured", "not captured", "bake", "replace", "rename", "cleanup"}

\* A build has directories outside the templates, and runs its guest, only
\* while it is at the steps that clean them up.
Stages ==
    /\ stage = [c \in Clients |-> stage[c]]
    /\ \A c \in Clients : at[c] \notin Staged => stage[c] = {}
    /\ guest \subseteq {c \in Clients : at[c] \in {"capture", "captured", "not captured"}}

\* Only a copy across filesystems is ever torn, so that an image opened where
\* there is none was whole.
Untorn ==
    /\ found = [c \in Clients |-> found[c]]
    /\ \A id \in Ids \ CrossFs, f \in Files : file[id][f] # "torn"
    /\ \A c \in Clients : at[c] \in {"lock", "have"} /\ on[c] \notin CrossFs => found[c] = "whole"

\* An alias leads to a directory with a template.json, and to none that is being
\* taken apart; a build links one once its directory is there.
Leading ==
    /\ alias \in [Names -> Ids \cup {None}] /\ name \in [Clients -> Names \cup {None}]
    /\ \A id \in Ids, f \in Files : file[id][f] # "none" => id \in made
    /\ \A n \in Names : alias[n] # None => file[alias[n]]["meta"] # "none"
    /\ \A c \in Clients :
           /\ at[c] \in {"sweep", "replace", "rename"} => \A n \in Names : alias[n] # on[c]
           /\ at[c] = "alias" => file[on[c]]["meta"] # "none"

\* When c changes the store, nobody else is at a step that Leading speaks of.
Alone(c) ==
    \A d \in Clients :
        d # c => at[d] \notin {"sweep", "replace", "rename", "alias"} \/ c \notin Writers

\* A build that returns has cleaned up (build, stop_and_wait).
LEMMA StagesKeep ==
    ASSUME Local, Stages, [Next]_vars
    PROVE  Stages'
<1>1. CASE UNCHANGED vars
  BY <1>1, ZenonT(30) DEF vars, disk, work, lease, boot, Local, Stages, Staged
<1>2. ASSUME NEW c \in Clients, Step(c) \/ Call(c) \/ Drop(c) \/ Fail(c) \/ Crash(c) PROVE Stages'
  <2>0. Local /\ Stages
    OBVIOUS
  <2>1. CASE \E id \in Ids : Get(c, id)
    BY <2>1, <2>0, ZenonT(30) DEF Local, Stages, Staged, Get, Goto, disk, lease, boot
  <2>2. CASE c \in Writers /\ (\E id \in Ids : Register(c, id))
    BY <2>2, <2>0, ZenonT(30) DEF Local, Stages, Staged, Register, Goto, lease, boot
  <2>3. CASE c \in Writers /\ (\E id \in Ids : Remove(c, id))
    BY <2>3, <2>0, ZenonT(30) DEF Local, Stages, Staged, Remove, Goto, disk, lease, boot
  <2>4. CASE c \in Writers /\ (\E id \in Baked, n \in Names \cup {None} : Build(c, id, n))
    BY <2>4, <2>0, ZenonT(30) DEF Local, Stages, Staged, Build, Goto, disk, lease
  <2>5. CASE ReadMeta(c)
    BY <2>5, <2>0, Zenon DEF Local, Stages, Staged, ReadMeta, Goto, Return, disk, work, lease, boot
  <2>6. CASE OpenImage(c)
    BY <2>6, <2>0, ZenonT(30) DEF Local, Stages, Staged, OpenImage, Goto, Return, disk, work, boot
  <2>7. CASE LockShared(c)
    BY <2>7, <2>0, Zenon DEF Local, Stages, Staged, LockShared, Goto, disk, work, boot
  <2>8. CASE c \in Writers /\ Keep(c)
    BY <2>8, <2>0, Zenon DEF Local, Stages, Staged, Keep, PlaceNext, Goto, disk, lease, boot
  <2>9. CASE c \in Writers /\ Link(c)
    BY <2>9, <2>0, Zenon DEF Local, Stages, Staged, Link, SetFile, PlaceNext, Goto, lease, boot
  <2>10. CASE c \in Writers /\ Copy(c)
    BY <2>10, <2>0, Zenon DEF Local, Stages, Staged, Copy, SetFile, Goto, work, lease, boot
  <2>11. CASE c \in Writers /\ Copied(c)
    BY <2>11, <2>0, Zenon DEF Local, Stages, Staged, Copied, PlaceNext, Goto, lease, boot
  <2>12. CASE c \in Writers /\ RemoveOpen(c)
    BY <2>12, <2>0, ZenonT(60) DEF Local, Stages, Staged, RemoveOpen, Goto, Return, disk, work, boot
  <2>13. CASE c \in Writers /\ TryLock(c)
    BY <2>13, <2>0, Zenon DEF Local, Stages, Staged, TryLock, Goto, Return, disk, work, boot
  <2>14. CASE c \in Writers /\ Unalias(c)
    BY <2>14, <2>0, Zenon DEF Local, Stages, Staged, Unalias, Goto, lease, boot
  <2>15. CASE c \in Writers /\ (\E f \in Files : Unlink(c, f))
    BY <2>15, <2>0, Zenon DEF Local, Stages, Staged, Unlink, SetFile, lease, boot
  <2>16. CASE c \in Writers /\ Rmdir(c)
    BY <2>16, <2>0, Zenon DEF Local, Stages, Staged, Rmdir, Empty, Return, Goto, boot
  <2>17. CASE c \in Writers /\ Boot(c)
    BY <2>17, <2>0, ZenonT(30) DEF Local, Stages, Staged, Boot, Goto, disk, work, lease
  <2>18. CASE c \in Writers /\ Capture(c)
    BY <2>18, <2>0, Zenon DEF Local, Stages, Staged, Capture, Goto, disk, work, lease, boot
  <2>19. CASE c \in Writers /\ StopAndWait(c)
    BY <2>19, <2>0, ZenonT(30) DEF Local, Stages, Staged, StopAndWait, Goto, disk, work, lease
  <2>20. CASE c \in Writers /\ Bake(c)
    BY <2>20, <2>0, ZenonT(30) DEF Local, Stages, Staged, Bake, Goto, disk, lease
  <2>21. CASE c \in Writers /\ Replaced(c)
    BY <2>21, <2>0, Zenon DEF Local, Stages, Staged, Replaced, Empty, Goto, work, lease, boot
  <2>22. CASE c \in Writers /\ Rename(c)
    BY <2>22, <2>0, Zenon DEF Local, Stages, Staged, Rename, Goto, work, lease
  <2>23. CASE c \in Writers /\ LinkAlias(c)
    BY <2>23, <2>0, Zenon DEF Local, Stages, Staged, LinkAlias, Goto, work, lease, boot
  <2>24. CASE c \in Writers /\ Cleanup(c)
    BY <2>24, <2>0, Zenon DEF Local, Stages, Staged, Cleanup, Return, Goto, disk
  <2>25. CASE Drop(c)
    BY <2>25, <2>0, Zenon DEF Local, Stages, Staged, Drop, Return, Goto, disk, boot
  <2>26. CASE Fail(c)
    BY <2>26, <2>0, ZenonT(60) DEF Local, Stages, Staged, Fail, Return, Goto, disk, work, lease, boot
  <2>27. CASE Crash(c)
    BY <2>27, <2>0, Zenon DEF Local, Stages, Staged, Crash, Return, Goto, disk
  <2>99. QED BY <1>2, <2>1, <2>2, <2>3, <2>4, <2>5, <2>6, <2>7, <2>8, <2>9, <2>10, <2>11, <2>12,
                <2>13, <2>14, <2>15, <2>16, <2>17, <2>18, <2>19, <2>20, <2>21, <2>22, <2>23, <2>24,
                <2>25, <2>26, <2>27, ZenonT(30) DEF Step, Call
<1>3. QED BY <1>1, <1>2, Zenon DEF Next

\* No step but a copy across filesystems leaves a file torn (place).
LEMMA UntornKeep ==
    ASSUME IInv, Untorn, [Next]_vars
    PROVE  Untorn'
<1>1. CASE UNCHANGED vars
  BY <1>1, Zenon DEF vars, disk, work, lease, boot, Local, Disk, Untorn
<1>2. ASSUME NEW c \in Clients, Step(c) \/ Call(c) \/ Drop(c) \/ Fail(c) \/ Crash(c) PROVE Untorn'
  <2>0. Disk /\ Named /\ Local /\ Sound(c) /\ Untorn
    BY <1>2, Zenon DEF IInv
  <2>1. CASE \E id \in Ids : Get(c, id)
    BY <2>1, <2>0 DEF Local, Disk, Untorn, Get, Goto, disk, lease, boot
  <2>2. CASE c \in Writers /\ (\E id \in Ids : Register(c, id))
    BY <2>2, <2>0 DEF Local, Disk, Untorn, Register, Goto, lease, boot
  <2>3. CASE c \in Writers /\ (\E id \in Ids : Remove(c, id))
    BY <2>3, <2>0 DEF Local, Disk, Untorn, Remove, Goto, disk, lease, boot
  <2>4. CASE c \in Writers /\ (\E id \in Baked, n \in Names \cup {None} : Build(c, id, n))
    BY <2>4, <2>0 DEF Local, Disk, Untorn, Build, Goto, disk, lease
  <2>5. CASE ReadMeta(c)
    BY <2>5, <2>0, SMTT(60) DEF Local, Disk, Untorn, ReadMeta, Goto, Return, disk, work, lease, boot
  <2>6. CASE OpenImage(c)
    <3>1. on[c] \in Ids
      BY <2>6, <2>0, Zenon DEF Sound, OpenImage
    <3>2. image[on[c]] # None => file[on[c]]["ram"] # "none"
      BY <2>0, <3>1, Zenon DEF Named
    <3>3. file[on[c]]["ram"] \in {"none", "torn", "whole"}
      BY <2>0, <3>1, Zenon DEF Disk, Files
    <3>4. on[c] \notin CrossFs /\ image[on[c]] # None => file[on[c]]["ram"] = "whole"
      BY <2>0, <3>1, <3>2, <3>3, Zenon DEF Untorn, Files
    <3>5. CASE Return(c)
      BY <2>6, <2>0, <3>5, Zenon DEF Untorn, Local, OpenImage, Return, Goto, disk
    <3>6. CASE ~Return(c)
      BY <2>6, <2>0, <3>4, <3>6, ZenonT(60) DEF Untorn, Local, OpenImage, Goto, disk, work
    <3>7. QED BY <3>5, <3>6, Zenon
  <2>7. CASE LockShared(c)
    BY <2>7, <2>0, Zenon DEF Local, Disk, Untorn, LockShared, Goto, disk, work, boot
  <2>8. CASE c \in Writers /\ Keep(c)
    BY <2>8, <2>0, Zenon DEF Local, Disk, Untorn, Keep, PlaceNext, Goto, disk, lease, boot
  <2>9. CASE c \in Writers /\ Link(c)
    BY <2>9, <2>0, ZenonT(60) DEF Local, Disk, Untorn, Link, SetFile, PlaceNext, Goto, lease, boot
  <2>10. CASE c \in Writers /\ Copy(c)
    BY <2>10, <2>0, Zenon DEF Local, Disk, Untorn, Copy, SetFile, Goto, work, lease, boot
  <2>11. CASE c \in Writers /\ Copied(c)
    BY <2>11, <2>0, ZenonT(30) DEF Local, Disk, Untorn, Copied, PlaceNext, Goto, lease, boot
  <2>12. CASE c \in Writers /\ RemoveOpen(c)
    BY <2>12, <2>0 DEF Local, Disk, Untorn, RemoveOpen, Goto, Return, disk, work, boot
  <2>13. CASE c \in Writers /\ TryLock(c)
    BY <2>13, <2>0 DEF Local, Disk, Untorn, TryLock, Goto, Return, disk, work, boot
  <2>14. CASE c \in Writers /\ Unalias(c)
    BY <2>14, <2>0, Zenon DEF Local, Disk, Untorn, Unalias, Goto, lease, boot
  <2>15. CASE c \in Writers /\ (\E f \in Files : Unlink(c, f))
    BY <2>15, <2>0 DEF Local, Disk, Untorn, Unlink, SetFile, lease, boot
  <2>16. CASE c \in Writers /\ Rmdir(c)
    BY <2>16, <2>0, Zenon DEF Local, Disk, Untorn, Rmdir, Empty, Return, Goto, boot
  <2>17. CASE c \in Writers /\ Boot(c)
    BY <2>17, <2>0, Zenon DEF Local, Disk, Untorn, Boot, Goto, disk, work, lease
  <2>18. CASE c \in Writers /\ Capture(c)
    BY <2>18, <2>0, Zenon DEF Local, Disk, Untorn, Capture, Goto, disk, work, lease, boot
  <2>19. CASE c \in Writers /\ StopAndWait(c)
    BY <2>19, <2>0, Zenon DEF Local, Disk, Untorn, StopAndWait, Goto, disk, work, lease
  <2>20. CASE c \in Writers /\ Bake(c)
    BY <2>20, <2>0, Zenon DEF Local, Disk, Untorn, Bake, Goto, disk, lease
  <2>21. CASE c \in Writers /\ Replaced(c)
    BY <2>21, <2>0, Zenon DEF Local, Disk, Untorn, Replaced, Empty, Goto, work, lease, boot
  <2>22. CASE c \in Writers /\ Rename(c)
    BY <2>22, <2>0, Zenon DEF Local, Disk, Untorn, Rename, Goto, work, lease
  <2>23. CASE c \in Writers /\ LinkAlias(c)
    BY <2>23, <2>0, Zenon DEF Local, Disk, Untorn, LinkAlias, Goto, work, lease, boot
  <2>24. CASE c \in Writers /\ Cleanup(c)
    BY <2>24, <2>0, Zenon DEF Local, Disk, Untorn, Cleanup, Return, Goto, disk
  <2>25. CASE Drop(c)
    BY <2>25, <2>0, Zenon DEF Local, Disk, Untorn, Drop, Return, Goto, disk, boot
  <2>26. CASE Fail(c)
    BY <2>26, <2>0, ZenonT(60) DEF Local, Disk, Untorn, Fail, Return, Goto, disk, work, lease, boot
  <2>27. CASE Crash(c)
    BY <2>27, <2>0, Zenon DEF Local, Disk, Untorn, Crash, Return, Goto, disk
  <2>99. QED BY <1>2, <2>1, <2>2, <2>3, <2>4, <2>5, <2>6, <2>7, <2>8, <2>9, <2>10, <2>11, <2>12,
                <2>13, <2>14, <2>15, <2>16, <2>17, <2>18, <2>19, <2>20, <2>21, <2>22, <2>23, <2>24,
                <2>25, <2>26, <2>27, ZenonT(30) DEF Step, Call
<1>3. QED BY <1>1, <1>2, Zenon DEF Next

\* A copy that ends adds no file and takes none.
LEMMA WholeKeeps ==
    ASSUME Disk, NEW i, NEW g, file' = [file EXCEPT ![i][g] = IF @ = "torn" THEN "whole" ELSE @],
           NEW id \in Ids, NEW f \in Files
    PROVE  file'[id][f] # "none" <=> file[id][f] # "none"
<1>1. file'[id] = IF id = i THEN [file[id] EXCEPT ![g] = IF @ = "torn" THEN "whole" ELSE @] ELSE file[id]
  BY Zenon DEF Disk
<1>2. file[id] \in [Files -> {"none", "torn", "whole"}]
  BY Zenon DEF Disk
<1>3. QED BY <1>1, <1>2, SMTT(30)

\* A step that changes no directory and no alias keeps Leading when it brings nobody
\* to a step that Leading speaks of;
LEMMA LeadingStays ==
    ASSUME Leading, made' = made, file' = file, alias' = alias, name' \in [Clients -> Names \cup {None}],
           \A d \in Clients : at'[d] \in {"sweep", "replace", "rename", "alias"} =>
               at'[d] = at[d] /\ on'[d] = on[d]
    PROVE  Leading'
BY ZenonT(30) DEF Leading

\* the end of a call is such a step,
LEMMA ReturnLeads ==
    ASSUME NEW c \in Clients, Local, Leading, Return(c), UNCHANGED disk
    PROVE  Leading'
<1>1. made' = made /\ file' = file /\ alias' = alias
  BY Zenon DEF disk
<1>2. name' \in [Clients -> Names \cup {None}]
  BY ZenonT(30) DEF Return, Leading
<1>3. \A d \in Clients : at'[d] \in {"sweep", "replace", "rename", "alias"} =>
         at'[d] = at[d] /\ on'[d] = on[d]
  BY ZenonT(30) DEF Return, Goto, Local
<1>4. QED BY <1>1, <1>2, <1>3, LeadingStays, Zenon

\* and so is going on to another step.
LEMMA GotoLeads ==
    ASSUME NEW c \in Clients, NEW step, Local, Leading, Goto(c, step), UNCHANGED disk,
           on' = on, name' = name,
           step \notin {"sweep", "replace", "rename", "alias"}
    PROVE  Leading'
<1>1. made' = made /\ file' = file /\ alias' = alias /\ on' = on /\ name' = name
  BY Zenon DEF disk
<1>2. \A d \in Clients : at'[d] \in {"sweep", "replace", "rename", "alias"} => at'[d] = at[d]
  BY ZenonT(30) DEF Goto, Local
<1>3. name' \in [Clients -> Names \cup {None}]
  BY <1>1, Zenon DEF Leading
<1>4. QED BY <1>1, <1>2, <1>3, LeadingStays, Zenon

\* An alias comes last and goes first (link_alias, remove).
LEMMA LeadingKeep ==
    ASSUME OneWriter, IInv, Leading, [Next]_vars
    PROVE  Leading'
<1>1. CASE UNCHANGED vars
  BY <1>1, Zenon DEF vars, disk, work, lease, boot, Local, Disk, Leading, Alone
<1>2. ASSUME NEW c \in Clients, Step(c) \/ Call(c) \/ Drop(c) \/ Fail(c) \/ Crash(c) PROVE Leading'
  <2>00. Alone(c)
    BY <1>2, Zenon DEF Alone, IInv, Sound, Writing, Building, OneWriter
  <2>0. Disk /\ Named /\ Local /\ Sound(c) /\ Leading /\ Alone(c)
    BY <1>2, <2>00, Zenon DEF IInv
  <2>1. CASE \E id \in Ids : Get(c, id)
    BY <2>1, <2>0, ZenonT(60) DEF Local, Disk, Leading, Alone, Get, Goto, disk, lease, boot
  <2>2. CASE c \in Writers /\ (\E id \in Ids : Register(c, id))
    BY <2>2, <2>0, ZenonT(30) DEF Local, Disk, Leading, Alone, Register, Goto, lease, boot
  <2>3. CASE c \in Writers /\ (\E id \in Ids : Remove(c, id))
    BY <2>3, <2>0, ZenonT(60) DEF Local, Disk, Leading, Alone, Remove, Goto, disk, lease, boot
  <2>4. CASE c \in Writers /\ (\E id \in Baked, n \in Names \cup {None} : Build(c, id, n))
    <3>1. PICK id \in Baked, n \in Names \cup {None} : Build(c, id, n)
      BY <2>4, Zenon
    <3>2. made' = made /\ file' = file /\ alias' = alias /\ name' \in [Clients -> Names \cup {None}]
      BY <2>0, <3>1, ZenonT(30) DEF Build, Leading, disk
    <3>3. \A d \in Clients : at'[d] \in {"sweep", "replace", "rename", "alias"} =>
             at'[d] = at[d] /\ on'[d] = on[d]
      BY <2>0, <3>1, ZenonT(30) DEF Build, Goto, Local
    <3>4. QED BY <2>0, <3>2, <3>3, LeadingStays, Zenon
  <2>5. CASE ReadMeta(c)
    <3>1. UNCHANGED disk /\ (Return(c) \/ (Goto(c, "open") /\ on' = on /\ name' = name))
      BY <2>5, Zenon DEF ReadMeta, work
    <3>2. QED BY <2>0, <3>1, ReturnLeads, GotoLeads, Zenon
  <2>6. CASE OpenImage(c)
    <3>1. UNCHANGED disk /\ (Return(c) \/ (Goto(c, "lock") /\ on' = on /\ name' = name))
      BY <2>6, Zenon DEF OpenImage, work
    <3>2. QED BY <2>0, <3>1, ReturnLeads, GotoLeads, Zenon
  <2>7. CASE LockShared(c)
    BY <2>7, <2>0, Zenon DEF Local, Disk, Leading, Alone, LockShared, Goto, disk, work, boot
  <2>8. CASE c \in Writers /\ Keep(c)
    BY <2>8, <2>0, Zenon DEF Local, Disk, Leading, Alone, Keep, PlaceNext, Goto, disk, lease, boot
  <2>9. CASE c \in Writers /\ Link(c)
    <3>1. /\ file' = [file EXCEPT ![on[c]][Placed[nth[c]]] = "whole"] /\ on[c] \in made
          /\ made' = made /\ alias' = alias /\ on' = on /\ name' = name
      BY <2>9, Zenon DEF Link, SetFile
    <3>2. \A id \in Ids, f \in Files :
             /\ file'[id][f] # "none" => file[id][f] # "none" \/ id \in made
             /\ file[id][f] # "none" => file'[id][f] # "none"
      BY <2>0, <3>1, SMTT(30) DEF Disk
    <3>3. \A d \in Clients : at'[d] \notin {"sweep", "replace", "rename", "alias"}
      BY <2>9, <2>0, ZenonT(30) DEF Local, Alone, Link, PlaceNext, Goto
    <3>4. "meta" \in Files
      BY Zenon DEF Files
    <3>5. \A id \in Ids, f \in Files : file'[id][f] # "none" => id \in made'
      BY <2>0, <3>1, <3>2, Zenon DEF Leading
    <3>6. \A n \in Names : alias'[n] # None => file'[alias'[n]]["meta"] # "none"
      BY <2>0, <3>1, <3>2, <3>4, Zenon DEF Leading
    <3>7. QED BY <2>0, <3>1, <3>3, <3>5, <3>6, Zenon DEF Leading
  <2>10. CASE c \in Writers /\ Copy(c)
    <3>1. /\ file' = [file EXCEPT ![on[c]][Placed[nth[c]]] = "torn"] /\ on[c] \in made
          /\ made' = made /\ alias' = alias /\ on' = on /\ name' = name
      BY <2>10, Zenon DEF Copy, SetFile, work
    <3>2. \A id \in Ids, f \in Files :
             /\ file'[id][f] # "none" => file[id][f] # "none" \/ id \in made
             /\ file[id][f] # "none" => file'[id][f] # "none"
      BY <2>0, <3>1, SMTT(30) DEF Disk
    <3>3. \A d \in Clients : at'[d] \notin {"sweep", "replace", "rename", "alias"}
      BY <2>10, <2>0, ZenonT(30) DEF Local, Alone, Copy, Goto
    <3>4. "meta" \in Files
      BY Zenon DEF Files
    <3>5. \A id \in Ids, f \in Files : file'[id][f] # "none" => id \in made'
      BY <2>0, <3>1, <3>2, Zenon DEF Leading
    <3>6. \A n \in Names : alias'[n] # None => file'[alias'[n]]["meta"] # "none"
      BY <2>0, <3>1, <3>2, <3>4, ZenonT(30) DEF Leading
    <3>7. QED BY <2>0, <3>1, <3>3, <3>5, <3>6, Zenon DEF Leading
  <2>11. CASE c \in Writers /\ Copied(c)
    <3>1. /\ file' = [file EXCEPT ![on[c]][Placed[nth[c]]] = IF @ = "torn" THEN "whole" ELSE @]
          /\ made' = made /\ alias' = alias /\ on' = on /\ name' = name
      BY <2>11, Zenon DEF Copied
    <3>2. \A id \in Ids, f \in Files :
             /\ file'[id][f] # "none" => file[id][f] # "none"
             /\ file[id][f] # "none" => file'[id][f] # "none"
      BY <2>0, <3>1, WholeKeeps, Zenon
    <3>3. \A d \in Clients : at'[d] \notin {"sweep", "replace", "rename", "alias"}
      BY <2>11, <2>0, ZenonT(30) DEF Local, Alone, Copied, PlaceNext, Goto
    <3>4. "meta" \in Files
      BY Zenon DEF Files
    <3>5. \A id \in Ids, f \in Files : file'[id][f] # "none" => id \in made'
      BY <2>0, <3>1, <3>2, Zenon DEF Leading
    <3>6. \A n \in Names : alias'[n] # None => file'[alias'[n]]["meta"] # "none"
      BY <2>0, <3>1, <3>2, <3>4, Zenon DEF Leading
    <3>7. QED BY <2>0, <3>1, <3>3, <3>5, <3>6, Zenon DEF Leading
  <2>12. CASE c \in Writers /\ RemoveOpen(c)
    <3>1. CASE Return(c)
      BY <2>12, <2>0, <3>1, Zenon DEF Local, Leading, Alone, RemoveOpen, Return, Goto, disk
    <3>2. CASE ~Return(c)
      BY <2>12, <2>0, <3>2, ZenonT(30) DEF Local, Leading, Alone, RemoveOpen, Goto, disk, work
    <3>3. QED BY <3>1, <3>2, Zenon
  <2>13. CASE c \in Writers /\ TryLock(c)
    BY <2>13, <2>0 DEF Local, Disk, Leading, Alone, TryLock, Goto, Return, disk, work, boot
  <2>14. CASE c \in Writers /\ Unalias(c)
    BY <2>14, <2>0, ZenonT(30) DEF Local, Disk, Leading, Alone, Unalias, Goto, lease, boot
  <2>15. CASE c \in Writers /\ (\E f \in Files : Unlink(c, f))
    BY <2>15, <2>0, SMTT(60) DEF Local, Disk, Leading, Alone, Unlink, SetFile, lease, boot
  <2>16. CASE c \in Writers /\ Rmdir(c)
    BY <2>16, <2>0, Zenon DEF Local, Disk, Leading, Alone, Rmdir, Empty, Return, Goto, boot
  <2>17. CASE c \in Writers /\ Boot(c)
    BY <2>17, <2>0, ZenonT(30) DEF Local, Disk, Leading, Alone, Boot, Goto, disk, work, lease
  <2>18. CASE c \in Writers /\ Capture(c)
    BY <2>18, <2>0, ZenonT(30) DEF Local, Disk, Leading, Alone, Capture, Goto, disk, work, lease, boot
  <2>19. CASE c \in Writers /\ StopAndWait(c)
    BY <2>19, <2>0, ZenonT(30) DEF Local, Disk, Leading, Alone, StopAndWait, Goto, disk, work, lease
  <2>20. CASE c \in Writers /\ Bake(c)
    <3>1. on[c] \in Ids
      BY <2>20, <2>0, ZenonT(30) DEF Sound, Bake
    <3>2. file[on[c]]["meta"] = "none" => \A n \in Names : alias[n] # on[c]
      BY <2>0, <3>1, StoreAssumption, ZenonT(30) DEF Leading
    <3>3. QED BY <2>20, <2>0, <3>1, <3>2, ZenonT(60) DEF Alone, Local, Leading, Bake, Goto, disk, lease
  <2>21. CASE c \in Writers /\ Replaced(c)
    BY <2>21, <2>0, ZenonT(30) DEF Local, Disk, Leading, Alone, Replaced, Empty, Goto, work, lease, boot
  <2>22. CASE c \in Writers /\ Rename(c)
    <3>1. on[c] \in Ids /\ "meta" \in Files
      BY <2>22, <2>0, ZenonT(30) DEF Sound, Rename, Files
    <3>2. file'[on[c]]["meta"] # "none"
      BY <2>22, <2>0, <3>1, ZenonT(30) DEF Disk, Rename
    <3>3. \A id \in Ids, f \in Files : file'[id][f] # "none" => id \in made'
      BY <2>22, <2>0, <3>1, ZenonT(30) DEF Leading, Disk, Rename
    <3>4. \A n \in Names : alias[n] # None => file'[alias[n]]["meta"] # "none"
      BY <2>22, <2>0, <3>1, <3>2, Zenon DEF Leading, Disk, Rename
    <3>5. QED BY <2>22, <2>0, <3>1, <3>2, <3>3, <3>4, ZenonT(30)
             DEF Alone, Local, Leading, Rename, Goto, work, lease
  <2>23. CASE c \in Writers /\ LinkAlias(c)
    <3>1. /\ on[c] \in Ids /\ file[on[c]]["meta"] # "none" /\ at[c] = "alias" /\ c \in Clients
          /\ file' = file /\ made' = made /\ on' = on /\ name' = name
      BY <2>23, <2>0, Zenon DEF Sound, Leading, LinkAlias, work
    <3>2. alias' \in [Names -> Ids \cup {None}] /\ \A n \in Names : alias'[n] \in {alias[n], on[c], None}
      BY <2>23, <2>0, <3>1, ZenonT(30) DEF Leading, LinkAlias
    <3>3. \A d \in Clients : at'[d] \in {"sweep", "replace", "rename", "alias"} => d = c /\ at'[d] = "alias"
      BY <2>23, <2>0, <3>1, ZenonT(30) DEF Local, Alone, LinkAlias, Goto
    <3>4. \A n \in Names : alias'[n] # None => file'[alias'[n]]["meta"] # "none"
      BY <2>0, <3>1, <3>2, Zenon DEF Leading
    <3>5. QED BY <2>0, <3>1, <3>2, <3>3, <3>4, ZenonT(30) DEF Leading
  <2>24. CASE c \in Writers /\ Cleanup(c)
    BY <2>24, <2>0, Zenon DEF Local, Disk, Leading, Alone, Cleanup, Return, Goto, disk
  <2>25. CASE Drop(c)
    BY <2>25, <2>0, Zenon DEF Local, Disk, Leading, Alone, Drop, Return, Goto, disk, boot
  <2>26. CASE Fail(c)
    <3>1. UNCHANGED disk /\ (Return(c) \/ (Goto(c, "cleanup") /\ on' = on /\ name' = name))
      BY <2>26, Zenon DEF Fail, work
    <3>2. QED BY <2>0, <3>1, ReturnLeads, GotoLeads, Zenon
  <2>27. CASE Crash(c)
    BY <2>27, <2>0, Zenon DEF Local, Disk, Leading, Alone, Crash, Return, Goto, disk
  <2>99. QED BY <1>2, <2>1, <2>2, <2>3, <2>4, <2>5, <2>6, <2>7, <2>8, <2>9, <2>10, <2>11, <2>12,
                <2>13, <2>14, <2>15, <2>16, <2>17, <2>18, <2>19, <2>20, <2>21, <2>22, <2>23, <2>24,
                <2>25, <2>26, <2>27, ZenonT(30) DEF Step, Call
<1>3. QED BY <1>1, <1>2, Zenon DEF Next

\* One process at a time changing the store, an image opened where nothing was
\* copied is whole, every alias leads to a directory, and a build that returned
\* has left no guest and no directory beside the templates, whatever failed or
\* crashed in it.
THEOREM StoreIsSound == OneWriter => (Spec => []StoreSound)
<1> SUFFICES ASSUME OneWriter PROVE Spec => []StoreSound
  OBVIOUS
<1> DEFINE J == IInv /\ Stages /\ Untorn /\ Leading
<1>1. Init => J
  <2> SUFFICES ASSUME Init PROVE J
    OBVIOUS
  <2>1. Stages BY Zenon DEF Init, Stages
  <2>2. Untorn BY Zenon DEF Init, Untorn
  <2>3. Leading BY Zenon DEF Init, Leading
  <2>4. QED BY <2>1, <2>2, <2>3, InitIInv, Zenon
<1>2. J /\ [Next]_vars => J'
  <2> SUFFICES ASSUME J, [Next]_vars PROVE J'
    OBVIOUS
  <2>1. IInv' BY StepOK, Zenon
  <2>2. Stages' BY StagesKeep, Zenon DEF IInv
  <2>3. Untorn' BY UntornKeep, Zenon
  <2>4. Leading' BY LeadingKeep, Zenon
  <2>5. QED BY <2>1, <2>2, <2>3, <2>4, Zenon
<1>3. J => StoreSound
  <2> SUFFICES ASSUME J PROVE StoreSound
    OBVIOUS
  <2>1. HeldIsWhole BY Zenon DEF Untorn, HeldIsWhole
  <2>2. AliasLeads BY Zenon DEF Leading, AliasLeads, Files
  <2>3. BuildLeavesNothing BY Zenon DEF Stages, Staged, BuildLeavesNothing
  <2>4. QED BY <2>1, <2>2, <2>3, Zenon DEF StoreSound
<1>4. QED BY <1>1, <1>2, <1>3, PTL DEF Spec
=============================================================================
