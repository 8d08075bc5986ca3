---------------------------- MODULE ImageLease -----------------------------
(***************************************************************************)
(* What the template store promises its clients about RAM images: an image *)
(* is published under its id in one step, a client that has opened one may *)
(* take a lease on it, and an image somebody leases is not taken away.  An *)
(* id in Baked is exempt from the last: a build replaces a directory it    *)
(* finds incomplete without asking who uses it.                            *)
(***************************************************************************)
CONSTANTS Ids, Baked, Clients, Images, None

VARIABLES
    image,   \* the image each id leads to, or None
    opened,  \* the image each client has open, or None
    leased   \* the clients whose lease is granted

vars == <<image, opened, leased>>

Init ==
    /\ image = [id \in Ids |-> None]
    /\ opened = [c \in Clients |-> None]
    /\ leased = {}

Publish(id, i) ==
    /\ image[id] = None
    /\ image' = [image EXCEPT ![id] = i]
    /\ UNCHANGED <<opened, leased>>

Retire(id) ==
    /\ image[id] # None
    /\ id \in Baked \/ \A c \in leased : opened[c] # image[id]
    /\ image' = [image EXCEPT ![id] = None]
    /\ UNCHANGED <<opened, leased>>

Open(c, id) ==
    /\ opened[c] = None /\ image[id] # None
    /\ opened' = [opened EXCEPT ![c] = image[id]]
    /\ UNCHANGED <<image, leased>>

Lease(c) ==
    /\ opened[c] # None /\ c \notin leased
    /\ leased' = leased \cup {c}
    /\ UNCHANGED <<image, opened>>

Close(c) ==
    /\ opened[c] # None
    /\ opened' = [opened EXCEPT ![c] = None]
    /\ leased' = leased \ {c}
    /\ UNCHANGED image

Next ==
    \/ \E id \in Ids : Retire(id) \/ \E i \in Images : Publish(id, i)
    \/ \E c \in Clients : Lease(c) \/ Close(c) \/ \E id \in Ids : Open(c, id)

Spec == Init /\ [][Next]_vars
=============================================================================
