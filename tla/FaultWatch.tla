---------------------------- MODULE FaultWatch -----------------------------
(***************************************************************************)
(* The table of watched mappings (src/lingcore/src/mem/fault.rs): clones   *)
(* of a template map their RAM image and take an entry each, free it when  *)
(* the memory is dropped, and the SIGBUS handler of a thread that touched  *)
(* a lost page scans the table while other threads change it.              *)
(*                                                                         *)
(* Every load and store is a step.  Addresses are pages, page 0 is never   *)
(* mapped.  A clone has one region; a clone dropped may be made again,     *)
(* anywhere the kernel finds room.                                         *)
(***************************************************************************)
EXTENDS Naturals

CONSTANTS WATCHED,   \* entries of the table
          Pages,     \* mappable pages are 1 .. Pages
          Clones,    \* file-backed GuestRams
          Nobody     \* not a clone

ASSUME WatchAssumption == WATCHED \in Nat \ {0} /\ Pages \in Nat /\ Nobody \notin Clones

Slots == 1 .. WATCHED

VARIABLES
    taken, hit,  \* the entries with that flag set
    start, len,  \* the range of each entry
    pc,      \* where each clone is between mapping and freeing its entry
    base,    \* first page of its mapping
    size,    \* pages of its mapping
    slot,    \* the entry it took, or the one `of` looks at; 0 for none
    fault,   \* where the handler on a thread of the clone is
    addr,    \* the faulting page
    scan,    \* the entry the handler looks at
    seen,    \* the start it read there
    calm,    \* what other clones did to their entries since the handler began
    exited   \* the clone whose handler ended the process, or Nobody

watch == <<taken, hit, start, len>>
clone == <<pc, base, size, slot>>
handler == <<fault, addr, scan, seen, calm>>
vars == <<watch, clone, handler, exited>>

Init ==
    /\ taken = {}
    /\ start = [i \in Slots |-> 0]
    /\ len = [i \in Slots |-> 0]
    /\ hit = {}
    /\ pc = [c \in Clones |-> "absent"]
    /\ base = [c \in Clones |-> 0]
    /\ size = [c \in Clones |-> 0]
    /\ slot = [c \in Clones |-> 0]
    /\ fault = [c \in Clones |-> "none"]
    /\ addr = [c \in Clones |-> 0]
    /\ scan = [c \in Clones |-> 0]
    /\ seen = [c \in Clones |-> 0]
    /\ calm = [c \in Clones |-> "still"]
    /\ exited = Nobody

Mapped(c) == pc[c] \in {"claim", "hit", "len", "start", "live"}
Freeing(c) == pc[c] \in {"unmapped", "drop len", "drop taken"}

----------------------------------------------------------------------------
(* GuestRam::cloned_from and Watched::of.                                    *)

Map(c, first, count) ==
    /\ pc[c] = "absent"
    /\ first + count <= Pages + 1
    /\ \A d \in Clones : Mapped(d) => first + count <= base[d] \/ base[d] + size[d] <= first
    /\ pc' = [pc EXCEPT ![c] = "claim"]
    /\ base' = [base EXCEPT ![c] = first]
    /\ size' = [size EXCEPT ![c] = count]
    /\ slot' = [slot EXCEPT ![c] = 1]
    /\ UNCHANGED <<watch, handler, exited>>

\* Mutant: the entry is taken without looking.
ClaimAny(c) ==
    /\ pc[c] = "claim"
    /\ IF slot[c] > WATCHED
       THEN pc' = [pc EXCEPT ![c] = "live"] /\ slot' = [slot EXCEPT ![c] = 0] /\ taken' = taken
       ELSE /\ taken' = taken \cup {slot[c]}
            /\ pc' = [pc EXCEPT ![c] = "hit"] /\ slot' = slot
    /\ UNCHANGED <<start, len, hit, base, size, handler, exited>>

\* One compare_exchange; past the last entry the range is left unwatched.
Claim(c) ==
    /\ pc[c] = "claim"
    /\ \/ /\ slot[c] > WATCHED
          /\ pc' = [pc EXCEPT ![c] = "live"] /\ slot' = [slot EXCEPT ![c] = 0] /\ taken' = taken
       \/ /\ slot[c] \in Slots \ taken
          /\ taken' = taken \cup {slot[c]}
          /\ pc' = [pc EXCEPT ![c] = "hit"] /\ slot' = slot
       \/ /\ slot[c] \in taken
          /\ taken' = taken /\ pc' = pc /\ slot' = [slot EXCEPT ![c] = @ + 1]
    /\ UNCHANGED <<start, len, hit, base, size, handler, exited>>

ClearHit(c) ==
    /\ pc[c] = "hit"
    /\ hit' = hit \ {slot[c]}
    /\ pc' = [pc EXCEPT ![c] = "len"]
    /\ UNCHANGED <<taken, start, len, base, size, slot, handler, exited>>

StoreLen(c) ==
    /\ pc[c] = "len"
    /\ len' = [len EXCEPT ![slot[c]] = size[c]]
    /\ pc' = [pc EXCEPT ![c] = "start"]
    /\ UNCHANGED <<taken, start, hit, base, size, slot, handler, exited>>

StoreStart(c) ==
    /\ pc[c] = "start"
    /\ start' = [start EXCEPT ![slot[c]] = base[c]]
    /\ pc' = [pc EXCEPT ![c] = "live"]
    /\ UNCHANGED <<taken, len, hit, base, size, slot, handler, exited>>

----------------------------------------------------------------------------
(* Drop of GuestRam: the mapping goes first, then the entry.                 *)

\* No thread of the clone is left, a thread in the handler holds the memory.
Unmap(c) ==
    /\ pc[c] = "live" /\ fault[c] = "none"
    /\ pc' = [pc EXCEPT ![c] = IF slot[c] = 0 THEN "absent" ELSE "unmapped"]
    /\ calm' = [d \in Clones |-> IF calm[d] = "still" THEN "freed" ELSE calm[d]]
    /\ UNCHANGED <<watch, base, size, slot, fault, addr, scan, seen, exited>>

DropStart(c) ==
    /\ pc[c] = "unmapped"
    /\ start' = [start EXCEPT ![slot[c]] = 0]
    /\ pc' = [pc EXCEPT ![c] = "drop len"]
    /\ UNCHANGED <<taken, len, hit, base, size, slot, handler, exited>>

DropLen(c) ==
    /\ pc[c] = "drop len"
    /\ len' = [len EXCEPT ![slot[c]] = 0]
    /\ pc' = [pc EXCEPT ![c] = "drop taken"]
    /\ UNCHANGED <<taken, start, hit, base, size, slot, handler, exited>>

DropTaken(c) ==
    /\ pc[c] = "drop taken"
    /\ taken' = taken \ {slot[c]}
    /\ pc' = [pc EXCEPT ![c] = "absent"]
    /\ slot' = [slot EXCEPT ![c] = 0]
    /\ UNCHANGED <<start, len, hit, base, size, handler, exited>>

----------------------------------------------------------------------------
(* on_bus, on the thread that touched a lost page of clone c.                *)

Fault(c, page) ==
    /\ pc[c] = "live" /\ fault[c] = "none"
    /\ page >= base[c] /\ page < base[c] + size[c]
    /\ fault' = [fault EXCEPT ![c] = "taken"]
    /\ addr' = [addr EXCEPT ![c] = page]
    /\ scan' = [scan EXCEPT ![c] = 1]
    /\ calm' = [calm EXCEPT ![c] = IF \E d \in Clones : Freeing(d) THEN "freeing" ELSE "still"]
    /\ UNCHANGED <<watch, clone, seen, exited>>

\* Mutant: the last entry is not looked at.
ReadTakenShort(c) ==
    /\ fault[c] = "taken"
    /\ \/ scan[c] >= WATCHED /\ exited' = c /\ UNCHANGED <<fault, scan>>
       \/ /\ scan[c] < WATCHED /\ scan[c] \notin taken
          /\ scan' = [scan EXCEPT ![c] = @ + 1] /\ UNCHANGED <<fault, exited>>
       \/ /\ scan[c] < WATCHED /\ scan[c] \in taken
          /\ fault' = [fault EXCEPT ![c] = "start"] /\ UNCHANGED <<scan, exited>>
    /\ UNCHANGED <<watch, clone, addr, seen, calm>>

\* A free entry is passed over; past the last one the process ends.
ReadTaken(c) ==
    /\ fault[c] = "taken"
    /\ \/ scan[c] > WATCHED /\ exited' = c /\ UNCHANGED <<fault, scan>>
       \/ /\ scan[c] \in Slots \ taken
          /\ scan' = [scan EXCEPT ![c] = @ + 1] /\ UNCHANGED <<fault, exited>>
       \/ /\ scan[c] \in taken
          /\ fault' = [fault EXCEPT ![c] = "start"] /\ UNCHANGED <<scan, exited>>
    /\ UNCHANGED <<watch, clone, addr, seen, calm>>

ReadStart(c) ==
    /\ fault[c] = "start"
    /\ seen' = [seen EXCEPT ![c] = start[scan[c]]]
    /\ fault' = [fault EXCEPT ![c] = "len"]
    /\ UNCHANGED <<watch, clone, addr, scan, calm, exited>>

Inside(page, first, count) == first # 0 /\ page >= first /\ page - first < count

\* Mutant: the page after the last one is taken as inside.
ReadLenPast(c) ==
    /\ fault[c] = "len"
    /\ IF seen[c] # 0 /\ addr[c] >= seen[c] /\ addr[c] - seen[c] <= len[scan[c]]
       THEN fault' = [fault EXCEPT ![c] = "place"] /\ scan' = scan
       ELSE fault' = [fault EXCEPT ![c] = "taken"] /\ scan' = [scan EXCEPT ![c] = @ + 1]
    /\ UNCHANGED <<watch, clone, addr, seen, calm, exited>>

ReadLen(c) ==
    /\ fault[c] = "len"
    /\ IF Inside(addr[c], seen[c], len[scan[c]])
       THEN fault' = [fault EXCEPT ![c] = "place"] /\ scan' = scan
       ELSE fault' = [fault EXCEPT ![c] = "taken"] /\ scan' = [scan EXCEPT ![c] = @ + 1]
    /\ UNCHANGED <<watch, clone, addr, seen, calm, exited>>

\* The zero page is mapped over the address; a failed mmap ends the process.
Place(c) ==
    /\ fault[c] = "place"
    /\ \/ fault' = [fault EXCEPT ![c] = "mark"] /\ exited' = exited
       \/ exited' = c /\ fault' = fault
    /\ UNCHANGED <<watch, clone, addr, scan, seen, calm>>

Mark(c) ==
    /\ fault[c] = "mark"
    /\ hit' = hit \cup {scan[c]}
    /\ fault' = [fault EXCEPT ![c] = "none"]
    /\ UNCHANGED <<taken, start, len, clone, addr, scan, seen, calm, exited>>

----------------------------------------------------------------------------

OwnerStep(c) ==
    \/ \E first, count \in 1 .. Pages : Map(c, first, count)
    \/ Claim(c) \/ ClearHit(c) \/ StoreLen(c) \/ StoreStart(c)
    \/ Unmap(c) \/ DropStart(c) \/ DropLen(c) \/ DropTaken(c)

HandlerStep(c) ==
    \/ \E page \in 1 .. Pages : Fault(c, page)
    \/ ReadTaken(c) \/ ReadStart(c) \/ ReadLen(c) \/ Place(c) \/ Mark(c)

Next == exited = Nobody /\ \E c \in Clones : OwnerStep(c) \/ HandlerStep(c)

Spec == Init /\ [][Next]_vars

----------------------------------------------------------------------------
(* Properties.                                                               *)

\* Every variable stays in its type, no scan runs past the table.
TypeOK ==
    /\ taken \subseteq Slots
    /\ start \in [Slots -> 0 .. Pages]
    /\ len \in [Slots -> 0 .. Pages]
    /\ hit \subseteq Slots
    /\ pc \in [Clones -> {"absent", "claim", "hit", "len", "start", "live",
                          "unmapped", "drop len", "drop taken"}]
    /\ base \in [Clones -> 0 .. Pages]
    /\ size \in [Clones -> 0 .. Pages]
    /\ slot \in [Clones -> 0 .. WATCHED + 1]
    /\ fault \in [Clones -> {"none", "taken", "start", "len", "place", "mark"}]
    /\ addr \in [Clones -> 0 .. Pages]
    /\ scan \in [Clones -> 0 .. WATCHED + 1]
    /\ seen \in [Clones -> 0 .. Pages]
    /\ calm \in [Clones -> {"still", "freed", "freeing"}]
    /\ exited \in Clones \cup {Nobody}

\* The clone has taken its entry and not yet given it free.
Holds(c) == pc[c] \notin {"absent", "claim"} /\ slot[c] # 0

\* Two GuestRams never hold the same entry, whatever is being taken and freed
\* at the same time (Watched::of, Watched::drop).
SlotsExclusive ==
    \A c, d \in Clones : (Holds(c) /\ Holds(d) /\ slot[c] = slot[d]) => c = d

\* A page lost under a watched clone does not end the process: the handler
\* finds an entry for it before the end of the table, unless mmap fails.
ProcessSurvives ==
    \A c \in Clones : exited = c => slot[c] = 0 \/ fault[c] = "place"

\* While no other clone frees its entry, the entry marked is the one of the
\* clone whose page was lost: `faulted` tells its owner and nobody else's.
QuietFaultIsTold ==
    \A c \in Clones :
        (fault[c] \in {"place", "mark"} /\ calm[c] = "still" /\ slot[c] # 0)
            => scan[c] = slot[c]

=============================================================================
