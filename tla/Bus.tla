-------------------------------- MODULE Bus --------------------------------
(* The device bus (devices/bus.rs) with the devices of an x86 guest that end *)
(* a run: the PM1 block (devices/pm1.rs) and the reset command of the i8042  *)
(* (devices/i8042.rs).  Ports and MMIO are two spaces of the same kind.      *)
EXTENDS Integers, Sequences

CONSTANTS
    TOP,          \* the highest address (u64::MAX): base + size may not pass it
    PLACEMENTS,   \* what a guest is built of: [space, base, size, device]
    STORES        \* what a guest writes: "reset", "off", "sleep" or a value

Spaces == {"ports", "mmio"}

ASSUME BusAssumption ==
    /\ TOP \in Nat /\ "all ones" \notin STORES
    /\ PLACEMENTS \in Seq([space : Spaces, base : Nat, size : Nat, device : {"pm1", "i8042", "other"}])

VARIABLES
    placed,       \* the devices of each space, in placement order
    refusals,     \* placements refused, with the reason
    building,     \* the next of PLACEMENTS
    enable,       \* Pm1::enable
    pm1Blob,      \* what `capture` took of the PM1 block, "none" before
    access,       \* the last access: [space, addr, device, offset], device "none" if unclaimed
    busExit       \* the exit a write ended the run with, "none" while it runs

busVars == <<placed, refusals, building, enable, pm1Blob, access, busExit>>

Unclaimed == [space |-> "ports", addr |-> 0, device |-> "none", offset |-> 0]

BusInit ==
    /\ placed = [s \in Spaces |-> <<>>] /\ refusals = <<>> /\ building = 1
    /\ enable = "reset value" /\ pm1Blob = "none" /\ access = Unclaimed /\ busExit = "none"

-----------------------------------------------------------------------------
Devices(space) == {placed[space][i] : i \in DOMAIN placed[space]}
Overlaps(p, q) == p.base < q.base + q.size /\ q.base < p.base + p.size

Refusal(p) ==
    CASE p.base + p.size > TOP \/ p.size = 0 -> "bad range"
      [] p.size > 0 /\ p.base + p.size <= TOP /\ \E q \in Devices(p.space) : Overlaps(p, q) -> "overlap"
      [] OTHER -> "none"

\* place_port and place_mmio.
PlaceDevice ==
    /\ building <= Len(PLACEMENTS)
    /\ LET p == PLACEMENTS[building] why == Refusal(p)
       IN  IF why = "none"
           THEN placed' = [placed EXCEPT ![p.space] = Append(@, p)] /\ UNCHANGED refusals
           ELSE refusals' = Append(refusals, <<building, why>>) /\ UNCHANGED placed
    /\ building' = building + 1
    /\ UNCHANGED <<enable, pm1Blob, access, busExit>>

Assembled == building > Len(PLACEMENTS) /\ busExit = "none"

\* find: the first device whose range has the address, and the offset into it.
Covers(p, addr) == addr >= p.base /\ addr - p.base < p.size
Hits(space, addr) == {i \in DOMAIN placed[space] : Covers(placed[space][i], addr)}
First(hits) == CHOOSE i \in hits : \A j \in hits : i <= j
Find(space, addr) ==
    LET hits == Hits(space, addr) p == placed[space][First(hits)]
    IN  IF hits = {} THEN [space |-> space, addr |-> addr, device |-> "none", offset |-> 0]
        ELSE [space |-> space, addr |-> addr, device |-> p.device, offset |-> addr - p.base]

\* read: an unclaimed address floats, the registers of PM1 and of i8042 read as they do.
ReadsAs(hit) ==
    CASE hit.device = "none" -> "all ones"
      [] hit.device = "pm1" /\ hit.offset = 2 -> enable
      [] hit.device = "pm1" /\ hit.offset = 4 -> "ACPI mode"
      [] hit.device = "other" -> "any"
      [] OTHER -> "clear"

Write(space, addr, word) ==
    /\ Assembled
    /\ access' = Find(space, addr)
    /\ enable' = IF access'.device = "pm1" /\ access'.offset = 2 THEN word ELSE enable
    /\ busExit' = CASE access'.device = "pm1" /\ access'.offset = 4 /\ word = "off" -> "shutdown"
                  [] access'.device = "i8042" /\ word = "reset" -> "reboot"
                  [] OTHER -> "none"
    /\ UNCHANGED <<placed, refusals, building, pm1Blob>>

CapturePm1 ==
    /\ Assembled /\ pm1Blob' = enable
    /\ UNCHANGED <<placed, refusals, building, enable, access, busExit>>

\* The guest is built again and its block restored before it runs.
RestorePm1 ==
    /\ building > Len(PLACEMENTS) /\ pm1Blob # "none"
    /\ enable' = pm1Blob /\ busExit' = "none" /\ access' = Unclaimed
    /\ UNCHANGED <<placed, refusals, building, pm1Blob>>

BusNext ==
    \/ PlaceDevice
    \/ \E space \in Spaces, addr \in 0..TOP, word \in STORES : Write(space, addr, word)
    \/ CapturePm1 \/ RestorePm1

BusSpec == BusInit /\ [][BusNext]_busVars

-----------------------------------------------------------------------------
\* An address belongs to one device: two placed ranges never meet, every placed range lies in
\* the space, and what was refused would have broken one of the two (place).
AddressesOwned ==
    /\ \A s \in Spaces : \A i, j \in DOMAIN placed[s] :
        i # j => \A addr \in 0..TOP : ~(Covers(placed[s][i], addr) /\ Covers(placed[s][j], addr))
    /\ \A s \in Spaces : \A p \in Devices(s) : p.size > 0 /\ p.base + p.size <= TOP
    /\ \A k \in DOMAIN refusals : LET p == PLACEMENTS[refusals[k][1]] IN
        refusals[k][2] = "overlap" =>
            \E q \in Devices(p.space), addr \in 0..TOP : Covers(p, addr) /\ Covers(q, addr)

\* A run ends by a write only at the two registers that end it, and every read finds what the
\* range owner holds: the enable bits the guest wrote last, or those of the snapshot (Pm1).
EndsAtItsRegister ==
    /\ busExit = "shutdown" => access.device = "pm1" /\ access.offset = 4
    /\ busExit = "reboot" => access.device = "i8042"
    /\ ReadsAs(access) = "all ones" <=> ~\E p \in Devices(access.space) : Covers(p, access.addr)

\* The bus is sound: ranges and exits.
BusSound == AddressesOwned /\ (building > Len(PLACEMENTS) /\ access # Unclaimed => EndsAtItsRegister)
=============================================================================
