------------------------------ MODULE Identity ------------------------------
(* What makes a clone somebody (agent/guest.rs: apply).  Every clone wakes  *)
(* from the same template: the same random pool, the same boot id and host  *)
(* name, a clock that stopped when the template was frozen.  The steps are  *)
(* best effort, each one runs whatever became of those before it, and       *)
(* `failed` collects what was only noted on stderr.                         *)
EXTENDS Integers

CONSTANTS
    CLONES,       \* the clones of one template, each with entropy of its own
    ROUNDS,       \* how often a clone is told who it is
    TIMES,        \* what the clock may show when the clone wakes
    TARGETS,      \* the time the host sends; 0 from a host that sends none
    STEP_PAST     \* the drift that is left alone (STEP_PAST_NANOS)

\* A host that sends the time sends one further from 1970 than the drift that is left alone.
ASSUME IdentityAssumption ==
    /\ TIMES \subseteq Nat /\ TARGETS \subseteq Nat /\ STEP_PAST \in Nat
    /\ \A t \in TARGETS : t = 0 \/ t > STEP_PAST

VARIABLES
    guestAt,      \* per clone: the step of `apply` it is at
    round,
    pool,         \* per clone: the entropy mixed in
    crng,         \* per clone: the entropy its generator was last seeded with
    file,         \* per clone: /run/lingcage/boot_id
    mounted,      \* per clone: that file lies over the kernel's boot id
    hostname,
    guestClock,
    target,
    failed,
    answer        \* per clone: the host name sent back

identityVars == <<guestAt, round, pool, crng, file, mounted, hostname, guestClock, target, failed, answer>>

Unnamed == "none"
Template == {}

IdentityInit ==
    /\ guestAt = [c \in CLONES |-> "idle"]
    /\ round = [c \in CLONES |-> 0]
    /\ pool = [c \in CLONES |-> Template]
    /\ crng = [c \in CLONES |-> Template]
    /\ file = [c \in CLONES |-> Template]
    /\ mounted = [c \in CLONES |-> FALSE]
    /\ hostname = [c \in CLONES |-> Unnamed]
    /\ guestClock \in [CLONES -> TIMES]
    /\ target \in [CLONES -> TARGETS]
    /\ failed = [c \in CLONES |-> {}]
    /\ answer = [c \in CLONES |-> Unnamed]

\* The boot id everybody reads in the clone: drawn from what its generator knew.
BootId(c) == IF mounted[c] THEN file[c] ELSE Template

From(c, step, to) == guestAt[c] = step /\ guestAt' = [guestAt EXCEPT ![c] = to]

Note(c, what) == failed' = [failed EXCEPT ![c] = @ \cup {what}]

Told(c) ==
    /\ From(c, "idle", "hostname")
    /\ round[c] < ROUNDS
    /\ round' = [round EXCEPT ![c] = @ + 1]
    /\ failed' = [failed EXCEPT ![c] = {}]
    /\ UNCHANGED <<pool, crng, file, mounted, hostname, guestClock, target, answer>>

\* The host name; the write to /proc after it can fail with the name already set.  The
\* machine id follows and changes nothing that is read here.
SetHostname(c) ==
    /\ From(c, "hostname", "entropy")
    /\ \/ hostname' = [hostname EXCEPT ![c] = c] /\ UNCHANGED failed
       \/ hostname' = [hostname EXCEPT ![c] = c] /\ Note(c, "hostname")
       \/ UNCHANGED hostname /\ Note(c, "hostname")
    /\ UNCHANGED <<round, pool, crng, file, mounted, guestClock, target, answer>>

\* The entropy goes into the pool and the generator is seeded again from it: two calls,
\* and the second is not made when the first fails.
MixEntropy(c) ==
    /\ From(c, "entropy", "clock")
    /\ \/ /\ pool' = [pool EXCEPT ![c] = @ \cup {c}]
          /\ crng' = [crng EXCEPT ![c] = pool'[c]]
          /\ UNCHANGED failed
       \/ pool' = [pool EXCEPT ![c] = @ \cup {c}] /\ Note(c, "entropy") /\ UNCHANGED crng
       \/ Note(c, "entropy") /\ UNCHANGED <<pool, crng>>
    /\ UNCHANGED <<round, file, mounted, hostname, guestClock, target, answer>>

AbsDiff(x, y) == IF x > y THEN x - y ELSE y - x

StepNeeded(now, to) == to # 0 /\ AbsDiff(now, to) > STEP_PAST

\* The clock is read, 0 when that fails, and stepped when it is too far off.
StepClock(c) ==
    /\ From(c, "clock", "boot")
    /\ \E now \in {guestClock[c], 0} :
        \/ ~StepNeeded(now, target[c]) /\ UNCHANGED <<guestClock, failed>>
        \/ StepNeeded(now, target[c]) /\ guestClock' = [guestClock EXCEPT ![c] = target[c]] /\ UNCHANGED failed
        \/ StepNeeded(now, target[c]) /\ Note(c, "clock") /\ UNCHANGED guestClock
    /\ UNCHANGED <<round, pool, crng, file, mounted, hostname, target, answer>>

\* A new id is drawn, written to a file and the file mounted over the kernel's.
ReplaceBootId(c) ==
    /\ From(c, "boot", "answer")
    /\ \/ Note(c, "boot") /\ UNCHANGED <<file, mounted>>
       \/ file' = [file EXCEPT ![c] = crng[c]] /\ Note(c, "boot") /\ UNCHANGED mounted
       \/ /\ file' = [file EXCEPT ![c] = crng[c]]
          /\ mounted' = [mounted EXCEPT ![c] = TRUE]
          /\ UNCHANGED failed
    /\ UNCHANGED <<round, pool, crng, hostname, guestClock, target, answer>>

\* The name in effect is read back, the one that was sent stands in when it cannot be.
ReadBackHostname(c) ==
    /\ From(c, "answer", "idle")
    /\ \/ answer' = [answer EXCEPT ![c] = hostname[c]] /\ UNCHANGED failed
       \/ answer' = [answer EXCEPT ![c] = c] /\ Note(c, "readback")
    /\ UNCHANGED <<round, pool, crng, file, mounted, hostname, guestClock, target>>

IdentityNext ==
    \E c \in CLONES :
        Told(c) \/ SetHostname(c) \/ MixEntropy(c) \/ StepClock(c) \/ ReplaceBootId(c)
            \/ ReadBackHostname(c)

IdentitySpec == IdentityInit /\ [][IdentityNext]_identityVars
-----------------------------------------------------------------------------
Applied(c) == guestAt[c] = "idle" /\ round[c] > 0

\* A clone that mixed its entropy and replaced its boot id shares the id with no other
\* clone of the template, whatever failed there.
BootIdsDiffer ==
    \A c, d \in CLONES :
        c # d /\ Applied(c) /\ failed[c] \cap {"entropy", "boot"} = {} => BootId(c) # BootId(d)

\* The host hears the name in effect, and a clone with the host's time is close to it.
HostIsTold ==
    \A c \in CLONES : Applied(c) =>
        /\ "readback" \notin failed[c] => answer[c] = hostname[c]
        /\ "clock" \notin failed[c] /\ target[c] # 0 => AbsDiff(guestClock[c], target[c]) <= STEP_PAST

\* Clones of one template become different guests that know their name and the time.
ClonesSound == BootIdsDiffer /\ HostIsTold
=============================================================================
