------------------------------ MODULE FileLock -------------------------------
(* The cross-process lock on a sidecar file (src/platform/*/file_lock.cpp, *)
(* platform/file_lock.hpp) and what it is for: copies of one program doing *)
(* read-modify-write on a file.  The kernel's lock table belongs to the    *)
(* process (POSIX) or the handle (Windows), one lock object per process as *)
(* the header asks; a process may stop for good, or die, at any point.     *)
(* sim_file_lock is the same API over a script: `world`'s holder and       *)
(* failures.                                                               *)
EXTENDS Naturals, FiniteSets

CONSTANTS Backend,   \* "posix", "windows" or "sim"
          Procs, Calls,  \* Calls: [fn, mode, limit]
          MaxStep    \* the longest backoff step, 8 ms

VARIABLES table, pr, file, wrote, world

fvars == <<table, pr, file, wrote, world>>

Blank == [pc |-> "idle", fn |-> "none", mode |-> "none", left |-> 0, nap |-> 0, step |-> 1,
          copy |-> {}, got |-> "none"]

LockInit ==
    /\ table = {} /\ file = {} /\ wrote = {}
    /\ pr = [p \in Procs |-> Blank]
    /\ world = [hold |-> FALSE, fail |-> FALSE]

(* The kernel's rule for two locks on one range (external). *)
Compatible(m, l) == m = "shared" /\ l.mode = "shared"

(* Variant: an exclusive request is passed on as a shared one. *)
whole_file_Shared(m) == "shared"

(* F_WRLCK or F_RDLCK; fcntl locks of one process never conflict. *)
whole_file(m) == m
posix_grants(p) == \A l \in table : l.p # p => Compatible(whole_file(pr[p].mode), l)

(* LockFileEx: any handle's lock conflicts. *)
lock_region(p) == \A l \in table : Compatible(pr[p].mode, l)

Goes(p, r) == pr' = [pr EXCEPT ![p] = r]
Answers(p, a) == Goes(p, [pr[p] EXCEPT !.pc = IF a = "lock" THEN "held" ELSE "answered",
                                       !.got = a, !.nap = 0])
Refused(p) == Answers(p, "error") /\ UNCHANGED <<table, world>>

(* held is set: with the mode asked of the kernel. *)
Takes(p, m) ==
    table' = table \cup {[p |-> p, mode |-> m]} /\ Answers(p, "lock") /\ UNCHANGED world

(* sim_file_lock: only an exclusive request minds the scripted holder. *)
sim_held(p) == world.hold /\ pr[p].mode = "exclusive"
sim_takes(p) ==
    /\ world' = [world EXCEPT !.hold = @ \/ pr[p].mode = "exclusive"]
    /\ Answers(p, "lock") /\ UNCHANGED table

Entered == IF Backend = "sim" THEN "asking" ELSE "open"

Call(p, c) ==
    /\ pr[p].pc = "idle" /\ p \notin wrote
    /\ Goes(p, [Blank EXCEPT !.pc = Entered, !.fn = c.fn, !.mode = c.mode, !.left = c.limit])
    /\ UNCHANGED <<table, file, wrote, world>>

(* open_sidecar(), which may fail.  The caller goes on without the lock,   *)
(* and leaves the file alone.                                              *)
Open(p) ==
    /\ pr[p].pc = "open"
    /\ \/ Goes(p, [pr[p] EXCEPT !.pc = "asking"]) /\ UNCHANGED <<table, world>>
       \/ Refused(p)
    /\ UNCHANGED <<file, wrote>>

(* acquire(): blocks, EINTR retried; the filesystem may not lock at all.   *)
posix_acquire(p) == (posix_grants(p) /\ Takes(p, whole_file(pr[p].mode))) \/ Refused(p)
windows_acquire(p) == (lock_region(p) /\ Takes(p, pr[p].mode)) \/ Refused(p)
(* Nothing in the sim would ever drop the holder: an error, not a wait. *)
sim_acquire(p) == IF world.fail \/ sim_held(p) THEN Refused(p) ELSE sim_takes(p)

Acquire(p) ==
    /\ pr[p].pc = "asking" /\ pr[p].fn = "acquire"
    /\ \/ Backend = "posix" /\ posix_acquire(p)
       \/ Backend = "windows" /\ windows_acquire(p)
       \/ Backend = "sim" /\ sim_acquire(p)
    /\ UNCHANGED <<file, wrote>>

Nap(r) == IF r.step < r.left THEN r.step ELSE r.left

(* Variant: only what is past the deadline counts as late. *)
Late_Never(r) == r.fn = "try"

(* A try answers at once; acquire_within() once it is at its deadline. *)
Late(r) == r.fn = "try" \/ r.left = 0

(* What acquire_within() makes of an empty answer: give up, or sleep. *)
Busy(p) ==
    LET r == pr[p] IN
    /\ IF Late(r) THEN Answers(p, "busy")
       ELSE Goes(p, [r EXCEPT !.pc = "napping", !.nap = Nap(r),
                        !.step = IF 2 * @ < MaxStep THEN 2 * @ ELSE MaxStep])
    /\ UNCHANGED <<table, world>>

posix_try_acquire(p) ==
    \/ IF posix_grants(p) THEN Takes(p, whole_file(pr[p].mode)) ELSE Busy(p)
    \/ Refused(p)
windows_try_acquire(p) ==
    \/ IF lock_region(p) THEN Takes(p, pr[p].mode) ELSE Busy(p)
    \/ Refused(p)
sim_try_acquire(p) ==
    IF world.fail THEN Refused(p) ELSE IF sim_held(p) THEN Busy(p) ELSE sim_takes(p)

TryAcquire(p) ==
    /\ pr[p].pc = "asking" /\ pr[p].fn \in {"try", "within"}
    /\ \/ Backend = "posix" /\ posix_try_acquire(p)
       \/ Backend = "windows" /\ windows_try_acquire(p)
       \/ Backend = "sim" /\ sim_try_acquire(p)
    /\ UNCHANGED <<file, wrote>>

Wakes(p) ==
    /\ pr[p].pc = "napping" /\ pr[p].nap = 0
    /\ Goes(p, [pr[p] EXCEPT !.pc = Entered])
    /\ UNCHANGED <<table, file, wrote, world>>

(* The critical section: a reader looks, a writer reads, changes, writes. *)
Reads(p) ==
    /\ pr[p].pc = "held" /\ Goes(p, [pr[p] EXCEPT !.pc = "read", !.copy = file])
    /\ UNCHANGED <<table, file, wrote, world>>
Writes(p) ==
    /\ pr[p].pc = "read" /\ Goes(p, [pr[p] EXCEPT !.pc = "done"])
    /\ IF pr[p].mode = "exclusive"
       THEN file' = pr[p].copy \cup {p} /\ wrote' = wrote \cup {p}
       ELSE UNCHANGED <<file, wrote>>
    /\ UNCHANGED <<table, world>>

(* release(), then the destructor, which closes. *)
Unlocked(p) == {l \in table : l.p # p}
posix_release(p) == table' = Unlocked(p) /\ UNCHANGED world
windows_release(p) == table' = Unlocked(p) /\ UNCHANGED world
sim_release(p) ==
    world' = [world EXCEPT !.hold = @ /\ pr[p].got # "lock"] /\ UNCHANGED table
Release(p) ==
    /\ pr[p].pc \in {"done", "answered"} /\ Goes(p, Blank)
    /\ \/ Backend = "posix" /\ posix_release(p)
       \/ Backend = "windows" /\ windows_release(p)
       \/ Backend = "sim" /\ sim_release(p)
    /\ UNCHANGED <<file, wrote>>

(* The kernel drops what a dying process held. *)
Dies(p) ==
    /\ Backend # "sim" /\ pr[p].pc \notin {"idle", "dead"}
    /\ Goes(p, [Blank EXCEPT !.pc = "dead"])
    /\ table' = Unlocked(p) /\ UNCHANGED <<file, wrote, world>>

(* sim_file_lock::world: hold(), drop(), fail(), reset(). *)
Scripted ==
    /\ Backend = "sim" /\ \A p \in Procs : pr[p].pc = "idle" \/ pr[p].pc = "napping"
    /\ world' \in [hold : BOOLEAN, fail : BOOLEAN]
    /\ UNCHANGED <<table, pr, file, wrote>>

Tick ==
    /\ \E p \in Procs : pr[p].nap > 0
    /\ \A p \in Procs : pr[p].pc = "napping" => pr[p].nap > 0
    /\ pr' = [p \in Procs |-> [pr[p] EXCEPT !.nap = IF @ > 0 THEN @ - 1 ELSE 0,
                                            !.left = IF @ > 0 THEN @ - 1 ELSE 0]]
    /\ UNCHANGED <<table, file, wrote, world>>

(* What a process does inside one of the lock's functions. *)
InCall(p) == Open(p) \/ Acquire(p) \/ TryAcquire(p) \/ Wakes(p)

LockNext ==
    \/ \E p \in Procs : \/ InCall(p) \/ Reads(p) \/ Writes(p) \/ Release(p) \/ Dies(p)
                        \/ \E c \in Calls : Call(p, c)
    \/ Scripted \/ Tick

(* No process's update is dropped by another's stale copy, though holders  *)
(* die in the middle of theirs, and nobody reads beside a writer.          *)
UpdatesKept ==
    Backend # "sim" =>
        /\ wrote = file
        /\ \A p, q \in Procs : p # q /\ pr[p].pc \in {"held", "read"} /\ pr[p].mode = "exclusive"
             => pr[q].pc \notin {"held", "read"}

(* acquire_within() and try_acquire() answer even if the holder never lets *)
(* go: every round of the loop is one sleep nearer the deadline.           *)
LockAnswers(p) ==
    (pr[p].pc = "asking" /\ pr[p].fn # "acquire") ~> pr[p].pc \notin {"asking", "napping", "open"}
=============================================================================
