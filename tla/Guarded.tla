------------------------------ MODULE Guarded ------------------------------
(***************************************************************************)
(* guarded<T, R> (kernel/guarded.hpp) and the run-time half of the         *)
(* capabilities (core/capability.hpp): ranked reader-writer locks whose    *)
(* bodies may take higher-ranked locks, try forms, and waits for a         *)
(* predicate with a counted notify.                                        *)
(*                                                                         *)
(* Threads may attempt any lock at any time, also one the types would      *)
(* refuse: this is the thread whose capability "was a lie", and the rank   *)
(* check at run time then aborts the process.  A value is the number of    *)
(* items in the guarded T; the predicate of a wait is "there is an item".  *)
(***************************************************************************)
EXTENDS Naturals, Sequences

CONSTANTS Threads, Locks, Rank,
          Inbox,        \* locks jaal uses through terminal_cap (and waits on)
          NoThread,
          MaxCalls,     \* bound: calls a thread makes
          MaxItems      \* bound: items in one guarded value

VARIABLES m,            \* m[l]: its writer and its readers
          value, waiters,
          th,           \* th[t]: where t is, the accesses it has open, its calls
          crashed       \* cap::lie() has aborted the process

gvars == <<m, value, waiters, th, crashed>>

Waits  == {"wait_with", "wait_with_for"}
Shared == {"read", "try_read"}
Tries  == {"try_with", "try_read"}
Kinds  == Waits \cup Shared \cup Tries \cup {"with"}

Top(s) == s[Len(s)]
Pop(s) == SubSeq(s, 1, Len(s) - 1)

(* held_top(): the rank of the innermost access of t, 0 when it has none.  *)
(* Each hold saves the rank before it and puts it back, so the saved ranks *)
(* are the stack of open accesses.                                         *)
held_top(t) == IF th[t].open = <<>> THEN 0 ELSE Rank[Top(th[t].open).lock]

Free(l, k) == m[l].w = NoThread /\ (k \in Shared \/ m[l].r = {})

Taken(t, l, k) ==
    [m EXCEPT ![l] = IF k \in Shared THEN [@ EXCEPT !.r = @ \cup {t}]
                                     ELSE [@ EXCEPT !.w = t]]

Released(t, l) == [m EXCEPT ![l] = [w |-> IF @.w = t THEN NoThread ELSE @.w,
                                    r |-> @.r \ {t}]]

Holds(l) == value[l] > 0          \* pred

GuardedInit ==
    /\ m = [l \in Locks |-> [w |-> NoThread, r |-> {}]]
    /\ value = [l \in Locks |-> 0]
    /\ waiters = [l \in Locks |-> 0]
    /\ th = [t \in Threads |-> [pc |-> "run", open |-> <<>>, calls |-> 0]]
    /\ crashed = FALSE

(* A wait is made with nothing held. *)
require_unlocked(t) == held_top(t) = 0

(* Variant: the rank check accepts an equal rank. *)
OutOfOrder_Equal(t, l, k) == held_top(t) > Rank[l] \/ (k \in Waits /\ ~require_unlocked(t))

(* The hold constructor, and require_unlocked() before it. *)
OutOfOrder(t, l, k) == held_top(t) >= Rank[l] \/ (k \in Waits /\ ~require_unlocked(t))

(* Entry of with, read, wait_with, wait_with_for, try_with and try_read. *)
Call(t, l, k) ==
    /\ th[t].pc = "run" /\ th[t].calls < MaxCalls
    /\ l \in Inbox => k \in Waits
    /\ IF OutOfOrder(t, l, k)
         THEN crashed' = TRUE /\ UNCHANGED th
         ELSE /\ th' = [th EXCEPT ![t] = [pc |-> "lock", calls |-> @.calls + 1,
                                          open |-> Append(@.open, [lock |-> l, kind |-> k])]]
              /\ UNCHANGED crashed
    /\ UNCHANGED <<m, value, waiters>>

(* The mutex is taken.  A wait whose predicate is false counts itself and  *)
(* parks, giving the mutex back in the same step.                          *)
Lock(t) ==
    LET a == Top(th[t].open)
        parks == a.kind \in Waits /\ ~Holds(a.lock)
    IN  /\ th[t].pc = "lock" /\ Free(a.lock, a.kind)
        /\ m' = IF parks THEN m ELSE Taken(t, a.lock, a.kind)
        /\ waiters' = IF parks THEN [waiters EXCEPT ![a.lock] = @ + 1] ELSE waiters
        /\ th' = [th EXCEPT ![t].pc = IF parks THEN "parked" ELSE "run"]
        /\ UNCHANGED <<value, crashed>>

TryFails(t) ==
    LET a == Top(th[t].open)
    IN  /\ th[t].pc = "lock" /\ a.kind \in Tries /\ ~Free(a.lock, a.kind)
        /\ th' = [th EXCEPT ![t].pc = "run", ![t].open = Pop(@)]
        /\ UNCHANGED <<m, value, waiters, crashed>>

(* A parked thread whose time is up, or that wakes for no reason. *)
TimesOut(t) ==
    /\ th[t].pc = "parked" /\ Top(th[t].open).kind = "wait_with_for"
    /\ th' = [th EXCEPT ![t].pc = "late"]
    /\ UNCHANGED <<m, value, waiters, crashed>>
WakesSpuriously(t) ==
    /\ th[t].pc = "parked"
    /\ th' = [th EXCEPT ![t].pc = "woken"]
    /\ UNCHANGED <<m, value, waiters, crashed>>

(* Back from the condition variable with the mutex: the body runs if the   *)
(* predicate holds, or in any case when the wait was bounded and is over.  *)
Relock(t) ==
    LET l == Top(th[t].open).lock
        goes == Holds(l) \/ th[t].pc = "late"
    IN  /\ th[t].pc \in {"woken", "late"} /\ Free(l, "with")
        /\ m' = IF goes THEN Taken(t, l, "with") ELSE m
        /\ waiters' = IF goes THEN [waiters EXCEPT ![l] = @ - 1] ELSE waiters
        /\ th' = [th EXCEPT ![t].pc = IF goes THEN "run" ELSE "parked"]
        /\ UNCHANGED <<value, crashed>>

OnLock(u, l) == th[u].pc = "parked" /\ Top(th[u].open).lock = l

(* Variant: the notify is left out when only one waiter is counted. *)
Notified_Dropped(T, l) ==
    [u \in Threads |-> IF waiters[l] > 1 /\ OnLock(u, l) THEN [T[u] EXCEPT !.pc = "woken"] ELSE T[u]]

(* ~Notify(): everyone waiting on l, if anyone is counted there. *)
Notified(T, l) ==
    [u \in Threads |-> IF waiters[l] # 0 /\ OnLock(u, l) THEN [T[u] EXCEPT !.pc = "woken"] ELSE T[u]]

(* The innermost body ends: an exclusive one has changed the value (a      *)
(* waiting one takes the item it waited for), notifies and unlocks.        *)
Leave(t) ==
    LET a == Top(th[t].open)
        back == [th EXCEPT ![t].open = Pop(@)]
    IN  /\ th[t].pc = "run" /\ th[t].open # <<>>
        /\ m' = Released(t, a.lock)
        /\ IF a.kind \in Shared
             THEN th' = back /\ UNCHANGED value
             ELSE /\ th' = Notified(back, a.lock)
                  /\ value' = [value EXCEPT ![a.lock] =
                                 IF a.kind \in Waits THEN IF @ > 0 THEN @ - 1 ELSE 0
                                 ELSE IF @ < MaxItems THEN @ + 1 ELSE @]
        /\ UNCHANGED <<waiters, crashed>>

(* with(terminal_cap): a push that takes no capability and is not tracked, *)
(* from any thread whatever it holds.                                      *)
Terminal(t, l) ==
    /\ th[t].pc = "run" /\ th[t].calls < MaxCalls
    /\ l \in Inbox /\ Free(l, "with") /\ value[l] < MaxItems
    /\ value' = [value EXCEPT ![l] = @ + 1]
    /\ th' = Notified([th EXCEPT ![t].calls = @ + 1], l)
    /\ UNCHANGED <<m, waiters, crashed>>

(* What t does once it is inside a call, and what it may do besides. *)
ThreadStep(t) ==
    ~crashed /\ (Lock(t) \/ TryFails(t) \/ TimesOut(t) \/ Relock(t) \/ Leave(t))

GuardedNext ==
    \E t \in Threads :
      \/ ThreadStep(t)
      \/ /\ ~crashed
         /\ \/ WakesSpuriously(t)
            \/ \E l \in Locks : Terminal(t, l) \/ \E k \in Kinds : Call(t, l, k)

Waiting(t) == th[t].pc \in {"lock", "woken", "late"}

(* A call into a guarded ends: a thread that asks for a mutex gets it, and *)
(* a wait whose predicate holds is served (or the item was taken).         *)
GuardedServes(t) ==
    /\ Waiting(t) ~> (~Waiting(t) \/ crashed)
    /\ \A l \in Locks : (OnLock(t, l) /\ Holds(l)) ~> (~OnLock(t, l) \/ ~Holds(l) \/ crashed)
=============================================================================
