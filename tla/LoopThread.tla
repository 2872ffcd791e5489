----------------------------- MODULE LoopThread -----------------------------
(***************************************************************************)
(* What a thread knows about itself: whether it is a kernel's loop thread  *)
(* (kernel/loop.hpp) and which pools' jobs it is running                   *)
(* (kernel/lock_order.hpp).  Both live in thread_local storage and are set *)
(* by scopes, which end in the reverse order, also when an exception       *)
(* leaves them: a kernel started inside a kernel's fold, a job that runs   *)
(* another pool's job inline, a kernel run by a job.                       *)
(***************************************************************************)
EXTENDS Naturals, Sequences, SequencesExt

CONSTANTS Threads, Pools,
          kMaxNested,     \* jobs a thread keeps track of
          MaxOpen         \* bound: scopes open on a thread

VARIABLES armed_depth,    \* armed_depth[t]: loop_identity objects of t
          running_for,    \* running_for[t]: t's fixed_stack of pools
          open,           \* open[t]: the scopes open on t, innermost last
          told            \* the last answer a thread was given

lvars == <<armed_depth, running_for, open, told>>

LoopInit ==
    /\ armed_depth = [t \in Threads |-> 0]
    /\ running_for = [t \in Threads |-> <<>>]
    /\ open = [t \in Threads |-> <<>>]
    /\ told = "nothing"

Enter(t, of, pushed) ==
    /\ Len(open[t]) < MaxOpen
    /\ open' = [open EXCEPT ![t] = Append(@, [of |-> of, pushed |-> pushed])]
    /\ UNCHANGED told

(* A kernel is made here: its member loop_id_ arms the thread. *)
loop_identity(t) ==
    /\ Enter(t, "kernel", FALSE)
    /\ armed_depth' = [armed_depth EXCEPT ![t] = @ + 1]
    /\ UNCHANGED running_for

(* fixed_stack::push refuses when it is full; pop does nothing on an empty *)
(* stack.                                                                  *)
push(s, p) == IF Len(s) = kMaxNested THEN s ELSE Append(s, p)
pop(s) == IF s = <<>> THEN s ELSE Front(s)

running_job(t, p) ==
    /\ Enter(t, p, Len(running_for[t]) < kMaxNested)
    /\ running_for' = [running_for EXCEPT ![t] = push(@, p)]
    /\ UNCHANGED armed_depth

(* Variant: the destructor pops whether or not the constructor pushed. *)
EndJob_Always(t) ==
    /\ running_for' = [running_for EXCEPT ![t] = pop(@)]
    /\ UNCHANGED armed_depth

EndJob(t) ==
    /\ running_for' = IF Last(open[t]).pushed THEN [running_for EXCEPT ![t] = pop(@)]
                                              ELSE running_for
    /\ UNCHANGED armed_depth

(* Variant: a flag where the code has a depth. *)
EndLoop_Disarms(t) ==
    /\ armed_depth' = [armed_depth EXCEPT ![t] = 0]
    /\ UNCHANGED running_for

(* ~loop_identity(). *)
EndLoop(t) ==
    /\ armed_depth' = [armed_depth EXCEPT ![t] = @ - 1]
    /\ UNCHANGED running_for

(* The innermost scope of t ends. *)
End(t) ==
    /\ open[t] # <<>>
    /\ IF Last(open[t]).of = "kernel" THEN EndLoop(t) ELSE EndJob(t)
    /\ open' = [open EXCEPT ![t] = Front(@)]
    /\ UNCHANGED told

on_loop_thread(t) == armed_depth[t] # 0

(* on_loop(f), and with it loop_bound::with: the token and the value, or   *)
(* an abort.                                                               *)
on_loop(t) ==
    /\ told' = IF on_loop_thread(t) THEN "token" ELSE "aborted"
    /\ UNCHANGED <<armed_depth, running_for, open>>

(* pool::shutdown() and its noexcept form. *)
OwnJob(t, p) == Contains(running_for[t], p)
require_not_own_job(t, p) ==
    /\ told' = IF OwnJob(t, p) THEN "lock_order_error" ELSE "waits"
    /\ UNCHANGED <<armed_depth, running_for, open>>
check_or_abort(t, p) ==
    /\ told' = IF OwnJob(t, p) THEN "aborted" ELSE "waits"
    /\ UNCHANGED <<armed_depth, running_for, open>>

LoopNext ==
    /\ told # "aborted"
    /\ \E t \in Threads :
         \/ loop_identity(t) \/ End(t) \/ on_loop(t)
         \/ \E p \in Pools : running_job(t, p) \/ require_not_own_job(t, p) \/ check_or_abort(t, p)

Jobs(t) == SelectSeq(open[t], LAMBDA s : s.of # "kernel")

(* Nested scopes leave a thread as they found it: loop-bound state can be  *)
(* reached exactly where a kernel lives, and a pool's shutdown is refused  *)
(* exactly inside one of its jobs, as far down as jobs are tracked; a job  *)
(* too deep to be tracked does not hide the ones around it.                *)
KnowsItself ==
    \A t \in Threads :
      /\ on_loop_thread(t) <=> \E i \in DOMAIN open[t] : open[t][i].of = "kernel"
      /\ \A p \in Pools :
           OwnJob(t, p) <=> \E i \in DOMAIN Jobs(t) : i <= kMaxNested /\ Jobs(t)[i].of = p
=============================================================================
