------------------------------ MODULE MCThreads ------------------------------
(* The components whose promises are about progress, explored side by side: *)
(* run() and its teardown, guarded locks, stop groups and scopes.  `part`   *)
(* says which of them this behaviour is about.                              *)
EXTENDS Integers

VARIABLES part,
          opt, pc, model, shown, changed, mail, deadline, exit, turn, fb, until, ready, host,
          sig, order, result,
          m, value, waiters, th, crashed,
          live, closed, stopped, mem, own,
          nstop, ent, groups, block, thrown, ret

(* Paced frames and a handled signal; a signal that stops and one handled. *)
Paced == [interval |-> 1, default_exit |-> FALSE, handles |-> {"interrupt"}, arrive |-> {"interrupt"}]
Stopped == [interval |-> 0, default_exit |-> TRUE, handles |-> {"resize"},
            arrive |-> {"interrupt", "resize"}]
R == INSTANCE RunLoop WITH None <- 0 - 1, Thrown <- 0 - 2, Ms <- 2, MaxChanges <- 1, MaxDefers <- 1,
        Options <- {Paced, Stopped}
G == INSTANCE Guarded WITH Threads <- {1, 2}, Locks <- {"lane", "leaf", "inbox"},
        Rank <- [l \in {"lane", "leaf", "inbox"} |-> IF l = "lane" THEN 1 ELSE 2],
        Inbox <- {"inbox"}, NoThread <- 0, MaxCalls <- 2, MaxItems <- 1
S == INSTANCE StopGroup WITH Members <- 1..3, Owners <- {"grace", "barrier", "natural"},
        Graced <- {"grace"}, Natural <- {"natural"}, Eager <- {1}
C == INSTANCE Scope WITH stop <- nstop, MaxHelpers <- 3, Stubborn <- {2}

loop == <<opt, pc, model, shown, changed, mail, deadline, exit, turn, fb, until, ready, host, sig,
          order, result>>
gvars == <<m, value, waiters, th, crashed>>
svars == <<live, closed, stopped, mem, own>>
cvars == <<nstop, ent, groups, block, thrown, ret>>
vars == <<part, loop, gvars, svars, cvars>>

Init ==
    /\ part \in {"run", "guarded", "stop_group", "scope"}
    /\ R!LoopInit /\ G!GuardedInit /\ S!StopInit /\ C!ScopeInit

Next ==
    /\ UNCHANGED part
    /\ \/ part = "run" /\ R!LoopNext /\ UNCHANGED <<gvars, svars, cvars>>
       \/ part = "guarded" /\ G!GuardedNext /\ UNCHANGED <<loop, svars, cvars>>
       \/ part = "stop_group" /\ S!StopNext /\ UNCHANGED <<loop, gvars, cvars>>
       \/ part = "scope" /\ C!ScopeNext /\ UNCHANGED <<loop, gvars, svars>>

(* The loop thread keeps going, and time does; nothing is asked of the     *)
(* host, the workers or whoever sends signals.  A thread keeps running the *)
(* call it is in; members that were asked to stop leave, helpers end, and  *)
(* a scope's block reaches its end.                                        *)
Fairness ==
    /\ WF_loop(part = "run" /\ R!LoopStep) /\ WF_loop(part = "run" /\ R!Tick)
    /\ \A t \in {1, 2} : WF_gvars(part = "guarded" /\ G!ThreadStep(t))
    /\ \A x \in 1..3 : /\ WF_svars(part = "stop_group" /\ stopped /\ S!Leave(x))
                       /\ WF_svars(part = "stop_group" /\ S!Notify(x))
    /\ \A o \in {"grace", "barrier", "natural"} : WF_svars(part = "stop_group" /\ S!OwnerStep(o))
    /\ WF_cvars(part = "scope" /\ C!OwnerStep)
    /\ \A i \in 1..3 : WF_cvars(part = "scope" /\ C!HelperStep(i))

Spec == Init /\ [][Next]_vars /\ Fairness

(* run(): the teardown runs once and in order on every path out, and the   *)
(* loop sleeps no longer than what is due allows (run.hpp, teardown.hpp).  *)
EndsInOrder == R!EndsInOrder /\ R!SleepsUntilDue

(* run(): the last change reaches the screen, and a stop ends the run.     *)
RunServes == R!FrameReaches /\ R!StopEnds

(* guarded: a thread that asks for a lock gets it, and a wait whose        *)
(* predicate holds is served (guarded.hpp, lock_order.hpp).  The threads   *)
(* are alike, so the first one stands for both.                            *)
GuardedServes == G!GuardedServes(1)

(* stop_group: nothing runs after stop_and_wait() returned 0; scope: all   *)
(* helpers are joined and every exception is heard when run() returns.     *)
NoneLeftBehind == S!NoneLeftBehind /\ C!JoinedAndHeard

(* Waiting ends: stop_and_wait() returns once the members it asked have    *)
(* left, and a scope ends once its helpers have.                           *)
WaitsEnd == C!ScopeEnds /\ \A o \in {"grace", "barrier", "natural"} : S!WaitEnds(o)
=============================================================================
