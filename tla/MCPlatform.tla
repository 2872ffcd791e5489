----------------------------- MODULE MCPlatform ------------------------------
(* The platform layer, one instance per backend, explored side by side:    *)
(* reactors, child processes, file locks.  `part` says which of them this  *)
(* behaviour is about.                                                     *)
EXTENDS Naturals

VARIABLES part,
          slots, free, os, file, reg, wake, call, out,
          wslots, wfree, rdr, dev, wreg, wwake, wcall, wout,
          want, stage, handles, child, kids, buf, pid, obj, hit,
          table, pr, data, wrote, world

(* Two descriptors, two registrations, room to report one of them, and a   *)
(* timeout longer than the longest system call.                            *)
R == INSTANCE Reactor WITH Backend <- part, Fds <- {1, 2}, Regs <- {3, 4}, Cap <- 1, Chunk <- 1,
        Interests <- {{"read"}, {"write"}}, Conds <- <<{"read"}, {"hangup"}>>, Timeouts <- {2, 99},
        None <- 99

(* A pipe that can be waited for, without a deadline; one that refuses     *)
(* blocking reads, under a deadline; and the kinds of handle that need no  *)
(* reader.                                                                 *)
Kinds == <<"pipe", "stream", "waitable">>
W == INSTANCE WaitReactor WITH slots <- wslots, free <- wfree, reg <- wreg, wake <- wwake,
        call <- wcall, out <- wout, Handles <- {1}, Kind <- Kinds, Regs <- {3}, Refuses <- {},
        Cap <- 2, MaxWatched <- 2, MaxSpurious <- 1, Timeouts <- {99}, None <- 99, Quantum <- 1
B == INSTANCE WaitReactor WITH slots <- wslots, free <- wfree, reg <- wreg, wake <- wwake,
        call <- wcall, out <- wout, Handles <- {1}, Kind <- Kinds, Regs <- {3}, Refuses <- {1},
        Cap <- 2, MaxWatched <- 2, MaxSpurious <- 1, Timeouts <- {2}, None <- 99, Quantum <- 1
V == INSTANCE WaitReactor WITH slots <- wslots, free <- wfree, reg <- wreg, wake <- wwake,
        call <- wcall, out <- wout, Handles <- {2, 3}, Kind <- Kinds, Regs <- {3, 4},
        Refuses <- {}, Cap <- 1, MaxWatched <- 1, MaxSpurious <- 0, Timeouts <- {1}, None <- 99,
        Quantum <- 1

P == INSTANCE Process WITH Backend <- part, Specs <- {{}, {"out"}, {"out", "in"}}, Full <- 1

(* Two copies of a program that ask in every way, one of them for 5 ticks; *)
(* and the same over the scripted lock.                                    *)
C(f, m, l) == [fn |-> f, mode |-> m, limit |-> l]
Asks == {C("acquire", "exclusive", 0), C("acquire", "shared", 0), C("try", "exclusive", 0),
         C("within", "exclusive", 5)}
Scripted == {C("acquire", "exclusive", 0), C("acquire", "shared", 0), C("within", "exclusive", 2)}
F == INSTANCE FileLock WITH file <- data, Backend <- "posix", Procs <- {1, 2}, Calls <- Asks, MaxStep <- 2
L == INSTANCE FileLock WITH file <- data, Backend <- "windows", Procs <- {1, 2}, Calls <- Asks, MaxStep <- 2
G == INSTANCE FileLock WITH file <- data, Backend <- "sim", Procs <- {1, 2}, Calls <- Scripted, MaxStep <- 2

rvars == <<slots, free, os, file, reg, wake, call, out>>
wvars == <<wslots, wfree, rdr, dev, wreg, wwake, wcall, wout>>
pvars == <<want, stage, handles, child, kids, buf, pid, obj, hit>>
lvars == <<table, pr, data, wrote, world>>
vars == <<part, rvars, wvars, pvars, lvars>>

PosixReactor == part \in {"epoll", "poll", "kqueue"}
Child == part \in {"linux", "bsd", "windows", "sim"}

Init ==
    /\ part \in {"epoll", "poll", "kqueue", "wait", "wait_bounded", "wait_kinds",
                 "linux", "bsd", "windows", "sim", "posix_lock", "windows_lock", "sim_lock"}
    /\ R!ReactorInit /\ P!ProcInit /\ F!LockInit
    /\ IF part = "wait_kinds" THEN V!WaitInit ELSE W!WaitInit

WaitReactors ==
    \/ part = "wait" /\ W!WaitNext
    \/ part = "wait_bounded" /\ B!WaitNext
    \/ part = "wait_kinds" /\ V!WaitNext
Locks ==
    \/ part = "posix_lock" /\ F!LockNext
    \/ part = "windows_lock" /\ L!LockNext
    \/ part = "sim_lock" /\ G!LockNext

Next ==
    /\ UNCHANGED part
    /\ \/ PosixReactor /\ R!ReactorNext /\ UNCHANGED <<wvars, pvars, lvars>>
       \/ WaitReactors /\ UNCHANGED <<rvars, pvars, lvars>>
       \/ Child /\ P!ProcNext /\ UNCHANGED <<rvars, wvars, lvars>>
       \/ Locks /\ UNCHANGED <<rvars, wvars, pvars>>

(* The loop goes on waiting and the system's calls return; a wake that is  *)
(* offered with every batch is not passed over for ever.                   *)
ReactorsRun ==
    /\ WF_rvars(PosixReactor /\ R!ReactorStep) /\ SF_rvars(PosixReactor /\ R!Deliver(TRUE))
    /\ SF_wvars(\/ part = "wait" /\ W!StartWait(99)
                \/ part = "wait_bounded" /\ B!StartWait(2)
                \/ part = "wait_kinds" /\ V!StartWait(1))
    /\ WF_wvars(\/ part = "wait" /\ W!LoopSteps
                \/ part = "wait_bounded" /\ B!LoopSteps
                \/ part = "wait_kinds" /\ V!LoopSteps)
    /\ WF_wvars(\/ part = "wait" /\ W!ReaderSteps(1)
                \/ part = "wait_bounded" /\ B!ReaderSteps(1))

(* Parent and child are both scheduled.  A lock's caller runs its call,    *)
(* and time passes; nobody has to let a lock go.                           *)
OthersRun ==
    /\ WF_pvars(Child /\ P!ParentStep) /\ WF_pvars(Child /\ P!ChildStep)
    /\ \A p \in {1, 2} : WF_lvars(\/ part = "posix_lock" /\ F!InCall(p)
                                  \/ part = "windows_lock" /\ L!InCall(p)
                                  \/ part = "sim_lock" /\ G!InCall(p))
    /\ WF_lvars(part \in {"posix_lock", "windows_lock", "sim_lock"} /\ F!Tick)

Spec == Init /\ [][Next]_vars /\ ReactorsRun /\ OthersRun

(* Reactors: the kernel watches what the registrations say, under their    *)
(* tokens; and EINTR and chunked waits keep the caller's deadline.         *)
WatchesTrue == PosixReactor => R!WatchesTrue /\ R!TimeoutOnTime

(* A wake is reported by some wait(), on all four reactors; data in a      *)
(* watched pipe is, though a thread has to notice it; and dropping the     *)
(* registration always gets that thread to end.                            *)
ReactorsServe ==
    /\ (wake \/ wwake) ~> (out.woken \/ wout.woken)
    /\ W!PipeSeen /\ W!JoinEnds

(* Processes: a spawn that fails leaves no process, zombie or descriptor,  *)
(* and the child is waited for once.                                       *)
LeavesNothing == Child => P!HalfBuiltLeavesNothing /\ P!ReapedOnce

(* Under the lock no copy of the program drops another's update. *)
UpdatesKept == part \in {"posix_lock", "windows_lock"} => F!UpdatesKept

(* Calls are answered: a stop() is seen to have worked, and a timed        *)
(* acquire returns (the copies are alike: one stands for all).             *)
CallsAnswered == P!StopIsSeen /\ F!LockAnswers(1)
=============================================================================
