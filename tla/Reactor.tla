------------------------------- MODULE Reactor -------------------------------
(* The three POSIX reactors (src/platform/linux/epoll_reactor.cpp,         *)
(* posix/poll_reactor.cpp, darwin/kqueue_reactor.cpp), one module: they    *)
(* share the slot table, the registrations and the shape of wait(), and    *)
(* `Backend` selects what differs.  The loop thread watches, modifies,     *)
(* drops and waits; any thread wakes; the owner of a descriptor, its peer  *)
(* and the clock move meanwhile.  `os` is what the kernel was told to      *)
(* watch; poll() is told at each call.                                     *)
EXTENDS Naturals, Sequences, FiniteSets

CONSTANTS Fds, Regs,  \* descriptor numbers; the owner's registration objects
          Interests,  \* what they ask for: sets of directions
          Conds,      \* what may become true of each descriptor
          Cap,        \* entries of wait_result::ready
          Chunk,      \* the longest single system call: INT_MAX, kMaxChunkMs
          Timeouts, None

VARIABLES Backend,    \* "epoll", "poll" or "kqueue": never changes
          slots, free, os, file, reg, wake, call, out

rvars == <<slots, free, os, file, reg, wake, call, out>>

Dirs == {"read", "write"}
Nothing == [woken |-> FALSE, timeout |-> FALSE, ready |-> {}]
NoCall == [pc |-> "idle", t |-> None, spent |-> 0, sys |-> None]
Idle == call.pc = "idle"
Blocked == call.pc = "blocked"
Dead == [fd |-> 0, what |-> {}, token |-> 0, live |-> FALSE]
NoReg == [slot |-> 0, torn |-> FALSE]

(* What the kernel is told for one slot: a filter per direction, carrying  *)
(* the slot as user data.                                                  *)
Entries(i, fd, what) == {[fd |-> fd, dir |-> d, tag |-> i] : d \in what}
Live == {i \in DOMAIN slots : slots[i].live}
Told == UNION {Entries(i, slots[i].fd, slots[i].what) : i \in Live}
Watching == IF Backend = "poll" THEN Told ELSE os

(* epoll leaves the duplicate to EPOLL_CTL_ADD; the others look themselves. *)
Duplicate(fd) ==
    IF Backend = "epoll" THEN \E e \in os : e.fd = fd
                         ELSE \E i \in Live : slots[i].fd = fd

ReactorInit ==
    /\ slots = <<>> /\ free = <<>> /\ os = {} /\ wake = FALSE /\ out = Nothing
    /\ file = [f \in Fds |-> {"open"}]
    /\ reg = [r \in Regs |-> NoReg]
    /\ call = NoCall

(* watch(): the slot is taken before the kernel is asked, and given back   *)
(* when it refuses.  One unused registration object is as good as another; *)
(* the caller's token is the descriptor.                                   *)
Fresh == free = <<>>
Idx   == IF Fresh THEN Len(slots) + 1 ELSE free[Len(free)]
Rest  == IF Fresh THEN <<>> ELSE SubSeq(free, 1, Len(free) - 1)
Grown == IF Fresh THEN Append(slots, Dead) ELSE slots

Added(r, fd, what) ==
    /\ slots' = [Grown EXCEPT ![Idx] = [fd |-> fd, what |-> what, token |-> fd, live |-> TRUE]]
    /\ free' = Rest
    /\ reg' = [reg EXCEPT ![r] = [slot |-> Idx, torn |-> FALSE]]

Refused == slots' = Grown /\ free' = Append(Rest, Idx) /\ UNCHANGED <<os, reg>>

epoll_watch(r, fd, what) ==
    /\ Backend = "epoll"
    /\ IF Duplicate(fd) \/ "open" \notin file[fd] THEN Refused
       ELSE Added(r, fd, what) /\ os' = os \cup Entries(Idx, fd, what)

kqueue_watch(r, fd, what) ==
    /\ Backend = "kqueue" /\ ~Duplicate(fd)
    /\ IF "open" \notin file[fd] THEN Refused
       ELSE Added(r, fd, what) /\ os' = os \cup Entries(Idx, fd, what)

poll_watch(r, fd, what) ==
    Backend = "poll" /\ ~Duplicate(fd) /\ Added(r, fd, what) /\ UNCHANGED os

Watch(r, fd, what) ==
    /\ Idle /\ reg[r].slot = 0 /\ \A q \in Regs : reg[q].slot = 0 => r <= q
    /\ epoll_watch(r, fd, what) \/ kqueue_watch(r, fd, what) \/ poll_watch(r, fd, what)
    /\ UNCHANGED <<file, wake, call, out>>

(* Variant: the slot is freed but the kernel still watches for it. *)
unwatch_Kept(i) == os

(* unwatch(): what the kernel still watches once slot i is taken out. *)
epoll_unwatch(i)  == {e \in os : e.fd # slots[i].fd}
kqueue_unwatch(i) == {e \in os : e.fd # slots[i].fd \/ e.dir \notin slots[i].what}
unwatch(i) ==
    CASE Backend = "epoll"  -> epoll_unwatch(i)
      [] Backend = "kqueue" -> kqueue_unwatch(i)
      [] OTHER -> os

release(i) ==
    os' = unwatch(i) /\ slots' = [slots EXCEPT ![i] = Dead] /\ free' = Append(free, i)

(* ~registration() *)
Drop(r) ==
    /\ Idle /\ reg[r].slot # 0
    /\ release(reg[r].slot)
    /\ reg' = [reg EXCEPT ![r] = NoReg]
    /\ UNCHANGED <<file, wake, call, out>>

(* Moving one registration object onto another, which lets go of its own.  *)
(* (Onto an empty one, only the object's name changes.)                    *)
Move(r, q) ==
    /\ Idle /\ r # q /\ reg[r].slot # 0 /\ reg[q].slot # 0
    /\ release(reg[q].slot)
    /\ reg' = [reg EXCEPT ![q] = reg[r], ![r] = NoReg]
    /\ UNCHANGED <<file, wake, call, out>>

(* modify().  kqueue deletes the filters no longer wanted, then adds the   *)
(* new ones; when the add fails the slot keeps its old interest, and the   *)
(* owner has nothing left to do but drop it.                               *)
Wants(i, what) == slots' = [slots EXCEPT ![i].what = what]

epoll_modify(r, i, what) ==
    /\ Backend = "epoll" /\ "open" \in file[slots[i].fd]
    /\ os' = epoll_unwatch(i) \cup Entries(i, slots[i].fd, what)
    /\ Wants(i, what) /\ UNCHANGED reg

poll_modify(r, i, what) == Backend = "poll" /\ Wants(i, what) /\ UNCHANGED <<os, reg>>

kqueue_modify(r, i, what) ==
    LET kept  == {e \in os : e.fd # slots[i].fd \/ e.dir \in what}
        fresh == what \ slots[i].what
    IN /\ Backend = "kqueue"
       /\ \/ /\ "open" \in file[slots[i].fd] /\ Wants(i, what)
             /\ os' = kept \cup Entries(i, slots[i].fd, fresh) /\ UNCHANGED reg
          \/ /\ fresh # {}
             /\ os' = kept /\ reg' = [reg EXCEPT ![r].torn = TRUE] /\ UNCHANGED slots

Modify(r, what) ==
    LET i == reg[r].slot IN
    /\ Idle /\ i # 0 /\ ~reg[r].torn /\ slots[i].what # what
    /\ epoll_modify(r, i, what) \/ poll_modify(r, i, what) \/ kqueue_modify(r, i, what)
    /\ UNCHANGED <<free, file, wake, call, out>>

(* waker_ref::wake(): from any thread or a signal handler, at any time; a  *)
(* full pipe or a saturated counter is a wake already pending.             *)
Wake == wake' = TRUE /\ UNCHANGED <<slots, free, os, file, reg, call, out>>

(* The descriptor's owner and its peer.  Closing takes the kernel's        *)
(* entries away; the number comes back once its registration is gone.      *)
OwnerActs(fd) ==
    /\ \/ /\ "open" \in file[fd]
          /\ \E c \in Conds[fd] \ file[fd] :
                file' = [file EXCEPT ![fd] = @ \cup {c}]
          /\ UNCHANGED os
       \/ /\ Idle /\ file[fd] \cap Dirs # {}
          /\ file' = [file EXCEPT ![fd] = @ \ Dirs] /\ UNCHANGED os
       \/ /\ Idle /\ "open" \in file[fd]
          /\ file' = [file EXCEPT ![fd] = {}] /\ os' = {e \in os : e.fd # fd}
       \/ /\ Idle /\ "open" \notin file[fd] /\ \A i \in Live : slots[i].fd # fd
          /\ file' = [file EXCEPT ![fd] = {"open"}] /\ UNCHANGED os
    /\ UNCHANGED <<slots, free, reg, wake, call, out>>

(* epoll_timeout(), poll_timeout(), to_timespec(): the caller's time left, *)
(* clamped before it is narrowed.                                          *)
Left == IF call.t > call.spent THEN call.t - call.spent ELSE 0
epoll_timeout(t) == IF t > Chunk THEN Chunk ELSE t
poll_timeout(t) == IF t > Chunk THEN Chunk ELSE t
to_timespec(t) == IF t > Chunk THEN Chunk ELSE t
Clamp(t) ==
    CASE Backend = "epoll" -> epoll_timeout(t)
      [] Backend = "poll" -> poll_timeout(t)
      [] OTHER -> to_timespec(t)

StartWait(t) ==
    /\ Idle
    /\ call' = [pc |-> "blocked", t |-> t, spent |-> 0,
                sys |-> IF t = None THEN None ELSE Clamp(t)]
    /\ out' = Nothing
    /\ UNCHANGED <<slots, free, os, file, reg, wake>>

Tick ==
    /\ Blocked /\ call.t # None /\ call.sys > 0
    /\ call' = [call EXCEPT !.spent = @ + 1, !.sys = @ - 1]
    /\ UNCHANGED <<slots, free, os, file, reg, wake, out>>

(* Variant: a retry after EINTR waits the whole timeout again. *)
Interrupted_Restart ==
    /\ Blocked /\ call.t # None
    /\ call' = [call EXCEPT !.sys = Clamp(call.t)]
    /\ UNCHANGED <<slots, free, os, file, reg, wake, out>>

(* EINTR: retry with the time that is left. *)
Interrupted ==
    /\ Blocked /\ call.t # None
    /\ call' = [call EXCEPT !.sys = Clamp(Left)]
    /\ UNCHANGED <<slots, free, os, file, reg, wake, out>>

Fires(e) == {e.dir, "hangup"} \cap file[e.fd] # {} \/ "open" \notin file[e.fd]

(* What the kernel hands back: everything that is ready, or as much as the *)
(* array holds beside the waker; for epoll a slot is one event, for kqueue *)
(* a slot and a direction.                                                 *)
Ready == {e \in Watching : Fires(e)}
Tags(b) == {e.tag : e \in b}
Besides(woken) == IF woken THEN 0 ELSE 1
epoll_events(woken) ==
    IF Cardinality(Tags(Ready)) <= Cap THEN {Ready}
    ELSE {b \in SUBSET Ready :
            /\ Cardinality(Tags(b)) = Cap + Besides(woken)
            /\ \A e \in b, f \in Ready : e.tag = f.tag => f \in b}
poll_events == {Ready}
kqueue_events(woken) ==
    IF Cardinality(Ready) <= 2 * Cap THEN {Ready}
    ELSE {b \in SUBSET Ready : Cardinality(b) = 2 * Cap + Besides(woken)}
Events(woken) ==
    CASE Backend = "epoll" -> epoll_events(woken)
      [] Backend = "poll" -> poll_events
      [] OTHER -> kqueue_events(woken)

(* A full array may leave the waker out. *)
NoRoom(b) ==
    \/ Backend = "epoll" /\ Cardinality(Tags(b)) > Cap
    \/ Backend = "kqueue" /\ Cardinality(b) > 2 * Cap

(* Which slots are reported: live ones, at most Cap; poll()'s in order. *)
AsMany(tags) ==
    {s \in SUBSET tags :
       Cardinality(s) = IF Cardinality(tags) < Cap THEN Cardinality(tags) ELSE Cap}
epoll_reports(b) == AsMany(Tags(b) \cap Live)
poll_reports(b) == {s \in AsMany(Tags(b)) : \A i \in s, j \in Tags(b) \ s : i < j}
kqueue_reports(b) == AsMany(Tags(b) \cap Live)
Reported(b) ==
    CASE Backend = "epoll" -> epoll_reports(b)
      [] Backend = "poll" -> poll_reports(b)
      [] OTHER -> kqueue_reports(b)

Report(b, i) ==
    [token |-> slots[i].token,
     what  |-> {e.dir : e \in {x \in b : x.tag = i /\ x.dir \in file[x.fd]}}
               \cup (IF "hangup" \in file[slots[i].fd] THEN {"hangup"} ELSE {})
               \cup (IF "open" \notin file[slots[i].fd] THEN {"error"} ELSE {})]

(* Variant: the waker's event is drained but not reported beside others. *)
Result_Swallowed(woken, b, s) ==
    [woken |-> woken /\ s = {}, timeout |-> FALSE, ready |-> {Report(b, i) : i \in s}]

Result(woken, b, s) ==
    [woken |-> woken, timeout |-> FALSE, ready |-> {Report(b, i) : i \in s}]

(* The system call returns events: the waker's is drained, a slot that is  *)
(* no longer live is skipped, kqueue's two filters are merged by token.    *)
Deliver(woken) ==
    /\ Blocked /\ woken => wake
    /\ \E b \in Events(woken) : \E s \in Reported(b) :
         /\ woken \/ b # {}
         /\ (~woken /\ wake) => NoRoom(b)
         /\ out' = Result(woken, b, s)
    /\ wake' = (wake /\ ~woken)
    /\ call' = [call EXCEPT !.pc = "returned"]
    /\ UNCHANGED <<slots, free, os, file, reg>>

(* The call's time ran out.  kqueue waits again when only a chunk did. *)
wait_again ==
    Backend = "kqueue" /\ Left > 0 /\ call' = [call EXCEPT !.sys = Clamp(Left)] /\ UNCHANGED out
timed_out ==
    /\ Backend = "kqueue" => Left = 0
    /\ call' = [call EXCEPT !.pc = "returned"] /\ out' = [Nothing EXCEPT !.timeout = TRUE]
TimesOut ==
    /\ Blocked /\ call.t # None /\ call.sys = 0 /\ ~wake /\ Ready = {}
    /\ wait_again \/ timed_out
    /\ UNCHANGED <<slots, free, os, file, reg, wake>>

(* The caller has read the result. *)
Return ==
    /\ call.pc = "returned"
    /\ call' = NoCall /\ out' = Nothing
    /\ UNCHANGED <<slots, free, os, file, reg, wake>>

ReactorNext ==
    /\ UNCHANGED Backend
    /\ \/ \E r, q \in Regs : Move(r, q)
       \/ \E r \in Regs : \/ Drop(r)
                          \/ \E what \in Interests : Modify(r, what)
                          \/ \E fd \in Fds, what \in Interests : Watch(r, fd, what)
       \/ Wake \/ Tick \/ Interrupted \/ TimesOut \/ Return
       \/ \E fd \in Fds : OwnerActs(fd)
       \/ \E t \in Timeouts : StartWait(t)
       \/ \E woken \in BOOLEAN : Deliver(woken)

(* The loop goes on calling wait(), and the system's call returns. *)
ReactorStep ==
    \/ TimesOut \/ Return \/ Tick
    \/ \E t \in Timeouts : StartWait(t)
    \/ \E woken \in BOOLEAN : Deliver(woken)

(* A registration is what it says: the kernel watches its descriptor for   *)
(* exactly its interest while it is open, nothing is watched for nobody,   *)
(* and wait() reports a token only for its own descriptor's readiness.     *)
(* A slot is reused by the next watch(), so a filter left behind would     *)
(* report one connection's data under another's token.  (A kqueue          *)
(* modify() that returned an error leaves its registration undefined.)     *)
WatchesTrue ==
    /\ \A r \in Regs : LET i == reg[r].slot IN
         i # 0 /\ ~reg[r].torn /\ "open" \in file[slots[i].fd]
           => {e \in Watching : e.fd = slots[i].fd} = Entries(i, slots[i].fd, slots[i].what)
    /\ \A e \in Watching : \E r \in Regs : reg[r].slot = e.tag /\ slots[e.tag].fd = e.fd
    /\ \A e \in out.ready : e.what \subseteq file[e.token] \cup {"error"}
    /\ Cardinality(out.ready) <= Cap

(* "EINTR never ends a wait early" nor makes it late: a timeout is         *)
(* reported when the caller's time is over (epoll and poll may stop after  *)
(* the longest call the system takes), and never under an unbounded wait.  *)
TimeoutOnTime ==
    /\ out.timeout => /\ call.t # None
                      /\ call.spent >= (IF Backend = "kqueue" THEN call.t ELSE Clamp(call.t))
    /\ call.t # None => call.spent <= call.t

(* A wake is never lost: whenever it was posted, some wait() reports it. *)
WakeLands == wake ~> out.woken
=============================================================================
