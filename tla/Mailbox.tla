------------------------------ MODULE Mailbox ------------------------------
(***************************************************************************)
(* include/jaal/kernel/mailbox.hpp: messages from any thread into the      *)
(* loop.                                                                   *)
(*                                                                         *)
(* Everything the code does while it holds m_ is one step here.  What it   *)
(* does outside m_ is a step of its own: the call of wake_(), the          *)
(* decrement of waking_, the notification of room_, the lock-free read of  *)
(* nonempty_, and taking and dropping the strong reference a Sink holds    *)
(* while it sends.  The loop is modelled as far as the mailbox can tell:   *)
(* it sleeps in the reactor until a wake, runs the host's hooks, drains,   *)
(* folds (opening and retiring origins, posting to itself, joining a       *)
(* helper), and at the end closes the mailbox and tears the reactor down.  *)
(***************************************************************************)
EXTENDS Integers, Sequences, FiniteSets, EraseIf

CONSTANTS Loop,        \* the loop thread, loop_
          Senders,     \* pool workers, streams, host threads
          Helpers,     \* helper threads of a scope the loop is in
          NoThread,    \* no thread at all
          Capacity,    \* opt_.capacity; 0 = unbounded
          OnFull,      \* opt_.on_full
          HasWake,     \* was a wake_ installed?
          MaxSends,    \* bound: sends (and bare wakes) of each thread
          MaxOrigins   \* bound: origins the loop opens

Threads == Senders \cup Helpers \cup {Loop}

ASSUME MailboxAssumption ==
  /\ Loop \notin Senders \cup Helpers
  /\ Senders \cap Helpers = {}
  /\ NoThread \notin Threads
  /\ IsFiniteSet(Threads)
  /\ Capacity \in Nat
  /\ OnFull \in {"block", "drop_newest", "drop_oldest"}
  /\ HasWake \in BOOLEAN
  /\ MaxSends \in [Threads -> Nat]
  /\ MaxOrigins \in Nat

VARIABLES
  \* the mailbox object
  q,            \* q_: entries, oldest first, evicted prefix included
  head,         \* head_: length of the evicted prefix
  nonempty,     \* nonempty_: the lock-free hint
  waking,       \* waking_: threads inside wake_()
  stats,        \* stats_
  live,         \* live_: open origins
  lastOrigin,   \* last_origin_
  closed,       \* closed_
  \* who keeps it alive
  owned,        \* the inbox still holds its shared_ptr
  \* the reactor behind wake_
  wakePending,  \* a wake was written and not read yet
  reactorUp,    \* FALSE once the reactor is destroyed
  \* threads
  pc,           \* where each thread is inside a send
  sending,      \* the entry each thread sends
  sends,        \* how many sends each thread began
  userLock,     \* holder of a guarded<> lock the host's hooks also take
  lpc,          \* where the loop is in its turn
  joining,      \* the helper the loop waits for
  \* history
  accepted,     \* every entry a post pushed, in order
  delivered     \* every entry drain_tagged() handed out, in order

boxVars     == <<q, head, nonempty, waking, stats, live, lastOrigin, closed>>
reactorVars == <<wakePending, reactorUp>>
threadVars  == <<pc, sending, sends, userLock>>
loopVars    == <<lpc, joining>>
historyVars == <<accepted, delivered>>
vars == <<boxVars, owned, reactorVars, threadVars, loopVars, historyVars>>

OriginIds   == 1..MaxOrigins
SendNumbers == UNION {0..MaxSends[t] : t \in Threads}
Entries     == [from : 0..MaxOrigins, by : Threads, n : SendNumbers]
Stats       == [dropped : Nat, blocked : Nat, loop_full : Nat, retired : Nat,
                high_water : Nat]
PcValues    == {"idle", "post", "asleep", "notified", "wake_if_open", "wake",
                "uncount", "release"}
LpcValues   == {"wait", "hook", "check", "drain", "fold", "notify", "closing",
                "spin", "closed", "dropped", "gone"}
-----------------------------------------------------------------------------
(* Helpers of the class *)

live_count == Len(q) - head

full == Capacity # 0 /\ live_count >= Capacity

is_retired(id) == id <= lastOrigin /\ id \notin live

Refused(from) == closed \/ (from # 0 /\ is_retired(from))

\* Threads that hold a strong reference: the ones inside Sink::send.
Holders == {t \in Threads : pc[t] # "idle"}

\* Variant: only the loop itself is refused.
MustNotBlock_LoopOnly(t) == t = Loop

\* post_from under overflow::block refuses to wait where the loop may be
\* waiting for this thread: the loop itself, a helper it joins, a thread
\* that holds a lock the loop's hooks take.
MustNotBlock(t) == t = Loop \/ t \in Helpers \/ userLock = t

Goto(t, where) == pc' = [pc EXCEPT ![t] = where]

\* room_.notify_all(): every thread in the wait set re-checks.
NotifyRoom == pc' = [t \in Threads |-> IF pc[t] = "asleep" THEN "notified" ELSE pc[t]]

Count(counter) == stats' = [stats EXCEPT ![counter] = @ + 1]
-----------------------------------------------------------------------------
Init ==
  /\ q = <<>> /\ head = 0 /\ nonempty = FALSE /\ waking = 0
  /\ stats = [dropped |-> 0, blocked |-> 0, loop_full |-> 0, retired |-> 0,
              high_water |-> 0]
  /\ live = {} /\ lastOrigin = 0 /\ closed = FALSE
  /\ owned = TRUE
  /\ wakePending = FALSE /\ reactorUp = TRUE
  /\ pc = [t \in Threads |-> "idle"]
  /\ sending = [t \in Threads |-> [from |-> 0, by |-> t, n |-> 0]]
  /\ sends = [t \in Threads |-> 0]
  /\ userLock = NoThread
  /\ lpc = "hook" /\ joining = NoThread
  /\ accepted = <<>> /\ delivered = <<>>
-----------------------------------------------------------------------------
(* Senders: Sink::send and mailbox::post_from *)

\* The weak reference is turned into a strong one: some other holds one.
Alive == owned \/ Holders # {}

StartSend(t, from, where) ==
  /\ pc[t] = "idle" /\ sends[t] < MaxSends[t] /\ Alive
  /\ sends' = [sends EXCEPT ![t] = @ + 1]
  /\ sending' = [sending EXCEPT ![t] = [from |-> from, by |-> t, n |-> sends[t] + 1]]
  /\ Goto(t, where)

\* A worker, a stream or a host thread sends, maybe from a lock body.
Send(t, from) ==
  /\ t \in Senders
  /\ from \in 0..lastOrigin
  /\ StartSend(t, from, "post")
  /\ \/ UNCHANGED userLock
     \/ userLock = NoThread /\ userLock' = t
  /\ UNCHANGED <<boxVars, owned, reactorVars, loopVars, historyVars>>

\* A failing task wakes the loop without a message (kernel's on_error).
SendWake(t) ==
  /\ t \in Senders
  /\ StartSend(t, 0, "wake_if_open")
  /\ UNCHANGED <<boxVars, owned, reactorVars, userLock, loopVars, historyVars>>

\* The loop posts to its own mailbox.
LoopSend(from) ==
  /\ lpc = "fold" /\ joining = NoThread
  /\ from \in 0..lastOrigin
  /\ StartSend(Loop, from, "post")
  /\ UNCHANGED <<boxVars, owned, reactorVars, userLock, loopVars, historyVars>>

\* The loop runs a scope: a helper sends, and the loop waits for it.
JoinHelper(h, from) ==
  /\ lpc = "fold" /\ joining = NoThread /\ pc[Loop] = "idle"
  /\ h \in Helpers /\ from \in 0..lastOrigin
  /\ StartSend(h, from, "post")
  /\ joining' = h
  /\ UNCHANGED <<boxVars, owned, reactorVars, userLock, lpc, historyVars>>

JoinReturns ==
  /\ joining # NoThread /\ pc[joining] = "idle"
  /\ joining' = NoThread
  /\ UNCHANGED <<boxVars, owned, reactorVars, threadVars, lpc, historyVars>>

\* Variant: a wake already in flight is taken for this one's.
Push_Coalesced(t, buf, evicted) ==
  /\ q' = Append(buf, sending[t]) /\ head' = evicted
  /\ nonempty' = TRUE
  /\ accepted' = Append(accepted, sending[t])
  /\ IF Len(buf) = evicted /\ HasWake /\ waking = 0
     THEN waking' = waking + 1 /\ Goto(t, "wake")
     ELSE UNCHANGED waking /\ Goto(t, "release")
  /\ UNCHANGED <<live, lastOrigin, closed, delivered>>

\* Variant: the hint is set only on the way to a wake.
Push_HintLate(t, buf, evicted) ==
  /\ q' = Append(buf, sending[t]) /\ head' = evicted
  /\ accepted' = Append(accepted, sending[t])
  /\ IF Len(buf) = evicted /\ HasWake
     THEN nonempty' = TRUE /\ waking' = waking + 1 /\ Goto(t, "wake")
     ELSE UNCHANGED <<nonempty, waking>> /\ Goto(t, "release")
  /\ UNCHANGED <<live, lastOrigin, closed, delivered>>

\* The tail of post_from: push, and wake on empty -> non-empty only.
Push(t, buf, evicted) ==
  LET first == Len(buf) = evicted IN
  /\ q' = Append(buf, sending[t]) /\ head' = evicted
  /\ nonempty' = TRUE
  /\ accepted' = Append(accepted, sending[t])
  /\ IF first /\ HasWake
     THEN waking' = waking + 1 /\ Goto(t, "wake")
     ELSE UNCHANGED waking /\ Goto(t, "release")
  /\ UNCHANGED <<live, lastOrigin, closed, delivered>>

HighWater(n) == IF n > stats.high_water THEN n ELSE stats.high_water

Unlocked == UNCHANGED <<owned, reactorVars, sending, sends, userLock, loopVars>>

PostRefused(t) ==
  /\ pc[t] = "post"
  /\ Refused(sending[t].from)
  /\ Goto(t, "release")
  /\ UNCHANGED <<boxVars, historyVars>> /\ Unlocked

PostPush(t) ==
  /\ pc[t] = "post"
  /\ ~Refused(sending[t].from) /\ ~full
  /\ Push(t, q, head)
  /\ stats' = [stats EXCEPT !.high_water = HighWater(live_count + 1)]
  /\ Unlocked

\* Variant: the drop is counted, but the post goes on.
PostDropNewest_GoesOn(t) ==
  /\ pc[t] = "post" /\ OnFull = "drop_newest"
  /\ ~Refused(sending[t].from) /\ full
  /\ Push(t, q, head)
  /\ stats' = [stats EXCEPT !.dropped = @ + 1, !.high_water = HighWater(live_count + 1)]
  /\ Unlocked

PostDropNewest(t) ==
  /\ pc[t] = "post" /\ OnFull = "drop_newest"
  /\ ~Refused(sending[t].from) /\ full
  /\ Count("dropped")
  /\ Goto(t, "release")
  /\ UNCHANGED <<q, head, nonempty, waking, live, lastOrigin, closed, historyVars>>
  /\ Unlocked

\* Variant: the evicted prefix is left to the next drain.
PostDropOldest_NoCompaction(t) ==
  /\ pc[t] = "post" /\ OnFull = "drop_oldest"
  /\ ~Refused(sending[t].from) /\ full
  /\ Push(t, q, head + 1)
  /\ stats' = [stats EXCEPT !.dropped = @ + 1, !.high_water = HighWater(live_count)]
  /\ Unlocked

\* The evicted prefix grows by one, and is erased when it reaches capacity.
PostDropOldest(t) ==
  /\ pc[t] = "post" /\ OnFull = "drop_oldest"
  /\ ~Refused(sending[t].from) /\ full
  /\ IF head + 1 >= Capacity
     THEN Push(t, SubSeq(q, head + 2, Len(q)), 0)
     ELSE Push(t, q, head + 1)
  /\ stats' = [stats EXCEPT !.dropped = @ + 1, !.high_water = HighWater(live_count)]
  /\ Unlocked

PostLoopFull(t) ==
  /\ pc[t] = "post" /\ OnFull = "block"
  /\ ~Refused(sending[t].from) /\ full
  /\ MustNotBlock(t)
  /\ Count("loop_full")
  /\ Goto(t, "release")
  /\ UNCHANGED <<q, head, nonempty, waking, live, lastOrigin, closed, historyVars>>
  /\ Unlocked

\* Enters room_.wait().
PostBlock(t) ==
  /\ pc[t] = "post" /\ OnFull = "block"
  /\ ~Refused(sending[t].from) /\ full
  /\ ~MustNotBlock(t)
  /\ Count("blocked")
  /\ Goto(t, "asleep")
  /\ UNCHANGED <<q, head, nonempty, waking, live, lastOrigin, closed, historyVars>>
  /\ Unlocked

\* The condition variable may wake a waiter for no reason.
SpuriousWakeup(t) ==
  /\ pc[t] = "asleep"
  /\ Goto(t, "notified")
  /\ UNCHANGED <<boxVars, historyVars>> /\ Unlocked

\* The wait's predicate is closed_ || !full(): nothing else ends it.
WaitAgain(t) ==
  /\ pc[t] = "notified"
  /\ ~closed /\ full
  /\ Goto(t, "asleep")
  /\ UNCHANGED <<boxVars, historyVars>> /\ Unlocked

WaitRefused(t) ==
  /\ pc[t] = "notified"
  /\ closed \/ ~full
  /\ Refused(sending[t].from)
  /\ Goto(t, "release")
  /\ UNCHANGED <<boxVars, historyVars>> /\ Unlocked

\* Variant: after the wait only closed_ is checked again.
WaitPush_NotRechecked(t) ==
  /\ pc[t] = "notified"
  /\ ~full /\ ~closed
  /\ Push(t, q, head)
  /\ stats' = [stats EXCEPT !.high_water = HighWater(live_count + 1)]
  /\ Unlocked

WaitPush(t) ==
  /\ pc[t] = "notified"
  /\ ~full /\ ~Refused(sending[t].from)
  /\ Push(t, q, head)
  /\ stats' = [stats EXCEPT !.high_water = HighWater(live_count + 1)]
  /\ Unlocked

WakeIfOpen(t) ==
  /\ pc[t] = "wake_if_open"
  /\ IF closed \/ ~HasWake
     THEN UNCHANGED waking /\ Goto(t, "release")
     ELSE waking' = waking + 1 /\ Goto(t, "wake")
  /\ UNCHANGED <<q, head, nonempty, stats, live, lastOrigin, closed, historyVars>>
  /\ Unlocked

\* wake_(): one write to the reactor's eventfd, outside the lock.
CallWake(t) ==
  /\ pc[t] = "wake"
  /\ wakePending' = TRUE
  /\ Goto(t, "uncount")
  /\ UNCHANGED <<boxVars, owned, reactorUp, sending, sends, userLock, loopVars,
                 historyVars>>

Uncount(t) ==
  /\ pc[t] = "uncount"
  /\ waking' = waking - 1
  /\ Goto(t, "release")
  /\ UNCHANGED <<q, head, nonempty, stats, live, lastOrigin, closed, historyVars>>
  /\ Unlocked

\* Sink::send returns and its shared_ptr goes away.
Release(t) ==
  /\ pc[t] = "release"
  /\ Goto(t, "idle")
  /\ userLock' = IF userLock = t THEN NoThread ELSE userLock
  /\ UNCHANGED <<boxVars, owned, reactorVars, sending, sends, loopVars, historyVars>>

SenderStep(t) ==
  \/ PostRefused(t) \/ PostPush(t) \/ PostDropNewest(t) \/ PostDropOldest(t)
  \/ PostLoopFull(t) \/ PostBlock(t)
  \/ WaitAgain(t) \/ WaitRefused(t) \/ WaitPush(t)
  \/ WakeIfOpen(t) \/ CallWake(t) \/ Uncount(t) \/ Release(t)
-----------------------------------------------------------------------------
(* The loop thread *)

LoopFree == pc[Loop] = "idle" /\ joining = NoThread

LoopGoto(from, to) == LoopFree /\ lpc = from /\ lpc' = to /\ UNCHANGED joining

\* The reactor returns for the waker (with or without other events)...
WaitWoken ==
  /\ LoopGoto("wait", "hook")
  /\ wakePending \/ ~HasWake
  /\ wakePending' = FALSE
  /\ UNCHANGED <<boxVars, owned, reactorUp, threadVars, historyVars>>

\* ... or for a deadline, a signal or a handle, the waker untouched.
WaitOther ==
  /\ LoopGoto("wait", "hook")
  /\ UNCHANGED <<boxVars, owned, reactorVars, threadVars, historyVars>>

\* The host's hooks run; they take the user's lock for a moment.
RunHooks ==
  /\ LoopGoto("hook", "check")
  /\ userLock = NoThread
  /\ UNCHANGED <<boxVars, owned, reactorVars, threadVars, historyVars>>

\* drain_tagged() reads the hint without the lock.
CheckHint ==
  /\ LoopGoto("check", IF nonempty THEN "drain" ELSE "fold")
  /\ UNCHANGED <<boxVars, owned, reactorVars, threadVars, historyVars>>

\* Issued and not live any more (see is_retired); 0 is never retired.
Dead == (1..lastOrigin) \ live

\* What is left of q after the evicted prefix, and what of that is handed out.
LiveEntries == SubSeq(q, head + 1, Len(q))
Kept        == Keeping(LiveEntries, {e \in Entries : e.from \notin Dead})

\* Variant: the evicted prefix is counted as retired too.
DrainTagged_PrefixCounted ==
  /\ LoopGoto("drain", "notify")
  /\ live_count > 0
  /\ nonempty' = FALSE
  /\ q' = <<>> /\ head' = 0
  /\ delivered' = delivered \o Kept
  /\ stats' = [stats EXCEPT !.retired = @ + Len(q) - Len(Kept)]
  /\ UNCHANGED <<waking, live, lastOrigin, closed, owned, reactorVars, threadVars,
                 accepted>>

\* Variant: the evicted prefix is handed out too.
DrainTagged_PrefixDelivered ==
  /\ LoopGoto("drain", "notify")
  /\ live_count > 0
  /\ nonempty' = FALSE
  /\ q' = <<>> /\ head' = 0
  /\ delivered' = delivered \o Keeping(q, {e \in Entries : e.from \notin Dead})
  /\ stats' = [stats EXCEPT !.retired = @ + live_count - Len(Kept)]
  /\ UNCHANGED <<waking, live, lastOrigin, closed, owned, reactorVars, threadVars,
                 accepted>>

\* Variant: blocked senders are not notified.
DrainTagged_Silent ==
  /\ LoopGoto("drain", "fold")
  /\ live_count > 0
  /\ nonempty' = FALSE
  /\ q' = <<>> /\ head' = 0
  /\ delivered' = delivered \o Kept
  /\ stats' = [stats EXCEPT !.retired = @ + live_count - Len(Kept)]
  /\ UNCHANGED <<waking, live, lastOrigin, closed, owned, reactorVars, threadVars,
                 accepted>>

\* The early return under the lock (live_count() == 0) is never taken: the hint
\* is set together with a push and only the loop empties the queue, so a loop
\* past the hint finds something. Were it reachable, the loop would stop here.
DrainTagged ==
  /\ LoopGoto("drain", "notify")
  /\ live_count > 0
  /\ nonempty' = FALSE
  /\ q' = <<>> /\ head' = 0
  /\ delivered' = delivered \o Kept
  /\ stats' = [stats EXCEPT !.retired = @ + live_count - Len(Kept)]
  /\ UNCHANGED <<waking, live, lastOrigin, closed, owned, reactorVars, threadVars,
                 accepted>>

\* After a drain or a retirement, outside the lock: blocked senders, go.
Notify ==
  /\ LoopGoto("notify", "fold")
  /\ IF Capacity # 0 THEN NotifyRoom ELSE UNCHANGED pc
  /\ UNCHANGED <<boxVars, owned, reactorVars, sending, sends, userLock, historyVars>>

\* A stream or a keyed task starts.
OpenOrigin ==
  /\ LoopGoto("fold", "fold")
  /\ lastOrigin < MaxOrigins
  /\ lastOrigin' = lastOrigin + 1
  /\ live' = live \cup {lastOrigin + 1}
  /\ UNCHANGED <<q, head, nonempty, waking, stats, closed, owned, reactorVars,
                 threadVars, historyVars>>

\* ... and is stopped.
Retire(id) ==
  /\ LoopGoto("fold", "notify")
  /\ id \in live
  /\ live' = live \ {id}
  /\ UNCHANGED <<q, head, nonempty, waking, stats, lastOrigin, closed, owned,
                 reactorVars, threadVars, historyVars>>

\* The turn ends and the loop goes to sleep in the reactor.
EndTurn ==
  /\ LoopGoto("fold", "wait")
  /\ UNCHANGED <<boxVars, owned, reactorVars, threadVars, historyVars>>

CloseBox ==
  /\ LoopGoto("fold", "closing")
  /\ closed' = TRUE /\ q' = <<>> /\ head' = 0 /\ live' = {} /\ nonempty' = FALSE
  /\ UNCHANGED <<waking, stats, lastOrigin, owned, reactorVars, threadVars,
                 historyVars>>

\* Variant: close() leaves blocked senders waiting.
CloseNotify_Silent ==
  /\ LoopGoto("closing", "spin")
  /\ UNCHANGED <<boxVars, owned, reactorVars, threadVars, historyVars>>

CloseNotify ==
  /\ LoopGoto("closing", "spin")
  /\ NotifyRoom
  /\ UNCHANGED <<boxVars, owned, reactorVars, sending, sends, userLock, historyVars>>

\* Variant: close() does not wait for waking_.
CloseSpin_Early ==
  /\ LoopGoto("spin", "closed")
  /\ UNCHANGED <<boxVars, owned, reactorVars, threadVars, historyVars>>

\* Senders still inside wake_() are waited out.
CloseSpin ==
  /\ LoopGoto("spin", "closed")
  /\ waking = 0
  /\ UNCHANGED <<boxVars, owned, reactorVars, threadVars, historyVars>>

\* ~inbox: the kernel's shared_ptr goes away.
DropBox ==
  /\ LoopGoto("closed", "dropped")
  /\ owned' = FALSE
  /\ UNCHANGED <<boxVars, reactorVars, threadVars, historyVars>>

\* run() returns: the reactor was created first and goes last.
DropReactor ==
  /\ LoopGoto("dropped", "gone")
  /\ reactorUp' = FALSE
  /\ UNCHANGED <<boxVars, owned, wakePending, threadVars, historyVars>>

LoopStep ==
  \/ WaitWoken \/ RunHooks \/ CheckHint \/ DrainTagged \/ Notify
  \/ EndTurn \/ CloseNotify \/ CloseSpin \/ DropBox \/ DropReactor \/ JoinReturns

\* After the loop is gone and every send returned nothing happens any more.
Terminated ==
  /\ lpc = "gone" /\ Holders = {}
  /\ UNCHANGED vars

Next ==
  \/ \E t \in Threads : SenderStep(t) \/ SpuriousWakeup(t)
  \/ \E t \in Senders : SendWake(t) \/ \E from \in 0..MaxOrigins : Send(t, from)
  \/ \E from \in 0..MaxOrigins : LoopSend(from) \/ \E h \in Helpers : JoinHelper(h, from)
  \/ \E id \in OriginIds : Retire(id)
  \/ OpenOrigin \/ CloseBox \/ WaitOther
  \/ LoopStep
  \/ Terminated

Spec == Init /\ [][Next]_vars

\* Threads run: a thread inside a send keeps going, and the loop keeps
\* turning.  Nobody has to send, the loop need not quit, and a deadline or
\* a spurious wakeup need never come.
Fairness == WF_vars(LoopStep) /\ \A t \in Threads : WF_vars(SenderStep(t))

FairSpec == Spec /\ Fairness
-----------------------------------------------------------------------------
(* Properties *)

BoxTypeOK ==
  /\ q \in Seq(Entries) /\ head \in 0..Len(q)
  /\ nonempty \in BOOLEAN /\ waking \in Int /\ stats \in Stats
  /\ lastOrigin \in 0..MaxOrigins /\ live \subseteq 1..lastOrigin
  /\ closed \in BOOLEAN

ThreadTypeOK ==
  /\ pc \in [Threads -> PcValues] /\ sending \in [Threads -> Entries]
  /\ sends \in [Threads -> Nat]
  /\ userLock \in Senders \cup {NoThread}

LoopTypeOK ==
  /\ lpc \in LpcValues /\ joining \in Helpers \cup {NoThread}
  /\ owned \in BOOLEAN
  /\ wakePending \in BOOLEAN /\ reactorUp \in BOOLEAN

\* The fields hold what their declarations say, and head_ indexes into q_.
TypeOK ==
  /\ BoxTypeOK /\ ThreadTypeOK /\ LoopTypeOK
  /\ accepted \in Seq(Entries) /\ delivered \in Seq(Entries)

\* No wake is lost (mailbox.hpp:6-10): whenever the loop sleeps in the
\* reactor with a message queued, the wake that will end its sleep is
\* pending or about to be written, although only the sender that found the
\* queue empty wakes and the loop reads nonempty_ without the lock.
NoLostWake ==
  HasWake /\ lpc = "wait" /\ live_count > 0
    => wakePending \/ \E t \in Threads : pc[t] = "wake"

\* No wake reaches a reactor that is gone (mailbox.hpp:109-112): the wake is
\* written outside the lock, yet close() waits for waking_ to drain.
WakeReachesReactor == \A t \in Threads : pc[t] = "wake" => reactorUp

\* A stalled loop cannot make the buffer grow (mailbox.hpp:129-131): live
\* entries stay within capacity and the buffer under twice the capacity,
\* also after a blocked sender resumes.
BufferBound ==
  Capacity # 0 => live_count <= Capacity /\ Len(q) < 2 * Capacity

\* The entries drop_oldest threw away, as the counters have them.
Evictions == IF OnFull = "drop_oldest" THEN stats.dropped ELSE 0

\* The buffer is bounded and the counters explain every message
\* (mailbox.hpp:51): until close(), each accepted message was delivered, is
\* queued, or was counted as evicted or as retired, once.
Accounted ==
  /\ BufferBound
  /\ ~closed => Len(accepted) = Len(delivered) + live_count + stats.retired + Evictions

\* The mailbox keeps the channel's promise: accepted messages come out once,
\* in order, bounded by the capacity, and never after their origin retired.
Ch == INSTANCE Channel WITH
        Messages <- Entries, Origins <- OriginIds,
        queue <- LiveEntries, delivered <- delivered,
        dead <- Dead, open <- ~closed

ImplementsChannel == Ch!ChannelSpec

\* Every queued message leaves the queue: the loop is woken and drains it.
Drains == (live_count > 0) ~> (live_count = 0)

\* A sender blocked on a full mailbox gets out, by a drain or by close()
\* (mailbox.hpp:39-41).
BlockedReleased == \A t \in Threads : pc[t] = "asleep" ~> pc[t] = "idle"

\* The loop always gets to its drain: neither a helper it joins nor a thread
\* that holds a lock its hooks need can be waiting for that drain
\* (mailbox.hpp:139-150).
LoopNotStuck == (lpc # "gone") ~> (lpc \in {"wait", "gone"})

\* close() ends: its spin on waking_ and the senders it releases all finish.
CloseEnds == closed ~> (lpc = "gone" /\ Holders = {})

\* No sender is left waiting, while the mailbox is open or once it closes.
SendersReleased == BlockedReleased /\ CloseEnds
=============================================================================
