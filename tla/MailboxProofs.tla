--------------------------- MODULE MailboxProofs ---------------------------
(* Proofs about Mailbox, for every set of threads, capacity and policy.     *)
EXTENDS Mailbox, EraseIfProofs, FiniteSetTheorems, SequenceTheorems, TLAPS

-----------------------------------------------------------------------------
(* Type correctness *)

\* An entry has the fields and types of Entries.
LEMMA EntryType ==
  ASSUME NEW from \in 0..MaxOrigins, NEW t \in Threads, NEW k \in Nat,
         k <= MaxSends[t]
  PROVE  [from |-> from, by |-> t, n |-> k] \in Entries
<1>1. k \in 0..MaxSends[t]
  BY MailboxAssumption
<1>2. k \in SendNumbers
  BY <1>1 DEF SendNumbers
<1> QED
  BY <1>2 DEF Entries

\* What a drain hands out is made of entries, and is no more than was queued.
LEMMA KeptType ==
  ASSUME q \in Seq(Entries), head \in 0..Len(q)
  PROVE  /\ LiveEntries \in Seq(Entries) /\ Len(LiveEntries) = live_count
         /\ Kept \in Seq(Entries) /\ Len(Kept) \in 0..live_count
<1>1. LiveEntries \in Seq(Entries) /\ Len(LiveEntries) = live_count
  BY DEF LiveEntries, live_count
<1>2. /\ Kept \in Seq(Entries \cap {e \in Entries : e.from \notin Dead})
      /\ Len(Kept) <= Len(LiveEntries)
  BY <1>1, KeepingHolds, Zenon DEF Kept
<1>3. Kept \in Seq(Entries)
  BY <1>2
<1> QED
  BY <1>1, <1>2, <1>3

\* The constructor leaves every field well typed.
LEMMA InitTypeOK == Init => TypeOK
<1> SUFFICES ASSUME Init PROVE TypeOK
  OBVIOUS
<1>1. \A t \in Threads : [from |-> 0, by |-> t, n |-> 0] \in Entries
  BY EntryType, MailboxAssumption
<1>2. BoxTypeOK
  <2>1. stats \in Stats
    BY DEF Init, Stats
  <2>2. q \in Seq(Entries) /\ head \in 0..Len(q)
    BY DEF Init
  <2>3. lastOrigin \in 0..MaxOrigins /\ live \subseteq 1..lastOrigin
    BY MailboxAssumption DEF Init
  <2>4. nonempty \in BOOLEAN /\ closed \in BOOLEAN
    BY Zenon DEF Init
  <2>5. waking \in Int
    BY DEF Init
  <2> QED
    BY <2>1, <2>2, <2>3, <2>4, <2>5 DEF BoxTypeOK
<1>3. ThreadTypeOK
  BY <1>1, MailboxAssumption DEF Init, ThreadTypeOK, PcValues
<1>4. LoopTypeOK
  BY ZenonT(30) DEF Init, LoopTypeOK, LpcValues
<1> QED
  BY <1>2, <1>3, <1>4 DEF Init, TypeOK

\* Moving one thread keeps the threads' types.
LEMMA GotoType ==
  ASSUME ThreadTypeOK, NEW t \in Threads, NEW where \in PcValues, Goto(t, where)
  PROVE  pc' \in [Threads -> PcValues]
BY DEF ThreadTypeOK, Goto

\* Waking the wait set keeps pc well typed.
LEMMA NotifyRoomType ==
  ASSUME ThreadTypeOK, NotifyRoom
  PROVE  pc' \in [Threads -> PcValues]
BY DEF ThreadTypeOK, NotifyRoom, PcValues

\* The tail of post_from keeps the queue, the hint and waking_ well typed.
LEMMA PushType ==
  ASSUME TypeOK, NEW t \in Threads,
         NEW buf \in Seq(Entries), NEW evicted \in 0..Len(buf), Push(t, buf, evicted)
  PROVE  /\ q' \in Seq(Entries) /\ head' \in 0..Len(q')
         /\ nonempty' \in BOOLEAN /\ waking' \in Int
         /\ lastOrigin' = lastOrigin /\ live' = live /\ closed' = closed
         /\ pc' \in [Threads -> PcValues] /\ accepted' \in Seq(Entries)
         /\ delivered' \in Seq(Entries)
<1>1. sending[t] \in Entries
  BY DEF TypeOK, ThreadTypeOK
<1>2. q' \in Seq(Entries) /\ head' \in 0..Len(q') /\ accepted' \in Seq(Entries)
  BY <1>1 DEF Push, TypeOK
<1>3. pc' \in [Threads -> PcValues]
  BY GotoType DEF Push, TypeOK, PcValues
<1> QED
  BY <1>2, <1>3 DEF Push, TypeOK, BoxTypeOK

\* The high-water mark stays a natural.
LEMMA HighWaterType ==
  ASSUME BoxTypeOK, NEW n \in Nat
  PROVE  [stats EXCEPT !.high_water = HighWater(n)] \in Stats
BY DEF BoxTypeOK, Stats, HighWater

\* Bumping a counter keeps the statistics well typed.
LEMMA CountType ==
  ASSUME BoxTypeOK, NEW c \in {"dropped", "blocked", "loop_full"}, Count(c)
  PROVE  stats' \in Stats
BY SMTT(30) DEF BoxTypeOK, Stats, Count

\* Entering Sink::send keeps the threads well typed.
LEMMA StartSendType ==
  ASSUME TypeOK, NEW t \in Threads, NEW from \in 0..lastOrigin, NEW where \in PcValues,
         StartSend(t, from, where)
  PROVE  /\ pc' \in [Threads -> PcValues] /\ sending' \in [Threads -> Entries]
         /\ sends' \in [Threads -> Nat]
<1>1. sends[t] + 1 \in Nat /\ sends[t] + 1 <= MaxSends[t] /\ from \in 0..MaxOrigins
  <2>1. sends[t] \in Nat /\ MaxSends[t] \in Nat /\ sends[t] < MaxSends[t]
    BY MailboxAssumption, ZenonT(30) DEF TypeOK, ThreadTypeOK, StartSend
  <2>2. from \in 0..MaxOrigins
    BY MailboxAssumption DEF TypeOK, BoxTypeOK
  <2> QED
    BY <2>1, <2>2
<1>2. [from |-> from, by |-> t, n |-> sends[t] + 1] \in Entries
  BY <1>1, EntryType
<1>3. pc' \in [Threads -> PcValues]
  BY GotoType DEF TypeOK, StartSend
<1>4. sending' \in [Threads -> Entries]
  BY <1>2 DEF TypeOK, ThreadTypeOK, StartSend
<1>5. sends' \in [Threads -> Nat]
  BY <1>1 DEF TypeOK, ThreadTypeOK, StartSend
<1> QED
  BY <1>3, <1>4, <1>5

\* A thread in post_from, in its wait, in wake_() or on the way out.
LEMMA SenderTypeOK ==
  ASSUME TypeOK, NEW t \in Threads, SenderStep(t) \/ SpuriousWakeup(t)
  PROVE  TypeOK'
<1> USE DEF PcValues
<1>a. live_count \in Nat /\ q \in Seq(Entries) /\ head \in 0..Len(q)
  BY DEF TypeOK, BoxTypeOK, live_count
<1>1. CASE PostRefused(t) \/ SpuriousWakeup(t) \/ WaitAgain(t) \/ WaitRefused(t)
  <2>1. pc' \in [Threads -> PcValues]
    BY <1>1, GotoType
       DEF TypeOK, PostRefused, SpuriousWakeup, WaitAgain, WaitRefused
  <2> QED
    BY <1>1, <2>1, ZenonT(30) DEF TypeOK, BoxTypeOK, ThreadTypeOK, LoopTypeOK, PostRefused,
       SpuriousWakeup,
       WaitAgain, WaitRefused, Unlocked, boxVars, reactorVars, loopVars, historyVars
<1>2. CASE PostPush(t) \/ WaitPush(t)
  <2>1. Push(t, q, head) /\ Unlocked
        /\ stats' = [stats EXCEPT !.high_water = HighWater(live_count + 1)]
    BY <1>2 DEF PostPush, WaitPush
  <2>a. live_count + 1 \in Nat
    BY <1>a
  <2>2. stats' \in Stats
    BY <2>1, <2>a, HighWaterType, ZenonT(30) DEF TypeOK
  <2> QED
    BY <2>1, <2>2, <1>a, PushType DEF TypeOK, BoxTypeOK, ThreadTypeOK, LoopTypeOK, Unlocked,
       reactorVars, loopVars
<1>3. CASE PostDropNewest(t) \/ PostLoopFull(t) \/ PostBlock(t)
  <2>1. pc' \in [Threads -> PcValues]
    BY <1>3, GotoType DEF TypeOK, PostDropNewest, PostLoopFull, PostBlock
  <2>2. stats' \in Stats
    BY <1>3, CountType DEF TypeOK, PostDropNewest, PostLoopFull, PostBlock
  <2> QED
    BY <1>3, <2>1, <2>2, ZenonT(30) DEF TypeOK, BoxTypeOK, ThreadTypeOK, LoopTypeOK,
       PostDropNewest,
       PostLoopFull, PostBlock, Unlocked, reactorVars, loopVars, historyVars
<1>4. CASE PostDropOldest(t)
  <2>1. PICK buf \in Seq(Entries), evicted \in Nat :
          evicted \in 0..Len(buf) /\ Push(t, buf, evicted)
    <3>1. full /\ Capacity # 0 /\ head + 1 <= Len(q) /\ head \in Nat
      BY <1>4, <1>a, MailboxAssumption DEF PostDropOldest, full, live_count
    <3>2. SubSeq(q, head + 2, Len(q)) \in Seq(Entries)
      BY <1>a, <3>1
    <3>3. 0 \in 0..Len(SubSeq(q, head + 2, Len(q))) /\ head + 1 \in 0..Len(q)
      BY <1>a, <3>1, <3>2
    <3>4. CASE head + 1 >= Capacity
      BY <1>4, <3>2, <3>3, <3>4, ZenonT(30) DEF PostDropOldest
    <3>5. CASE ~(head + 1 >= Capacity)
      <4>1. Push(t, q, head + 1)
        BY <1>4, <3>5 DEF PostDropOldest
      <4> QED
        BY <4>1, <1>a, <3>3
    <3> QED
      BY <3>4, <3>5
  <2>2. stats' \in Stats
    <3>1. stats \in Stats /\ stats.dropped + 1 \in Nat /\ HighWater(live_count) \in Nat
      BY <1>a DEF TypeOK, BoxTypeOK, Stats, HighWater
    <3>2. [stats EXCEPT !.dropped = stats.dropped + 1, !.high_water = HighWater(live_count)]
          \in Stats
      BY <3>1, ZenonT(30) DEF Stats
    <3> QED
      BY <1>4, <3>2 DEF PostDropOldest
  <2>3. /\ BoxTypeOK' /\ pc' \in [Threads -> PcValues]
        /\ accepted' \in Seq(Entries) /\ delivered' \in Seq(Entries)
    BY <2>1, <2>2, PushType, ZenonT(30) DEF TypeOK, BoxTypeOK
  <2> QED
    BY <1>4, <2>3 DEF PostDropOldest, TypeOK, ThreadTypeOK, LoopTypeOK, Unlocked,
       reactorVars, loopVars
<1>5. CASE WakeIfOpen(t) \/ Uncount(t)
  <2>1. pc' \in [Threads -> PcValues]
    BY <1>5, GotoType DEF TypeOK, WakeIfOpen, Uncount
  <2>2. waking' \in Int
    BY <1>5 DEF TypeOK, BoxTypeOK, WakeIfOpen, Uncount
  <2> QED
    BY <1>5, <2>1, <2>2, ZenonT(30) DEF TypeOK, BoxTypeOK, ThreadTypeOK, LoopTypeOK,
       WakeIfOpen, Uncount,
       Unlocked, reactorVars, loopVars, historyVars
<1>6. CASE CallWake(t) \/ Release(t)
  <2>1. pc' \in [Threads -> PcValues]
    BY <1>6, GotoType DEF TypeOK, CallWake, Release
  <2> QED
    BY <1>6, <2>1, ZenonT(30) DEF TypeOK, BoxTypeOK, ThreadTypeOK, LoopTypeOK, CallWake,
       Release,
       boxVars, reactorVars, loopVars, historyVars
<1> QED
  BY <1>1, <1>2, <1>3, <1>4, <1>5, <1>6 DEF SenderStep

\* A send begins, or the loop joins a helper.
LEMMA StartTypeOK ==
  ASSUME TypeOK, NEW from \in 0..MaxOrigins,
         \/ \E t \in Senders : SendWake(t) \/ Send(t, from)
         \/ LoopSend(from)
         \/ \E h \in Helpers : JoinHelper(h, from)
  PROVE  TypeOK'
<1> USE DEF PcValues
<1>0. 0 \in 0..lastOrigin
  BY DEF TypeOK, BoxTypeOK
<1>1. ASSUME NEW t \in Senders, SendWake(t) PROVE TypeOK'
  <2>1. t \in Threads /\ StartSend(t, 0, "wake_if_open")
    BY <1>1 DEF SendWake, Threads
  <2> QED
    BY <1>0, <1>1, <2>1, StartSendType DEF SendWake, TypeOK, BoxTypeOK, ThreadTypeOK,
       LoopTypeOK, boxVars, reactorVars, loopVars, historyVars
<1>2. ASSUME NEW t \in Senders, Send(t, from) PROVE TypeOK'
  <2>1. t \in Threads /\ from \in 0..lastOrigin /\ StartSend(t, from, "post")
    BY <1>2 DEF Send, Threads
  <2>2. userLock' \in Senders \cup {NoThread}
    BY <1>2 DEF Send, TypeOK, ThreadTypeOK
  <2> QED
    BY <1>2, <2>1, <2>2, StartSendType DEF Send, TypeOK, BoxTypeOK, ThreadTypeOK,
       LoopTypeOK, boxVars, reactorVars, loopVars, historyVars
<1>3. CASE LoopSend(from)
  <2>1. Loop \in Threads /\ from \in 0..lastOrigin /\ StartSend(Loop, from, "post")
    BY <1>3 DEF LoopSend, Threads
  <2> QED
    BY <1>3, <2>1, StartSendType DEF LoopSend, TypeOK, BoxTypeOK, ThreadTypeOK,
       LoopTypeOK, boxVars, reactorVars, loopVars, historyVars
<1>4. ASSUME NEW h \in Helpers, JoinHelper(h, from) PROVE TypeOK'
  <2>1. h \in Threads /\ from \in 0..lastOrigin /\ StartSend(h, from, "post")
    BY <1>4 DEF JoinHelper, Threads
  <2> QED
    BY <1>4, <2>1, StartSendType DEF JoinHelper, TypeOK, BoxTypeOK, ThreadTypeOK,
       LoopTypeOK, boxVars, reactorVars, historyVars
<1> QED
  BY <1>1, <1>2, <1>3, <1>4

\* The loop's own steps.
LEMMA LoopTypeStep ==
  ASSUME TypeOK,
         \/ LoopStep \/ OpenOrigin \/ CloseBox \/ WaitOther \/ Terminated
         \/ \E id \in OriginIds : Retire(id)
  PROVE  TypeOK'
<1> USE DEF LoopGoto, LpcValues
<1>1. CASE WaitWoken \/ WaitOther \/ RunHooks \/ CheckHint \/ EndTurn \/ CloseSpin
          \/ DropReactor
  BY <1>1, ZenonT(30) DEF WaitWoken, WaitOther, RunHooks, CheckHint, EndTurn, CloseSpin,
     DropReactor,
     TypeOK, BoxTypeOK, ThreadTypeOK, LoopTypeOK,
     boxVars, reactorVars, threadVars, historyVars
<1>2. CASE Notify \/ CloseNotify
  <2>1. pc' \in [Threads -> PcValues]
    BY <1>2, NotifyRoomType DEF Notify, CloseNotify, TypeOK, ThreadTypeOK
  <2> QED
    BY <1>2, <2>1, ZenonT(30) DEF Notify, CloseNotify, TypeOK, BoxTypeOK, ThreadTypeOK,
       LoopTypeOK,
       boxVars, reactorVars, historyVars
<1>4. CASE DrainTagged
  <2>1. stats' \in Stats
    <3>1. stats \in Stats /\ stats.retired + live_count - Len(Kept) \in Nat
      BY KeptType, SMTT(30) DEF TypeOK, BoxTypeOK, Stats
    <3> QED
      BY <1>4, <3>1 DEF DrainTagged, Stats
  <2>2. q' \in Seq(Entries) /\ head' \in 0..Len(q')
    BY <1>4 DEF DrainTagged
  <2>3. delivered' \in Seq(Entries)
    BY <1>4, KeptType DEF DrainTagged, TypeOK, BoxTypeOK
  <2> QED
    BY <1>4, <2>1, <2>2, <2>3, ZenonT(30) DEF DrainTagged, TypeOK, BoxTypeOK, ThreadTypeOK,
       LoopTypeOK,
       reactorVars, threadVars
<1>5. CASE OpenOrigin
  <2>1. lastOrigin' \in 0..MaxOrigins /\ live' \subseteq 1..lastOrigin'
    BY <1>5, MailboxAssumption DEF OpenOrigin, TypeOK, BoxTypeOK
  <2> QED
    BY <1>5, <2>1 DEF OpenOrigin, TypeOK, BoxTypeOK, ThreadTypeOK, LoopTypeOK,
       reactorVars, threadVars, historyVars
<1>6. ASSUME NEW id \in OriginIds, Retire(id) PROVE TypeOK'
  BY <1>6 DEF Retire, TypeOK, BoxTypeOK, ThreadTypeOK, LoopTypeOK,
     reactorVars, threadVars, historyVars
<1>7. CASE CloseBox
  <2>1. q' \in Seq(Entries) /\ head' \in 0..Len(q') /\ live' \subseteq 1..lastOrigin'
    BY <1>7 DEF CloseBox
  <2> QED
    BY <1>7, <2>1, ZenonT(30) DEF CloseBox, TypeOK, BoxTypeOK, ThreadTypeOK, LoopTypeOK,
       reactorVars, threadVars, historyVars
<1>8. CASE DropBox \/ JoinReturns
  BY <1>8, ZenonT(30) DEF DropBox, JoinReturns, Threads, TypeOK, BoxTypeOK, ThreadTypeOK,
     LoopTypeOK,
     boxVars, reactorVars, threadVars, historyVars
<1>9. CASE Terminated
  BY <1>9 DEF Terminated, vars, TypeOK, BoxTypeOK, ThreadTypeOK, LoopTypeOK,
     boxVars, reactorVars, threadVars, loopVars, historyVars
<1> QED
  BY <1>1, <1>2, <1>4, <1>5, <1>6, <1>7, <1>8, <1>9, SMTT(30) DEF LoopStep

\* Every field keeps the type its declaration gives it (mailbox.hpp:324-338),
\* for every set of threads, capacity and policy.
THEOREM TypeCorrect == Spec => []TypeOK
<1>1. TypeOK /\ [Next]_vars => TypeOK'
  <2> SUFFICES ASSUME TypeOK, [Next]_vars PROVE TypeOK'
    OBVIOUS
  <2>1. CASE UNCHANGED vars
    BY <2>1 DEF vars, TypeOK, BoxTypeOK, ThreadTypeOK, LoopTypeOK,
       boxVars, reactorVars, threadVars, loopVars, historyVars
  <2>2. CASE Next
    <3>1. 0 \in 0..MaxOrigins
      BY MailboxAssumption
    <3> QED
      BY <2>2, <3>1, SenderTypeOK, StartTypeOK, LoopTypeStep DEF Next
  <2> QED
    BY <2>1, <2>2
<1> QED
  BY <1>1, InitTypeOK, PTL DEF Spec
-----------------------------------------------------------------------------
(* No wake is lost *)

\* The hint is never false while something is queued, and once the loop has
\* passed its drain a queued message has its wake written or about to be.
HintHolds == live_count > 0 => nonempty

WakeOwed ==
  HasWake /\ live_count > 0 /\ lpc \in {"wait", "fold", "notify"}
    => wakePending \/ \E t \in Threads : pc[t] = "wake"

WakeInv == TypeOK /\ HintHolds /\ WakeOwed

\* A push sets the hint, and the push that finds the queue empty owes a wake.
LEMMA PushWakes ==
  ASSUME WakeInv, NEW t \in Threads, NEW buf \in Seq(Entries), NEW evicted \in Nat,
         evicted <= Len(buf), Len(buf) - evicted <= live_count,
         Push(t, buf, evicted), pc[t] # "wake",
         UNCHANGED <<wakePending, lpc>>
  PROVE  HintHolds' /\ WakeOwed'
<1>1. HintHolds'
  BY DEF Push, HintHolds
<1>2. CASE Len(buf) = evicted /\ HasWake
  <2>1. pc'[t] = "wake"
    BY <1>2 DEF Push, Goto, WakeInv, TypeOK, ThreadTypeOK
  <2> QED
    BY <1>1, <2>1 DEF WakeOwed
<1>3. CASE ~(Len(buf) = evicted /\ HasWake)
  <2>1. HasWake => live_count > 0
    BY <1>3 DEF live_count, WakeInv, TypeOK, BoxTypeOK
  <2>2. \A u \in Threads : pc[u] = "wake" => pc'[u] = "wake"
    BY <1>3 DEF Push, Goto, WakeInv, TypeOK, ThreadTypeOK
  <2>3. HasWake /\ lpc \in {"wait", "fold", "notify"}
        => wakePending \/ \E u \in Threads : pc[u] = "wake"
    BY <2>1 DEF WakeOwed, WakeInv
  <2> QED
    BY <1>1, <2>2, <2>3, Zenon DEF WakeOwed
<1> QED
  BY <1>1, <1>2, <1>3

\* A step of a sender keeps the wake invariant.
LEMMA SenderWakeInv ==
  ASSUME WakeInv, NEW t \in Threads, SenderStep(t) \/ SpuriousWakeup(t)
  PROVE  HintHolds' /\ WakeOwed'
<1>a. /\ q \in Seq(Entries) /\ head \in 0..Len(q) /\ live_count \in Nat
      /\ pc \in [Threads -> PcValues]
  BY DEF WakeInv, TypeOK, BoxTypeOK, ThreadTypeOK, live_count
<1>1. CASE \/ PostRefused(t) \/ SpuriousWakeup(t) \/ WaitAgain(t) \/ WaitRefused(t)
           \/ PostDropNewest(t) \/ PostLoopFull(t) \/ PostBlock(t)
           \/ WakeIfOpen(t) \/ Uncount(t) \/ Release(t)
  <2>1. UNCHANGED <<q, head, nonempty, wakePending, lpc>>
    BY <1>1, ZenonT(30) DEF PostRefused, SpuriousWakeup, WaitAgain, WaitRefused,
       PostDropNewest,
       PostLoopFull, PostBlock, WakeIfOpen, Uncount, Release, Unlocked,
       boxVars, reactorVars, loopVars
  <2>2. pc[t] # "wake" /\ \E where \in PcValues : Goto(t, where)
    BY <1>1, ZenonT(30) DEF PostRefused, SpuriousWakeup, WaitAgain, WaitRefused,
       PostDropNewest,
       PostLoopFull, PostBlock, WakeIfOpen, Uncount, Release, PcValues
  <2>3. \A u \in Threads : pc[u] = "wake" => pc'[u] = "wake"
    BY <1>a, <2>2 DEF Goto
  <2> QED
    BY <2>1, <2>3, ZenonT(30) DEF WakeInv, HintHolds, WakeOwed, live_count
<1>2. CASE PostPush(t) \/ WaitPush(t)
  <2>1. Push(t, q, head) /\ pc[t] # "wake" /\ UNCHANGED <<wakePending, lpc>>
    BY <1>2 DEF PostPush, WaitPush, Unlocked, reactorVars, loopVars
  <2>2. head \in Nat /\ head <= Len(q) /\ Len(q) - head <= live_count
    BY <1>a DEF live_count
  <2> QED
    BY <1>a, <2>1, <2>2, PushWakes
<1>3. CASE PostDropOldest(t)
  <2>1. pc[t] # "wake" /\ UNCHANGED <<wakePending, lpc>>
    BY <1>3 DEF PostDropOldest, Unlocked, reactorVars, loopVars
  <2>2. head + 1 <= Len(q)
    BY <1>3, <1>a, MailboxAssumption DEF PostDropOldest, full, live_count
  <2>3. CASE head + 1 >= Capacity
    <3> DEFINE rest == SubSeq(q, head + 2, Len(q))
    <3>1. rest \in Seq(Entries) /\ Len(rest) = Len(q) - head - 1
      BY <1>a, <2>2
    <3>2. Push(t, rest, 0)
      BY <1>3, <2>3 DEF PostDropOldest
    <3>3. Len(rest) - 0 <= live_count /\ 0 <= Len(rest) /\ 0 \in Nat
      BY <1>a, <2>2, <3>1 DEF live_count
    <3> HIDE DEF rest
    <3> QED
      BY <2>1, <3>1, <3>2, <3>3, PushWakes
  <2>4. CASE ~(head + 1 >= Capacity)
    <3>1. Push(t, q, head + 1)
      BY <1>3, <2>4 DEF PostDropOldest
    <3>2. head + 1 \in Nat /\ Len(q) - (head + 1) <= live_count
      BY <1>a DEF live_count
    <3> QED
      BY <1>a, <2>1, <2>2, <3>1, <3>2, PushWakes
  <2> QED
    BY <2>3, <2>4
<1>4. CASE CallWake(t)
  BY <1>4 DEF CallWake, WakeInv, HintHolds, WakeOwed, live_count, boxVars
<1> QED
  BY <1>1, <1>2, <1>3, <1>4 DEF SenderStep

\* Entering a send, or joining a helper, keeps the wake invariant.
LEMMA StartWakeInv ==
  ASSUME WakeInv, NEW from \in 0..MaxOrigins,
         \/ \E t \in Senders : SendWake(t) \/ Send(t, from)
         \/ LoopSend(from)
         \/ \E h \in Helpers : JoinHelper(h, from)
  PROVE  HintHolds' /\ WakeOwed'
<1>1. UNCHANGED <<q, head, nonempty, wakePending, lpc>>
  BY DEF SendWake, Send, LoopSend, JoinHelper, boxVars, reactorVars, loopVars
<1>2. PICK t \in Threads, where \in PcValues : pc[t] = "idle" /\ Goto(t, where)
  BY DEF SendWake, Send, LoopSend, JoinHelper, StartSend, Threads, PcValues
<1>3. \A u \in Threads : pc[u] = "wake" => pc'[u] = "wake"
  BY <1>2 DEF Goto, WakeInv, TypeOK, ThreadTypeOK
<1> QED
  BY <1>1, <1>3, Zenon DEF WakeInv, HintHolds, WakeOwed, live_count

\* The loop goes past its drain only by emptying the queue, or by reading the
\* hint as false, which it is only when nothing is queued.
LEMMA LoopWakeInv ==
  ASSUME WakeInv,
         \/ LoopStep \/ OpenOrigin \/ CloseBox \/ WaitOther \/ Terminated
         \/ \E id \in OriginIds : Retire(id)
  PROVE  HintHolds' /\ WakeOwed'
<1> USE DEF LoopGoto
<1>1. CASE WaitWoken \/ WaitOther \/ RunHooks \/ CloseSpin \/ DropBox \/ DropReactor
  BY <1>1, ZenonT(30) DEF WaitWoken, WaitOther, RunHooks, CloseSpin, DropBox, DropReactor,
     WakeInv, HintHolds, WakeOwed, live_count, boxVars
<1>2. CASE CheckHint
  <2>1. UNCHANGED <<q, head, nonempty, wakePending, pc>>
    BY <1>2 DEF CheckHint, boxVars, reactorVars, threadVars
  <2>2. lpc' \in {"wait", "fold", "notify"} => ~nonempty
    BY <1>2 DEF CheckHint
  <2> QED
    BY <2>1, <2>2, Zenon DEF WakeInv, HintHolds, WakeOwed, live_count
<1>3. CASE EndTurn \/ OpenOrigin \/ JoinReturns \/ \E id \in OriginIds : Retire(id)
  <2>1. UNCHANGED <<q, head, nonempty, wakePending, pc>>
    BY <1>3 DEF EndTurn, OpenOrigin, JoinReturns, Retire, boxVars, reactorVars, threadVars
  <2>2. lpc' \in {"wait", "fold", "notify"} => lpc \in {"wait", "fold", "notify"}
    BY <1>3 DEF EndTurn, OpenOrigin, JoinReturns, Retire
  <2> QED
    BY <2>1, <2>2, Zenon DEF WakeInv, HintHolds, WakeOwed, live_count
<1>4. CASE Notify \/ CloseNotify
  <2>1. UNCHANGED <<q, head, nonempty, wakePending>>
    BY <1>4 DEF Notify, CloseNotify, boxVars, reactorVars
  <2>2. lpc' \in {"wait", "fold", "notify"} => lpc \in {"wait", "fold", "notify"}
    BY <1>4 DEF Notify, CloseNotify
  <2>3. \A u \in Threads : pc[u] = "wake" => pc'[u] = "wake"
    BY <1>4 DEF Notify, CloseNotify, NotifyRoom
  <2> QED
    BY <2>1, <2>2, <2>3, Zenon DEF WakeInv, HintHolds, WakeOwed, live_count
<1>5. CASE DrainTagged \/ CloseBox
  <2>1. live_count' = 0
    BY <1>5 DEF DrainTagged, CloseBox, live_count
  <2> QED
    BY <2>1 DEF HintHolds, WakeOwed
<1>6. CASE Terminated
  BY <1>6 DEF Terminated, vars, boxVars, reactorVars, threadVars, loopVars,
     WakeInv, HintHolds, WakeOwed, live_count
<1> QED
  BY <1>1, <1>2, <1>3, <1>4, <1>5, <1>6, SMTT(30) DEF LoopStep

\* No wake is lost (mailbox.hpp:6-10), whatever the threads, the capacity and
\* the policy: a loop asleep with a message queued has its wake on the way.
THEOREM NoWakeLost == Spec => []NoLostWake
<1>1. Init => WakeInv
  <2>1. Init => live_count = 0
    BY DEF Init, live_count
  <2> QED
    BY <2>1, InitTypeOK DEF WakeInv, HintHolds, WakeOwed
<1>2. WakeInv /\ TypeOK' /\ [Next]_vars => WakeInv'
  <2> SUFFICES ASSUME WakeInv, TypeOK', [Next]_vars PROVE HintHolds' /\ WakeOwed'
    BY DEF WakeInv
  <2>1. CASE UNCHANGED vars
    BY <2>1 DEF vars, boxVars, reactorVars, threadVars, loopVars,
       WakeInv, HintHolds, WakeOwed, live_count
  <2>2. CASE Next
    <3>1. 0 \in 0..MaxOrigins
      BY MailboxAssumption
    <3> QED
      BY <2>2, <3>1, SenderWakeInv, StartWakeInv, LoopWakeInv DEF Next
  <2> QED
    BY <2>1, <2>2
<1>3. WakeInv => NoLostWake
  BY DEF WakeInv, WakeOwed, NoLostWake
<1> QED
  BY <1>1, <1>2, <1>3, TypeCorrect, PTL DEF Spec
-----------------------------------------------------------------------------
(* No wake reaches a reactor that is gone *)

\* waking_ counts exactly the threads between their increment and their
\* decrement.  Past the spin of close() there is none, and no thread can
\* become one, since closed_ turns every later post and wake away.
Wakers == {t \in Threads : pc[t] \in {"wake", "uncount"}}

ClosedTail == {"closing", "spin", "closed", "dropped", "gone"}

CloseInv ==
  /\ TypeOK
  /\ waking = Cardinality(Wakers)
  /\ lpc \in ClosedTail => closed
  /\ lpc \in {"closed", "dropped", "gone"} => Wakers = {}
  /\ lpc # "gone" => reactorUp

\* A thread joins the wakers only while the mailbox is open.
LEMMA WakerJoins ==
  ASSUME CloseInv, NEW t \in Threads, pc[t] \notin {"wake", "uncount"}, ~closed,
         Goto(t, "wake"), waking' = waking + 1, UNCHANGED <<closed, lpc, reactorUp>>,
         TypeOK'
  PROVE  CloseInv'
<1>1. Wakers' = Wakers \cup {t} /\ t \notin Wakers
  BY DEF Wakers, Goto, CloseInv, TypeOK, ThreadTypeOK
<1>2. IsFiniteSet(Wakers)
  BY FS_Subset, MailboxAssumption DEF Wakers
<1>3. Cardinality(Wakers') = Cardinality(Wakers) + 1
  BY <1>1, <1>2, FS_AddElement
<1>4. lpc' \notin ClosedTail
  BY DEF CloseInv
<1> QED
  BY <1>3, <1>4 DEF CloseInv, ClosedTail

\* The wakers do not change when no thread passes through "wake".
LEMMA WakersSame ==
  ASSUME CloseInv, NEW t \in Threads, NEW where \in PcValues, Goto(t, where),
         pc[t] \in {"wake", "uncount"} <=> where \in {"wake", "uncount"},
         UNCHANGED <<waking, closed, lpc, reactorUp>>, TypeOK'
  PROVE  CloseInv'
<1>1. Wakers' = Wakers
  BY DEF Wakers, Goto, CloseInv, TypeOK, ThreadTypeOK
<1> QED
  BY <1>1 DEF CloseInv

\* A push counts the thread it sends to wake_() in waking_.
LEMMA PushCloseInv ==
  ASSUME CloseInv, NEW t \in Threads, NEW buf, NEW evicted, Push(t, buf, evicted),
         pc[t] \in {"post", "notified"}, ~closed, UNCHANGED <<lpc, reactorUp>>, TypeOK'
  PROVE  CloseInv'
<1>1. CASE Len(buf) = evicted /\ HasWake
  BY <1>1, WakerJoins DEF Push
<1>2. CASE ~(Len(buf) = evicted /\ HasWake)
  <2>1. Goto(t, "release") /\ UNCHANGED <<waking, closed>> /\ "release" \in PcValues
    BY <1>2 DEF Push, PcValues
  <2> QED
    BY <2>1, WakersSame
<1> QED
  BY <1>1, <1>2

\* A step of a sender keeps the close invariant.
LEMMA SenderCloseInv ==
  ASSUME CloseInv, NEW t \in Threads, SenderStep(t) \/ SpuriousWakeup(t), TypeOK'
  PROVE  CloseInv'
<1>1. CASE \/ PostRefused(t) \/ SpuriousWakeup(t) \/ WaitAgain(t) \/ WaitRefused(t)
           \/ PostDropNewest(t) \/ PostLoopFull(t) \/ PostBlock(t)
           \/ CallWake(t) \/ Release(t)
  <2>1. UNCHANGED <<waking, closed, lpc, reactorUp>>
    BY <1>1, ZenonT(60) DEF PostRefused, SpuriousWakeup, WaitAgain, WaitRefused,
       PostDropNewest,
       PostLoopFull, PostBlock, CallWake, Release, Unlocked, boxVars, reactorVars, loopVars
  <2>2. \E where \in PcValues :
          Goto(t, where) /\ (pc[t] \in {"wake", "uncount"} <=> where \in {"wake", "uncount"})
    BY <1>1, ZenonT(30) DEF PostRefused, SpuriousWakeup, WaitAgain, WaitRefused,
       PostDropNewest,
       PostLoopFull, PostBlock, CallWake, Release, PcValues
  <2> QED
    BY <2>1, <2>2, WakersSame, SMTT(30)
<1>2. CASE PostPush(t) \/ WaitPush(t)
  <2>1. /\ Push(t, q, head) /\ pc[t] \in {"post", "notified"} /\ ~closed
        /\ UNCHANGED <<lpc, reactorUp>>
    BY <1>2 DEF PostPush, WaitPush, Refused, Unlocked, reactorVars, loopVars
  <2> QED
    BY <2>1, PushCloseInv
<1>3. CASE PostDropOldest(t)
  <2>1. /\ pc[t] \in {"post", "notified"} /\ ~closed /\ UNCHANGED <<lpc, reactorUp>>
        /\ Push(t, SubSeq(q, head + 2, Len(q)), 0) \/ Push(t, q, head + 1)
    BY <1>3 DEF PostDropOldest, Refused, Unlocked, reactorVars, loopVars
  <2> QED
    BY <2>1, PushCloseInv
<1>4. CASE WakeIfOpen(t)
  <2>1. pc[t] = "wake_if_open" /\ UNCHANGED <<closed, lpc, reactorUp>>
    BY <1>4 DEF WakeIfOpen, Unlocked, reactorVars, loopVars
  <2>2. CASE closed \/ ~HasWake
    <3>1. Goto(t, "release") /\ UNCHANGED waking /\ "release" \in PcValues
      BY <1>4, <2>2 DEF WakeIfOpen, PcValues
    <3> QED
      BY <2>1, <3>1, WakersSame
  <2>3. CASE ~(closed \/ ~HasWake)
    BY <1>4, <2>1, <2>3, WakerJoins DEF WakeIfOpen
  <2> QED
    BY <2>2, <2>3
<1>5. CASE Uncount(t)
  <2>1. Wakers' = Wakers \ {t} /\ t \in Wakers
    BY <1>5 DEF Uncount, Wakers, Goto, CloseInv, TypeOK, ThreadTypeOK
  <2>2. IsFiniteSet(Wakers)
    BY FS_Subset, MailboxAssumption DEF Wakers
  <2>3. Cardinality(Wakers') = Cardinality(Wakers) - 1
    BY <2>1, <2>2, FS_RemoveElement
  <2>4. waking' = waking - 1 /\ UNCHANGED <<closed, lpc, reactorUp>>
    BY <1>5 DEF Uncount, Unlocked, reactorVars, loopVars
  <2> QED
    BY <2>1, <2>3, <2>4, SMTT(30) DEF CloseInv
<1> QED
  BY <1>1, <1>2, <1>3, <1>4, <1>5 DEF SenderStep

\* Entering a send keeps the close invariant.
LEMMA StartCloseInv ==
  ASSUME CloseInv, NEW from \in 0..MaxOrigins, TypeOK',
         \/ \E t \in Senders : SendWake(t) \/ Send(t, from)
         \/ LoopSend(from)
         \/ \E h \in Helpers : JoinHelper(h, from)
  PROVE  CloseInv'
<1>1. UNCHANGED <<waking, closed, lpc, reactorUp>>
  BY ZenonT(60) DEF SendWake, Send, LoopSend, JoinHelper, boxVars, reactorVars, loopVars
<1>2. PICK t \in Threads, where \in {"post", "wake_if_open"} :
        pc[t] = "idle" /\ Goto(t, where)
  BY DEF SendWake, Send, LoopSend, JoinHelper, StartSend, Threads
<1> QED
  BY <1>1, <1>2, WakersSame DEF PcValues

\* A step of the loop keeps the close invariant.
LEMMA LoopCloseInv ==
  ASSUME CloseInv, TypeOK',
         \/ LoopStep \/ OpenOrigin \/ CloseBox \/ WaitOther \/ Terminated
         \/ \E id \in OriginIds : Retire(id)
  PROVE  CloseInv'
<1> USE DEF LoopGoto, ClosedTail
<1>1. CASE CloseSpin
  <2>1. IsFiniteSet(Wakers)
    BY FS_Subset, MailboxAssumption DEF Wakers
  <2>2. Wakers = {}
    BY <1>1, <2>1, FS_EmptySet, ZenonT(30) DEF CloseSpin, CloseInv
  <2> QED
    BY <1>1, <2>2 DEF CloseSpin, CloseInv, Wakers, boxVars, reactorVars, threadVars
<1>2. CASE Notify \/ CloseNotify
  <2>1. Wakers' = Wakers
    BY <1>2 DEF Notify, CloseNotify, NotifyRoom, Wakers, CloseInv, TypeOK, ThreadTypeOK
  <2> QED
    BY <1>2, <2>1 DEF Notify, CloseNotify, CloseInv, boxVars, reactorVars
<1>3. CASE CloseBox \/ DropBox \/ DropReactor \/ Terminated
  <2>1. Wakers' = Wakers /\ waking' = waking
    BY <1>3 DEF CloseBox, DropBox, DropReactor, Terminated, Wakers, vars, boxVars,
       threadVars
  <2> QED
    BY <1>3, <2>1 DEF CloseBox, DropBox, DropReactor, Terminated, CloseInv, vars, boxVars,
       reactorVars, loopVars
<1>4. CASE \/ WaitWoken \/ WaitOther \/ RunHooks \/ CheckHint \/ DrainTagged
           \/ EndTurn \/ OpenOrigin \/ JoinReturns \/ \E id \in OriginIds : Retire(id)
  <2>1. UNCHANGED <<waking, closed, reactorUp, pc>>
    BY <1>4 DEF WaitWoken, WaitOther, RunHooks, CheckHint, DrainTagged,
       EndTurn, OpenOrigin, JoinReturns, Retire, boxVars, reactorVars, threadVars
  <2>2. lpc' = lpc \/ lpc' \notin ClosedTail
    BY <1>4 DEF WaitWoken, WaitOther, RunHooks, CheckHint, DrainTagged,
       EndTurn, OpenOrigin, JoinReturns, Retire
  <2>3. lpc' # "gone" => lpc # "gone"
    BY <1>4, SMTT(30) DEF WaitWoken, WaitOther, RunHooks, CheckHint, DrainTagged,
       EndTurn, OpenOrigin, JoinReturns, Retire
  <2> QED
    BY <2>1, <2>2, <2>3, SMTT(30) DEF CloseInv, Wakers
<1> QED
  BY <1>1, <1>2, <1>3, <1>4 DEF LoopStep

\* No wake reaches a reactor that is gone (mailbox.hpp:109-112), although it
\* is written outside the lock: close() waits waking_ out, for any number of
\* threads.
THEOREM WakeAlwaysLands == Spec => []WakeReachesReactor
<1>1. Init => CloseInv
  <2> SUFFICES ASSUME Init PROVE CloseInv
    OBVIOUS
  <2>1. Wakers = {}
    BY DEF Init, Wakers
  <2>2. waking = Cardinality(Wakers)
    BY <2>1, FS_EmptySet DEF Init
  <2> QED
    <3>1. lpc \notin ClosedTail \cup {"closed", "dropped", "gone"} /\ reactorUp
      BY Zenon DEF Init, ClosedTail
    <3> QED
      BY <2>2, <3>1, InitTypeOK, Zenon DEF CloseInv
<1>2. CloseInv /\ TypeOK' /\ [Next]_vars => CloseInv'
  <2> SUFFICES ASSUME CloseInv, TypeOK', [Next]_vars PROVE CloseInv'
    OBVIOUS
  <2>1. CASE UNCHANGED vars
    BY <2>1 DEF vars, boxVars, reactorVars, threadVars, loopVars, CloseInv, Wakers
  <2>2. CASE Next
    <3>1. 0 \in 0..MaxOrigins
      BY MailboxAssumption
    <3> QED
      BY <2>2, <3>1, SenderCloseInv, StartCloseInv, LoopCloseInv DEF Next
  <2> QED
    BY <2>1, <2>2
<1>3. CloseInv => WakeReachesReactor
  BY DEF CloseInv, Wakers, WakeReachesReactor
<1> QED
  BY <1>1, <1>2, <1>3, TypeCorrect, PTL DEF Spec
-----------------------------------------------------------------------------
(* What a step does to the queue *)

\* A step that leaves the queue, the origins, the counters of messages and the
\* history as they are, and does not reopen the mailbox.
Quiet ==
  /\ UNCHANGED <<q, head, live, lastOrigin, closed, accepted, delivered>>
  /\ stats'.retired = stats.retired /\ Evictions' = Evictions
  /\ lpc \in ClosedTail => lpc' \in ClosedTail

\* The steps of a sender that push nothing are quiet.
LEMMA SenderQuiet ==
  ASSUME TypeOK, NEW t \in Threads,
         \/ PostRefused(t) \/ SpuriousWakeup(t) \/ WaitAgain(t) \/ WaitRefused(t)
         \/ PostDropNewest(t) \/ PostLoopFull(t) \/ PostBlock(t)
         \/ WakeIfOpen(t) \/ CallWake(t) \/ Uncount(t) \/ Release(t)
  PROVE  Quiet
<1>1. UNCHANGED <<q, head, live, lastOrigin, closed, accepted, delivered, lpc>>
  BY ZenonT(60) DEF PostRefused, SpuriousWakeup, WaitAgain, WaitRefused, PostDropNewest,
     PostLoopFull, PostBlock, WakeIfOpen, CallWake, Uncount, Release, Unlocked,
     boxVars, loopVars, historyVars
<1>2. stats'.retired = stats.retired /\ Evictions' = Evictions
  <2>1. CASE PostDropNewest(t) \/ PostLoopFull(t) \/ PostBlock(t)
    <3>1. PICK c \in {"dropped", "blocked", "loop_full"} :
            Count(c) /\ (c = "dropped" => OnFull = "drop_newest")
      BY <2>1 DEF PostDropNewest, PostLoopFull, PostBlock
    <3>2. /\ stats'.retired = stats.retired
          /\ c # "dropped" => stats'.dropped = stats.dropped
      BY <3>1 DEF Count, TypeOK, BoxTypeOK, Stats
    <3> QED
      BY <3>1, <3>2 DEF Evictions
  <2>2. CASE \/ PostRefused(t) \/ SpuriousWakeup(t) \/ WaitAgain(t) \/ WaitRefused(t)
             \/ WakeIfOpen(t) \/ CallWake(t) \/ Uncount(t) \/ Release(t)
    <3>1. UNCHANGED stats
      BY <2>2, ZenonT(60) DEF PostRefused, SpuriousWakeup, WaitAgain, WaitRefused,
         WakeIfOpen, CallWake, Uncount, Release, boxVars
    <3> QED
      BY <3>1, Zenon DEF Evictions
  <2> QED
    BY <2>1, <2>2
<1> QED
  BY <1>1, <1>2, Zenon DEF Quiet

\* So are the steps of the loop that neither drain nor touch an origin.
LEMMA LoopQuiet ==
  ASSUME TypeOK,
         \/ WaitWoken \/ WaitOther \/ RunHooks \/ CheckHint \/ Notify \/ EndTurn
         \/ CloseNotify \/ CloseSpin \/ DropBox \/ DropReactor \/ JoinReturns
         \/ Terminated
  PROVE  Quiet
<1>1. UNCHANGED <<q, head, live, lastOrigin, closed, accepted, delivered, stats>>
  BY ZenonT(60) DEF WaitWoken, WaitOther, RunHooks, CheckHint, Notify, EndTurn, CloseNotify,
     CloseSpin, DropBox, DropReactor, JoinReturns, Terminated, vars, boxVars, historyVars
<1>2. lpc \in ClosedTail => lpc' \in ClosedTail
  <2>1. CASE WaitWoken \/ WaitOther \/ RunHooks \/ CheckHint \/ Notify \/ EndTurn
    <3>1. lpc \in {"wait", "hook", "check", "notify", "fold"}
      BY <2>1, Zenon DEF WaitWoken, WaitOther, RunHooks, CheckHint, Notify, EndTurn, LoopGoto
    <3> QED
      BY <3>1 DEF ClosedTail
  <2>2. CASE CloseNotify \/ CloseSpin \/ DropBox \/ DropReactor
    <3>1. lpc' \in {"spin", "closed", "dropped", "gone"}
      BY <2>2, Zenon DEF CloseNotify, CloseSpin, DropBox, DropReactor, LoopGoto
    <3> QED
      BY <3>1, Zenon DEF ClosedTail
  <2>3. CASE JoinReturns \/ Terminated
    <3>1. lpc' = lpc
      BY <2>3, Zenon DEF JoinReturns, Terminated, vars, loopVars
    <3> QED
      BY <3>1
  <2> QED
    BY <2>1, <2>2, <2>3
<1> QED
  BY <1>1, <1>2, Zenon DEF Quiet, Evictions

\* Every step is quiet or one of the six that work on the queue and the origins.
LEMMA StepKinds ==
  ASSUME TypeOK, [Next]_vars
  PROVE  \/ Quiet
         \/ \E t \in Threads : PostPush(t) \/ WaitPush(t) \/ PostDropOldest(t)
         \/ DrainTagged \/ OpenOrigin \/ CloseBox
         \/ \E id \in OriginIds : Retire(id)
<1>1. CASE UNCHANGED vars
  BY <1>1, Zenon DEF Quiet, Evictions, vars, boxVars, loopVars, historyVars
<1>2. ASSUME NEW t \in Threads, SenderStep(t) \/ SpuriousWakeup(t)
      PROVE  Quiet \/ PostPush(t) \/ WaitPush(t) \/ PostDropOldest(t)
  BY <1>2, SenderQuiet DEF SenderStep
<1>3. ASSUME NEW from \in 0..MaxOrigins,
             \/ \E t \in Senders : SendWake(t) \/ Send(t, from)
             \/ LoopSend(from) \/ \E h \in Helpers : JoinHelper(h, from)
      PROVE  Quiet
  <2>1. UNCHANGED <<q, head, live, lastOrigin, closed, accepted, delivered, stats, lpc>>
    BY <1>3, ZenonT(60) DEF SendWake, Send, LoopSend, JoinHelper, boxVars, loopVars,
       historyVars
  <2> QED
    BY <2>1, Zenon DEF Quiet, Evictions
<1>4. CASE LoopStep \/ OpenOrigin \/ CloseBox \/ WaitOther \/ Terminated
           \/ \E id \in OriginIds : Retire(id)
  BY <1>4, LoopQuiet DEF LoopStep
<1>5. 0 \in 0..MaxOrigins
  BY MailboxAssumption
<1> QED
  BY <1>1, <1>2, <1>3, <1>4, <1>5 DEF Next
-----------------------------------------------------------------------------
(* The buffer is bounded and the counters explain every message *)

\* The live entries fit, and the evicted prefix is shorter than the capacity:
\* with both, the buffer never holds twice the capacity.
Fits == Capacity # 0 => live_count <= Capacity /\ head < Capacity

\* Until close(), every accepted entry is somewhere.
Balanced == ~closed => Len(accepted) = Len(delivered) + live_count + stats.retired + Evictions

\* The mailbox is closed only on the loop's way out.
OpenUntilEnd == closed => lpc \in ClosedTail

AccountInv == TypeOK /\ Fits /\ Balanced /\ OpenUntilEnd

\* The lengths after a push: one entry more behind the evicted prefix.
LEMMA PushLengths ==
  ASSUME TypeOK, NEW t \in Threads,
         NEW buf \in Seq(Entries), NEW evicted \in 0..Len(buf), Push(t, buf, evicted)
  PROVE  /\ live_count' = Len(buf) - evicted + 1
         /\ Len(accepted') = Len(accepted) + 1
         /\ head' = evicted /\ delivered' = delivered /\ closed' = closed
BY DEF Push, live_count, TypeOK

\* A push into a mailbox with room.
LEMMA RoomAccountInv ==
  ASSUME AccountInv, NEW t \in Threads, PostPush(t) \/ WaitPush(t)
  PROVE  Fits' /\ Balanced' /\ OpenUntilEnd'
<1>1. q \in Seq(Entries) /\ head \in 0..Len(q) /\ stats \in Stats /\ Capacity \in Nat
  BY MailboxAssumption DEF AccountInv, TypeOK, BoxTypeOK
<1>2. /\ Push(t, q, head) /\ ~full /\ lpc' = lpc
      /\ stats' = [stats EXCEPT !.high_water = HighWater(live_count + 1)]
  BY DEF PostPush, WaitPush, Unlocked, loopVars
<1>3. /\ live_count' = live_count + 1 /\ Len(accepted') = Len(accepted) + 1
      /\ head' = head /\ delivered' = delivered /\ closed' = closed
  BY <1>1, <1>2, PushLengths DEF AccountInv, live_count
<1>4. stats'.retired = stats.retired /\ stats'.dropped = stats.dropped
  BY <1>1, <1>2 DEF Stats
<1>5. Fits'
  BY <1>1, <1>2, <1>3 DEF AccountInv, Fits, full, live_count
<1>6. Balanced'
  <2>1. Evictions' = Evictions /\ Evictions \in Nat /\ stats.retired \in Nat
    BY <1>1, <1>4 DEF Evictions, Stats
  <2>2. Len(delivered) \in Nat /\ live_count \in Int /\ Len(accepted) \in Nat
    BY <1>1 DEF AccountInv, TypeOK, live_count
  <2> QED
    BY <1>3, <1>4, <2>1, <2>2 DEF AccountInv, Balanced
<1>7. OpenUntilEnd'
  BY <1>2, <1>3 DEF AccountInv, OpenUntilEnd
<1> QED
  BY <1>5, <1>6, <1>7

\* A push that evicts: the queue was exactly full, and stays so.
LEMMA EvictAccountInv ==
  ASSUME AccountInv, NEW t \in Threads, PostDropOldest(t)
  PROVE  Fits' /\ Balanced' /\ OpenUntilEnd'
<1>1. q \in Seq(Entries) /\ head \in 0..Len(q) /\ stats \in Stats /\ Capacity \in Nat
  BY MailboxAssumption DEF AccountInv, TypeOK, BoxTypeOK
<1>2. /\ Capacity # 0 /\ live_count = Capacity /\ head < Capacity /\ lpc' = lpc
      /\ head + 1 <= Len(q) /\ OnFull = "drop_oldest"
  BY <1>1 DEF PostDropOldest, full, AccountInv, Fits, Unlocked, loopVars, live_count
<1>3. /\ live_count' = live_count /\ head' < Capacity
      /\ Len(accepted') = Len(accepted) + 1 /\ delivered' = delivered /\ closed' = closed
  <2>1. CASE head + 1 >= Capacity
    <3> DEFINE rest == SubSeq(q, head + 2, Len(q))
    <3>1. rest \in Seq(Entries) /\ Len(rest) = live_count - 1 /\ 0 \in 0..Len(rest)
      BY <1>1, <1>2 DEF live_count
    <3>2. Push(t, rest, 0)
      BY <2>1 DEF PostDropOldest
    <3> HIDE DEF rest
    <3>3. /\ live_count' = Len(rest) - 0 + 1 /\ head' = 0
          /\ Len(accepted') = Len(accepted) + 1 /\ delivered' = delivered /\ closed' = closed
      BY <3>1, <3>2, PushLengths DEF AccountInv
    <3> QED
      BY <1>1, <1>2, <3>1, <3>3
  <2>2. CASE ~(head + 1 >= Capacity)
    <3>1. Push(t, q, head + 1) /\ head + 1 \in 0..Len(q)
      BY <1>1, <1>2, <2>2 DEF PostDropOldest
    <3>2. /\ live_count' = Len(q) - (head + 1) + 1 /\ head' = head + 1
          /\ Len(accepted') = Len(accepted) + 1 /\ delivered' = delivered /\ closed' = closed
      BY <1>1, <3>1, PushLengths DEF AccountInv
    <3> QED
      BY <1>1, <1>2, <2>2, <3>2 DEF live_count
  <2> QED
    BY <2>1, <2>2
<1>4. stats'.retired = stats.retired /\ stats'.dropped = stats.dropped + 1
  BY <1>1 DEF PostDropOldest, Stats
<1>5. Balanced'
  <2>1. Evictions' = Evictions + 1 /\ Evictions \in Nat /\ stats.retired \in Nat
    BY <1>1, <1>2, <1>4 DEF Evictions, Stats
  <2>2. Len(delivered) \in Nat /\ live_count \in Int /\ Len(accepted) \in Nat
    BY <1>1 DEF AccountInv, TypeOK, live_count
  <2> QED
    BY <1>3, <1>4, <2>1, <2>2 DEF AccountInv, Balanced
<1> QED
  BY <1>2, <1>3, <1>5, Zenon DEF AccountInv, Fits, OpenUntilEnd

\* A drain: what it does not hand out it counts as retired.
LEMMA DrainAccountInv ==
  ASSUME AccountInv, DrainTagged
  PROVE  Fits' /\ Balanced' /\ OpenUntilEnd'
<1>1. q \in Seq(Entries) /\ head \in 0..Len(q) /\ stats \in Stats /\ Capacity \in Nat
  BY MailboxAssumption DEF AccountInv, TypeOK, BoxTypeOK
<1>2. live_count' = 0 /\ head' = 0 /\ ~closed /\ ~closed'
  BY DEF DrainTagged, live_count, LoopGoto, AccountInv, OpenUntilEnd, ClosedTail
<1>3. /\ Kept \in Seq(Entries) /\ Len(Kept) \in Nat
      /\ delivered \in Seq(Entries) /\ live_count \in Int
  BY <1>1, KeptType DEF AccountInv, TypeOK, live_count
<1>4. Len(delivered') = Len(delivered) + Len(Kept)
  BY <1>3 DEF DrainTagged
<1>5. /\ stats'.retired = stats.retired + live_count - Len(Kept)
      /\ stats'.dropped = stats.dropped /\ stats.retired \in Nat /\ stats.dropped \in Nat
  BY <1>1 DEF DrainTagged, Stats
<1>6. Balanced'
  <2>1. Evictions' = Evictions /\ Evictions \in Nat
    BY <1>5 DEF Evictions
  <2>2. accepted' = accepted /\ Len(delivered) \in Nat
    BY <1>3 DEF DrainTagged
  <2> QED
    BY <1>2, <1>3, <1>4, <1>5, <2>1, <2>2 DEF AccountInv, Balanced
<1> QED
  BY <1>1, <1>2, <1>6 DEF Fits, OpenUntilEnd

\* Every step keeps the accounts.
LEMMA NextAccountInv ==
  ASSUME AccountInv, [Next]_vars
  PROVE  Fits' /\ Balanced' /\ OpenUntilEnd'
<1>1. CASE Quiet
  BY <1>1, Zenon DEF Quiet, AccountInv, Fits, Balanced, OpenUntilEnd, live_count
<1>2. CASE OpenOrigin \/ \E id \in OriginIds : Retire(id)
  <2>1. UNCHANGED <<q, head, closed, accepted, delivered, stats>> /\ lpc \notin ClosedTail
    BY <1>2 DEF OpenOrigin, Retire, LoopGoto, ClosedTail, historyVars
  <2> QED
    BY <2>1, Zenon DEF AccountInv, Fits, Balanced, OpenUntilEnd, Evictions, live_count
<1>3. CASE CloseBox
  <2>1. live_count' = 0 /\ head' = 0 /\ closed' /\ lpc' \in ClosedTail
    BY <1>3 DEF CloseBox, LoopGoto, ClosedTail, live_count
  <2> QED
    BY <2>1, MailboxAssumption DEF Fits, Balanced, OpenUntilEnd
<1> QED
  BY <1>1, <1>2, <1>3, StepKinds, RoomAccountInv, EvictAccountInv, DrainAccountInv
     DEF AccountInv

\* The accounts always hold.
LEMMA AccountInvariant == Spec => []AccountInv
<1>1. Init => AccountInv
  <2> SUFFICES ASSUME Init PROVE AccountInv
    OBVIOUS
  <2>0. /\ q = <<>> /\ head = 0 /\ ~closed /\ accepted = <<>> /\ delivered = <<>>
        /\ stats = [dropped |-> 0, blocked |-> 0, loop_full |-> 0, retired |-> 0,
                    high_water |-> 0]
    BY Zenon DEF Init
  <2>1. Fits /\ OpenUntilEnd
    BY <2>0, MailboxAssumption DEF Fits, OpenUntilEnd, live_count
  <2>2. Balanced
    BY <2>0 DEF Balanced, Evictions, live_count
  <2> QED
    BY <2>1, <2>2, InitTypeOK DEF AccountInv
<1>2. AccountInv /\ TypeOK' /\ [Next]_vars => AccountInv'
  BY NextAccountInv DEF AccountInv
<1> QED
  BY <1>1, <1>2, TypeCorrect, PTL DEF Spec

\* The buffer stays under twice the capacity however long the loop stalls, and
\* until close() the counters explain every message a post accepted
\* (mailbox.hpp:51, 129-131), for every capacity, policy and set of threads.
THEOREM EveryMessageAccounted == Spec => []Accounted
<1>1. AccountInv => Accounted
  <2> SUFFICES ASSUME AccountInv PROVE Accounted
    OBVIOUS
  <2>1. BufferBound
    BY MailboxAssumption DEF AccountInv, TypeOK, BoxTypeOK, Fits, BufferBound, live_count
  <2> QED
    BY <2>1 DEF AccountInv, Balanced, Accounted
<1> QED
  BY <1>1, AccountInvariant, PTL
-----------------------------------------------------------------------------
(* The mailbox is a channel *)

\* A new entry at the end of the buffer is a new entry at the end of its live part.
LEMMA AppendLive ==
  ASSUME NEW E, NEW s \in Seq(E), NEW x \in E, NEW h \in 0..Len(s)
  PROVE  SubSeq(Append(s, x), h + 1, Len(Append(s, x)))
           = Append(SubSeq(s, h + 1, Len(s)), x)
<1> DEFINE a == SubSeq(Append(s, x), h + 1, Len(Append(s, x)))
           b == Append(SubSeq(s, h + 1, Len(s)), x)
<1>1. a \in Seq(E) /\ Len(a) = Len(s) + 1 - h
  OBVIOUS
<1>2. b \in Seq(E) /\ Len(b) = Len(s) - h + 1
  OBVIOUS
<1>3. \A i \in 1..Len(a) : a[i] = b[i]
  OBVIOUS
<1>4. Len(a) = Len(b)
  BY <1>1, <1>2
<1> HIDE DEF a, b
<1>5. a = b
  BY <1>1, <1>2, <1>3, <1>4, SeqEqual, Zenon
<1> QED
  BY <1>5, Zenon DEF a, b

\* Evicting one more entry takes the first of the live ones.
LEMMA TailLive ==
  ASSUME NEW E, NEW s \in Seq(E), NEW h \in Nat, h + 1 <= Len(s)
  PROVE  SubSeq(s, h + 2, Len(s)) = Tail(SubSeq(s, h + 1, Len(s)))
<1> DEFINE a == SubSeq(s, h + 2, Len(s))
           b == Tail(SubSeq(s, h + 1, Len(s)))
<1>1. a \in Seq(E) /\ Len(a) = Len(s) - h - 1
  OBVIOUS
<1>2. b \in Seq(E) /\ Len(b) = Len(s) - h - 1
  <2> DEFINE c == SubSeq(s, h + 1, Len(s))
  <2>1. c \in Seq(E) /\ Len(c) = Len(s) - h
    OBVIOUS
  <2> HIDE DEF c
  <2>2. Tail(c) \in Seq(E) /\ Len(Tail(c)) = Len(c) - 1
    BY <2>1
  <2> QED
    BY <2>1, <2>2 DEF c
<1>3. \A i \in 1..Len(a) : a[i] = b[i]
  OBVIOUS
<1>4. Len(a) = Len(b)
  BY <1>1, <1>2, Zenon
<1> HIDE DEF a, b
<1>5. a = b
  BY <1>1, <1>2, <1>3, <1>4, SeqEqual, Zenon
<1> QED
  BY <1>5 DEF a, b

\* Nothing evicted: the whole buffer is live.
LEMMA WholeLive ==
  ASSUME NEW E, NEW s \in Seq(E)
  PROVE  SubSeq(s, 1, Len(s)) = s
BY SeqEqual

\* What a push does to the channel's queue.
LEMMA PushLive ==
  ASSUME TypeOK, NEW t \in Threads,
         NEW buf \in Seq(Entries), NEW evicted \in 0..Len(buf), Push(t, buf, evicted)
  PROVE  /\ LiveEntries' = Append(SubSeq(buf, evicted + 1, Len(buf)), sending[t])
         /\ Dead' = Dead /\ closed' = closed /\ delivered' = delivered
<1>1. sending[t] \in Entries
  BY DEF TypeOK, ThreadTypeOK
<1>2. q' = Append(buf, sending[t]) /\ head' = evicted
  BY DEF Push
<1>3. LiveEntries' = Append(SubSeq(buf, evicted + 1, Len(buf)), sending[t])
  BY <1>1, <1>2, AppendLive, Zenon DEF LiveEntries
<1> QED
  BY <1>3 DEF Push, Dead

\* A post that was not refused comes from an origin the channel does not know
\* as dead.
LEMMA NotRefusedNotDead ==
  ASSUME TypeOK, NEW t \in Threads, ~Refused(sending[t].from)
  PROVE  sending[t] \in Entries /\ ~closed /\ sending[t].from \notin Dead
<1>1. sending[t] \in Entries /\ sending[t].from \in 0..MaxOrigins
  BY DEF TypeOK, ThreadTypeOK, Entries
<1> QED
  BY <1>1, MailboxAssumption, SMTT(30) DEF Refused, is_retired, Dead, TypeOK, BoxTypeOK

\* A push with room is the channel's Accept.
LEMMA RoomRefines ==
  ASSUME AccountInv, NEW t \in Threads, PostPush(t) \/ WaitPush(t)
  PROVE  Ch!ChannelNext
<1>1. q \in Seq(Entries) /\ head \in 0..Len(q) /\ TypeOK
  BY DEF AccountInv, TypeOK, BoxTypeOK
<1>2. Push(t, q, head) /\ ~full /\ ~Refused(sending[t].from)
  BY DEF PostPush, WaitPush
<1>3. /\ LiveEntries' = Append(LiveEntries, sending[t])
      /\ Dead' = Dead /\ closed' = closed /\ delivered' = delivered
  BY <1>1, <1>2, PushLive, Zenon DEF LiveEntries
<1>4. Capacity # 0 => Len(LiveEntries) < Capacity
  BY <1>1, <1>2, KeptType, MailboxAssumption DEF full, live_count
<1>5. Ch!Accept(sending[t])
  BY <1>1, <1>2, <1>3, <1>4, NotRefusedNotDead, Zenon DEF Ch!Accept
<1> QED
  BY <1>1, <1>2, <1>5, NotRefusedNotDead, Zenon DEF Ch!ChannelNext

\* A push that evicts is the channel's Replace, with or without compaction.
LEMMA EvictRefines ==
  ASSUME AccountInv, NEW t \in Threads, PostDropOldest(t)
  PROVE  Ch!ChannelNext
<1>1. q \in Seq(Entries) /\ head \in 0..Len(q) /\ head \in Nat /\ TypeOK /\ Capacity \in Nat
  BY MailboxAssumption DEF AccountInv, TypeOK, BoxTypeOK
<1>2. Capacity # 0 /\ live_count = Capacity /\ head + 1 <= Len(q)
  BY <1>1 DEF PostDropOldest, full, AccountInv, Fits, live_count
<1>3. ~Refused(sending[t].from)
  BY DEF PostDropOldest
<1>4. SubSeq(q, head + 2, Len(q)) = Tail(LiveEntries)
  BY <1>1, <1>2, TailLive DEF LiveEntries
<1>5. /\ LiveEntries' = Append(Tail(LiveEntries), sending[t])
      /\ Dead' = Dead /\ closed' = closed /\ delivered' = delivered
  <2>1. CASE head + 1 >= Capacity
    <3> DEFINE rest == SubSeq(q, head + 2, Len(q))
    <3>1. rest \in Seq(Entries) /\ 0 \in 0..Len(rest)
      BY <1>1, <1>2
    <3>2. Push(t, rest, 0)
      BY <2>1 DEF PostDropOldest
    <3>3. SubSeq(rest, 0 + 1, Len(rest)) = rest
      <4> HIDE DEF rest
      <4> QED
        BY <3>1, WholeLive
    <3>4. rest = Tail(LiveEntries)
      BY <1>4, Zenon
    <3> HIDE DEF rest
    <3>5. /\ LiveEntries' = Append(SubSeq(rest, 0 + 1, Len(rest)), sending[t])
          /\ Dead' = Dead /\ closed' = closed /\ delivered' = delivered
      BY <1>1, <3>1, <3>2, PushLive
    <3> QED
      BY <3>3, <3>4, <3>5, Zenon
  <2>2. CASE ~(head + 1 >= Capacity)
    <3>1. Push(t, q, head + 1) /\ head + 1 \in 0..Len(q) /\ head + 1 + 1 = head + 2
      BY <1>1, <1>2, <2>2 DEF PostDropOldest
    <3>2. /\ LiveEntries' = Append(SubSeq(q, head + 1 + 1, Len(q)), sending[t])
          /\ Dead' = Dead /\ closed' = closed /\ delivered' = delivered
      BY <1>1, <3>1, PushLive, Zenon
    <3> QED
      BY <1>4, <3>1, <3>2, Zenon
  <2> QED
    BY <2>1, <2>2
<1>6. Len(LiveEntries) = Capacity
  BY <1>1, <1>2, KeptType
<1>7. Ch!Replace(sending[t])
  BY <1>1, <1>2, <1>3, <1>5, <1>6, NotRefusedNotDead, Zenon DEF Ch!Replace
<1> QED
  BY <1>1, <1>3, <1>7, NotRefusedNotDead, Zenon DEF Ch!ChannelNext

\* A drain is the channel's Take.
LEMMA DrainRefines ==
  ASSUME AccountInv, DrainTagged
  PROVE  Ch!ChannelNext
<1>1. q \in Seq(Entries) /\ head \in 0..Len(q)
  BY DEF AccountInv, TypeOK, BoxTypeOK
<1>2. ~closed /\ closed' = closed /\ Dead' = Dead
  BY DEF DrainTagged, LoopGoto, AccountInv, OpenUntilEnd, ClosedTail, Dead
<1>3. LiveEntries # <<>>
  BY <1>1, KeptType DEF DrainTagged
<1>4. LiveEntries' = <<>>
  BY DEF DrainTagged, LiveEntries
<1>5. delivered' = delivered \o Ch!Keeping(LiveEntries, {m \in Entries : m.from \notin Dead})
  BY Zenon DEF DrainTagged, Kept, Keeping, Ch!Keeping
<1>6. Ch!Take
  BY <1>2, <1>3, <1>4, <1>5, Zenon DEF Ch!Take
<1> QED
  BY <1>6, Zenon DEF Ch!ChannelNext

\* Origins: opening one is invisible, retiring one is the channel's Retire, and
\* close() retires them all.
LEMMA OriginsRefine ==
  ASSUME AccountInv, OpenOrigin \/ CloseBox \/ \E id \in OriginIds : Retire(id)
  PROVE  [Ch!ChannelNext]_(Ch!channelVars)
<1>1. /\ lastOrigin \in 0..MaxOrigins /\ live \subseteq 1..lastOrigin /\ MaxOrigins \in Nat
  BY MailboxAssumption DEF AccountInv, TypeOK, BoxTypeOK
<1>2. CASE OpenOrigin
  <2>1. Dead' = Dead
    BY <1>1, <1>2 DEF OpenOrigin, Dead
  <2> QED
    BY <1>2, <2>1, Zenon DEF OpenOrigin, Ch!channelVars, LiveEntries, historyVars
<1>3. ASSUME NEW id \in OriginIds, Retire(id) PROVE Ch!ChannelNext
  <2>1. Dead' = Dead \cup {id}
    BY <1>1, <1>3 DEF Retire, Dead
  <2>2. LiveEntries' = LiveEntries /\ closed' = closed /\ delivered' = delivered
    BY <1>3 DEF Retire, LiveEntries, historyVars
  <2>3. Ch!Retire(id)
    BY <2>1, <2>2, Zenon DEF Ch!Retire
  <2> QED
    BY <2>3, Zenon DEF Ch!ChannelNext
<1>4. CASE CloseBox
  <2>1. Dead \subseteq Dead' /\ Dead' \in SUBSET OriginIds
    BY <1>1, <1>4 DEF CloseBox, Dead, OriginIds
  <2>2. LiveEntries' = <<>>
    BY <1>4 DEF CloseBox, LiveEntries
  <2>3. closed' /\ delivered' = delivered
    BY <1>4 DEF CloseBox, historyVars
  <2>4. (~closed)' = FALSE
    BY <2>3
  <2>5. Ch!Close
    BY <2>1, <2>2, <2>3, <2>4, Zenon DEF Ch!Close
  <2> QED
    BY <2>5, Zenon DEF Ch!ChannelNext
<1> QED
  BY <1>2, <1>3, <1>4

\* The mailbox keeps the channel's promise (mailbox.hpp:6-41) for every set of
\* threads, capacity, policy and number of origins: what a post accepts comes
\* out once and in order, the bound holds, and nothing of a retired origin is
\* delivered.
THEOREM MailboxImplementsChannel == Spec => ImplementsChannel
<1>1. Init => Ch!ChannelInit
  <2> SUFFICES ASSUME Init PROVE Ch!ChannelInit
    OBVIOUS
  <2>1. q = <<>> /\ head = 0 /\ lastOrigin = 0 /\ closed = FALSE /\ delivered = <<>>
    BY Zenon DEF Init
  <2>2. LiveEntries = <<>> /\ Dead = {}
    BY <2>1 DEF LiveEntries, Dead
  <2> QED
    BY <2>1, <2>2, Zenon DEF Ch!ChannelInit
<1>2. AccountInv /\ [Next]_vars => [Ch!ChannelNext]_(Ch!channelVars)
  <2> SUFFICES ASSUME AccountInv, [Next]_vars PROVE [Ch!ChannelNext]_(Ch!channelVars)
    OBVIOUS
  <2>1. CASE Quiet
    BY <2>1, Zenon DEF Quiet, Ch!channelVars, LiveEntries, Dead
  <2> QED
    BY <2>1, StepKinds, RoomRefines, EvictRefines, DrainRefines, OriginsRefine, Zenon
       DEF AccountInv
<1> QED
  BY <1>1, <1>2, AccountInvariant, PTL DEF Spec, ImplementsChannel, Ch!ChannelSpec
=============================================================================
