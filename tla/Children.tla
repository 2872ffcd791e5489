------------------------------ MODULE Children ------------------------------
(***************************************************************************)
(* A parent program with a keyed list of children (core/children.hpp) and  *)
(* one child in a fixed slot (core/child.hpp), on a kernel reduced to what *)
(* their effects need: the queue, the table of keyed work, the running     *)
(* tasks and timers, the running streams.  A child is known by its id,     *)
(* and so is one added under that id after it was removed.                 *)
(***************************************************************************)
EXTENDS Effects, FiniteSets

CONSTANTS Ids,          \* ids of the list, an interval from 0
          Slot,         \* stands for the fixed slot's prefix, its Wrap's name
          Root,         \* stands for the parent's own work
          Key, Feed,    \* the task key and the stream key every program uses
          MaxQueue, MaxRuns

VARIABLES ms,      \* each child: whether it is there, whether it wants its stream
          queue,   \* messages waiting to be folded, with the key of their origin
          keyed,   \* the kernel's table: the keys that name work
          runs,    \* tasks and timers that have not delivered yet
          streams, \* running streams: key -> message
          dirty,   \* a fold may have changed what subscribe returns
          own      \* history: the table each program would have alone
vars == <<ms, queue, keyed, runs, streams, dirty, own>>

\* An origin is alive until its work is replaced, cancelled or stopped; every
\* message and run under it is then stale for good, which live says.
Kids == Ids \cup {Slot}
Retired(q, ks) == [i \in DOMAIN q |-> [q[i] EXCEPT !.live = @ /\ q[i].key \notin ks]]
Ordered(S) == [n \in 1 .. Cardinality(S) |->
                 CHOOSE x \in S : Cardinality({y \in S : y < x}) = n - 1]

\* What a program returns from init or update.
Returned ==
  {none, send(Msg), report(Msg), attempt(<<Key>>, Msg),
   batch(<<cancel(<<Key>>), batch(<<after(<<>>, Msg), none>>)>>)}

ChildrenInit ==
  /\ ms = [k \in Kids |-> [here |-> FALSE, wants |-> FALSE]]
  /\ queue = <<>> /\ keyed = {} /\ runs = {} /\ streams = <<>> /\ dirty = FALSE
  /\ own = [w \in Kids \cup {Root} |-> {}]

\* Keyed work stops what runs under its key: stop_keyed_task.  History: alone
\* is what live would be if only the same program's keys could stop a run.
Stopped(who, st, k) ==
  [st EXCEPT !.runs = {[r EXCEPT !.live = @ /\ r.key # k, !.alone = @ /\ ~(r.who = who /\ r.key = k)]
                        : r \in @},
             !.queue = Retired(@, {k}), !.keyed = @ \ {k}, !.own[who] = @ \ {k}]

\* The kernel's interpreter, for the effects the programs use.
Interpret(who, st, e) ==
  LET Start(s) == [s EXCEPT !.runs = @ \cup {[who |-> who, key |-> e.key, fx |-> e.fx, msg |-> e.msg,
                                  catches |-> e.fx = "task" /\ e.catches, live |-> TRUE, alone |-> TRUE]}]
  IN CASE e.fx = "send" -> [st EXCEPT !.queue = Append(@, [key |-> <<>>, live |-> TRUE, msg |-> e.msg])]
       [] e.fx = "cancel" -> Stopped(who, st, e.key)
       [] e.key = <<>> -> Start(st)
       [] OTHER -> [Start(Stopped(who, st, e.key)) EXCEPT !.keyed = @ \cup {e.key},
                                                          !.own[who] = @ \cup {e.key}]

RECURSIVE InterpretAll(_, _, _)
InterpretAll(who, st, es) ==
  IF es = <<>> THEN st ELSE InterpretAll(who, Interpret(who, st, Head(es)), Tail(es))

Perform(who, c, rest) ==
  LET st == InterpretAll(who, [queue |-> rest, keyed |-> keyed, runs |-> runs, own |-> own], for_each(c))
  IN /\ Len(st.queue) <= MaxQueue /\ Cardinality(st.runs) <= MaxRuns
     /\ queue' = st.queue /\ keyed' = st.keyed /\ runs' = st.runs /\ own' = st.own

\* The parent's init calls the slot's child's, and lifts its Cmd.
child_init ==
  /\ ~ms[Slot].here
  /\ \E c \in Returned : Perform(Slot, child_lift(Slot, c), queue)
  /\ \E wants \in BOOLEAN : ms' = [ms EXCEPT ![Slot] = [here |-> TRUE, wants |-> wants]]
  /\ dirty' = TRUE /\ UNCHANGED streams

\* Add a child under id, replacing any that is there.
addAt(id) ==
  /\ \E c \in Returned : Perform(id, lift(id, c), queue)
  /\ \E wants \in BOOLEAN : ms' = [ms EXCEPT ![id] = [here |-> TRUE, wants |-> wants]]
  /\ dirty' = TRUE /\ UNCHANGED streams

\* Add a child under the id after the last one in the map.
addNext ==
  LET ids == {i \in Ids : ms[i].here}
      id == IF ids = {} THEN 0 ELSE Max(ids) + 1
  IN id \in Ids /\ addAt(id)

\* Remove a child, or clear the list: erasing models is all the code does.
remove(gone) ==
  /\ \A id \in gone : ms[id].here
  /\ ms' = [id \in Kids |-> IF id \in gone THEN [ms[id] EXCEPT !.here = FALSE] ELSE ms[id]]
  /\ dirty' = TRUE /\ UNCHANGED <<queue, keyed, runs, streams, own>>

\* The parent's own work, under the same kernel.
ParentWorks ==
  /\ \E c \in {perform(<<Key>>, Msg), cancel(<<Key>>)} : Perform(Root, c, queue)
  /\ UNCHANGED <<ms, streams, dirty>>

\* Is the message folded, or dropped as stale?
Current(q) == q.live
\* The child a message is for.
For(q) == q.msg.at[1]

\* Fold a wrapped message into the child of the slot, which is always there.
child_update ==
  /\ \E c \in Returned : Perform(Slot, child_lift(Slot, c), Tail(queue))
  /\ \E wants \in BOOLEAN : ms' = [ms EXCEPT ![Slot].wants = wants]

\* Fold one into its child of the list; one for a child that is gone is dropped.
update(id) ==
  IF ~ms[id].here THEN queue' = Tail(queue) /\ UNCHANGED <<ms, keyed, runs, own>>
  ELSE /\ \E c \in Returned : Perform(id, lift(id, c), Tail(queue))
       /\ \E wants \in BOOLEAN : ms' = [ms EXCEPT ![id].wants = wants]

\* The kernel folds the next message; what came from a source waits until the
\* subscriptions are reconciled.
Fold ==
  /\ queue # <<>>
  /\ LET q == Head(queue)
     IN /\ q.key # <<>> => ~dirty
        /\ IF ~Current(q) \/ q.msg.at = <<>> \/ q.msg.up
           THEN queue' = Tail(queue) /\ UNCHANGED <<ms, keyed, runs, own>>
           ELSE IF For(q) = Slot THEN child_update ELSE update(For(q))
        /\ dirty' = (dirty \/ Current(q))
  /\ UNCHANGED streams

Routed(m) ==
  /\ Len(queue) < MaxQueue
  /\ queue' = Append(queue, [key |-> <<>>, live |-> TRUE, msg |-> m])
  /\ UNCHANGED <<ms, keyed, runs, streams, dirty, own>>

\* An input event forwarded to the slot, or to one child of the list.
child_on == Routed(wrapped(Slot, Msg))
on(id) == ms[id].here /\ Routed(forwarded(id, Msg))

\* A body returns, or throws: attempt turns the exception into a message.
shim(r, threw) ==
  IF ~threw \/ r.catches THEN <<r.msg>> ELSE <<>>

\* A task ends, or a timer comes due.  The sink of keyed work dies with its
\* entry in the table.
RunEnds(r) ==
  \E threw \in BOOLEAN :
    /\ threw => r.fx = "task"
    /\ LET sent == CASE ~r.live -> <<>> [] r.fx = "after" -> <<r.msg>> [] OTHER -> shim(r, threw)
       IN /\ Len(queue) + Len(sent) <= MaxQueue
          /\ queue' = queue \o [i \in DOMAIN sent |-> [key |-> r.key, live |-> TRUE, msg |-> sent[i]]]
    /\ runs' = runs \ {r}
    /\ UNCHANGED <<ms, keyed, streams, dirty, own>>

StreamSends(k) ==
  /\ Len(queue) < MaxQueue
  /\ queue' = Append(queue, [key |-> k, live |-> TRUE, msg |-> streams[k]])
  /\ UNCHANGED <<ms, keyed, runs, streams, dirty, own>>

subscribed(id) ==
  IF ms[id].wants THEN stream(<<Feed>>, Msg) ELSE none

\* The slot's subscriptions, and those of every child of the list in the
\* map's order, each under its own prefix.
child_subscribe == sub_map(Slot, prefix_streams(<<Slot>>, subscribed(Slot)))

\* Variant: the streams of a list under the keys its children chose.
subscribe_Shared ==
  LET here == SelectSeq(Ordered(Ids), LAMBDA i : ms[i].here /\ ~is_none(subscribed(i)))
  IN sub_batch([n \in DOMAIN here |-> sub_map_with(here[n], subscribed(here[n]))])

subscribe ==
  LET here == SelectSeq(Ordered(Ids), LAMBDA i : ms[i].here /\ ~is_none(subscribed(i)))
  IN sub_batch([n \in DOMAIN here |->
                  sub_map_with(here[n], prefix_streams(<<here[n]>>, subscribed(here[n])))])

\* The reconciler stops what left, keeps what stays and starts what is new.
reconcile ==
  LET wanted == for_each(sub_batch(<<child_subscribe, subscribe>>))
      keys == {wanted[n].key : n \in DOMAIN wanted}
      At(k) == CHOOSE n \in DOMAIN wanted : wanted[n].key = k
  IN /\ dirty /\ dirty' = FALSE
     /\ streams' = [k \in keys |-> IF k \in DOMAIN streams THEN streams[k] ELSE wanted[At(k)].msg]
     /\ queue' = Retired(queue, DOMAIN streams \ keys)
     /\ UNCHANGED <<ms, keyed, runs, own>>

ChildrenNext ==
  \/ child_init
  \/ /\ ms[Slot].here
     /\ \/ \E id \in Ids : addAt(id) \/ remove({id}) \/ on(id)
        \/ addNext \/ child_on
        \/ remove({id \in Ids : ms[id].here})
        \/ ParentWorks \/ Fold \/ reconcile
        \/ \E r \in runs : RunEnds(r)
        \/ \E k \in DOMAIN streams : StreamSends(k)

ChildrenSpec == ChildrenInit /\ [][ChildrenNext]_vars

-----------------------------------------------------------------------------
\* Keys are per child: whatever the programs name their work, and however
\* their commands interleave, the work the kernel holds for a program is the
\* work it would hold if that program ran alone.  lift and prefix_task_keys.
EachAsIfAlone ==
  /\ \A r \in runs : r.live = r.alone
  /\ keyed = UNION {own[w] : w \in Kids \cup {Root}}
  /\ \A v, w \in Kids \cup {Root} : v # w => own[v] \cap own[w] = {}

\* Once the subscriptions are reconciled, a stream runs for exactly the
\* children that are there and want it, one for each, and feeds that child.
StreamsFollow ==
  ~dirty => /\ {k[1] : k \in DOMAIN streams} = {id \in Kids : ms[id].here /\ ms[id].wants}
            /\ \A k \in DOMAIN streams : streams[k].at = <<k[1]>>

=============================================================================
