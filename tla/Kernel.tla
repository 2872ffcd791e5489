------------------------------- MODULE Kernel -------------------------------
(***************************************************************************)
(* include/jaal/kernel/kernel.hpp: the Elm loop.                           *)
(*                                                                         *)
(* The loop thread runs start(), route(), step() and shutdown() in small   *)
(* steps: one message folded, one effect interpreted, one re-subscription. *)
(* Between any two of them other threads post to the mailbox and report    *)
(* task errors.  The program is arbitrary: update() may move to any model, *)
(* return any command of Cmds or throw; subscribe() is a function of the   *)
(* model and may throw for the models in BadModels.  A message is its      *)
(* origin and a number, the order in which it was queued; time is left     *)
(* out: any armed timer may be due.  The mailbox is taken as Mailbox and   *)
(* Channel show it: a queue, filtered by the live origins when drained.    *)
(***************************************************************************)
EXTENDS Integers, Sequences, FiniteSets, EraseIf

CONSTANTS Streams, Timers, HostSources,  \* keys of stream, every and host sources
          TaskKeys,       \* keys of keyed tasks and keyed afters
          Programs,       \* the programs and options to run, each with a bound
                          \* on the task errors it raises
          MaxMsgs,        \* bound: messages ever queued
          MaxOrigins      \* bound: origins ever opened

Origined == Streams \cup Timers
Sources  == Origined \cup HostSources

NoKey  == "no key"

Quit        == [op |-> "quit", key |-> NoKey]
SendMsg     == [op |-> "send", key |-> NoKey]    \* send, now, random, a host's answer
Throw       == [op |-> "throw", key |-> NoKey]   \* a host effect that throws
PlainAfter  == [op |-> "after", key |-> NoKey]
After(k)    == [op |-> "after", key |-> k]
Task(k)     == [op |-> "task", key |-> k]
Cancel(k)   == [op |-> "cancel", key |-> k]
Effects     == {Quit, SendMsg, Throw, PlainAfter}
                 \cup UNION {{After(k), Task(k), Cancel(k)} : k \in TaskKeys}

ASSUME KernelAssumption ==
  /\ IsFiniteSet(Sources) /\ IsFiniteSet(TaskKeys) /\ NoKey \notin TaskKeys
  /\ Streams \cap Timers = {} /\ Origined \cap HostSources = {}
  /\ MaxMsgs \in Nat /\ MaxOrigins \in Nat
  /\ \A p \in Programs :
       /\ p.subscribe \in [p.models -> SUBSET Sources] /\ p.bad \subseteq p.models
       /\ p.hasKey \in BOOLEAN /\ p.debug \in BOOLEAN /\ p.hostThrows \in BOOLEAN
       \* core/program.hpp asks that the key cover what subscribe() reads;
       \* only a debug build notices when it does not
       /\ p.debug \/ \A m1, m2 \in p.models :
            p.keyOf[m1] = p.keyOf[m2] => p.subscribe[m1] = p.subscribe[m2]
       \* a key is never the empty optional
       /\ \A m \in p.models : p.keyOf[m] # NoKey
       /\ <<>> \in p.cmds /\ p.cmds \subseteq Seq(Effects)
       /\ p.on_fault \in {"stop", "skip"} /\ p.fold_budget \in Nat \ {0} /\ p.errors \in Nat

VARIABLES
  app,        \* the program and the options: never changes
  \* where the loop thread is
  loc,        \* the next thing it does
  entry,      \* the call it is in: start, route or step
  ret,        \* where interpret() returns to
  n, changed, \* fold_pending's locals
  cmd,        \* effects still to interpret
  \* the kernel object
  pending, batch,
  model, exit, subsDirty, subsKey, distrusted,
  sources,     \* sources_: what the reconciler takes to be running
  srcOrigin,   \* timer_of_ and streams_: origin of a running source, or 0
  hostUp,      \* host sources started and not stopped
  taskOrigin,  \* tasks_: origin of each key's run, or 0
  taskKind,    \* none, task, or a keyed after: armed, fired
  plainTimers, \* unkeyed afters armed
  liveOrigins,
  changedSinceTurn,
  \* the mailbox and the task fault box
  box, boxLive, boxOpen, issued,
  errs, flag, raising, raised,
  \* history
  made,        \* messages queued so far
  lastFolded,  \* number of the last message folded or dropped
  unseen       \* the model changed and no turn has said so

foldVars  == <<n, changed>>
queueVars == <<pending, batch>>
progVars  == <<model, subsDirty, subsKey, distrusted>>
runVars   == <<sources, srcOrigin, hostUp>>
taskVars  == <<taskOrigin, taskKind, plainTimers>>
liveVars  == <<liveOrigins, boxLive, issued>>
boxVars   == <<box, boxOpen>>
errVars   == <<errs, flag, raising, raised>>
turnVars  == <<changedSinceTurn, unseen>>
seqVars   == <<made, lastFolded>>
vars == <<app, loc, entry, ret, cmd, exit, foldVars, queueVars, progVars, runVars, taskVars,
          liveVars, boxVars, errVars, turnVars, seqVars>>

Models     == app.models
Subscribe  == app.subscribe    \* what subscribe() returns on each model
BadModels  == app.bad          \* the models it throws on
HasSubsKey == app.hasKey
SubsKeyOf  == app.keyOf
Cmds       == app.cmds         \* the commands init and update may return
Debug      == app.debug        \* built without NDEBUG
HostThrows == app.hostThrows   \* a host source may throw
OnFault    == app.on_fault
FoldBudget == app.fold_budget

NoExit == "none"

\* The orders in which the elements of a finite set can be walked.
Orders(S) == {f \in [1..Cardinality(S) -> S] :
                \A i, j \in 1..Cardinality(S) : f[i] = f[j] => i = j}

\* Messages and origins a command may add (for the bounds).
Sends(c) == Cardinality({i \in DOMAIN c : c[i].op \in {"send", "after"}})
Opens(c) == Cardinality({i \in DOMAIN c : c[i].op \in {"after", "task"} /\ c[i].key # NoKey})
Armed    == plainTimers + Cardinality({k \in TaskKeys : taskKind[k] = "armed"})
HasRoom(k) == made + Len(box) + Armed + Sends(cmd) + k <= MaxMsgs
-----------------------------------------------------------------------------
Msg(from, id) == [from |-> from, id |-> id]

Enqueue(from) ==
  /\ pending' = Append(pending, Msg(from, made + 1))
  /\ made' = made + 1

\* fault_raised and stop(): under `stop`, or with the model lost, the kernel
\* quits and forgets what is queued.
fault_raised(kept) ==
  IF exit = NoExit /\ (OnFault = "stop" \/ ~kept)
  THEN exit' = "fault" /\ pending' = <<>>
  ELSE UNCHANGED <<exit, pending>>

\* start(): init() gives the model and a command.  start_from(): they are
\* given, a model that was rebuilt and what a resumed program must redo.
\* Either way any model and any command.
start(m, c) == m \in Models /\ c \in Cmds
start_from(m, resume_cmd) == m \in Models /\ resume_cmd \in Cmds

Init ==
  /\ app \in Programs
  /\ loc = "interpret" /\ entry = "start" /\ ret = "fold"
  /\ n = 0 /\ changed = FALSE /\ cmd \in {c \in Cmds : Sends(c) <= MaxMsgs}
  /\ model \in Models /\ (start(model, cmd) \/ start_from(model, cmd))
  /\ pending = <<>> /\ batch = <<>>
  /\ exit = NoExit /\ subsDirty = TRUE /\ subsKey = NoKey
  /\ distrusted = FALSE
  /\ sources = {} /\ srcOrigin = [s \in Origined |-> 0] /\ hostUp = {}
  /\ taskOrigin = [k \in TaskKeys |-> 0] /\ taskKind = [k \in TaskKeys |-> "none"]
  /\ plainTimers = 0 /\ liveOrigins = {} /\ changedSinceTurn = FALSE
  /\ box = <<>> /\ boxLive = {} /\ boxOpen = TRUE /\ issued = 0
  /\ errs = 0 /\ flag = FALSE /\ raising = 0 /\ raised = 0
  /\ made = 0 /\ lastFolded = 0 /\ unseen = FALSE
-----------------------------------------------------------------------------
(* Effects: interpret().  A Batch stops at the first effect that quits; an *)
(* exception leaves it at once.                                            *)

Interpreting(op) == loc = "interpret" /\ cmd # <<>> /\ Head(cmd).op = op
Key == Head(cmd).key

fxQuit ==
  /\ Interpreting("quit")
  /\ exit' = IF exit = NoExit THEN "quit" ELSE exit
  /\ cmd' = <<>>
  /\ UNCHANGED <<loc, entry, ret, foldVars, queueVars, progVars, runVars, taskVars,
                 liveVars, boxVars, errVars, turnVars, seqVars>>

fxSend ==
  /\ Interpreting("send")
  /\ Enqueue(0)
  /\ cmd' = Tail(cmd)
  /\ UNCHANGED <<loc, entry, ret, exit, foldVars, batch, progVars, runVars, taskVars,
                 liveVars, boxVars, errVars, turnVars, lastFolded>>

fxThrow ==
  /\ Interpreting("throw")
  /\ fault_raised(TRUE)
  /\ cmd' = <<>>
  /\ UNCHANGED <<loc, entry, ret, foldVars, batch, progVars, runVars, taskVars,
                 liveVars, boxVars, errVars, turnVars, seqVars>>

fxAfterUnkeyed ==
  /\ Interpreting("after") /\ Key = NoKey
  /\ plainTimers' = plainTimers + 1
  /\ cmd' = Tail(cmd)
  /\ UNCHANGED <<loc, entry, ret, exit, foldVars, queueVars, progVars, runVars, taskOrigin,
                 taskKind, liveVars, boxVars, errVars, turnVars, seqVars>>

RunOf(k) == {taskOrigin[k]} \ {0}

\* stop_keyed_task, then a run with an origin of its own.
StartKeyed(k, kind) ==
  LET o == issued + 1 IN
  /\ issued' = o
  /\ boxLive' = (boxLive \ RunOf(k)) \cup {o}
  /\ liveOrigins' = (liveOrigins \ RunOf(k)) \cup {o}
  /\ taskOrigin' = [taskOrigin EXCEPT ![k] = o]
  /\ taskKind' = [taskKind EXCEPT ![k] = kind]

fxAfterKeyed ==
  /\ Interpreting("after") /\ Key # NoKey
  /\ StartKeyed(Key, "armed")
  /\ cmd' = Tail(cmd)
  /\ UNCHANGED <<loc, entry, ret, exit, foldVars, queueVars, progVars, runVars, plainTimers,
                 boxVars, errVars, turnVars, seqVars>>

start_keyed_task ==
  /\ Interpreting("task")
  /\ StartKeyed(Key, "task")
  /\ cmd' = Tail(cmd)
  /\ UNCHANGED <<loc, entry, ret, exit, foldVars, queueVars, progVars, runVars, plainTimers,
                 boxVars, errVars, turnVars, seqVars>>

\* Variant: cancel retires the origin in the mailbox only.
stop_keyed_task_BoxOnly(k) ==
  /\ boxLive' = boxLive \ RunOf(k)
  /\ UNCHANGED liveOrigins
  /\ taskOrigin' = [taskOrigin EXCEPT ![k] = 0]
  /\ taskKind' = [taskKind EXCEPT ![k] = "none"]

stop_keyed_task(k) ==
  /\ boxLive' = boxLive \ RunOf(k)
  /\ liveOrigins' = liveOrigins \ RunOf(k)
  /\ taskOrigin' = [taskOrigin EXCEPT ![k] = 0]
  /\ taskKind' = [taskKind EXCEPT ![k] = "none"]

fxCancel ==
  /\ Interpreting("cancel")
  /\ stop_keyed_task(Key)
  /\ cmd' = Tail(cmd)
  /\ UNCHANGED <<loc, entry, ret, exit, foldVars, queueVars, progVars, runVars, plainTimers,
                 issued, boxVars, errVars, turnVars, seqVars>>

\* Variant: fold_pending takes the next message without a look at exit_.
Interpreted_GoesOn ==
  /\ loc = "interpret" /\ cmd = <<>>
  /\ loc' = ret
  /\ UNCHANGED <<entry, ret, cmd, exit, foldVars, queueVars, progVars, runVars, taskVars,
                 liveVars, boxVars, errVars, turnVars, seqVars>>

\* interpret() returns: to the constructor, or to fold_pending, which looks
\* at exit_ before it takes the next message.
Interpreted ==
  /\ loc = "interpret" /\ cmd = <<>>
  /\ loc' = IF ret = "batch" /\ exit # NoExit THEN "batchEnd" ELSE ret
  /\ UNCHANGED <<entry, ret, cmd, exit, foldVars, queueVars, progVars, runVars, taskVars,
                 liveVars, boxVars, errVars, turnVars, seqVars>>

interpret == \/ fxQuit \/ fxSend \/ fxThrow \/ fxAfterUnkeyed \/ fxAfterKeyed
             \/ start_keyed_task \/ fxCancel \/ Interpreted
-----------------------------------------------------------------------------
(* Subscriptions: reconcile(). *)

Stopping == sources \ Subscribe[model]
Starting == Subscribe[model] \ sources

\* Stop the sources of `out`, start those of `fresh`, each start with an
\* origin of its own.
Apply(out, fresh) ==
  LET opening == CHOOSE o \in Orders(fresh \cap Origined) : TRUE
      opened  == issued + 1 .. issued + Len(opening)
      retired == {srcOrigin[s] : s \in out \cap Origined}
  IN /\ issued' = issued + Len(opening)
     /\ boxLive' = (boxLive \ retired) \cup opened
     /\ liveOrigins' = (liveOrigins \ retired) \cup opened
     /\ srcOrigin' = [s \in Origined |->
                        IF s \in fresh THEN issued + CHOOSE i \in DOMAIN opening : opening[i] = s
                        ELSE IF s \in out THEN 0 ELSE srcOrigin[s]]
     /\ hostUp' = (hostUp \ out) \cup (fresh \cap HostSources)

\* reconcile() is called at the end of every call, and before a message of a
\* subscription is folded.
MessageNext == loc = "batch" /\ batch # <<>> /\ n < FoldBudget
ReconcileDue ==
  /\ subsDirty
  /\ loc = "end" \/ (MessageNext /\ Head(batch).from # 0)

KeyKnown    == HasSubsKey /\ ~distrusted /\ subsKey = SubsKeyOf[model]
\* subs_key_covers_subscribe, with same_sources as Reconcile models it
KeyTooNarrow == Debug /\ model \notin BadModels /\ Subscribe[model] # sources
KeySkips    == KeyKnown /\ ~KeyTooNarrow

\* What reconcile does with the key on its way to subscribe().
Rekeyed ==
  /\ distrusted' = (distrusted \/ KeyKnown)
  /\ subsKey' = IF HasSubsKey /\ ~distrusted /\ ~KeyKnown THEN SubsKeyOf[model]
                ELSE IF KeyKnown THEN NoKey ELSE subsKey

ReconcileSkipped ==
  /\ ReconcileDue /\ KeySkips
  /\ subsDirty' = FALSE
  /\ UNCHANGED <<loc, entry, ret, cmd, exit, foldVars, queueVars, model, subsKey, distrusted,
                 runVars, taskVars, liveVars, boxVars, errVars, turnVars, seqVars>>

\* Variant: the key of the model subscribe() failed for is kept.
SubscribeThrows_KeyKept ==
  /\ ReconcileDue /\ ~KeySkips /\ model \in BadModels
  /\ subsDirty' = FALSE
  /\ Rekeyed
  /\ fault_raised(TRUE)
  /\ UNCHANGED <<loc, entry, ret, cmd, foldVars, batch, model, runVars, taskVars,
                 liveVars, boxVars, errVars, turnVars, seqVars>>

SubscribeThrows ==
  /\ ReconcileDue /\ ~KeySkips /\ model \in BadModels
  /\ subsDirty' = FALSE
  /\ subsKey' = NoKey /\ UNCHANGED distrusted
  /\ fault_raised(TRUE)
  /\ UNCHANGED <<loc, entry, ret, cmd, foldVars, batch, model, runVars, taskVars,
                 liveVars, boxVars, errVars, turnVars, seqVars>>

Reconciled ==
  /\ ReconcileDue /\ ~KeySkips /\ model \notin BadModels
  /\ subsDirty' = FALSE
  /\ Rekeyed
  /\ sources' = Subscribe[model]
  /\ Apply(Stopping, Starting)
  /\ UNCHANGED <<loc, entry, ret, cmd, exit, foldVars, queueVars, model, taskVars,
                 boxVars, errVars, turnVars, seqVars>>

\* A host source throws from stop_source or start_source: the rest of the plan
\* is not carried out, though sources_ already holds the new set.
SourceThrows(h) ==
  /\ HostThrows /\ ReconcileDue /\ ~KeySkips /\ model \notin BadModels
  /\ subsDirty' = FALSE
  /\ Rekeyed
  /\ sources' = Subscribe[model]
  /\ \/ h \in Stopping /\ \E done \in SUBSET (Stopping \ {h}) : Apply(done, {})
     \/ h \in Starting /\ \E done \in SUBSET (Starting \ {h}) : Apply(Stopping, done)
  /\ fault_raised(TRUE)
  /\ UNCHANGED <<loc, entry, ret, cmd, foldVars, batch, model, taskVars,
                 boxVars, errVars, turnVars, seqVars>>

reconcile == \/ ReconcileSkipped \/ SubscribeThrows \/ Reconciled
             \/ \E h \in HostSources : SourceThrows(h)
-----------------------------------------------------------------------------
(* The fold: fold_pending() and fold_one(). *)

TakeBatch ==
  /\ loc = "fold" /\ pending # <<>> /\ exit = NoExit /\ n < FoldBudget
  /\ batch' = pending /\ pending' = <<>>
  /\ loc' = "batch"
  /\ UNCHANGED <<entry, ret, cmd, exit, foldVars, progVars, runVars, taskVars, liveVars,
                 boxVars, errVars, turnVars, seqVars>>

FoldDone ==
  /\ loc = "fold" /\ (pending = <<>> \/ exit # NoExit \/ n >= FoldBudget)
  /\ loc' = "end"
  /\ UNCHANGED <<entry, ret, cmd, exit, foldVars, queueVars, progVars, runVars, taskVars,
                 liveVars, boxVars, errVars, turnVars, seqVars>>

\* Variant: a message of a subscription is folded before re-subscribing.
MessageReady_NotResubscribed ==
  MessageNext /\ (Head(batch).from # 0 => Head(batch).from \in liveOrigins)

MessageReady ==
  MessageNext /\ (Head(batch).from # 0 => ~subsDirty /\ Head(batch).from \in liveOrigins)

DropStale ==
  /\ MessageNext /\ Head(batch).from # 0 /\ ~subsDirty
  /\ Head(batch).from \notin liveOrigins
  /\ batch' = Tail(batch)
  /\ lastFolded' = Head(batch).id
  /\ UNCHANGED <<loc, entry, ret, cmd, exit, foldVars, pending, progVars, runVars, taskVars,
                 liveVars, boxVars, errVars, turnVars, made>>

\* update() returns the model m and the command c.  Only a Batch looks at
\* exit_ before its first effect.
FoldOk(m, c) ==
  /\ MessageReady
  /\ HasRoom(Sends(c))
  /\ issued + Opens(c) + Cardinality((Subscribe[m] \ sources) \cap Origined) <= MaxOrigins
  /\ n' = n + 1 /\ changed' = TRUE /\ unseen' = TRUE
  /\ batch' = Tail(batch) /\ lastFolded' = Head(batch).id
  /\ model' = m /\ subsDirty' = TRUE
  /\ cmd' = IF exit # NoExit /\ Len(c) > 1 THEN <<>> ELSE c
  /\ loc' = "interpret" /\ ret' = "batch"
  /\ UNCHANGED <<entry, exit, pending, subsKey, distrusted, runVars, taskVars, liveVars,
                 boxVars, errVars, changedSinceTurn, made>>

\* update() throws.  Under `skip` the model is put back; under `stop` it stays
\* as update left it, here any model.
FoldThrows(m) ==
  /\ MessageReady
  /\ m = model \/ OnFault = "stop"
  /\ n' = n + 1
  /\ batch' = Tail(batch) /\ lastFolded' = Head(batch).id
  /\ model' = m
  /\ fault_raised(OnFault = "skip")
  /\ loc' = IF exit' # NoExit THEN "batchEnd" ELSE "batch"
  /\ UNCHANGED <<entry, ret, cmd, changed, subsDirty, subsKey, distrusted, runVars, taskVars,
                 liveVars, boxVars, errVars, turnVars, made>>

\* Variant: the unfolded tail goes behind what the effects queued.
PutBack_Behind(tail) ==
  pending' = pending \o tail

\* Variant: the unfolded tail is forgotten.
PutBack_Forgotten(tail) ==
  UNCHANGED pending

PutBack(tail) ==
  pending' = tail \o pending

\* The batch is over: every message seen, the budget spent, or exit_ set by
\* the message just folded.
BatchOver ==
  /\ loc = "batchEnd" \/ (loc = "batch" /\ (batch = <<>> \/ n >= FoldBudget))
  /\ IF exit # NoExit
     THEN pending' = <<>> /\ loc' = "end"
     ELSE PutBack(batch) /\ loc' = "fold"
  /\ batch' = <<>>
  /\ UNCHANGED <<entry, ret, cmd, exit, foldVars, progVars, runVars, taskVars, liveVars,
                 boxVars, errVars, turnVars, seqVars>>

fold_pending ==
  \/ TakeBatch \/ FoldDone \/ DropStale \/ BatchOver
  \/ \E m \in Models : FoldThrows(m) \/ \E c \in Cmds : FoldOk(m, c)
-----------------------------------------------------------------------------
(* What the driver and the host call between turns. *)

Enter(call) ==
  /\ entry' = call
  /\ n' = 0 /\ changed' = FALSE

\* route(): P::on answers with a message or with none, or throws.
Routed ==
  /\ loc = "out" /\ exit = NoExit
  /\ Enter("route") /\ loc' = "fold"
  /\ UNCHANGED <<ret, cmd, batch, progVars, runVars, taskVars, liveVars,
                 boxVars, errVars, turnVars, lastFolded>>

route ==
  /\ Routed
  /\ \/ HasRoom(1) /\ Enqueue(0) /\ UNCHANGED exit
     \/ UNCHANGED <<pending, made, exit>>
     \/ fault_raised(TRUE) /\ UNCHANGED made

dispatch ==
  /\ loc = "out" /\ HasRoom(1)
  /\ Enqueue(0)
  /\ UNCHANGED <<loc, entry, ret, cmd, exit, foldVars, batch, progVars, runVars, taskVars,
                 liveVars, boxVars, errVars, turnVars, lastFolded>>

\* stop(code) from the driver, and view_faulted from a host's draw.
stop ==
  /\ loc = "out" /\ exit = NoExit
  /\ exit' = "stopped" /\ pending' = <<>>
  /\ UNCHANGED <<loc, entry, ret, cmd, foldVars, batch, progVars, runVars, taskVars,
                 liveVars, boxVars, errVars, turnVars, seqVars>>

view_faulted ==
  /\ loc = "out"
  /\ fault_raised(TRUE)
  /\ UNCHANGED <<loc, entry, ret, cmd, foldVars, batch, progVars, runVars, taskVars,
                 liveVars, boxVars, errVars, turnVars, seqVars>>

\* step() with nothing to do: it only reports what a route() changed.
StepIdle ==
  /\ loc = "out" /\ exit = NoExit
  /\ pending = <<>> /\ box = <<>> /\ ~flag /\ ~subsDirty
  /\ changedSinceTurn' = FALSE
  /\ unseen' = (unseen /\ ~changedSinceTurn)
  /\ UNCHANGED <<loc, entry, ret, cmd, exit, foldVars, queueVars, progVars, runVars, taskVars,
                 liveVars, boxVars, errVars, seqVars>>

Numbered(froms) == [i \in DOMAIN froms |-> Msg(froms[i], made + i)]

\* step() with work, or with a trace hook: the mailbox first.  drain_tagged
\* leaves out what retired origins sent.
StepDrain ==
  LET kept == Keeping(box, {0} \cup boxLive) IN
  /\ loc = "out" /\ exit = NoExit
  /\ Enter("step") /\ loc' = "faults"
  /\ pending' = pending \o Numbered(kept)
  /\ made' = made + Len(kept)
  /\ box' = <<>>
  /\ UNCHANGED <<ret, cmd, exit, batch, progVars, runVars, taskVars, liveVars,
                 boxOpen, errVars, turnVars, lastFolded>>

\* drain_task_faults: read the flag, clear it, then take the errors.
ReadFlag ==
  /\ loc = "faults"
  /\ flag' = FALSE
  /\ loc' = IF flag THEN "swap" ELSE "timers"
  /\ UNCHANGED <<entry, ret, cmd, exit, foldVars, queueVars, progVars, runVars, taskVars,
                 liveVars, boxVars, errs, raising, raised, turnVars, seqVars>>

\* Variant: one error is taken for each time the flag was set.
TakeErrors_OneOnly ==
  /\ loc = "swap"
  /\ errs' = IF errs > 0 THEN errs - 1 ELSE 0
  /\ IF errs > 0 THEN fault_raised(TRUE) ELSE UNCHANGED <<exit, pending>>
  /\ loc' = IF exit' # NoExit THEN "out" ELSE "timers"
  /\ UNCHANGED <<entry, ret, cmd, foldVars, batch, progVars, runVars, taskVars,
                 liveVars, boxVars, flag, raising, raised, turnVars, seqVars>>

TakeErrors ==
  /\ loc = "swap"
  /\ errs' = 0
  /\ IF errs > 0 THEN fault_raised(TRUE) ELSE UNCHANGED <<exit, pending>>
  /\ loc' = IF exit' # NoExit THEN "out" ELSE "timers"
  /\ UNCHANGED <<entry, ret, cmd, foldVars, batch, progVars, runVars, taskVars,
                 liveVars, boxVars, flag, raising, raised, turnVars, seqVars>>

\* timers_.collect_due: any armed timers are due, in any order.  An every
\* fires at most once and stays armed.
EveryDue  == {s \in Timers : srcOrigin[s] # 0}
KeyedDue  == {k \in TaskKeys : taskKind[k] = "armed"}

collect_due(every, keyed, plain) ==
  \E froms \in Orders({<<"every", s>> : s \in every} \cup {<<"key", k>> : k \in keyed}
                        \cup {<<"plain", i>> : i \in 1..plain}) :
    LET fromOf(t) == IF t[1] = "every" THEN srcOrigin[t[2]]
                     ELSE IF t[1] = "key" THEN taskOrigin[t[2]] ELSE 0
    IN /\ pending' = pending \o Numbered([i \in DOMAIN froms |-> fromOf(froms[i])])
       /\ made' = made + Len(froms)

StepTimers ==
  /\ loc = "timers"
  /\ \E every \in SUBSET EveryDue, keyed \in SUBSET KeyedDue, plain \in 0..plainTimers :
       /\ HasRoom(Cardinality(every))
       /\ collect_due(every, keyed, plain)
       /\ taskKind' = [k \in TaskKeys |-> IF k \in keyed THEN "fired" ELSE taskKind[k]]
       /\ plainTimers' = plainTimers - plain
  /\ loc' = "fold"
  /\ UNCHANGED <<entry, ret, cmd, exit, foldVars, batch, progVars, runVars, taskOrigin,
                 liveVars, boxVars, errVars, turnVars, lastFolded>>

\* Variant: route() leaves nothing for the next turn to report.
Return_RouteForgets ==
  /\ loc = "end" /\ ~subsDirty
  /\ loc' = "out"
  /\ changedSinceTurn' = IF entry = "step" THEN changed /\ changedSinceTurn ELSE changedSinceTurn
  /\ unseen' = IF entry = "step" THEN unseen /\ ~(changed \/ changedSinceTurn)
               ELSE unseen /\ entry = "route"
  /\ UNCHANGED <<entry, ret, cmd, exit, foldVars, queueVars, progVars, runVars, taskVars,
                 liveVars, boxVars, errVars, seqVars>>

\* The call returns.  A step reports `changed || exchange(changed_since_turn_)`:
\* when the first holds the flag is left as it is.  After start() the driver
\* draws a first frame whatever the turn says.
Return ==
  /\ loc = "end" /\ ~subsDirty
  /\ loc' = "out"
  /\ changedSinceTurn' = CASE entry = "start" -> changedSinceTurn
                           [] entry = "route" -> changed \/ changedSinceTurn
                           [] entry = "step"  -> changed /\ changedSinceTurn
  /\ unseen' = CASE entry = "start" -> FALSE
                 [] entry = "route" -> unseen
                 [] entry = "step"  -> unseen /\ ~(changed \/ changedSinceTurn)
  /\ UNCHANGED <<entry, ret, cmd, exit, foldVars, queueVars, progVars, runVars, taskVars,
                 liveVars, boxVars, errVars, seqVars>>

shutdown ==
  /\ loc = "out"
  /\ loc' = "down"
  /\ srcOrigin' = [s \in Origined |-> 0]
  /\ taskOrigin' = [k \in TaskKeys |-> 0] /\ taskKind' = [k \in TaskKeys |-> "none"]
  /\ plainTimers' = 0
  /\ liveOrigins' = {} /\ boxLive' = {} /\ boxOpen' = FALSE /\ box' = <<>>
  /\ UNCHANGED <<entry, ret, cmd, exit, foldVars, queueVars, progVars, sources, hostUp, issued,
                 errVars, turnVars, seqVars>>

driver == \/ route \/ dispatch \/ stop \/ view_faulted \/ StepIdle \/ StepDrain
          \/ ReadFlag \/ TakeErrors \/ StepTimers \/ Return \/ shutdown
-----------------------------------------------------------------------------
(* The other threads. *)

\* Origins that have a sink: streams and keyed tasks.  0 is every plain sink.
Senders == {0} \cup ({srcOrigin[s] : s \in Streams}
                     \cup {taskOrigin[k] : k \in {x \in TaskKeys : taskKind[x] = "task"}})

Post(o) ==
  /\ boxOpen /\ HasRoom(1)
  /\ box' = Append(box, o)
  /\ UNCHANGED <<loc, entry, ret, cmd, exit, foldVars, queueVars, progVars, runVars, taskVars,
                 liveVars, boxOpen, errVars, turnVars, seqVars>>

\* on_error, on the thread whose job threw: the error, then the flag.
RaiseError ==
  /\ raised < app.errors
  /\ raised' = raised + 1
  /\ errs' = errs + 1 /\ raising' = raising + 1
  /\ UNCHANGED <<loc, entry, ret, cmd, exit, foldVars, queueVars, progVars, runVars, taskVars,
                 liveVars, boxVars, flag, turnVars, seqVars>>

\* Variant: the flag is only set for the first error in the box.
RaiseFlag_FirstOnly ==
  /\ raising > 0
  /\ raising' = raising - 1
  /\ flag' = (flag \/ errs = 1)
  /\ UNCHANGED <<loc, entry, ret, cmd, exit, foldVars, queueVars, progVars, runVars, taskVars,
                 liveVars, boxVars, errs, raised, turnVars, seqVars>>

RaiseFlag ==
  /\ raising > 0
  /\ raising' = raising - 1
  /\ flag' = TRUE
  /\ UNCHANGED <<loc, entry, ret, cmd, exit, foldVars, queueVars, progVars, runVars, taskVars,
                 liveVars, boxVars, errs, raised, turnVars, seqVars>>

Loop == interpret \/ reconcile \/ fold_pending \/ driver
Next ==
  /\ Loop \/ (\E o \in Senders : Post(o)) \/ RaiseError \/ RaiseFlag
  /\ UNCHANGED app

Spec == Init /\ [][Next]_vars

\* The loop thread goes on with the call it is in, and a thread that has
\* queued an error goes on to set the flag.  The driver routes a bounded number
\* of events between two steps (run.hpp's loop), so a step with work to do is
\* not put off for ever.
Inside == loc \notin {"out", "down"}
Work   == pending # <<>> \/ box # <<>> \/ flag \/ subsDirty
Fairness ==
  /\ WF_vars(Inside /\ Loop /\ UNCHANGED app)
  /\ SF_vars(Work /\ StepDrain /\ UNCHANGED app)
  /\ WF_vars(RaiseFlag /\ UNCHANGED app)
FairSpec == Spec /\ Fairness
-----------------------------------------------------------------------------
(* Properties *)

\* The origins a running source or keyed run holds.
Owned == ({srcOrigin[s] : s \in Origined} \cup {taskOrigin[k] : k \in TaskKeys}) \ {0}

MsgType(q) == q \in Seq([from : 0..MaxOrigins, id : 1..MaxMsgs])

\* The variables hold what the kernel's fields can hold, inside the bounds.
TypeOK ==
  /\ app \in Programs
  /\ loc \in {"interpret", "fold", "batch", "batchEnd", "end", "out", "down",
              "faults", "swap", "timers"}
  /\ entry \in {"start", "route", "step"} /\ ret \in {"fold", "batch"}
  /\ n \in 0..FoldBudget /\ changed \in BOOLEAN /\ cmd \in Seq(Effects)
  /\ MsgType(pending) /\ MsgType(batch)
  /\ model \in Models /\ exit \in {NoExit, "quit", "fault", "stopped"}
  /\ subsDirty \in BOOLEAN /\ distrusted \in BOOLEAN
  /\ subsKey \in {SubsKeyOf[m] : m \in Models} \cup {NoKey}
  /\ sources \subseteq Sources /\ hostUp \subseteq HostSources
  /\ srcOrigin \in [Origined -> 0..MaxOrigins]
  /\ taskOrigin \in [TaskKeys -> 0..MaxOrigins]
  /\ taskKind \in [TaskKeys -> {"none", "task", "armed", "fired"}]
  /\ plainTimers \in 0..MaxMsgs
  /\ liveOrigins \subseteq 1..MaxOrigins /\ boxLive \subseteq 1..MaxOrigins
  /\ changedSinceTurn \in BOOLEAN /\ unseen \in BOOLEAN
  /\ box \in Seq(0..MaxOrigins) /\ boxOpen \in BOOLEAN /\ issued \in 0..MaxOrigins
  /\ errs \in 0..app.errors /\ raising \in 0..app.errors /\ raised \in 0..app.errors
  /\ flag \in BOOLEAN
  /\ made \in 0..MaxMsgs /\ lastFolded \in 0..MaxMsgs

\* No message is lost, duplicated or overtaken on its way through pending_,
\* the batch, the fold budget's put-back and the effects' sends: until the
\* program quits, what waits is exactly what was queued since the last message
\* folded or dropped, in that order (fold_pending, 598-656).
InOrder ==
  exit = NoExit =>
    LET q == batch \o pending IN
    /\ Len(q) = made - lastFolded
    /\ \A i \in DOMAIN q : q[i].id = lastFolded + i

\* The subscription or the keyed run a message came from is one the program
\* wants now: a source subscribe() asks for on this model (the last good set,
\* if subscribe() throws on it) or the current run of its key.
Wanted(o) ==
  \/ \E s \in Origined : /\ s \in (IF model \in BadModels THEN sources ELSE Subscribe[model])
                         /\ srcOrigin[s] = o
  \/ \E k \in TaskKeys : taskOrigin[k] = o

\* update() never sees a message of a subscription the model it is about to
\* change no longer has, or of a keyed run that was replaced or cancelled,
\* wherever the message waited: mailbox, timer heap, pending_ or the batch
\* (fold_pending, 616-630).
NoStaleFold ==
  [][n' > n /\ Head(batch).from # 0 => Wanted(Head(batch).from)]_vars

\* The two places a message's origin is checked, live_origins_ at the fold and
\* the mailbox's live_ at the drain, agree with each other and with the
\* sources and keyed runs the kernel holds.
OriginsAgree ==
  liveOrigins = boxLive /\ liveOrigins = Owned

\* Outside a change, what runs is what subscribe() asks for: no source of an
\* old model goes on and none is forgotten, also after subscribe() threw on
\* another model and with subs_key skipping calls (reconcile, 938-1012).  And
\* the origins agree with what runs at every step.
SubscriptionsMatch ==
  /\ OriginsAgree
  /\ (~subsDirty /\ loc # "down" /\ exit = NoExit /\ model \notin BadModels) =>
       hostUp \cup {s \in Origined : srcOrigin[s] # 0} = Subscribe[model]

\* An error a task raised is never forgotten: while it waits, the flag is set,
\* or about to be, or the loop is on its way to take it (drain_task_faults,
\* 753-765).
TaskErrorKept ==
  errs > 0 => flag \/ raising > 0 \/ loc = "swap"

\* Between turns, a change of the model no turn has reported is one the next
\* turn will report, so the host redraws (route, 340-346; step, 404-408, 444).
FrameOwed ==
  (loc = "out" /\ unseen /\ exit = NoExit) => changedSinceTurn

\* What is to be told is told: neither the error of a task nor a change of the
\* model gets lost between the threads and the turns that pass it on.
NothingForgotten == TaskErrorKept /\ FrameOwed

\* Once the program quits nothing more is folded and no effect is run, and the
\* exit code stays (kernel.hpp 16: "quit stops the rest of the batch: later
\* Msgs' effects never run"; stop, 354-361: a quit keeps its own exit code).
QuitStopsBatch ==
  [][exit # NoExit =>
       /\ exit' = exit /\ model' = model /\ n' = n
       /\ plainTimers' <= plainTimers
       /\ \A k \in TaskKeys : taskOrigin'[k] \in {0, taskOrigin[k]}]_vars

\* update() sees what it should: no message of a source or run that is gone,
\* and none after a quit.
FoldsWhatCounts == NoStaleFold /\ QuitStopsBatch

\* A task's error is eventually taken from the box (and reported), unless the
\* program quits first.
TaskErrorReported ==
  errs > 0 ~> (errs = 0 \/ exit # NoExit \/ loc = "down")

\* Whatever is queued is eventually folded or dropped, the budget's tails
\* included, unless the program quits first.
QueueServed ==
  \A i \in 1..MaxMsgs :
    made >= i ~> (lastFolded >= i \/ exit # NoExit \/ loc = "down")
=============================================================================
