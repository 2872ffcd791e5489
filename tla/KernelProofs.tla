---------------------------- MODULE KernelProofs ----------------------------
(***************************************************************************)
(* What holds of the Elm loop for every program, any number of sources,    *)
(* keys, messages and origins, any fold budget and either fault policy:    *)
(* types, the order of the messages, and what a step may not forget.       *)
(* KernelSubsProofs goes on with origins and subscriptions.                *)
(***************************************************************************)
EXTENDS Kernel, EraseIfProofs, FiniteSetTheorems, FunctionTheorems, TLAPS

Messages == [from : Nat, id : Nat]

\* The types the proofs need, without the bounds TLC's runs add.
Typed ==
  /\ app \in Programs /\ model \in Models
  /\ n \in Nat /\ made \in Nat /\ lastFolded \in Nat
  /\ pending \in Seq(Messages) /\ batch \in Seq(Messages)
  /\ box \in Seq(Nat) /\ cmd \in Seq(Effects)
  /\ srcOrigin \in [Origined -> Nat] /\ taskOrigin \in [TaskKeys -> Nat]
  /\ issued \in Nat /\ plainTimers \in Nat
  /\ errs \in Nat /\ raising \in Nat
-----------------------------------------------------------------------------
(* Sets as sequences *)

\* There are N indexes from 1 to N.
LEMMA IntervalSize ==
  ASSUME NEW N \in Nat
  PROVE  IsFiniteSet(1..N) /\ Cardinality(1..N) = N
<1>1. 1 \in Int /\ N \in Int
  OBVIOUS
<1>2. Cardinality(1..N) = (IF 1 > N THEN 0 ELSE N - 1 + 1) /\ IsFiniteSet(1..N)
  BY <1>1, FS_Interval, Zenon
<1> QED
  BY <1>2

\* A finite set can be walked in order: what the reconciler does with the
\* sources to start.
LEMMA SequenceOf ==
  ASSUME NEW S, IsFiniteSet(S)
  PROVE  LET f == CHOOSE o \in Orders(S) : TRUE
         IN  /\ f \in [1..Cardinality(S) -> S] /\ Cardinality(S) \in Nat
             /\ \A i, j \in 1..Cardinality(S) : f[i] = f[j] => i = j
             /\ \A s \in S : \E i \in 1..Cardinality(S) : f[i] = s
             /\ f \in Seq(S) /\ Len(f) = Cardinality(S)
<1> DEFINE N == Cardinality(S)
           f == CHOOSE o \in Orders(S) : TRUE
<1>1. N \in Nat /\ ExistsBijection(1..N, S)
  BY FS_CardinalityType
<1>2. PICK b : b \in Bijection(1..N, S)
  BY <1>1, Fun_ExistsBij, Zenon
<1>3. b \in [1..N -> S] /\ \A i, j \in 1..N : b[i] = b[j] => i = j
  BY <1>2, Fun_BijectionProperties, Zenon
<1>4. f \in Orders(S)
  <2>1. b \in Orders(S)
    BY <1>3 DEF Orders
  <2> QED
    BY <2>1, Zenon
<1>5. f \in [1..N -> S] /\ \A i, j \in 1..N : f[i] = f[j] => i = j
  BY <1>4, Zenon DEF Orders
<1> HIDE DEF f
<1>6. f \in Injection(1..N, S)
  BY <1>5, Fun_IsInj, Zenon
<1>7. Cardinality(1..N) = N /\ IsFiniteSet(1..N)
  BY <1>1, IntervalSize, Zenon
<1>8. f \in Surjection(1..N, S)
  BY <1>6, <1>7, FS_Injection, Zenon
<1>9. \A s \in S : \E i \in 1..N : f[i] = s
  BY <1>8, Zenon DEF Surjection
<1>10. f \in Seq(S) /\ Len(f) = N
  BY <1>1, <1>5
<1> QED
  BY <1>1, <1>5, <1>9, <1>10 DEF f

\* The due timers are finitely many, so collect_due queues a sequence of them.
LEMMA DueSequence ==
  ASSUME NEW every \in SUBSET Timers, NEW keyed \in SUBSET TaskKeys, NEW plain \in Nat,
         NEW froms \in Orders({<<"every", s>> : s \in every} \cup {<<"key", k>> : k \in keyed}
                                   \cup {<<"plain", i>> : i \in 1..plain})
  PROVE  \E N \in Nat : froms \in [1..N -> {<<"every", s>> : s \in every}
                                            \cup {<<"key", k>> : k \in keyed}
                                            \cup {<<"plain", i>> : i \in 1..plain}]
<1> DEFINE A == {<<"every", s>> : s \in every}
           B == {<<"key", k>> : k \in keyed}
           C == {<<"plain", i>> : i \in 1..plain}
<1>1. IsFiniteSet(A)
  <2>1. IsFiniteSet(every)
    <3>1. every \in SUBSET Sources
      BY DEF Sources, Origined
    <3> QED
      BY <3>1, KernelAssumption, FS_Subset
  <2>2. [s \in every |-> <<"every", s>>] \in Surjection(every, A)
    BY Fun_IsSurj
  <2> HIDE DEF A
  <2> QED
    BY <2>1, <2>2, FS_Surjection
<1>2. IsFiniteSet(B)
  <2>1. IsFiniteSet(keyed)
    BY KernelAssumption, FS_Subset
  <2>2. [k \in keyed |-> <<"key", k>>] \in Surjection(keyed, B)
    BY Fun_IsSurj
  <2> HIDE DEF B
  <2> QED
    BY <2>1, <2>2, FS_Surjection
<1>3. IsFiniteSet(C)
  <2>1. IsFiniteSet(1..plain)
    BY FS_Interval
  <2>2. [i \in 1..plain |-> <<"plain", i>>] \in Surjection(1..plain, C)
    BY Fun_IsSurj, Zenon
  <2> HIDE DEF C
  <2> QED
    BY <2>1, <2>2, FS_Surjection
<1> HIDE DEF A, B, C
<1>4. IsFiniteSet(A \cup B \cup C)
  BY <1>1, <1>2, <1>3, FS_Union, Zenon
<1>5. Cardinality(A \cup B \cup C) \in Nat
  BY <1>4, FS_CardinalityType
<1>6. froms \in [1..Cardinality(A \cup B \cup C) -> A \cup B \cup C]
  BY DEF Orders, A, B, C
<1> QED
  BY <1>5, <1>6, Zenon DEF A, B, C
-----------------------------------------------------------------------------
(* Types *)

\* The messages a drain or the timers number are messages in sequence.
LEMMA NumberedType ==
  ASSUME made \in Nat, NEW froms \in Seq(Nat)
  PROVE  /\ Numbered(froms) \in Seq(Messages) /\ Len(Numbered(froms)) = Len(froms)
         /\ \A i \in 1..Len(froms) : Numbered(froms)[i].id = made + i
<1>1. DOMAIN froms = 1..Len(froms) /\ Len(froms) \in Nat
  OBVIOUS
<1>2. \A i \in 1..Len(froms) : Msg(froms[i], made + i) \in Messages
                                /\ Msg(froms[i], made + i).id = made + i
  BY DEF Msg, Messages
<1>3. Numbered(froms) = [i \in 1..Len(froms) |-> Msg(froms[i], made + i)]
  BY <1>1 DEF Numbered
<1> QED
  BY <1>1, <1>2, <1>3

\* The timers that are due queue their messages behind what is pending.
LEMMA DueQueued ==
  ASSUME Typed, NEW every \in SUBSET EveryDue, NEW keyed \in SUBSET KeyedDue,
         NEW plain \in 0..plainTimers, collect_due(every, keyed, plain)
  PROVE  \E froms \in Seq(Nat) : pending' = pending \o Numbered(froms)
                                  /\ made' = made + Len(froms)
<1> DEFINE S == {<<"every", s>> : s \in every} \cup {<<"key", k>> : k \in keyed}
                   \cup {<<"plain", i>> : i \in 1..plain}
           fromOf(t) == IF t[1] = "every" THEN srcOrigin[t[2]]
                        ELSE IF t[1] = "key" THEN taskOrigin[t[2]] ELSE 0
<1>1. PICK froms \in Orders(S) :
        /\ pending' = pending \o Numbered([i \in DOMAIN froms |-> fromOf(froms[i])])
        /\ made' = made + Len(froms)
  BY Zenon DEF collect_due
<1>2. every \in SUBSET Timers /\ keyed \in SUBSET TaskKeys /\ plain \in Nat
  BY DEF EveryDue, KeyedDue, Typed
<1>3. PICK N \in Nat : froms \in [1..N -> S]
  BY <1>2, DueSequence, Zenon
<1>4. \A t \in S : fromOf(t) \in Nat
  <2> TAKE t \in S
  <2>1. CASE t \in {<<"every", s>> : s \in every}
    BY <1>2, <2>1 DEF Typed, Origined
  <2>2. CASE t \in {<<"key", k>> : k \in keyed}
    BY <1>2, <2>2 DEF Typed
  <2>3. CASE t \in {<<"plain", i>> : i \in 1..plain}
    BY <2>3
  <2> QED
    BY <2>1, <2>2, <2>3
<1> HIDE DEF S, fromOf
<1> DEFINE g == [i \in DOMAIN froms |-> fromOf(froms[i])]
<1>5. g \in Seq(Nat) /\ Len(g) = N /\ Len(froms) = N
  BY <1>3, <1>4
<1> QED
  BY <1>1, <1>5, Zenon
-----------------------------------------------------------------------------
(* What a step may do to each part of the state *)

\* A message of the batch is folded or dropped.
Consumes ==
  /\ MessageNext /\ batch' = Tail(batch) /\ lastFolded' = Head(batch).id /\ made' = made
  /\ pending' = pending \/ (exit' # NoExit /\ pending' = <<>>)

\* Messages are queued behind the others, numbered on.
Queues(froms) ==
  /\ pending' = pending \o Numbered(froms) /\ made' = made + Len(froms)
  /\ UNCHANGED <<batch, lastFolded>>

Forgets == exit' # NoExit /\ pending' = <<>> /\ UNCHANGED <<batch, seqVars>>

\* Every way a step of the kernel may move messages (fold_pending, interpret,
\* route, dispatch and step).
LEMMA QueueKinds ==
  ASSUME Typed, Next
  PROVE  \/ UNCHANGED <<queueVars, seqVars>> \/ Forgets
         \/ \E froms \in Seq(Nat) : Queues(froms)
         \/ TakeBatch \/ BatchOver \/ Consumes
<1> USE DEF queueVars, seqVars, boxVars, errVars
<1>0. ASSUME Enqueue(0), UNCHANGED <<batch, lastFolded>>
      PROVE  \E froms \in Seq(Nat) : Queues(froms)
  <2>1. <<0>> \in Seq(Nat) /\ Len(<<0>>) = 1
    OBVIOUS
  <2>2. Numbered(<<0>>) = <<Msg(0, made + 1)>>
    BY <2>1 DEF Numbered
  <2>3. Msg(0, made + 1) \in Messages
    BY DEF Typed, Msg, Messages
  <2>4. pending' = pending \o <<Msg(0, made + 1)>> /\ made' = made + 1
    BY <1>0, <2>3 DEF Enqueue, Typed
  <2>5. Queues(<<0>>)
    BY <1>0, <2>1, <2>2, <2>4, Zenon DEF Queues
  <2> QED
    BY <2>1, <2>5, Zenon
<1>1. ASSUME NEW kept, fault_raised(kept), UNCHANGED <<batch, seqVars>>
      PROVE  UNCHANGED <<queueVars, seqVars>> \/ Forgets
  BY <1>1 DEF fault_raised, Forgets, NoExit
<1>2. CASE interpret
  <2>1. CASE fxSend
    BY <1>0, <2>1 DEF fxSend
  <2>2. CASE fxThrow
    BY <1>1, <2>2, Zenon DEF fxThrow
  <2>3. CASE ~fxSend /\ ~fxThrow
    BY <1>2, <2>3, Zenon DEF interpret, fxQuit, fxAfterUnkeyed, fxAfterKeyed, start_keyed_task,
       fxCancel, Interpreted
  <2> QED
    BY <2>1, <2>2, <2>3
<1>3. CASE reconcile
  BY <1>1, <1>3, Zenon DEF reconcile, ReconcileSkipped, SubscribeThrows, Reconciled, SourceThrows
<1>4. CASE fold_pending
  <2>1. CASE FoldDone \/ TakeBatch \/ BatchOver
    BY <2>1 DEF FoldDone
  <2>2. CASE DropStale
    BY <2>2 DEF DropStale, Consumes
  <2>3. ASSUME NEW m, FoldThrows(m) PROVE Consumes
    BY <2>3 DEF FoldThrows, fault_raised, MessageReady, Consumes, NoExit
  <2>4. ASSUME NEW m, NEW c, FoldOk(m, c) PROVE Consumes
    BY <2>4 DEF FoldOk, MessageReady, Consumes
  <2> QED
    BY <1>4, <2>1, <2>2, <2>3, <2>4 DEF fold_pending
<1>5. CASE driver
  <2>1. CASE route
    <3>1. CASE Enqueue(0)
      BY <1>0, <2>1, <3>1 DEF route, Routed
    <3>2. CASE UNCHANGED <<pending, made, exit>>
      BY <2>1, <3>2 DEF route, Routed
    <3>3. CASE fault_raised(TRUE) /\ UNCHANGED made
      BY <1>1, <2>1, <3>3, Zenon DEF route, Routed
    <3> QED
      BY <2>1, <3>1, <3>2, <3>3, Zenon DEF route
  <2>2. CASE dispatch
    BY <1>0, <2>2 DEF dispatch
  <2>3. CASE stop
    BY <2>3 DEF stop, Forgets, NoExit
  <2>4. CASE view_faulted
    BY <1>1, <2>4, Zenon DEF view_faulted
  <2>5. CASE StepDrain
    <3>1. Keeping(box, {0} \cup boxLive) \in Seq(Nat)
      <4>1. Keeping(box, {0} \cup boxLive) \in Seq(Nat \cap ({0} \cup boxLive))
        BY KeepingHolds, Zenon DEF Typed
      <4> QED
        BY <4>1
    <3> QED
      BY <2>5, <3>1, Zenon DEF StepDrain, Queues
  <2>6. CASE TakeErrors
    BY <1>1, <2>6, Zenon DEF TakeErrors
  <2>7. CASE StepTimers
    <3>1. PICK every \in SUBSET EveryDue, keyed \in SUBSET KeyedDue, plain \in 0..plainTimers :
            collect_due(every, keyed, plain)
      BY <2>7, Zenon DEF StepTimers
    <3>2. PICK froms \in Seq(Nat) : pending' = pending \o Numbered(froms)
                                     /\ made' = made + Len(froms)
      BY <3>1, DueQueued, Zenon
    <3> QED
      BY <2>7, <3>2, Zenon DEF StepTimers, Queues
  <2>8. CASE StepIdle \/ ReadFlag \/ Return \/ shutdown
    BY <2>8, Zenon DEF StepIdle, ReadFlag, Return, shutdown
  <2> QED
    BY <1>5, <2>1, <2>2, <2>3, <2>4, <2>5, <2>6, <2>7, <2>8 DEF driver
<1>6. CASE (\E o \in Senders : Post(o)) \/ RaiseError \/ RaiseFlag
  BY <1>6 DEF Post, RaiseError, RaiseFlag
<1> QED
  BY <1>2, <1>3, <1>4, <1>5, <1>6 DEF Next, Loop

\* The key of a keyed effect is one of the program's keys.
LEMMA EffectKey ==
  ASSUME Typed, \/ Interpreting("task") \/ Interpreting("cancel")
                \/ Interpreting("after") /\ Key # NoKey
  PROVE  Key \in TaskKeys
<1>1. Head(cmd) \in Effects
  BY DEF Typed, Interpreting
<1> QED
  BY <1>1 DEF Interpreting, Key, Effects, Quit, SendMsg, Throw, PlainAfter, After, Task, Cancel

OriginsKept == UNCHANGED <<runVars, taskOrigin, liveVars>>

StartsRun == \E k \in TaskKeys, kind \in {"armed", "task"} :
               StartKeyed(k, kind) /\ UNCHANGED runVars /\ Inside

StopsRun == \E k \in TaskKeys : stop_keyed_task(k) /\ UNCHANGED <<runVars, issued>> /\ Inside

\* Every way a step may move origins and sources (stop_keyed_task,
\* start_keyed_task, reconcile and shutdown).
LEMMA OriginKinds ==
  ASSUME Typed, Next
  PROVE  \/ OriginsKept \/ StartsRun \/ StopsRun \/ Reconciled
         \/ (\E h \in HostSources : SourceThrows(h)) \/ shutdown
<1> USE DEF OriginsKept, runVars, taskVars, liveVars
<1>1. CASE interpret
  <2>1. CASE fxAfterKeyed
    BY <2>1, EffectKey DEF fxAfterKeyed, StartsRun, Interpreting, Inside
  <2>2. CASE start_keyed_task
    BY <2>2, EffectKey DEF start_keyed_task, StartsRun, Interpreting, Inside
  <2>3. CASE fxCancel
    BY <2>3, EffectKey DEF fxCancel, StopsRun, Interpreting, Inside
  <2>4. CASE fxQuit \/ fxSend \/ fxThrow \/ fxAfterUnkeyed \/ Interpreted
    BY <2>4, Zenon DEF fxQuit, fxSend, fxThrow, fxAfterUnkeyed, Interpreted
  <2> QED
    BY <1>1, <2>1, <2>2, <2>3, <2>4 DEF interpret
<1>2. CASE reconcile
  BY <1>2, Zenon DEF reconcile, ReconcileSkipped, SubscribeThrows
<1>3. CASE fold_pending
  BY <1>3, Zenon DEF fold_pending, FoldDone, TakeBatch, BatchOver, DropStale, FoldThrows, FoldOk
<1>4. CASE driver
  BY <1>4, Zenon DEF driver, route, Routed, dispatch, stop, view_faulted, StepIdle, StepDrain,
     ReadFlag, TakeErrors, StepTimers, Return
<1>5. CASE (\E o \in Senders : Post(o)) \/ RaiseError \/ RaiseFlag
  BY <1>5, Zenon DEF Post, RaiseError, RaiseFlag
<1> QED
  BY <1>1, <1>2, <1>3, <1>4, <1>5 DEF Next, Loop
-----------------------------------------------------------------------------
(* Types are kept *)

\* The numbers Apply gives to the sources it starts: each the number of its
\* place among them, counted on from the last origin issued.
LEMMA OpenedNumbers ==
  ASSUME issued \in Nat, NEW fresh \in SUBSET Sources
  PROVE  LET opening == CHOOSE o \in Orders(fresh \cap Origined) : TRUE
             number(s) == CHOOSE i \in DOMAIN opening : opening[i] = s
         IN  /\ Len(opening) \in Nat
             /\ \A s \in fresh \cap Origined :
                  number(s) \in 1..Len(opening) /\ opening[number(s)] = s
             /\ \A i \in 1..Len(opening) :
                  opening[i] \in fresh \cap Origined /\ number(opening[i]) = i
<1> DEFINE S == fresh \cap Origined
           opening == CHOOSE o \in Orders(S) : TRUE
           number(s) == CHOOSE i \in DOMAIN opening : opening[i] = s
<1>1. IsFiniteSet(S)
  <2>1. S \in SUBSET Sources
    BY DEF Sources
  <2> HIDE DEF S
  <2> QED
    BY <2>1, KernelAssumption, FS_Subset
<1>2. /\ opening \in Seq(S) /\ Len(opening) \in Nat /\ DOMAIN opening = 1..Len(opening)
      /\ \A i, j \in 1..Len(opening) : opening[i] = opening[j] => i = j
      /\ \A s \in S : \E i \in 1..Len(opening) : opening[i] = s
      /\ \A i \in 1..Len(opening) : opening[i] \in S
  <2> HIDE DEF S
  <2>1. /\ opening \in [1..Cardinality(S) -> S] /\ Cardinality(S) \in Nat
        /\ \A i, j \in 1..Cardinality(S) : opening[i] = opening[j] => i = j
        /\ \A s \in S : \E i \in 1..Cardinality(S) : opening[i] = s
        /\ opening \in Seq(S) /\ Len(opening) = Cardinality(S)
    BY <1>1, SequenceOf, Zenon
  <2> HIDE DEF opening
  <2> QED
    BY <2>1
<1> HIDE DEF S, opening
<1>3. \A s \in S : number(s) \in 1..Len(opening) /\ opening[number(s)] = s
  BY <1>2
<1>4. \A i \in 1..Len(opening) : number(opening[i]) = i
  <2> TAKE i \in 1..Len(opening)
  <2>1. opening[i] \in S
    BY <1>2
  <2>2. number(opening[i]) \in 1..Len(opening) /\ opening[number(opening[i])] = opening[i]
    BY <1>3, <2>1
  <2> HIDE DEF number
  <2> QED
    BY <1>2, <2>2
<1> QED
  BY <1>2, <1>3, <1>4, Zenon DEF S, opening

\* Stopping and starting sources keeps the origins naturals.
LEMMA ApplyTyped ==
  ASSUME Typed, NEW out, NEW fresh \in SUBSET Sources, Apply(out, fresh)
  PROVE  srcOrigin' \in [Origined -> Nat] /\ issued' \in Nat
<1> DEFINE opening == CHOOSE o \in Orders(fresh \cap Origined) : TRUE
           number(s) == CHOOSE i \in DOMAIN opening : opening[i] = s
<1>0. issued \in Nat
  BY DEF Typed
<1>1. /\ Len(opening) \in Nat
      /\ \A s \in fresh \cap Origined : number(s) \in 1..Len(opening)
  BY <1>0, OpenedNumbers, Zenon
<1>2. /\ issued' = issued + Len(opening)
      /\ srcOrigin' = [s \in Origined |-> IF s \in fresh THEN issued + number(s)
                                          ELSE IF s \in out THEN 0 ELSE srcOrigin[s]]
  BY Zenon DEF Apply
<1> HIDE DEF opening, number
<1>3. \A s \in Origined : (IF s \in fresh THEN issued + number(s)
                           ELSE IF s \in out THEN 0 ELSE srcOrigin[s]) \in Nat
  BY <1>0, <1>1 DEF Typed
<1> QED
  BY <1>0, <1>1, <1>2, <1>3

\* What the model subscribes to are sources.
LEMMA SubscribeType ==
  ASSUME Typed
  PROVE  Subscribe[model] \subseteq Sources /\ Cmds \subseteq Seq(Effects)
BY KernelAssumption DEF Typed, Subscribe, Models, Cmds

\* The queues stay sequences of messages.
LEMMA QueueTyped ==
  ASSUME Typed, Next
  PROVE  /\ pending' \in Seq(Messages) /\ batch' \in Seq(Messages)
         /\ made' \in Nat /\ lastFolded' \in Nat
<1>0. /\ pending \in Seq(Messages) /\ batch \in Seq(Messages)
      /\ made \in Nat /\ lastFolded \in Nat
  BY DEF Typed
<1>1. CASE UNCHANGED <<queueVars, seqVars>>
  BY <1>0, <1>1 DEF queueVars, seqVars
<1>2. CASE Forgets
  BY <1>0, <1>2 DEF Forgets, seqVars
<1>3. ASSUME NEW froms \in Seq(Nat), Queues(froms)
      PROVE  /\ pending' \in Seq(Messages) /\ batch' \in Seq(Messages)
             /\ made' \in Nat /\ lastFolded' \in Nat
  BY <1>0, <1>3, NumberedType DEF Queues
<1>4. CASE TakeBatch
  BY <1>0, <1>4 DEF TakeBatch, seqVars
<1>5. CASE BatchOver
  <2>1. <<>> \in Seq(Messages) /\ batch \o pending \in Seq(Messages)
    BY <1>0
  <2>2. /\ pending' = <<>> \/ pending' = batch \o pending
        /\ batch' = <<>> /\ made' = made /\ lastFolded' = lastFolded
    BY <1>5, Zenon DEF BatchOver, PutBack, seqVars
  <2> QED
    BY <1>0, <2>1, <2>2, Zenon
<1>6. CASE Consumes
  <2>1. batch # <<>>
    BY <1>6 DEF Consumes, MessageNext
  <2>2. Head(batch) \in Messages /\ Tail(batch) \in Seq(Messages)
    BY <1>0, <2>1
  <2>3. Head(batch).id \in Nat
    BY <2>2 DEF Messages
  <2>4. <<>> \in Seq(Messages)
    OBVIOUS
  <2> QED
    BY <1>0, <1>6, <2>2, <2>3, <2>4, Zenon DEF Consumes
<1> QED
  BY <1>1, <1>2, <1>3, <1>4, <1>5, <1>6, QueueKinds

\* The origins stay naturals.
LEMMA OriginTyped ==
  ASSUME Typed, Next
  PROVE  /\ srcOrigin' \in [Origined -> Nat] /\ taskOrigin' \in [TaskKeys -> Nat]
         /\ issued' \in Nat
<1> USE DEF runVars, taskVars, liveVars
<1>0. /\ srcOrigin \in [Origined -> Nat] /\ taskOrigin \in [TaskKeys -> Nat] /\ issued \in Nat
      /\ Subscribe[model] \subseteq Sources
  BY SubscribeType DEF Typed
<1>1. CASE OriginsKept
  BY <1>0, <1>1 DEF OriginsKept
<1>2. CASE StartsRun
  BY <1>0, <1>2 DEF StartsRun, StartKeyed
<1>3. CASE StopsRun
  BY <1>0, <1>3 DEF StopsRun, stop_keyed_task
<1>4. CASE Reconciled
  <2>1. Starting \in SUBSET Sources /\ Apply(Stopping, Starting) /\ taskOrigin' = taskOrigin
    BY <1>0, <1>4 DEF Reconciled, Starting
  <2> QED
    BY <1>0, <2>1, ApplyTyped
<1>5. ASSUME NEW h \in HostSources, SourceThrows(h)
      PROVE  /\ srcOrigin' \in [Origined -> Nat] /\ taskOrigin' \in [TaskKeys -> Nat]
             /\ issued' \in Nat
  <2>1. taskOrigin' = taskOrigin
    BY <1>5 DEF SourceThrows
  <2>2. ASSUME NEW done, Apply(done, {})
        PROVE  srcOrigin' \in [Origined -> Nat] /\ issued' \in Nat
    BY <2>2, ApplyTyped
  <2>3. ASSUME NEW done \in SUBSET (Starting \ {h}), Apply(Stopping, done)
        PROVE  srcOrigin' \in [Origined -> Nat] /\ issued' \in Nat
    <3>1. done \in SUBSET Sources
      BY <1>0 DEF Starting
    <3> QED
      BY <2>3, <3>1, ApplyTyped
  <2> QED
    BY <1>0, <1>5, <2>1, <2>2, <2>3, Zenon DEF SourceThrows
<1>6. CASE shutdown
  BY <1>0, <1>6 DEF shutdown
<1> QED
  BY <1>1, <1>2, <1>3, <1>4, <1>5, <1>6, OriginKinds

\* The types hold at every step.
LEMMA TypedStep ==
  ASSUME Typed, [Next]_vars
  PROVE  Typed'
<1> USE DEF foldVars, queueVars, progVars, runVars, taskVars, liveVars, boxVars, errVars,
            turnVars, seqVars
<1>1. CASE UNCHANGED vars
  BY <1>1 DEF vars, Typed, Models
<1>2. CASE Next
  <2>1. app' \in Programs /\ Models' = Models
    BY <1>2 DEF Next, Typed, Models
  <2>2. model' \in Models
    <3>1. model' = model \/ model' \in Models
      BY <1>2, ZenonT(60) DEF Next, Loop, interpret, fxQuit, fxSend, fxThrow, fxAfterUnkeyed,
         fxAfterKeyed, start_keyed_task, fxCancel, Interpreted, reconcile, ReconcileSkipped,
         SubscribeThrows, Reconciled, SourceThrows, fold_pending, TakeBatch, FoldDone,
         DropStale, BatchOver, FoldThrows, FoldOk, driver, route, Routed, dispatch, stop,
         view_faulted, StepIdle, StepDrain, ReadFlag, TakeErrors, StepTimers, Return, shutdown,
         Post, RaiseError, RaiseFlag
    <3> QED
      BY <3>1 DEF Typed
  <2>3. n' \in Nat
    <3>1. n' \in {n, 0, n + 1}
      BY <1>2, ZenonT(60) DEF Next, Loop, interpret, fxQuit, fxSend, fxThrow, fxAfterUnkeyed,
         fxAfterKeyed, start_keyed_task, fxCancel, Interpreted, reconcile, ReconcileSkipped,
         SubscribeThrows, Reconciled, SourceThrows, fold_pending, TakeBatch, FoldDone,
         DropStale, BatchOver, FoldThrows, FoldOk, driver, route, Routed, dispatch, stop,
         view_faulted, StepIdle, StepDrain, ReadFlag, TakeErrors, StepTimers, Return, shutdown,
         Post, RaiseError, RaiseFlag, Enter
    <3> QED
      BY <3>1 DEF Typed
  <2>4. box' \in Seq(Nat)
    <3>1. box' \in {box, <<>>} \/ \E o \in Senders : box' = Append(box, o)
      BY <1>2, ZenonT(60) DEF Next, Loop, interpret, fxQuit, fxSend, fxThrow, fxAfterUnkeyed,
         fxAfterKeyed, start_keyed_task, fxCancel, Interpreted, reconcile, ReconcileSkipped,
         SubscribeThrows, Reconciled, SourceThrows, fold_pending, TakeBatch, FoldDone,
         DropStale, BatchOver, FoldThrows, FoldOk, driver, route, Routed, dispatch, stop,
         view_faulted, StepIdle, StepDrain, ReadFlag, TakeErrors, StepTimers, Return, shutdown,
         Post, RaiseError, RaiseFlag
    <3>2. Senders \subseteq Nat
      BY DEF Senders, Typed, Origined
    <3>3. \A o \in Nat : Append(box, o) \in Seq(Nat)
      BY DEF Typed
    <3>4. box \in Seq(Nat) /\ <<>> \in Seq(Nat)
      BY DEF Typed
    <3> QED
      BY <3>1, <3>2, <3>3, <3>4, Zenon
  <2>5. cmd' \in Seq(Effects)
    <3>1. cmd' \in {cmd, <<>>} \/ (cmd # <<>> /\ cmd' = Tail(cmd)) \/ cmd' \in Cmds
      BY <1>2, ZenonT(60) DEF Next, Loop, interpret, fxQuit, fxSend, fxThrow, fxAfterUnkeyed,
         fxAfterKeyed, start_keyed_task, fxCancel, Interpreted, reconcile, ReconcileSkipped,
         SubscribeThrows, Reconciled, SourceThrows, fold_pending, TakeBatch, FoldDone,
         DropStale, BatchOver, FoldThrows, FoldOk, driver, route, Routed, dispatch, stop,
         view_faulted, StepIdle, StepDrain, ReadFlag, TakeErrors, StepTimers, Return, shutdown,
         Post, RaiseError, RaiseFlag, Interpreting
    <3>2. <<>> \in Seq(Effects) /\ cmd \in Seq(Effects) /\ (cmd # <<>> => Tail(cmd) \in Seq(Effects))
      BY DEF Typed
    <3>3. Cmds \subseteq Seq(Effects)
      BY SubscribeType
    <3> QED
      BY <3>1, <3>2, <3>3, Zenon
  <2>6. plainTimers' \in Nat
    <3>1. plainTimers' \in {plainTimers, 0, plainTimers + 1}
            \/ \E plain \in 0..plainTimers : plainTimers' = plainTimers - plain
      BY <1>2, ZenonT(60) DEF Next, Loop, interpret, fxQuit, fxSend, fxThrow, fxAfterUnkeyed,
         fxAfterKeyed, start_keyed_task, fxCancel, Interpreted, reconcile, ReconcileSkipped,
         SubscribeThrows, Reconciled, SourceThrows, fold_pending, TakeBatch, FoldDone,
         DropStale, BatchOver, FoldThrows, FoldOk, driver, route, Routed, dispatch, stop,
         view_faulted, StepIdle, StepDrain, ReadFlag, TakeErrors, StepTimers, Return, shutdown,
         Post, RaiseError, RaiseFlag
    <3> QED
      BY <3>1 DEF Typed
  <2>7. errs' \in Nat /\ raising' \in Nat
    <3>1. /\ errs' \in {errs, 0, errs + 1}
          /\ raising' \in {raising, raising + 1} \/ (raising > 0 /\ raising' = raising - 1)
      BY <1>2, ZenonT(60) DEF Next, Loop, interpret, fxQuit, fxSend, fxThrow, fxAfterUnkeyed,
         fxAfterKeyed, start_keyed_task, fxCancel, Interpreted, reconcile, ReconcileSkipped,
         SubscribeThrows, Reconciled, SourceThrows, fold_pending, TakeBatch, FoldDone,
         DropStale, BatchOver, FoldThrows, FoldOk, driver, route, Routed, dispatch, stop,
         view_faulted, StepIdle, StepDrain, ReadFlag, TakeErrors, StepTimers, Return, shutdown,
         Post, RaiseError, RaiseFlag
    <3> QED
      BY <3>1 DEF Typed
  <2> QED
    BY <1>2, <2>1, <2>2, <2>3, <2>4, <2>5, <2>6, <2>7, QueueTyped, OriginTyped, Zenon DEF Typed
<1> QED
  BY <1>1, <1>2

\* The kernel starts with the types it keeps.
LEMMA TypedInit ==
  ASSUME Init
  PROVE  Typed
BY KernelAssumption DEF Init, Typed, Models, Cmds
-----------------------------------------------------------------------------
(* The order of the messages *)

\* Only while fold_pending works on it does the batch hold messages.
InBatch  == loc \in {"batch", "batchEnd"} \/ (loc = "interpret" /\ ret = "batch")
BatchInv == InBatch \/ batch = <<>>

\* The batch is empty whenever the next one is taken.
LEMMA BatchStep ==
  ASSUME BatchInv, [Next]_vars
  PROVE  BatchInv'
<1> USE DEF foldVars, queueVars, progVars, runVars, taskVars, liveVars, boxVars, errVars,
            turnVars, seqVars, BatchInv, InBatch
<1>1. CASE UNCHANGED vars
  BY <1>1, Zenon DEF vars
<1>2. CASE interpret
  BY <1>2, Zenon DEF interpret, fxQuit, fxSend, fxThrow, fxAfterUnkeyed, fxAfterKeyed,
     start_keyed_task, fxCancel, Interpreted, Interpreting
<1>3. CASE reconcile
  BY <1>3, Zenon DEF reconcile, ReconcileSkipped, SubscribeThrows, Reconciled, SourceThrows
<1>4. CASE fold_pending
  <2>1. CASE TakeBatch
    BY <2>1 DEF TakeBatch
  <2>2. CASE FoldDone
    BY <2>2 DEF FoldDone
  <2>3. CASE DropStale
    BY <2>3 DEF DropStale, MessageNext
  <2>4. CASE BatchOver
    BY <2>4 DEF BatchOver
  <2>5. ASSUME NEW m, FoldThrows(m) PROVE BatchInv'
    BY <2>5 DEF FoldThrows
  <2>6. ASSUME NEW m, NEW c, FoldOk(m, c) PROVE BatchInv'
    BY <2>6 DEF FoldOk
  <2> QED
    BY <1>4, <2>1, <2>2, <2>3, <2>4, <2>5, <2>6 DEF fold_pending
<1>5. CASE driver
  BY <1>5, Zenon DEF driver, route, Routed, dispatch, stop, view_faulted, StepIdle, StepDrain,
     ReadFlag, TakeErrors, StepTimers, Return, shutdown
<1>6. CASE (\E o \in Senders : Post(o)) \/ RaiseError \/ RaiseFlag
  BY <1>6, Zenon DEF Post, RaiseError, RaiseFlag
<1> QED
  BY <1>1, <1>2, <1>3, <1>4, <1>5, <1>6 DEF Next, Loop

\* A program that quit stays quit, with the exit code it has.
LEMMA ExitStays ==
  ASSUME [Next]_vars, exit # NoExit
  PROVE  exit' = exit
BY ZenonT(60) DEF vars, Next, Loop, interpret, fxQuit, fxSend, fxThrow, fxAfterUnkeyed,
   fxAfterKeyed, start_keyed_task, fxCancel, Interpreted, reconcile, ReconcileSkipped,
   SubscribeThrows, Reconciled, SourceThrows, fold_pending, TakeBatch, FoldDone,
   DropStale, BatchOver, FoldThrows, FoldOk, driver, route, Routed, dispatch, stop,
   view_faulted, StepIdle, StepDrain, ReadFlag, TakeErrors, StepTimers, Return, shutdown,
   Post, RaiseError, RaiseFlag, fault_raised

\* What is at each place of two queues joined.
LEMMA ConcatParts ==
  ASSUME NEW a \in Seq(Messages), NEW b \in Seq(Messages)
  PROVE  /\ Len(a \o b) = Len(a) + Len(b) /\ DOMAIN (a \o b) = 1..(Len(a) + Len(b))
         /\ \A i \in 1..(Len(a) + Len(b)) :
              (a \o b)[i] = IF i <= Len(a) THEN a[i] ELSE b[i - Len(a)]
<1>1. Len(a \o b) = Len(a) + Len(b) /\ a \o b \in Seq(Messages)
  OBVIOUS
<1>2. DOMAIN (a \o b) = 1..Len(a \o b)
  BY <1>1
<1>3. \A i \in 1..(Len(a) + Len(b)) :
        (a \o b)[i] = IF i <= Len(a) THEN a[i] ELSE b[i - Len(a)]
  OBVIOUS
<1> QED
  BY <1>1, <1>2, <1>3, Zenon

\* Joining three queues, the order of the joins does not matter.
LEMMA ConcatAssociates ==
  ASSUME NEW a \in Seq(Messages), NEW b \in Seq(Messages), NEW c \in Seq(Messages)
  PROVE  a \o (b \o c) = (a \o b) \o c
<1> DEFINE x == a \o (b \o c)
           y == (a \o b) \o c
<1>1. x \in Seq(Messages) /\ y \in Seq(Messages) /\ Len(x) = Len(y)
  OBVIOUS
<1>2. \A i \in 1..Len(x) : x[i] = y[i]
  OBVIOUS
<1> HIDE DEF x, y
<1> QED
  BY <1>1, <1>2 DEF x, y

\* What waits is numbered on from the last message folded.
LEMMA InOrderStep ==
  ASSUME Typed, BatchInv, InOrder, [Next]_vars
  PROVE  InOrder'
<1> SUFFICES ASSUME exit' = NoExit
             PROVE  /\ Len(batch' \o pending') = made' - lastFolded'
                    /\ \A i \in DOMAIN (batch' \o pending') :
                         (batch' \o pending')[i].id = lastFolded' + i
  BY Zenon DEF InOrder
<1>0. /\ pending \in Seq(Messages) /\ batch \in Seq(Messages)
      /\ made \in Nat /\ lastFolded \in Nat
  BY DEF Typed
<1> DEFINE q == batch \o pending
<1>1. /\ q \in Seq(Messages) /\ Len(q) = made - lastFolded
      /\ \A i \in 1..Len(q) : q[i].id = lastFolded + i
  <2>1. exit = NoExit
    BY ExitStays
  <2>2. q \in Seq(Messages) /\ DOMAIN q = 1..Len(q)
    BY <1>0
  <2> QED
    BY <2>1, <2>2 DEF InOrder
<1>2. CASE UNCHANGED <<queueVars, seqVars>>
  BY <1>1, <1>2 DEF queueVars, seqVars
<1>3. ASSUME NEW froms \in Seq(Nat), Queues(froms)
      PROVE  /\ Len(batch' \o pending') = made' - lastFolded'
             /\ \A i \in DOMAIN (batch' \o pending') :
                  (batch' \o pending')[i].id = lastFolded' + i
  <2> DEFINE tail == Numbered(froms)
  <2>1. /\ tail \in Seq(Messages) /\ Len(tail) = Len(froms) /\ Len(froms) \in Nat
        /\ \A i \in 1..Len(froms) : tail[i].id = made + i
    BY <1>0, NumberedType
  <2> HIDE DEF tail
  <2>2. batch' \o pending' = q \o tail /\ made' = made + Len(froms) /\ lastFolded' = lastFolded
    <3>1. batch \o (pending \o tail) = q \o tail
      BY <1>0, <2>1, ConcatAssociates, Zenon
    <3> HIDE DEF q
    <3> QED
      BY <1>3, <3>1, Zenon DEF Queues, tail
  <2> HIDE DEF q
  <2>3. Len(q \o tail) = Len(q) + Len(froms) /\ DOMAIN (q \o tail) = 1..(Len(q) + Len(froms))
    BY <1>1, <2>1, ConcatParts, Zenon
  <2>4. \A i \in 1..(Len(q) + Len(froms)) :
          (q \o tail)[i] = IF i <= Len(q) THEN q[i] ELSE tail[i - Len(q)]
    BY <1>1, <2>1, ConcatParts, Zenon
  <2>5. \A i \in 1..(Len(q) + Len(froms)) : (q \o tail)[i].id = lastFolded + i
    <3> SUFFICES ASSUME NEW i \in 1..(Len(q) + Len(froms))
                 PROVE  (q \o tail)[i].id = lastFolded + i
      BY Zenon
    <3>1. Len(q) \in Nat
      BY <1>1
    <3>2. CASE i <= Len(q)
      BY <1>1, <2>4, <3>1, <3>2
    <3>3. CASE i > Len(q)
      <4>1. i - Len(q) \in 1..Len(froms)
        BY <2>1, <3>1, <3>3
      <4>2. tail[i - Len(q)].id = made + (i - Len(q))
        BY <2>1, <4>1
      <4>3. (q \o tail)[i] = tail[i - Len(q)]
        BY <2>1, <2>4, <3>1, <3>3
      <4>4. made + (i - Len(q)) = lastFolded + i
        BY <1>0, <1>1, <3>1
      <4> QED
        BY <4>2, <4>3, <4>4, Zenon
    <3>4. i <= Len(q) \/ i > Len(q)
      BY <2>1, <3>1
    <3> QED
      BY <3>2, <3>3, <3>4, Zenon
  <2>6. Len(q) + Len(froms) = (made + Len(froms)) - lastFolded
    BY <1>0, <1>1, <2>1
  <2> QED
    BY <2>2, <2>3, <2>5, <2>6, Zenon
<1>4. CASE TakeBatch
  <2>1. batch = <<>> /\ batch' = pending /\ pending' = <<>> /\ UNCHANGED <<made, lastFolded>>
    BY <1>4 DEF TakeBatch, BatchInv, InBatch, seqVars
  <2>2. batch' \o pending' = q
    BY <1>0, <2>1
  <2> QED
    BY <1>1, <2>1, <2>2
<1>5. CASE BatchOver
  <2>1. batch' = <<>> /\ pending' = q /\ UNCHANGED <<made, lastFolded>>
    BY <1>5 DEF BatchOver, PutBack, seqVars
  <2>2. batch' \o pending' = q
    BY <1>1, <2>1
  <2> QED
    BY <1>1, <2>1, <2>2
<1>6. CASE Consumes
  <2>1. /\ batch # <<>> /\ batch' = Tail(batch) /\ pending' = pending
        /\ lastFolded' = Head(batch).id /\ made' = made
    BY <1>6 DEF Consumes, MessageNext
  <2>2. batch' \o pending' = Tail(q) /\ Head(batch) = q[1] /\ q # <<>>
    BY <1>0, <2>1
  <2> HIDE DEF q
  <2>3. 1 \in 1..Len(q)
    BY <1>1, <2>2
  <2>4. lastFolded' = lastFolded + 1
    BY <1>1, <2>1, <2>2, <2>3
  <2>5. /\ Len(Tail(q)) = Len(q) - 1 /\ DOMAIN Tail(q) = 1..(Len(q) - 1)
        /\ \A i \in 1..(Len(q) - 1) : Tail(q)[i] = q[i + 1]
    BY <1>1, <2>2
  <2>6. \A i \in 1..(Len(q) - 1) : Tail(q)[i].id = (lastFolded + 1) + i
    <3> TAKE i \in 1..(Len(q) - 1)
    <3>1. i + 1 \in 1..Len(q)
      BY <1>1
    <3>2. q[i + 1].id = lastFolded + (i + 1)
      BY <1>1, <3>1
    <3> QED
      BY <1>0, <2>5, <3>2
  <2>7. Len(q) - 1 = made - (lastFolded + 1)
    BY <1>0, <1>1
  <2> QED
    BY <2>1, <2>2, <2>4, <2>5, <2>6, <2>7, Zenon
<1>7. CASE Next
  BY <1>2, <1>3, <1>4, <1>5, <1>6, <1>7, QueueKinds DEF Forgets
<1>8. CASE UNCHANGED vars
  BY <1>2, <1>8 DEF vars, queueVars, seqVars
<1> QED
  BY <1>7, <1>8

\* No message is lost, duplicated or overtaken between the queues, the fold
\* budget's put-back and the effects' sends, for any program and any number of
\* messages (fold_pending, kernel.hpp:598-656).
THEOREM MessagesInOrder == Spec => []InOrder
<1>1. Init => Typed /\ BatchInv /\ InOrder
  <2>1. Init => Typed
    BY TypedInit
  <2>2. Init => BatchInv /\ InOrder
    <3> SUFFICES ASSUME Init PROVE BatchInv /\ InOrder
      OBVIOUS
    <3>1. batch \o pending = <<>> /\ made - lastFolded = 0 /\ batch = <<>>
      BY DEF Init
    <3> QED
      BY <3>1 DEF BatchInv, InOrder
  <2> QED
    BY <2>1, <2>2
<1>2. Typed /\ BatchInv /\ InOrder /\ [Next]_vars => (Typed /\ BatchInv /\ InOrder)'
  BY TypedStep, BatchStep, InOrderStep
<1> QED
  BY <1>1, <1>2, PTL DEF Spec
-----------------------------------------------------------------------------
(* Task errors and frames *)

\* Where the loop thread can be, and what the flags it reads are.
Places ==
  /\ ret \in {"fold", "batch"} /\ entry \in {"start", "route", "step"}
  /\ flag \in BOOLEAN /\ unseen \in BOOLEAN /\ changed \in BOOLEAN
  /\ changedSinceTurn \in BOOLEAN /\ subsDirty \in BOOLEAN

\* A change no turn has reported is one this call or the next turn reports.
Owes == (exit = NoExit /\ unseen) => changedSinceTurn \/ (Inside /\ changed)

ForgetInv == Places /\ TaskErrorKept /\ Owes

\* The places and flags stay what they are.
LEMMA PlacesStep ==
  ASSUME Places, [Next]_vars
  PROVE  Places'
<1> USE DEF foldVars, queueVars, progVars, runVars, taskVars, liveVars, boxVars, errVars,
            turnVars, seqVars
<1>1. CASE UNCHANGED vars
  BY <1>1, Zenon DEF vars, Places
<1>2. CASE interpret
  BY <1>2, Zenon DEF interpret, fxQuit, fxSend, fxThrow, fxAfterUnkeyed, fxAfterKeyed,
     start_keyed_task, fxCancel, Interpreted, Places
<1>3. CASE reconcile
  BY <1>3, Zenon DEF reconcile, ReconcileSkipped, SubscribeThrows, Reconciled, SourceThrows, Places
<1>4. CASE fold_pending
  BY <1>4, Zenon DEF fold_pending, FoldDone, TakeBatch, BatchOver, DropStale, FoldThrows, FoldOk,
     Places
<1>5. CASE Return
  <2>1. UNCHANGED <<ret, entry, flag, changed, subsDirty>>
    BY <1>5, Zenon DEF Return
  <2>2. unseen' \in BOOLEAN /\ changedSinceTurn' \in BOOLEAN
    BY <1>5, Zenon DEF Return, Places
  <2> QED
    BY <2>1, <2>2, Zenon DEF Places
<1>6. CASE StepIdle
  BY <1>6, Zenon DEF StepIdle, Places
<1>7. CASE driver /\ ~Return /\ ~StepIdle
  BY <1>7, Zenon DEF driver, route, Routed, Enter, dispatch, stop, view_faulted, StepDrain,
     ReadFlag, TakeErrors, StepTimers, shutdown, Places
<1>8. CASE (\E o \in Senders : Post(o)) \/ RaiseError \/ RaiseFlag
  BY <1>8, Zenon DEF Post, RaiseError, RaiseFlag, Places
<1> QED
  BY <1>1, <1>2, <1>3, <1>4, <1>5, <1>6, <1>7, <1>8 DEF Next, Loop

\* A step inside a call that leaves the errors and the flags alone.
LEMMA InsideForgets ==
  ASSUME ForgetInv, UNCHANGED <<errVars, turnVars, changed>>, Inside', loc # "swap",
         exit # NoExit => exit' # NoExit, loc = "out" => unseen' = FALSE \/ changedSinceTurn
  PROVE  TaskErrorKept' /\ Owes'
BY Zenon DEF ForgetInv, TaskErrorKept, Owes, errVars, turnVars, Inside

\* Errors and changes are passed on by every step.
LEMMA ForgetStep ==
  ASSUME Typed, ForgetInv, [Next]_vars
  PROVE  ForgetInv'
<1> USE DEF foldVars, queueVars, progVars, runVars, taskVars, liveVars, boxVars, errVars,
            turnVars, seqVars
<1> SUFFICES TaskErrorKept' /\ Owes'
  BY PlacesStep DEF ForgetInv
<1>0. exit # NoExit => exit' # NoExit
  BY ExitStays
<1>1. CASE UNCHANGED vars
  BY <1>1, Zenon DEF vars, ForgetInv, TaskErrorKept, Owes, Inside
<1>2. CASE interpret
  <2>1. UNCHANGED <<errVars, turnVars, changed>> /\ loc = "interpret"
    BY <1>2, Zenon DEF interpret, fxQuit, fxSend, fxThrow, fxAfterUnkeyed, fxAfterKeyed,
       start_keyed_task, fxCancel, Interpreted, Interpreting
  <2>2. loc' \in {"interpret", "batchEnd", "fold", "batch"}
    BY <1>2, <2>1, Zenon DEF interpret, fxQuit, fxSend, fxThrow, fxAfterUnkeyed, fxAfterKeyed,
       start_keyed_task, fxCancel, Interpreted, ForgetInv, Places
  <2> QED
    BY <1>0, <2>1, <2>2, InsideForgets DEF Inside
<1>3. CASE reconcile
  <2>1. UNCHANGED <<errVars, turnVars, changed, loc>> /\ loc \in {"end", "batch"}
    BY <1>3, Zenon DEF reconcile, ReconcileSkipped, SubscribeThrows, Reconciled, SourceThrows,
       ReconcileDue, MessageNext
  <2> QED
    BY <1>0, <2>1, InsideForgets, Zenon DEF Inside
<1>4. CASE fold_pending
  <2>1. ASSUME NEW m, NEW c, FoldOk(m, c) PROVE TaskErrorKept' /\ Owes'
    <3>1. loc = "batch" /\ loc' = "interpret" /\ UNCHANGED errVars /\ changed' = TRUE
      BY <2>1, Zenon DEF FoldOk, MessageReady, MessageNext
    <3> QED
      BY <3>1 DEF ForgetInv, TaskErrorKept, Owes, Inside
  <2>2. CASE TakeBatch \/ FoldDone \/ DropStale \/ BatchOver \/ \E m \in Models : FoldThrows(m)
    <3>1. UNCHANGED <<errVars, turnVars, changed>> /\ loc \in {"fold", "batch", "batchEnd"}
      BY <2>2, Zenon DEF FoldDone, TakeBatch, BatchOver, DropStale, FoldThrows, MessageReady,
         MessageNext
    <3>2. loc' \in {"fold", "batch", "batchEnd", "end"}
      BY <2>2, <3>1, Zenon DEF FoldDone, TakeBatch, BatchOver, DropStale, FoldThrows
    <3> QED
      BY <1>0, <3>1, <3>2, InsideForgets, Zenon DEF Inside
  <2> QED
    BY <1>4, <2>1, <2>2 DEF fold_pending
<1>5. CASE driver
  <2>1. CASE route \/ StepDrain
    <3>1. /\ loc = "out" /\ loc' \in {"fold", "faults"} /\ UNCHANGED <<errVars, turnVars>>
          /\ exit = NoExit
      BY <2>1, Zenon DEF route, Routed, StepDrain
    <3>2. exit' = NoExit /\ unseen => changedSinceTurn
      BY <3>1 DEF ForgetInv, Owes, Inside
    <3> QED
      BY <3>1, <3>2 DEF ForgetInv, TaskErrorKept, Owes, Inside
  <2>2. CASE dispatch \/ stop \/ view_faulted
    <3>1. UNCHANGED <<errVars, turnVars, changed, loc>>
      BY <2>2, Zenon DEF dispatch, stop, view_faulted
    <3> QED
      BY <1>0, <3>1, Zenon DEF ForgetInv, TaskErrorKept, Owes, Inside
  <2>3. CASE StepIdle
    BY <1>0, <2>3, Zenon DEF StepIdle, ForgetInv, TaskErrorKept, Owes, Inside
  <2>4. CASE ReadFlag
    <3>1. /\ loc = "faults" /\ loc' = IF flag THEN "swap" ELSE "timers"
          /\ flag' = FALSE /\ UNCHANGED <<errs, raising, turnVars, changed, exit>>
      BY <2>4, Zenon DEF ReadFlag
    <3>2. TaskErrorKept'
      BY <3>1 DEF ForgetInv, Places, TaskErrorKept
    <3>3. Inside /\ Inside'
      BY <3>1 DEF Inside
    <3> QED
      BY <3>1, <3>2, <3>3, Zenon DEF ForgetInv, Owes
  <2>5. CASE TakeErrors
    <3>1. /\ loc = "swap" /\ errs' = 0 /\ loc' = (IF exit' # NoExit THEN "out" ELSE "timers")
          /\ UNCHANGED <<turnVars, changed>>
      BY <2>5, Zenon DEF TakeErrors
    <3> QED
      BY <1>0, <3>1 DEF ForgetInv, TaskErrorKept, Owes, Inside
  <2>6. CASE StepTimers
    <3>1. UNCHANGED <<errVars, turnVars, changed>> /\ loc = "timers" /\ loc' = "fold"
      BY <2>6, Zenon DEF StepTimers
    <3> QED
      BY <1>0, <3>1, InsideForgets DEF Inside
  <2>7. CASE Return
    <3>1. loc = "end" /\ loc' = "out" /\ UNCHANGED <<errVars, exit>>
      BY <2>7, Zenon DEF Return
    <3>2. TaskErrorKept'
      BY <3>1 DEF ForgetInv, TaskErrorKept
    <3>3. (exit = NoExit /\ unseen') => changedSinceTurn'
      BY <2>7, Zenon DEF Return, ForgetInv, Places, Owes
    <3> QED
      BY <3>1, <3>2, <3>3, Zenon DEF Owes
  <2>8. CASE shutdown
    <3>1. /\ loc = "out" /\ loc' = "down" /\ UNCHANGED <<errVars, turnVars, exit>>
      BY <2>8, Zenon DEF shutdown
    <3> QED
      BY <3>1 DEF ForgetInv, TaskErrorKept, Owes, Inside
  <2> QED
    BY <1>5, <2>1, <2>2, <2>3, <2>4, <2>5, <2>6, <2>7, <2>8 DEF driver
<1>6. ASSUME NEW o \in Senders, Post(o) PROVE TaskErrorKept' /\ Owes'
  BY <1>6, Zenon DEF Post, ForgetInv, TaskErrorKept, Owes, Inside
<1>7. CASE RaiseError \/ RaiseFlag
  <2>1. /\ UNCHANGED <<turnVars, changed, exit, loc>>
        /\ flag' = TRUE \/ raising' = raising + 1
    BY <1>7, Zenon DEF RaiseError, RaiseFlag
  <2>2. TaskErrorKept'
    BY <2>1 DEF Typed, TaskErrorKept
  <2> QED
    BY <2>1, <2>2, Zenon DEF ForgetInv, Owes, Inside
<1> QED
  BY <1>1, <1>2, <1>3, <1>4, <1>5, <1>6, <1>7 DEF Next, Loop

\* No error of a task and no change of the model is forgotten on its way to
\* the turn that reports it, for any number of errors and threads
\* (drain_task_faults, kernel.hpp:753-765; route, 340-346; step, 404-444).
THEOREM NothingIsForgotten == Spec => []NothingForgotten
<1>1. Init => Typed /\ ForgetInv
  <2>1. Init => ForgetInv
    BY Zenon DEF Init, ForgetInv, Places, TaskErrorKept, Owes
  <2> QED
    BY <2>1, TypedInit
<1>2. Typed /\ ForgetInv /\ [Next]_vars => (Typed /\ ForgetInv)'
  BY TypedStep, ForgetStep
<1>3. ForgetInv => NothingForgotten
  BY DEF ForgetInv, NothingForgotten, Owes, FrameOwed, Inside
<1> QED
  BY <1>1, <1>2, <1>3, PTL DEF Spec
=============================================================================
