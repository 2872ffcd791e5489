-------------------------- MODULE KernelSubsProofs --------------------------
(***************************************************************************)
(* What runs and what update() sees: the sources, tasks and origins of the *)
(* Elm loop, for every program, any number of sources, keys and messages.  *)
(***************************************************************************)
EXTENDS KernelProofs

-----------------------------------------------------------------------------
(* Origins and subscriptions *)

\* No two sources or keyed runs share an origin, and none is ahead of the last
\* one issued.
Distinct ==
  /\ \A s \in Origined : srcOrigin[s] <= issued
  /\ \A k \in TaskKeys : taskOrigin[k] <= issued
  /\ \A s, t \in Origined : srcOrigin[s] = srcOrigin[t] => s = t \/ srcOrigin[s] = 0
  /\ \A k, l \in TaskKeys : taskOrigin[k] = taskOrigin[l] => k = l \/ taskOrigin[k] = 0
  /\ \A s \in Origined, k \in TaskKeys : srcOrigin[s] = taskOrigin[k] => srcOrigin[s] = 0

OriginsInv == OriginsAgree /\ Distinct

\* A keyed run gets an origin of its own and gives up the one before.
LEMMA StartOrigins ==
  ASSUME Typed, OriginsInv, StartsRun
  PROVE  OriginsInv'
<1>1. PICK k \in TaskKeys, kind \in {"armed", "task"} :
        StartKeyed(k, kind) /\ UNCHANGED runVars
  BY Zenon DEF StartsRun
<1>2. /\ srcOrigin' = srcOrigin /\ issued' = issued + 1
      /\ taskOrigin' = [taskOrigin EXCEPT ![k] = issued + 1]
      /\ boxLive' = (boxLive \ RunOf(k)) \cup {issued + 1}
      /\ liveOrigins' = (liveOrigins \ RunOf(k)) \cup {issued + 1}
  BY <1>1, Zenon DEF StartKeyed, runVars
<1>3. /\ srcOrigin \in [Origined -> Nat] /\ taskOrigin \in [TaskKeys -> Nat] /\ issued \in Nat
      /\ Distinct /\ liveOrigins = boxLive /\ liveOrigins = Owned
  BY DEF Typed, OriginsInv, OriginsAgree
<1>4. \A l \in TaskKeys : taskOrigin'[l] = IF l = k THEN issued + 1 ELSE taskOrigin[l]
  BY <1>2, <1>3
<1>5. Distinct'
  BY <1>2, <1>3, <1>4 DEF Distinct
<1>6. Owned' = (Owned \ RunOf(k)) \cup {issued + 1}
  BY <1>2, <1>3, <1>4 DEF Owned, RunOf, Distinct
<1> QED
  BY <1>2, <1>3, <1>5, <1>6, Zenon DEF OriginsInv, OriginsAgree

\* A cancelled run gives its origin up.
LEMMA StopOrigins ==
  ASSUME Typed, OriginsInv, StopsRun
  PROVE  OriginsInv'
<1>1. PICK k \in TaskKeys : stop_keyed_task(k) /\ UNCHANGED <<runVars, issued>>
  BY Zenon DEF StopsRun
<1>2. /\ srcOrigin' = srcOrigin /\ issued' = issued
      /\ taskOrigin' = [taskOrigin EXCEPT ![k] = 0]
      /\ boxLive' = boxLive \ RunOf(k) /\ liveOrigins' = liveOrigins \ RunOf(k)
  BY <1>1, Zenon DEF stop_keyed_task, runVars
<1>3. /\ srcOrigin \in [Origined -> Nat] /\ taskOrigin \in [TaskKeys -> Nat] /\ issued \in Nat
      /\ Distinct /\ liveOrigins = boxLive /\ liveOrigins = Owned
  BY DEF Typed, OriginsInv, OriginsAgree
<1>4. \A l \in TaskKeys : taskOrigin'[l] = IF l = k THEN 0 ELSE taskOrigin[l]
  BY <1>2, <1>3
<1>5. Distinct'
  BY <1>2, <1>3, <1>4 DEF Distinct
<1>6. Owned' = Owned \ RunOf(k)
  BY <1>2, <1>3, <1>4 DEF Owned, RunOf, Distinct
<1> QED
  BY <1>2, <1>3, <1>5, <1>6, Zenon DEF OriginsInv, OriginsAgree

\* Sources stopped give their origins up and sources started get new ones, if
\* none that is started still has one.
LEMMA ApplyOrigins ==
  ASSUME Typed, OriginsInv, NEW out, NEW fresh \in SUBSET Sources, Apply(out, fresh),
         taskOrigin' = taskOrigin, \A s \in fresh \cap Origined : srcOrigin[s] = 0
  PROVE  /\ OriginsInv'
         /\ \A s \in Origined : srcOrigin'[s] # 0 <=> s \in fresh \/ (s \notin out /\ srcOrigin[s] # 0)
<1> DEFINE opening == CHOOSE o \in Orders(fresh \cap Origined) : TRUE
           number(s) == CHOOSE i \in DOMAIN opening : opening[i] = s
           retired == {srcOrigin[s] : s \in out \cap Origined}
<1>1. /\ srcOrigin \in [Origined -> Nat] /\ taskOrigin \in [TaskKeys -> Nat] /\ issued \in Nat
      /\ Distinct /\ liveOrigins = boxLive /\ liveOrigins = Owned
  BY DEF Typed, OriginsInv, OriginsAgree
<1>2. /\ Len(opening) \in Nat
      /\ \A s \in fresh \cap Origined :
           number(s) \in 1..Len(opening) /\ opening[number(s)] = s
      /\ \A i \in 1..Len(opening) :
           opening[i] \in fresh \cap Origined /\ number(opening[i]) = i
  BY <1>1, OpenedNumbers, Zenon
<1>3. /\ issued' = issued + Len(opening)
      /\ boxLive' = (boxLive \ retired) \cup (issued + 1 .. issued + Len(opening))
      /\ liveOrigins' = (liveOrigins \ retired) \cup (issued + 1 .. issued + Len(opening))
      /\ srcOrigin' = [s \in Origined |-> IF s \in fresh THEN issued + number(s)
                                          ELSE IF s \in out THEN 0 ELSE srcOrigin[s]]
  BY Zenon DEF Apply
<1> HIDE DEF opening, number
<1>4. \A s \in Origined : srcOrigin'[s] = IF s \in fresh THEN issued + number(s)
                                          ELSE IF s \in out THEN 0 ELSE srcOrigin[s]
  BY <1>3
<1>5. \A s \in Origined : s \in fresh =>
        /\ number(s) \in Nat /\ number(s) >= 1 /\ number(s) <= Len(opening)
        /\ srcOrigin'[s] = issued + number(s) /\ srcOrigin[s] = 0
  BY <1>2, <1>4
<1>6. \A s, t \in Origined : s \in fresh /\ t \in fresh /\ number(s) = number(t) => s = t
  BY <1>2
<1>7. Distinct'
  <2>1. \A s \in Origined : srcOrigin'[s] <= issued'
    <3> SUFFICES ASSUME NEW s \in Origined PROVE srcOrigin'[s] <= issued'
      OBVIOUS
    <3>1. issued' = issued + Len(opening) /\ issued \in Nat /\ Len(opening) \in Nat
      BY <1>1, <1>2, <1>3
    <3>2. srcOrigin[s] \in Nat /\ srcOrigin[s] <= issued
      BY <1>1 DEF Distinct
    <3>3. CASE s \in fresh
      BY <1>5, <3>1, <3>3
    <3>4. CASE s \notin fresh
      BY <1>4, <3>1, <3>2, <3>4
    <3> QED
      BY <3>3, <3>4
  <2>2. \A k \in TaskKeys : taskOrigin'[k] <= issued'
    BY <1>1, <1>2, <1>3 DEF Distinct
  <2>3. ASSUME NEW s \in Origined, NEW t \in Origined, srcOrigin'[s] = srcOrigin'[t]
        PROVE  s = t \/ srcOrigin'[s] = 0
    <3>1. CASE s \in fresh /\ t \in fresh
      BY <1>1, <1>5, <1>6, <2>3, <3>1
    <3>2. CASE s \in fresh /\ t \notin fresh
      BY <1>1, <1>4, <1>5, <2>3, <3>2 DEF Distinct
    <3>3. CASE s \notin fresh /\ t \in fresh
      BY <1>1, <1>4, <1>5, <2>3, <3>3 DEF Distinct
    <3>4. CASE s \notin fresh /\ t \notin fresh
      BY <1>1, <1>4, <2>3, <3>4 DEF Distinct
    <3> QED
      BY <3>1, <3>2, <3>3, <3>4
  <2>4. ASSUME NEW s \in Origined, NEW k \in TaskKeys, srcOrigin'[s] = taskOrigin'[k]
        PROVE  srcOrigin'[s] = 0
    <3>1. CASE s \in fresh
      BY <1>1, <1>5, <2>4, <3>1 DEF Distinct
    <3>2. CASE s \notin fresh
      BY <1>1, <1>4, <2>4, <3>2 DEF Distinct
    <3> QED
      BY <3>1, <3>2
  <2>5. \A k, l \in TaskKeys : taskOrigin'[k] = taskOrigin'[l] => k = l \/ taskOrigin'[k] = 0
    BY <1>1, Zenon DEF Distinct
  <2> QED
    BY <2>1, <2>2, <2>3, <2>4, <2>5, Zenon DEF Distinct
<1>8. Owned' = (Owned \ retired) \cup (issued + 1 .. issued + Len(opening))
  <2>1. ASSUME NEW x \in Owned' PROVE x \in (Owned \ retired) \cup (issued + 1 .. issued + Len(opening))
    <3>1. CASE \E s \in Origined : srcOrigin'[s] = x /\ x # 0
      <4>1. PICK s \in Origined : srcOrigin'[s] = x /\ x # 0
        BY <3>1
      <4>2. CASE s \in fresh
        BY <1>1, <1>2, <1>5, <4>1, <4>2
      <4>3. CASE s \notin fresh
        <5>1. s \notin out /\ srcOrigin[s] = x
          BY <1>4, <4>1, <4>3
        <5>2. x \in Owned
          BY <4>1, <5>1 DEF Owned
        <5>3. x \notin retired
          BY <1>1, <4>1, <5>1 DEF Distinct
        <5> QED
          BY <5>2, <5>3
      <4> QED
        BY <4>2, <4>3
    <3>2. CASE \E k \in TaskKeys : taskOrigin[k] = x /\ x # 0
      <4>1. x \in Owned
        BY <3>2 DEF Owned
      <4>2. x \notin retired
        BY <1>1, <3>2 DEF Distinct
      <4> QED
        BY <4>1, <4>2
    <3> QED
      BY <2>1, <3>1, <3>2 DEF Owned
  <2>2. ASSUME NEW x \in Owned \ retired PROVE x \in Owned'
    <3>1. CASE \E s \in Origined : srcOrigin[s] = x
      <4>1. PICK s \in Origined : srcOrigin[s] = x
        BY <3>1
      <4>2. x # 0
        BY <2>2 DEF Owned
      <4>3. s \notin out /\ s \notin fresh
        BY <1>5, <2>2, <4>1, <4>2
      <4>4. srcOrigin'[s] = x
        BY <1>4, <4>1, <4>3
      <4> QED
        BY <4>2, <4>4 DEF Owned
    <3>2. CASE \E k \in TaskKeys : taskOrigin[k] = x
      <4>1. x # 0
        BY <2>2 DEF Owned
      <4> QED
        BY <3>2, <4>1 DEF Owned
    <3> QED
      BY <2>2, <3>1, <3>2 DEF Owned
  <2>3. ASSUME NEW x \in issued + 1 .. issued + Len(opening) PROVE x \in Owned'
    <3>1. x - issued \in 1..Len(opening)
      BY <1>1, <1>2
    <3> DEFINE s == opening[x - issued]
    <3>2. s \in fresh \cap Origined /\ number(s) = x - issued
      BY <1>2, <3>1
    <3>3. srcOrigin'[s] = x /\ x # 0
      BY <1>1, <1>2, <1>5, <3>2
    <3> HIDE DEF s
    <3> QED
      BY <3>2, <3>3 DEF Owned
  <2> QED
    BY <2>1, <2>2, <2>3
<1>9. OriginsInv'
  BY <1>1, <1>3, <1>7, <1>8, Zenon DEF OriginsInv, OriginsAgree
<1>10. \A s \in Origined : srcOrigin'[s] # 0 <=> s \in fresh \/ (s \notin out /\ srcOrigin[s] # 0)
  BY <1>1, <1>4, <1>5
<1> QED
  BY <1>9, <1>10, Zenon

\* What runs: host sources that are up, and sources that have an origin.
Running == hostUp \cup {s \in Origined : srcOrigin[s] # 0}

\* While the key is trusted it is the key of a model that asks for exactly the
\* sources that run.
KeyInv ==
  (HasSubsKey /\ ~distrusted /\ subsKey # NoKey) =>
    \E m \in Models : SubsKeyOf[m] = subsKey /\ Subscribe[m] = sources

\* What runs is what the reconciler believes, and once it has reconciled, what
\* the model asks for.  In mid-batch this holds after a quit too.
SubsInv ==
  /\ OriginsInv
  /\ hostUp \subseteq HostSources /\ sources \subseteq Sources
  /\ loc # "down" => Running = sources
  /\ KeyInv
  /\ (~subsDirty /\ model \notin BadModels /\ (exit = NoExit \/ loc = "batch"))
       => sources = Subscribe[model]

\* No host source threw, or one did and the program stopped for it.
Sound == exit = NoExit \/ ~HostThrows
HostsStop == \A p \in Programs : p.hostThrows => p.on_fault = "stop"

\* Nothing changes where no origin and no host source does.
LEMMA OriginsSame ==
  ASSUME OriginsInv,
         UNCHANGED <<srcOrigin, taskOrigin, issued, liveOrigins, boxLive, hostUp>>
  PROVE  OriginsInv' /\ Running' = Running
<1>1. Owned' = Owned
  BY DEF Owned
<1>2. Distinct'
  BY DEF OriginsInv, Distinct
<1>3. Running' = Running
  BY DEF Running
<1> QED
  BY <1>1, <1>2, <1>3, Zenon DEF OriginsInv, OriginsAgree

\* Reconciling leaves exactly the sources the model asks for.
LEMMA ReconciledSubs ==
  ASSUME Typed, SubsInv, Reconciled, app' = app
  PROVE  SubsInv'
<1>0. /\ Subscribe[model] \subseteq Sources /\ Origined \cap HostSources = {}
      /\ Sources = Origined \cup HostSources
  BY SubscribeType, KernelAssumption DEF Sources
<1>1. /\ Apply(Stopping, Starting) /\ Rekeyed /\ sources' = Subscribe[model] /\ model' = model
      /\ taskOrigin' = taskOrigin /\ loc' = loc /\ loc # "down" /\ subsDirty' = FALSE
      /\ model \notin BadModels /\ ~KeySkips
  BY Zenon DEF Reconciled, ReconcileDue, MessageNext, taskVars
<1>2. Running = sources
  BY <1>1 DEF SubsInv
<1>3. Starting \in SUBSET Sources /\ \A s \in Starting \cap Origined : srcOrigin[s] = 0
  BY <1>0, <1>2 DEF Starting, Running
<1>4. /\ OriginsInv'
      /\ \A s \in Origined : srcOrigin'[s] # 0 <=>
                               s \in Starting \/ (s \notin Stopping /\ srcOrigin[s] # 0)
  BY <1>1, <1>3, ApplyOrigins, Zenon DEF SubsInv
<1>5. hostUp' = (hostUp \ Stopping) \cup (Starting \cap HostSources)
  BY <1>1, Zenon DEF Apply
<1>6. hostUp' \subseteq HostSources /\ sources' \subseteq Sources
  BY <1>0, <1>1, <1>5 DEF SubsInv
<1>7. Running' = Subscribe[model]
  <2>1. hostUp \subseteq HostSources /\ sources = hostUp \cup {s \in Origined : srcOrigin[s] # 0}
    BY <1>2 DEF SubsInv, Running
  <2>2. Running' = hostUp' \cup {s \in Origined : srcOrigin'[s] # 0}
    BY DEF Running
  <2> QED
    BY <1>0, <1>4, <1>5, <2>1, <2>2 DEF Stopping, Starting
<1>8. KeyInv'
  <2> SUFFICES ASSUME HasSubsKey, ~distrusted', subsKey' # NoKey
               PROVE  \E m \in Models : SubsKeyOf[m] = subsKey' /\ Subscribe[m] = sources'
    BY Zenon DEF KeyInv, HasSubsKey, Models, SubsKeyOf, Subscribe
  <2>1. ~distrusted /\ ~KeyKnown
    BY <1>1, Zenon DEF Rekeyed
  <2>2. subsKey' = SubsKeyOf[model]
    BY <1>1, <2>1, Zenon DEF Rekeyed
  <2> QED
    BY <1>1, <2>2, Zenon DEF Typed
<1>9. Subscribe' = Subscribe
  BY DEF Subscribe
<1> QED
  BY <1>1, <1>4, <1>6, <1>7, <1>8, <1>9, Zenon DEF SubsInv

\* Every way a step may change the model, the key or the order to reconcile.
LEMMA ProgKinds ==
  ASSUME Places, Next
  PROVE  /\ \/ UNCHANGED progVars /\ (loc' = "batch" => loc = "batch" \/ exit = NoExit)
            \/ ReconcileSkipped \/ SubscribeThrows \/ Reconciled
            \/ (\E h \in HostSources : SourceThrows(h))
            \/ \E m \in Models : FoldThrows(m) \/ \E c \in Cmds : FoldOk(m, c)
         /\ loc = "down" => loc' = "down"
<1> USE DEF foldVars, queueVars, progVars, runVars, taskVars, liveVars, boxVars, errVars,
            turnVars, seqVars
<1>1. CASE interpret
  <2>1. UNCHANGED progVars /\ loc = "interpret" /\ (loc' = loc \/ Interpreted)
    BY <1>1, Zenon DEF interpret, fxQuit, fxSend, fxThrow, fxAfterUnkeyed, fxAfterKeyed,
       start_keyed_task, fxCancel, Interpreted, Interpreting
  <2>2. Interpreted => (loc' = "batch" => exit = NoExit)
    BY DEF Interpreted
  <2> QED
    BY <2>1, <2>2
<1>2. CASE reconcile
  <2>1. loc \in {"end", "batch"}
    BY <1>2, Zenon DEF reconcile, ReconcileSkipped, SubscribeThrows, Reconciled, SourceThrows,
       ReconcileDue, MessageNext
  <2> QED
    BY <1>2, <2>1 DEF reconcile
<1>3. CASE fold_pending
  <2>1. CASE TakeBatch
    BY <2>1 DEF TakeBatch
  <2>2. CASE FoldDone
    BY <2>2 DEF FoldDone
  <2>3. CASE DropStale
    BY <2>3 DEF DropStale, MessageNext
  <2>4. CASE BatchOver
    BY <2>4 DEF BatchOver
  <2>5. CASE \E m \in Models : FoldThrows(m) \/ \E c \in Cmds : FoldOk(m, c)
    <3>1. loc = "batch"
      BY <2>5, Zenon DEF FoldThrows, FoldOk, MessageReady, MessageNext
    <3> QED
      BY <2>5, <3>1
  <2> QED
    BY <1>3, <2>1, <2>2, <2>3, <2>4, <2>5 DEF fold_pending
<1>4. CASE driver
  BY <1>4, Zenon DEF driver, route, Routed, dispatch, stop, view_faulted, StepIdle, StepDrain,
     ReadFlag, TakeErrors, StepTimers, Return, shutdown
<1>5. CASE (\E o \in Senders : Post(o)) \/ RaiseError \/ RaiseFlag
  BY <1>5, Zenon DEF Post, RaiseError, RaiseFlag
<1> QED
  BY <1>1, <1>2, <1>3, <1>4, <1>5 DEF Next, Loop

\* A source that throws stops the program, when faults stop it.
LEMMA ThrowingStops ==
  ASSUME Typed, HostsStop, Sound, NEW h, SourceThrows(h), app' = app
  PROVE  ~Sound'
<1>1. HostThrows /\ fault_raised(TRUE)
  BY Zenon DEF SourceThrows
<1>2. OnFault = "stop" /\ exit = NoExit
  BY <1>1 DEF HostsStop, HostThrows, OnFault, Typed, Sound
<1>3. exit' = "fault"
  BY <1>1, <1>2 DEF fault_raised
<1> QED
  BY <1>1, <1>3 DEF Sound, HostThrows, NoExit

\* Every step keeps what runs and what the reconciler believes the same.
LEMMA SubsStep ==
  ASSUME Typed, Places, HostsStop, Sound => SubsInv, [Next]_vars
  PROVE  Sound' => SubsInv'
<1> SUFFICES ASSUME Sound' PROVE SubsInv'
  OBVIOUS
<1>0. app' = app
  BY Zenon DEF Next, vars
<1>1. Sound /\ SubsInv
  <2>1. exit' = NoExit => exit = NoExit
    BY ExitStays
  <2>2. HostThrows' = HostThrows
    BY <1>0 DEF HostThrows
  <2> QED
    BY <2>1, <2>2, Zenon DEF Sound
<1>a. Models' = Models /\ HasSubsKey' = HasSubsKey /\ SubsKeyOf' = SubsKeyOf
      /\ Subscribe' = Subscribe /\ BadModels' = BadModels
  BY <1>0 DEF Models, HasSubsKey, SubsKeyOf, Subscribe, BadModels
<1>2. CASE UNCHANGED vars
  <2>1. UNCHANGED <<progVars, runVars, taskOrigin, liveVars, loc, exit>>
    BY <1>2, Zenon DEF vars, taskVars
  <2>2. OriginsInv' /\ Running' = Running
    BY <1>1, <2>1, OriginsSame DEF SubsInv, runVars, liveVars
  <2> QED
    BY <1>1, <1>a, <2>1, <2>2, Zenon DEF SubsInv, KeyInv, progVars, runVars
<1>3. CASE Next /\ ~Reconciled
  <2>1. ~(\E h \in HostSources : SourceThrows(h))
    BY <1>0, <1>1, ThrowingStops, Zenon
  <2>2. sources' = sources /\ hostUp' = hostUp /\ OriginsInv'
        /\ (loc' # "down" => Running' = Running)
    <3>1. CASE OriginsKept
      <4>1. OriginsInv' /\ Running' = Running
        BY <1>1, <3>1, OriginsSame DEF OriginsKept, SubsInv, runVars, liveVars
      <4> QED
        BY <3>1, <4>1 DEF OriginsKept, runVars
    <3>2. CASE StartsRun \/ StopsRun
      <4>1. UNCHANGED runVars
        BY <3>2, Zenon DEF StartsRun, StopsRun, runVars
      <4>2. Running' = Running
        BY <4>1, Zenon DEF Running, runVars
      <4> QED
        BY <1>1, <3>2, <4>1, <4>2, StartOrigins, StopOrigins DEF SubsInv, runVars
    <3>3. CASE shutdown
      <4>1. /\ srcOrigin' = [s \in Origined |-> 0] /\ taskOrigin' = [k \in TaskKeys |-> 0]
            /\ liveOrigins' = {} /\ boxLive' = {} /\ issued' = issued /\ loc' = "down"
            /\ sources' = sources /\ hostUp' = hostUp
        BY <3>3, Zenon DEF shutdown
      <4>2. Owned' = {}
        BY <4>1 DEF Owned
      <4>3. Distinct'
        BY <4>1 DEF Distinct, Typed
      <4> QED
        BY <4>1, <4>2, <4>3, Zenon DEF OriginsInv, OriginsAgree
    <3> QED
      BY <1>3, <2>1, <3>1, <3>2, <3>3, OriginKinds
  <2>3. KeyInv' /\ ((~subsDirty' /\ model' \notin BadModels /\ (exit' = NoExit \/ loc' = "batch"))
                      => sources = Subscribe[model'])
    <3>0. exit' = NoExit => exit = NoExit
      BY ExitStays
    <3>1. CASE UNCHANGED progVars /\ (loc' = "batch" => loc = "batch" \/ exit = NoExit)
      BY <1>1, <1>a, <2>2, <3>0, <3>1, Zenon DEF SubsInv, KeyInv, progVars
    <3>2. CASE ReconcileSkipped
      <4>1. UNCHANGED <<model, subsKey, distrusted>> /\ KeyKnown /\ ~KeyTooNarrow
        BY <3>2, Zenon DEF ReconcileSkipped, KeySkips
      <4>2. KeyInv'
        BY <1>1, <1>a, <2>2, <4>1, Zenon DEF SubsInv, KeyInv
      <4>3. model \notin BadModels => sources = Subscribe[model]
        <5>1. CASE Debug
          BY <4>1, <5>1, Zenon DEF KeyTooNarrow
        <5>2. CASE ~Debug
          <6>1. subsKey # NoKey /\ HasSubsKey /\ ~distrusted /\ subsKey = SubsKeyOf[model]
            BY <4>1, KernelAssumption DEF KeyKnown, Typed, SubsKeyOf, Models
          <6>2. PICK m \in Models : SubsKeyOf[m] = subsKey /\ Subscribe[m] = sources
            BY <1>1, <6>1, Zenon DEF SubsInv, KeyInv
          <6>3. \A m1, m2 \in Models : SubsKeyOf[m1] = SubsKeyOf[m2] => Subscribe[m1] = Subscribe[m2]
            BY <5>2, KernelAssumption, Zenon DEF Typed, Debug, Models, SubsKeyOf, Subscribe
          <6> QED
            BY <6>1, <6>2, <6>3, Zenon DEF Typed
        <5> QED
          BY <5>1, <5>2
      <4> QED
        BY <4>1, <4>2, <4>3, Zenon
    <3>3. CASE SubscribeThrows
      <4>1. model' = model /\ model \in BadModels /\ subsKey' = NoKey
        BY <3>3, Zenon DEF SubscribeThrows
      <4> QED
        BY <1>a, <4>1, Zenon DEF KeyInv
    <3>4. ASSUME NEW m, NEW c, FoldOk(m, c) 
          PROVE  subsDirty' = TRUE /\ UNCHANGED <<subsKey, distrusted>>
      BY <3>4, Zenon DEF FoldOk
    <3>5. ASSUME NEW m, FoldThrows(m)
          PROVE  /\ UNCHANGED <<subsDirty, subsKey, distrusted>>
                 /\ model' = model \/ (exit' # NoExit /\ loc' # "batch")
                 /\ loc = "batch"
      <4>1. /\ (m = model \/ OnFault = "stop") /\ fault_raised(OnFault = "skip") /\ model' = m
            /\ loc' = IF exit' # NoExit THEN "batchEnd" ELSE "batch"
            /\ UNCHANGED <<subsDirty, subsKey, distrusted>> /\ loc = "batch"
        BY <3>5, Zenon DEF FoldThrows, MessageReady, MessageNext
      <4>2. OnFault = "stop" => exit' # NoExit
        BY <3>0, <4>1 DEF fault_raised, NoExit
      <4> QED
        BY <4>1, <4>2
    <3> QED
      BY <1>1, <1>3, <1>a, <2>1, <2>2, <3>0, <3>1, <3>2, <3>3, <3>4, <3>5, ProgKinds, Zenon
         DEF SubsInv, KeyInv
  <2>4. loc' # "down" => loc # "down"
    BY <1>3, ProgKinds
  <2> QED
    BY <1>1, <1>a, <2>2, <2>3, <2>4, Zenon DEF SubsInv
<1> QED
  BY <1>0, <1>1, <1>2, <1>3, ReconciledSubs

\* The kernel starts with nothing running.
LEMMA SubsInit ==
  ASSUME Init
  PROVE  Places /\ SubsInv
<1>1. Places
  BY Zenon DEF Init, Places
<1>2. /\ srcOrigin = [s \in Origined |-> 0] /\ taskOrigin = [k \in TaskKeys |-> 0]
      /\ liveOrigins = {} /\ boxLive = {} /\ issued = 0 /\ sources = {} /\ hostUp = {}
      /\ subsKey = NoKey /\ subsDirty = TRUE
  BY Zenon DEF Init
<1>3. Owned = {} /\ Distinct /\ Running = {}
  BY <1>2 DEF Owned, Distinct, Running
<1> QED
  BY <1>1, <1>2, <1>3 DEF SubsInv, OriginsInv, OriginsAgree, KeyInv

\* The invariants of the subscriptions, for every program whose host sources
\* throw only where a fault stops it.
LEMMA SubsInvariant ==
  ASSUME HostsStop
  PROVE  Spec => [](Typed /\ Places /\ (Sound => SubsInv))
<1>1. Init => Typed /\ Places /\ (Sound => SubsInv)
  BY TypedInit, SubsInit
<1>2. Typed /\ Places /\ (Sound => SubsInv) /\ [Next]_vars
        => (Typed /\ Places /\ (Sound => SubsInv))'
  <2> SUFFICES ASSUME Typed, Places, Sound => SubsInv, [Next]_vars
               PROVE  Typed' /\ Places' /\ (Sound' => SubsInv')
    BY Zenon
  <2> QED
    BY TypedStep, PlacesStep, SubsStep, Zenon
<1> QED
  BY <1>1, <1>2, PTL DEF Spec

\* Outside a change, exactly the sources subscribe() asks for run, and the two
\* places that check origins agree with what runs at every step, also after
\* subscribe() threw and with subs_key skipping calls (reconcile,
\* kernel.hpp:938-1012), for every program whose host sources do not throw.
THEOREM SubscriptionsAreMatched ==
  ASSUME \A p \in Programs : ~p.hostThrows
  PROVE  Spec => []SubscriptionsMatch
<1>1. HostsStop
  BY DEF HostsStop
<1>2. Typed /\ Places /\ (Sound => SubsInv) => SubscriptionsMatch
  <2> SUFFICES ASSUME Typed, Places, Sound => SubsInv PROVE SubscriptionsMatch
    OBVIOUS
  <2>1. SubsInv
    BY DEF Sound, HostThrows, Typed
  <2> QED
    BY <2>1, Zenon DEF SubsInv, OriginsInv, SubscriptionsMatch, Running
<1> QED
  BY <1>1, <1>2, SubsInvariant, PTL

\* The same up to the quit, for host sources that throw where a fault stops
\* the program.
THEOREM SubscriptionsMatchedUntilQuit ==
  ASSUME \A p \in Programs : p.hostThrows => p.on_fault = "stop"
  PROVE  Spec => [](exit = NoExit => SubscriptionsMatch)
<1>1. HostsStop
  BY DEF HostsStop
<1>2. Typed /\ Places /\ (Sound => SubsInv) => (exit = NoExit => SubscriptionsMatch)
  BY Zenon DEF Sound, SubsInv, OriginsInv, SubscriptionsMatch, Running
<1> QED
  BY <1>1, <1>2, SubsInvariant, PTL
-----------------------------------------------------------------------------
(* What update() sees *)

\* No host source throws, and subscribe() does not throw where a fault stops
\* the program: without the second, a fold in mid-batch goes on after the stop
\* (kernel.hpp:616-646).
Gentle ==
  \A p \in Programs : ~p.hostThrows /\ (p.on_fault = "stop" => p.bad = {})

\* Effects wait only inside interpret(), and none waits after a quit; nor does
\* fold_pending take another message then.
QuitInv ==
  /\ loc # "interpret" => cmd = <<>>
  /\ exit # NoExit => loc # "batch" /\ cmd = <<>>

\* Under skip a fault does not stop the program.
LEMMA SkipGoesOn ==
  ASSUME Typed, OnFault # "stop", fault_raised(TRUE)
  PROVE  exit' = exit
BY DEF fault_raised

\* A step leaves no effect and no message to a program that quit.
LEMMA QuitStep ==
  ASSUME Typed, Places, Gentle, QuitInv, [Next]_vars
  PROVE  QuitInv'
<1> USE DEF foldVars, queueVars, progVars, runVars, taskVars, liveVars, boxVars, errVars,
            turnVars, seqVars
<1>0. exit' = NoExit => exit = NoExit
  BY ExitStays
<1>1. CASE UNCHANGED vars
  BY <1>1, Zenon DEF vars, QuitInv
<1>2. CASE interpret
  <2>1. CASE Interpreted
    BY <2>1 DEF Interpreted, QuitInv
  <2>2. CASE interpret /\ ~Interpreted
    <3>1. /\ loc = "interpret" /\ loc' = loc /\ cmd # <<>>
          /\ exit' = exit \/ cmd' = <<>>
      BY <2>2, Zenon DEF interpret, fxQuit, fxSend, fxThrow, fxAfterUnkeyed, fxAfterKeyed,
         start_keyed_task, fxCancel, Interpreting
    <3> QED
      BY <3>1 DEF QuitInv
  <2> QED
    BY <1>2, <2>1, <2>2
<1>3. CASE reconcile
  <2>1. ~(\E h \in HostSources : SourceThrows(h))
    BY Zenon DEF SourceThrows, HostThrows, Gentle, Typed
  <2>2. UNCHANGED <<loc, cmd>>
    BY <1>3, Zenon DEF reconcile, ReconcileSkipped, SubscribeThrows, Reconciled, SourceThrows
  <2>3. exit' = exit
    <3>1. CASE SubscribeThrows
      <4>1. model \in BadModels /\ fault_raised(TRUE)
        BY <3>1, Zenon DEF SubscribeThrows
      <4>2. OnFault # "stop"
        BY <4>1 DEF Gentle, Typed, OnFault, BadModels
      <4> QED
        BY <4>1, <4>2, SkipGoesOn
    <3>2. CASE ReconcileSkipped \/ Reconciled
      BY <3>2, Zenon DEF ReconcileSkipped, Reconciled
    <3> QED
      BY <1>3, <2>1, <3>1, <3>2 DEF reconcile
  <2> QED
    BY <2>2, <2>3, Zenon DEF QuitInv
<1>4. CASE fold_pending
  <2>1. CASE TakeBatch
    BY <2>1 DEF TakeBatch, QuitInv
  <2>2. CASE FoldDone
    BY <2>2 DEF FoldDone, QuitInv
  <2>3. CASE DropStale
    BY <2>3 DEF DropStale, MessageNext, QuitInv
  <2>4. CASE BatchOver
    BY <2>4 DEF BatchOver, QuitInv
  <2>5. ASSUME NEW m, FoldThrows(m) PROVE QuitInv'
    <3>1. loc = "batch" /\ cmd' = cmd /\ loc' = IF exit' # NoExit THEN "batchEnd" ELSE "batch"
      BY <2>5, Zenon DEF FoldThrows, MessageReady, MessageNext
    <3> QED
      BY <3>1 DEF QuitInv
  <2>6. ASSUME NEW m, NEW c, FoldOk(m, c) PROVE QuitInv'
    <3>1. loc = "batch" /\ exit' = exit /\ loc' = "interpret"
      BY <2>6, Zenon DEF FoldOk, MessageReady, MessageNext
    <3> QED
      BY <3>1 DEF QuitInv
  <2> QED
    BY <1>4, <2>1, <2>2, <2>3, <2>4, <2>5, <2>6 DEF fold_pending
<1>5. CASE driver
  <2>1. /\ cmd' = cmd /\ loc \in {"out", "faults", "swap", "timers", "end"}
        /\ loc' \in {"out", "down", "faults", "swap", "timers", "fold"}
    BY <1>5, Zenon DEF driver, route, Routed, dispatch, stop, view_faulted, StepIdle, StepDrain,
       ReadFlag, TakeErrors, StepTimers, Return, shutdown
  <2> QED
    BY <2>1 DEF QuitInv
<1>6. CASE (\E o \in Senders : Post(o)) \/ RaiseError \/ RaiseFlag
  BY <1>6, Zenon DEF Post, RaiseError, RaiseFlag, QuitInv
<1> QED
  BY <1>1, <1>2, <1>3, <1>4, <1>5, <1>6 DEF Next, Loop

\* Only a fold counts a message.
LEMMA FoldsOnly ==
  ASSUME Typed, Next
  PROVE  \/ n' = n /\ model' = model
         \/ n' = 0 /\ exit = NoExit
         \/ MessageReady
<1> USE DEF foldVars, queueVars, progVars, runVars, taskVars, liveVars, boxVars, errVars,
            turnVars, seqVars
<1>1. CASE interpret
  BY <1>1, Zenon DEF interpret, fxQuit, fxSend, fxThrow, fxAfterUnkeyed, fxAfterKeyed,
     start_keyed_task, fxCancel, Interpreted
<1>2. CASE reconcile
  BY <1>2, Zenon DEF reconcile, ReconcileSkipped, SubscribeThrows, Reconciled, SourceThrows
<1>3. CASE fold_pending
  BY <1>3, Zenon DEF fold_pending, FoldDone, TakeBatch, BatchOver, DropStale, FoldThrows, FoldOk
<1>4. CASE driver
  BY <1>4, Zenon DEF driver, route, Routed, Enter, dispatch, stop, view_faulted, StepIdle,
     StepDrain, ReadFlag, TakeErrors, StepTimers, Return, shutdown
<1>5. CASE (\E o \in Senders : Post(o)) \/ RaiseError \/ RaiseFlag
  BY <1>5, Zenon DEF Post, RaiseError, RaiseFlag
<1> QED
  BY <1>1, <1>2, <1>3, <1>4, <1>5 DEF Next, Loop

\* A message that is folded comes from a source or run the program wants.
LEMMA FoldsWanted ==
  ASSUME Typed, Places, SubsInv, [Next]_vars, n' > n, Head(batch).from # 0
  PROVE  Wanted(Head(batch).from)
<1>1. MessageReady
  <2>1. n \in Nat /\ Next
    BY DEF Typed, vars, foldVars
  <2>2. ~(n' = n) /\ ~(n' = 0)
    BY <2>1
  <2> QED
    BY <2>1, <2>2, FoldsOnly
<1>2. loc = "batch" /\ ~subsDirty /\ Head(batch).from \in Owned
  BY <1>1, Zenon DEF MessageReady, MessageNext, SubsInv, OriginsInv, OriginsAgree
<1>3. CASE \E k \in TaskKeys : taskOrigin[k] = Head(batch).from
  BY <1>3, Zenon DEF Wanted
<1>4. CASE \E s \in Origined : srcOrigin[s] = Head(batch).from
  <2>1. PICK s \in Origined : srcOrigin[s] = Head(batch).from
    BY <1>4
  <2>2. s \in Running /\ Running = sources
    BY <1>2, <2>1 DEF Running, SubsInv
  <2>3. model \notin BadModels => sources = Subscribe[model]
    BY <1>2, Zenon DEF SubsInv
  <2>4. s \in (IF model \in BadModels THEN sources ELSE Subscribe[model])
    BY <2>2, <2>3
  <2> QED
    BY <2>1, <2>4, Zenon DEF Wanted
<1> QED
  BY <1>2, <1>3, <1>4 DEF Owned

\* Once the program quits, a step folds nothing and starts no effect.
LEMMA QuitsAtOnce ==
  ASSUME Typed, Places, QuitInv, [Next]_vars, exit # NoExit
  PROVE  /\ exit' = exit /\ model' = model /\ n' = n
         /\ plainTimers' <= plainTimers
         /\ \A k \in TaskKeys : taskOrigin'[k] \in {0, taskOrigin[k]}
<1> USE DEF foldVars, queueVars, progVars, runVars, taskVars, liveVars, boxVars, errVars,
            turnVars, seqVars
<1>0. exit' = exit /\ loc # "batch" /\ cmd = <<>> /\ plainTimers \in Nat
  BY ExitStays DEF QuitInv, Typed
<1>1. CASE UNCHANGED vars
  BY <1>0, <1>1 DEF vars
<1>2. CASE Next
  <2>1. model' = model /\ n' = n
    BY <1>0, <1>2, FoldsOnly DEF MessageReady, MessageNext
  <2>2. ~(\E op \in {"quit", "send", "throw", "after", "task", "cancel"} : Interpreting(op))
    BY <1>0 DEF Interpreting
  <2>3. \/ UNCHANGED <<plainTimers, taskOrigin>>
        \/ StepTimers \/ shutdown
    BY <1>2, <2>2, ZenonT(60) DEF Next, Loop, interpret, fxQuit, fxSend, fxThrow, fxAfterUnkeyed,
       fxAfterKeyed, start_keyed_task, fxCancel, Interpreted, reconcile, ReconcileSkipped,
       SubscribeThrows, Reconciled, SourceThrows, fold_pending, TakeBatch, FoldDone,
       DropStale, BatchOver, FoldThrows, FoldOk, driver, route, Routed, dispatch, stop,
       view_faulted, StepIdle, StepDrain, ReadFlag, TakeErrors, Return,
       Post, RaiseError, RaiseFlag
  <2>4. CASE StepTimers
    <3>1. taskOrigin' = taskOrigin /\ \E plain \in 0..plainTimers : plainTimers' = plainTimers - plain
      BY <2>4, Zenon DEF StepTimers
    <3> QED
      BY <1>0, <2>1, <3>1
  <2>5. CASE shutdown
    <3>1. taskOrigin' = [k \in TaskKeys |-> 0] /\ plainTimers' = 0
      BY <2>5, Zenon DEF shutdown
    <3> QED
      BY <1>0, <2>1, <3>1
  <2>6. CASE UNCHANGED <<plainTimers, taskOrigin>>
    BY <1>0, <2>1, <2>6
  <2> QED
    BY <2>3, <2>4, <2>5, <2>6
<1> QED
  BY <1>1, <1>2

\* update() sees no message of a source or run that is gone, wherever the
\* message waited, and none after a quit, nor is an effect run then
\* (fold_pending, kernel.hpp:616-646), for every program whose host sources do
\* not throw and whose subscribe() does not throw where a fault stops it.
THEOREM OnlyWhatCountsIsFolded ==
  ASSUME \A p \in Programs : ~p.hostThrows /\ (p.on_fault = "stop" => p.bad = {})
  PROVE  Spec => FoldsWhatCounts
<1>1. HostsStop /\ Gentle
  BY DEF HostsStop, Gentle
<1>2. Spec => [](Typed /\ Places /\ (Sound => SubsInv))
  BY <1>1, SubsInvariant
<1>3. Init => QuitInv
  BY DEF Init, QuitInv
<1>4. Typed /\ Places /\ (Sound => SubsInv) /\ QuitInv /\ [Next]_vars => QuitInv'
  BY <1>1, QuitStep
<1>5. Typed /\ Places /\ (Sound => SubsInv) /\ QuitInv /\ [Next]_vars
        => /\ [n' > n /\ Head(batch).from # 0 => Wanted(Head(batch).from)]_vars
           /\ [exit # NoExit =>
                 /\ exit' = exit /\ model' = model /\ n' = n
                 /\ plainTimers' <= plainTimers
                 /\ \A k \in TaskKeys : taskOrigin'[k] \in {0, taskOrigin[k]}]_vars
  <2> SUFFICES ASSUME Typed, Places, Sound => SubsInv, QuitInv, [Next]_vars
               PROVE  /\ n' > n /\ Head(batch).from # 0 => Wanted(Head(batch).from)
                      /\ exit # NoExit =>
                           /\ exit' = exit /\ model' = model /\ n' = n
                           /\ plainTimers' <= plainTimers
                           /\ \A k \in TaskKeys : taskOrigin'[k] \in {0, taskOrigin[k]}
    BY Zenon
  <2>1. SubsInv
    BY <1>1 DEF Gentle, Sound, HostThrows, Typed
  <2> QED
    BY <2>1, FoldsWanted, QuitsAtOnce, Zenon
<1> QED
  BY <1>2, <1>3, <1>4, <1>5, PTL DEF Spec, FoldsWhatCounts, NoStaleFold, QuitStopsBatch
=============================================================================
