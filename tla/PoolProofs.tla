----------------------------- MODULE PoolProofs -----------------------------
(* Proofs about Pool, for any jobs, workers and calls of shutdown.          *)
EXTENDS Pool, FiniteSetTheorems, TLAPS

-----------------------------------------------------------------------------
(* Counters *)

\* idle counts the workers inside their wait.
Sleeping  == {w \in Workers : wpc[w] \in {"asleep", "woken"}}
IdleCount == idle = Cardinality(Sleeping)

\* isolated_running counts the isolated jobs from before their thread exists
\* until after their captures are gone.
Isolating     == {j \in Jobs : ppc[j] = "counted" \/ ipc[j] \in {"run", "count"}}
IsolatedCount ==
  /\ isolated_running = Cardinality(Isolating)
  /\ \A j \in Jobs : ppc[j] \in {"idle", "counted"} => ipc[j] = "none"

\* exited counts the workers that left; workers_ holds all of them until the
\* shutdown takes it and notes their number.
Exited    == {w \in Workers : wpc[w] \in {"notify", "gone"}}
Spawned   == {w \in Workers : wpc[w] # "none"}
ExitCount ==
  /\ exited = Cardinality(Exited)
  /\ ~stopping => workers = Spawned
  /\ stopping => to_exit = Cardinality(Spawned) /\ queue = <<>>

Counts == IdleCount /\ IsolatedCount /\ ExitCount

\* Sets of workers and of jobs are finite.
LEMMA FiniteSets ==
  /\ \A S \in SUBSET Workers : IsFiniteSet(S) /\ Cardinality(S) \in Nat
  /\ \A S \in SUBSET Jobs : IsFiniteSet(S) /\ Cardinality(S) \in Nat
BY PoolAssumption, FS_Subset, FS_CardinalityType

-----------------------------------------------------------------------------
(* Type correctness *)

\* The constructor leaves every field well typed and every counter zero.
LEMMA InitTyped == Init => TypeOK /\ Counts
<1> SUFFICES ASSUME Init PROVE TypeOK /\ Counts
  OBVIOUS
<1>1. stopping \in BOOLEAN
  BY Zenon DEF Init
<1>2. TypeOK
  BY <1>1 DEF Init, TypeOK, WorkerPcs, ThreadPcs, PosterPcs, StopperPcs, Statuses
<1>3. Sleeping = {} /\ Isolating = {} /\ Exited = {} /\ Spawned = {}
  BY DEF Init, Sleeping, Isolating, Exited, Spawned
<1>4. Counts
  BY <1>3, FS_EmptySet DEF Init, Counts, IdleCount, IsolatedCount, ExitCount
<1> QED
  BY <1>2, <1>4

\* A call that posts a job keeps the types.
LEMMA PosterTyped ==
  ASSUME TypeOK, Counts, NEW j \in Jobs, PosterStep(j)
  PROVE  TypeOK'
<1> USE DEF PosterPcs, Statuses, PostGoto, Mark, coreVars, workVars, stopVars
<1>1. CASE post_job_Stopped(j) \/ IsolatedStopped(j)
  BY <1>1, Zenon DEF post_job_Stopped, IsolatedStopped, TypeOK
<1>2. CASE post_job(j)
  <2>1. /\ wpc' \in [Workers -> WorkerPcs] /\ workers' \subseteq Workers
        /\ refused' \subseteq {"worker", "isolated"}
    BY <1>2, Zenon DEF post_job, spawn_worker, WorkerPcs, TypeOK
  <2>2. queue' \in Seq(Jobs)
    BY <1>2 DEF post_job, TypeOK
  <2> QED
    BY <1>2, <2>1, <2>2 DEF post_job, TypeOK
<1>3. CASE NotifyOne(j)
  <2>1. wpc' \in [Workers -> WorkerPcs]
    BY <1>3, ZenonT(60) DEF NotifyOne, WorkerPcs, TypeOK
  <2> QED
    BY <1>3, <2>1 DEF NotifyOne, TypeOK
<1>4. CASE post_isolated_job(j)
  BY <1>4 DEF post_isolated_job, TypeOK
<1>5. CASE ThreadCreated(j)
  BY <1>5 DEF ThreadCreated, ThreadPcs, TypeOK
<1>6. CASE ThreadRefused(j)
  <2>1. isolated_running' \in Nat
    <3>1. j \in Isolating
      BY <1>6 DEF ThreadRefused, Isolating
    <3>2. Isolating \in SUBSET Jobs
      BY DEF Isolating
    <3>3. Cardinality(Isolating) # 0
      BY <3>1, <3>2, FiniteSets, FS_EmptySet
    <3> QED
      BY <1>6, <3>3 DEF ThreadRefused, Counts, IsolatedCount, TypeOK
  <2> QED
    BY <1>6, <2>1 DEF ThreadRefused, TypeOK
<1>7. CASE Track(j)
  BY <1>7 DEF Track, TypeOK
<1> QED
  BY <1>1, <1>2, <1>3, <1>4, <1>5, <1>6, <1>7, Zenon DEF PosterStep

\* The thread of an isolated job keeps the types.
LEMMA IsolatedTyped ==
  ASSUME TypeOK, Counts, NEW j \in Jobs, IsolatedStep(j)
  PROVE  TypeOK'
<1> USE DEF ThreadPcs, Statuses, IsolatedGoto, Mark, coreVars, workVars, stopVars
<1>1. CASE IsolatedReturns(j)
  BY <1>1 DEF IsolatedReturns, TypeOK
<1>2. CASE IsolatedCountOut(j)
  <2>1. j \in Isolating /\ Isolating \in SUBSET Jobs
    BY <1>2 DEF IsolatedCountOut, Isolating
  <2>2. Cardinality(Isolating) # 0
    BY <2>1, FiniteSets, FS_EmptySet
  <2>3. isolated_running' \in Nat
    BY <1>2, <2>2 DEF IsolatedCountOut, Counts, IsolatedCount, TypeOK
  <2> QED
    BY <1>2, <2>3 DEF IsolatedCountOut, TypeOK
<1>3. CASE IsolatedNotify(j)
  BY <1>3 DEF IsolatedNotify, WakeStoppers, StopperPcs, TypeOK
<1> QED
  BY <1>1, <1>2, <1>3 DEF IsolatedStep

\* A worker that looks leaves idle a natural number.
LEMMA IdleNat ==
  ASSUME TypeOK, Counts, NEW w \in Workers, Looks(w)
  PROVE  IdleElse(w) \in Nat
<1>1. CASE wpc[w] = "woken"
  <2>1. w \in Sleeping /\ Sleeping \in SUBSET Workers
    BY <1>1 DEF Sleeping
  <2>2. Cardinality(Sleeping) # 0
    BY <2>1, FiniteSets, FS_EmptySet
  <2> QED
    BY <1>1, <2>2 DEF IdleElse, Counts, IdleCount, TypeOK
<1>2. CASE wpc[w] # "woken"
  BY <1>2 DEF IdleElse, TypeOK
<1> QED
  BY <1>1, <1>2

\* A shared worker keeps the types.
LEMMA WorkerTyped ==
  ASSUME TypeOK, Counts, NEW w \in Workers, WorkerStep(w)
  PROVE  TypeOK'
<1> USE DEF WorkerPcs, WorkerGoto, coreVars, workVars, stopVars
<1>1. CASE WorkerSleeps(w) \/ WorkerLeaves(w)
  <2>1. idle' \in Nat
    BY <1>1, IdleNat DEF WorkerSleeps, WorkerLeaves
  <2> QED
    BY <1>1, <2>1, Zenon DEF WorkerSleeps, WorkerLeaves, TypeOK
<1>2. CASE WorkerTakes(w)
  <2>1. idle' \in Nat
    BY <1>2, IdleNat DEF WorkerTakes
  <2>2. Head(queue) \in Jobs /\ queue' \in Seq(Jobs)
    BY <1>2 DEF WorkerTakes, TypeOK
  <2> QED
    BY <1>2, <2>1, <2>2 DEF WorkerTakes, Mark, Statuses, TypeOK
<1>3. CASE WorkerReturns(w)
  BY <1>3, Zenon DEF WorkerReturns, Mark, Statuses, TypeOK
<1>4. CASE WorkerExits(w)
  BY <1>4 DEF WorkerExits, TypeOK
<1>5. CASE WorkerWokenForNothing(w)
  BY <1>5 DEF WorkerWokenForNothing, TypeOK
<1>6. CASE WorkerNotify(w)
  BY <1>6 DEF WorkerNotify, WakeStoppers, StopperPcs, TypeOK
<1> QED
  BY <1>1, <1>2, <1>3, <1>4, <1>5, <1>6, Zenon DEF WorkerStep

\* A shutdown keeps the types.
LEMMA StopperTyped ==
  ASSUME TypeOK, NEW s \in Stoppers, StopperStep(s)
  PROVE  TypeOK'
<1> USE DEF StopperPcs, StopGoto, coreVars, workVars, stopVars
<1>1. CASE StopFirst(s)
  <2>1. to_exit' \in Nat
    BY <1>1, FiniteSets DEF StopFirst, TypeOK
  <2>2. stopping' \in BOOLEAN
    BY <1>1, Zenon DEF StopFirst
  <2>3. jst' \in [Jobs -> Statuses]
    BY <1>1 DEF StopFirst, Statuses, TypeOK
  <2>4. queue' \in Seq(Jobs)
    BY <1>1 DEF StopFirst
  <2> QED
    BY <1>1, <2>1, <2>2, <2>3, <2>4 DEF StopFirst, TypeOK
<1>2. CASE StopAgain(s) \/ StopWaits(s) \/ StopTimesOut(s) \/ StopWokenForNothing(s)
           \/ StopJoins(s)
  BY <1>2, Zenon DEF StopAgain, StopWaits, StopTimesOut, StopWokenForNothing, StopJoins,
     TypeOK
<1>3. CASE AskAll(s)
  BY <1>3 DEF AskAll, WorkerPcs, TypeOK
<1>4. CASE StopAbandons(s)
  BY <1>4 DEF StopAbandons, TypeOK
<1> QED
  BY <1>1, <1>2, <1>3, <1>4 DEF StopperStep
-----------------------------------------------------------------------------
(* The counters are exact *)

\* One element more or one less changes the number by one.
LEMMA CardinalityStep ==
  ASSUME NEW S, NEW x, IsFiniteSet(S)
  PROVE  /\ x \notin S => Cardinality(S \cup {x}) = Cardinality(S) + 1
         /\ x \in S => Cardinality(S \ {x}) = Cardinality(S) - 1
BY FS_AddElement, FS_RemoveElement

\* The sets that are counted are finite.
LEMMA CountedFinite ==
  /\ IsFiniteSet(Sleeping) /\ IsFiniteSet(Isolating)
  /\ IsFiniteSet(Exited) /\ IsFiniteSet(Spawned)
<1>1. /\ Sleeping \in SUBSET Workers /\ Isolating \in SUBSET Jobs
      /\ Exited \in SUBSET Workers /\ Spawned \in SUBSET Workers
  BY DEF Sleeping, Isolating, Exited, Spawned
<1> QED
  BY <1>1, FiniteSets

\* A call that posts a job keeps the counters exact.
LEMMA PosterCounts ==
  ASSUME TypeOK, Counts, NEW j \in Jobs, PosterStep(j)
  PROVE  Counts'
<1> USE DEF PostGoto, Mark, coreVars, workVars, stopVars
<1>1. CASE post_job_Stopped(j) \/ IsolatedStopped(j)
  <2>1. Isolating' = Isolating /\ \A k \in Jobs : ppc'[k] \in {"idle", "counted"} =>
                                                ppc[k] \in {"idle", "counted"}
    BY <1>1 DEF post_job_Stopped, IsolatedStopped, PostsShared, Isolating, Counts,
       IsolatedCount, TypeOK
  <2> QED
    BY <1>1, <2>1, ZenonT(60) DEF post_job_Stopped, IsolatedStopped, Counts, IdleCount,
       IsolatedCount,
       ExitCount, Sleeping, Exited, Spawned
<1>2. CASE post_job(j)
  <2>1. Isolating' = Isolating /\ \A k \in Jobs : ppc'[k] \in {"idle", "counted"} =>
                                                ppc[k] \in {"idle", "counted"}
    BY <1>2 DEF post_job, PostsShared, Isolating, Counts, IsolatedCount, TypeOK
  <2>2. Sleeping' = Sleeping /\ Exited' = Exited /\ workers' = Spawned'
    BY <1>2 DEF post_job, spawn_worker, Sleeping, Exited, Spawned, Counts, ExitCount, TypeOK
  <2> QED
    BY <1>2, <2>1, <2>2 DEF post_job, Counts, IdleCount, IsolatedCount, ExitCount
<1>3. CASE NotifyOne(j)
  <2>1. Isolating' = Isolating /\ \A k \in Jobs : ppc'[k] \in {"idle", "counted"} =>
                                                ppc[k] \in {"idle", "counted"}
    BY <1>3 DEF NotifyOne, Isolating, TypeOK
  <2>2. Sleeping' = Sleeping /\ Exited' = Exited /\ Spawned' = Spawned
    BY <1>3 DEF NotifyOne, Sleeping, Exited, Spawned, TypeOK
  <2> QED
    BY <1>3, <2>1, <2>2 DEF NotifyOne, Counts, IdleCount, IsolatedCount, ExitCount
<1>4. CASE post_isolated_job(j)
  <2>1. Isolating' = Isolating \cup {j} /\ j \notin Isolating
    BY <1>4 DEF post_isolated_job, Isolating, Counts, IsolatedCount, TypeOK
  <2>2. isolated_running' = Cardinality(Isolating')
    BY <1>4, <2>1, CountedFinite, CardinalityStep DEF post_isolated_job, Counts,
       IsolatedCount
  <2>3. \A k \in Jobs : ppc'[k] \in {"idle", "counted"} => ppc[k] \in {"idle", "counted"}
    BY <1>4 DEF post_isolated_job, TypeOK
  <2> QED
    BY <1>4, <2>2, <2>3 DEF post_isolated_job, Counts, IdleCount, IsolatedCount, ExitCount,
       Sleeping, Exited, Spawned
<1>5. CASE ThreadCreated(j)
  <2>1. Isolating' = Isolating
    BY <1>5 DEF ThreadCreated, Isolating, TypeOK
  <2>2. \A k \in Jobs : ppc'[k] \in {"idle", "counted"} => k # j /\ ppc'[k] = ppc[k]
    BY <1>5 DEF ThreadCreated, TypeOK
  <2>3. \A k \in Jobs : k # j => ipc'[k] = ipc[k]
    BY <1>5 DEF ThreadCreated, TypeOK
  <2> QED
    BY <1>5, <2>1, <2>2, <2>3 DEF ThreadCreated, Counts, IdleCount, IsolatedCount,
       ExitCount,
       Sleeping, Exited, Spawned
<1>6. CASE ThreadRefused(j)
  <2>1. Isolating' = Isolating \ {j} /\ j \in Isolating
    BY <1>6 DEF ThreadRefused, Isolating, Counts, IsolatedCount, TypeOK
  <2>2. isolated_running' = Cardinality(Isolating')
    BY <1>6, <2>1, CountedFinite, CardinalityStep DEF ThreadRefused, Counts, IsolatedCount
  <2>3. \A k \in Jobs : ppc'[k] \in {"idle", "counted"} => ppc[k] \in {"idle", "counted"}
    BY <1>6 DEF ThreadRefused, TypeOK
  <2> QED
    BY <1>6, <2>2, <2>3 DEF ThreadRefused, Counts, IdleCount, IsolatedCount, ExitCount,
       Sleeping, Exited, Spawned
<1>7. CASE Track(j)
  <2>1. Isolating' = Isolating /\ \A k \in Jobs : ppc'[k] \in {"idle", "counted"} =>
                                                ppc[k] \in {"idle", "counted"}
    BY <1>7 DEF Track, Isolating, TypeOK
  <2> QED
    BY <1>7, <2>1 DEF Track, Counts, IdleCount, IsolatedCount, ExitCount, Sleeping, Exited,
       Spawned
<1> QED
  BY <1>1, <1>2, <1>3, <1>4, <1>5, <1>6, <1>7 DEF PosterStep

\* The thread of an isolated job keeps the counters exact.
LEMMA IsolatedCounts ==
  ASSUME TypeOK, Counts, NEW j \in Jobs, IsolatedStep(j)
  PROVE  Counts'
<1> USE DEF IsolatedGoto, Mark, coreVars, workVars, stopVars
<1>1. \A k \in Jobs : ppc'[k] \in {"idle", "counted"} => ipc'[k] = "none"
  BY Zenon DEF IsolatedStep, IsolatedReturns, IsolatedCountOut, IsolatedNotify, Counts,
     IsolatedCount, TypeOK
<1>2. CASE IsolatedReturns(j) \/ IsolatedNotify(j)
  <2>1. Isolating' = Isolating
    BY <1>2 DEF IsolatedReturns, IsolatedNotify, Isolating, TypeOK
  <2>2. UNCHANGED <<coreVars, workers, workVars>>
    BY <1>2 DEF IsolatedReturns, IsolatedNotify
  <2> QED
    BY <1>1, <2>1, <2>2 DEF Counts, IdleCount, IsolatedCount, ExitCount, Sleeping, Exited,
       Spawned
<1>3. CASE IsolatedCountOut(j)
  <2>1. Isolating' = Isolating \ {j} /\ j \in Isolating
    <3>1. ppc[j] # "counted" /\ ppc' = ppc /\ ipc[j] = "count" /\ ipc'[j] = "notify"
      BY <1>3 DEF IsolatedCountOut, Counts, IsolatedCount, TypeOK
    <3>2. \A k \in Jobs : k # j => ipc'[k] = ipc[k]
      BY <1>3, Zenon DEF IsolatedCountOut, TypeOK
    <3> QED
      BY <3>1, <3>2 DEF Isolating
  <2>2. isolated_running' = Cardinality(Isolating')
    BY <1>3, <2>1, CountedFinite, CardinalityStep DEF IsolatedCountOut, Counts,
       IsolatedCount
  <2> QED
    BY <1>1, <1>3, <2>2 DEF IsolatedCountOut, Counts, IdleCount, IsolatedCount, ExitCount,
       Sleeping, Exited, Spawned
<1> QED
  BY <1>2, <1>3, Zenon DEF IsolatedStep

\* A worker that looks and does not sleep is not counted as idle any more.
LEMMA IdleLeft ==
  ASSUME TypeOK, Counts, NEW w \in Workers, Looks(w), NEW l \in {"run", "leave"},
         WorkerGoto(w, l), idle' = IdleElse(w)
  PROVE  IdleCount'
<1>1. CASE wpc[w] = "woken"
  <2>1. Sleeping' = Sleeping \ {w} /\ w \in Sleeping
    BY <1>1 DEF Sleeping, WorkerGoto, TypeOK
  <2> QED
    BY <1>1, <2>1, CountedFinite, CardinalityStep DEF IdleElse, Counts, IdleCount
<1>2. CASE wpc[w] # "woken"
  <2>1. Sleeping' = Sleeping
    BY <1>2 DEF Sleeping, WorkerGoto, Looks, TypeOK
  <2> QED
    BY <1>2, <2>1 DEF IdleElse, Counts, IdleCount, TypeOK
<1> QED
  BY <1>1, <1>2

\* A shared worker keeps the counters exact.
LEMMA WorkerCounts ==
  ASSUME TypeOK, Counts, NEW w \in Workers, WorkerStep(w)
  PROVE  Counts'
<1> USE DEF WorkerGoto, coreVars, workVars, stopVars
<1>1. IsolatedCount'
  BY ZenonT(30) DEF WorkerStep, WorkerSleeps, WorkerTakes, WorkerLeaves, WorkerReturns,
     WorkerExits,
     WorkerNotify, WorkerWokenForNothing, Counts, IsolatedCount, Isolating
<1>2. Spawned' = Spawned
  BY DEF WorkerStep, WorkerSleeps, WorkerTakes, WorkerLeaves, WorkerReturns, WorkerExits,
     WorkerNotify, WorkerWokenForNothing, Looks, Spawned, TypeOK
<1>3. CASE WorkerSleeps(w)
  <2>1. Exited' = Exited
    BY <1>3 DEF WorkerSleeps, Looks, Exited, TypeOK
  <2>2. IdleCount'
    <3>1. CASE wpc[w] = "woken"
      <4>1. Sleeping' = Sleeping
        BY <1>3, <3>1 DEF WorkerSleeps, Sleeping, TypeOK
      <4>2. idle' = idle
        BY <1>3, <3>1 DEF WorkerSleeps, IdleElse, TypeOK
      <4> QED
        BY <4>1, <4>2 DEF Counts, IdleCount
    <3>2. CASE wpc[w] # "woken"
      <4>1. Sleeping' = Sleeping \cup {w} /\ w \notin Sleeping
        BY <1>3, <3>2 DEF WorkerSleeps, Looks, Sleeping, TypeOK
      <4>2. idle' = idle + 1
        BY <1>3, <3>2 DEF WorkerSleeps, IdleElse, TypeOK
      <4> QED
        BY <4>1, <4>2, CountedFinite, CardinalityStep DEF Counts, IdleCount
    <3> QED
      BY <3>1, <3>2
  <2> QED
    BY <1>1, <1>2, <1>3, <2>1, <2>2 DEF WorkerSleeps, Counts, ExitCount
<1>4. CASE WorkerTakes(w)
  <2>1. Exited' = Exited
    BY <1>4 DEF WorkerTakes, Looks, Exited, TypeOK
  <2>2. IdleCount'
    BY <1>4, IdleLeft, Zenon DEF WorkerTakes
  <2>3. ~stopping /\ UNCHANGED <<stopping, workers, exited>>
    BY <1>4 DEF WorkerTakes, MustLeave
  <2> QED
    BY <1>1, <1>2, <2>1, <2>2, <2>3 DEF Counts, ExitCount
<1>5. CASE WorkerLeaves(w)
  <2>1. Exited' = Exited
    BY <1>5 DEF WorkerLeaves, Looks, Exited, TypeOK
  <2>2. IdleCount'
    BY <1>5, IdleLeft, Zenon DEF WorkerLeaves
  <2> QED
    BY <1>1, <1>2, <1>5, <2>1, <2>2 DEF WorkerLeaves, Counts, ExitCount
<1>6. CASE WorkerExits(w)
  <2>1. Exited' = Exited \cup {w} /\ w \notin Exited /\ Sleeping' = Sleeping
    BY <1>6 DEF WorkerExits, Exited, Sleeping, TypeOK
  <2>2. exited' = Cardinality(Exited')
    BY <1>6, <2>1, CountedFinite, CardinalityStep DEF WorkerExits, Counts, ExitCount
  <2> QED
    BY <1>1, <1>2, <1>6, <2>1, <2>2 DEF WorkerExits, Counts, IdleCount, ExitCount
<1>7. CASE WorkerReturns(w) \/ WorkerNotify(w) \/ WorkerWokenForNothing(w)
  <2>1. Exited' = Exited /\ Sleeping' = Sleeping
    BY <1>7 DEF WorkerReturns, WorkerNotify, WorkerWokenForNothing, Exited, Sleeping, TypeOK
  <2>2. UNCHANGED <<queue, idle, exited, to_exit, stopping, workers>>
    BY <1>7 DEF WorkerReturns, WorkerNotify, WorkerWokenForNothing
  <2> QED
    BY <1>1, <1>2, <2>1, <2>2, Zenon DEF Counts, IdleCount, ExitCount
<1> QED
  BY <1>3, <1>4, <1>5, <1>6, <1>7, Zenon DEF WorkerStep

\* A shutdown keeps the counters exact.
LEMMA StopperCounts ==
  ASSUME TypeOK, Counts, NEW s \in Stoppers, StopperStep(s)
  PROVE  Counts'
<1> USE DEF StopGoto, coreVars, workVars, stopVars
<1>1. CASE StopFirst(s)
  BY <1>1, Zenon DEF StopFirst, Counts, IdleCount, IsolatedCount, ExitCount, Sleeping,
     Isolating,
     Exited, Spawned
<1>2. CASE AskAll(s)
  <2>1. Sleeping' = Sleeping /\ Exited' = Exited /\ Spawned' = Spawned
    BY <1>2 DEF AskAll, Sleeping, Exited, Spawned, TypeOK
  <2> QED
    BY <1>2, <2>1 DEF AskAll, Counts, IdleCount, IsolatedCount, ExitCount, Isolating
<1>3. CASE StopAgain(s) \/ StopWaits(s) \/ StopTimesOut(s) \/ StopWokenForNothing(s)
           \/ StopJoins(s) \/ StopAbandons(s)
  <2>1. UNCHANGED <<coreVars, workers, workVars, ipc, ppc>>
    BY <1>3, Zenon DEF StopAgain, StopWaits, StopTimesOut, StopWokenForNothing, StopJoins,
       StopAbandons
  <2> QED
    BY <2>1 DEF Counts, IdleCount, IsolatedCount, ExitCount, Sleeping, Isolating, Exited,
       Spawned
<1> QED
  BY <1>1, <1>2, <1>3, Zenon DEF StopperStep

\* The types and the counters are kept by every step.
LEMMA TypedStep ==
  TypeOK /\ Counts /\ [Next]_vars => TypeOK' /\ Counts'
<1> SUFFICES ASSUME TypeOK, Counts, [Next]_vars PROVE TypeOK' /\ Counts'
  OBVIOUS
<1>1. CASE UNCHANGED vars
  BY <1>1 DEF vars, coreVars, workVars, stopVars, TypeOK, Counts, IdleCount, IsolatedCount,
     ExitCount, Sleeping, Isolating, Exited, Spawned
<1>2. CASE Next
  BY <1>2, PosterTyped, IsolatedTyped, WorkerTyped, StopperTyped,
     PosterCounts, IsolatedCounts, WorkerCounts, StopperCounts DEF Next
<1> QED
  BY <1>1, <1>2

\* The fields of the pool keep their types, its counters natural numbers
\* although they are decremented from three kinds of thread (pool.hpp:480-498).
THEOREM TypeCorrect == Spec => []TypeOK
<1>1. Spec => [](TypeOK /\ Counts)
  BY InitTyped, TypedStep, PTL DEF Spec
<1> QED
  BY <1>1, PTL

-----------------------------------------------------------------------------
(* The barrier *)

\* A job that runs has a thread that runs it.
RunningInv ==
  \A j \in Jobs : jst[j] = "running" =>
    ipc[j] = "run" \/ \E w \in Workers : wpc[w] = "run" /\ wjob[w] = j

\* The pool stops when the first shutdown begins, and a shutdown that is about
\* to report that everyone left is right, then and ever after.
EndInv ==
  /\ stopping <=> \E s \in Stoppers : spc[s] # "idle"
  /\ \A s \in Stoppers : spc[s] = "join" \/ Settled(s) => AllOut

\* A step keeps a thread behind every running job.
LEMMA RunningStep ==
  ASSUME TypeOK, Counts, RunningInv, [Next]_vars
  PROVE  RunningInv'
<1> USE DEF coreVars, workVars, stopVars, Mark
<1>1. ASSUME NEW j \in Jobs, PosterStep(j) PROVE RunningInv'
  <2>1. CASE ThreadCreated(j)
    BY <2>1 DEF ThreadCreated, RunningInv, TypeOK
  <2>2. CASE post_job(j) \/ NotifyOne(j)
    <3>1. \A w \in Workers : wpc[w] = "run" => wpc'[w] = "run"
      <4>1. CASE post_job(j)
        BY <4>1 DEF post_job, spawn_worker, Counts, ExitCount, Spawned, TypeOK
      <4>2. CASE NotifyOne(j)
        BY <4>2 DEF NotifyOne, TypeOK
      <4> QED
        BY <2>2, <4>1, <4>2
    <3>2. UNCHANGED <<wjob, ipc>> /\ \A k \in Jobs : jst'[k] = "running" => jst[k] = "running"
      BY <2>2 DEF post_job, NotifyOne, TypeOK
    <3> QED
      BY <3>1, <3>2 DEF RunningInv
  <2>3. CASE post_job_Stopped(j) \/ IsolatedStopped(j) \/ post_isolated_job(j)
             \/ ThreadRefused(j) \/ Track(j)
    <3>1. UNCHANGED <<workVars, ipc>> /\ \A k \in Jobs : jst'[k] = "running" => jst[k] = "running"
      BY <2>3, Zenon DEF post_job_Stopped, IsolatedStopped, post_isolated_job,
         ThreadRefused, Track,
         TypeOK
    <3> QED
      BY <3>1, Zenon DEF RunningInv
  <2> QED
    BY <1>1, <2>1, <2>2, <2>3 DEF PosterStep
<1>2. ASSUME NEW j \in Jobs, IsolatedStep(j) PROVE RunningInv'
  <2>1. UNCHANGED <<wpc, wjob>>
    BY <1>2, Zenon DEF IsolatedStep, IsolatedReturns, IsolatedCountOut, IsolatedNotify
  <2>2. \A k \in Jobs : jst'[k] = "running" => jst[k] = "running" /\ (ipc[k] = "run" => ipc'[k] = "run")
    BY <1>2 DEF IsolatedStep, IsolatedReturns, IsolatedCountOut, IsolatedNotify,
       IsolatedGoto,
       TypeOK
  <2> QED
    BY <2>1, <2>2, Zenon DEF RunningInv
<1>3. ASSUME NEW w \in Workers, WorkerStep(w) PROVE RunningInv'
  <2>1. CASE WorkerTakes(w)
    <3>1. Head(queue) \in Jobs
      BY <2>1 DEF WorkerTakes, TypeOK
    <3>2. wpc[w] # "run"
      BY <2>1, Zenon DEF WorkerTakes, Looks
    <3> QED
      BY <2>1, <3>1, <3>2 DEF WorkerTakes, WorkerGoto, RunningInv, TypeOK
  <2>2. CASE WorkerReturns(w)
    BY <2>2 DEF WorkerReturns, WorkerGoto, RunningInv, TypeOK
  <2>3. CASE ~WorkerTakes(w) /\ ~WorkerReturns(w)
    <3>1. UNCHANGED <<wjob, ipc, jst>> /\ wpc[w] # "run"
      BY <1>3, <2>3, Zenon DEF WorkerStep, WorkerSleeps, WorkerLeaves, WorkerExits,
         WorkerNotify,
         WorkerWokenForNothing, Looks
    <3>2. \A v \in Workers : wpc[v] = "run" => wpc'[v] = "run"
      BY <1>3, <2>3, <3>1, Zenon DEF WorkerStep, WorkerSleeps, WorkerLeaves, WorkerExits,
         WorkerNotify, WorkerWokenForNothing, WorkerGoto, TypeOK
    <3> QED
      BY <3>1, <3>2, Zenon DEF RunningInv
  <2> QED
    BY <2>1, <2>2, <2>3
<1>4. ASSUME NEW s \in Stoppers, StopperStep(s) PROVE RunningInv'
  <2>1. /\ UNCHANGED <<wjob, ipc>>
        /\ \A k \in Jobs : jst'[k] = "running" => jst[k] = "running"
        /\ \A w \in Workers : wpc[w] = "run" => wpc'[w] = "run"
    BY <1>4, Zenon DEF StopperStep, StopFirst, StopAgain, AskAll, StopWaits, StopTimesOut,
       StopWokenForNothing, StopJoins, StopAbandons, TypeOK
  <2> QED
    BY <2>1, Zenon DEF RunningInv
<1>5. CASE UNCHANGED vars
  BY <1>5, Zenon DEF vars, RunningInv
<1> QED
  BY <1>1, <1>2, <1>3, <1>4, <1>5 DEF Next
\* Once the pool stops, everyone being out stays so: nobody is counted in.
LEMMA AllOutStays ==
  ASSUME TypeOK, TypeOK', Counts, Next, stopping, AllOut
  PROVE  AllOut' /\ stopping'
<1> USE DEF coreVars, workVars, stopVars, AllOut
<1>1. Isolating = {}
  BY CountedFinite, FS_EmptySet, Zenon DEF Counts, IsolatedCount
<1>2. ASSUME NEW j \in Jobs, PosterStep(j) PROVE AllOut' /\ stopping'
  BY <1>1, <1>2, Zenon DEF PosterStep, post_job_Stopped, post_job, NotifyOne,
     IsolatedStopped,
     post_isolated_job, ThreadCreated, ThreadRefused, Track, Isolating
<1>3. ASSUME NEW j \in Jobs, IsolatedStep(j) PROVE AllOut' /\ stopping'
  BY <1>1, <1>3, Zenon DEF IsolatedStep, IsolatedReturns, IsolatedCountOut, IsolatedNotify,
     IsolatedGoto, Isolating
<1>4. ASSUME NEW w \in Workers, WorkerStep(w) PROVE AllOut' /\ stopping'
  <2>1. /\ UNCHANGED <<to_exit, isolated_running, stopping>>
        /\ exited' = exited \/ exited' = exited + 1
    BY <1>4, Zenon DEF WorkerStep, WorkerSleeps, WorkerTakes, WorkerLeaves, WorkerReturns,
       WorkerExits, WorkerNotify, WorkerWokenForNothing
  <2> QED
    BY <2>1 DEF TypeOK
<1>5. ASSUME NEW s \in Stoppers, StopperStep(s) PROVE AllOut' /\ stopping'
  BY <1>5, Zenon DEF StopperStep, StopFirst, StopAgain, AskAll, StopWaits, StopTimesOut,
     StopWokenForNothing, StopJoins, StopAbandons
<1> QED
  BY <1>2, <1>3, <1>4, <1>5, Zenon DEF Next

\* Steps of other threads begin, end and settle no shutdown.
LEMMA OthersEnd ==
  ASSUME TypeOK, EndInv, Next, ~\E s \in Stoppers : StopperStep(s)
  PROVE  /\ UNCHANGED <<stopping, ret>>
         /\ \A s \in Stoppers : /\ spc'[s] = "idle" <=> spc[s] = "idle"
                                /\ spc'[s] = "join" <=> spc[s] = "join"
                                /\ spc'[s] = "returned" <=> spc[s] = "returned"
<1> USE DEF coreVars, workVars, stopVars
<1>1. UNCHANGED <<stopping, ret>> /\ (UNCHANGED spc \/ WakeStoppers)
  <2>1. ASSUME NEW j \in Jobs, PosterStep(j) \/ IsolatedStep(j)
        PROVE  UNCHANGED <<stopping, ret>> /\ (UNCHANGED spc \/ WakeStoppers)
    BY <2>1 DEF PosterStep, post_job_Stopped, post_job, NotifyOne, IsolatedStopped,
       post_isolated_job, ThreadCreated, ThreadRefused, Track, IsolatedStep,
       IsolatedReturns, IsolatedCountOut, IsolatedNotify
  <2>2. ASSUME NEW w \in Workers, WorkerStep(w)
        PROVE  UNCHANGED <<stopping, ret>> /\ (UNCHANGED spc \/ WakeStoppers)
    BY <2>2 DEF WorkerStep, WorkerSleeps, WorkerTakes, WorkerLeaves, WorkerReturns,
       WorkerExits, WorkerNotify, WorkerWokenForNothing
  <2> QED
    BY <2>1, <2>2, SMTT(60) DEF Next
<1> QED
  BY <1>1 DEF WakeStoppers, TypeOK

\* A step keeps what the shutdowns are about to report true.
LEMMA EndStep ==
  ASSUME TypeOK, TypeOK', Counts, EndInv, [Next]_vars
  PROVE  EndInv'
<1> USE DEF coreVars, workVars, stopVars
<1>1. CASE UNCHANGED vars
  BY <1>1, Zenon DEF vars, EndInv, Settled, AllOut
<1>2. CASE Next /\ ~\E s \in Stoppers : StopperStep(s)
  <2>1. stopping' <=> \E s \in Stoppers : spc'[s] # "idle"
    <3>1. stopping' = stopping /\ \A s \in Stoppers : spc'[s] = "idle" <=> spc[s] = "idle"
      BY <1>2, OthersEnd
    <3> QED
      BY <3>1, Zenon DEF EndInv
  <2>2. ASSUME NEW s \in Stoppers, spc'[s] = "join" \/ Settled(s)' PROVE AllOut'
    <3>1. spc[s] = "join" \/ Settled(s)
      BY <1>2, <2>2, OthersEnd, Zenon DEF Settled
    <3>2. stopping /\ AllOut
      BY <3>1 DEF EndInv, Settled
    <3> QED
      BY <1>2, <3>2, AllOutStays, Zenon
  <2> QED
    BY <2>1, <2>2, Zenon DEF EndInv
<1>3. ASSUME NEW s \in Stoppers, StopperStep(s) PROVE EndInv'
  <2>1. \A o \in Stoppers : o # s => spc'[o] = spc[o] /\ ret'[o] = ret[o]
    BY <1>3, Zenon DEF StopperStep, StopFirst, StopAgain, AskAll, StopWaits, StopTimesOut,
       StopWokenForNothing, StopJoins, StopAbandons, StopGoto, TypeOK
  <2>2. spc'[s] # "idle" /\ stopping'
    <3>1. CASE StopFirst(s) \/ StopAgain(s)
      BY <3>1 DEF StopFirst, StopAgain, StopGoto, TypeOK
    <3>2. CASE ~(StopFirst(s) \/ StopAgain(s))
      <4>1. spc[s] # "idle" /\ spc'[s] # "idle" /\ stopping' = stopping
        BY <1>3, <3>2 DEF StopperStep, AskAll, StopWaits, StopTimesOut, StopWokenForNothing,
           StopJoins, StopAbandons, StopGoto, TypeOK
      <4> QED
        BY <4>1, ZenonT(60) DEF EndInv
    <3> QED
      BY <3>1, <3>2
  <2>3. ASSUME NEW o \in Stoppers, o # s, spc'[o] = "join" \/ Settled(o)' PROVE AllOut'
    <3>1. spc[o] = "join" \/ Settled(o)
      BY <2>1, <2>2, <2>3 DEF Settled
    <3>2. stopping /\ AllOut
      BY <3>1 DEF EndInv, Settled
    <3> QED
      BY <1>3, <3>2, AllOutStays DEF Next
  <2>4. ASSUME spc'[s] = "join" \/ Settled(s)' PROVE AllOut'
    <3>1. CASE StopFirst(s) \/ AskAll(s) \/ StopWokenForNothing(s)
      <4>1. spc'[s] \in {"ask", "wait", "woken"}
        BY <3>1 DEF StopFirst, AskAll, StopWokenForNothing, StopGoto, TypeOK
      <4> QED
        BY <2>4, <4>1 DEF Settled
    <3>2. CASE StopAgain(s)
      <4>1. spc[s] = "idle" /\ stopping /\ s = Dtor
        BY <2>4, <3>2 DEF StopAgain, MayStop, StopGoto, Settled, TypeOK
      <4>2. PICK o \in Stoppers : spc[o] # "idle"
        BY <4>1, Zenon DEF EndInv
      <4>3. spc'[o] # "idle" /\ o # s
        BY <2>1, <4>1, <4>2, ZenonT(60)
      <4>4. spc'[s] # "join"
        BY <3>2, Zenon DEF StopAgain, StopGoto, TypeOK
      <4> QED
        BY <2>4, <4>1, <4>3, <4>4, ZenonT(60) DEF Settled
    <3>3. CASE StopWaits(s) \/ StopTimesOut(s)
      <4>1. AllOut' = AllOut
        BY <3>3, Zenon DEF StopWaits, StopTimesOut, AllOut
      <4>2. spc'[s] # "returned" /\ (spc'[s] = "join" => AllOut)
        BY <3>3, Zenon DEF StopWaits, StopTimesOut, StopGoto, TypeOK
      <4> QED
        BY <2>4, <4>1, <4>2, Zenon DEF Settled
    <3>4. CASE StopJoins(s)
      BY <3>4, Zenon DEF StopJoins, EndInv, AllOut
    <3>5. CASE StopAbandons(s)
      <4>1. ret'[s] = 0
        BY <2>4, <3>5, Zenon DEF StopAbandons, StopGoto, Settled, TypeOK
      <4>2. exited >= to_exit /\ isolated_running = 0
        BY <3>5, <4>1 DEF StopAbandons, TypeOK
      <4> QED
        BY <3>5, <4>2, Zenon DEF StopAbandons, AllOut
    <3> QED
      BY <1>3, <3>1, <3>2, <3>3, <3>4, <3>5, SMTT(30) DEF StopperStep
  <2> QED
    BY <2>2, <2>3, <2>4, Zenon DEF EndInv
<1> QED
  BY <1>1, <1>2, <1>3, Zenon

PoolInv == TypeOK /\ Counts /\ RunningInv /\ EndInv

\* The invariant holds from the constructor on.
LEMMA PoolInvariant == Spec => []PoolInv
<1>1. Init => PoolInv
  <2> SUFFICES ASSUME Init PROVE RunningInv /\ EndInv
    BY InitTyped DEF PoolInv
  <2>1. RunningInv
    BY DEF Init, RunningInv
  <2>2. EndInv
    BY DEF Init, EndInv, Settled
  <2> QED
    BY <2>1, <2>2
<1>2. PoolInv /\ [Next]_vars => PoolInv'
  BY TypedStep, RunningStep, EndStep DEF PoolInv
<1> QED
  BY <1>1, <1>2, PTL DEF Spec

\* Exact counters make "everyone is out" mean that no thread runs a job.
LEMMA AllOutMeansOut ==
  ASSUME PoolInv, stopping, AllOut
  PROVE  queue = <<>> /\ \A j \in Jobs : jst[j] # "running" /\ ppc[j] # "counted"
<1>1. Isolating = {}
  BY CountedFinite, FS_EmptySet, Zenon DEF PoolInv, Counts, IsolatedCount, AllOut
<1>2. Exited = Spawned
  <2>1. Exited \subseteq Spawned
    BY DEF Exited, Spawned
  <2>2. Cardinality(Exited) >= Cardinality(Spawned)
    BY DEF PoolInv, Counts, ExitCount, AllOut
  <2>3. Cardinality(Exited) <= Cardinality(Spawned)
    BY <2>1, CountedFinite, FS_Subset
  <2>4. Cardinality(Exited) = Cardinality(Spawned)
    BY <2>2, <2>3, CountedFinite, FS_CardinalityType
  <2> QED
    BY <2>1, <2>4, CountedFinite, FS_Subset
<1>3. \A w \in Workers : wpc[w] # "run"
  BY <1>2 DEF Exited, Spawned
<1>4. \A j \in Jobs : ipc[j] # "run" /\ ppc[j] # "counted"
  BY <1>1 DEF Isolating
<1> QED
  BY <1>3, <1>4 DEF PoolInv, RunningInv, Counts, ExitCount

\* When a shutdown returned and left nobody behind, no job runs and none can
\* start (pool.hpp:370-373, worker_group.hpp:58), for any number of jobs,
\* workers and concurrent shutdowns, with and without deadlines.
THEOREM BarrierHolds == Spec => []Barrier
<1>1. PoolInv => Barrier
  <2> SUFFICES ASSUME PoolInv, NEW s \in Stoppers, Settled(s)
               PROVE  /\ queue = <<>>
                      /\ \A j \in Jobs : jst[j] # "running" /\ ppc[j] # "counted"
    BY DEF Barrier
  <2>1. stopping /\ AllOut
    BY DEF PoolInv, EndInv, Settled
  <2> QED
    BY <2>1, AllOutMeansOut
<1> QED
  BY <1>1, PoolInvariant, PTL

-----------------------------------------------------------------------------
(* Everyone is asked to stop *)

\* Until the pool stops, an isolated thread whose poster is done with it is in
\* the list, or was asked for want of memory.
AskedInv ==
  \A j \in Jobs : ipc[j] = "run" =>
    j \in asked \/ ppc[j] = "created" \/ (~stopping /\ j \in isolated)

\* Every isolated job a shutdown waits for is asked to stop, also one whose
\* poster was between the count and the list when the shutdown emptied it
\* (pool.hpp:269-274).
THEOREM EveryoneIsAsked == Spec => []EveryoneAsked
<1> USE DEF coreVars, workVars, stopVars
<1>1. Init => AskedInv
  BY DEF Init, AskedInv
<1>2. TypeOK /\ AskedInv /\ [Next]_vars => AskedInv'
  <2> SUFFICES ASSUME TypeOK, AskedInv, [Next]_vars PROVE AskedInv'
    OBVIOUS
  <2>1. ASSUME NEW j \in Jobs, PosterStep(j) PROVE AskedInv'
    <3>1. CASE ThreadCreated(j)
      BY <3>1 DEF ThreadCreated, PostGoto, AskedInv, TypeOK
    <3>2. CASE Track(j)
      BY <3>2 DEF Track, PostGoto, AskedInv, TypeOK
    <3>3. CASE ~ThreadCreated(j) /\ ~Track(j)
      <4>1. UNCHANGED <<ipc, asked, stopping, isolated>>
        BY <2>1, <3>3, Zenon DEF PosterStep, post_job_Stopped, post_job, NotifyOne,
           IsolatedStopped,
           post_isolated_job, ThreadRefused
      <4>2. \A k \in Jobs : ppc[k] = "created" => ppc'[k] = "created"
        BY <2>1, <3>3, Zenon DEF PosterStep, post_job_Stopped, post_job, PostsShared,
           NotifyOne,
           IsolatedStopped, post_isolated_job, ThreadRefused, PostGoto, TypeOK
      <4> QED
        BY <4>1, <4>2, Zenon DEF AskedInv
    <3> QED
      BY <3>1, <3>2, <3>3, Zenon
  <2>2. ASSUME NEW j \in Jobs, IsolatedStep(j) PROVE AskedInv'
    BY <2>2, Zenon DEF IsolatedStep, IsolatedReturns, IsolatedCountOut, IsolatedNotify,
       IsolatedGoto,
       AskedInv, TypeOK
  <2>3. ASSUME NEW w \in Workers, WorkerStep(w) PROVE AskedInv'
    BY <2>3, Zenon DEF WorkerStep, WorkerSleeps, WorkerTakes, WorkerLeaves, WorkerReturns,
       WorkerExits, WorkerNotify, WorkerWokenForNothing, AskedInv
  <2>4. ASSUME NEW s \in Stoppers, StopperStep(s) PROVE AskedInv'
    BY <2>4, Zenon DEF StopperStep, StopFirst, StopAgain, AskAll, StopWaits, StopTimesOut,
       StopWokenForNothing, StopJoins, StopAbandons, AskedInv
  <2>5. CASE UNCHANGED vars
    BY <2>5, Zenon DEF vars, AskedInv
  <2> QED
    BY <2>1, <2>2, <2>3, <2>4, <2>5 DEF Next
<1>3. AskedInv => EveryoneAsked
  BY DEF AskedInv, EveryoneAsked
<1> QED
  BY <1>1, <1>2, <1>3, TypeCorrect, PTL DEF Spec

-----------------------------------------------------------------------------
(* The pool implements an executor *)

\* Where a job's poster is tells what became of it so far.
PostedInv ==
  \A j \in Jobs : /\ ppc[j] = "idle" => jst[j] = "new"
                  /\ ppc[j] \in {"counted", "fallback"} => jst[j] = "accepted"

\* The queue holds jobs that wait, each once.
QueueInv ==
  /\ \A i \in 1..Len(queue) : /\ jst[queue[i]] = "accepted"
                              /\ ppc[queue[i]] \in {"notify", "done"}
  /\ \A i, k \in 1..Len(queue) : queue[i] = queue[k] => i = k

\* A job is run by one thread.
OnceInv ==
  /\ \A w \in Workers : wpc[w] = "run" => wjob[w] \in Jobs /\ jst[wjob[w]] = "running"
  /\ \A v, w \in Workers : wpc[v] = "run" /\ wpc[w] = "run" /\ wjob[v] = wjob[w] => v = w
  /\ \A j \in Jobs : ipc[j] = "run" =>
       /\ jst[j] = "running"
       /\ \A w \in Workers : wpc[w] = "run" => wjob[w] # j

JobInv == PostedInv /\ QueueInv /\ OnceInv

\* Jobs that are queued stay so when the queue and their marks do.
LEMMA QueueKept ==
  ASSUME TypeOK, QueueInv, UNCHANGED queue,
         \A k \in Jobs : jst[k] = "accepted" /\ ppc[k] \in {"notify", "done"} =>
                          jst'[k] = "accepted" /\ ppc'[k] \in {"notify", "done"}
  PROVE  QueueInv'
<1>1. \A i \in 1..Len(queue) : queue[i] \in Jobs
  BY DEF TypeOK
<1> QED
  BY <1>1, ZenonT(60) DEF QueueInv

\* So does the rest, when no thread begins to run a job.
LEMMA JobsKept ==
  ASSUME TypeOK, JobInv, queue' = queue, ppc' = ppc, jst' = jst, wjob' = wjob,
         \A k \in Jobs : ipc'[k] = "run" => ipc[k] = "run",
         \A v \in Workers : wpc'[v] = "run" => wpc[v] = "run"
  PROVE  JobInv'
<1>1. PostedInv'
  BY Zenon DEF JobInv, PostedInv
<1>2. QueueInv'
  BY QueueKept, Zenon DEF JobInv
<1>3. OnceInv'
  <2>1. \A v \in Workers : wpc'[v] = "run" => wjob'[v] \in Jobs /\ jst'[wjob'[v]] = "running"
    BY Zenon DEF JobInv, OnceInv
  <2>2. \A u, v \in Workers :
          wpc'[u] = "run" /\ wpc'[v] = "run" /\ wjob'[u] = wjob'[v] => u = v
    BY Zenon DEF JobInv, OnceInv
  <2>3. \A k \in Jobs : ipc'[k] = "run" =>
          jst'[k] = "running" /\ \A v \in Workers : wpc'[v] = "run" => wjob'[v] # k
    BY Zenon DEF JobInv, OnceInv
  <2> QED
    BY <2>1, <2>2, <2>3, Zenon DEF OnceInv
<1> QED
  BY <1>1, <1>2, <1>3, Zenon DEF JobInv

\* A call that posts a job keeps the invariant about jobs.
LEMMA PosterJobs ==
  ASSUME TypeOK, Counts, JobInv, NEW j \in Jobs, PosterStep(j)
  PROVE  JobInv'
<1> USE DEF PostGoto, Mark, coreVars, workVars, stopVars
<1>1. CASE post_job_Stopped(j) \/ IsolatedStopped(j)
  <2>1. /\ ppc[j] \in {"idle", "fallback"} /\ jst[j] \in {"new", "accepted"}
        /\ ppc' = [ppc EXCEPT ![j] = "done"] /\ jst' = [jst EXCEPT ![j] = "dropped"]
        /\ UNCHANGED <<queue, wpc, wjob, ipc>>
    BY <1>1, Zenon DEF post_job_Stopped, IsolatedStopped, PostsShared, JobInv, PostedInv
  <2>2. PostedInv'
    BY <2>1, Zenon DEF JobInv, PostedInv, TypeOK
  <2>3. QueueInv'
    BY <2>1, SMTT(30) DEF JobInv, QueueInv, TypeOK
  <2>4. OnceInv'
    BY <2>1, Zenon DEF JobInv, OnceInv, TypeOK
  <2> QED
    BY <2>2, <2>3, <2>4, Zenon DEF JobInv
<1>2. CASE post_job(j)
  <2>1. /\ ppc[j] \in {"idle", "fallback"} /\ jst[j] \in {"new", "accepted"}
        /\ ppc' = [ppc EXCEPT ![j] = "notify"] /\ jst' = [jst EXCEPT ![j] = "accepted"]
        /\ queue' = Append(queue, j) /\ UNCHANGED <<wjob, ipc>>
    BY <1>2, Zenon DEF post_job, PostsShared, JobInv, PostedInv
  <2>2. PostedInv'
    BY <2>1, Zenon DEF JobInv, PostedInv, TypeOK
  <2>3. QueueInv'
    <3>1. \A i \in 1..Len(queue) : queue[i] \in Jobs /\ queue[i] # j
      <4>1. \A i \in 1..Len(queue) : queue[i] \in Jobs
        BY DEF TypeOK
      <4>2. \A i \in 1..Len(queue) : queue[i] # j
        BY <2>1, Zenon DEF JobInv, QueueInv
      <4> QED
        BY <4>1, <4>2
    <3>2. /\ Len(queue') = Len(queue) + 1 /\ queue'[Len(queue) + 1] = j
          /\ \A i \in 1..Len(queue) : queue'[i] = queue[i]
      BY <2>1 DEF TypeOK
    <3>3. Len(queue) \in Nat
      BY DEF TypeOK
    <3>4. \A i \in 1..Len(queue') : i \in 1..Len(queue) \/ i = Len(queue) + 1
      BY <3>2, <3>3
    <3>5. \A k \in Jobs : k # j => jst'[k] = jst[k] /\ ppc'[k] = ppc[k]
      BY <2>1, Zenon DEF TypeOK
    <3>6. jst'[j] = "accepted" /\ ppc'[j] = "notify"
      BY <2>1, Zenon DEF TypeOK
    <3>7. ASSUME NEW i \in 1..Len(queue')
          PROVE  jst'[queue'[i]] = "accepted" /\ ppc'[queue'[i]] \in {"notify", "done"}
      BY <3>1, <3>2, <3>4, <3>5, <3>6 DEF JobInv, QueueInv
    <3>8. ASSUME NEW i \in 1..Len(queue'), NEW k \in 1..Len(queue'), queue'[i] = queue'[k]
          PROVE  i = k
      BY <3>1, <3>2, <3>4, <3>8, SMTT(30) DEF JobInv, QueueInv
    <3> QED
      BY <3>7, <3>8 DEF QueueInv
  <2>4. \A w \in Workers : wpc'[w] = "run" => wpc[w] = "run"
    BY <1>2, Zenon DEF post_job, spawn_worker, TypeOK
  <2>5. OnceInv'
    BY <2>1, <2>4 DEF JobInv, OnceInv, TypeOK
  <2> QED
    BY <2>2, <2>3, <2>5 DEF JobInv
<1>3. CASE NotifyOne(j)
  <2>1. /\ ppc[j] = "notify" /\ ppc' = [ppc EXCEPT ![j] = "done"]
        /\ UNCHANGED <<queue, jst, wjob, ipc>>
    BY <1>3, Zenon DEF NotifyOne
  <2>2. \A w \in Workers : wpc'[w] = "run" => wpc[w] = "run"
    BY <1>3, Zenon DEF NotifyOne, TypeOK
  <2>3. PostedInv' /\ QueueInv'
    <3>1. \A k \in Jobs : ppc'[k] = ppc[k] \/ (ppc[k] = "notify" /\ ppc'[k] = "done")
      BY <2>1, SMTT(60) DEF TypeOK
    <3>2. PostedInv'
      BY <2>1, <3>1 DEF JobInv, PostedInv
    <3> QED
      BY <2>1, <3>1, <3>2, QueueKept DEF JobInv
  <2>4. OnceInv'
    BY <2>1, <2>2, Zenon DEF JobInv, OnceInv
  <2> QED
    BY <2>3, <2>4 DEF JobInv
<1>4. CASE post_isolated_job(j)
  <2>1. /\ ppc[j] = "idle" /\ jst[j] = "new"
        /\ ppc' = [ppc EXCEPT ![j] = "counted"] /\ jst' = [jst EXCEPT ![j] = "accepted"]
        /\ UNCHANGED <<queue, wpc, wjob, ipc>>
    BY <1>4, Zenon DEF post_isolated_job, JobInv, PostedInv
  <2>2. PostedInv'
    BY <2>1, Zenon DEF JobInv, PostedInv, TypeOK
  <2>3. QueueInv'
    BY <2>1, SMTT(30) DEF JobInv, QueueInv, TypeOK
  <2>4. OnceInv'
    BY <2>1, Zenon DEF JobInv, OnceInv, TypeOK
  <2> QED
    BY <2>2, <2>3, <2>4 DEF JobInv
<1>5. CASE ThreadCreated(j)
  <2>1. /\ ppc[j] = "counted" /\ jst[j] = "accepted"
        /\ ppc' = [ppc EXCEPT ![j] = "created"] /\ jst' = [jst EXCEPT ![j] = "running"]
        /\ ipc' = [ipc EXCEPT ![j] = "run"] /\ UNCHANGED <<queue, wpc, wjob>>
    BY <1>5, Zenon DEF ThreadCreated, JobInv, PostedInv
  <2>2. PostedInv'
    BY <2>1, Zenon DEF JobInv, PostedInv, TypeOK
  <2>3. QueueInv'
    BY <2>1, SMTT(30) DEF JobInv, QueueInv, TypeOK
  <2>4. OnceInv'
    BY <2>1, Zenon DEF JobInv, OnceInv, TypeOK
  <2> QED
    BY <2>2, <2>3, <2>4 DEF JobInv
<1>6. CASE ThreadRefused(j) \/ Track(j)
  <2>1. /\ ppc[j] \in {"counted", "created"} /\ (ppc[j] = "created" => ppc'[j] = "done")
        /\ \E l \in {"fallback", "done"} : /\ ppc' = [ppc EXCEPT ![j] = l]
                                           /\ l = "fallback" => jst[j] = "accepted"
        /\ UNCHANGED <<queue, jst, wpc, wjob, ipc>>
    BY <1>6, Zenon DEF ThreadRefused, Track, JobInv, PostedInv, TypeOK
  <2>2. PostedInv' /\ QueueInv'
    <3>1. \A k \in Jobs : \/ ppc'[k] = ppc[k]
                         \/ /\ ppc[k] \in {"counted", "created"}
                            /\ ppc'[k] = "done" \/ (ppc'[k] = "fallback" /\ jst[k] = "accepted")
      BY <2>1 DEF TypeOK
    <3>2. PostedInv'
      BY <2>1, <3>1 DEF JobInv, PostedInv
    <3> QED
      BY <2>1, <3>1, <3>2, QueueKept DEF JobInv
  <2>3. OnceInv'
    BY <2>1, Zenon DEF JobInv, OnceInv
  <2> QED
    BY <2>2, <2>3 DEF JobInv
<1> QED
  BY <1>1, <1>2, <1>3, <1>4, <1>5, <1>6 DEF PosterStep

\* Threads keep the invariant about jobs.
LEMMA ThreadJobs ==
  ASSUME TypeOK, JobInv,
         (\E j \in Jobs : IsolatedStep(j)) \/ (\E w \in Workers : WorkerStep(w))
  PROVE  JobInv'
<1> USE DEF Mark, IsolatedGoto, WorkerGoto, coreVars, workVars, stopVars
<1>1. ASSUME NEW j \in Jobs, IsolatedReturns(j) PROVE JobInv'
  <2>1. jst[j] = "running"
    BY <1>1, Zenon DEF IsolatedReturns, JobInv, OnceInv
  <2>2. PostedInv' /\ QueueInv'
    BY <1>1, <2>1, SMTT(30) DEF IsolatedReturns, JobInv, PostedInv, QueueInv, TypeOK
  <2>3. OnceInv'
    BY <1>1, <2>1, ZenonT(60) DEF IsolatedReturns, JobInv, OnceInv, TypeOK
  <2> QED
    BY <2>2, <2>3, Zenon DEF JobInv
<1>2. ASSUME NEW j \in Jobs, IsolatedCountOut(j) \/ IsolatedNotify(j) PROVE JobInv'
  <2>1. /\ UNCHANGED <<queue, ppc, jst, wpc, wjob>>
        /\ \A k \in Jobs : ipc'[k] = "run" => ipc[k] = "run"
    BY <1>2 DEF IsolatedCountOut, IsolatedNotify, TypeOK
  <2> QED
    BY <2>1, JobsKept
<1>3. ASSUME NEW w \in Workers, WorkerTakes(w) PROVE JobInv'
  <2> DEFINE h == Head(queue)
  <2>1. /\ h \in Jobs /\ h = queue[1] /\ Len(queue) \in Nat /\ Len(queue) >= 1
        /\ Len(queue') = Len(queue) - 1
        /\ \A i \in 1..Len(queue') : queue'[i] = queue[i + 1] /\ queue[i + 1] \in Jobs
    BY <1>3 DEF WorkerTakes, TypeOK
  <2>2. jst[h] = "accepted" /\ ppc[h] \in {"notify", "done"}
    BY <2>1 DEF JobInv, QueueInv
  <2>3. \A i \in 1..Len(queue') : queue'[i] # h
    BY <2>1 DEF JobInv, QueueInv
  <2>4. jst' = [jst EXCEPT ![h] = "running"] /\ UNCHANGED <<ppc, ipc>>
    BY <1>3 DEF WorkerTakes
  <2>5. /\ wpc' = [wpc EXCEPT ![w] = "run"] /\ wjob' = [wjob EXCEPT ![w] = h]
        /\ wpc[w] # "run"
    BY <1>3, Zenon DEF WorkerTakes, Looks
  <2> HIDE DEF h
  <2>6. PostedInv'
    BY <2>1, <2>2, <2>4, Zenon DEF JobInv, PostedInv, TypeOK
  <2>7. QueueInv'
    <3>1. \A j \in Jobs : j # h => jst'[j] = jst[j]
      BY <2>4, Zenon DEF TypeOK
    <3>2. \A i \in 1..Len(queue') : i + 1 \in 1..Len(queue)
      BY <2>1
    <3>3. ASSUME NEW i \in 1..Len(queue')
          PROVE  jst'[queue'[i]] = "accepted" /\ ppc'[queue'[i]] \in {"notify", "done"}
      <4>1. jst[queue'[i]] = "accepted" /\ ppc[queue'[i]] \in {"notify", "done"}
        BY <2>1, <3>2 DEF JobInv, QueueInv
      <4> QED
        BY <2>1, <2>3, <2>4, <3>1, <4>1, SMTT(60)
    <3>4. ASSUME NEW i \in 1..Len(queue'), NEW k \in 1..Len(queue'), queue'[i] = queue'[k]
          PROVE  i = k
      <4>1. /\ i + 1 \in 1..Len(queue) /\ k + 1 \in 1..Len(queue)
            /\ queue[i + 1] = queue[k + 1]
        BY <2>1, <3>2, <3>4
      <4>2. i + 1 = k + 1
        BY <4>1, Zenon DEF JobInv, QueueInv
      <4> QED
        BY <4>2
    <3> QED
      BY <3>3, <3>4, Zenon DEF QueueInv
  <2>8. OnceInv'
    <3>1. /\ wpc'[w] = "run" /\ wjob'[w] = h /\ jst'[h] = "running"
          /\ \A v \in Workers : v # w => wpc'[v] = wpc[v] /\ wjob'[v] = wjob[v]
          /\ \A j \in Jobs : j # h => jst'[j] = jst[j]
      BY <2>1, <2>4, <2>5, Zenon DEF TypeOK
    <3>2. \A v \in Workers : wpc[v] = "run" => wjob[v] # h
      BY <2>2, Zenon DEF JobInv, OnceInv
    <3>3. ipc' = ipc /\ ipc[h] # "run"
      BY <2>1, <2>2, <2>4 DEF JobInv, OnceInv
    <3>4. \A v \in Workers : wpc'[v] = "run" => wjob'[v] \in Jobs /\ jst'[wjob'[v]] = "running"
      <4>1. ASSUME NEW v \in Workers, v # w, wpc'[v] = "run"
            PROVE  wjob'[v] \in Jobs /\ jst'[wjob'[v]] = "running"
        <5>1. wpc[v] = "run" /\ wjob'[v] = wjob[v]
          BY <3>1, <4>1, Zenon
        <5>2. wjob[v] \in Jobs /\ jst[wjob[v]] = "running" /\ wjob[v] # h
          BY <3>2, <5>1, Zenon DEF JobInv, OnceInv
        <5> QED
          BY <3>1, <5>1, <5>2, Zenon
      <4> QED
        BY <2>1, <3>1, <4>1, Zenon
    <3>5. \A u, v \in Workers :
            wpc'[u] = "run" /\ wpc'[v] = "run" /\ wjob'[u] = wjob'[v] => u = v
      <4>1. ASSUME NEW u \in Workers, NEW v \in Workers, u # w, v # w,
                   wpc'[u] = "run", wpc'[v] = "run", wjob'[u] = wjob'[v]
            PROVE  u = v
        <5>1. wpc[u] = "run" /\ wpc[v] = "run" /\ wjob[u] = wjob[v]
          BY <3>1, <4>1, Zenon
        <5> QED
          BY <5>1, Zenon DEF JobInv, OnceInv
      <4>2. ASSUME NEW v \in Workers, v # w, wpc'[v] = "run" PROVE wjob'[v] # wjob'[w]
        BY <3>1, <3>2, <4>2, Zenon
      <4> QED
        BY <4>1, <4>2, Zenon
    <3>6. \A j \in Jobs : ipc'[j] = "run" =>
            jst'[j] = "running" /\ \A v \in Workers : wpc'[v] = "run" => wjob'[v] # j
      <4>1. ASSUME NEW j \in Jobs, ipc'[j] = "run"
            PROVE  jst'[j] = "running" /\ \A v \in Workers : wpc'[v] = "run" => wjob'[v] # j
        <5>1. ipc[j] = "run" /\ j # h
          BY <3>3, <4>1, Zenon
        <5>2. jst[j] = "running" /\ \A v \in Workers : wpc[v] = "run" => wjob[v] # j
          BY <5>1, Zenon DEF JobInv, OnceInv
        <5>3. ASSUME NEW v \in Workers, wpc'[v] = "run" PROVE wjob'[v] # j
          BY <3>1, <5>1, <5>2, <5>3, Zenon
        <5> QED
          BY <3>1, <5>1, <5>2, <5>3, Zenon
      <4> QED
        BY <4>1, Zenon
    <3> QED
      BY <3>4, <3>5, <3>6, Zenon DEF OnceInv
  <2> QED
    BY <2>6, <2>7, <2>8 DEF JobInv
<1>4. ASSUME NEW w \in Workers, WorkerReturns(w) PROVE JobInv'
  <2>1. wpc[w] = "run" /\ wjob[w] \in Jobs /\ jst[wjob[w]] = "running"
    BY <1>4, ZenonT(60) DEF WorkerReturns, JobInv, OnceInv
  <2>2. /\ queue' = queue /\ ppc' = ppc
        /\ \A j \in Jobs : j # wjob[w] => jst'[j] = jst[j]
    BY <1>4, <2>1, Zenon DEF WorkerReturns, Mark, TypeOK
  <2>3. \A j \in Jobs : jst[j] \in {"new", "accepted"} => jst'[j] = jst[j]
    BY <2>1, <2>2
  <2>4. PostedInv'
    BY <2>2, <2>3 DEF JobInv, PostedInv
  <2>5. QueueInv'
    BY <2>2, <2>3, QueueKept DEF JobInv
  <2>6. OnceInv'
    BY <1>4, <2>1, ZenonT(60) DEF WorkerReturns, JobInv, OnceInv, TypeOK
  <2> QED
    BY <2>4, <2>5, <2>6, Zenon DEF JobInv
<1>5. ASSUME NEW w \in Workers, WorkerStep(w), ~WorkerTakes(w), ~WorkerReturns(w)
      PROVE  JobInv'
  <2>1. /\ UNCHANGED <<queue, ppc, jst, ipc, wjob>>
        /\ \A v \in Workers : wpc'[v] = "run" => wpc[v] = "run"
    BY <1>5, Zenon DEF WorkerStep, WorkerSleeps, WorkerLeaves, WorkerExits, WorkerNotify,
       WorkerWokenForNothing, TypeOK
  <2> QED
    BY <2>1, JobsKept
<1> QED
  BY <1>1, <1>2, <1>3, <1>4, <1>5 DEF IsolatedStep

\* A shutdown keeps the invariant about jobs.
LEMMA StopperJobs ==
  ASSUME TypeOK, JobInv, NEW s \in Stoppers, StopperStep(s)
  PROVE  JobInv'
<1> USE DEF coreVars, workVars, stopVars
<1>1. CASE StopFirst(s)
  <2>1. /\ queue' = <<>> /\ UNCHANGED <<ppc, ipc, wpc, wjob>>
        /\ \A j \in Jobs : jst'[j] = jst[j] \/ \E i \in 1..Len(queue) : queue[i] = j
    <3>1. DOMAIN queue = 1..Len(queue)
      BY DEF TypeOK
    <3>2. \A j \in Jobs : jst'[j] = IF \E i \in DOMAIN queue : queue[i] = j
                                  THEN "dropped" ELSE jst[j]
      BY <1>1, Zenon DEF StopFirst
    <3>3. queue' = <<>> /\ UNCHANGED <<ppc, ipc, wpc, wjob>>
      BY <1>1, Zenon DEF StopFirst
    <3> QED
      BY <3>1, <3>2, <3>3, Zenon
  <2>2. \A j \in Jobs : /\ ppc[j] \in {"idle", "counted", "fallback"} => jst'[j] = jst[j]
                        /\ jst[j] = "running" => jst'[j] = "running"
    BY <2>1, ZenonT(60) DEF JobInv, QueueInv
  <2>3. PostedInv' /\ QueueInv'
    BY <2>1, <2>2, SMTT(30) DEF JobInv, PostedInv, QueueInv
  <2>4. OnceInv'
    BY <2>1, <2>2, Zenon DEF JobInv, OnceInv
  <2> QED
    BY <2>3, <2>4 DEF JobInv
<1>2. CASE ~StopFirst(s)
  <2>1. /\ UNCHANGED <<queue, ppc, jst, ipc, wjob>>
        /\ \A w \in Workers : wpc'[w] = "run" => wpc[w] = "run"
    BY <1>2 DEF StopperStep, StopAgain, AskAll, StopWaits, StopTimesOut,
       StopWokenForNothing,
       StopJoins, StopAbandons
  <2> QED
    BY <2>1, JobsKept, SMTT(60)
<1> QED
  BY <1>1, <1>2

\* A step of a poster or of a thread is a step of one job, or none.
LEMMA OthersRefine ==
  ASSUME PoolInv, JobInv, Next, ~\E s \in Stoppers : StopperStep(s)
  PROVE  Promise!Next \/ UNCHANGED Promise!vars
<1> USE DEF coreVars, workVars, stopVars, PostGoto, Mark
<1>1. UNCHANGED Phase
  <2>1. \A s \in Stoppers : Settled(s)' <=> Settled(s)
    BY OthersEnd DEF Settled, PoolInv
  <2> QED
    BY <2>1, OthersEnd, SMTT(60) DEF Phase, PoolInv
<1>2. Phase = "closed" => stopping /\ \A j \in Jobs : ppc[j] # "counted"
  <2> SUFFICES ASSUME Phase = "closed"
               PROVE  stopping /\ \A j \in Jobs : ppc[j] # "counted"
    OBVIOUS
  <2>1. stopping /\ \E s \in Stoppers : Settled(s)
    BY DEF Phase
  <2>2. AllOut
    BY <2>1 DEF PoolInv, EndInv
  <2> QED
    BY <2>1, <2>2, AllOutMeansOut
<1>3. ASSUME NEW j \in Jobs, PosterStep(j)
      PROVE  Promise!Next \/ UNCHANGED Promise!vars
  <2>1. CASE post_job_Stopped(j) \/ IsolatedStopped(j)
    <3>1. /\ stopping /\ jst[j] \in {"new", "accepted"}
          /\ jst' = [jst EXCEPT ![j] = "dropped"]
      BY <2>1 DEF post_job_Stopped, IsolatedStopped, PostsShared, JobInv, PostedInv
    <3>2. Phase # "open"
      BY <3>1 DEF Phase
    <3>3. Promise!Refuse(j) \/ Promise!Drop(j)
      BY <1>1, <3>1, <3>2 DEF Promise!Refuse, Promise!Drop, Promise!Becomes
    <3> QED
      BY <3>3 DEF Promise!Next
  <2>2. CASE post_job(j) \/ post_isolated_job(j)
    <3>1. /\ ~stopping /\ jst[j] \in {"new", "accepted"}
          /\ jst' = [jst EXCEPT ![j] = "accepted"]
      BY <2>2 DEF post_job, post_isolated_job, PostsShared, JobInv, PostedInv
    <3>2. CASE jst[j] = "new"
      <4>1. Promise!Accept(j)
        BY <1>1, <3>1, <3>2 DEF Phase, Promise!Accept, Promise!Becomes
      <4> QED
        BY <4>1 DEF Promise!Next
    <3>3. CASE jst[j] = "accepted"
      <4>1. jst' = jst
        BY <3>1, <3>3 DEF PoolInv, TypeOK
      <4> QED
        BY <1>1, <4>1 DEF Promise!vars
    <3> QED
      BY <3>1, <3>2, <3>3, Zenon
  <2>3. CASE ThreadCreated(j)
    <3>1. ppc[j] = "counted" /\ jst[j] = "accepted" /\ jst' = [jst EXCEPT ![j] = "running"]
      BY <2>3 DEF ThreadCreated, JobInv, PostedInv
    <3>2. Promise!Start(j)
      BY <1>1, <1>2, <3>1, SMTT(30) DEF Promise!Start, Promise!Becomes
    <3> QED
      BY <3>2 DEF Promise!Next
  <2>4. CASE NotifyOne(j) \/ ThreadRefused(j) \/ Track(j)
    BY <1>1, <2>4 DEF NotifyOne, ThreadRefused, Track, Promise!vars
  <2> QED
    BY <1>3, <2>1, <2>2, <2>3, <2>4 DEF PosterStep
<1>4. ASSUME NEW j \in Jobs, IsolatedStep(j)
      PROVE  Promise!Next \/ UNCHANGED Promise!vars
  <2>1. CASE IsolatedReturns(j)
    <3>1. jst[j] = "running" /\ jst' = [jst EXCEPT ![j] = "done"]
      BY <2>1, Zenon DEF IsolatedReturns, IsolatedGoto, JobInv, OnceInv
    <3>2. Promise!End(j)
      BY <1>1, <3>1 DEF Promise!End, Promise!Becomes
    <3> QED
      BY <3>2, Zenon DEF Promise!Next
  <2>2. CASE IsolatedCountOut(j) \/ IsolatedNotify(j)
    BY <1>1, <2>2 DEF IsolatedCountOut, IsolatedNotify, Promise!vars
  <2> QED
    BY <1>4, <2>1, <2>2 DEF IsolatedStep
<1>5. ASSUME NEW w \in Workers, WorkerStep(w)
      PROVE  Promise!Next \/ UNCHANGED Promise!vars
  <2>1. CASE WorkerTakes(w)
    <3>1. /\ Head(queue) \in Jobs /\ Head(queue) = queue[1] /\ 1 \in 1..Len(queue)
          /\ ~stopping /\ jst' = [jst EXCEPT ![Head(queue)] = "running"]
      <4>1. queue # <<>> /\ ~stopping /\ jst' = [jst EXCEPT ![Head(queue)] = "running"]
        BY <2>1, Zenon DEF WorkerTakes, MustLeave, Mark
      <4>2. queue \in Seq(Jobs)
        BY DEF PoolInv, TypeOK
      <4> QED
        BY <4>1, <4>2
    <3>2. jst[Head(queue)] = "accepted"
      BY <3>1, Zenon DEF JobInv, QueueInv
    <3>3. Promise!Start(Head(queue))
      BY <1>1, <1>2, <3>1, <3>2 DEF Promise!Start, Promise!Becomes
    <3> QED
      BY <3>1, <3>3, Zenon DEF Promise!Next
  <2>2. CASE WorkerReturns(w)
    <3>1. /\ wjob[w] \in Jobs /\ jst[wjob[w]] = "running"
          /\ jst' = [jst EXCEPT ![wjob[w]] = "done"]
      BY <2>2 DEF WorkerReturns, JobInv, OnceInv
    <3>2. Promise!End(wjob[w])
      BY <1>1, <3>1, ZenonT(60) DEF Promise!End, Promise!Becomes
    <3> QED
      BY <3>1, <3>2, Zenon DEF Promise!Next
  <2>3. CASE ~WorkerTakes(w) /\ ~WorkerReturns(w)
    BY <1>1, <1>5, <2>3 DEF WorkerStep, WorkerSleeps, WorkerLeaves, WorkerExits,
       WorkerNotify, WorkerWokenForNothing, Promise!vars
  <2> QED
    BY <2>1, <2>2, <2>3
<1> QED
  BY <1>3, <1>4, <1>5, ZenonT(60) DEF Next

\* A step of a shutdown closes the executor, finishes it, or does neither.
LEMMA StoppersRefine ==
  ASSUME PoolInv, PoolInv', JobInv, NEW s \in Stoppers, StopperStep(s)
  PROVE  Promise!Next \/ UNCHANGED Promise!vars
<1> USE DEF coreVars, workVars, stopVars
<1>1. CASE StopFirst(s)
  <2>1. ~stopping /\ stopping' /\ Phase = "open"
    BY <1>1, Zenon DEF StopFirst, Phase
  <2>2. \A o \in Stoppers : ~Settled(o)'
    <3>1. \A o \in Stoppers : spc[o] = "idle"
      BY <2>1, ZenonT(60) DEF PoolInv, EndInv
    <3> QED
      BY <1>1, <3>1, ZenonT(60) DEF StopFirst, StopGoto, Settled, PoolInv, TypeOK
  <2>3. Phase' = "closing"
    BY <2>1, <2>2, Zenon DEF Phase
  <2> DEFINE gone == {j \in Jobs : \E i \in DOMAIN queue : queue[i] = j}
  <2>4. gone \in SUBSET {j \in Jobs : jst[j] = "accepted"}
    BY SMTT(30) DEF JobInv, QueueInv, PoolInv, TypeOK
  <2>5. jst' = [j \in Jobs |-> IF j \in gone THEN "dropped" ELSE jst[j]]
    BY <1>1, Zenon DEF StopFirst
  <2>6. Promise!Close
    BY <2>1, <2>3, <2>4, <2>5, Zenon DEF Promise!Close
  <2> QED
    BY <2>6, Zenon DEF Promise!Next
<1>2. CASE ~StopFirst(s)
  <2>1. UNCHANGED <<jst, stopping>> /\ stopping
    <3>1. UNCHANGED <<jst, stopping>> /\ (stopping \/ spc[s] # "idle")
      BY <1>2 DEF StopperStep, StopAgain, AskAll, StopWaits, StopTimesOut,
         StopWokenForNothing, StopJoins, StopAbandons
    <3> QED
      BY <3>1, SMTT(60) DEF PoolInv, EndInv
  <2>2. CASE Phase' = Phase
    BY <2>1, <2>2 DEF Promise!vars
  <2>3. CASE Phase = "closing" /\ Phase' = "closed"
    <3>1. \E o \in Stoppers : Settled(o)'
      BY <2>1, <2>3, Zenon DEF Phase
    <3>2. AllOut'
      BY <3>1, Zenon DEF PoolInv, EndInv
    <3>3. AllOut
      BY <1>2, <3>2, ZenonT(60) DEF StopperStep, StopAgain, AskAll, StopWaits, StopTimesOut,
         StopWokenForNothing, StopJoins, StopAbandons, AllOut
    <3>4. Promise!Finish
      BY <2>1, <2>3, <3>3, AllOutMeansOut DEF Promise!Finish
    <3> QED
      BY <3>4 DEF Promise!Next
  <2>4. CASE Phase = "closed" /\ Phase' = "closing"
    <3>1. PICK o \in Stoppers : Settled(o)
      BY <2>4, Zenon DEF Phase
    <3>2. Settled(o)'
      <4>1. spc[s] # "returned" /\ (spc[s] = "idle" => spc[Dtor] = "idle")
        BY <1>2, Zenon DEF StopperStep, StopAgain, MayStop, Alive, AskAll, StopWaits,
           StopTimesOut,
           StopWokenForNothing, StopJoins, StopAbandons
      <4>2. o # s /\ o # Dtor
        <5>1. spc[o] = "returned"
          BY <3>1, Zenon DEF Settled
        <5>2. o # s
          BY <4>1, <5>1, Zenon
        <5>3. ASSUME o = Dtor PROVE FALSE
          <6>1. Settled(Dtor) /\ s # Dtor
            BY <3>1, <5>2, <5>3, Zenon
          <6>2. spc[s] = "idle" /\ spc[Dtor] = "returned"
            BY <6>1, ZenonT(60) DEF Settled
          <6> QED
            BY <4>1, <6>2, Zenon
        <5> QED
          BY <5>2, <5>3, Zenon
      <4>3. spc'[o] = spc[o] /\ ret'[o] = ret[o]
        BY <1>2, <4>2, ZenonT(60) DEF StopperStep, StopAgain, AskAll, StopWaits,
           StopTimesOut,
           StopWokenForNothing, StopJoins, StopAbandons, StopGoto, PoolInv, TypeOK
      <4> QED
        BY <3>1, <4>2, <4>3, Zenon DEF Settled
    <3> QED
      BY <2>1, <2>4, <3>2 DEF Phase
  <2> QED
    BY <2>1, <2>2, <2>3, <2>4 DEF Phase
<1> QED
  BY <1>1, <1>2

\* The pool implements an executor: each job runs at most once, none is taken
\* once a shutdown began, and none runs after one returned and left nobody
\* behind (executor.hpp:12-14).
THEOREM PoolImplementsExecutor == Spec => ImplementsExecutor
<1>1. Init => JobInv /\ Promise!Init
  <2> SUFFICES ASSUME Init PROVE JobInv /\ Promise!Init
    OBVIOUS
  <2>1. JobInv
    BY DEF Init, JobInv, PostedInv, QueueInv, OnceInv
  <2>2. Promise!Init
    BY DEF Init, Promise!Init, Phase
  <2> QED
    BY <2>1, <2>2
<1>2. PoolInv /\ JobInv /\ [Next]_vars => JobInv'
  <2>1. CASE UNCHANGED vars
    BY <2>1, JobsKept DEF vars, coreVars, workVars, PoolInv
  <2> QED
    BY <2>1, PosterJobs, ThreadJobs, StopperJobs, Zenon DEF Next, PoolInv
<1>3. PoolInv /\ PoolInv' /\ JobInv /\ [Next]_vars => [Promise!Next]_(Promise!vars)
  <2>1. CASE UNCHANGED vars
    BY <2>1, Zenon DEF vars, coreVars, stopVars, Promise!vars, Phase, Settled
  <2> QED
    BY <2>1, OthersRefine, StoppersRefine, Zenon
<1> QED
  BY <1>1, <1>2, <1>3, PoolInvariant, PTL DEF Spec, ImplementsExecutor, Promise!Spec

-----------------------------------------------------------------------------
(* No job is missed *)

\* A worker's own stop token is used only once the pool stops.
WorkersUnasked == stopping \/ asked \cap Workers = {}

LEMMA UnaskedStep ==
  ASSUME PoolInv, WorkersUnasked, [Next]_vars
  PROVE  WorkersUnasked'
<1> USE DEF coreVars, workVars, stopVars
<1>1. ASSUME NEW j \in Jobs, PosterStep(j) PROVE WorkersUnasked'
  <2>1. stopping' = stopping /\ (asked' = asked \/ asked' = asked \cup {j})
    BY <1>1, Zenon DEF PosterStep, post_job_Stopped, post_job, NotifyOne, IsolatedStopped,
       post_isolated_job, ThreadCreated, ThreadRefused, Track
  <2>2. j \notin Workers
    BY PoolAssumption
  <2> QED
    BY <2>1, <2>2 DEF WorkersUnasked
<1>2. ASSUME NEW j \in Jobs, IsolatedStep(j) PROVE WorkersUnasked'
  BY <1>2, Zenon DEF IsolatedStep, IsolatedReturns, IsolatedCountOut, IsolatedNotify,
     WorkersUnasked
<1>3. ASSUME NEW w \in Workers, WorkerStep(w) PROVE WorkersUnasked'
  BY <1>3, Zenon DEF WorkerStep, WorkerSleeps, WorkerTakes, WorkerLeaves, WorkerReturns,
     WorkerExits, WorkerNotify, WorkerWokenForNothing, WorkersUnasked
<1>4. ASSUME NEW s \in Stoppers, StopperStep(s) PROVE WorkersUnasked'
  <2>1. CASE StopFirst(s)
    BY <2>1 DEF StopFirst, WorkersUnasked
  <2>2. CASE AskAll(s)
    BY <2>2 DEF AskAll, PoolInv, EndInv, WorkersUnasked
  <2>3. CASE ~StopFirst(s) /\ ~AskAll(s)
    BY <1>4, <2>3, Zenon DEF StopperStep, StopAgain, StopWaits, StopTimesOut,
       StopWokenForNothing, StopJoins, StopAbandons, WorkersUnasked
  <2> QED
    BY <2>1, <2>2, <2>3
<1>5. CASE UNCHANGED vars
  BY <1>5, Zenon DEF vars, WorkersUnasked
<1> QED
  BY <1>1, <1>2, <1>3, <1>4, <1>5 DEF Next

\* The sets NoJobMissed counts are finite, and a sleeper is available.
LEMMA MissedFinite ==
  /\ IsFiniteSet(Available) /\ IsFiniteSet(Awake) /\ IsFiniteSet(Notifying)
  /\ Cardinality(Available) \in Nat /\ Cardinality(Awake) \in Nat
  /\ Cardinality(Notifying) \in Nat
  /\ Cardinality(Sleeping) <= Cardinality(Available)
<1>1. /\ Available \in SUBSET Workers /\ Awake \in SUBSET Workers
      /\ Notifying \in SUBSET Jobs /\ Sleeping \subseteq Available
  BY DEF Available, Awake, Notifying, Sleeping
<1> QED
  BY <1>1, FiniteSets, FS_Subset

\* An empty queue misses nothing.
LEMMA EmptyMissesNothing ==
  ASSUME queue = <<>>
  PROVE  NoJobMissed
BY MissedFinite DEF NoJobMissed, SpawnsEnough

\* A step that leaves the queue, the workers and the notifications alone, and
\* only moves workers towards the queue.
LEMMA NothingMissedBy ==
  ASSUME PoolInv, NoJobMissed, UNCHANGED <<queue, workers, stopping>>,
         refused \subseteq refused', Notifying' = Notifying,
         Available \subseteq Available', Awake \subseteq Awake',
         \A w \in Workers : wpc'[w] = "asleep" => wpc[w] = "asleep"
  PROVE  NoJobMissed'
<1>1. /\ Cardinality(Available) \in Nat /\ Cardinality(Available') \in Nat
      /\ Cardinality(Awake) \in Nat /\ Cardinality(Awake') \in Nat
      /\ Cardinality(Notifying) \in Nat /\ IsFiniteSet(Available') /\ IsFiniteSet(Awake')
  <2>1. /\ Available \in SUBSET Workers /\ Available' \in SUBSET Workers
        /\ Awake \in SUBSET Workers /\ Awake' \in SUBSET Workers /\ Notifying \in SUBSET Jobs
    BY DEF Available, Awake, Notifying
  <2> QED
    BY <2>1, FiniteSets
<1>2. /\ Cardinality(Available) <= Cardinality(Available')
      /\ Cardinality(Awake) <= Cardinality(Awake')
  BY <1>1, FS_Subset
<1>3. Len(queue) \in Nat
  BY DEF PoolInv, TypeOK
<1>4. SpawnsEnough'
  <2>1. Len(queue) <= Cardinality(Available) => Len(queue) <= Cardinality(Available')
    BY <1>1, <1>2, <1>3
  <2> QED
    BY <2>1 DEF NoJobMissed, SpawnsEnough
<1>5. (\E w \in Workers : wpc[w] = "asleep") =>
        Len(queue) <= Cardinality(Awake') + Cardinality(Notifying)
  BY <1>1, <1>2, <1>3 DEF NoJobMissed
<1> QED
  BY <1>4, <1>5, Zenon DEF NoJobMissed

\* Posting a job and telling a worker.
LEMMA PosterMisses ==
  ASSUME PoolInv, NoJobMissed, ~stopping, NEW j \in Jobs, PosterStep(j)
  PROVE  NoJobMissed'
<1> USE DEF coreVars, workVars, stopVars, PostGoto
<1>0. /\ queue \in Seq(Jobs) /\ ppc \in [Jobs -> PosterPcs] /\ wpc \in [Workers -> WorkerPcs]
      /\ idle = Cardinality(Sleeping) /\ workers = Spawned /\ Len(queue) \in Nat
  BY DEF PoolInv, TypeOK, Counts, IdleCount, ExitCount
<1>1. CASE post_job(j)
  <2>1. Len(queue') = Len(queue) + 1
    BY <1>0, <1>1 DEF post_job
  <2>2. Notifying' = Notifying \cup {j} /\ j \notin Notifying
    BY <1>0, <1>1 DEF post_job, PostsShared, Notifying
  <2>3. Cardinality(Notifying') = Cardinality(Notifying) + 1
    BY <2>2, MissedFinite, CardinalityStep
  <2>4. \/ UNCHANGED <<wpc, workers>> /\ (refused' = refused \/ "worker" \in refused')
           /\ (\/ "worker" \in refused' \/ workers = Workers
               \/ Len(queue) + 1 <= Cardinality(Sleeping))
        \/ \E w \in Workers \ workers : wpc' = [wpc EXCEPT ![w] = "start"]
    <3>1. idle \in Nat
      BY DEF PoolInv, TypeOK
    <3>2. CASE SpawnsOne(Len(queue) + 1)
      BY <1>1, <3>2 DEF post_job, spawn_worker
    <3>3. CASE ~SpawnsOne(Len(queue) + 1)
      BY <1>0, <1>1, <3>1, <3>3 DEF post_job, SpawnsOne
    <3> QED
      BY <3>2, <3>3
  <2>5. ASSUME NEW w \in Workers \ workers, wpc' = [wpc EXCEPT ![w] = "start"]
        PROVE  NoJobMissed'
    <3>1. wpc[w] = "none"
      BY <1>0, <2>5 DEF Spawned
    <3>2. Available' = Available \cup {w} /\ w \notin Available
      BY <1>0, <2>5, <3>1 DEF Available
    <3>3. Awake' = Awake \cup {w} /\ w \notin Awake
      BY <1>0, <2>5, <3>1 DEF Awake, Looks
    <3>4. /\ Cardinality(Available') = Cardinality(Available) + 1
          /\ Cardinality(Awake') = Cardinality(Awake) + 1
      BY <3>2, <3>3, MissedFinite, CardinalityStep
    <3>5. \A v \in Workers : wpc'[v] = "asleep" => wpc[v] = "asleep"
      BY <1>0, <2>5
    <3>6. /\ workers = Workers \/ stopping => workers' = Workers \/ stopping'
          /\ refused \subseteq refused'
      BY <1>1, <2>5, Zenon DEF post_job, spawn_worker
    <3>7. SpawnsEnough'
      BY <1>0, <2>1, <3>4, <3>6, MissedFinite DEF NoJobMissed, SpawnsEnough
    <3>8. (\E v \in Workers : wpc[v] = "asleep") =>
            Len(queue') <= Cardinality(Awake') + Cardinality(Notifying')
      BY <1>0, <2>1, <2>3, <3>4, MissedFinite DEF NoJobMissed
    <3> QED
      BY <3>5, <3>7, <3>8, Zenon DEF NoJobMissed
  <2>6. CASE UNCHANGED <<wpc, workers>> /\ (refused' = refused \/ "worker" \in refused')
             /\ (\/ "worker" \in refused' \/ workers = Workers
                 \/ Len(queue) + 1 <= Cardinality(Sleeping))
    <3>1. Available' = Available /\ Awake' = Awake
      BY <2>6 DEF Available, Awake, Looks
    <3>2. SpawnsEnough'
      <4>1. Cardinality(Sleeping) \in Nat
        BY CountedFinite, FS_CardinalityType
      <4> QED
        BY <1>0, <2>1, <2>6, <3>1, <4>1, MissedFinite DEF SpawnsEnough
    <3>3. (\E v \in Workers : wpc[v] = "asleep") =>
            Len(queue') <= Cardinality(Awake') + Cardinality(Notifying')
      BY <1>0, <2>1, <2>3, <3>1, MissedFinite DEF NoJobMissed
    <3> QED
      BY <2>6, <3>2, <3>3, Zenon DEF NoJobMissed
  <2> QED
    BY <2>4, <2>5, <2>6
<1>2. CASE NotifyOne(j)
  <2>1. Notifying' = Notifying \ {j} /\ j \in Notifying
    BY <1>0, <1>2 DEF NotifyOne, Notifying
  <2>2. Cardinality(Notifying') = Cardinality(Notifying) - 1
    BY <2>1, MissedFinite, CardinalityStep
  <2>3. UNCHANGED <<queue, workers, stopping, refused>>
    BY <1>2 DEF NotifyOne
  <2>4. CASE {w \in Workers : wpc[w] = "asleep"} = {}
    <3>1. wpc' = wpc
      BY <1>2, <2>4 DEF NotifyOne
    <3>2. Available' = Available
      BY <3>1 DEF Available
    <3> QED
      BY <2>3, <2>4, <3>1, <3>2, Zenon DEF NoJobMissed, SpawnsEnough
  <2>5. ASSUME NEW w \in Workers, wpc[w] = "asleep", wpc' = [wpc EXCEPT ![w] = "woken"]
        PROVE  NoJobMissed'
    <3>1. Available' = Available
      BY <1>0, <2>5 DEF Available
    <3>2. Awake' = Awake \cup {w} /\ w \notin Awake
      BY <1>0, <2>5 DEF Awake, Looks
    <3>3. Cardinality(Awake') = Cardinality(Awake) + 1
      BY <3>2, MissedFinite, CardinalityStep
    <3>4. Len(queue) <= Cardinality(Awake') + Cardinality(Notifying')
      BY <1>0, <2>2, <2>5, <3>3, MissedFinite DEF NoJobMissed
    <3> QED
      BY <2>3, <3>1, <3>4, Zenon DEF NoJobMissed, SpawnsEnough
  <2> QED
    BY <1>2, <2>4, <2>5, Zenon DEF NotifyOne
<1>3. CASE ~post_job(j) /\ ~NotifyOne(j)
  <2>1. UNCHANGED <<queue, workers, stopping, wpc>> /\ refused \subseteq refused'
    BY <1>3, ZenonT(60) DEF PosterStep, post_job_Stopped, IsolatedStopped, post_isolated_job,
       ThreadCreated, ThreadRefused, Track
  <2>2. ppc[j] # "notify" /\ \E l \in PosterPcs \ {"notify"} : ppc' = [ppc EXCEPT ![j] = l]
    BY <1>3, ZenonT(60) DEF PosterStep, post_job_Stopped, PostsShared, IsolatedStopped,
       post_isolated_job, ThreadCreated, ThreadRefused, Track, PosterPcs
  <2>3. Notifying' = Notifying
    BY <1>0, <2>2 DEF Notifying
  <2>4. Available' = Available /\ Awake' = Awake
    BY <2>1 DEF Available, Awake, Looks
  <2> QED
    BY <2>1, <2>3, <2>4, NothingMissedBy
<1> QED
  BY <1>1, <1>2, <1>3

\* A worker takes a job, returns to the queue, or goes to sleep.
LEMMA WorkerMisses ==
  ASSUME PoolInv, WorkersUnasked, NoJobMissed, ~stopping, NEW w \in Workers, WorkerStep(w)
  PROVE  NoJobMissed'
<1> USE DEF coreVars, workVars, stopVars, WorkerGoto
<1>0. /\ queue \in Seq(Jobs) /\ wpc \in [Workers -> WorkerPcs] /\ Len(queue) \in Nat
      /\ w \notin asked
  BY DEF PoolInv, TypeOK, WorkersUnasked
<1>1. CASE WorkerSleeps(w)
  <2>1. queue' = <<>>
    BY <1>1 DEF WorkerSleeps
  <2>2. /\ Cardinality(Available') \in Nat /\ Cardinality(Awake') \in Nat
        /\ Cardinality(Notifying') \in Nat
    <3>1. /\ Available' \in SUBSET Workers /\ Awake' \in SUBSET Workers
          /\ Notifying' \in SUBSET Jobs
      BY DEF Available, Awake, Notifying
    <3> QED
      BY <3>1, FiniteSets
  <2> QED
    BY <2>1, <2>2 DEF NoJobMissed, SpawnsEnough
<1>2. CASE WorkerTakes(w)
  <2>1. /\ Len(queue') = Len(queue) - 1 /\ queue # <<>>
        /\ UNCHANGED <<workers, stopping, refused, ppc>>
    BY <1>0, <1>2 DEF WorkerTakes
  <2>2. wpc' = [wpc EXCEPT ![w] = "run"] /\ wpc[w] \in {"start", "loop", "woken"}
    BY <1>2 DEF WorkerTakes, Looks
  <2>3. Awake' = Awake \ {w} /\ w \in Awake
    BY <1>0, <2>2 DEF Awake, Looks
  <2>4. Available' = Available \ {w}
    BY <1>0, <2>2 DEF Available
  <2>5. Cardinality(Awake') = Cardinality(Awake) - 1 /\ Cardinality(Notifying') = Cardinality(Notifying)
    BY <2>1, <2>3, MissedFinite, CardinalityStep DEF Notifying
  <2>6. Cardinality(Available') \in {Cardinality(Available), Cardinality(Available) - 1}
    <3>1. CASE w \in Available
      BY <2>4, <3>1, MissedFinite, CardinalityStep
    <3>2. CASE w \notin Available
      <4>1. Available' = Available
        BY <2>4, <3>2
      <4> QED
        BY <4>1
    <3> QED
      BY <3>1, <3>2
  <2>7. SpawnsEnough'
    BY <1>0, <2>1, <2>6, MissedFinite DEF NoJobMissed, SpawnsEnough
  <2>8. (\E v \in Workers : wpc[v] = "asleep") =>
          Len(queue') <= Cardinality(Awake') + Cardinality(Notifying')
    BY <1>0, <2>1, <2>5, MissedFinite DEF NoJobMissed
  <2>9. \A v \in Workers : wpc'[v] = "asleep" => wpc[v] = "asleep"
    BY <1>0, <2>2
  <2> QED
    BY <2>7, <2>8, <2>9, Zenon DEF NoJobMissed
<1>3. CASE WorkerLeaves(w)
  BY <1>0, <1>3 DEF WorkerLeaves, MustLeave
<1>4. CASE \/ WorkerReturns(w) \/ WorkerExits(w) \/ WorkerNotify(w)
           \/ WorkerWokenForNothing(w)
  <2>1. UNCHANGED <<queue, workers, stopping, refused, ppc>>
    BY <1>4 DEF WorkerReturns, WorkerExits, WorkerNotify, WorkerWokenForNothing
  <2>2. \/ wpc[w] \in {"run", "leave", "notify"}
           /\ \E l \in {"loop", "notify", "gone"} : wpc' = [wpc EXCEPT ![w] = l]
        \/ wpc[w] = "asleep" /\ wpc' = [wpc EXCEPT ![w] = "woken"]
    BY <1>4 DEF WorkerReturns, WorkerExits, WorkerNotify, WorkerWokenForNothing
  <2>3. Available \subseteq Available' /\ Awake \subseteq Awake'
    BY <1>0, <2>2 DEF Available, Awake, Looks
  <2>4. \A v \in Workers : wpc'[v] = "asleep" => wpc[v] = "asleep"
    BY <1>0, <2>2
  <2>5. Notifying' = Notifying
    BY <2>1 DEF Notifying
  <2> QED
    BY <2>1, <2>3, <2>4, <2>5, NothingMissedBy
<1> QED
  BY <1>1, <1>2, <1>3, <1>4 DEF WorkerStep

\* No queued job waits for a worker the pool could have had, and none sleeps
\* through a job (pool.hpp:224-226), for any number of jobs and workers,
\* however late a notified worker wakes and whatever threads are refused.
THEOREM NoJobIsMissed == Spec => []NoJobMissed
<1> USE DEF coreVars, workVars, stopVars
<1>1. Init => WorkersUnasked /\ NoJobMissed
  <2>1. Init => WorkersUnasked /\ queue = <<>>
    BY DEF Init, WorkersUnasked
  <2> QED
    BY <2>1, EmptyMissesNothing
<1>2. PoolInv /\ PoolInv' /\ WorkersUnasked /\ NoJobMissed /\ [Next]_vars
        => WorkersUnasked' /\ NoJobMissed'
  <2> SUFFICES ASSUME PoolInv, PoolInv', WorkersUnasked, NoJobMissed, [Next]_vars
               PROVE  NoJobMissed'
    BY UnaskedStep
  <2>1. CASE stopping'
    <3>1. queue' = <<>>
      BY <2>1 DEF PoolInv, Counts, ExitCount
    <3>2. /\ Cardinality(Available') \in Nat /\ Cardinality(Awake') \in Nat
          /\ Cardinality(Notifying') \in Nat
      <4>1. /\ Available' \in SUBSET Workers /\ Awake' \in SUBSET Workers
            /\ Notifying' \in SUBSET Jobs
        BY DEF Available, Awake, Notifying
      <4> QED
        BY <4>1, FiniteSets
    <3> QED
      BY <2>1, <3>1, <3>2 DEF NoJobMissed, SpawnsEnough
  <2>2. CASE ~stopping' /\ stopping
    BY <2>2, ZenonT(60) DEF Next, vars, PosterStep, post_job_Stopped, post_job, NotifyOne,
       IsolatedStopped, post_isolated_job, ThreadCreated, ThreadRefused, Track,
       IsolatedStep, IsolatedReturns, IsolatedCountOut, IsolatedNotify,
       WorkerStep, WorkerSleeps, WorkerTakes, WorkerLeaves, WorkerReturns, WorkerExits,
       WorkerNotify, WorkerWokenForNothing, StopperStep, StopFirst, StopAgain, AskAll,
       StopWaits, StopTimesOut, StopWokenForNothing, StopJoins, StopAbandons
  <2>3. CASE ~stopping' /\ ~stopping
    <3>1. ASSUME NEW j \in Jobs, IsolatedStep(j) PROVE NoJobMissed'
      BY <3>1, Zenon DEF IsolatedStep, IsolatedReturns, IsolatedCountOut, IsolatedNotify,
         NoJobMissed, SpawnsEnough, Available, Awake, Looks, Notifying
    <3>2. ASSUME NEW s \in Stoppers, StopperStep(s) PROVE NoJobMissed'
      <4>1. spc[s] = "idle" /\ \A o \in Stoppers : spc[o] = "idle"
        BY <2>3 DEF PoolInv, EndInv
      <4> QED
        BY <2>3, <3>2, <4>1, Zenon DEF StopperStep, StopFirst, StopAgain, AskAll, StopWaits,
           StopTimesOut, StopWokenForNothing, StopJoins, StopAbandons
    <3>3. CASE UNCHANGED vars
      BY <3>3, Zenon DEF vars, NoJobMissed, SpawnsEnough, Available, Awake, Looks, Notifying
    <3> QED
      BY <2>3, <3>1, <3>2, <3>3, PosterMisses, WorkerMisses DEF Next
  <2> QED
    BY <2>1, <2>2, <2>3
<1> QED
  BY <1>1, <1>2, PoolInvariant, PTL DEF Spec
=============================================================================
