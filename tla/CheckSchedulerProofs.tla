------------------------ MODULE CheckSchedulerProofs ------------------------
(***************************************************************************)
(* Theorems about CheckScheduler for any number of checks and workers.     *)
(***************************************************************************)
EXTENDS CheckScheduler, SequenceTheorems, TLAPS

(* Every next-state step is one of these; the case split of the proofs.     *)
LEMMA NextCases ==
  ASSUME Next
  PROVE  \/ StartRun \/ SubmitNew \/ Push \/ SubmitJoin \/ StartAwait \/ Await
         \/ Return \/ RequestStop \/ DestroyStorage \/ SetStopping \/ StopSlot
         \/ Destroyed
         \/ \E c \in Checks : Expire(c)
         \/ \E w \in Workers : WorkerStep(w)
BY DEF Next, RunStep, Shutdown

(* The position of run_once among the checks.                               *)
LEMMA Position ==
  /\ 1 \in 1..(NumChecks + 1)
  /\ \A i \in Checks : i + 1 \in 1..(NumChecks + 1)
  /\ Checks \subseteq Nat
BY SchedulerAssumption DEF Checks

(* The current execution of a check is an execution.                        *)
LEMMA ExecType ==
  ASSUME TypeOK, NEW c \in Checks
  PROVE  /\ Exec(c) \in Executions /\ Exec(c).check = c /\ Exec(c).run = slot[c]
         /\ [check |-> c, run |-> slot[c] + 1] \in Executions
BY DEF TypeOK, Exec, Executions

-----------------------------------------------------------------------------
(* The invariant holds when the scheduler has been constructed.             *)
LEMMA OwnershipInit == Init => Ownership
<1>. SUFFICES ASSUME Init PROVE Ownership
  OBVIOUS
<1>1. queue = <<>> /\ queue \in Seq(Executions) /\ Len(queue) = 0
  BY EmptySeq DEF Init
<1>2. TypeOK
  BY <1>1, Position DEF Init, TypeOK
<1>3. AwaitedSoFar /\ StopsAfterRuns
  BY Position, SchedulerAssumption DEF Init, AwaitedSoFar, StopsAfterRuns, Checks
<1>4. QueueOwns
  BY <1>1 DEF QueueOwns
<1>5. \A w \in Workers : ~Busy(w)
  BY DEF Init, Busy
<1>6. WorkersOwn /\ SingleFlight
  BY <1>5 DEF WorkersOwn, SingleFlight
<1>7. PushOwns /\ SlotAccounted
  BY DEF Init, PushOwns, SlotAccounted
<1>. QED
  BY <1>2, <1>3, <1>4, <1>6, <1>7 DEF Ownership

(* The types hold after every step.                                         *)
LEMMA TypeStep == Ownership /\ [Next]_vars => TypeOK'
<1>. SUFFICES ASSUME Ownership, [Next]_vars PROVE TypeOK'
  OBVIOUS
<1>. USE DEF Ownership, TypeOK
<1>1. CASE StartRun
  BY <1>1, Position DEF StartRun, flagVars, workerVars, downVars
<1>2. CASE SubmitNew
  BY <1>2, Position, ExecType DEF SubmitNew, flagVars, workerVars, downVars
<1>3. CASE Push
  <2>1. idx \in Checks /\ awaited[idx] \in Executions
    BY <1>3, Position DEF Push, PushOwns, AwaitedSoFar
  <2>2. queue' \in Seq(Executions)
    BY <1>3, <2>1 DEF Push
  <2>. QED
    BY <1>3, <2>1, <2>2, Position DEF Push, flagVars, workerVars, downVars
<1>4. CASE SubmitJoin
  BY <1>4, Position, ExecType DEF SubmitJoin, flagVars, workerVars, downVars
<1>5. CASE StartAwait
  BY <1>5, Position DEF StartAwait, flagVars, workerVars, downVars
<1>6. CASE Await
  <2>1. awaited[idx] \in Executions
    BY <1>6 DEF Await, AwaitedSoFar
  <2>2. timedOut' \subseteq Executions /\ stopReq' \subseteq Executions /\ scheduled' = scheduled
    BY <1>6, <2>1 DEF Await, GiveUp
  <2>3. results' \in [Checks -> {"none", "result", "timeout", "cancelled"}]
    BY <1>6 DEF Await
  <2>. QED
    BY <1>6, <2>2, <2>3, Position DEF Await, workerVars, downVars
<1>7. CASE Return
  BY <1>7 DEF Return, flagVars, workerVars, downVars
<1>8. CASE RequestStop
  BY <1>8 DEF RequestStop, runVars, flagVars, workerVars
<1>9. CASE DestroyStorage
  BY <1>9 DEF DestroyStorage, flagVars, workerVars
<1>10. CASE SetStopping
  BY <1>10, Position DEF SetStopping, flagVars, workerVars
<1>11. CASE StopSlot
  BY <1>11, Position, ExecType DEF StopSlot, workerVars, downVars
<1>12. CASE Destroyed
  BY <1>12 DEF Destroyed, flagVars, workerVars, downVars
<1>13. ASSUME NEW c \in Checks, Expire(c) PROVE TypeOK'
  BY <1>13, ExecType DEF Expire, runVars, workerVars, downVars
<1>14. ASSUME NEW w \in Workers, WorkerStep(w) PROVE TypeOK'
  <2>1. CASE Pop(w)
    <3>1. Head(queue) \in Executions /\ Tail(queue) \in Seq(Executions)
      BY <2>1, HeadTailProperties DEF Pop
    <3>. QED
      BY <2>1, <3>1 DEF Pop, Goto, flagVars, runVars, downVars
  <2>2. CASE Cancel(w) \/ Execute(w) \/ Save(w) \/ Complete(w) \/ Leave(w)
    BY <2>2 DEF Cancel, Execute, Save, Complete, Leave, Goto, flagVars, runVars, downVars
  <2>3. CASE SetPromise(w)
    <3>1. work[w] \in Executions
      BY <2>3 DEF SetPromise, WorkersOwn, Busy
    <3>. QED
      BY <2>3, <3>1 DEF SetPromise, Goto, flagVars, runVars, downVars
  <2>4. CASE Release(w)
    BY <2>4 DEF Release, Goto, flagVars, runVars, downVars
  <2>. QED
    BY <1>14, <2>1, <2>2, <2>3, <2>4 DEF WorkerStep
<1>15. CASE UNCHANGED vars
  BY <1>15 DEF vars, runVars, flagVars, workerVars, downVars
<1>. QED
  BY <1>1, <1>2, <1>3, <1>4, <1>5, <1>6, <1>7, <1>8, <1>9, <1>10, <1>11, <1>12,
     <1>13, <1>14, <1>15, NextCases

(* The parts that follow the main thread only.                              *)
LEMMA ControlStep ==
  Ownership /\ [Next]_vars => AwaitedSoFar' /\ StopsAfterRuns'
<1>. SUFFICES ASSUME Ownership, [Next]_vars PROVE AwaitedSoFar' /\ StopsAfterRuns'
  OBVIOUS
<1>. USE DEF Ownership, AwaitedSoFar, StopsAfterRuns
<1>1. CASE StartRun
  BY <1>1, SchedulerAssumption DEF StartRun, downVars, Checks
<1>2. CASE SubmitNew
  BY <1>2, SchedulerAssumption, ExecType DEF SubmitNew, downVars, TypeOK, Checks
<1>3. CASE Push
  BY <1>3, SchedulerAssumption DEF Push, downVars, TypeOK, Checks
<1>4. CASE SubmitJoin
  <2>1. /\ idx \in Checks /\ awaited'[idx] \in Executions
        /\ \A c \in Checks \ {idx} : awaited'[c] = awaited[c]
    BY <1>4, ExecType DEF SubmitJoin, TypeOK
  <2>2. \A c \in Checks : c < idx + 1 => c < idx \/ c = idx
    BY <2>1, Position
  <2>. QED
    BY <1>4, <2>1, <2>2 DEF SubmitJoin, downVars
<1>5. CASE StartAwait
  BY <1>5, SchedulerAssumption DEF StartAwait, downVars, TypeOK, Checks
<1>6. CASE Await
  BY <1>6 DEF Await, downVars
<1>7. CASE Return \/ RequestStop \/ DestroyStorage \/ SetStopping \/ StopSlot \/ Destroyed
  BY <1>7 DEF Return, RequestStop, DestroyStorage, SetStopping, StopSlot, Destroyed,
              runVars, downVars
<1>8. CASE \E c \in Checks : Expire(c)
  BY <1>8 DEF Expire, runVars, downVars
<1>9. CASE \E w \in Workers : WorkerStep(w)
  BY <1>9 DEF WorkerStep, Pop, Cancel, Execute, Save, Complete, SetPromise, Release,
              Leave, runVars, downVars
<1>10. CASE UNCHANGED vars
  BY <1>10 DEF vars, runVars, downVars
<1>. QED
  BY <1>1, <1>2, <1>3, <1>4, <1>5, <1>6, <1>7, <1>8, <1>9, <1>10, NextCases

-----------------------------------------------------------------------------
(* The part of the invariant that says who owns the reserved slots.         *)
Owners == /\ QueueOwns /\ WorkersOwn /\ PushOwns
          /\ SingleFlight /\ SlotAccounted

(* A step that moves no execution from one owner to another.                *)
LEMMA SameOwners ==
  ASSUME Owners,
         UNCHANGED <<slot, scheduled, queue, work>>,
         \A w \in Workers : Busy(w)' <=> Busy(w),
         \/ UNCHANGED <<rpc, idx, awaited>>
         \/ rpc # "push" /\ rpc' # "push"
  PROVE  Owners'
<1>1. \A c : Queued(c)' <=> Queued(c)
  BY DEF Queued
<1>2. \A c : Exec(c)' = Exec(c)
  BY DEF Exec
<1>3. QueueOwns'
  BY <1>2 DEF Owners, QueueOwns
<1>4. WorkersOwn' /\ SingleFlight'
  BY <1>1, <1>2 DEF Owners, WorkersOwn, SingleFlight
<1>5. PushOwns'
  BY <1>1, <1>2 DEF Owners, PushOwns
<1>6. SlotAccounted'
  BY <1>1 DEF Owners, SlotAccounted
<1>. QED
  BY <1>3, <1>4, <1>5, <1>6 DEF Owners

(* A new execution belongs to the main thread until it is pushed.           *)
LEMMA SubmitOwners ==
  ASSUME Ownership, SubmitNew
  PROVE  Owners'
<1>. USE DEF Ownership, SubmitNew
<1>1. idx \in Checks /\ idx \notin scheduled /\ UNCHANGED <<queue, wpc, work, idx>>
  BY DEF workerVars
<1>2. \A c : Queued(c)' <=> Queued(c)
  BY <1>1 DEF Queued
<1>3. \A w \in Workers : Busy(w)' <=> Busy(w)
  BY <1>1 DEF Busy
<1>4. \A c \in Checks \ {idx} : Exec(c)' = Exec(c)
  BY DEF Exec, TypeOK
<1>5. ~Queued(idx)
  BY <1>1 DEF QueueOwns, Queued
<1>6. QueueOwns'
  BY <1>1, <1>4 DEF QueueOwns, TypeOK
<1>7. \A w \in Workers : Busy(w) => work[w].check \in Checks \ {idx}
  BY <1>1 DEF WorkersOwn, TypeOK
<1>8. WorkersOwn' /\ SingleFlight'
  BY <1>1, <1>2, <1>3, <1>4, <1>7 DEF WorkersOwn, SingleFlight
<1>9. awaited'[idx] = Exec(idx)'
  BY <1>1 DEF TypeOK, Exec
<1>10. PushOwns'
  BY <1>1, <1>2, <1>3, <1>5, <1>7, <1>9 DEF PushOwns
<1>11. SlotAccounted'
  BY <1>1, <1>2, <1>3 DEF SlotAccounted
<1>. QED
  BY <1>6, <1>8, <1>10, <1>11 DEF Owners

(* The push hands it to the queue: the scheduler is not stopping yet.       *)
LEMMA PushHandsOver ==
  ASSUME Ownership, Push
  PROVE  Owners'
<1>. USE DEF Ownership, Push
<1>1. /\ idx \in Checks /\ awaited[idx] \in Executions
      /\ awaited[idx].check = idx /\ awaited[idx] = Exec(idx)
  BY Position, ExecType DEF PushOwns, TypeOK
<1>2. queue' = Append(queue, awaited[idx])
  BY DEF StopsAfterRuns
<1>3. /\ Len(queue') = Len(queue) + 1 /\ Len(queue) \in Nat
      /\ \A i \in 1..Len(queue) : queue'[i] = queue[i]
      /\ queue'[Len(queue) + 1] = awaited[idx]
  BY <1>1, <1>2 DEF TypeOK
<1>4. \A c : Queued(c)' <=> Queued(c) \/ c = idx
  BY <1>1, <1>3 DEF Queued
<1>5. UNCHANGED <<slot, scheduled, wpc, work>> /\ \A w \in Workers : Busy(w)' <=> Busy(w)
  BY DEF workerVars, Busy
<1>6. \A c : Exec(c)' = Exec(c)
  BY <1>5 DEF Exec
<1>7. QueueOwns'
  <2>1. \A i \in 1..Len(queue) : queue[i].check # idx
    BY DEF PushOwns, Queued
  <2>. QED
    BY <1>1, <1>3, <1>5, <1>6, <2>1 DEF QueueOwns, PushOwns
<1>8. WorkersOwn' /\ SingleFlight'
  BY <1>4, <1>5, <1>6 DEF WorkersOwn, SingleFlight, PushOwns
<1>9. PushOwns'
  BY DEF PushOwns
<1>10. SlotAccounted'
  BY <1>4, <1>5 DEF SlotAccounted
<1>. QED
  BY <1>7, <1>8, <1>9, <1>10 DEF Owners

(* A worker that pops takes the execution over from the queue.              *)
LEMMA PopTakesOver ==
  ASSUME Ownership, NEW w \in Workers, Pop(w)
  PROVE  Owners'
<1>. USE DEF Ownership, Pop
<1>1. /\ Len(queue) \in Nat /\ Len(queue) >= 1
      /\ Head(queue) = queue[1]
      /\ Len(queue') = Len(queue) - 1
      /\ \A i \in 1..Len(queue') : queue'[i] = queue[i + 1]
      /\ Head(queue) \in Executions
  BY HeadTailProperties, EmptySeq DEF TypeOK
<1>2. /\ UNCHANGED <<slot, scheduled, rpc, idx, awaited>>
      /\ \A c : Exec(c)' = Exec(c)
  BY DEF runVars, Exec
<1>3. /\ work'[w] = queue[1] /\ Busy(w)' /\ ~Busy(w)
      /\ \A v \in Workers \ {w} : work'[v] = work[v] /\ (Busy(v)' <=> Busy(v))
  BY <1>1 DEF Goto, Busy, TypeOK
<1>4. /\ \A c : Queued(c)' => Queued(c) /\ c # queue[1].check
      /\ \A c : Queued(c) => Queued(c)' \/ c = queue[1].check
  <2>1. ASSUME NEW i \in 1..Len(queue)
        PROVE  i = 1 \/ (i - 1 \in 1..Len(queue') /\ queue'[i - 1] = queue[i])
    BY <1>1
  <2>2. ASSUME NEW i \in 1..Len(queue')
        PROVE  i + 1 \in 1..Len(queue) /\ queue'[i] = queue[i + 1]
    BY <1>1
  <2>3. \A i \in 1..Len(queue) : queue[i].check = queue[1].check => i = 1
    BY <1>1 DEF QueueOwns
  <2>4. ASSUME NEW c, Queued(c)' PROVE Queued(c) /\ c # queue[1].check
    <3>1. PICK i \in 1..Len(queue') : queue'[i].check = c
      BY <2>4 DEF Queued
    <3>2. i + 1 \in 1..Len(queue) /\ queue[i + 1].check = c /\ i + 1 # 1
      BY <2>2, <3>1
    <3>. QED
      BY <2>3, <3>2 DEF Queued
  <2>5. ASSUME NEW c, Queued(c), c # queue[1].check PROVE Queued(c)'
    BY <2>1, <2>5 DEF Queued
  <2>. QED
    BY <2>4, <2>5
<1>5. QueueOwns'
  BY <1>1, <1>2 DEF QueueOwns
<1>6. Queued(queue[1].check)
  BY <1>1 DEF Queued
<1>7. WorkersOwn'
  BY <1>1, <1>2, <1>3, <1>4 DEF WorkersOwn, QueueOwns
<1>8. SingleFlight'
  BY <1>3, <1>6 DEF SingleFlight, WorkersOwn
<1>9. PushOwns'
  BY <1>2, <1>3, <1>4, <1>6 DEF PushOwns
<1>10. SlotAccounted'
  BY <1>2, <1>3, <1>4 DEF SlotAccounted
<1>. QED
  BY <1>5, <1>7, <1>8, <1>9, <1>10 DEF Owners

(* A worker that is through frees the slot it owns and no other.            *)
LEMMA ReleaseFrees ==
  ASSUME Ownership, NEW w \in Workers, Release(w)
  PROVE  Owners'
<1>. USE DEF Ownership, Release
<1>1. Busy(w) /\ work[w] = Exec(work[w].check)
  BY DEF Busy, WorkersOwn
<1>2. scheduled' = scheduled \ {work[w].check}
  BY <1>1 DEF Exec
<1>3. /\ UNCHANGED <<slot, queue, rpc, idx, awaited>>
      /\ \A c : (Exec(c)' = Exec(c)) /\ (Queued(c)' <=> Queued(c))
  BY DEF runVars, Exec, Queued
<1>4. /\ ~Busy(w)'
      /\ \A v \in Workers \ {w} : work'[v] = work[v] /\ (Busy(v)' <=> Busy(v))
  BY DEF Goto, Busy, TypeOK
<1>5. \A v \in Workers \ {w} : Busy(v) => work[v].check # work[w].check
  BY <1>1 DEF SingleFlight
<1>6. ~Queued(work[w].check)
  BY <1>1 DEF WorkersOwn
<1>7. QueueOwns'
  BY <1>2, <1>3, <1>6 DEF QueueOwns, Queued
<1>8. WorkersOwn' /\ SingleFlight'
  BY <1>2, <1>3, <1>4, <1>5 DEF WorkersOwn, SingleFlight
<1>9. PushOwns'
  BY <1>1, <1>2, <1>3, <1>4 DEF PushOwns
<1>10. SlotAccounted'
  BY <1>2, <1>3, <1>4 DEF SlotAccounted
<1>. QED
  BY <1>7, <1>8, <1>9, <1>10 DEF Owners

(* Every step of the scheduler keeps the owners in order.                   *)
LEMMA OwnersStep == Ownership /\ [Next]_vars => Owners'
<1>. SUFFICES ASSUME Ownership, [Next]_vars PROVE Owners'
  OBVIOUS
<1>1. Owners
  BY DEF Ownership, Owners
<1>2. CASE SubmitNew
  BY <1>2, SubmitOwners
<1>3. CASE Push
  BY <1>3, PushHandsOver
<1>4. CASE StartRun \/ SubmitJoin \/ StartAwait \/ Await \/ Return
  BY <1>1, <1>4, SameOwners
  DEF StartRun, SubmitJoin, StartAwait, Await, GiveUp, Return, workerVars, Busy
<1>5. CASE RequestStop
  BY <1>1, <1>5, SameOwners DEF RequestStop, runVars, workerVars, Busy
<1>6. CASE DestroyStorage \/ SetStopping \/ StopSlot \/ Destroyed
  BY <1>1, <1>6, SameOwners
  DEF DestroyStorage, SetStopping, StopSlot, Destroyed, workerVars, Busy
<1>7. ASSUME NEW c \in Checks, Expire(c) PROVE Owners'
  BY <1>1, <1>7, SameOwners DEF Expire, runVars, workerVars, Busy
<1>8. ASSUME NEW w \in Workers, WorkerStep(w) PROVE Owners'
  <2>1. CASE Pop(w)
    BY <2>1, PopTakesOver
  <2>2. CASE Release(w)
    BY <2>2, ReleaseFrees
  <2>3. CASE Cancel(w) \/ Execute(w) \/ Save(w) \/ Complete(w) \/ SetPromise(w) \/ Leave(w)
    <3>1. \A v \in Workers : Busy(v)' <=> Busy(v)
      BY <2>3 DEF Cancel, Execute, Save, Complete, SetPromise, Leave, Goto, Busy,
                  Ownership, TypeOK
    <3>2. UNCHANGED <<slot, scheduled, queue, work, rpc, idx, awaited>>
      BY <2>3 DEF Cancel, Execute, Save, Complete, SetPromise, Leave, runVars
    <3>. QED
      BY <1>1, <3>1, <3>2, SameOwners
  <2>. QED
    BY <1>8, <2>1, <2>2, <2>3 DEF WorkerStep
<1>9. CASE UNCHANGED vars
  BY <1>1, <1>9, SameOwners DEF vars, runVars, workerVars, Busy
<1>. QED
  BY <1>2, <1>3, <1>4, <1>5, <1>6, <1>7, <1>8, <1>9, NextCases

(* The invariant holds in every state of the scheduler.                     *)
THEOREM SpecOwnership == Spec => []Ownership
<1>1. Ownership /\ [Next]_vars => Ownership'
  BY TypeStep, ControlStep, OwnersStep DEF Ownership, Owners
<1>. QED
  BY OwnershipInit, <1>1, PTL DEF Spec

(* Every variable has its type in every reachable state: positions stay     *)
(* within the checks, and only executions are stored as executions.         *)
THEOREM SpecTypeOK == Spec => []TypeOK
<1>1. Ownership => TypeOK
  BY DEF Ownership
<1>. QED
  BY SpecOwnership, <1>1, PTL

(* run_once never has a check run twice at the same time, for any number of *)
(* checks and workers, although it gives up on executions that still run.   *)
THEOREM SpecSingleFlight == Spec => []SingleFlight
<1>1. Ownership => SingleFlight
  BY DEF Ownership
<1>. QED
  BY SpecOwnership, <1>1, PTL

(* A slot that run_once reserved is in the queue, with a worker or about to *)
(* be pushed: it is never lost.                                             *)
THEOREM SpecSlotAccounted == Spec => []SlotAccounted
<1>1. Ownership => SlotAccounted
  BY DEF Ownership
<1>. QED
  BY SpecOwnership, <1>1, PTL
===============================================================================
