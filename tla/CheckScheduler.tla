---------------------------- MODULE CheckScheduler ----------------------------
(***************************************************************************)
(* CheckScheduler: a fixed pool of detached worker threads, one slot per   *)
(* check, and run_once, which submits every check that is not under way    *)
(* and waits for each result up to its deadline.  The agent's shutdown is  *)
(* part of the model because it is the same thread that runs run_once:     *)
(* LocalStorage is destroyed, then the scheduler's destructor runs, and    *)
(* the workers are not joined.                                             *)
(***************************************************************************)
EXTENDS Naturals, FiniteSets, Sequences

CONSTANTS NumChecks,       \* checks are numbered in the order they were added
          Workers,         \* the pool
          Stuck,           \* checks that never return, whatever they are told
          StorageChecks,   \* checks that write to LocalStorage before returning
          None,
          MaxRuns          \* bound: executions of one check

Checks == 1..NumChecks

ASSUME SchedulerAssumption ==
         /\ NumChecks \in Nat
         /\ Workers # {}                      \* worker_count == 0 is refused
         /\ Stuck \subseteq Checks
         /\ StorageChecks \subseteq Checks
         /\ MaxRuns \in Nat

Executions == [check : Checks, run : Nat]
ASSUME NoneAssumption == None \notin Executions

VARIABLES slot,        \* per check: the run of slot->execution, 0 before any
          scheduled,   \* checks whose slot has the scheduled flag
          queue,       \* Core::queue
          wpc,         \* per worker: where it is in worker_loop
          work,        \* per worker: the execution it took from the queue
          done,        \* executions whose promise is set
          timedOut,    \* executions whose timed_out flag is set
          stopReq,     \* executions whose stop_source was asked to stop
          expired,     \* executions whose deadline has passed
          rpc,         \* where the main thread is
          idx,         \* the slot it has reached
          awaited,     \* per check: the execution this run_once waits for
          results,     \* per check: what this run_once reports
          stopToken,   \* the service was asked to stop
          stopping,    \* Core::stopping
          storage      \* LocalStorage is open

runVars    == <<rpc, idx, awaited, results>>
flagVars   == <<timedOut, stopReq, expired>>
workerVars == <<wpc, work>>
downVars   == <<stopToken, stopping, storage>>
vars == <<slot, scheduled, queue, done, runVars, flagVars, workerVars, downVars>>

Exec(c) == [check |-> c, run |-> slot[c]]

Init == /\ slot = [c \in Checks |-> 0]
        /\ scheduled = {}
        /\ queue = <<>>
        /\ wpc = [w \in Workers |-> "idle"]
        /\ work = [w \in Workers |-> None]
        /\ done = {}
        /\ timedOut = {}
        /\ stopReq = {}
        /\ expired = {}
        /\ rpc = "idle"
        /\ idx = 1
        /\ awaited = [c \in Checks |-> None]
        /\ results = [c \in Checks |-> "none"]
        /\ stopToken = FALSE
        /\ stopping = FALSE
        /\ storage = TRUE
-------------------------------------------------------------------------------
(* run_once.                                                                *)
StartRun == /\ rpc = "idle" /\ ~stopToken
            /\ \A c \in Checks : slot[c] < MaxRuns                  \* bound
            /\ rpc' = "submit"
            /\ idx' = 1
            /\ awaited' = [c \in Checks |-> None]
            /\ results' = [c \in Checks |-> "none"]
            /\ UNCHANGED <<slot, scheduled, queue, done, flagVars, workerVars,
                           downVars>>

(* A check that is not under way gets a new execution; under the slot lock. *)
SubmitNew == /\ rpc = "submit" /\ idx \in Checks
             /\ idx \notin scheduled
             /\ slot' = [slot EXCEPT ![idx] = @ + 1]
             /\ scheduled' = scheduled \cup {idx}
             /\ awaited' = [awaited EXCEPT ![idx] = [check |-> idx, run |-> slot[idx] + 1]]
             /\ rpc' = "push"
             /\ UNCHANGED <<queue, done, idx, results, flagVars, workerVars, downVars>>

Push == /\ rpc = "push"
        /\ queue' = IF stopping THEN queue ELSE Append(queue, awaited[idx])
        /\ idx' = idx + 1
        /\ rpc' = "submit"
        /\ UNCHANGED <<slot, scheduled, done, awaited, results, flagVars, workerVars,
                       downVars>>

(* A check that still is under way is waited for again.                     *)
SubmitJoin == /\ rpc = "submit" /\ idx \in Checks
              /\ idx \in scheduled
              /\ awaited' = [awaited EXCEPT ![idx] = Exec(idx)]
              /\ idx' = idx + 1
              /\ UNCHANGED <<slot, scheduled, queue, done, rpc, results, flagVars,
                             workerVars, downVars>>

StartAwait == /\ rpc = "submit" /\ idx \notin Checks
              /\ rpc' = "await"
              /\ idx' = 1
              /\ UNCHANGED <<slot, scheduled, queue, done, awaited, results, flagVars,
                             workerVars, downVars>>

(* The wait for one future ends with its result, its deadline or the stop.  *)
Waited_NoDeadline(e) == e \in done \/ stopToken

Waited(e) == e \in done \/ stopToken \/ e \in expired

(* What a run gives up on keeps its slot until its worker is through.       *)
GiveUp_FreesSlot(e) == /\ timedOut' = timedOut \cup {e}
                       /\ stopReq' = stopReq \cup {e}
                       /\ scheduled' = scheduled \ {e.check}

GiveUp(e) == /\ timedOut' = timedOut \cup {e}
             /\ stopReq' = stopReq \cup {e}
             /\ UNCHANGED scheduled

Await == /\ rpc = "await" /\ idx \in Checks
         /\ Waited(awaited[idx])
         /\ \/ /\ awaited[idx] \in done
               /\ results' = [results EXCEPT ![idx] = "result"]
               /\ UNCHANGED <<timedOut, stopReq, scheduled>>
            \/ /\ awaited[idx] \notin done
               /\ results' = [results EXCEPT ![idx] =
                                IF stopToken THEN "cancelled" ELSE "timeout"]
               /\ GiveUp(awaited[idx])
         /\ idx' = idx + 1
         /\ UNCHANGED <<slot, queue, done, rpc, awaited, expired, workerVars, downVars>>

Return == /\ rpc = "await" /\ idx \notin Checks
          /\ rpc' = "idle"
          /\ UNCHANGED <<slot, scheduled, queue, done, idx, awaited, results, flagVars,
                         workerVars, downVars>>

(* The steady clock passes the deadline of an execution.                    *)
Expire(c) == /\ slot[c] > 0 /\ Exec(c) \notin expired
             /\ expired' = expired \cup {Exec(c)}
             /\ UNCHANGED <<slot, scheduled, queue, done, timedOut, stopReq, runVars,
                            workerVars, downVars>>
-------------------------------------------------------------------------------
(* worker_loop.                                                             *)
Goto(w, pc) == wpc' = [wpc EXCEPT ![w] = pc]

Pop(w) == /\ wpc[w] = "idle" /\ queue # <<>>
          /\ work' = [work EXCEPT ![w] = Head(queue)]
          /\ queue' = Tail(queue)
          /\ Goto(w, "popped")
          /\ UNCHANGED <<slot, scheduled, done, flagVars, runVars, downVars>>

(* An execution that was given up on before it started is answered at once. *)
Cancel_Forgets(w) == /\ wpc[w] = "popped"
                     /\ work[w] \in timedOut \cup stopReq
                     /\ Goto(w, "idle")
                     /\ UNCHANGED <<slot, scheduled, queue, done, flagVars, runVars,
                                    work, downVars>>

Cancel(w) == /\ wpc[w] = "popped"
             /\ work[w] \in timedOut \cup stopReq
             /\ Goto(w, "set")
             /\ UNCHANGED <<slot, scheduled, queue, done, flagVars, runVars, work,
                            downVars>>

Execute(w) == /\ wpc[w] = "popped"
              /\ work[w] \notin timedOut \cup stopReq
              /\ Goto(w, "executing")
              /\ UNCHANGED <<slot, scheduled, queue, done, flagVars, runVars, work,
                             downVars>>

(* The check stores its state through the LocalStorage pointer it was given.*)
Save(w) == /\ wpc[w] = "executing"
           /\ work[w].check \in StorageChecks \ Stuck
           /\ Goto(w, "saving")
           /\ UNCHANGED <<slot, scheduled, queue, done, flagVars, runVars, work,
                          downVars>>

(* execute returns or throws, both give a result.                           *)
Complete(w) == /\ \/ wpc[w] = "saving"
                  \/ wpc[w] = "executing" /\ work[w].check \notin StorageChecks \cup Stuck
               /\ Goto(w, "set")
               /\ UNCHANGED <<slot, scheduled, queue, done, flagVars, runVars, work,
                              downVars>>

(* finish_execution: the promise first, the slot afterwards.                *)
SetPromise(w) == /\ wpc[w] = "set"
                 /\ done' = done \cup {work[w]}
                 /\ Goto(w, "release")
                 /\ UNCHANGED <<slot, scheduled, queue, flagVars, runVars, work,
                                downVars>>

Release(w) == /\ wpc[w] = "release"
              /\ scheduled' = IF slot[work[w].check] = work[w].run
                              THEN scheduled \ {work[w].check}
                              ELSE scheduled
              /\ work' = [work EXCEPT ![w] = None]
              /\ Goto(w, "idle")
              /\ UNCHANGED <<slot, queue, done, flagVars, runVars, downVars>>

(* A worker that finds nothing to do leaves when the scheduler stops.       *)
Leave_OnlyOne(w) == /\ wpc[w] = "idle" /\ stopping /\ queue = <<>>
                    /\ \A v \in Workers : wpc[v] # "gone"
                    /\ Goto(w, "gone")
                    /\ UNCHANGED <<slot, scheduled, queue, done, flagVars, runVars,
                                   work, downVars>>

Leave(w) == /\ wpc[w] = "idle" /\ stopping /\ queue = <<>>
            /\ Goto(w, "gone")
            /\ UNCHANGED <<slot, scheduled, queue, done, flagVars, runVars, work,
                           downVars>>
-------------------------------------------------------------------------------
(* Shutdown of the agent.  The members of Application::Impl are destroyed   *)
(* in the reverse order of their declaration: storage, later scheduler.     *)
RequestStop == /\ ~stopToken
               /\ stopToken' = TRUE
               /\ UNCHANGED <<slot, scheduled, queue, done, flagVars, runVars,
                              workerVars, stopping, storage>>

DestroyStorage == /\ rpc = "idle" /\ stopToken
                  /\ storage' = FALSE
                  /\ rpc' = "dtor"
                  /\ UNCHANGED <<slot, scheduled, queue, done, idx, awaited, results,
                                 flagVars, workerVars, stopToken, stopping>>

SetStopping == /\ rpc = "dtor"
               /\ stopping' = TRUE
               /\ rpc' = "cancel"
               /\ idx' = 1
               /\ UNCHANGED <<slot, scheduled, queue, done, awaited, results, flagVars,
                              workerVars, stopToken, storage>>

StopSlot == /\ rpc = "cancel" /\ idx \in Checks
            /\ stopReq' = IF slot[idx] > 0 THEN stopReq \cup {Exec(idx)} ELSE stopReq
            /\ idx' = idx + 1
            /\ UNCHANGED <<slot, scheduled, queue, done, rpc, awaited, results,
                           timedOut, expired, workerVars, downVars>>

Destroyed == /\ rpc = "cancel" /\ idx \notin Checks
             /\ rpc' = "gone"
             /\ UNCHANGED <<slot, scheduled, queue, done, idx, awaited, results,
                            flagVars, workerVars, downVars>>
-------------------------------------------------------------------------------
RunStep == SubmitNew \/ Push \/ SubmitJoin \/ StartAwait \/ Await \/ Return

Shutdown == DestroyStorage \/ SetStopping \/ StopSlot \/ Destroyed

WorkerStep(w) == \/ Pop(w) \/ Cancel(w) \/ Execute(w) \/ Save(w) \/ Complete(w)
                 \/ SetPromise(w) \/ Release(w) \/ Leave(w)

Next == \/ StartRun \/ RunStep \/ RequestStop \/ Shutdown
        \/ \E c \in Checks : Expire(c)
        \/ \E w \in Workers : WorkerStep(w)

Spec == Init /\ [][Next]_vars

(* Threads run, time passes; nothing makes the service start another run or *)
(* stop, and a stuck check has no step that fairness could force.           *)
Fairness == /\ WF_vars(RunStep)
            /\ WF_vars(Shutdown)
            /\ \A c \in Checks : WF_vars(Expire(c))
            /\ \A w \in Workers : WF_vars(WorkerStep(w))

FairSpec == Spec /\ Fairness
-------------------------------------------------------------------------------
Busy(w) == wpc[w] \in {"popped", "executing", "saving", "set", "release"}
Queued(c) == \E i \in 1..Len(queue) : queue[i].check = c

(* Types of every variable.                                                 *)
TypeOK == /\ slot \in [Checks -> Nat]
          /\ scheduled \subseteq Checks
          /\ queue \in Seq(Executions)
          /\ wpc \in [Workers -> {"idle", "popped", "executing", "saving", "set",
                                  "release", "gone"}]
          /\ work \in [Workers -> Executions \cup {None}]
          /\ done \subseteq Executions /\ timedOut \subseteq Executions
          /\ stopReq \subseteq Executions /\ expired \subseteq Executions
          /\ rpc \in {"idle", "submit", "push", "await", "dtor", "cancel", "gone"}
          /\ idx \in 1..(NumChecks + 1)
          /\ awaited \in [Checks -> Executions \cup {None}]
          /\ results \in [Checks -> {"none", "result", "timeout", "cancelled"}]
          /\ stopToken \in BOOLEAN /\ stopping \in BOOLEAN /\ storage \in BOOLEAN

(* Two workers never run the same check, also when run_once has given up on *)
(* an earlier execution of it and runs again.                               *)
SingleFlight ==
  \A v, w \in Workers : Busy(v) /\ Busy(w) /\ work[v].check = work[w].check => v = w

(* A slot that is marked scheduled belongs to somebody who will free it: no *)
(* order of timeouts, cancellations and completions leaks a slot, which     *)
(* would silence the check for the life of the service.                     *)
SlotAccounted ==
  \A c \in scheduled : \/ Queued(c)
                       \/ \E w \in Workers : Busy(w) /\ work[w].check = c
                       \/ rpc = "push" /\ idx = c

(* run_once returns whatever the checks do.                                 *)
RunOnceReturns == rpc \in {"submit", "push", "await"} ~> rpc = "idle"

(* A check that returns is through in finite time while a stuck one         *)
(* occupies a worker, as long as the pool is larger than the stuck checks.  *)
HealthyChecksFinish ==
  \A c \in Checks \ Stuck : c \in scheduled ~> c \notin scheduled

(* After the destructor every worker that is not in a stuck check ends.     *)
WorkersLeave ==
  \A w \in Workers :
     stopping ~> wpc[w] = "gone" \/ (wpc[w] = "executing" /\ work[w].check \in Stuck)

(* "They only retain the shared Core and check slots": no worker reaches    *)
(* LocalStorage after the agent destroyed it.                               *)
StorageOutlivesChecks == \A w \in Workers : wpc[w] = "saving" => storage
-------------------------------------------------------------------------------
(* What the safety proofs rest on.  What run_once has submitted so far has  *)
(* an execution to wait for.                                                *)
AwaitedSoFar ==
  \A c \in Checks :
     \/ rpc = "await"
     \/ rpc = "submit" /\ c < idx
     \/ rpc = "push" /\ c <= idx
     => awaited[c] \in Executions

(* Queue entries are the current executions of distinct reserved slots.     *)
QueueOwns ==
  /\ \A i \in 1..Len(queue) : /\ queue[i].check \in scheduled
                              /\ queue[i] = Exec(queue[i].check)
  /\ \A i, j \in 1..Len(queue) : queue[i].check = queue[j].check => i = j

(* So are the executions the workers have, and no queue entry is one.       *)
WorkersOwn ==
  \A w \in Workers : Busy(w) =>
     /\ work[w] \in Executions
     /\ work[w].check \in scheduled
     /\ work[w] = Exec(work[w].check)
     /\ ~Queued(work[w].check)

(* The execution run_once is about to push is nobody else's yet.            *)
PushOwns ==
  rpc = "push" => /\ idx \in scheduled
                  /\ awaited[idx] = Exec(idx)
                  /\ ~Queued(idx)
                  /\ \A w \in Workers : Busy(w) => work[w].check # idx

(* The destructor runs on the thread that calls run_once: a push never meets*)
(* a scheduler that stops.                                                  *)
StopsAfterRuns == stopping => rpc \in {"cancel", "gone"}

(* The inductive invariant: every reserved slot has exactly one owner.      *)
Ownership == /\ TypeOK /\ AwaitedSoFar /\ StopsAfterRuns
             /\ QueueOwns /\ WorkersOwn /\ PushOwns
             /\ SingleFlight /\ SlotAccounted
===============================================================================
