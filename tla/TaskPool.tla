------------------------------ MODULE TaskPool ------------------------------
(***************************************************************************)
(* The goroutines of one process life of the proxy and the state they      *)
(* share: the map of cancel channels (cancelTask) with its mutex, the      *)
(* bounded worker pool, the mutex that serialises POST /transfer, the      *)
(* restore loop of main, and the DELETE handlers.                          *)
(*                                                                         *)
(* One goroutine step is one action.  The calls to Globus and SciCat are   *)
(* represented only by their outcome (module TransferTracking has them in  *)
(* full); waiting is represented by a guard.                               *)
(*                                                                         *)
(* Simplifications: the sleep between two polls is part of state "loop";   *)
(* a handler that waits for a lock and one that has not yet started are    *)
(* told apart only for DELETE, whose answer is the subject of a property.  *)
(***************************************************************************)
EXTENDS Naturals, Sequences, FiniteSets

CONSTANTS
  Jobs,            \* SciCat job ids, one for each transfer ever submitted
  Deletes,         \* DELETE /transfer/{scicatJobId} requests
  MaxConcurrency,  \* config task.maxConcurrency, workers of the pool
  QueueSize,       \* config task.queueSize, 0 is unlimited
  None             \* no holder, no target

ASSUME PoolAssumption ==
  /\ MaxConcurrency \in Nat \ {0}
  /\ QueueSize \in Nat
  /\ None \notin Jobs
  /\ None \notin Deletes

VARIABLES
  up,            \* FALSE once the Go runtime has aborted the process
  serving,       \* the restore loop is over and the server listens
  adder,         \* progress of the goroutine that adds each job
  task,          \* progress of transferTask.execute of each job
  queue,         \* submitted tasks no worker has started
  cancelTask,    \* keys of TaskPool.cancelTask
  cancelMutex,   \* holder of TaskPool.cancelMutex between two steps
  addTaskMutex,  \* the POST that holds ServerHandler.addTaskMutex
  delete,        \* progress of each DELETE handler
  target         \* the job a DELETE names

vars == <<up, serving, adder, task, queue, cancelTask, cancelMutex,
          addTaskMutex, delete, target>>

-----------------------------------------------------------------------------
(* States of the goroutines. *)

\* "unfinished": in the list the restore loop walks; "idle": a future POST.
Adding == {"writing", "submitting"}
AdderState == {"unfinished", "idle", "admitted", "accepted", "refused",
               "failed"} \cup Adding

\* A worker is held from the start of execute to the end of its cleanup.
OnWorker == {"loop", "polling", "finishing", "cancelling", "cleanup"}
TaskState == {"none", "queued", "done"} \cup OnWorker

\* From these states execute never reaches its select again.
PastSelect == {"finishing", "cancelling", "cleanup", "done"}

DeleteState == {"idle", "waiting", "sending", "sent", "unknown"}

Running == {j \in Jobs : task[j] \in OnWorker}

Init ==
  /\ up = TRUE
  /\ serving = FALSE
  /\ adder \in [Jobs -> {"unfinished", "idle"}]
  /\ task = [j \in Jobs |-> "none"]
  /\ queue = <<>>
  /\ cancelTask = {}
  /\ cancelMutex = None
  /\ addTaskMutex = None
  /\ delete = [d \in Deletes |-> "idle"]
  /\ target = [d \in Deletes |-> None]

-----------------------------------------------------------------------------
(* Admission: TaskPool.CanSubmitJob under ServerHandler.addTaskMutex. *)

IsQueueSizeLimited == QueueSize > 0

\* Faulty variant: one task too many is let in.
CanSubmitJobOffByOne == QueueSize = 0 \/ Len(queue) <= QueueSize

CanSubmitJob == QueueSize = 0 \/ Len(queue) < QueueSize

\* The POST of job j passes the capacity check and keeps the mutex, if the
\* queue is bounded, until it returns.
Admit(j) ==
  /\ up
  /\ serving
  /\ adder[j] = "idle"
  /\ addTaskMutex = None
  /\ CanSubmitJob
  /\ adder' = [adder EXCEPT ![j] = "admitted"]
  /\ addTaskMutex' = IF IsQueueSizeLimited THEN j ELSE None
  /\ UNCHANGED <<up, serving, task, queue, cancelTask, cancelMutex, delete,
                 target>>

\* 503: the queue is full.
Refuse(j) ==
  /\ up
  /\ serving
  /\ adder[j] = "idle"
  /\ IsQueueSizeLimited
  /\ addTaskMutex = None
  /\ ~CanSubmitJob
  /\ adder' = [adder EXCEPT ![j] = "refused"]
  /\ UNCHANGED <<up, serving, task, queue, cancelTask, cancelMutex,
                 addTaskMutex, delete, target>>

\* The handler returns: its deferred unlock runs if it took the mutex.
ReleaseAddTaskMutex(j) ==
  addTaskMutex' = IF addTaskMutex = j THEN None ELSE addTaskMutex

\* Globus, the login or SciCat failed: the POST is answered 400 or 500.
RequestFails(j) ==
  /\ up
  /\ adder[j] = "admitted"
  /\ adder' = [adder EXCEPT ![j] = "failed"]
  /\ ReleaseAddTaskMutex(j)
  /\ UNCHANGED <<up, serving, task, queue, cancelTask, cancelMutex, delete,
                 target>>

-----------------------------------------------------------------------------
(* TaskPool.AddTransferTask: an unprotected map write, then Submit. *)

\* The POST has its SciCat job and enters the map write.
AddFromRequest(j) ==
  /\ up
  /\ adder[j] = "admitted"
  /\ adder' = [adder EXCEPT ![j] = "writing"]
  /\ UNCHANGED <<up, serving, task, queue, cancelTask, cancelMutex,
                 addTaskMutex, delete, target>>

\* The restore loop of main adds its jobs one after the other, before the
\* server listens and without asking CanSubmitJob.
AddFromRestore(j) ==
  /\ up
  /\ ~serving
  /\ adder[j] = "unfinished"
  /\ \A k \in Jobs : adder[k] \notin Adding
  /\ adder' = [adder EXCEPT ![j] = "writing"]
  /\ UNCHANGED <<up, serving, task, queue, cancelTask, cancelMutex,
                 addTaskMutex, delete, target>>

\* Faulty variant: the task is submitted without a channel in the map.
WriteMapForgotten(j) ==
  /\ up
  /\ adder[j] = "writing"
  /\ adder' = [adder EXCEPT ![j] = "submitting"]
  /\ UNCHANGED <<up, serving, task, queue, cancelTask, cancelMutex,
                 addTaskMutex, delete, target>>

WriteMap(j) ==
  /\ up
  /\ adder[j] = "writing"
  /\ adder' = [adder EXCEPT ![j] = "submitting"]
  /\ cancelTask' = cancelTask \cup {j}
  /\ UNCHANGED <<up, serving, task, queue, cancelMutex, addTaskMutex, delete,
                 target>>

\* Faulty variant: the last slot is never used.
QueueHasRoomStrict == QueueSize = 0 \/ Len(queue) + 1 < QueueSize

\* The pool's bounded queue: Submit blocks while it is full.
QueueHasRoom == QueueSize = 0 \/ Len(queue) < QueueSize

Submit(j) ==
  /\ up
  /\ adder[j] = "submitting"
  /\ QueueHasRoom
  /\ adder' = [adder EXCEPT ![j] = "accepted"]
  /\ task' = [task EXCEPT ![j] = "queued"]
  /\ queue' = Append(queue, j)
  /\ ReleaseAddTaskMutex(j)
  /\ UNCHANGED <<up, serving, cancelTask, cancelMutex, delete, target>>

\* main is past RestoreGlobusTransferJobsFromScicat and listens.
Serve ==
  /\ up
  /\ ~serving
  /\ \A j \in Jobs : adder[j] \notin Adding \cup {"unfinished"}
  /\ serving' = TRUE
  /\ UNCHANGED <<up, adder, task, queue, cancelTask, cancelMutex,
                 addTaskMutex, delete, target>>

\* A map write that overlaps another access: the Go runtime aborts with
\* "concurrent map writes" (or read and write).  That both accesses take
\* effect is the interleaving of the other actions.  That a race which the
\* runtime does not notice loses or damages an entry is left out: what is said
\* of the map is said of lives of the process in which every access is whole.
MapRace ==
  /\ up
  /\ \E j \in Jobs :
       /\ adder[j] = "writing"
       /\ \/ \E k \in Jobs \ {j} : adder[k] = "writing"
          \/ /\ cancelMutex = None
             /\ \/ \E k \in Jobs : task[k] = "cleanup"
                \/ \E d \in Deletes : delete[d] = "waiting"
  /\ up' = FALSE
  /\ UNCHANGED <<serving, adder, task, queue, cancelTask, cancelMutex,
                 addTaskMutex, delete, target>>

-----------------------------------------------------------------------------
(* TaskPool.CancelTransferTask in a DELETE handler. *)

RequestCancel(d, j) ==
  /\ up
  /\ serving
  /\ delete[d] = "idle"
  /\ delete' = [delete EXCEPT ![d] = "waiting"]
  /\ target' = [target EXCEPT ![d] = j]
  /\ UNCHANGED <<up, serving, adder, task, queue, cancelTask, cancelMutex,
                 addTaskMutex>>

\* Faulty variant: the handler sends after it has unlocked.
LookupFoundUnlocked(d) ==
  /\ up
  /\ delete[d] = "waiting"
  /\ cancelMutex = None
  /\ target[d] \in cancelTask
  /\ delete' = [delete EXCEPT ![d] = "sending"]
  /\ UNCHANGED <<up, serving, adder, task, queue, cancelTask, cancelMutex,
                 addTaskMutex, target>>

\* The channel is in the map: the handler blocks in the send on the
\* unbuffered channel and keeps cancelMutex.
LookupFound(d) ==
  /\ up
  /\ delete[d] = "waiting"
  /\ cancelMutex = None
  /\ target[d] \in cancelTask
  /\ delete' = [delete EXCEPT ![d] = "sending"]
  /\ cancelMutex' = d
  /\ UNCHANGED <<up, serving, adder, task, queue, cancelTask, addTaskMutex,
                 target>>

\* JobNotExistError.
LookupMissed(d) ==
  /\ up
  /\ delete[d] = "waiting"
  /\ cancelMutex = None
  /\ target[d] \notin cancelTask
  /\ delete' = [delete EXCEPT ![d] = "unknown"]
  /\ UNCHANGED <<up, serving, adder, task, queue, cancelTask, cancelMutex,
                 addTaskMutex, target>>

-----------------------------------------------------------------------------
(* transferTask.execute on a worker of the pool. *)

StartTask ==
  /\ up
  /\ queue # <<>>
  /\ Cardinality(Running) < MaxConcurrency
  /\ task' = [task EXCEPT ![Head(queue)] = "loop"]
  /\ queue' = Tail(queue)
  /\ UNCHANGED <<up, serving, adder, cancelTask, cancelMutex, addTaskMutex,
                 delete, target>>

CancelPending(j) == \E d \in Deletes : delete[d] = "sending" /\ target[d] = j

\* Faulty variant: the task goes on polling after it was told to stop.
SelectCancelNoReturn(j, d) ==
  /\ up
  /\ task[j] = "loop"
  /\ delete[d] = "sending"
  /\ target[d] = j
  /\ delete' = [delete EXCEPT ![d] = "sent"]
  /\ cancelMutex' = None
  /\ UNCHANGED <<up, serving, adder, task, queue, cancelTask, addTaskMutex,
                 target>>

\* case <-t.cancel: the rendezvous; the sender returns and unlocks.
SelectCancel(j, d) ==
  /\ up
  /\ task[j] = "loop"
  /\ delete[d] = "sending"
  /\ target[d] = j
  /\ task' = [task EXCEPT ![j] = "cancelling"]
  /\ delete' = [delete EXCEPT ![d] = "sent"]
  /\ cancelMutex' = None
  /\ UNCHANGED <<up, serving, adder, queue, cancelTask, addTaskMutex, target>>

\* Faulty variant: a poll starts although a cancel is waiting.
SelectDefaultIgnoringCancel(j) ==
  /\ up
  /\ task[j] = "loop"
  /\ task' = [task EXCEPT ![j] = "polling"]
  /\ UNCHANGED <<up, serving, adder, queue, cancelTask, cancelMutex,
                 addTaskMutex, delete, target>>

\* default: taken only when no sender waits.
SelectDefault(j) ==
  /\ up
  /\ task[j] = "loop"
  /\ ~CancelPending(j)
  /\ task' = [task EXCEPT ![j] = "polling"]
  /\ UNCHANGED <<up, serving, adder, queue, cancelTask, cancelMutex,
                 addTaskMutex, delete, target>>

\* updateTask returned (false, nil): sleep and go round again.
PollAgain(j) ==
  /\ up
  /\ task[j] = "polling"
  /\ task' = [task EXCEPT ![j] = "loop"]
  /\ UNCHANGED <<up, serving, adder, queue, cancelTask, cancelMutex,
                 addTaskMutex, delete, target>>

\* updateTask returned completed, or an error.
PollEnds(j) ==
  /\ up
  /\ task[j] = "polling"
  /\ \E next \in {"finishing", "cleanup"} :
       task' = [task EXCEPT ![j] = next]
  /\ UNCHANGED <<up, serving, adder, queue, cancelTask, cancelMutex,
                 addTaskMutex, delete, target>>

\* finishTask or cancelTask returned; the deferred cleanup comes next.
WorkDone(j) ==
  /\ up
  /\ task[j] \in {"finishing", "cancelling"}
  /\ task' = [task EXCEPT ![j] = "cleanup"]
  /\ UNCHANGED <<up, serving, adder, queue, cancelTask, cancelMutex,
                 addTaskMutex, delete, target>>

\* Faulty variant: the cleanup returns without unlocking.
CleanupNoUnlock(j) ==
  /\ up
  /\ task[j] = "cleanup"
  /\ cancelMutex = None
  /\ cancelMutex' = j
  /\ cancelTask' = cancelTask \ {j}
  /\ task' = [task EXCEPT ![j] = "done"]
  /\ UNCHANGED <<up, serving, adder, queue, addTaskMutex, delete, target>>

\* Faulty variant: the channel stays in the map.
CleanupKeepsChannel(j) ==
  /\ up
  /\ task[j] = "cleanup"
  /\ cancelMutex = None
  /\ task' = [task EXCEPT ![j] = "done"]
  /\ UNCHANGED <<up, serving, adder, queue, cancelTask, cancelMutex,
                 addTaskMutex, delete, target>>

\* The cleanup closure: lock, delete, unlock; the worker is free again.
Cleanup(j) ==
  /\ up
  /\ task[j] = "cleanup"
  /\ cancelMutex = None
  /\ cancelTask' = cancelTask \ {j}
  /\ task' = [task EXCEPT ![j] = "done"]
  /\ UNCHANGED <<up, serving, adder, queue, cancelMutex, addTaskMutex, delete,
                 target>>

-----------------------------------------------------------------------------
AddStep(j) ==
  \/ Admit(j) \/ Refuse(j) \/ RequestFails(j)
  \/ AddFromRequest(j) \/ AddFromRestore(j) \/ WriteMap(j) \/ Submit(j)

TaskStep(j) ==
  \/ \E d \in Deletes : SelectCancel(j, d)
  \/ SelectDefault(j) \/ PollAgain(j) \/ PollEnds(j)
  \/ WorkDone(j) \/ Cleanup(j)

DeleteStep(d) ==
  \/ \E j \in Jobs : RequestCancel(d, j)
  \/ LookupFound(d) \/ LookupMissed(d)

Next ==
  \/ \E j \in Jobs : AddStep(j) \/ TaskStep(j)
  \/ \E d \in Deletes : DeleteStep(d)
  \/ StartTask \/ Serve \/ MapRace

Spec == Init /\ [][Next]_vars

(***************************************************************************)
(* The Go scheduler runs every runnable goroutine (WF); a mutex waiter is  *)
(* not starved (SF, sync.Mutex hands over to a waiter that lost for 1 ms); *)
(* Globus and SciCat answer every call (WF on the steps after a call).     *)
(***************************************************************************)
Fairness ==
  /\ WF_vars(StartTask)
  /\ WF_vars(Serve)
  /\ \A j \in Jobs :
       /\ WF_vars(AddFromRequest(j) \/ RequestFails(j))
       /\ WF_vars(AddFromRestore(j) \/ WriteMap(j))
       /\ WF_vars(Submit(j))
       /\ WF_vars(\/ SelectDefault(j)
                  \/ \E d \in Deletes : SelectCancel(j, d))
       /\ WF_vars(PollAgain(j) \/ PollEnds(j))
       /\ WF_vars(WorkDone(j))
       /\ SF_vars(Cleanup(j))
  /\ \A d \in Deletes : SF_vars(LookupFound(d) \/ LookupMissed(d))

FairSpec == Spec /\ Fairness

-----------------------------------------------------------------------------
(* Safety. *)

\* Types of the variables; cancelMutex is held between two steps only by a
\* DELETE that blocks in its send, never by a cleanup.
TypeOK ==
  /\ up \in BOOLEAN
  /\ serving \in BOOLEAN
  /\ adder \in [Jobs -> AdderState]
  /\ task \in [Jobs -> TaskState]
  /\ queue \in Seq(Jobs)
  /\ cancelTask \in SUBSET Jobs
  /\ cancelMutex \in Deletes \cup {None}
  /\ addTaskMutex \in Jobs \cup {None}
  /\ delete \in [Deletes -> DeleteState]
  /\ target \in [Deletes -> Jobs \cup {None}]

\* TaskPool.cancelTask has a channel for exactly the jobs that are being
\* submitted, wait in the queue or occupy a worker: no task that a DELETE
\* cannot reach and no channel left behind by a task that is gone.
MapMatchesTasks ==
  \A j \in Jobs :
    j \in cancelTask <=> \/ adder[j] = "submitting"
                        \/ task[j] \in {"queued"} \cup OnWorker

\* The answer of CanSubmitJob is still true when the POST that asked gets to
\* Submit, after its calls to Globus and SciCat: no POST blocks in Submit
\* while it holds addTaskMutex.
AdmittedNeverBlocks ==
  \A j \in Jobs :
    (serving /\ adder[j] \in {"admitted"} \cup Adding) => QueueHasRoom

\* A DELETE whose send was received ended exactly one task: that task never
\* polls or finishes afterwards, and no second DELETE was told the same of
\* the same task.
AckedCancelIsFinal ==
  \A d \in Deletes :
    delete[d] = "sent" =>
      /\ task[target[d]] \in {"cancelling", "cleanup", "done"}
      /\ \A e \in Deletes \ {d} :
           delete[e] = "sent" => target[e] # target[d]

\* A DELETE is told that the job "does not exist or is already
\* cancelled/removed" only when no task of that job waits or runs.
UnknownIsTruthful ==
  [][\A d \in Deletes :
       (delete[d] = "waiting" /\ delete'[d] = "unknown") =>
         task[target[d]] \in {"none", "done"}]_vars

-----------------------------------------------------------------------------
(* The two ways in which a DELETE blocks the pool. *)

\* A DELETE sends to a task that has left its select for good.
SendToDeparted ==
  \E d \in Deletes :
    delete[d] = "sending" /\ task[target[d]] \in PastSelect

\* A DELETE sends to a task that no worker can start, because every worker
\* waits in its cleanup for the mutex this DELETE holds.
SendToUnstartable ==
  /\ \E d \in Deletes :
       delete[d] = "sending" /\ task[target[d]] = "queued"
  /\ Running = {j \in Jobs : task[j] = "cleanup"}
  /\ ~(Cardinality(Running) < MaxConcurrency)

Wedged == SendToDeparted \/ SendToUnstartable

\* A step in which no task leaves its worker and no DELETE is answered.
NobodyReleased ==
  /\ \A j \in Jobs : task'[j] = "done" => task[j] = "done"
  /\ \A d \in Deletes :
       delete'[d] \in {"sent", "unknown"} => delete'[d] = delete[d]

\* Once a DELETE blocks on a task that cannot receive, the pool is frozen for
\* good: the mutex is never released, no task leaves its worker and no DELETE
\* is answered.
WedgeIsPermanent == [][Wedged => Wedged' /\ NobodyReleased]_vars

\* What the error of CancelTransferTask and the API say of a DELETE for a
\* task that is just ending, was cancelled before or still waits: it is
\* answered, and the others go on.  The code violates it.
NoDeleteBlocksPool == ~Wedged

-----------------------------------------------------------------------------
(* Liveness. *)

\* A task that still goes round its loop hears a waiting DELETE before it
\* starts another poll: the send is received, or the poll under way was the
\* last one.
LoopHearsCancel ==
  \A d \in Deletes : \A j \in Jobs :
    (delete[d] = "sending" /\ target[d] = j /\ task[j] \in {"loop", "polling"})
      ~> (delete[d] = "sent" \/ task[j] \in PastSelect \/ ~up)

\* No transfer holds its worker for ever.  It is up to Globus: a worker is
\* held for as long as its transfer is polled.
WorkersReturn ==
  \A j \in Jobs : []<>(task[j] \notin {"loop", "polling"})

\* Then every accepted transfer gets a worker and gives it back, DELETEs or
\* not, unless one of them blocks the pool (Wedged): that is the only way in
\* which a worker is lost.
AcceptedJobsComplete ==
  WorkersReturn =>
    \A j \in Jobs :
      adder[j] = "accepted" ~> (task[j] = "done" \/ ~up \/ Wedged)

\* A restart with more unfinished jobs than workers and queue slots gets to
\* serve, if the workers return: the restore loop blocks in Submit meanwhile.
RestoreEnds == WorkersReturn => <>(serving \/ ~up)

=============================================================================
