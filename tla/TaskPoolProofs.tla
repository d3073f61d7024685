--------------------------- MODULE TaskPoolProofs ---------------------------
(***************************************************************************)
(* The safety properties of TaskPool for every set of jobs and DELETE      *)
(* requests, every number of workers and every queue size.                 *)
(***************************************************************************)
EXTENDS TaskPool, TLAPS

-----------------------------------------------------------------------------
(* The strengthening that makes the invariants inductive. *)

\* The queue holds each queued job once and nothing else.
QueueMatchesTasks ==
  /\ \A i \in 1..Len(queue) : task[queue[i]] = "queued"
  /\ \A i, k \in 1..Len(queue) : queue[i] = queue[k] => i = k

\* A job has a task exactly when its adder has returned from Submit.
TaskAfterSubmit ==
  \A j \in Jobs : task[j] # "none" <=> adder[j] = "accepted"

\* cancelMutex is held by the DELETE that blocks in its send and by no other.
SenderHoldsMutex ==
  \A d \in Deletes : delete[d] = "sending" <=> cancelMutex = d

TargetsNamed ==
  \A d \in Deletes : delete[d] # "idle" => target[d] \in Jobs

\* Before the server listens only the restore loop adds jobs; afterwards only
\* the POST that holds addTaskMutex does, if the queue is bounded.
OneAdder ==
  /\ serving => \A j \in Jobs : adder[j] # "unfinished"
  /\ ~serving => /\ addTaskMutex = None
                 /\ \A j \in Jobs : adder[j] # "admitted"
  /\ (serving /\ QueueSize > 0) =>
       \A j \in Jobs : adder[j] \in {"admitted"} \cup Adding =>
                         addTaskMutex = j

IInv ==
  /\ TypeOK
  /\ MapMatchesTasks
  /\ QueueMatchesTasks
  /\ TaskAfterSubmit
  /\ SenderHoldsMutex
  /\ TargetsNamed
  /\ OneAdder
  /\ AdmittedNeverBlocks
  /\ AckedCancelIsFinal

LEMMA InitIInv == Init => IInv
<1> SUFFICES ASSUME Init PROVE IInv
    OBVIOUS
<1> USE DEF Init, OnWorker, Adding
<1>1. TypeOK
  <2>1. adder \in [Jobs -> AdderState]
    BY DEF AdderState
  <2>2. queue \in Seq(Jobs)
    OBVIOUS
  <2> QED
    BY <2>1, <2>2 DEF TypeOK, TaskState, DeleteState
<1>2. MapMatchesTasks /\ TaskAfterSubmit
  <2>1. \A j \in Jobs : adder[j] \in {"unfinished", "idle"} /\ task[j] = "none"
    OBVIOUS
  <2> QED
    BY <2>1 DEF MapMatchesTasks, TaskAfterSubmit
<1>3. QueueMatchesTasks
  BY DEF QueueMatchesTasks
<1>4. SenderHoldsMutex /\ TargetsNamed
  BY PoolAssumption DEF SenderHoldsMutex, TargetsNamed
<1>5. OneAdder /\ AdmittedNeverBlocks
  BY DEF OneAdder, AdmittedNeverBlocks
<1>6. AckedCancelIsFinal
  BY DEF AckedCancelIsFinal
<1> QED
  BY <1>1, <1>2, <1>3, <1>4, <1>5, <1>6 DEF IInv

LEMMA NextIInv == IInv /\ [Next]_vars => IInv'
<1> SUFFICES ASSUME IInv, [Next]_vars PROVE IInv'
    OBVIOUS
<1> USE PoolAssumption
    DEF IInv, TypeOK, MapMatchesTasks, QueueMatchesTasks,
       TaskAfterSubmit, SenderHoldsMutex, TargetsNamed, OneAdder,
       AdmittedNeverBlocks, AckedCancelIsFinal, AdderState, TaskState,
       DeleteState, OnWorker, Adding, QueueHasRoom
<1>1. ASSUME NEW j \in Jobs, Admit(j) PROVE IInv'
  BY <1>1 DEF Admit, CanSubmitJob, IsQueueSizeLimited
<1>2. ASSUME NEW j \in Jobs, Refuse(j) PROVE IInv'
  BY <1>2 DEF Refuse
<1>3. ASSUME NEW j \in Jobs, RequestFails(j) PROVE IInv'
  BY <1>3 DEF RequestFails, ReleaseAddTaskMutex
<1>4. ASSUME NEW j \in Jobs, AddFromRequest(j) PROVE IInv'
  BY <1>4 DEF AddFromRequest
<1>5. ASSUME NEW j \in Jobs, AddFromRestore(j) PROVE IInv'
  BY <1>5 DEF AddFromRestore
<1>6. ASSUME NEW j \in Jobs, WriteMap(j) PROVE IInv'
  BY <1>6 DEF WriteMap
<1>7. ASSUME NEW j \in Jobs, Submit(j) PROVE IInv'
  BY <1>7 DEF Submit, ReleaseAddTaskMutex
<1>8. ASSUME StartTask PROVE IInv'
  BY <1>8 DEF StartTask
<1>9. ASSUME Serve PROVE IInv'
  BY <1>9 DEF Serve
<1>10. ASSUME MapRace PROVE IInv'
  <2>1. /\ up' \in BOOLEAN
        /\ UNCHANGED <<serving, adder, task, queue, cancelTask, cancelMutex,
                       addTaskMutex, delete, target>>
    BY <1>10 DEF MapRace
  <2> QED
    BY <2>1
<1>11. ASSUME NEW d \in Deletes, NEW j \in Jobs, RequestCancel(d, j) PROVE IInv'
  BY <1>11 DEF RequestCancel
<1>12. ASSUME NEW d \in Deletes, LookupFound(d) PROVE IInv'
  BY <1>12 DEF LookupFound
<1>13. ASSUME NEW d \in Deletes, LookupMissed(d) PROVE IInv'
  BY <1>13 DEF LookupMissed
<1>14. ASSUME NEW j \in Jobs, NEW d \in Deletes, SelectCancel(j, d) PROVE IInv'
  BY <1>14 DEF SelectCancel
<1>15. ASSUME NEW j \in Jobs, SelectDefault(j) PROVE IInv'
  BY <1>15 DEF SelectDefault
<1>16. ASSUME NEW j \in Jobs, PollAgain(j) PROVE IInv'
  BY <1>16 DEF PollAgain
<1>17. ASSUME NEW j \in Jobs, PollEnds(j) PROVE IInv'
  BY <1>17 DEF PollEnds
<1>18. ASSUME NEW j \in Jobs, WorkDone(j) PROVE IInv'
  BY <1>18 DEF WorkDone
<1>19. ASSUME NEW j \in Jobs, Cleanup(j) PROVE IInv'
  BY <1>19 DEF Cleanup
<1>20. CASE UNCHANGED vars
  BY <1>20 DEF vars
<1> QED
  BY <1>1, <1>2, <1>3, <1>4, <1>5, <1>6, <1>7, <1>8, <1>9, <1>10, <1>11,
     <1>12, <1>13, <1>14, <1>15, <1>16, <1>17, <1>18, <1>19, <1>20
     DEF Next, AddStep, TaskStep, DeleteStep

-----------------------------------------------------------------------------
(* The theorems. *)

\* The strengthened invariant holds in every reachable state.
THEOREM PoolInvariant == Spec => []IInv
BY InitIInv, NextIInv, PTL DEF Spec

\* Type correctness; in particular no cleanup ever keeps cancelMutex.
THEOREM TypeCorrect == Spec => []TypeOK
BY PoolInvariant, PTL DEF IInv

\* The map of cancel channels holds exactly the jobs being submitted, queued
\* or running, whatever the interleaving of POST, DELETE and workers.
THEOREM MapIsExact == Spec => []MapMatchesTasks
BY PoolInvariant, PTL DEF IInv

\* A POST that passed CanSubmitJob never blocks in Submit: the check made
\* before the calls to Globus and SciCat still holds after them.
THEOREM AdmissionHolds == Spec => []AdmittedNeverBlocks
BY PoolInvariant, PTL DEF IInv

\* A cancel that was received is final and was received once.
THEOREM AckedCancelFinal == Spec => []AckedCancelIsFinal
BY PoolInvariant, PTL DEF IInv

\* A DELETE answered "does not exist" left no live task behind.
THEOREM UnknownTruthful == Spec => UnknownIsTruthful
<1>1. ASSUME IInv, [Next]_vars, NEW d \in Deletes,
             delete[d] = "waiting", delete'[d] = "unknown"
      PROVE  task[target[d]] \in {"none", "done"}
  <2>1. target[d] \in Jobs /\ task[target[d]] \in TaskState
    BY <1>1 DEF IInv, TargetsNamed, TypeOK
  <2>2. LookupMissed(d)
    BY <1>1 DEF IInv, TypeOK, DeleteState, Next, vars, AddStep, TaskStep,
       DeleteStep, Admit, Refuse, RequestFails, AddFromRequest,
       AddFromRestore, WriteMap, Submit, StartTask, Serve, MapRace,
       RequestCancel, LookupFound, LookupMissed, SelectCancel, SelectDefault,
       PollAgain, PollEnds, WorkDone, Cleanup
  <2>3. target[d] \notin cancelTask
    BY <2>2 DEF LookupMissed
  <2> QED
    BY <1>1, <2>1, <2>3 DEF IInv, MapMatchesTasks, TaskState
<1>2. IInv /\ [Next]_vars =>
        \A d \in Deletes :
          (delete[d] = "waiting" /\ delete'[d] = "unknown") =>
            task[target[d]] \in {"none", "done"}
  BY <1>1
<1> QED
  BY <1>2, PoolInvariant, PTL DEF Spec, UnknownIsTruthful

-----------------------------------------------------------------------------
(* The wedge is permanent. *)

\* What a step does while DELETE d blocks in its send: d stays where it is,
\* nobody is released, the queue is only shortened by a free worker.
Held(d) ==
  /\ delete'[d] = "sending"
  /\ target'[d] = target[d]
  /\ NobodyReleased
  /\ \A j \in Jobs : task[j] = "cleanup" => task'[j] = "cleanup"
  /\ task[target[d]] \in PastSelect => task'[target[d]] \in PastSelect
  /\ Running' = Running \/ Cardinality(Running) < MaxConcurrency
  /\ task[target[d]] = "queued" =>
       task'[target[d]] = "queued" \/ Cardinality(Running) < MaxConcurrency

\* Only the receiver of d's cancel can change that: cancelMutex is d's, so no
\* other DELETE looks up a channel and no cleanup ends.
LEMMA HeldMutex ==
  ASSUME IInv, [Next]_vars, NEW d \in Deletes, delete[d] = "sending",
         task[target[d]] # "loop"
  PROVE  Held(d)
<1>1. cancelMutex = d /\ d # None /\ target[d] \in Jobs
  BY PoolAssumption DEF IInv, SenderHoldsMutex, TargetsNamed
<1>2. \A j \in Jobs, e \in Deletes : ~SelectCancel(j, e)
  BY <1>1 DEF IInv, SenderHoldsMutex, SelectCancel
<1>3. \A e \in Deletes : ~LookupFound(e) /\ ~LookupMissed(e)
  BY <1>1 DEF LookupFound, LookupMissed
<1>4. \A j \in Jobs : ~Cleanup(j)
  BY <1>1 DEF Cleanup
<1>5. ASSUME UNCHANGED <<task, delete, target>> PROVE Held(d)
  BY <1>5 DEF Held, NobodyReleased, Running
<1>6. ASSUME NEW j \in Jobs, AddStep(j) PROVE Held(d)
  <2>1. CASE Submit(j)
    <3>1. task[j] = "none"
      BY <2>1 DEF Submit, IInv, TaskAfterSubmit
    <3> QED
      BY <1>1, <2>1, <3>1 DEF Submit, Held, NobodyReleased, Running, OnWorker,
         PastSelect, IInv, TypeOK
  <2>2. CASE ~Submit(j)
    BY <1>5, <1>6, <2>2 DEF AddStep, Admit, Refuse, RequestFails,
       AddFromRequest, AddFromRestore, WriteMap
  <2> QED
    BY <2>1, <2>2
<1>7. ASSUME NEW j \in Jobs, TaskStep(j) PROVE Held(d)
  <2>1. /\ task[j] \in {"loop", "polling", "finishing", "cancelling"}
        /\ \E next \in {"loop", "polling", "finishing", "cleanup"} :
             task' = [task EXCEPT ![j] = next]
        /\ task[j] \in PastSelect => task'[j] \in PastSelect
        /\ UNCHANGED <<delete, target>>
    BY <1>2, <1>4, <1>7 DEF TaskStep, SelectDefault, PollAgain, PollEnds,
       WorkDone, PastSelect, IInv, TypeOK
  <2> QED
    BY <1>1, <2>1 DEF Held, NobodyReleased, Running, OnWorker, PastSelect,
       IInv, TypeOK
<1>8. ASSUME NEW e \in Deletes, DeleteStep(e) PROVE Held(d)
  <2>1. PICK j \in Jobs : RequestCancel(e, j)
    BY <1>3, <1>8 DEF DeleteStep
  <2>2. e # d
    BY <2>1 DEF RequestCancel
  <2> QED
    BY <2>1, <2>2 DEF RequestCancel, Held, NobodyReleased, Running, IInv,
       TypeOK
<1>9. ASSUME StartTask PROVE Held(d)
  <2>1. Head(queue) \in Jobs /\ task[Head(queue)] = "queued"
    BY <1>9 DEF StartTask, IInv, TypeOK, QueueMatchesTasks
  <2> QED
    BY <1>1, <1>9, <2>1 DEF StartTask, Held, NobodyReleased, OnWorker,
       PastSelect, IInv, TypeOK
<1>10. ASSUME Serve \/ MapRace PROVE Held(d)
  BY <1>5, <1>10 DEF Serve, MapRace
<1>11. CASE UNCHANGED vars
  BY <1>5, <1>11 DEF vars
<1> QED
  BY <1>6, <1>7, <1>8, <1>9, <1>10, <1>11 DEF Next

\* A DELETE that blocks on a task past its last select, or on a queued task
\* behind workers that all wait for the mutex it holds, freezes the pool for
\* the rest of the process, whatever else happens.
THEOREM WedgePermanent == Spec => WedgeIsPermanent
<1>1. ASSUME IInv, [Next]_vars, SendToDeparted
      PROVE  SendToDeparted' /\ NobodyReleased
  <2>1. PICK d \in Deletes :
          delete[d] = "sending" /\ task[target[d]] \in PastSelect
    BY <1>1 DEF SendToDeparted
  <2>2. Held(d)
    BY <1>1, <2>1, HeldMutex DEF PastSelect
  <2> QED
    BY <2>1, <2>2 DEF Held, SendToDeparted
<1>2. ASSUME IInv, [Next]_vars, SendToUnstartable
      PROVE  SendToUnstartable' /\ NobodyReleased
  <2>1. PICK d \in Deletes :
          delete[d] = "sending" /\ task[target[d]] = "queued"
    BY <1>2 DEF SendToUnstartable
  <2>2. Held(d)
    BY <1>2, <2>1, HeldMutex
  <2>3. Running' = Running /\ task'[target[d]] = "queued"
    BY <1>2, <2>1, <2>2 DEF Held, SendToUnstartable
  <2>4. Running' = {j \in Jobs : task'[j] = "cleanup"}
    <3>1. \A j \in Jobs : task[j] = "cleanup" <=> task'[j] = "cleanup"
      BY <1>2, <2>2, <2>3 DEF Held, SendToUnstartable, Running, OnWorker
    <3> QED
      BY <1>2, <2>3, <3>1 DEF SendToUnstartable
  <2> QED
    BY <1>2, <2>1, <2>2, <2>3, <2>4 DEF Held, SendToUnstartable
<1>3. IInv /\ [Next]_vars => (Wedged => Wedged' /\ NobodyReleased)
  BY <1>1, <1>2 DEF Wedged
<1> QED
  BY <1>3, PoolInvariant, PTL DEF Spec, WedgeIsPermanent

=============================================================================
