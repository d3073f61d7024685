----------------------------- MODULE ProxyProofs -----------------------------
(***************************************************************************)
(* The pool inside the whole proxy: what TaskPoolProofs shows of one life  *)
(* of the process holds in every life of a process that crashes and        *)
(* restarts, with every call to Globus and SciCat.                         *)
(***************************************************************************)
EXTENDS Proxy, TLAPS

PoolFacts == INSTANCE TaskPoolProofs WITH
  up <- up # "down", serving <- up = "serving", delete <- handler

PoolInv == PoolFacts!IInv

\* A step of a goroutine of TaskPool; its abort (MapRace) is a crash here.
PoolMove ==
  \/ \E j \in Jobs : PoolFacts!AddStep(j) \/ PoolFacts!TaskStep(j)
  \/ \E d \in Deletes : PoolFacts!DeleteStep(d)
  \/ PoolFacts!StartTask \/ PoolFacts!Serve

\* The pool moves as TaskPool says, or not at all.
PoolStep == [PoolMove]_(PoolFacts!vars)

-----------------------------------------------------------------------------
(* Each step of the proxy but the crash and the restart is a step of TaskPool. *)

LEMMA PoolIdle ==
  ASSUME UNCHANGED <<up, pooling, handler, target>>
  PROVE  PoolStep
BY DEF PoolStep, PoolFacts!vars, pooling

LEMMA RefuseIsPoolStep ==
  ASSUME NEW j \in Jobs, RefuseRequest(j)
  PROVE  PoolStep
<1>1. UNCHANGED <<up, handler, target>>
  BY DEF RefuseRequest, deleting, Track!RefuseRequest, Track!local
<1>2. CASE Pool!Refuse(j)
  <2>1. PoolFacts!Refuse(j)
    BY <1>2 DEF Pool!Refuse, PoolFacts!Refuse, Pool!IsQueueSizeLimited,
       PoolFacts!IsQueueSizeLimited, Pool!CanSubmitJob, PoolFacts!CanSubmitJob
  <2> QED
    BY <2>1 DEF PoolStep, PoolMove, PoolFacts!AddStep
<1>3. CASE UNCHANGED pooling
  BY <1>1, <1>3, PoolIdle
<1> QED
  BY <1>2, <1>3 DEF RefuseRequest

LEMMA AdmitIsPoolStep ==
  ASSUME NEW j \in Jobs, Admit(j)
  PROVE  PoolStep
<1>1. PoolFacts!Admit(j)
  BY DEF Admit, Pool!Admit, PoolFacts!Admit,
     Pool!IsQueueSizeLimited, PoolFacts!IsQueueSizeLimited,
     Pool!CanSubmitJob, PoolFacts!CanSubmitJob
<1> QED  BY <1>1 DEF PoolStep, PoolMove, PoolFacts!AddStep

LEMMA RequestFailsIsPoolStep ==
  ASSUME NEW j \in Jobs, RequestFails(j)
  PROVE  PoolStep
<1>1. PoolFacts!RequestFails(j)
  BY DEF RequestFails, Pool!RequestFails, PoolFacts!RequestFails,
     Pool!ReleaseAddTaskMutex, PoolFacts!ReleaseAddTaskMutex
<1> QED  BY <1>1 DEF PoolStep, PoolMove, PoolFacts!AddStep

LEMMA BeginAddIsPoolStep ==
  ASSUME NEW j \in Jobs, BeginAdd(j)
  PROVE  PoolStep
<1>1. PoolFacts!AddFromRequest(j) \/ PoolFacts!AddFromRestore(j)
  BY DEF BeginAdd, Pool!AddFromRequest, PoolFacts!AddFromRequest,
     Pool!AddFromRestore, PoolFacts!AddFromRestore, Pool!Adding,
     PoolFacts!Adding
<1> QED  BY <1>1 DEF PoolStep, PoolMove, PoolFacts!AddStep

LEMMA WriteMapIsPoolStep ==
  ASSUME NEW j \in Jobs, WriteMap(j)
  PROVE  PoolStep
<1>1. PoolFacts!WriteMap(j)
  BY DEF WriteMap, Pool!WriteMap, PoolFacts!WriteMap
<1> QED  BY <1>1 DEF PoolStep, PoolMove, PoolFacts!AddStep

LEMMA SubmitIsPoolStep ==
  ASSUME NEW j \in Jobs, Submit(j)
  PROVE  PoolStep
<1>1. PoolFacts!Submit(j)
  BY DEF Submit, Pool!Submit, PoolFacts!Submit,
     Pool!QueueHasRoom, PoolFacts!QueueHasRoom,
     Pool!ReleaseAddTaskMutex, PoolFacts!ReleaseAddTaskMutex
<1> QED  BY <1>1 DEF PoolStep, PoolMove, PoolFacts!AddStep

LEMMA ServeIsPoolStep ==
  Serve => PoolStep
<1> SUFFICES ASSUME Serve PROVE PoolStep
  OBVIOUS
<1>1. PoolFacts!Serve
  BY DEF Serve, Pool!Serve, PoolFacts!Serve,
     Pool!Adding, PoolFacts!Adding
<1> QED  BY <1>1 DEF PoolStep, PoolMove

LEMMA StartIsPoolStep ==
  StartTask => PoolStep
<1> SUFFICES ASSUME StartTask PROVE PoolStep
  OBVIOUS
<1>1. PoolFacts!StartTask
  <2>1. Pool!Running = PoolFacts!Running
    BY DEF Pool!Running, PoolFacts!Running, Pool!OnWorker, PoolFacts!OnWorker
  <2>2. Pool!Cardinality(Pool!Running) = PoolFacts!Cardinality(PoolFacts!Running)
    BY <2>1 DEF Pool!Cardinality, PoolFacts!Cardinality
  <2> QED
    BY <2>2 DEF StartTask, Pool!StartTask, PoolFacts!StartTask
<1> QED  BY <1>1 DEF PoolStep, PoolMove

LEMMA TaskIsPoolStep ==
  ASSUME NEW j \in Jobs, TaskStep(j) \/ Cleanup(j)
  PROVE  PoolStep
<1>1. ASSUME NEW d \in Deletes, HearCancel(j, d)
      PROVE  PoolFacts!TaskStep(j)
  BY <1>1 DEF HearCancel, Pool!SelectCancel, PoolFacts!SelectCancel,
     PoolFacts!TaskStep
<1>2. CASE Poll(j)
  <2>1. PoolFacts!SelectDefault(j)
    BY <1>2 DEF Poll, Pool!SelectDefault, PoolFacts!SelectDefault,
       Pool!CancelPending, PoolFacts!CancelPending
  <2> QED  BY <2>1 DEF PoolStep, PoolMove, PoolFacts!TaskStep
<1>3. CASE Report(j)
  <2>1. Pool!PollAgain(j) \/ Pool!PollEnds(j)
    BY <1>3 DEF Report
  <2>2. PoolFacts!PollAgain(j) \/ PoolFacts!PollEnds(j)
    BY <2>1 DEF Pool!PollAgain, PoolFacts!PollAgain, Pool!PollEnds,
       PoolFacts!PollEnds
  <2> QED  BY <2>2 DEF PoolStep, PoolMove, PoolFacts!TaskStep
<1>4. CASE Work(j)
  <2>1. UNCHANGED <<up, handler, target>>
    BY <1>4 DEF Work, deleting, Track!MarkReady, Track!MarkReadyFails,
       Track!FinishWithoutToken, Track!Explain, Track!CreateArchivalJob,
       Track!CancelTransfer, Track!CancelTransferFails, Track!RecordCancel,
       Track!local
  <2>2. CASE Pool!WorkDone(j)
    <3>1. PoolFacts!WorkDone(j)
      BY <2>2 DEF Pool!WorkDone, PoolFacts!WorkDone
    <3> QED  BY <3>1 DEF PoolStep, PoolMove, PoolFacts!TaskStep
  <2>3. CASE UNCHANGED pooling
    BY <2>1, <2>3, PoolIdle
  <2> QED  BY <1>4, <2>2, <2>3 DEF Work
<1>5. CASE Cleanup(j)
  <2>1. PoolFacts!Cleanup(j)
    BY <1>5 DEF Cleanup, Pool!Cleanup, PoolFacts!Cleanup
  <2> QED  BY <2>1 DEF PoolStep, PoolMove, PoolFacts!TaskStep
<1> QED
  BY <1>1, <1>2, <1>3, <1>4, <1>5 DEF TaskStep, PoolStep, PoolMove

LEMMA DeleteIsPoolStep ==
  ASSUME NEW d \in Deletes,
         \/ RefuseDelete(d) \/ Lookup(d) \/ RemoveRecord(d)
         \/ \E j \in Jobs : RequestDelete(d, j)
  PROVE  PoolStep
<1>1. CASE RefuseDelete(d) \/ RemoveRecord(d)
  <2>1. UNCHANGED <<up, pooling, handler, target>>
    BY <1>1 DEF RefuseDelete, RemoveRecord, tracking
  <2> QED  BY <2>1, PoolIdle
<1>2. CASE Lookup(d)
  <2>1. PoolFacts!LookupFound(d) \/ PoolFacts!LookupMissed(d)
    BY <1>2 DEF Lookup, Pool!LookupFound, PoolFacts!LookupFound,
       Pool!LookupMissed, PoolFacts!LookupMissed
  <2> QED  BY <2>1 DEF PoolStep, PoolMove, PoolFacts!DeleteStep
<1>3. ASSUME NEW j \in Jobs, RequestDelete(d, j)
      PROVE  PoolStep
  <2>1. PoolFacts!RequestCancel(d, j)
    BY <1>3 DEF RequestDelete, Pool!RequestCancel, PoolFacts!RequestCancel
  <2> QED  BY <2>1 DEF PoolStep, PoolMove, PoolFacts!DeleteStep
<1> QED  BY <1>1, <1>2, <1>3

\* The calls that the pool knows nothing of.
LEMMA CallsArePoolStep ==
  ASSUME NEW j \in Jobs,
         SubmitTransfer(j) \/ CreateRecord(j) \/ SkipRecord(j) \/ Transfer(j)
  PROVE  PoolStep
<1>1. UNCHANGED <<up, pooling, handler, target>>
  BY DEF SubmitTransfer, CreateRecord, SkipRecord, Transfer, deleting,
     Track!SubmitTransfer, Track!CreateJob, Track!CreateJobFails,
     Track!StartRecord, Track!StartRecordFails, Track!RestoreJob,
     Track!Transfer, Track!local
<1> QED  BY <1>1, PoolIdle

LEMMA NextIsPoolStep ==
  ASSUME [Next]_vars, ~Crash, ~Restart
  PROVE  PoolStep
<1>1. CASE UNCHANGED vars
  <2>1. UNCHANGED <<up, pooling, handler, target>>
    BY <1>1 DEF vars, tracking, deleting
  <2> QED  BY <2>1, PoolIdle
<1>2. ASSUME NEW j \in Jobs, RefuseRequest(j) \/ Admit(j) \/ Transfer(j)
      PROVE  PoolStep
  BY <1>2, RefuseIsPoolStep, AdmitIsPoolStep, CallsArePoolStep
<1>3. ASSUME NEW j \in Jobs, AddStep(j)
      PROVE  PoolStep
  BY <1>3, CallsArePoolStep, RequestFailsIsPoolStep, BeginAddIsPoolStep,
     WriteMapIsPoolStep, SubmitIsPoolStep DEF AddStep
<1>4. ASSUME NEW j \in Jobs, TaskStep(j) \/ Cleanup(j)
      PROVE  PoolStep
  BY <1>4, TaskIsPoolStep
<1>5. ASSUME NEW d \in Deletes,
             \/ RefuseDelete(d) \/ Lookup(d) \/ RemoveRecord(d)
             \/ \E j \in Jobs : RequestDelete(d, j)
      PROVE  PoolStep
  BY <1>5, DeleteIsPoolStep
<1>6. CASE StartTask \/ Serve
  BY <1>6, StartIsPoolStep, ServeIsPoolStep
<1> QED
  BY <1>1, <1>2, <1>3, <1>4, <1>5, <1>6 DEF Next

-----------------------------------------------------------------------------
(* The first life, the crash and the next life. *)

LEMMA InitPoolInv == Init => PoolInv
<1> SUFFICES ASSUME Init PROVE PoolInv
  OBVIOUS
<1> USE ProxyAssumption DEF Init, PoolFacts!OnWorker, PoolFacts!Adding
<1>1. PoolFacts!TypeOK
  BY DEF PoolFacts!TypeOK, PoolFacts!AdderState, PoolFacts!TaskState,
     PoolFacts!DeleteState
<1>2. PoolFacts!MapMatchesTasks /\ PoolFacts!QueueMatchesTasks
  BY DEF PoolFacts!MapMatchesTasks, PoolFacts!QueueMatchesTasks
<1>3. PoolFacts!TaskAfterSubmit /\ PoolFacts!SenderHoldsMutex
  BY DEF PoolFacts!TaskAfterSubmit, PoolFacts!SenderHoldsMutex
<1>4. PoolFacts!TargetsNamed /\ PoolFacts!OneAdder
  BY DEF PoolFacts!TargetsNamed, PoolFacts!OneAdder
<1>5. PoolFacts!AdmittedNeverBlocks /\ PoolFacts!AckedCancelIsFinal
  BY DEF PoolFacts!AdmittedNeverBlocks, PoolFacts!AckedCancelIsFinal
<1> QED
  BY <1>1, <1>2, <1>3, <1>4, <1>5 DEF PoolInv, PoolFacts!IInv

\* While the process is down the pool does not exist.
PoolGone ==
  up = "down" =>
    /\ adder = [j \in Jobs |-> "idle"]
    /\ task = [j \in Jobs |-> "none"]
    /\ queue = <<>>
    /\ cancelTask = {}
    /\ cancelMutex = None
    /\ addTaskMutex = None
    /\ handler = [d \in Deletes |-> "idle"]

LEMMA MoveKeepsInv ==
  PoolInv /\ PoolGone /\ PoolStep => PoolInv' /\ PoolGone'
<1> SUFFICES ASSUME PoolInv, PoolGone, PoolStep PROVE PoolInv' /\ PoolGone'
  OBVIOUS
<1>1. PoolInv'
  <2>1. [PoolFacts!Next]_(PoolFacts!vars)
    BY DEF PoolStep, PoolMove, PoolFacts!Next
  <2>2. PoolFacts!PoolAssumption
    BY ProxyAssumption DEF PoolFacts!PoolAssumption
  <2> QED
    BY <2>1, <2>2, PoolFacts!NextIInv DEF PoolInv
<1>2. PoolGone'
  <2>1. CASE PoolMove
    <3>1. (up # "down")'
      BY <2>1 DEF PoolMove, PoolFacts!AddStep, PoolFacts!TaskStep,
         PoolFacts!DeleteStep, PoolFacts!StartTask, PoolFacts!Serve,
         PoolFacts!Admit, PoolFacts!Refuse, PoolFacts!RequestFails,
         PoolFacts!AddFromRequest, PoolFacts!AddFromRestore,
         PoolFacts!WriteMap, PoolFacts!Submit, PoolFacts!SelectCancel,
         PoolFacts!SelectDefault, PoolFacts!PollAgain, PoolFacts!PollEnds,
         PoolFacts!WorkDone, PoolFacts!Cleanup, PoolFacts!RequestCancel,
         PoolFacts!LookupFound, PoolFacts!LookupMissed
    <3> QED
      BY <3>1 DEF PoolGone
  <2>2. CASE UNCHANGED PoolFacts!vars
    BY <2>2 DEF PoolFacts!vars, PoolGone
  <2> QED
    BY <2>1, <2>2 DEF PoolStep
<1> QED
  BY <1>1, <1>2

\* The crash, which may also be the abort of MapRace, empties the pool.
LEMMA CrashKeepsInv ==
  PoolInv /\ Crash => PoolInv' /\ PoolGone'
<1> SUFFICES ASSUME PoolInv, Crash PROVE PoolInv' /\ PoolGone'
  OBVIOUS
<1>1. PoolGone'
  BY DEF Crash, PoolGone
<1>2. /\ ~(up # "down")' /\ ~(up = "serving")'
      /\ UNCHANGED target
      /\ target \in [Deletes -> Jobs \cup {None}]
  BY DEF Crash, PoolInv, PoolFacts!IInv, PoolFacts!TypeOK
<1> USE ProxyAssumption, <1>1, <1>2
    DEF PoolGone, Crash, PoolFacts!OnWorker, PoolFacts!Adding
<1>3. PoolFacts!TypeOK'
  BY DEF PoolFacts!TypeOK, PoolFacts!AdderState, PoolFacts!TaskState,
     PoolFacts!DeleteState
<1>4. (PoolFacts!MapMatchesTasks /\ PoolFacts!QueueMatchesTasks)'
  BY DEF PoolFacts!MapMatchesTasks, PoolFacts!QueueMatchesTasks
<1>5. (PoolFacts!TaskAfterSubmit /\ PoolFacts!SenderHoldsMutex)'
  BY DEF PoolFacts!TaskAfterSubmit, PoolFacts!SenderHoldsMutex
<1>6. (PoolFacts!TargetsNamed /\ PoolFacts!OneAdder)'
  BY DEF PoolFacts!TargetsNamed, PoolFacts!OneAdder
<1>7. (PoolFacts!AdmittedNeverBlocks /\ PoolFacts!AckedCancelIsFinal)'
  BY DEF PoolFacts!AdmittedNeverBlocks, PoolFacts!AckedCancelIsFinal
<1> QED
  BY <1>1, <1>3, <1>4, <1>5, <1>6, <1>7 DEF PoolInv, PoolFacts!IInv

\* The restart gives the pool the jobs of the list, which are added later.
LEMMA RestartKeepsInv ==
  PoolInv /\ PoolGone /\ Restart => PoolInv' /\ PoolGone'
<1> SUFFICES ASSUME PoolInv, PoolGone, Restart PROVE PoolInv' /\ PoolGone'
  OBVIOUS
<1>1. /\ up = "down" /\ up' = "restoring"
      /\ UNCHANGED <<task, queue, cancelTask, cancelMutex, addTaskMutex,
                     handler, target>>
      /\ adder' \in [Jobs -> {"unfinished", "idle"}]
  BY DEF Restart, Track!Restart, deleting
<1>2. /\ task' = [j \in Jobs |-> "none"]
      /\ queue' = <<>>
      /\ cancelTask' = {}
      /\ cancelMutex' = None
      /\ addTaskMutex' = None
      /\ handler' = [d \in Deletes |-> "idle"]
      /\ target' \in [Deletes -> Jobs \cup {None}]
  BY <1>1 DEF PoolGone, PoolInv, PoolFacts!IInv, PoolFacts!TypeOK
<1>3. (up # "down")' /\ ~(up = "serving")'
  BY <1>1
<1> USE ProxyAssumption, <1>1, <1>2, <1>3
    DEF PoolFacts!OnWorker, PoolFacts!Adding
<1>4. PoolFacts!TypeOK'
  BY DEF PoolFacts!TypeOK, PoolFacts!AdderState, PoolFacts!TaskState,
     PoolFacts!DeleteState
<1>5. (PoolFacts!MapMatchesTasks /\ PoolFacts!QueueMatchesTasks)'
  BY DEF PoolFacts!MapMatchesTasks, PoolFacts!QueueMatchesTasks
<1>6. (PoolFacts!TaskAfterSubmit /\ PoolFacts!SenderHoldsMutex)'
  BY DEF PoolFacts!TaskAfterSubmit, PoolFacts!SenderHoldsMutex
<1>7. (PoolFacts!TargetsNamed /\ PoolFacts!OneAdder)'
  BY DEF PoolFacts!TargetsNamed, PoolFacts!OneAdder
<1>8. (PoolFacts!AdmittedNeverBlocks /\ PoolFacts!AckedCancelIsFinal)'
  BY DEF PoolFacts!AdmittedNeverBlocks, PoolFacts!AckedCancelIsFinal
<1>9. PoolGone'
  BY DEF PoolGone
<1> QED
  BY <1>4, <1>5, <1>6, <1>7, <1>8, <1>9 DEF PoolInv, PoolFacts!IInv

-----------------------------------------------------------------------------
(* The theorems. *)

\* What makes the pool correct in one life holds across crashes and restarts,
\* and while the process is down nothing of the pool is left.
THEOREM ProxyPoolInvariant == Spec => [](PoolInv /\ PoolGone)
<1>1. Init => PoolInv /\ PoolGone
  BY InitPoolInv DEF Init, PoolGone
<1>2. PoolInv /\ PoolGone /\ [Next]_vars => PoolInv' /\ PoolGone'
  BY NextIsPoolStep, MoveKeepsInv, CrashKeepsInv, RestartKeepsInv
<1> QED
  BY <1>1, <1>2, PTL DEF Spec

\* In the composed proxy the map of cancel channels holds exactly the jobs
\* being submitted, queued or running, in every life of the process.
THEOREM ProxyMapExact == Spec => []MapMatchesTasks
<1>1. PoolInv => MapMatchesTasks
  BY DEF PoolInv, PoolFacts!IInv, PoolFacts!MapMatchesTasks, MapMatchesTasks,
     Pool!MapMatchesTasks, Pool!OnWorker, PoolFacts!OnWorker
<1> QED
  BY <1>1, ProxyPoolInvariant, PTL

=============================================================================
