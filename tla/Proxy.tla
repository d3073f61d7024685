------------------------------- MODULE Proxy -------------------------------
(***************************************************************************)
(* The whole proxy: the goroutines and locks of TaskPool composed with the *)
(* calls to Globus and SciCat of TransferTracking.  A step of a POST, of a *)
(* task or of the restore is a step of both or, where one of them has      *)
(* nothing to do, of one.  The DELETE handler is here in full: several for *)
(* one job, with and without delete=true, each with its answer.            *)
(*                                                                         *)
(* Track's view of a DELETE is whether one is sending to the task.  The    *)
(* abort of the Go runtime (MapRace of TaskPool) is one way to crash.      *)
(***************************************************************************)
EXTENDS Naturals, Sequences, FiniteSets

CONSTANTS Jobs, Deletes, MaxConcurrency, QueueSize, None,
          MaxFaults, MaxCrashes, MissingIsFalse

\* The assumptions of TaskPool and of TransferTracking.
ASSUME ProxyAssumption ==
  /\ MaxConcurrency \in Nat \ {0}
  /\ QueueSize \in Nat
  /\ None \notin Jobs
  /\ None \notin Deletes
  /\ MaxFaults \in Nat
  /\ MaxCrashes \in Nat
  /\ MissingIsFalse \in BOOLEAN

VARIABLES
  \* of TransferTracking
  up, pc, seen, archive, unfinished, autoArchive, globus, record, ready,
  archived, faults, crashes,
  \* of TaskPool; handler is its variable delete
  adder, task, queue, cancelTask, cancelMutex, addTaskMutex, handler, target,
  \* of the DELETE handlers
  remove,  \* the request has delete=true
  answer   \* what the handler answers, "removing" while it deletes the job

tracking == <<up, pc, seen, archive, unfinished, autoArchive, globus, record,
              ready, archived, faults, crashes>>
pooling == <<adder, task, queue, cancelTask, cancelMutex, addTaskMutex>>
deleting == <<handler, target, remove, answer>>
vars == <<tracking, pooling, deleting>>

Sending(j) == \E d \in Deletes : handler[d] = "sending" /\ target[d] = j

Pool == INSTANCE TaskPool WITH
  up <- up # "down", serving <- up = "serving", delete <- handler

Track == INSTANCE TransferTracking WITH
  delete <- [j \in Jobs |-> IF Sending(j) THEN "cancel" ELSE "none"]

Answer == {"none", "removing", "200", "400", "403", "500", "lost"}

Init ==
  /\ up = "serving"
  /\ handler = [d \in Deletes |-> "idle"]
  /\ target = [d \in Deletes |-> None]
  /\ remove = [d \in Deletes |-> FALSE]
  /\ answer = [d \in Deletes |-> "none"]
  /\ adder = [j \in Jobs |-> "idle"]
  /\ Track!Init
  /\ task = [j \in Jobs |-> "none"]
  /\ queue = <<>>
  /\ cancelTask = {}
  /\ cancelMutex = None
  /\ addTaskMutex = None

-----------------------------------------------------------------------------
(* PostTransferTask. *)

\* A POST that the pool has no room for answers 503; others are refused
\* before they get there.
RefuseRequest(j) ==
  /\ UNCHANGED deleting
  /\ Track!RefuseRequest(j)
  /\ Pool!Refuse(j) \/ (adder[j] = "idle" /\ UNCHANGED pooling)

Admit(j) ==
  /\ pc[j] = "idle"
  /\ UNCHANGED <<tracking, deleting>>
  /\ Pool!Admit(j)

SubmitTransfer(j) ==
  /\ adder[j] = "admitted"
  /\ UNCHANGED <<pooling, deleting>>
  /\ Track!SubmitTransfer(j)

\* The two error answers after the admission; both unlock.
RequestFails(j) ==
  /\ UNCHANGED deleting
  /\ (adder[j] = "admitted" /\ Track!SubmitFails(j)) \/ Track!Compensate(j)
  /\ Pool!RequestFails(j)

\* CreateGlobusTransferScicatJob.
CreateRecord(j) ==
  /\ UNCHANGED <<pooling, deleting>>
  /\ \/ Track!CreateJob(j) \/ Track!CreateJobFails(j)
     \/ Track!StartRecord(j) \/ Track!StartRecordFails(j)

-----------------------------------------------------------------------------
(* AddTransferTask, by a POST that has its job or by the restore loop. *)

BeginAdd(j) ==
  /\ UNCHANGED <<tracking, deleting>>
  /\ \/ pc[j] = "started" /\ Pool!AddFromRequest(j)
     \/ Pool!AddFromRestore(j)

WriteMap(j) ==
  /\ UNCHANGED <<tracking, deleting>>
  /\ Pool!WriteMap(j)

\* The task exists for the pool and for the tracking from the Submit on.
Submit(j) ==
  /\ UNCHANGED deleting
  /\ Track!AddTransferTask(j) \/ Track!RestoreJob(j)
  /\ Pool!Submit(j)

\* The restore loop passes over a record without globusTaskId.
SkipRecord(j) ==
  /\ adder[j] = "idle"
  /\ UNCHANGED <<pooling, deleting>>
  /\ Track!RestoreJob(j)

Serve ==
  /\ UNCHANGED deleting
  /\ Track!Serve
  /\ Pool!Serve

-----------------------------------------------------------------------------
(* transferTask.execute. *)

StartTask ==
  /\ queue # <<>>
  /\ UNCHANGED deleting
  /\ Track!StartTask(Head(queue))
  /\ Pool!StartTask

Poll(j) ==
  /\ UNCHANGED deleting
  /\ Track!CheckTransfer(j) \/ Track!CheckTransferFails(j)
  /\ Pool!SelectDefault(j)

\* updateTask returns; where execute goes next depends on its answer.
Report(j) ==
  /\ UNCHANGED deleting
  /\ Track!Report(j) \/ Track!ReportRefused(j) \/ Track!ReportFails(j)
  /\ CASE pc'[j] = "loop" -> Pool!PollAgain(j)
       [] pc'[j] = "finishing" -> Pool!PollEnds(j) /\ task'[j] = "finishing"
       [] OTHER -> Pool!PollEnds(j) /\ task'[j] = "cleanup"

\* Steps of finishTask and cancelTask; with the last one execute returns.
Work(j) ==
  /\ UNCHANGED deleting
  /\ \/ Track!MarkReady(j) \/ Track!MarkReadyFails(j)
     \/ Track!FinishWithoutToken(j) \/ Track!Explain(j)
     \/ Track!CreateArchivalJob(j)
     \/ Track!CancelTransfer(j) \/ Track!CancelTransferFails(j)
     \/ Track!RecordCancel(j)
  /\ IF pc'[j] = "ended" THEN Pool!WorkDone(j) ELSE UNCHANGED pooling

Cleanup(j) ==
  /\ UNCHANGED <<tracking, deleting>>
  /\ Pool!Cleanup(j)

-----------------------------------------------------------------------------
(* DeleteTransferTask of the API and of the pool. *)

Reply(d, to) == answer' = [answer EXCEPT ![d] = to]

\* CancelTransferTask returned; with delete=true its error is dropped and the
\* job is deleted.
Cancelled(d, error) ==
  Reply(d, IF remove[d] THEN "removing" ELSE error)

\* The job is not found in SciCat (400), belongs to others (403), or the
\* login fails (500).
RefuseDelete(d) ==
  /\ up = "serving"
  /\ handler[d] = "idle"
  /\ answer[d] = "none"
  /\ \/ Reply(d, "403") /\ UNCHANGED tracking
     \/ Reply(d, "400") /\ UNCHANGED tracking
     \/ /\ Reply(d, "500")
        /\ Track!CallFails
        /\ UNCHANGED <<up, pc, seen, archive, unfinished, autoArchive, globus,
                       record, ready, archived>>
  /\ UNCHANGED <<pooling, handler, target, remove>>

RequestDelete(d, j) ==
  /\ answer[d] = "none"
  /\ Track!Found(j)
  /\ \E r \in BOOLEAN : remove' = [remove EXCEPT ![d] = r]
  /\ UNCHANGED <<tracking, answer>>
  /\ Pool!RequestCancel(d, j)

Lookup(d) ==
  /\ UNCHANGED <<tracking, target, remove>>
  /\ \/ Pool!LookupFound(d) /\ UNCHANGED answer
     \/ Pool!LookupMissed(d) /\ Cancelled(d, "400")

HearCancel(j, d) ==
  /\ UNCHANGED <<up, seen, archive, unfinished, autoArchive, globus, record,
                 ready, archived, faults, crashes, target, remove>>
  /\ Track!Go(j, "loop", "cancelling")
  /\ Pool!SelectCancel(j, d)
  /\ Cancelled(d, "200")

\* DeleteScicatJob: SciCat answers 400 for a job that is gone.
RemoveRecord(d) ==
  /\ up = "serving"
  /\ answer[d] = "removing"
  /\ LET j == target[d] IN
       \/ /\ record[j] # "removed"
          /\ Track!Patch(j, "removed") /\ Track!CallSucceeds /\ Reply(d, "200")
       \/ record[j] = "removed" /\ UNCHANGED <<record, faults, crashes>>
          /\ Reply(d, "400")
       \/ Track!PatchFails(j, "removed") /\ Reply(d, "500")
  /\ UNCHANGED <<up, pc, seen, archive, unfinished, autoArchive, globus, ready,
                 archived, pooling, handler, target, remove>>

-----------------------------------------------------------------------------
(* Crash and restart: Globus and SciCat go on, everything else is gone. *)

Crash ==
  /\ up # "down"
  /\ crashes < MaxCrashes
  /\ crashes' = crashes + 1
  /\ up' = "down"
  /\ pc' = [j \in Jobs |-> CASE pc[j] \in Track!InRequest -> "interrupted"
                             [] pc[j] \in Track!InTask -> "lost"
                             [] OTHER -> pc[j]]
  /\ seen' = [j \in Jobs |-> "nothing"]
  /\ archive' = [j \in Jobs |-> FALSE]
  /\ unfinished' = {}
  /\ answer' = [d \in Deletes |->
                  IF handler[d] # "idle" /\ answer[d] \in {"none", "removing"}
                  THEN "lost" ELSE answer[d]]
  /\ handler' = [d \in Deletes |-> "idle"]
  /\ adder' = [j \in Jobs |-> "idle"]
  /\ task' = [j \in Jobs |-> "none"]
  /\ queue' = <<>>
  /\ cancelTask' = {}
  /\ cancelMutex' = None
  /\ addTaskMutex' = None
  /\ UNCHANGED <<autoArchive, globus, record, ready, archived, faults, target,
                 remove>>

\* Faulty variant: the tasks of the listed jobs are not handed to the pool.
RestartNotAdding ==
  /\ UNCHANGED deleting
  /\ Track!Restart
  /\ UNCHANGED pooling

\* Of the jobs that SciCat lists, those with a globusTaskId will be added.
Restart ==
  /\ UNCHANGED deleting
  /\ Track!Restart
  /\ adder' = [j \in Jobs |-> IF j \in unfinished' /\ record[j] # "started"
                              THEN "unfinished" ELSE "idle"]
  /\ UNCHANGED <<task, queue, cancelTask, cancelMutex, addTaskMutex>>

Transfer(j) ==
  /\ UNCHANGED <<pooling, deleting>>
  /\ Track!Transfer(j)

-----------------------------------------------------------------------------
AddStep(j) ==
  \/ SubmitTransfer(j) \/ RequestFails(j) \/ CreateRecord(j)
  \/ BeginAdd(j) \/ WriteMap(j) \/ Submit(j) \/ SkipRecord(j)

TaskStep(j) ==
  \/ \E d \in Deletes : HearCancel(j, d)
  \/ Poll(j) \/ Report(j) \/ Work(j)

Next ==
  \/ \E j \in Jobs :
       \/ RefuseRequest(j) \/ Admit(j)
       \/ AddStep(j) \/ TaskStep(j) \/ Cleanup(j) \/ Transfer(j)
  \/ \E d \in Deletes :
       \/ RefuseDelete(d) \/ Lookup(d) \/ RemoveRecord(d)
       \/ \E j \in Jobs : RequestDelete(d, j)
  \/ StartTask \/ Crash \/ Restart \/ Serve

Spec == Init /\ [][Next]_vars

\* That of TaskPool and TransferTracking: goroutines run, mutex waiters are
\* not starved, calls return, a process that is down is started again.
Fairness ==
  /\ WF_vars(StartTask) /\ WF_vars(Serve) /\ WF_vars(Restart)
  /\ \A j \in Jobs :
       WF_vars(AddStep(j)) /\ WF_vars(TaskStep(j)) /\ SF_vars(Cleanup(j))
  /\ \A d \in Deletes : SF_vars(Lookup(d)) /\ WF_vars(RemoveRecord(d))

FairSpec == Spec /\ Fairness

-----------------------------------------------------------------------------
(* Safety. *)

\* The place of a task in the pool and that of its calls agree, and the
\* answers are those of the API.
TypeOK ==
  /\ Pool!TypeOK
  /\ answer \in [Deletes -> Answer]
  /\ remove \in [Deletes -> BOOLEAN]
  /\ \A j \in Jobs :
       /\ task[j] = "polling" <=> pc[j] = "reporting"
       /\ task[j] \in {"queued", "loop"} => pc[j] = task[j]
       /\ task[j] = "finishing" <=>
            pc[j] \in {"finishing", "explaining", "archiving"}
       /\ task[j] = "cancelling" <=> pc[j] \in {"cancelling", "recording"}
       /\ task[j] \in {"cleanup", "done"} => pc[j] = "ended"

\* The map of cancel channels is exact in every life of the process, with
\* overlapping POSTs and a restore that adds to it.
MapMatchesTasks == Pool!MapMatchesTasks

\* What SciCat says is true however many DELETEs meet in one transfer.
RecordIsTruthful == Track!RecordIsTruthful

\* A transfer that moves in Globus has somebody in charge of it, a POST or a
\* task, unless a call failed, the process crashed or its job was removed.
NobodyAbandons ==
  \A j \in Jobs :
    globus[j] \in Track!Moving =>
      \/ pc[j] \in Track!InRequest \cup Track!InTask
      \/ faults > 0 \/ crashes > 0 \/ record[j] = "removed"

\* Codes 001 and 002, of which both have the status "transferring".
ShownTransferring(j) == record[j] \in {"started", "transferring"}

\* A record 001 without a task: its POST has yet to add the task and to answer,
\* or a crash has taken the one or the other before the first poll, and the
\* restore passes over a record without globusTaskId.
TaskToCome(j) == record[j] = "started" /\ pc[j] = "started"
TaskLost(j) == record[j] = "started" /\ pc[j] \in {"interrupted", "lost"}

\* When the server listens, a DELETE for a transfer that SciCat shows as
\* transferring finds its cancel channel, before and after a restart, unless
\* its record is still 001 and its task is to come or was lost (runs with
\* MaxFaults = 0).
ShownIsCancellable ==
  up = "serving" =>
    \A j \in Jobs :
      ShownTransferring(j) => j \in cancelTask \/ TaskToCome(j) \/ TaskLost(j)

\* Several DELETEs for one job, whatever they ask for, leave the promise of
\* TransferJob intact (runs without a crash).
JobPromise == Track!JobPromise

-----------------------------------------------------------------------------
(* Liveness. *)

WorkersReturn == Pool!WorkersReturn

Trouble == faults > 0 \/ crashes > 0 \/ Pool!Wedged

\* The record says that nothing more will be done for the dataset.
GivenUp == {"not archivable", "cancelled", "not cancelled", "removed"}

\* A transfer that the POST answered 200 for is carried through: the dataset
\* is marked and, as asked, archived, behind a record that says how the
\* transfer ended; or the record says why not.  It needs workers that return,
\* and no failing call, crash or DELETE that blocks the pool.
AcceptedIsCarriedThrough ==
  WorkersReturn =>
    \A j \in Jobs :
      adder[j] = "accepted" ~>
        \/ record[j] \in GivenUp \/ Trouble
        \/ ready[j] /\ archived[j] = IF autoArchive[j] THEN 1 ELSE 0

\* A DELETE that was answered 200 is carried out: the job is gone or says what
\* became of the cancelling.
CancelIsTold ==
  \A d \in Deletes : \A j \in Jobs :
    (answer[d] = "200" /\ target[d] = j) ~>
      (record[j] \in {"cancelled", "not cancelled", "removed"} \/ Trouble)

=============================================================================
