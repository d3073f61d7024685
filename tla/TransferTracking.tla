-------------------------- MODULE TransferTracking --------------------------
(***************************************************************************)
(* One transfer from the POST that requests it to the archival job: the    *)
(* calls the proxy makes to Globus and SciCat, their failures, the DELETE  *)
(* of the transfer, and the crash and restart of the proxy.                *)
(*                                                                         *)
(* Globus and SciCat are the variables globus, record, ready and archived; *)
(* they survive a crash.  A call that fails does so with or without having *)
(* taken effect, and costs one of MaxFaults.  Workers are always free and  *)
(* a DELETE is served as soon as the task listens: module TaskPool has the *)
(* pool, the mutex and the channel.                                        *)
(***************************************************************************)
EXTENDS Naturals

CONSTANTS
  Jobs,            \* transfers ever requested
  MaxFaults,       \* bound: calls to Globus or SciCat that fail
  MaxCrashes,      \* bound: crashes of the proxy
  MissingIsFalse   \* SciCat finds a record that has no field `completed`
                   \* when it is asked for completed = false

ASSUME TrackingAssumption ==
  /\ MaxFaults \in Nat
  /\ MaxCrashes \in Nat
  /\ MissingIsFalse \in BOOLEAN

VARIABLES
  up,          \* the process: down, restoring or serving
  pc,          \* progress of the goroutine in charge of each transfer
  seen,        \* what a task has learnt and not yet recorded
  archive,     \* archivalJobInfo.AutoArchive of each task
  delete,      \* progress of the DELETE for each transfer
  unfinished,  \* the jobs the restore loop has yet to visit
  autoArchive, \* what the POST of each transfer asks for
  globus,      \* the transfer in Globus
  record,      \* the job in SciCat: its statusCode, status and error
  ready,       \* the dataset is marked as archivable
  archived,    \* archival jobs created
  faults,
  crashes

local == <<up, seen, archive, delete, unfinished, autoArchive>>
scicat == <<record, ready, archived>>
budget == <<faults, crashes>>
vars == <<local, pc, globus, scicat, budget>>

Up == {"down", "restoring", "serving"}

\* In the handler of POST; in a task of the pool.
InRequest == {"submitted", "created", "started", "compensating"}
InTask == {"queued", "loop", "reporting", "finishing", "explaining",
           "archiving", "cancelling", "recording"}
Progress == {"idle", "rejected", "failed", "ended", "interrupted", "lost"}
              \cup InRequest \cup InTask

Seen == {"nothing", "active", "succeeded", "error", "stopped", "not stopped"}
Deleting == {"none", "cancel", "remove", "removing", "answered"}
GlobusState == {"none", "active", "inactive", "succeeded", "failed"}
Moving == {"active", "inactive"}

\* absent; created: POSTed, not yet PATCHed; started: 001; transferring: 002;
\* finished, cancelled: 003; not cancelled: 996; not archivable: 997;
\* poll failed: 998; removed.  The last three codes come with an error text.
Record == {"absent", "created", "started", "transferring", "finished",
           "cancelled", "not cancelled", "not archivable", "poll failed",
           "removed"}

Init ==
  /\ up = "serving"
  /\ pc = [j \in Jobs |-> "idle"]
  /\ seen = [j \in Jobs |-> "nothing"]
  /\ archive = [j \in Jobs |-> FALSE]
  /\ delete = [j \in Jobs |-> "none"]
  /\ unfinished = {}
  /\ autoArchive \in [Jobs -> BOOLEAN]
  /\ globus = [j \in Jobs |-> "none"]
  /\ record = [j \in Jobs |-> "absent"]
  /\ ready = [j \in Jobs |-> FALSE]
  /\ archived = [j \in Jobs |-> 0]
  /\ faults = 0
  /\ crashes = 0

-----------------------------------------------------------------------------
(* Steps and calls. *)

\* The goroutine in charge of j goes from one place to another.
Go(j, from, to) ==
  /\ up # "down"
  /\ pc[j] = from
  /\ pc' = [pc EXCEPT ![j] = to]

CallSucceeds == UNCHANGED budget

CallFails ==
  /\ faults < MaxFaults
  /\ faults' = faults + 1
  /\ UNCHANGED crashes

\* TransferCancelTaskByID without an error: the transfer has stopped.
StopTransfer(j) ==
  globus' = [globus EXCEPT ![j] = IF @ \in Moving THEN "failed" ELSE @]

\* A PATCH takes effect; SciCat refuses it for a removed job.
Patch(j, to) ==
  record' = [record EXCEPT ![j] = IF @ = "removed" THEN @ ELSE to]

\* A call that failed may have taken effect all the same.
PatchFails(j, to) == CallFails /\ (Patch(j, to) \/ UNCHANGED record)

\* A PATCH of which execute ignores the outcome.
TryPatch(j, to) == (Patch(j, to) /\ CallSucceeds) \/ PatchFails(j, to)

-----------------------------------------------------------------------------
(* PostTransferTask. *)

\* 400, 401, 403, 500 or 503 before anything has been requested.
RefuseRequest(j) ==
  /\ up = "serving"
  /\ Go(j, "idle", "rejected")
  /\ UNCHANGED <<local, globus, scicat, budget>>

SubmitTransfer(j) ==
  /\ up = "serving"
  /\ Go(j, "idle", "submitted")
  /\ globus' = [globus EXCEPT ![j] = "active"]
  /\ UNCHANGED <<local, scicat, budget>>

\* "can't request globus transfer"; Globus may have accepted it.
SubmitFails(j) ==
  /\ up = "serving"
  /\ Go(j, "idle", "rejected")
  /\ CallFails
  /\ \E state \in {"none", "active"} :
       globus' = [globus EXCEPT ![j] = state]
  /\ UNCHANGED <<local, scicat>>

\* The POST of CreateGlobusTransferScicatJob.
CreateJob(j) ==
  /\ Go(j, "submitted", "created")
  /\ record' = [record EXCEPT ![j] = "created"]
  /\ UNCHANGED <<local, globus, ready, archived, budget>>

\* GetToken or that POST fails.
CreateJobFails(j) ==
  /\ Go(j, "submitted", "compensating")
  /\ CallFails
  /\ \E state \in {"absent", "created"} :
       record' = [record EXCEPT ![j] = state]
  /\ UNCHANGED <<local, globus, ready, archived>>

\* Its PATCH: "started", with an empty globusTaskId.
StartRecord(j) ==
  /\ record[j] # "removed"
  /\ Go(j, "created", "started")
  /\ Patch(j, "started")
  /\ UNCHANGED <<local, globus, ready, archived, budget>>

\* It fails, or SciCat refuses it because the job has just been removed.
StartRecordFails(j) ==
  /\ Go(j, "created", "compensating")
  /\ \/ PatchFails(j, "started")
     \/ record[j] = "removed" /\ UNCHANGED <<record, budget>>
  /\ UNCHANGED <<local, globus, ready, archived>>

\* Faulty variant: the transfer is not cancelled before the error answer.
CompensateForgotten(j) ==
  /\ Go(j, "compensating", "failed")
  /\ UNCHANGED <<local, globus, scicat, budget>>

\* The attempt to cancel the transfer, of which the error is ignored; 500.
Compensate(j) ==
  /\ Go(j, "compensating", "failed")
  /\ \/ StopTransfer(j) /\ CallSucceeds
     \/ (StopTransfer(j) \/ UNCHANGED globus) /\ CallFails
  /\ UNCHANGED <<local, scicat>>

\* Faulty variant: AutoArchive is taken to be false.
AddTransferTaskNoArchive(j) ==
  /\ Go(j, "started", "queued")
  /\ UNCHANGED <<local, globus, scicat, budget>>

\* The channel and the task; the POST answers 200.
AddTransferTask(j) ==
  /\ Go(j, "started", "queued")
  /\ archive' = [archive EXCEPT ![j] = autoArchive[j]]
  /\ UNCHANGED <<up, seen, delete, unfinished, autoArchive, globus, scicat,
                 budget>>

-----------------------------------------------------------------------------
(* transferTask.execute and updateTask. *)

StartTask(j) ==
  /\ Go(j, "queued", "loop")
  /\ UNCHANGED <<local, globus, scicat, budget>>

AskedToStop(j) == delete[j] \in {"cancel", "remove"}

\* Faulty variant: execute returns without calling cancelTask.
HearCancelDropped(j) ==
  /\ AskedToStop(j)
  /\ Go(j, "loop", "ended")
  /\ delete' = [delete EXCEPT ![j] = IF @ = "remove" THEN "removing"
                                                     ELSE "answered"]
  /\ UNCHANGED <<up, seen, archive, unfinished, autoArchive, globus, scicat,
                 budget>>

\* The select receives: CancelTransferTask returns nil to the DELETE, which
\* goes on to remove the job from SciCat if it was asked to.
HearCancel(j) ==
  /\ AskedToStop(j)
  /\ Go(j, "loop", "cancelling")
  /\ delete' = [delete EXCEPT ![j] = IF @ = "remove" THEN "removing"
                                                     ELSE "answered"]
  /\ UNCHANGED <<up, seen, archive, unfinished, autoArchive, globus, scicat,
                 budget>>

\* Faulty variant: what is no longer active has succeeded.
WhatGlobusSaysLenient(j) ==
  IF globus[j] = "active" THEN "active" ELSE "succeeded"

\* checkTransfer; INACTIVE and FAILED are errors.
WhatGlobusSays(j) ==
  CASE globus[j] = "active" -> "active"
    [] globus[j] = "succeeded" -> "succeeded"
    [] OTHER -> "error"

CheckTransfer(j) ==
  /\ ~AskedToStop(j)
  /\ Go(j, "loop", "reporting")
  /\ seen' = [seen EXCEPT ![j] = WhatGlobusSays(j)]
  /\ UNCHANGED <<up, archive, delete, unfinished, autoArchive, globus, scicat,
                 budget>>

CheckTransferFails(j) ==
  /\ ~AskedToStop(j)
  /\ Go(j, "loop", "reporting")
  /\ CallFails
  /\ seen' = [seen EXCEPT ![j] = "error"]
  /\ UNCHANGED <<up, archive, delete, unfinished, autoArchive, globus, scicat>>

\* 998, 003 and 002.
Status(j) ==
  CASE seen[j] = "error" -> "poll failed"
    [] seen[j] = "succeeded" -> "finished"
    [] OTHER -> "transferring"

\* Faulty variant: a failed transfer is finished like a completed one.
ReportIgnoringError(j) ==
  /\ record[j] # "removed"
  /\ Go(j, "reporting", IF seen[j] = "active" THEN "loop" ELSE "finishing")
  /\ Patch(j, Status(j))
  /\ UNCHANGED <<local, globus, ready, archived, budget>>

\* Faulty variant: the PATCH is sent only while the transfer goes on.
ReportProgressOnly(j) ==
  /\ record[j] # "removed"
  /\ Go(j, "reporting", IF seen[j] = "succeeded" THEN "finishing" ELSE "loop")
  /\ IF seen[j] = "succeeded" THEN UNCHANGED record ELSE Patch(j, Status(j))
  /\ UNCHANGED <<local, globus, ready, archived, budget>>

\* GetToken and the PATCH succeed.  The error of the poll is overwritten by
\* theirs: execute ends its loop only for a completed transfer.
Report(j) ==
  /\ record[j] # "removed"
  /\ Go(j, "reporting", IF seen[j] = "succeeded" THEN "finishing" ELSE "loop")
  /\ Patch(j, Status(j))
  /\ UNCHANGED <<local, globus, ready, archived, budget>>

\* SciCat refuses to patch a removed job: execute returns.
ReportRefused(j) ==
  /\ record[j] = "removed"
  /\ Go(j, "reporting", "ended")
  /\ UNCHANGED <<local, globus, scicat, budget>>

\* Faulty variant: execute looks at `completed` only, not at the error.
ReportFailsFinishing(j) ==
  /\ Go(j, "reporting", IF seen[j] = "succeeded" THEN "finishing" ELSE "ended")
  /\ PatchFails(j, Status(j))
  /\ UNCHANGED <<local, globus, ready, archived>>

\* GetToken or the PATCH fails: execute returns, the transfer goes on.
ReportFails(j) ==
  /\ Go(j, "reporting", "ended")
  /\ PatchFails(j, Status(j))
  /\ UNCHANGED <<local, globus, ready, archived>>

-----------------------------------------------------------------------------
(* finishTask. *)

MarkReady(j) ==
  /\ Go(j, "finishing", "archiving")
  /\ ready' = [ready EXCEPT ![j] = TRUE]
  /\ UNCHANGED <<local, globus, record, archived, budget>>

MarkReadyFails(j) ==
  /\ Go(j, "finishing", "explaining")
  /\ CallFails
  /\ \E marked \in {ready[j], TRUE} : ready' = [ready EXCEPT ![j] = marked]
  /\ UNCHANGED <<local, globus, record, archived>>

\* The error of GetToken is ignored: SciCat refuses the empty token twice.
FinishWithoutToken(j) ==
  /\ Go(j, "finishing", "ended")
  /\ CallFails
  /\ UNCHANGED <<local, globus, scicat>>

\* 997, "completed but can't mark dataset as archivable".
Explain(j) ==
  /\ Go(j, "explaining", "ended")
  /\ TryPatch(j, "not archivable")
  /\ UNCHANGED <<local, globus, ready, archived>>

Archived(j) ==
  archived' = [archived EXCEPT ![j] = IF archive[j] THEN @ + 1 ELSE @]

\* Faulty variant: AutoArchive is not looked at.
CreateArchivalJobAlways(j) ==
  /\ Go(j, "archiving", "ended")
  /\ archived' = [archived EXCEPT ![j] = @ + 1]
  /\ UNCHANGED <<local, globus, record, ready, budget>>

\* AuthenticateUser and, if so asked, CreateArchivalJob; a failure of either is
\* logged and forgotten.
CreateArchivalJob(j) ==
  /\ Go(j, "archiving", "ended")
  /\ \/ Archived(j) /\ CallSucceeds
     \/ (Archived(j) \/ UNCHANGED archived) /\ CallFails
  /\ UNCHANGED <<local, globus, record, ready>>

-----------------------------------------------------------------------------
(* cancelTask. *)

\* Faulty variant: an error is made of a cancel that was never sent.
CancelTransferForgotten(j) ==
  /\ Go(j, "cancelling", "recording")
  /\ seen' = [seen EXCEPT ![j] = "not stopped"]
  /\ UNCHANGED <<up, archive, delete, unfinished, autoArchive, globus, scicat,
                 budget>>

\* Globus may call the cancelling of a transfer that is over an error or not.
CancelTransfer(j) ==
  /\ Go(j, "cancelling", "recording")
  /\ StopTransfer(j)
  /\ \E outcome \in {"stopped", "not stopped"} :
       /\ globus[j] \in Moving => outcome = "stopped"
       /\ seen' = [seen EXCEPT ![j] = outcome]
  /\ UNCHANGED <<up, archive, delete, unfinished, autoArchive, scicat, budget>>

CancelTransferFails(j) ==
  /\ Go(j, "cancelling", "recording")
  /\ CallFails
  /\ StopTransfer(j) \/ UNCHANGED globus
  /\ seen' = [seen EXCEPT ![j] = "not stopped"]
  /\ UNCHANGED <<up, archive, delete, unfinished, autoArchive, scicat>>

\* Faulty variant: 003 whatever Globus said.
CancelStatusOptimistic(j) == "cancelled"

\* 003 or 996.
CancelStatus(j) == IF seen[j] = "stopped" THEN "cancelled" ELSE "not cancelled"

\* Faulty variant: execute returns without telling SciCat.
RecordCancelSkipped(j) ==
  /\ Go(j, "recording", "ended")
  /\ UNCHANGED <<local, globus, scicat, budget>>

\* Faulty variant: execute goes round its loop again.
RecordCancelNoReturn(j) ==
  /\ Go(j, "recording", "loop")
  /\ TryPatch(j, CancelStatus(j))
  /\ UNCHANGED <<local, globus, ready, archived>>

RecordCancel(j) ==
  /\ Go(j, "recording", "ended")
  /\ TryPatch(j, CancelStatus(j))
  /\ UNCHANGED <<local, globus, ready, archived>>

-----------------------------------------------------------------------------
(* DeleteTransferTask of the API and of the pool. *)

\* GetJobById finds the job.
Found(j) == record[j] \notin {"absent", "removed"}

\* TaskPool.cancelTask has a channel for it.
Tracked(j) == pc[j] \in InTask

\* With delete=true the record is removed also if there is no such task.
RequestDelete(j) ==
  /\ up = "serving"
  /\ delete[j] = "none"
  /\ Found(j)
  /\ \E remove \in BOOLEAN :
       delete' = [delete EXCEPT ![j] =
                    IF Tracked(j)
                    THEN IF remove THEN "remove" ELSE "cancel"
                    ELSE IF remove THEN "removing" ELSE "answered"]
  /\ UNCHANGED <<up, pc, seen, archive, unfinished, autoArchive, globus,
                 scicat, budget>>

\* GetToken and DeleteScicatJob.
RemoveRecord(j) ==
  /\ up = "serving"
  /\ delete[j] = "removing"
  /\ delete' = [delete EXCEPT ![j] = "answered"]
  /\ TryPatch(j, "removed")
  /\ UNCHANGED <<up, pc, seen, archive, unfinished, autoArchive, globus,
                 ready, archived>>

-----------------------------------------------------------------------------
(* Crash, and RestoreGlobusTransferJobsFromScicat. *)

Crash ==
  /\ up # "down"
  /\ crashes < MaxCrashes
  /\ crashes' = crashes + 1
  /\ up' = "down"
  /\ pc' = [j \in Jobs |-> CASE pc[j] \in InRequest -> "interrupted"
                             [] pc[j] \in InTask -> "lost"
                             [] OTHER -> pc[j]]
  /\ seen' = [j \in Jobs |-> "nothing"]
  /\ archive' = [j \in Jobs |-> FALSE]
  /\ delete' = [j \in Jobs |-> IF delete[j] = "none" THEN "none"
                                                     ELSE "answered"]
  /\ unfinished' = {}
  /\ UNCHANGED <<autoArchive, globus, scicat, faults>>

\* The filter asks for completed = false and error = "".  No record has a
\* field `completed`.
Unfinished(j) ==
  /\ MissingIsFalse
  /\ record[j] \in {"started", "transferring", "finished", "cancelled"}

\* A start whose login or list request fails exits and leaves no trace.
Restart ==
  /\ up = "down"
  /\ up' = "restoring"
  /\ unfinished' = {j \in Jobs : Unfinished(j)}
  /\ UNCHANGED <<pc, seen, archive, delete, autoArchive, globus, scicat,
                 budget>>

\* A job is resumed, with AutoArchive TRUE, if its record names a transfer,
\* which the one written by the POST does not.
RestoreJob(j) ==
  /\ up = "restoring"
  /\ j \in unfinished
  /\ unfinished' = unfinished \ {j}
  /\ IF record[j] = "started"
     THEN UNCHANGED <<pc, archive>>
     ELSE /\ pc' = [pc EXCEPT ![j] = "queued"]
          /\ archive' = [archive EXCEPT ![j] = TRUE]
  /\ UNCHANGED <<up, seen, delete, autoArchive, globus, scicat, budget>>

\* Faulty variant: the server listens while jobs are still being restored.
ServeEarly ==
  /\ up = "restoring"
  /\ up' = "serving"
  /\ UNCHANGED <<pc, seen, archive, delete, unfinished, autoArchive, globus,
                 scicat, budget>>

Serve ==
  /\ up = "restoring"
  /\ unfinished = {}
  /\ up' = "serving"
  /\ UNCHANGED <<pc, seen, archive, delete, unfinished, autoArchive, globus,
                 scicat, budget>>

-----------------------------------------------------------------------------
(* Globus moves the data, or waits for somebody to renew a credential. *)

Transfer(j) ==
  /\ \/ /\ globus[j] = "active"
        /\ \E state \in {"inactive", "succeeded", "failed"} :
             globus' = [globus EXCEPT ![j] = state]
     \/ /\ globus[j] = "inactive"
        /\ \E state \in {"active", "failed"} :
             globus' = [globus EXCEPT ![j] = state]
  /\ UNCHANGED <<local, pc, scicat, budget>>

-----------------------------------------------------------------------------
RequestStep(j) ==
  \/ CreateJob(j) \/ CreateJobFails(j)
  \/ StartRecord(j) \/ StartRecordFails(j)
  \/ Compensate(j) \/ AddTransferTask(j)

TaskStep(j) ==
  \/ StartTask(j) \/ HearCancel(j)
  \/ CheckTransfer(j) \/ CheckTransferFails(j)
  \/ Report(j) \/ ReportRefused(j) \/ ReportFails(j)
  \/ MarkReady(j) \/ MarkReadyFails(j) \/ FinishWithoutToken(j)
  \/ Explain(j) \/ CreateArchivalJob(j)
  \/ CancelTransfer(j) \/ CancelTransferFails(j) \/ RecordCancel(j)

Next ==
  \/ \E j \in Jobs :
       \/ RefuseRequest(j) \/ SubmitTransfer(j) \/ SubmitFails(j)
       \/ RequestStep(j) \/ TaskStep(j)
       \/ RequestDelete(j) \/ RemoveRecord(j)
       \/ RestoreJob(j) \/ Transfer(j)
  \/ Crash \/ Restart \/ Serve

Spec == Init /\ [][Next]_vars

-----------------------------------------------------------------------------
(* Safety. *)

\* Types of the variables; a request or a task is in progress only in a
\* process that is up, the restore list is empty once the server listens.
TypeOK ==
  /\ up \in Up
  /\ pc \in [Jobs -> Progress]
  /\ seen \in [Jobs -> Seen]
  /\ archive \in [Jobs -> BOOLEAN]
  /\ delete \in [Jobs -> Deleting]
  /\ unfinished \in SUBSET Jobs
  /\ autoArchive \in [Jobs -> BOOLEAN]
  /\ globus \in [Jobs -> GlobusState]
  /\ record \in [Jobs -> Record]
  /\ ready \in [Jobs -> BOOLEAN]
  /\ archived \in [Jobs -> Nat]
  /\ faults \in 0..MaxFaults
  /\ crashes \in 0..MaxCrashes
  /\ up = "down" => \A j \in Jobs : pc[j] \notin InRequest \cup InTask
  /\ up # "restoring" => unfinished = {}

\* What the SciCat job says of the transfer is so: "finished" is written only
\* for a transfer that succeeded, "cancelled" only for one that has stopped,
\* whatever fails, crashes or is restored in between.
RecordIsTruthful ==
  \A j \in Jobs :
    /\ record[j] \in {"finished", "not archivable"} => globus[j] = "succeeded"
    /\ record[j] = "cancelled" => globus[j] \in {"succeeded", "failed"}

\* A dataset is marked as archivable only if its transfer succeeded, and is
\* archived only if it is so marked.
ReadyOnlyIfSucceeded ==
  \A j \in Jobs :
    /\ ready[j] => globus[j] = "succeeded"
    /\ archived[j] > 0 => ready[j]

\* The record says that the transfer is finished before the dataset can be
\* archived, and goes on saying so.
ReadyIsRecorded ==
  \A j \in Jobs :
    ready[j] => record[j] \in {"finished", "not archivable", "removed"}

\* An archival job is created for those transfers only whose POST asked for
\* it (autoArchive).
ArchiveOnlyIfAsked ==
  \A j \in Jobs : archived[j] > 0 => autoArchive[j]

\* ... and at most one for each.
ArchiveAsAsked ==
  ArchiveOnlyIfAsked /\ \A j \in Jobs : archived[j] <= 1

\* A POST that got the transfer from Globus and answers 500 because one later
\* call failed leaves no transfer behind.  (If somebody removes the new job
\* before its first PATCH, that PATCH and the cancel may be two failures.)
FailedPostLeavesNoTransfer ==
  \A j \in Jobs :
    (pc[j] = "failed" /\ record[j] # "removed") => globus[j] \notin Moving

\* A task that ends has told SciCat how the transfer ended, unless a call
\* failed (run with MaxFaults = 0).
EndedIsRecorded ==
  \A j \in Jobs :
    pc[j] = "ended" =>
      record[j] \in {"finished", "cancelled", "not cancelled", "poll failed",
                    "removed"}

\* A record that says "cancelled" is not overwritten by a late answer or by a
\* task that goes on.
CancelledIsFinal ==
  [][\A j \in Jobs :
       record[j] = "cancelled" => record'[j] \in {"cancelled", "removed"}]_vars

\* The status message of code 998: "an error has occured during task polling,
\* this job is not updated anymore".  The code violates it.
PollFailedIsFinal ==
  [][\A j \in Jobs :
       record[j] = "poll failed" =>
         record'[j] \in {"poll failed", "removed"}]_vars

\* "It also keeps track of ongoing transfers": when the server listens every
\* transfer that has been polled, and that SciCat shows as transferring (002),
\* has a task, before and after a restart (runs with MaxFaults = 0).  It holds
\* if MissingIsFalse, and is violated otherwise.
RestartResumes ==
  up = "serving" =>
    \A j \in Jobs : record[j] = "transferring" => pc[j] \in InTask

-----------------------------------------------------------------------------
(* The abstract specification that the tracking implements. *)

\* The state of TransferJob that a state of the tracking stands for.
TransferOf(j) == IF globus[j] \in Moving THEN "moving" ELSE globus[j]

ToldBy(j) ==
  CASE record[j] = "absent" -> "nothing"
    [] record[j] \in {"created", "started", "transferring", "poll failed"} ->
         "open"
    [] record[j] \in {"finished", "not archivable"} -> "finished"
    [] OTHER -> record[j]

DatasetOf(j) ==
  CASE archived[j] = 0 /\ ~ready[j] -> "untouched"
    [] archived[j] = 0 /\ ready[j] -> "marked"
    [] archived[j] = 1 /\ ready[j] -> "archived"
    [] OTHER -> "archived out of order"

Job == INSTANCE TransferJob WITH
  transfer <- [j \in Jobs |-> TransferOf(j)],
  told <- [j \in Jobs |-> ToldBy(j)],
  dataset <- [j \in Jobs |-> DatasetOf(j)],
  wanted <- autoArchive

\* Whatever fails, is deleted or crashes, each step of the proxy is a step of
\* the abstract job or invisible to it: the end of a transfer is told once and
\* truly, and nobody takes it back; the dataset is marked and archived once,
\* behind that story.  (With MissingIsFalse a restart resumes jobs whose end
\* was told, and it does not hold.)
JobPromise == Job!Spec

=============================================================================
