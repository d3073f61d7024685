------------------------ MODULE ProxyTrackingProofs ------------------------
(***************************************************************************)
(* The calls to Globus and SciCat inside the whole proxy: what the proofs  *)
(* about TransferTracking show of tasks that always find a worker holds    *)
(* with the pool, its locks and any number of DELETEs for one job.         *)
(***************************************************************************)
EXTENDS ProxyProofs

TrackFacts == INSTANCE TransferFaultProofs WITH
  delete <- [j \in Jobs |-> IF Sending(j) THEN "cancel" ELSE "none"]

\* The tracking moves as TransferTracking says, or not at all.
TrackStep == [TrackFacts!Next]_(TrackFacts!vars)

-----------------------------------------------------------------------------
(* Each step of the proxy but the crash and those of a DELETE is a step of *)
(* TransferTracking.                                                       *)

\* A step that touches neither the calls nor the DELETEs.
LEMMA TrackIdle ==
  ASSUME UNCHANGED <<tracking, handler, target>>
  PROVE  TrackStep
BY DEF TrackStep, TrackFacts!vars, TrackFacts!local, TrackFacts!scicat,
       TrackFacts!budget, tracking, Sending

\* The POST and what the restore does with a job.
LEMMA RequestIsTrackStep ==
  ASSUME NEW j \in Jobs,
         \/ RefuseRequest(j) \/ SubmitTransfer(j) \/ RequestFails(j)
         \/ CreateRecord(j) \/ Submit(j) \/ SkipRecord(j)
  PROVE  TrackStep
<1>1. \/ Track!RefuseRequest(j) \/ Track!SubmitTransfer(j)
      \/ Track!SubmitFails(j) \/ Track!Compensate(j) \/ Track!CreateJob(j)
      \/ Track!CreateJobFails(j) \/ Track!StartRecord(j)
      \/ Track!StartRecordFails(j) \/ Track!AddTransferTask(j)
      \/ Track!RestoreJob(j)
  BY DEF RefuseRequest, SubmitTransfer, RequestFails, CreateRecord, Submit,
     SkipRecord
<1>2. CASE \/ Track!RefuseRequest(j) \/ Track!SubmitTransfer(j)
           \/ Track!SubmitFails(j) \/ Track!Compensate(j)
  <2>1. \/ TrackFacts!RefuseRequest(j) \/ TrackFacts!SubmitTransfer(j)
        \/ TrackFacts!SubmitFails(j) \/ TrackFacts!Compensate(j)
    BY <1>2 DEF Track!RefuseRequest, TrackFacts!RefuseRequest,
       Track!SubmitTransfer, TrackFacts!SubmitTransfer,
       Track!SubmitFails, TrackFacts!SubmitFails,
       Track!Compensate, TrackFacts!Compensate,
       Track!StopTransfer, TrackFacts!StopTransfer, Track!Moving,
       TrackFacts!Moving, Track!CallSucceeds, TrackFacts!CallSucceeds,
       Track!CallFails, TrackFacts!CallFails, Track!budget,
       TrackFacts!budget, Track!Go, TrackFacts!Go, Track!local,
       TrackFacts!local, Track!scicat, TrackFacts!scicat
  <2> QED
    BY <2>1 DEF TrackStep, TrackFacts!Next, TrackFacts!RequestStep
<1>3. CASE \/ Track!CreateJob(j) \/ Track!CreateJobFails(j)
           \/ Track!StartRecord(j) \/ Track!StartRecordFails(j)
  <2>1. \/ TrackFacts!CreateJob(j) \/ TrackFacts!CreateJobFails(j)
        \/ TrackFacts!StartRecord(j) \/ TrackFacts!StartRecordFails(j)
    BY <1>3 DEF Track!CreateJob, TrackFacts!CreateJob,
       Track!CreateJobFails, TrackFacts!CreateJobFails,
       Track!StartRecord, TrackFacts!StartRecord,
       Track!StartRecordFails, TrackFacts!StartRecordFails,
       Track!PatchFails, TrackFacts!PatchFails, Track!Patch,
       TrackFacts!Patch, Track!CallFails, TrackFacts!CallFails, Track!budget,
       TrackFacts!budget, Track!Go, TrackFacts!Go, Track!local,
       TrackFacts!local
  <2> QED
    BY <2>1 DEF TrackStep, TrackFacts!Next, TrackFacts!RequestStep
<1>4. CASE Track!AddTransferTask(j) \/ Track!RestoreJob(j)
  <2>1. TrackFacts!AddTransferTask(j) \/ TrackFacts!RestoreJob(j)
    BY <1>4 DEF Track!AddTransferTask, TrackFacts!AddTransferTask,
       Track!RestoreJob, TrackFacts!RestoreJob, Track!Go, TrackFacts!Go,
       Track!scicat, TrackFacts!scicat, Track!budget, TrackFacts!budget
  <2> QED
    BY <2>1 DEF TrackStep, TrackFacts!Next, TrackFacts!RequestStep
<1> QED
  BY <1>1, <1>2, <1>3, <1>4

\* The task, the process that starts and serves, and Globus.
LEMMA StartIsTrackStep ==
  ASSUME PoolInv, StartTask
  PROVE  TrackStep
<1>1. Head(queue) \in Jobs
  BY DEF PoolInv, PoolFacts!IInv, PoolFacts!TypeOK, StartTask
<1>2. TrackFacts!StartTask(Head(queue))
  BY DEF StartTask, Track!StartTask, TrackFacts!StartTask, Track!Go,
     TrackFacts!Go, Track!local, TrackFacts!local, Track!scicat,
     TrackFacts!scicat, Track!budget, TrackFacts!budget
<1> QED
  BY <1>1, <1>2 DEF TrackStep, TrackFacts!Next, TrackFacts!TaskStep

\* A poll and what it leads to.
LEMMA PollIsTrackStep ==
  ASSUME NEW j \in Jobs, Poll(j) \/ Report(j)
  PROVE  TrackStep
<1>1. CASE Poll(j)
  <2>1. TrackFacts!CheckTransfer(j) \/ TrackFacts!CheckTransferFails(j)
    BY <1>1 DEF Poll, Track!CheckTransfer, TrackFacts!CheckTransfer,
       Track!CheckTransferFails, TrackFacts!CheckTransferFails,
       Track!AskedToStop, TrackFacts!AskedToStop, Track!WhatGlobusSays,
       TrackFacts!WhatGlobusSays, Track!CallFails, TrackFacts!CallFails,
       Track!Go, TrackFacts!Go, Track!scicat, TrackFacts!scicat, Track!budget,
       TrackFacts!budget
  <2> QED
    BY <2>1 DEF TrackStep, TrackFacts!Next, TrackFacts!TaskStep
<1>2. CASE Report(j)
  <2>1. \/ TrackFacts!Report(j) \/ TrackFacts!ReportRefused(j)
        \/ TrackFacts!ReportFails(j)
    <3>1. Track!Report(j) \/ Track!ReportRefused(j) \/ Track!ReportFails(j)
      BY <1>2 DEF Report
    <3>2. Track!Status(j) = TrackFacts!Status(j)
      BY DEF Track!Status, TrackFacts!Status
    <3> QED
      BY <3>1, <3>2 DEF Track!Report, TrackFacts!Report, Track!ReportRefused,
         TrackFacts!ReportRefused, Track!ReportFails, TrackFacts!ReportFails,
         Track!PatchFails, TrackFacts!PatchFails, Track!Patch,
         TrackFacts!Patch, Track!CallFails, TrackFacts!CallFails, Track!Go,
         TrackFacts!Go, Track!local, TrackFacts!local, Track!scicat,
         TrackFacts!scicat, Track!budget, TrackFacts!budget
  <2> QED
    BY <2>1 DEF TrackStep, TrackFacts!Next, TrackFacts!TaskStep
<1> QED
  BY <1>1, <1>2

\* What a worker does with a task.
LEMMA WorkIsTrackStep ==
  ASSUME NEW j \in Jobs, Work(j)
  PROVE  TrackStep
<1> USE DEF Track!Go, TrackFacts!Go, Track!local, TrackFacts!local,
        Track!CallFails, TrackFacts!CallFails, Track!CallSucceeds,
        TrackFacts!CallSucceeds, Track!scicat, TrackFacts!scicat,
        Track!budget, TrackFacts!budget
<1>1. CASE \/ Track!MarkReady(j) \/ Track!MarkReadyFails(j)
           \/ Track!FinishWithoutToken(j) \/ Track!CreateArchivalJob(j)
  <2>1. \/ TrackFacts!MarkReady(j) \/ TrackFacts!MarkReadyFails(j)
        \/ TrackFacts!FinishWithoutToken(j) \/ TrackFacts!CreateArchivalJob(j)
    BY <1>1 DEF Track!MarkReady, TrackFacts!MarkReady,
       Track!MarkReadyFails, TrackFacts!MarkReadyFails,
       Track!FinishWithoutToken, TrackFacts!FinishWithoutToken,
       Track!CreateArchivalJob, TrackFacts!CreateArchivalJob,
       Track!Archived, TrackFacts!Archived
  <2> QED
    BY <2>1 DEF TrackStep, TrackFacts!Next, TrackFacts!TaskStep
<1>2. CASE Track!CancelTransfer(j) \/ Track!CancelTransferFails(j)
  <2>1. TrackFacts!CancelTransfer(j) \/ TrackFacts!CancelTransferFails(j)
    BY <1>2 DEF Track!CancelTransfer, TrackFacts!CancelTransfer,
       Track!CancelTransferFails, TrackFacts!CancelTransferFails,
       Track!StopTransfer, TrackFacts!StopTransfer, Track!Moving,
       TrackFacts!Moving
  <2> QED
    BY <2>1 DEF TrackStep, TrackFacts!Next, TrackFacts!TaskStep
<1>3. CASE Track!Explain(j) \/ Track!RecordCancel(j)
  <2>1. TrackFacts!Explain(j) \/ TrackFacts!RecordCancel(j)
    BY <1>3 DEF Track!Explain, TrackFacts!Explain, Track!RecordCancel,
       TrackFacts!RecordCancel, Track!CancelStatus, TrackFacts!CancelStatus,
       Track!TryPatch, TrackFacts!TryPatch, Track!PatchFails,
       TrackFacts!PatchFails, Track!Patch, TrackFacts!Patch
  <2> QED
    BY <2>1 DEF TrackStep, TrackFacts!Next, TrackFacts!TaskStep
<1> QED
  BY <1>1, <1>2, <1>3 DEF Work

\* The end of the restore, the restart, and the moves of Globus.
LEMMA ServeIsTrackStep ==
  ASSUME Serve \/ Restart \/ (\E j \in Jobs : Transfer(j))
  PROVE  TrackStep
<1>1. CASE Serve
  <2>1. TrackFacts!Serve
    BY <1>1 DEF Serve, Track!Serve, TrackFacts!Serve, Track!scicat,
       TrackFacts!scicat, Track!budget, TrackFacts!budget
  <2> QED
    BY <2>1 DEF TrackStep, TrackFacts!Next
<1>2. CASE Restart
  <2>1. TrackFacts!Restart
    BY <1>2 DEF Restart, Track!Restart, TrackFacts!Restart, Track!Unfinished,
       TrackFacts!Unfinished, Track!scicat, TrackFacts!scicat, Track!budget,
       TrackFacts!budget
  <2> QED
    BY <2>1 DEF TrackStep, TrackFacts!Next
<1>3. ASSUME NEW j \in Jobs, Transfer(j)
      PROVE  TrackStep
  <2>1. TrackFacts!Transfer(j)
    BY <1>3 DEF Transfer, Track!Transfer, TrackFacts!Transfer, Track!local,
       TrackFacts!local, Track!scicat, TrackFacts!scicat, Track!budget,
       TrackFacts!budget
  <2> QED
    BY <2>1 DEF TrackStep, TrackFacts!Next
<1> QED
  BY <1>1, <1>2, <1>3

\* The steps of a DELETE handler, which TransferTracking has in another form.
DeleteMove ==
  \E d \in Deletes :
    \/ RefuseDelete(d) \/ Lookup(d) \/ RemoveRecord(d)
    \/ \E j \in Jobs : RequestDelete(d, j) \/ HearCancel(j, d)

\* Every step of the proxy is one of TransferTracking, of a DELETE, or a crash.
LEMMA NextIsTrackStep ==
  ASSUME PoolInv, [Next]_vars
  PROVE  TrackStep \/ DeleteMove \/ Crash
<1>1. CASE UNCHANGED vars
  <2>1. UNCHANGED <<tracking, handler, target>>
    BY <1>1 DEF vars, tracking, deleting
  <2> QED
    BY <2>1, TrackIdle
<1>2. ASSUME NEW j \in Jobs,
             Admit(j) \/ BeginAdd(j) \/ WriteMap(j) \/ Cleanup(j)
      PROVE  TrackStep
  <2>1. UNCHANGED <<tracking, handler, target>>
    BY <1>2 DEF Admit, BeginAdd, WriteMap, Cleanup, deleting
  <2> QED
    BY <2>1, TrackIdle
<1>3. ASSUME NEW j \in Jobs, RefuseRequest(j) \/ AddStep(j)
      PROVE  TrackStep
  BY <1>2, <1>3, RequestIsTrackStep DEF AddStep
<1>4. ASSUME NEW j \in Jobs, TaskStep(j)
      PROVE  TrackStep \/ DeleteMove
  BY <1>4, PollIsTrackStep, WorkIsTrackStep DEF TaskStep, DeleteMove
<1>5. CASE \E d \in Deletes :
             \/ RefuseDelete(d) \/ Lookup(d) \/ RemoveRecord(d)
             \/ \E j \in Jobs : RequestDelete(d, j)
  BY <1>5 DEF DeleteMove
<1>6. CASE StartTask \/ Serve \/ Restart \/ (\E j \in Jobs : Transfer(j))
  BY <1>6, StartIsTrackStep, ServeIsTrackStep
<1> QED
  BY <1>1, <1>2, <1>3, <1>4, <1>5, <1>6 DEF Next

-----------------------------------------------------------------------------
(* What the steps of a DELETE do to the tracking. *)

\* A call, if there is one, may fail.
Calls ==
  \/ UNCHANGED <<faults, crashes>>
  \/ faults < MaxFaults /\ faults' = faults + 1 /\ crashes' = crashes

\* The requests and answers before anything is cancelled or removed.
Asking ==
  /\ UNCHANGED <<up, pc, seen, archive, unfinished, autoArchive, globus,
                 record, ready, archived>>
  /\ Calls

Hearing(j) ==
  /\ up # "down"
  /\ pc[j] = "loop" /\ pc' = [pc EXCEPT ![j] = "cancelling"]
  /\ UNCHANGED <<up, seen, archive, unfinished, autoArchive, globus, record,
                 ready, archived, faults, crashes>>

Removing(j) ==
  /\ up = "serving" /\ record[j] # "absent"
  /\ record' \in {record, [record EXCEPT ![j] = "removed"]}
  /\ MaxFaults = 0 => record'[j] = "removed"
  /\ UNCHANGED <<up, pc, seen, archive, unfinished, autoArchive, globus, ready,
                 archived>>
  /\ Calls

\* The job of a DELETE that has got past the API's checks exists in SciCat.
KnownJob(d) ==
  /\ handler[d] # "idle" =>
       target[d] \in Jobs /\ record[target[d]] # "absent"
  /\ answer[d] = "removing" => handler[d] # "idle"

DeleteInv ==
  /\ answer \in [Deletes -> Answer]
  /\ remove \in [Deletes -> BOOLEAN]
  /\ \A d \in Deletes : KnownJob(d)

TrackInv == TrackFacts!IInv

\* What the steps of a DELETE do to the tracking.
LEMMA DeleteEffect ==
  ASSUME PoolInv, TrackInv, DeleteInv, DeleteMove
  PROVE  Asking \/ (\E j \in Jobs : Hearing(j) \/ Removing(j))
<1>t. /\ record \in [Jobs -> TrackFacts!Record]
      /\ faults \in 0..MaxFaults
  BY DEF TrackInv, TrackFacts!IInv, TrackFacts!TypeOK
<1>1. ASSUME NEW d \in Deletes, NEW j \in Jobs,
             RefuseDelete(d) \/ Lookup(d) \/ RequestDelete(d, j)
      PROVE  Asking
  BY <1>1 DEF RefuseDelete, Lookup, RequestDelete, Asking, Calls, tracking,
     Track!CallFails
<1>2. ASSUME NEW d \in Deletes, RefuseDelete(d) \/ Lookup(d)
      PROVE  Asking
  BY <1>2 DEF RefuseDelete, Lookup, Asking, Calls, tracking, Track!CallFails
<1>3. ASSUME NEW d \in Deletes, NEW j \in Jobs, HearCancel(j, d)
      PROVE  Hearing(j)
  BY <1>3 DEF HearCancel, Hearing, Track!Go
<1>4. ASSUME NEW d \in Deletes, RemoveRecord(d)
      PROVE  target[d] \in Jobs /\ Removing(target[d])
  <2>1. target[d] \in Jobs /\ record[target[d]] # "absent"
    BY <1>4 DEF RemoveRecord, DeleteInv, KnownJob
  <2>2. Calls
    BY <1>4 DEF RemoveRecord, Calls, Track!PatchFails, Track!CallFails,
       Track!CallSucceeds, Track!budget
  <2>3. record' \in {record, [record EXCEPT ![target[d]] = "removed"]}
    BY <1>4 DEF RemoveRecord, Track!PatchFails, Track!Patch
  <2>4. MaxFaults = 0 => record'[target[d]] = "removed"
    BY <1>4, <1>t, <2>1 DEF RemoveRecord, Track!PatchFails, Track!Patch,
       Track!CallFails
  <2> QED
    BY <1>4, <2>1, <2>2, <2>3, <2>4 DEF RemoveRecord, Removing
<1> QED
  BY <1>1, <1>2, <1>3, <1>4 DEF DeleteMove

-----------------------------------------------------------------------------
(* The invariant of TransferTracking, and what the DELETEs know. *)

\* The constants of the proxy are as TransferTracking assumes them.
LEMMA TrackAssumed == TrackFacts!TrackingAssumption
BY ProxyAssumption DEF TrackFacts!TrackingAssumption

\* A record that exists goes on existing, if only as removed.
LEMMA RecordStays ==
  ASSUME PoolInv, TrackInv, DeleteInv, [Next]_vars,
         NEW k \in Jobs, record[k] # "absent"
  PROVE  record'[k] # "absent"
<1>t. record \in [Jobs -> TrackFacts!Record]
  BY DEF TrackInv, TrackFacts!IInv, TrackFacts!TypeOK
<1>1. CASE TrackStep
  BY <1>1, TrackAssumed, TrackFacts!RecordStays DEF TrackInv, TrackStep
<1>2. CASE DeleteMove
  BY <1>t, <1>2, DeleteEffect DEF Asking, Hearing, Removing
<1>3. CASE Crash
  BY <1>3 DEF Crash
<1> QED
  BY <1>1, <1>2, <1>3, NextIsTrackStep

\* A DELETE starts only for a job that SciCat finds, and names it until it is
\* answered or the process is down.
LEMMA NextDeleteInv ==
  ASSUME PoolInv, TrackInv, DeleteInv, [Next]_vars
  PROVE  DeleteInv'
<1> USE DEF DeleteInv, Answer
<1>t. /\ handler \in [Deletes -> PoolFacts!DeleteState]
      /\ target \in [Deletes -> Jobs \cup {None}]
  BY DEF PoolInv, PoolFacts!IInv, PoolFacts!TypeOK
<1>1. ASSUME UNCHANGED deleting
      PROVE  DeleteInv'
  BY <1>1, RecordStays DEF deleting, KnownJob
<1>2. ASSUME NEW d \in Deletes, RefuseDelete(d)
      PROVE  DeleteInv'
  BY <1>2, RecordStays DEF RefuseDelete, Reply, KnownJob
<1>3. ASSUME NEW d \in Deletes, NEW j \in Jobs, RequestDelete(d, j)
      PROVE  DeleteInv'
  <2>1. /\ answer[d] = "none" /\ record[j] # "absent"
        /\ handler' = [handler EXCEPT ![d] = "waiting"]
        /\ target' = [target EXCEPT ![d] = j]
        /\ answer' = answer /\ record' = record
        /\ remove' \in [Deletes -> BOOLEAN]
    BY <1>3 DEF RequestDelete, Track!Found, Pool!RequestCancel, tracking
  <2> QED
    BY <1>t, <2>1 DEF KnownJob
<1>4. ASSUME NEW d \in Deletes, Lookup(d)
      PROVE  DeleteInv'
  <2>1. /\ handler[d] = "waiting"
        /\ \E to \in {"sending", "unknown"} :
             handler' = [handler EXCEPT ![d] = to]
        /\ \E a \in {answer[d], "removing", "400"} :
             answer' = [answer EXCEPT ![d] = a]
        /\ UNCHANGED <<target, remove, record>>
    BY <1>4 DEF Lookup, Pool!LookupFound, Pool!LookupMissed, Cancelled, Reply,
       tracking
  <2> QED
    BY <1>t, <2>1 DEF KnownJob
<1>5. ASSUME NEW d \in Deletes, NEW j \in Jobs, HearCancel(j, d)
      PROVE  DeleteInv'
  <2>1. /\ handler[d] = "sending"
        /\ handler' = [handler EXCEPT ![d] = "sent"]
        /\ \E a \in {"removing", "200"} : answer' = [answer EXCEPT ![d] = a]
        /\ UNCHANGED <<target, remove, record>>
    BY <1>5 DEF HearCancel, Pool!SelectCancel, Cancelled, Reply
  <2> QED
    BY <1>t, <2>1 DEF KnownJob
<1>6. ASSUME NEW d \in Deletes, RemoveRecord(d)
      PROVE  DeleteInv'
  BY <1>6, RecordStays DEF RemoveRecord, Reply, KnownJob
<1>7. CASE Crash
  BY <1>7 DEF Crash, KnownJob
<1>8. ASSUME NEW j \in Jobs, RefuseRequest(j) \/ Admit(j) \/ AddStep(j)
                             \/ Cleanup(j) \/ Transfer(j)
      PROVE  UNCHANGED deleting
  <2> USE DEF deleting
  <2>1. CASE RefuseRequest(j) \/ Admit(j) \/ Cleanup(j) \/ Transfer(j)
    BY <2>1 DEF RefuseRequest, Admit, Cleanup, Transfer
  <2>2. CASE AddStep(j)
    BY <2>2 DEF AddStep, SubmitTransfer, RequestFails, CreateRecord, BeginAdd,
       WriteMap, Submit, SkipRecord
  <2> QED
    BY <1>8, <2>1, <2>2
<1>9. ASSUME NEW j \in Jobs, Poll(j) \/ Report(j) \/ Work(j)
      PROVE  UNCHANGED deleting
  BY <1>9 DEF Poll, Report, Work, deleting
<1>10. ASSUME StartTask \/ Restart \/ Serve \/ UNCHANGED vars
       PROVE  UNCHANGED deleting
  BY <1>10 DEF StartTask, Restart, Serve, vars, deleting
<1>11. ASSUME NEW j \in Jobs, TaskStep(j)
       PROVE  DeleteInv'
  BY <1>1, <1>5, <1>9, <1>11 DEF TaskStep
<1> QED
  BY <1>1, <1>2, <1>3, <1>4, <1>6, <1>7, <1>8, <1>10, <1>11 DEF Next

\* What the tracking sees of the DELETEs.
LEMMA DeleteView ==
  ASSUME DeleteInv'
  PROVE  /\ [j \in Jobs |-> IF Sending(j) THEN "cancel" ELSE "none"]'
              \in [Jobs -> TrackFacts!Deleting]
         /\ \A k \in Jobs : Sending(k)' => record'[k] # "absent"
BY DEF DeleteInv, KnownJob, Sending, TrackFacts!Deleting

\* A DELETE that arrives makes true nothing that the tracking relies on being
\* false.
LEMMA AskingKeepsTrackInv ==
  ASSUME TrackInv, DeleteInv', Asking
  PROVE  TrackInv'
<1>1. TrackFacts!TypeOK'
  BY DeleteView, ProxyAssumption DEF Asking, Calls, TrackInv, TrackFacts!IInv,
     TrackFacts!TypeOK
<1>2. ASSUME NEW k \in Jobs
      PROVE  TrackFacts!JobInv(k)'
  <2>1. TrackFacts!JobInv(k)
    BY <1>2 DEF TrackInv, TrackFacts!IInv
  <2> QED
    BY <2>1, DeleteView DEF Asking, TrackFacts!JobInv,
       TrackFacts!SubmittedFirst, TrackFacts!SeenIsTrue,
       TrackFacts!FinishingSucceeded, TrackFacts!TruthOf, TrackFacts!Ended
<1> QED
  BY <1>1, <1>2 DEF TrackInv, TrackFacts!IInv

\* The task that hears a cancel has not heard one before.
LEMMA HearingKeepsTrackInv ==
  ASSUME TrackInv, DeleteInv', NEW j \in Jobs, Hearing(j)
  PROVE  TrackInv'
<1>t. pc \in [Jobs -> TrackFacts!Progress]
  BY DEF TrackInv, TrackFacts!IInv, TrackFacts!TypeOK
<1>1. TrackFacts!TypeOK'
  BY <1>t, DeleteView DEF Hearing, TrackInv, TrackFacts!IInv,
     TrackFacts!TypeOK, TrackFacts!Progress, TrackFacts!InTask,
     TrackFacts!InRequest
<1>2. ASSUME NEW k \in Jobs
      PROVE  TrackFacts!JobInv(k)'
  <2>1. TrackFacts!JobInv(k)
    BY <1>2 DEF TrackInv, TrackFacts!IInv
  <2>2. pc'[k] = pc[k] \/ (pc[k] = "loop" /\ pc'[k] = "cancelling")
    BY <1>t DEF Hearing
  <2> QED
    BY <2>1, <2>2, DeleteView DEF Hearing, TrackFacts!JobInv,
       TrackFacts!SubmittedFirst, TrackFacts!SeenIsTrue,
       TrackFacts!FinishingSucceeded, TrackFacts!TruthOf, TrackFacts!Ended,
       TrackFacts!InTask, TrackFacts!InRequest
<1> QED
  BY <1>1, <1>2 DEF TrackInv, TrackFacts!IInv

\* The job of a DELETE exists, so that its POST is past "submitted".
LEMMA RemovingKeepsTrackInv ==
  ASSUME TrackInv, DeleteInv', NEW j \in Jobs, Removing(j)
  PROVE  TrackInv'
<1>t. record \in [Jobs -> TrackFacts!Record]
  BY DEF TrackInv, TrackFacts!IInv, TrackFacts!TypeOK
<1>1. TrackFacts!TypeOK'
  <2>1. record' \in [Jobs -> TrackFacts!Record]
    BY <1>t DEF Removing, TrackFacts!Record
  <2>2. faults' \in 0..MaxFaults /\ crashes' \in 0..MaxCrashes
    BY ProxyAssumption DEF Removing, Calls, TrackInv, TrackFacts!IInv,
       TrackFacts!TypeOK
  <2> QED
    BY <2>1, <2>2, DeleteView DEF Removing, TrackInv, TrackFacts!IInv,
       TrackFacts!TypeOK
<1>2. ASSUME NEW k \in Jobs
      PROVE  TrackFacts!JobInv(k)'
  <2>1. TrackFacts!JobInv(k)
    BY <1>2 DEF TrackInv, TrackFacts!IInv
  <2>2. \/ record'[k] = record[k]
        \/ record'[k] = "removed" /\ record[k] # "absent"
    BY <1>t DEF Removing
  <2> QED
    BY <2>1, <2>2, DeleteView DEF Removing, TrackFacts!JobInv,
       TrackFacts!SubmittedFirst, TrackFacts!SeenIsTrue,
       TrackFacts!FinishingSucceeded, TrackFacts!TruthOf, TrackFacts!Ended
<1> QED
  BY <1>1, <1>2 DEF TrackInv, TrackFacts!IInv

\* A crash takes the DELETEs with it.
LEMMA CrashKeepsTrackInv ==
  ASSUME TrackInv, DeleteInv', Crash
  PROVE  TrackInv'
<1>a. \A k \in Jobs :
        /\ pc'[k] \in {pc[k], "interrupted", "lost"}
        /\ pc'[k] \notin TrackFacts!InRequest \cup TrackFacts!InTask
  BY DEF Crash, Track!InRequest, Track!InTask, TrackFacts!InRequest,
     TrackFacts!InTask
<1>1. TrackFacts!TypeOK'
  <2>1. pc' \in [Jobs -> TrackFacts!Progress]
    BY <1>a DEF Crash, TrackInv, TrackFacts!IInv, TrackFacts!TypeOK,
       TrackFacts!Progress
  <2>2. seen' \in [Jobs -> TrackFacts!Seen] /\ up' \in TrackFacts!Up
    BY DEF Crash, TrackFacts!Seen, TrackFacts!Up
  <2> QED
    BY <1>a, <2>1, <2>2, DeleteView, ProxyAssumption DEF Crash, TrackInv,
       TrackFacts!IInv, TrackFacts!TypeOK
<1>2. ASSUME NEW k \in Jobs
      PROVE  TrackFacts!JobInv(k)'
  <2>1. TrackFacts!JobInv(k)
    BY <1>2 DEF TrackInv, TrackFacts!IInv
  <2>2. UNCHANGED <<globus, record, ready, archived>> /\ unfinished' = {}
    BY DEF Crash
  <2> QED
    BY <1>a, <2>1, <2>2, DeleteView DEF TrackFacts!JobInv,
       TrackFacts!SubmittedFirst, TrackFacts!SeenIsTrue,
       TrackFacts!FinishingSucceeded, TrackFacts!TruthOf, TrackFacts!Ended,
       TrackFacts!InRequest, TrackFacts!InTask
<1> QED
  BY <1>1, <1>2 DEF TrackInv, TrackFacts!IInv

\* Every step of the proxy preserves the invariant of TransferTracking.
LEMMA NextTrackInv ==
  ASSUME PoolInv, TrackInv, DeleteInv, [Next]_vars
  PROVE  TrackInv'
<1>0. DeleteInv'
  BY NextDeleteInv
<1>1. CASE TrackStep
  BY <1>1, TrackAssumed, TrackFacts!NextIInv DEF TrackStep, TrackInv
<1>2. CASE DeleteMove
  BY <1>0, <1>2, DeleteEffect, AskingKeepsTrackInv, HearingKeepsTrackInv,
     RemovingKeepsTrackInv
<1>3. CASE Crash
  BY <1>0, <1>3, CrashKeepsTrackInv
<1> QED
  BY <1>1, <1>2, <1>3, NextIsTrackStep

\* It holds at the first start.
LEMMA InitTrackInv == Init => TrackInv /\ DeleteInv
<1> SUFFICES ASSUME Init PROVE TrackInv /\ DeleteInv
  OBVIOUS
<1>1. \A j \in Jobs : ~Sending(j)
  BY DEF Init, Sending
<1>2. TrackFacts!Init
  <2>1. [j \in Jobs |-> IF Sending(j) THEN "cancel" ELSE "none"]
          = [j \in Jobs |-> "none"]
    BY <1>1
  <2> QED
    BY <2>1 DEF Init, Track!Init, TrackFacts!Init
<1>3. TrackInv
  BY <1>2, TrackAssumed, TrackFacts!InitIInv DEF TrackInv
<1>4. DeleteInv
  BY DEF Init, DeleteInv, KnownJob, Answer
<1> QED
  BY <1>3, <1>4

\* The pool, the calls and the DELETEs together.
ProxyInv == PoolInv /\ PoolGone /\ TrackInv /\ DeleteInv

\* Every step preserves the invariants of both components.
LEMMA NextProxyInv == ProxyInv /\ [Next]_vars => ProxyInv'
BY NextIsPoolStep, MoveKeepsInv, CrashKeepsInv, RestartKeepsInv,
   NextTrackInv, NextDeleteInv DEF ProxyInv

\* In every life of the process the invariants of the pool and of the tracking
\* hold together, and a DELETE is about a job that SciCat knows or knew.
THEOREM ProxyInvariant == Spec => []ProxyInv
<1>1. Init => ProxyInv
  BY InitPoolInv, InitTrackInv DEF Init, PoolGone, ProxyInv
<1> QED
  BY <1>1, NextProxyInv, PTL DEF Spec

\* SciCat says "finished" only of a transfer that succeeded and "cancelled"
\* only of one that has stopped, with overlapping POSTs, any number of DELETEs
\* for one job, failing calls, crashes and restores.
THEOREM ProxyRecordTruthful == Spec => []RecordIsTruthful
<1>1. ProxyInv => RecordIsTruthful
  BY DEF ProxyInv, TrackInv, TrackFacts!IInv, TrackFacts!JobInv,
     TrackFacts!TruthOf, TrackFacts!Ended, RecordIsTruthful,
     Track!RecordIsTruthful
<1> QED
  BY <1>1, ProxyInvariant, PTL

-----------------------------------------------------------------------------
(* Where a request, a restored job or a task is in the pool and where it is *)
(* among its calls agree.                                                   *)

\* A POST holds its place in the pool from its first call to its last.
RequestAgrees(j) ==
  /\ pc[j] = "idle" => adder[j] \in {"idle", "admitted"}
  /\ adder[j] = "admitted" => pc[j] \in {"idle"} \cup Track!InRequest
  /\ pc[j] \in {"submitted", "created", "compensating"} => adder[j] = "admitted"
  /\ pc[j] = "started" => adder[j] \in {"admitted", "writing", "submitting"}
  /\ up # "serving" => pc[j] \notin Track!InRequest

\* The restore loop adds the jobs of its list that name a transfer.
RestoreAgrees(j) ==
  /\ adder[j] = "unfinished" => j \in unfinished
  /\ adder[j] \in {"writing", "submitting"} =>
       pc[j] = "started" \/ j \in unfinished
  /\ j \in unfinished =>
       /\ pc[j] \notin Track!InTask
       /\ IF record[j] = "started"
          THEN adder[j] = "idle"
          ELSE adder[j] \in {"unfinished", "writing", "submitting"}

TaskAgrees(j) ==
  /\ task[j] = "queued" <=> pc[j] = "queued"
  /\ task[j] = "loop" <=> pc[j] = "loop"
  /\ task[j] = "polling" <=> pc[j] = "reporting"
  /\ task[j] = "finishing" <=>
       pc[j] \in {"finishing", "explaining", "archiving"}
  /\ task[j] = "cancelling" <=> pc[j] \in {"cancelling", "recording"}
  /\ task[j] \in {"cleanup", "done"} => pc[j] = "ended"

Agrees(j) == RequestAgrees(j) /\ RestoreAgrees(j) /\ TaskAgrees(j)

\* What Agrees(k) reads is unchanged.
AsBefore(k) ==
  /\ up' = up
  /\ pc'[k] = pc[k] /\ adder'[k] = adder[k] /\ task'[k] = task[k]
  /\ k \in unfinished' <=> k \in unfinished
  /\ k \in unfinished => record'[k] = record[k]

\* What Agrees(k) reads is as before.
LEMMA AsBeforeAgrees ==
  ASSUME NEW k \in Jobs, Agrees(k), AsBefore(k)
  PROVE  Agrees(k)'
BY DEF Agrees, AsBefore, RequestAgrees, RestoreAgrees, TaskAgrees,
   Track!InRequest, Track!InTask

\* What the invariants say that the agreement rests on.
LEMMA Places ==
  ASSUME ProxyInv
  PROVE  /\ pc \in [Jobs -> TrackFacts!Progress]
         /\ record \in [Jobs -> TrackFacts!Record]
         /\ adder \in [Jobs -> PoolFacts!AdderState]
         /\ task \in [Jobs -> PoolFacts!TaskState]
         /\ up # "restoring" => unfinished = {}
         /\ up \in {"down", "restoring", "serving"}
         /\ \A j \in Jobs :
              /\ task[j] # "none" <=> adder[j] = "accepted"
              /\ j \in unfinished => record[j] # "absent"
              /\ pc[j] \in {"idle", "submitted"} => record[j] = "absent"
              /\ up = "down" =>
                   /\ pc[j] \notin Track!InRequest \cup Track!InTask
                   /\ task[j] = "none"
              /\ up # "serving" => adder[j] # "admitted"
BY DEF ProxyInv, PoolGone, PoolInv, PoolFacts!IInv, PoolFacts!TypeOK,
   PoolFacts!TaskAfterSubmit, PoolFacts!OneAdder, TrackInv, TrackFacts!IInv,
   TrackFacts!TypeOK, TrackFacts!Up, TrackFacts!JobInv,
   TrackFacts!SubmittedFirst, TrackFacts!InRequest, TrackFacts!InTask,
   Track!InRequest, Track!InTask

AllAgree == ProxyInv /\ \A j \in Jobs : Agrees(j)

\* A step about one job leaves the others in agreement.
LEMMA OthersAgree ==
  ASSUME AllAgree, NEW j \in Jobs, Agrees(j)',
         \A k \in Jobs \ {j} : AsBefore(k)
  PROVE  \A k \in Jobs : Agrees(k)'
BY AsBeforeAgrees DEF AllAgree

\* The POST, up to the answer of its last call.
LEMMA RequestKeepsAgrees ==
  ASSUME AllAgree, NEW j \in Jobs,
         \/ RefuseRequest(j) \/ Admit(j) \/ SubmitTransfer(j)
         \/ RequestFails(j) \/ CreateRecord(j)
  PROVE  \A k \in Jobs : Agrees(k)'
<1>a. ProxyInv /\ Agrees(j)
  BY DEF AllAgree
<1> USE Places, <1>a DEF Agrees, RequestAgrees, RestoreAgrees, TaskAgrees,
        Track!InRequest, Track!InTask
<1>1. CASE RefuseRequest(j)
  <2>1. /\ up = "serving" /\ pc[j] = "idle" /\ adder[j] = "idle"
        /\ pc' = [pc EXCEPT ![j] = "rejected"]
        /\ adder' = adder \/ adder' = [adder EXCEPT ![j] = "refused"]
        /\ UNCHANGED <<up, record, unfinished, task>>
    BY <1>1 DEF RefuseRequest, Track!RefuseRequest, Track!Go, Track!local,
       Track!scicat, Pool!Refuse, pooling
  <2>2. Agrees(j)'
    BY <2>1
  <2>3. \A k \in Jobs \ {j} : AsBefore(k)
    BY <2>1 DEF AsBefore
  <2> QED
    BY <2>2, <2>3, OthersAgree
<1>2. CASE Admit(j)
  <2>1. /\ up = "serving" /\ pc[j] = "idle"
        /\ adder' = [adder EXCEPT ![j] = "admitted"]
        /\ UNCHANGED <<up, pc, record, unfinished, task>>
    BY <1>2 DEF Admit, Pool!Admit, tracking
  <2>2. Agrees(j)'
    BY <2>1
  <2>3. \A k \in Jobs \ {j} : AsBefore(k)
    BY <2>1 DEF AsBefore
  <2> QED
    BY <2>2, <2>3, OthersAgree
<1>3. CASE SubmitTransfer(j)
  <2>1. /\ up = "serving" /\ pc[j] = "idle" /\ adder[j] = "admitted"
        /\ pc' = [pc EXCEPT ![j] = "submitted"]
        /\ UNCHANGED <<up, record, unfinished, adder, task>>
    BY <1>3 DEF SubmitTransfer, Track!SubmitTransfer, Track!Go, Track!local,
       Track!scicat, pooling
  <2>2. Agrees(j)'
    BY <2>1
  <2>3. \A k \in Jobs \ {j} : AsBefore(k)
    BY <2>1 DEF AsBefore
  <2> QED
    BY <2>2, <2>3, OthersAgree
<1>4. CASE RequestFails(j)
  <2>1. /\ pc[j] \in {"idle", "compensating"} /\ adder[j] = "admitted"
        /\ \E to \in {"rejected", "failed"} : pc' = [pc EXCEPT ![j] = to]
        /\ adder' = [adder EXCEPT ![j] = "failed"]
        /\ UNCHANGED <<up, record, unfinished, task>>
    BY <1>4 DEF RequestFails, Track!SubmitFails, Track!Compensate, Track!Go,
       Track!local, Track!scicat, Pool!RequestFails
  <2>2. Agrees(j)'
    BY <2>1
  <2>3. \A k \in Jobs \ {j} : AsBefore(k)
    BY <2>1 DEF AsBefore
  <2> QED
    BY <2>2, <2>3, OthersAgree
<1>5. CASE CreateRecord(j)
  <2>1. /\ pc[j] \in {"submitted", "created"}
        /\ \E to \in {"created", "started", "compensating"} :
             pc' = [pc EXCEPT ![j] = to]
        /\ \E to \in TrackFacts!Record : record' = [record EXCEPT ![j] = to]
        /\ UNCHANGED <<up, unfinished, adder, task>>
    <3>1. CASE Track!CreateJob(j) \/ Track!CreateJobFails(j)
      BY <1>5, <3>1 DEF CreateRecord, Track!CreateJob, Track!CreateJobFails,
         Track!Go, Track!local, pooling, TrackFacts!Record
    <3>2. CASE Track!StartRecord(j) \/ Track!StartRecordFails(j)
      <4>1. \/ record' = [record EXCEPT ![j] = record[j]]
            \/ record' = [record EXCEPT ![j] = "started"]
        BY <3>2 DEF Track!StartRecord, Track!StartRecordFails,
           Track!PatchFails, Track!Patch
      <4> QED
        BY <1>5, <3>2, <4>1 DEF CreateRecord, Track!StartRecord,
           Track!StartRecordFails, Track!Go, Track!local, pooling,
           TrackFacts!Record
    <3> QED
      BY <1>5, <3>1, <3>2 DEF CreateRecord
  <2>2. Agrees(j)'
    BY <2>1
  <2>3. \A k \in Jobs \ {j} : AsBefore(k)
    BY <2>1 DEF AsBefore
  <2> QED
    BY <2>2, <2>3, OthersAgree
<1> QED
  BY <1>1, <1>2, <1>3, <1>4, <1>5

\* AddTransferTask, and the restore loop.
LEMMA AddKeepsAgrees ==
  ASSUME AllAgree, NEW j \in Jobs,
         BeginAdd(j) \/ WriteMap(j) \/ Submit(j) \/ SkipRecord(j)
  PROVE  \A k \in Jobs : Agrees(k)'
<1>a. ProxyInv /\ Agrees(j)
  BY DEF AllAgree
<1> USE Places, <1>a DEF Agrees, RequestAgrees, RestoreAgrees, TaskAgrees,
        Track!InRequest, Track!InTask
<1>1. CASE BeginAdd(j) \/ WriteMap(j)
  <2>1. /\ \/ pc[j] = "started" /\ adder[j] = "admitted"
           \/ adder[j] \in {"unfinished", "writing"}
        /\ \E to \in {"writing", "submitting"} :
             adder' = [adder EXCEPT ![j] = to]
        /\ UNCHANGED <<up, pc, record, unfinished, task>>
    BY <1>1 DEF BeginAdd, WriteMap, Pool!AddFromRequest, Pool!AddFromRestore,
       Pool!WriteMap, tracking
  <2>2. Agrees(j)'
    BY <2>1
  <2>3. \A k \in Jobs \ {j} : AsBefore(k)
    BY <2>1 DEF AsBefore
  <2> QED
    BY <2>2, <2>3, OthersAgree
<1>2. CASE Submit(j)
  <2>1. /\ adder[j] = "submitting"
        /\ adder' = [adder EXCEPT ![j] = "accepted"]
        /\ task' = [task EXCEPT ![j] = "queued"]
    BY <1>2 DEF Submit, Pool!Submit
  <2>2. /\ pc' = [pc EXCEPT ![j] = "queued"]
        /\ unfinished' = unfinished \ {j}
        /\ UNCHANGED <<up, record>>
    <3>1. CASE Track!AddTransferTask(j)
      <4>1. pc[j] = "started" /\ UNCHANGED <<up, record, unfinished>>
        BY <3>1 DEF Track!AddTransferTask, Track!Go, Track!scicat
      <4>2. unfinished = {}
        BY <4>1
      <4> QED
        BY <3>1, <4>1, <4>2 DEF Track!AddTransferTask, Track!Go
    <3>2. CASE Track!RestoreJob(j)
      <4>1. j \in unfinished
        BY <3>2 DEF Track!RestoreJob
      <4> QED
        BY <2>1, <3>2, <4>1 DEF Track!RestoreJob, Track!scicat
    <3> QED
      BY <1>2, <3>1, <3>2 DEF Submit
  <2>3. Agrees(j)'
    BY <2>1, <2>2
  <2>4. \A k \in Jobs \ {j} : AsBefore(k)
    BY <2>1, <2>2 DEF AsBefore
  <2> QED
    BY <2>3, <2>4, OthersAgree
<1>3. CASE SkipRecord(j)
  <2>1. /\ adder[j] = "idle" /\ j \in unfinished
        /\ unfinished' = unfinished \ {j}
        /\ UNCHANGED <<up, pc, record, adder, task>>
    BY <1>3 DEF SkipRecord, Track!RestoreJob, Track!scicat, pooling
  <2>2. Agrees(j)'
    BY <2>1
  <2>3. \A k \in Jobs \ {j} : AsBefore(k)
    BY <2>1 DEF AsBefore
  <2> QED
    BY <2>2, <2>3, OthersAgree
<1> QED
  BY <1>1, <1>2, <1>3

\* execute: the pool's step and the call's step are one.
LEMMA TaskKeepsAgrees ==
  ASSUME AllAgree, NEW j \in Jobs, TaskStep(j) \/ Cleanup(j) \/ Transfer(j)
  PROVE  \A k \in Jobs : Agrees(k)'
<1>a. ProxyInv /\ Agrees(j)
  BY DEF AllAgree
<1> USE Places, <1>a DEF Agrees, RequestAgrees, RestoreAgrees, TaskAgrees,
        Track!InRequest, Track!InTask
<1>1. ASSUME NEW d \in Deletes, HearCancel(j, d)
      PROVE  \A k \in Jobs : Agrees(k)'
  <2>1. /\ pc[j] = "loop" /\ task[j] = "loop"
        /\ pc' = [pc EXCEPT ![j] = "cancelling"]
        /\ task' = [task EXCEPT ![j] = "cancelling"]
        /\ UNCHANGED <<up, record, unfinished, adder>>
    BY <1>1 DEF HearCancel, Track!Go, Pool!SelectCancel
  <2>2. Agrees(j)'
    BY <2>1
  <2>3. \A k \in Jobs \ {j} : AsBefore(k)
    BY <2>1 DEF AsBefore
  <2> QED
    BY <2>2, <2>3, OthersAgree
<1>2. CASE Poll(j)
  <2>1. /\ pc[j] = "loop" /\ task[j] = "loop"
        /\ pc' = [pc EXCEPT ![j] = "reporting"]
        /\ task' = [task EXCEPT ![j] = "polling"]
        /\ UNCHANGED <<up, record, unfinished, adder>>
    BY <1>2 DEF Poll, Track!CheckTransfer, Track!CheckTransferFails, Track!Go,
       Track!scicat, Pool!SelectDefault
  <2>2. Agrees(j)'
    BY <2>1
  <2>3. \A k \in Jobs \ {j} : AsBefore(k)
    BY <2>1 DEF AsBefore
  <2> QED
    BY <2>2, <2>3, OthersAgree
<1>3. CASE Report(j)
  <2>1. /\ pc[j] = "reporting"
        /\ \E to \in {"loop", "finishing", "ended"} :
             pc' = [pc EXCEPT ![j] = to]
        /\ \E to : record' = [record EXCEPT ![j] = to]
        /\ UNCHANGED <<up, unfinished>>
    <3>1. CASE Track!Report(j) \/ Track!ReportRefused(j)
      <4>1. \E to : record' = [record EXCEPT ![j] = to]
        <5>1. \/ record' = [record EXCEPT ![j] = record[j]]
              \/ record' = [record EXCEPT ![j] = Track!Status(j)]
          BY <3>1 DEF Track!Report, Track!ReportRefused, Track!Patch,
             Track!scicat
        <5> QED
          BY <5>1
      <4> QED
        BY <3>1, <4>1 DEF Track!Report, Track!ReportRefused, Track!Go,
           Track!local
    <3>2. CASE Track!ReportFails(j)
      <4>1. \E to : record' = [record EXCEPT ![j] = to]
        <5>1. \/ record' = [record EXCEPT ![j] = record[j]]
              \/ record' = [record EXCEPT ![j] = Track!Status(j)]
          BY <3>2 DEF Track!ReportFails, Track!PatchFails, Track!Patch
        <5> QED
          BY <5>1
      <4> QED
        BY <3>2, <4>1 DEF Track!ReportFails, Track!Go, Track!local
    <3> QED
      BY <1>3, <3>1, <3>2 DEF Report
  <2>2. /\ task[j] = "polling" /\ adder' = adder
        /\ CASE pc'[j] = "loop" -> task' = [task EXCEPT ![j] = "loop"]
             [] pc'[j] = "finishing" ->
                  task' = [task EXCEPT ![j] = "finishing"]
             [] OTHER -> task' = [task EXCEPT ![j] = "cleanup"]
    BY <1>3, <2>1 DEF Report, Pool!PollAgain, Pool!PollEnds
  <2>3. Agrees(j)'
    BY <2>1, <2>2
  <2>4. \A k \in Jobs \ {j} : AsBefore(k)
    BY <2>1, <2>2 DEF AsBefore
  <2> QED
    BY <2>3, <2>4, OthersAgree
<1>4. CASE Work(j)
  <2>1. /\ \/ /\ pc[j] \in {"finishing", "explaining", "archiving"}
              /\ \E to \in {"explaining", "archiving", "ended"} :
                   pc' = [pc EXCEPT ![j] = to]
           \/ /\ pc[j] \in {"cancelling", "recording"}
              /\ \E to \in {"recording", "ended"} : pc' = [pc EXCEPT ![j] = to]
        /\ UNCHANGED <<up, unfinished>>
    BY <1>4 DEF Work, Track!MarkReady, Track!MarkReadyFails,
       Track!FinishWithoutToken, Track!Explain, Track!CreateArchivalJob,
       Track!CancelTransfer, Track!CancelTransferFails, Track!RecordCancel,
       Track!Go, Track!local
  <2>2. \A k \in Jobs \ {j} : record'[k] = record[k]
    <3>1. CASE Track!Explain(j) \/ Track!RecordCancel(j)
      BY <3>1 DEF Track!Explain, Track!RecordCancel, Track!TryPatch,
         Track!PatchFails, Track!Patch
    <3>2. CASE ~(Track!Explain(j) \/ Track!RecordCancel(j))
      BY <1>4, <3>2 DEF Work, Track!MarkReady, Track!MarkReadyFails,
         Track!FinishWithoutToken, Track!CreateArchivalJob,
         Track!CancelTransfer, Track!CancelTransferFails, Track!scicat
    <3> QED
      BY <3>1, <3>2
  <2>3. /\ adder' = adder
        /\ IF pc'[j] = "ended" THEN task' = [task EXCEPT ![j] = "cleanup"]
                               ELSE task' = task
    BY <1>4 DEF Work, Pool!WorkDone, pooling
  <2>4. Agrees(j)'
    BY <2>1, <2>3
  <2>5. \A k \in Jobs \ {j} : AsBefore(k)
    BY <2>1, <2>2, <2>3 DEF AsBefore
  <2> QED
    BY <2>4, <2>5, OthersAgree
<1>5. CASE Cleanup(j)
  <2>1. /\ task[j] = "cleanup"
        /\ task' = [task EXCEPT ![j] = "done"]
        /\ UNCHANGED <<up, pc, record, unfinished, adder>>
    BY <1>5 DEF Cleanup, Pool!Cleanup, tracking
  <2>2. Agrees(j)'
    BY <2>1
  <2>3. \A k \in Jobs \ {j} : AsBefore(k)
    BY <2>1 DEF AsBefore
  <2> QED
    BY <2>2, <2>3, OthersAgree
<1>6. CASE Transfer(j)
  <2>1. UNCHANGED <<up, pc, record, unfinished, adder, task>>
    BY <1>6 DEF Transfer, Track!Transfer, Track!local, Track!scicat, pooling
  <2> QED
    BY <2>1, AsBeforeAgrees DEF AsBefore, AllAgree
<1> QED
  BY <1>1, <1>2, <1>3, <1>4, <1>5, <1>6 DEF TaskStep

\* A free worker takes the next task, which starts its calls.
LEMMA StartKeepsAgrees ==
  ASSUME AllAgree, StartTask
  PROVE  \A k \in Jobs : Agrees(k)'
<1>a. PICK j \in Jobs : j = Head(queue)
  BY DEF AllAgree, ProxyInv, PoolInv, PoolFacts!IInv, PoolFacts!TypeOK,
     StartTask
<1>b. ProxyInv /\ Agrees(j)
  BY <1>a DEF AllAgree
<1>1. /\ pc[j] = "queued"
      /\ pc' = [pc EXCEPT ![j] = "loop"]
      /\ task' = [task EXCEPT ![j] = "loop"]
      /\ UNCHANGED <<up, record, unfinished, adder>>
  BY <1>a DEF StartTask, Track!StartTask, Track!Go, Track!local, Track!scicat,
     Pool!StartTask
<1>2. Agrees(j)'
  BY <1>a, <1>b, <1>1, Places DEF Agrees, RequestAgrees, RestoreAgrees,
     TaskAgrees, Track!InRequest, Track!InTask
<1>3. \A k \in Jobs \ {j} : AsBefore(k)
  BY <1>b, <1>1, Places DEF AsBefore
<1> QED
  BY <1>a, <1>2, <1>3, OthersAgree

\* The DELETEs, which remove records only while the server listens; the crash;
\* the restart, which decides what is to be added; the end of the restore.
LEMMA ProcessKeepsAgrees ==
  ASSUME AllAgree, NEW k \in Jobs,
         \/ Crash \/ Restart \/ Serve
         \/ \E d \in Deletes :
              \/ RefuseDelete(d) \/ Lookup(d) \/ RemoveRecord(d)
              \/ \E j \in Jobs : RequestDelete(d, j)
  PROVE  Agrees(k)'
<1>a. ProxyInv /\ Agrees(k)
  BY DEF AllAgree
<1>1. CASE Crash
  <2>1. /\ up' = "down" /\ unfinished' = {}
        /\ adder'[k] = "idle" /\ task'[k] = "none"
        /\ pc'[k] \notin Track!InRequest \cup Track!InTask
    BY <1>1 DEF Crash, Track!InRequest, Track!InTask
  <2> QED
    BY <2>1 DEF Agrees, RequestAgrees, RestoreAgrees, TaskAgrees,
       Track!InRequest, Track!InTask
<1>2. CASE Restart
  <2>1. /\ up = "down" /\ UNCHANGED <<pc, record, task>>
        /\ adder'[k] = IF k \in unfinished' /\ record[k] # "started"
                       THEN "unfinished" ELSE "idle"
        /\ k \in unfinished' => record[k] # "absent"
    BY <1>2 DEF Restart, Track!Restart, Track!Unfinished, Track!scicat
  <2>2. /\ pc[k] \notin Track!InRequest \cup Track!InTask
        /\ task[k] = "none"
        /\ pc[k] = "idle" => record[k] = "absent"
    BY <1>a, <2>1, Places
  <2> QED
    BY <2>1, <2>2 DEF Agrees, RequestAgrees, RestoreAgrees, TaskAgrees,
       Track!InRequest, Track!InTask
<1>3. CASE Serve
  <2>1. /\ up' = "serving" /\ UNCHANGED <<pc, record, unfinished>>
        /\ UNCHANGED <<adder, task>>
    BY <1>3 DEF Serve, Track!Serve, Track!scicat, Pool!Serve
  <2> QED
    BY <1>a, <2>1 DEF Agrees, RequestAgrees, RestoreAgrees, TaskAgrees,
       Track!InRequest, Track!InTask
<1>4. ASSUME NEW d \in Deletes,
             \/ RefuseDelete(d) \/ Lookup(d) \/ RemoveRecord(d)
             \/ \E j \in Jobs : RequestDelete(d, j)
      PROVE  Agrees(k)'
  <2>1. /\ UNCHANGED <<up, pc, unfinished, adder, task>>
        /\ record' = record \/ up = "serving"
    BY <1>4 DEF RefuseDelete, Lookup, RemoveRecord, RequestDelete, tracking,
       pooling, Pool!LookupFound, Pool!LookupMissed, Pool!RequestCancel
  <2>2. k \in unfinished => up # "serving"
    BY <1>a, Places
  <2> QED
    BY <1>a, <2>1, <2>2, AsBeforeAgrees DEF AsBefore
<1> QED
  BY <1>1, <1>2, <1>3, <1>4

\* Every step preserves the agreement.
LEMMA NextAgrees ==
  ASSUME AllAgree, [Next]_vars
  PROVE  \A k \in Jobs : Agrees(k)'
<1>1. ASSUME NEW j \in Jobs,
             \/ RefuseRequest(j) \/ Admit(j) \/ AddStep(j)
             \/ TaskStep(j) \/ Cleanup(j) \/ Transfer(j)
      PROVE  \A k \in Jobs : Agrees(k)'
  BY <1>1, RequestKeepsAgrees, AddKeepsAgrees, TaskKeepsAgrees DEF AddStep
<1>2. CASE UNCHANGED vars
  BY <1>2, AsBeforeAgrees DEF AllAgree, AsBefore, vars, tracking, pooling
<1> QED
  BY <1>1, <1>2, StartKeepsAgrees, ProcessKeepsAgrees DEF Next

\* In every life of the process the requests, the restored jobs and the tasks
\* are at the same place in the pool and among their calls.
THEOREM ProxyAgreement == Spec => []AllAgree
<1>1. Init => AllAgree
  <2> SUFFICES ASSUME Init PROVE AllAgree
    OBVIOUS
  <2>1. ProxyInv
    BY InitPoolInv, InitTrackInv DEF Init, PoolGone, ProxyInv
  <2>2. \A k \in Jobs : Agrees(k)
    BY DEF Init, Track!Init, Agrees, RequestAgrees, RestoreAgrees, TaskAgrees,
       Track!InRequest, Track!InTask
  <2> QED
    BY <2>1, <2>2 DEF AllAgree
<1>2. AllAgree /\ [Next]_vars => AllAgree'
  BY NextAgrees, NextProxyInv DEF AllAgree
<1> QED
  BY <1>1, <1>2, PTL DEF Spec

\* The types of the pool and of the DELETEs, and the agreement of each task
\* with its calls.
THEOREM ProxyTypeCorrect == Spec => []TypeOK
<1>1. AllAgree => TypeOK
  <2> SUFFICES ASSUME AllAgree PROVE TypeOK
    OBVIOUS
  <2>1. Pool!TypeOK
    BY DEF AllAgree, ProxyInv, PoolInv, PoolFacts!IInv, PoolFacts!TypeOK,
       Pool!TypeOK, PoolFacts!AdderState, Pool!AdderState,
       PoolFacts!TaskState, Pool!TaskState, PoolFacts!DeleteState,
       Pool!DeleteState, PoolFacts!Adding, Pool!Adding, PoolFacts!OnWorker,
       Pool!OnWorker
  <2> QED
    BY <2>1 DEF AllAgree, ProxyInv, DeleteInv, Agrees, TaskAgrees, TypeOK
<1> QED
  BY <1>1, ProxyAgreement, PTL

-----------------------------------------------------------------------------
(* Somebody is in charge of every transfer that moves. *)

AllInCharge == ProxyInv /\ \A j \in Jobs : TrackFacts!InCharge(j)

\* The steps of a DELETE leave nobody's transfer unattended but by removing the
\* record.
LEMMA DeleteKeepsInCharge ==
  ASSUME AllInCharge, NEW k \in Jobs,
         \/ Crash \/ Asking
         \/ \E j \in Jobs : Hearing(j) \/ Removing(j)
  PROVE  TrackFacts!InCharge(k)'
<1>t. /\ pc \in [Jobs -> TrackFacts!Progress]
      /\ record \in [Jobs -> TrackFacts!Record]
      /\ faults \in Nat /\ crashes \in Nat
      /\ TrackFacts!InCharge(k)
  BY ProxyAssumption DEF AllInCharge, ProxyInv, TrackInv, TrackFacts!IInv,
     TrackFacts!TypeOK
<1> USE <1>t DEF TrackFacts!InCharge, TrackFacts!InRequest, TrackFacts!InTask
<1>1. CASE Crash
  <2>1. /\ crashes' # 0 /\ UNCHANGED <<globus, record>>
        /\ pc'[k] \in {pc[k], "interrupted", "lost"}
        /\ pc'[k] \notin Track!InRequest \cup Track!InTask
    BY <1>1 DEF Crash, Track!InRequest, Track!InTask
  <2> QED
    BY <2>1 DEF Track!InRequest, Track!InTask
<1>2. CASE Asking
  <2>1. /\ UNCHANGED <<pc, globus, record, crashes>>
        /\ faults # 0 => faults' # 0
    BY <1>2 DEF Asking, Calls
  <2> QED
    BY <2>1
<1>3. ASSUME NEW j \in Jobs, Hearing(j)
      PROVE  TrackFacts!InCharge(k)'
  <2>1. /\ pc'[k] = pc[k] \/ (pc[k] = "loop" /\ pc'[k] = "cancelling")
        /\ UNCHANGED <<globus, record, faults, crashes>>
    BY <1>3 DEF Hearing
  <2> QED
    BY <2>1
<1>4. ASSUME NEW j \in Jobs, Removing(j)
      PROVE  TrackFacts!InCharge(k)'
  <2>1. /\ record'[k] \in {record[k], "removed"}
        /\ UNCHANGED <<pc, globus, crashes>>
        /\ faults # 0 => faults' # 0
    BY <1>4 DEF Removing, Calls
  <2> QED
    BY <2>1
<1> QED
  BY <1>1, <1>2, <1>3, <1>4

\* Every step of the proxy keeps somebody in charge.
LEMMA NextInCharge ==
  ASSUME AllInCharge, [Next]_vars
  PROVE  \A k \in Jobs : TrackFacts!InCharge(k)'
<1>0. PoolInv /\ TrackInv /\ DeleteInv
  BY DEF AllInCharge, ProxyInv
<1>1. CASE TrackStep
  BY <1>0, <1>1, TrackAssumed, TrackFacts!NextInCharge DEF AllInCharge,
     TrackInv, TrackStep
<1>2. CASE DeleteMove
  BY <1>0, <1>2, DeleteEffect, DeleteKeepsInCharge
<1>3. CASE Crash
  BY <1>3, DeleteKeepsInCharge
<1> QED
  BY <1>0, <1>1, <1>2, <1>3, NextIsTrackStep

\* A transfer that moves in Globus has a POST or a task in charge of it unless
\* a call failed, the process crashed or its job was removed, however many
\* POSTs and DELETEs overlap.
THEOREM ProxyAbandonsNone == Spec => []NobodyAbandons
<1>1. Init => AllInCharge
  <2>1. Init => \A j \in Jobs : TrackFacts!InCharge(j)
    BY DEF Init, Track!Init, TrackFacts!InCharge, TrackFacts!Moving
  <2> QED
    BY <2>1, InitPoolInv, InitTrackInv DEF Init, PoolGone, ProxyInv,
       AllInCharge
<1>2. AllInCharge /\ [Next]_vars => AllInCharge'
  BY NextInCharge, NextProxyInv DEF AllInCharge
<1>3. AllInCharge => NobodyAbandons
  BY ProxyAssumption DEF AllInCharge, ProxyInv, TrackInv, TrackFacts!IInv,
     TrackFacts!TypeOK, TrackFacts!InCharge, TrackFacts!Moving,
     TrackFacts!InRequest, TrackFacts!InTask, NobodyAbandons, Track!Moving,
     Track!InRequest, Track!InTask
<1> QED
  BY <1>1, <1>2, <1>3, PTL DEF Spec

-----------------------------------------------------------------------------
(* No call fails: what SciCat shows as transferring can be cancelled. *)

AllTold == AllAgree /\ \A j \in Jobs : TrackFacts!Reliable(j)

\* The steps of a DELETE keep what the records say.
LEMMA DeleteKeepsReliable ==
  ASSUME MaxFaults = 0, AllTold, NEW k \in Jobs,
         \/ Crash \/ Asking
         \/ \E j \in Jobs : Hearing(j) \/ Removing(j)
  PROVE  TrackFacts!Reliable(k)'
<1>t. /\ pc \in [Jobs -> TrackFacts!Progress]
      /\ record \in [Jobs -> TrackFacts!Record]
      /\ TrackFacts!Reliable(k)
  BY DEF AllTold, AllAgree, ProxyInv, TrackInv, TrackFacts!IInv,
     TrackFacts!TypeOK
<1> USE <1>t DEF TrackFacts!Reliable, TrackFacts!InTask, TrackFacts!EndCodes
<1>1. CASE Crash
  <2>1. /\ up' = "down" /\ record' = record
        /\ pc'[k] \in {pc[k], "interrupted", "lost"}
    BY <1>1 DEF Crash
  <2> QED
    BY <2>1
<1>2. CASE Asking
  BY <1>2 DEF Asking
<1>3. ASSUME NEW j \in Jobs, Hearing(j)
      PROVE  TrackFacts!Reliable(k)'
  <2>1. /\ pc'[k] = pc[k] \/ (pc[k] = "loop" /\ pc'[k] = "cancelling")
        /\ UNCHANGED <<up, record, unfinished>>
    BY <1>3 DEF Hearing
  <2> QED
    BY <2>1
<1>4. ASSUME NEW j \in Jobs, Removing(j)
      PROVE  TrackFacts!Reliable(k)'
  <2>1. /\ record'[k] \in {record[k], "removed"}
        /\ UNCHANGED <<up, pc, unfinished>>
    BY <1>4 DEF Removing
  <2> QED
    BY <2>1
<1> QED
  BY <1>1, <1>2, <1>3, <1>4

\* Every step of the proxy keeps what the records say.
LEMMA NextReliable ==
  ASSUME MaxFaults = 0, AllTold, [Next]_vars
  PROVE  \A k \in Jobs : TrackFacts!Reliable(k)'
<1>0. PoolInv /\ TrackInv /\ DeleteInv
  BY DEF AllTold, AllAgree, ProxyInv
<1>1. CASE TrackStep
  <2>1. TrackFacts!AllReliable
    BY <1>0 DEF AllTold, TrackInv, TrackFacts!AllReliable
  <2> QED
    BY <1>1, <2>1, TrackAssumed, TrackFacts!NextReliable DEF TrackStep
<1>2. CASE DeleteMove
  BY <1>0, <1>2, DeleteEffect, DeleteKeepsReliable
<1>3. CASE Crash
  BY <1>3, DeleteKeepsReliable
<1> QED
  BY <1>0, <1>1, <1>2, <1>3, NextIsTrackStep

\* Where no call fails, what a task knows its record says, in the whole proxy.
THEOREM ProxyReliable == ASSUME MaxFaults = 0 PROVE Spec => []AllTold
<1>1. Init => AllTold
  <2> SUFFICES ASSUME Init PROVE AllTold
    OBVIOUS
  <2>1. \A j \in Jobs : TrackFacts!Reliable(j)
    BY DEF Init, Track!Init, TrackFacts!Reliable
  <2>2. \A j \in Jobs : Agrees(j)
    BY DEF Init, Track!Init, Agrees, RequestAgrees, RestoreAgrees, TaskAgrees,
       Track!InRequest, Track!InTask
  <2> QED
    BY <2>1, <2>2, InitPoolInv, InitTrackInv DEF Init, PoolGone, ProxyInv,
       AllAgree, AllTold
<1>2. AllTold /\ [Next]_vars => AllTold'
  BY NextReliable, NextAgrees, NextProxyInv DEF AllTold, AllAgree
<1> QED
  BY <1>1, <1>2, PTL DEF Spec

\* Where no call fails and a missing `completed` counts as false, a DELETE for
\* a transfer that SciCat shows as transferring finds its cancel channel, in
\* every life of the process; only a record 001 may be without one, while its
\* POST has yet to add the task and for ever once that is lost in a crash.
THEOREM ProxyShownCancellable ==
  ASSUME MaxFaults = 0, MissingIsFalse
  PROVE  Spec => []ShownIsCancellable
<1>1. AllTold => ShownIsCancellable
  <2> SUFFICES ASSUME AllTold, up = "serving", NEW j \in Jobs,
                      ShownTransferring(j), ~TaskToCome(j), ~TaskLost(j)
               PROVE  j \in cancelTask
    BY DEF ShownIsCancellable
  <2>1. pc[j] \in TrackFacts!InTask
    <3>1. TrackFacts!Reliable(j) /\ (up = "serving" => unfinished = {})
      BY DEF AllTold, AllAgree, ProxyInv, TrackInv, TrackFacts!IInv,
         TrackFacts!TypeOK
    <3> QED
      BY <3>1 DEF ShownTransferring, TaskToCome, TaskLost, TrackFacts!Reliable
  <2>2. task[j] \in {"queued"} \cup PoolFacts!OnWorker
    BY <2>1 DEF AllTold, AllAgree, Agrees, TaskAgrees, TrackFacts!InTask,
       PoolFacts!OnWorker
  <2> QED
    BY <2>2 DEF AllTold, AllAgree, ProxyInv, PoolInv, PoolFacts!IInv,
       PoolFacts!MapMatchesTasks
<1> QED
  BY <1>1, ProxyReliable, PTL

\* In the whole proxy too a task that has ended has told SciCat how.
THEOREM ProxyEndedRecorded ==
  ASSUME MaxFaults = 0
  PROVE  Spec => []Track!EndedIsRecorded
<1>1. AllTold => Track!EndedIsRecorded
  BY DEF AllTold, TrackFacts!Reliable, Track!EndedIsRecorded,
     TrackFacts!EndCodes
<1> QED
  BY <1>1, ProxyReliable, PTL

-----------------------------------------------------------------------------
(* One call fails: a POST that fails leaves no transfer that moves. *)

AllCompensated == ProxyInv /\ \A j \in Jobs : TrackFacts!Compensated(j)

\* Every step of the proxy keeps failed POSTs compensated.
LEMMA NextCompensated ==
  ASSUME MaxFaults <= 1, AllCompensated, [Next]_vars
  PROVE  \A k \in Jobs : TrackFacts!Compensated(k)'
<1>0. PoolInv /\ TrackInv /\ DeleteInv
  BY DEF AllCompensated, ProxyInv
<1>1. CASE TrackStep
  <2>1. TrackFacts!AllCompensated
    BY <1>0 DEF AllCompensated, TrackInv, TrackFacts!AllCompensated
  <2> QED
    BY <1>1, <2>1, TrackAssumed, TrackFacts!NextCompensated DEF TrackStep
<1>2. ASSUME NEW k \in Jobs, Crash \/ DeleteMove
      PROVE  TrackFacts!Compensated(k)'
  <2>t. /\ pc \in [Jobs -> TrackFacts!Progress]
        /\ record \in [Jobs -> TrackFacts!Record]
        /\ faults \in Nat
        /\ TrackFacts!Compensated(k)
    BY <1>2, ProxyAssumption DEF AllCompensated, ProxyInv, TrackInv,
       TrackFacts!IInv, TrackFacts!TypeOK
  <2>1. /\ pc'[k] \in {pc[k], "interrupted", "lost", "cancelling"}
        /\ record'[k] \in {record[k], "removed"}
        /\ faults # 0 => faults' # 0
        /\ globus' = globus
    <3>1. CASE Crash
      BY <1>2, <2>t, <3>1 DEF Crash
    <3>2. CASE Asking
      BY <2>t, <3>2 DEF Asking, Calls
    <3>3. ASSUME NEW j \in Jobs, Hearing(j) \/ Removing(j)
          PROVE  <2>1!1 /\ <2>1!2 /\ <2>1!3 /\ <2>1!4
      BY <1>2, <2>t, <3>3 DEF Hearing, Removing, Calls
    <3> QED
      BY <1>0, <1>2, <3>1, <3>2, <3>3, DeleteEffect
  <2> QED
    BY <2>t, <2>1 DEF TrackFacts!Compensated
<1> QED
  BY <1>0, <1>1, <1>2, NextIsTrackStep

\* In the whole proxy too a POST that fails because one call failed leaves no
\* transfer that moves.
THEOREM ProxyFailedPost ==
  ASSUME MaxFaults <= 1
  PROVE  Spec => []Track!FailedPostLeavesNoTransfer
<1>1. Init => AllCompensated
  <2>1. Init => \A j \in Jobs : TrackFacts!Compensated(j)
    BY DEF Init, Track!Init, TrackFacts!Compensated
  <2> QED
    BY <2>1, InitPoolInv, InitTrackInv DEF Init, PoolGone, ProxyInv,
       AllCompensated
<1>2. AllCompensated /\ [Next]_vars => AllCompensated'
  BY NextCompensated, NextProxyInv DEF AllCompensated
<1>3. AllCompensated => Track!FailedPostLeavesNoTransfer
  BY DEF AllCompensated, TrackFacts!Compensated, TrackFacts!Moving,
     Track!FailedPostLeavesNoTransfer, Track!Moving
<1> QED
  BY <1>1, <1>2, <1>3, PTL DEF Spec

-----------------------------------------------------------------------------
(* No job is resumed: the promise of TransferJob. *)

NothingResumed == ~MissingIsFalse \/ MaxCrashes = 0

AllStory ==
  /\ ProxyInv
  /\ MaxCrashes = 0 => up # "down"
  /\ \A j \in Jobs : TrackFacts!StoryInv(j)

\* The steps of a DELETE keep the story of each job.
LEMMA DeleteKeepsStory ==
  ASSUME AllStory, NEW k \in Jobs,
         \/ Crash \/ Asking
         \/ \E j \in Jobs : Hearing(j) \/ Removing(j)
  PROVE  TrackFacts!StoryInv(k)'
<1>t. /\ pc \in [Jobs -> TrackFacts!Progress]
      /\ record \in [Jobs -> TrackFacts!Record]
      /\ TrackFacts!StoryInv(k)
  BY DEF AllStory, ProxyInv, TrackInv, TrackFacts!IInv, TrackFacts!TypeOK
<1> USE <1>t DEF TrackFacts!StoryInv, TrackFacts!RecordFits,
        TrackFacts!AfterMark, TrackFacts!AfterArchive
<1>1. CASE Crash
  <2>1. /\ UNCHANGED <<globus, record, ready, archived, autoArchive>>
        /\ unfinished' = {} /\ archive'[k] = FALSE
        /\ \/ pc'[k] = pc[k] /\ pc[k] \notin Track!InRequest \cup Track!InTask
           \/ pc'[k] = "interrupted" /\ pc[k] \in Track!InRequest
           \/ pc'[k] = "lost" /\ pc[k] \in Track!InTask
    BY <1>1 DEF Crash, Track!InRequest, Track!InTask
  <2>2. TrackFacts!RecordFits(k) => TrackFacts!RecordFits(k)'
    <3>1. CASE pc'[k] = pc[k]
      BY <2>1, <3>1
    <3>2. CASE pc'[k] \in {"interrupted", "lost"}
      BY <3>2
    <3> QED
      BY <2>1, <3>1, <3>2
  <2>3. /\ pc'[k] = "idle" => pc[k] = "idle"
        /\ pc[k] \in TrackFacts!AfterMark => pc'[k] \in TrackFacts!AfterMark
        /\ pc[k] \in TrackFacts!AfterArchive =>
             pc'[k] \in TrackFacts!AfterArchive
    BY <2>1 DEF Track!InRequest, Track!InTask
  <2> HIDE DEF TrackFacts!RecordFits, TrackFacts!AfterMark,
           TrackFacts!AfterArchive
  <2> QED
    BY <2>1, <2>2, <2>3
<1>2. CASE Asking
  BY <1>2 DEF Asking
<1>3. ASSUME NEW j \in Jobs, Hearing(j)
      PROVE  TrackFacts!StoryInv(k)'
  <2>1. /\ pc'[k] = pc[k] \/ (pc[k] = "loop" /\ pc'[k] = "cancelling")
        /\ UNCHANGED <<unfinished, globus, record, ready, archived, archive,
                       autoArchive>>
    BY <1>3 DEF Hearing
  <2> QED
    BY <2>1
<1>4. ASSUME NEW j \in Jobs, Removing(j)
      PROVE  TrackFacts!StoryInv(k)'
  <2>1. /\ record'[k] \in {record[k], "removed"}
        /\ UNCHANGED <<pc, unfinished, globus, ready, archived, archive,
                       autoArchive>>
    BY <1>4 DEF Removing
  <2> QED
    BY <2>1
<1> QED
  BY <1>1, <1>2, <1>3, <1>4

\* Every step of the proxy keeps the story of each job.
LEMMA NextAllStory ==
  ASSUME NothingResumed, AllStory, [Next]_vars
  PROVE  AllStory'
<1>0. PoolInv /\ TrackInv /\ DeleteInv
  BY DEF AllStory, ProxyInv
<1>1. CASE TrackStep
  <2>1. TrackFacts!AllKnown /\ TrackFacts!NeverDown /\ TrackFacts!TypeOK
    BY <1>0 DEF AllStory, TrackInv, TrackFacts!AllKnown, TrackFacts!NeverDown,
       TrackFacts!IInv
  <2>2. ~MissingIsFalse \/ up # "down"
    BY DEF AllStory, NothingResumed
  <2>3. \A k \in Jobs : TrackFacts!StoryInv(k)'
    BY <1>1, <2>1, <2>2, TrackAssumed, TrackFacts!NextStory DEF TrackStep
  <2>4. TrackFacts!NeverDown'
    BY <1>1, <2>1, TrackAssumed, TrackFacts!NextNeverDown DEF TrackStep
  <2> QED
    BY <2>3, <2>4, NextProxyInv DEF AllStory, TrackFacts!NeverDown
<1>2. CASE DeleteMove
  <2>1. \A k \in Jobs : TrackFacts!StoryInv(k)'
    BY <1>0, <1>2, DeleteEffect, DeleteKeepsStory
  <2>2. up' = up
    BY <1>0, <1>2, DeleteEffect DEF Asking, Hearing, Removing
  <2> QED
    BY <2>1, <2>2, NextProxyInv DEF AllStory
<1>3. CASE Crash
  <2>1. \A k \in Jobs : TrackFacts!StoryInv(k)'
    BY <1>3, DeleteKeepsStory
  <2>2. MaxCrashes # 0
    BY <1>0, <1>3 DEF Crash, TrackInv, TrackFacts!IInv, TrackFacts!TypeOK
  <2> QED
    BY <2>1, <2>2, NextProxyInv DEF AllStory
<1> QED
  BY <1>0, <1>1, <1>2, <1>3, NextIsTrackStep

\* A DELETE moves the abstract job only when it removes the record.
LEMMA DeleteIsJobStep ==
  ASSUME AllStory,
         \/ Crash \/ Asking
         \/ \E j \in Jobs : Hearing(j) \/ Removing(j)
  PROVE  [TrackFacts!Job!Next]_(TrackFacts!Job!vars)
<1>t. record \in [Jobs -> TrackFacts!Record]
  BY DEF AllStory, ProxyInv, TrackInv, TrackFacts!IInv, TrackFacts!TypeOK
<1>1. CASE UNCHANGED <<globus, record, ready, archived, autoArchive>>
  <2>1. \A k \in Jobs : TrackFacts!SameAll(k)
    BY <1>1, TrackAssumed, TrackFacts!Unmoved DEF TrackFacts!SameAll
  <2>2. UNCHANGED TrackFacts!Job!vars
    BY <1>1, <2>1 DEF TrackFacts!SameAll, TrackFacts!SameTransfer,
       TrackFacts!SameTold, TrackFacts!SameDataset, TrackFacts!Job!vars
  <2> QED
    BY <2>2
<1>2. ASSUME NEW j \in Jobs, Removing(j)
      PROVE  [TrackFacts!Job!Next]_(TrackFacts!Job!vars)
  <2>1. /\ UNCHANGED <<globus, ready, archived, autoArchive>>
        /\ record[j] # "absent" /\ record'[j] \in {record[j], "removed"}
        /\ \A k \in Jobs \ {j} : record'[k] = record[k]
    BY <1>t, <1>2 DEF Removing
  <2>2. TrackFacts!Moves(j)
    <3>1. TrackFacts!RecordMoves(j)
      BY <1>t, <2>1 DEF TrackFacts!RecordMoves
    <3> QED
      BY <2>1, <3>1, TrackAssumed, TrackFacts!RecordStep
  <2>3. \A k \in Jobs \ {j} : TrackFacts!SameAll(k)
    BY <2>1, TrackAssumed, TrackFacts!Unmoved DEF TrackFacts!SameAll
  <2> QED
    BY <2>1, <2>2, <2>3, TrackAssumed, TrackFacts!MovesIsJobStep
<1> QED
  BY <1>1, <1>2 DEF Crash, Asking, Hearing

\* A step of the proxy changes at most one promise, as TransferJob allows.
LEMMA NextIsJobStep ==
  ASSUME AllStory, [Next]_vars
  PROVE  [TrackFacts!Job!Next]_(TrackFacts!Job!vars)
<1>0. PoolInv /\ TrackInv /\ DeleteInv
  BY DEF AllStory, ProxyInv
<1>1. CASE TrackStep
  <2>1. TrackFacts!AllKnown
    BY <1>0 DEF AllStory, TrackInv, TrackFacts!AllKnown
  <2> QED
    BY <1>1, <2>1, TrackAssumed, TrackFacts!JobNext DEF TrackStep
<1>2. CASE DeleteMove \/ Crash
  BY <1>0, <1>2, DeleteEffect, DeleteIsJobStep
<1> QED
  BY <1>0, <1>1, <1>2, NextIsTrackStep

\* The job that the proxy promises is the one that the tracking tells of.
LEMMA NextIsPromised ==
  ASSUME AllStory, [Next]_vars
  PROVE  [Track!Job!Next]_(Track!Job!vars)
<1>1. \A k : /\ Track!TransferOf(k) = TrackFacts!TransferOf(k)
             /\ Track!ToldBy(k) = TrackFacts!ToldBy(k)
             /\ Track!DatasetOf(k) = TrackFacts!DatasetOf(k)
  BY DEF Track!TransferOf, TrackFacts!TransferOf, Track!Moving,
     TrackFacts!Moving, Track!ToldBy, TrackFacts!ToldBy, Track!DatasetOf,
     TrackFacts!DatasetOf
<1>2. \A k : /\ Track!TransferOf(k)' = TrackFacts!TransferOf(k)'
             /\ Track!ToldBy(k)' = TrackFacts!ToldBy(k)'
             /\ Track!DatasetOf(k)' = TrackFacts!DatasetOf(k)'
  BY DEF Track!TransferOf, TrackFacts!TransferOf, Track!Moving,
     TrackFacts!Moving, Track!ToldBy, TrackFacts!ToldBy, Track!DatasetOf,
     TrackFacts!DatasetOf
<1>3. \A j \in Jobs :
        /\ TrackFacts!Job!Begin(j) => Track!Job!Begin(j)
        /\ TrackFacts!Job!End(j) => Track!Job!End(j)
        /\ TrackFacts!Job!Open(j) => Track!Job!Open(j)
        /\ TrackFacts!Job!TellEnd(j) => Track!Job!TellEnd(j)
        /\ TrackFacts!Job!Remove(j) => Track!Job!Remove(j)
        /\ TrackFacts!Job!Mark(j) => Track!Job!Mark(j)
        /\ TrackFacts!Job!Archive(j) => Track!Job!Archive(j)
  BY <1>1, <1>2 DEF TrackFacts!Job!Begin, Track!Job!Begin,
     TrackFacts!Job!End, Track!Job!End, TrackFacts!Job!Over, Track!Job!Over,
     TrackFacts!Job!Open, Track!Job!Open, TrackFacts!Job!TellEnd,
     Track!Job!TellEnd, TrackFacts!Job!Ending, Track!Job!Ending,
     TrackFacts!Job!Remove, Track!Job!Remove, TrackFacts!Job!Mark,
     Track!Job!Mark, TrackFacts!Job!Archive, Track!Job!Archive
<1>4. UNCHANGED TrackFacts!Job!vars => UNCHANGED Track!Job!vars
  BY <1>1, <1>2 DEF TrackFacts!Job!vars, Track!Job!vars
<1> QED
  BY <1>3, <1>4, NextIsJobStep DEF Track!Job!Next, TrackFacts!Job!Next

\* In the whole proxy too what SciCat was told, what the task knows and what
\* became of the dataset fit together, as long as no job is resumed.
THEOREM ProxyStory == ASSUME NothingResumed PROVE Spec => []AllStory
<1>1. Init => AllStory
  <2> SUFFICES ASSUME Init PROVE AllStory
    OBVIOUS
  <2>1. \A j \in Jobs : TrackFacts!StoryInv(j)
    BY DEF Init, Track!Init, TrackFacts!StoryInv, TrackFacts!RecordFits
  <2> QED
    BY <2>1, InitPoolInv, InitTrackInv DEF Init, PoolGone, ProxyInv, AllStory
<1> QED
  BY <1>1, NextAllStory, PTL DEF Spec

\* The whole proxy keeps the promise of TransferJob, whatever calls fail and
\* however many DELETEs meet in one transfer, as long as no job is resumed.
THEOREM ProxyImplementsJob ==
  ASSUME NothingResumed
  PROVE  Spec => JobPromise
<1>1. Init => Track!Job!Init
  <2> SUFFICES ASSUME Init PROVE Track!Job!Init
    OBVIOUS
  <2>1. \A j \in Jobs : /\ Track!TransferOf(j) = "none"
                        /\ Track!ToldBy(j) = "nothing"
                        /\ Track!DatasetOf(j) = "untouched"
    BY DEF Init, Track!Init, Track!TransferOf, Track!Moving, Track!ToldBy,
       Track!DatasetOf
  <2> QED
    BY <2>1 DEF Init, Track!Init, Track!Job!Init
<1> QED
  BY <1>1, NextIsPromised, ProxyStory, PTL DEF Spec, JobPromise,
     Track!JobPromise, Track!Job!Spec

=============================================================================
