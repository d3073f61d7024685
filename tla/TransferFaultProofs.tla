------------------------- MODULE TransferFaultProofs -------------------------
(***************************************************************************)
(* What the tracking achieves as long as few calls fail: with none, a task *)
(* ends only after SciCat was told how, and a restart that finds its jobs  *)
(* resumes them; with one, a POST that fails leaves no transfer behind.    *)
(* With any number, a transfer is left without a POST or a task in charge  *)
(* of it only by a failed call, a crash or the removal of its job.         *)
(***************************************************************************)
EXTENDS TransferJobProofs

-----------------------------------------------------------------------------
(* No call fails. *)

EndCodes == {"finished", "cancelled", "not cancelled", "poll failed",
             "removed"}

\* A task gets to finishTask, and to its end, behind its last record; what the
\* record shows as transferring has a task or is about to be restored, and with
\* code 001 its task may be yet to come, or lost in a crash.
Reliable(j) ==
  /\ pc[j] # "explaining"
  /\ pc[j] \in {"finishing", "archiving"} => record[j] \in {"finished", "removed"}
  /\ pc[j] = "ended" => record[j] \in EndCodes
  /\ MissingIsFalse /\ up # "down" /\ record[j] = "transferring" =>
       pc[j] \in InTask \/ j \in unfinished
  /\ record[j] = "started" =>
       pc[j] \in InTask \cup {"started", "interrupted", "lost"}

AllReliable == IInv /\ \A j \in Jobs : Reliable(j)

\* What Reliable(k) reads is unchanged.
LEMMA SameKeepsReliable ==
  \A k \in Jobs :
    (/\ Reliable(k)
     /\ UNCHANGED <<up, unfinished>>
     /\ pc'[k] = pc[k] /\ record'[k] = record[k]) => Reliable(k)'
BY DEF Reliable

\* Where no call may fail, none does.
LEMMA NoFault ==
  ASSUME MaxFaults = 0, TypeOK
  PROVE  ~CallFails
BY DEF TypeOK, CallFails

\* A PATCH that is sent takes effect.
LEMMA PatchLands ==
  ASSUME MaxFaults = 0, TypeOK, NEW j \in Jobs, NEW to, TryPatch(j, to)
  PROVE  record'[j] = IF record[j] = "removed" THEN "removed" ELSE to
BY NoFault DEF TryPatch, PatchFails, Patch, TypeOK

\* The step of a process keeps what its own record says.
LEMMA StepKeepsReliable ==
  ASSUME MaxFaults = 0, TypeOK, NEW j \in Jobs, JobInv(j), Reliable(j), StepOf(j)
  PROVE  Reliable(j)'
<1>0. up' = up /\ unfinished' = unfinished /\ ~CallFails
  BY StepKeepsUp, OthersSame, NoFault
<1> USE DEF TypeOK, Reliable, InTask, EndCodes, Go
<1>1. CASE RefuseRequest(j) \/ SubmitTransfer(j)
  BY <1>0, <1>1 DEF RefuseRequest, SubmitTransfer, JobInv, SubmittedFirst,
     scicat
<1>2. CASE CreateJob(j)
  BY <1>0, <1>2 DEF CreateJob
<1>3. CASE StartRecord(j) \/ StartRecordFails(j)
  BY <1>0, <1>3 DEF StartRecord, StartRecordFails, Patch, PatchFails
<1>4. CASE Compensate(j) \/ AddTransferTask(j)
  BY <1>0, <1>4 DEF Compensate, AddTransferTask, scicat
<1>5. CASE StartTask(j) \/ HearCancel(j) \/ CheckTransfer(j)
  BY <1>0, <1>5 DEF StartTask, HearCancel, CheckTransfer, scicat
<1>6. CASE Report(j) \/ ReportRefused(j)
  <2>1. CASE Report(j)
    <3>1. record'[j] # "started"
      BY <2>1 DEF Report, Patch, Status
    <3> QED
      BY <1>0, <2>1, <3>1 DEF Report, Patch, Status
  <2>2. CASE ReportRefused(j)
    BY <1>0, <2>2 DEF ReportRefused, scicat
  <2> QED
    BY <1>6, <2>1, <2>2
<1>7. CASE MarkReady(j) \/ CreateArchivalJob(j)
  <2>1. /\ record' = record /\ pc'[j] \in {"archiving", "ended"}
        /\ pc[j] \in {"finishing", "archiving"}
    BY <1>7 DEF MarkReady, CreateArchivalJob
  <2>2. record[j] \in {"finished", "removed"}
    BY <2>1
  <2> QED
    BY <1>0, <2>1, <2>2
<1>8. CASE CancelTransfer(j)
  BY <1>0, <1>8 DEF CancelTransfer, scicat
<1>9. CASE RecordCancel(j)
  <2>1. record'[j] \in {"cancelled", "not cancelled", "removed"}
    BY <1>9, PatchLands DEF RecordCancel, CancelStatus
  <2> QED
    BY <1>0, <1>9, <2>1 DEF RecordCancel
<1>10. CASE RequestDelete(j)
  BY <1>0, <1>10 DEF RequestDelete, scicat
<1>11. CASE RemoveRecord(j)
  <2>1. record'[j] = "removed" /\ pc' = pc
    BY <1>11, PatchLands DEF RemoveRecord
  <2> QED
    BY <1>0, <2>1
<1>12. CASE Transfer(j)
  BY <1>0, <1>12 DEF Transfer, scicat
<1>13. CASE \/ SubmitFails(j) \/ CreateJobFails(j) \/ CheckTransferFails(j)
            \/ ReportFails(j) \/ MarkReadyFails(j) \/ FinishWithoutToken(j)
            \/ CancelTransferFails(j) \/ Explain(j)
  BY <1>0, <1>13 DEF SubmitFails, CreateJobFails, CheckTransferFails,
     ReportFails, PatchFails, MarkReadyFails, FinishWithoutToken,
     CancelTransferFails, Explain
<1> QED
  BY <1>1, <1>2, <1>3, <1>4, <1>5, <1>6, <1>7, <1>8, <1>9, <1>10, <1>11,
     <1>12, <1>13
     DEF StepOf, RequestStep, TaskStep

\* A restart finds everything that is shown as transferring, and a restore that
\* passes over a job or ends has left nothing of that kind behind.
LEMMA ProcessKeepsReliable ==
  ASSUME TypeOK, NEW k \in Jobs, Reliable(k),
         Crash \/ Restart \/ Serve \/ (\E j \in Jobs : RestoreJob(j))
  PROVE  Reliable(k)'
<1> USE DEF TypeOK, Reliable, InTask, scicat
<1>1. CASE Crash
  <2>1. /\ up' = "down" /\ record' = record
        /\ pc'[k] = pc[k] \/ pc'[k] \in {"interrupted", "lost"}
    BY <1>1 DEF Crash
  <2> QED
    BY <2>1
<1>2. CASE Restart
  <2>1. /\ UNCHANGED <<pc, record>>
        /\ MissingIsFalse /\ record[k] = "transferring" => k \in unfinished'
    BY <1>2 DEF Restart, Unfinished
  <2> QED
    BY <2>1
<1>3. CASE Serve
  BY <1>3 DEF Serve
<1>4. ASSUME NEW j \in Jobs, RestoreJob(j)
      PROVE  Reliable(k)'
  <2>1. UNCHANGED <<up, record>> /\ unfinished' = unfinished \ {j}
    BY <1>4 DEF RestoreJob
  <2>2. CASE k # j
    <3>1. pc'[k] = pc[k] /\ (k \in unfinished => k \in unfinished')
      BY <1>4, <2>1, <2>2 DEF RestoreJob
    <3> QED
      BY <2>1, <3>1
  <2>3. CASE k = j
    BY <1>4, <2>1, <2>3 DEF RestoreJob
  <2> QED
    BY <2>2, <2>3
<1> QED
  BY <1>1, <1>2, <1>3, <1>4

\* Every step preserves what the records say.
LEMMA NextReliable ==
  ASSUME MaxFaults = 0, AllReliable, [Next]_vars
  PROVE  \A k \in Jobs : Reliable(k)'
<1>1. ASSUME NEW j \in Jobs, StepOf(j)
      PROVE  \A k \in Jobs : Reliable(k)'
  <2>1. Reliable(j)'
    BY <1>1, StepKeepsReliable DEF AllReliable, IInv
  <2>2. /\ UNCHANGED <<up, unfinished>>
        /\ \A k \in Jobs \ {j} : pc'[k] = pc[k] /\ record'[k] = record[k]
    BY <1>1, StepKeepsUp, OthersSame DEF AllReliable, IInv, SameStory, Same
  <2> QED
    BY <2>1, <2>2, SameKeepsReliable DEF AllReliable
<1>2. CASE Crash \/ Restart \/ Serve \/ (\E j \in Jobs : RestoreJob(j))
  BY <1>2, ProcessKeepsReliable DEF AllReliable, IInv
<1>3. CASE UNCHANGED vars
  BY <1>3, SameKeepsReliable DEF AllReliable, vars, local, scicat
<1> QED
  BY <1>1, <1>2, <1>3 DEF Next, StepOf

\* Without failing calls every record is where its task has left it, over any
\* number of crashes and restarts.
THEOREM ReliableInvariant == ASSUME MaxFaults = 0 PROVE Spec => []AllReliable
<1>1. Init => AllReliable
  BY InitIInv DEF AllReliable, Init, Reliable
<1>2. AllReliable /\ [Next]_vars => AllReliable'
  BY NextReliable, NextIInv DEF AllReliable
<1> QED
  BY <1>1, <1>2, PTL DEF Spec

\* A task that has ended has told SciCat how the transfer ended.
THEOREM EndedRecorded == ASSUME MaxFaults = 0 PROVE Spec => []EndedIsRecorded
<1>1. AllReliable => EndedIsRecorded
  BY DEF AllReliable, Reliable, EndedIsRecorded, EndCodes
<1> QED
  BY <1>1, ReliableInvariant, PTL

\* A restart that is given the records without a field `completed` resumes
\* every transfer that has been polled and is shown as transferring (002).
THEOREM RestartsResume ==
  ASSUME MaxFaults = 0, MissingIsFalse
  PROVE  Spec => []RestartResumes
<1>1. AllReliable => RestartResumes
  BY DEF AllReliable, IInv, TypeOK, Reliable, RestartResumes
<1> QED
  BY <1>1, ReliableInvariant, PTL

-----------------------------------------------------------------------------
(* One call fails. *)

\* A POST that fails after the submission has met a failing call, unless
\* somebody removed its job; and it leaves no transfer that moves.
Compensated(j) ==
  /\ pc[j] = "compensating" => faults # 0 \/ record[j] = "removed"
  /\ pc[j] = "failed" => record[j] = "removed" \/ globus[j] \notin Moving

AllCompensated == IInv /\ \A j \in Jobs : Compensated(j)

\* Failing calls and crashes are counted and never forgotten.
LEMMA CountersGrow ==
  ASSUME TypeOK, [Next]_vars
  PROVE  /\ faults # 0 => faults' # 0
         /\ crashes # 0 => crashes' # 0
<1>1. /\ faults' = faults \/ faults' = faults + 1
      /\ crashes' = crashes \/ crashes' = crashes + 1
  <2> USE DEF CallFails, CallSucceeds, PatchFails, TryPatch, budget
  <2>1. ASSUME NEW j \in Jobs, StepOf(j)
        PROVE  /\ faults' = faults \/ faults' = faults + 1
               /\ crashes' = crashes
    BY <2>1 DEF StepOf, RequestStep, TaskStep, RefuseRequest, SubmitTransfer,
       SubmitFails, CreateJob, CreateJobFails, StartRecord, StartRecordFails,
       Compensate, AddTransferTask, StartTask, HearCancel, CheckTransfer,
       CheckTransferFails, Report, ReportRefused, ReportFails, MarkReady,
       MarkReadyFails, FinishWithoutToken, Explain, CreateArchivalJob,
       CancelTransfer, CancelTransferFails, RecordCancel, RequestDelete,
       RemoveRecord, Transfer
  <2>2. CASE Crash \/ Restart \/ Serve \/ (\E j \in Jobs : RestoreJob(j))
    BY <2>2 DEF Crash, Restart, Serve, RestoreJob
  <2>3. CASE UNCHANGED vars
    BY <2>3 DEF vars
  <2> QED
    BY <2>1, <2>2, <2>3 DEF Next, StepOf
<1> QED
  BY <1>1 DEF TypeOK

LEMMA StepKeepsCompensated ==
  ASSUME MaxFaults <= 1, IInv, NEW j \in Jobs, Compensated(j), StepOf(j)
  PROVE  Compensated(j)'
<1> USE TrackingAssumption DEF IInv, TypeOK, Compensated, Go
<1>1. CASE CreateJobFails(j)
  BY <1>1 DEF CreateJobFails, CallFails
<1>2. CASE StartRecordFails(j)
  BY <1>2 DEF StartRecordFails, PatchFails, CallFails
<1>3. CASE Compensate(j)
  <2>1. /\ pc[j] = "compensating" /\ pc'[j] = "failed"
        /\ record' = record
    BY <1>3 DEF Compensate, scicat
  <2>2. CASE record[j] = "removed"
    BY <2>1, <2>2
  <2>3. CASE record[j] # "removed"
    <3>1. ~CallFails
      BY <2>1, <2>3 DEF CallFails
    <3>2. globus'[j] \notin Moving
      BY <1>3, <3>1 DEF Compensate, StopTransfer, Moving
    <3> QED
      BY <2>1, <3>2
  <2> QED
    BY <2>2, <2>3
<1>4. CASE RefuseRequest(j) \/ SubmitTransfer(j) \/ SubmitFails(j)
  BY <1>4 DEF RefuseRequest, SubmitTransfer, SubmitFails
<1>5. CASE CreateJob(j) \/ StartRecord(j) \/ AddTransferTask(j)
  BY <1>5 DEF CreateJob, StartRecord, AddTransferTask
<1>6. CASE TaskStep(j)
  BY <1>6 DEF TaskStep, StartTask, HearCancel, CheckTransfer,
     CheckTransferFails, Report, ReportRefused, ReportFails, MarkReady,
     MarkReadyFails, FinishWithoutToken, Explain, CreateArchivalJob,
     CancelTransfer, CancelTransferFails, RecordCancel
<1>7. CASE RequestDelete(j) \/ RemoveRecord(j)
  <2>1. /\ UNCHANGED <<pc, globus>>
        /\ record[j] = "removed" => record'[j] = "removed"
    BY <1>7 DEF RequestDelete, RemoveRecord, TryPatch, Patch, PatchFails, scicat
  <2>2. faults # 0 => faults' # 0
    BY <1>7, CountersGrow DEF Next, StepOf
  <2> QED
    BY <2>1, <2>2
<1>8. CASE Transfer(j)
  BY <1>8 DEF Transfer, scicat, budget, Moving
<1> QED
  BY <1>1, <1>2, <1>3, <1>4, <1>5, <1>6, <1>7, <1>8 DEF StepOf, RequestStep

LEMMA ProcessKeepsCompensated ==
  ASSUME TypeOK, NEW k \in Jobs, Compensated(k),
         Crash \/ Restart \/ Serve \/ (\E j \in Jobs : RestoreJob(j))
  PROVE  Compensated(k)'
<1>1. /\ UNCHANGED <<globus, record, faults>>
      /\ pc'[k] = pc[k] \/ pc'[k] \in {"interrupted", "lost", "queued"}
  BY DEF Crash, Restart, Serve, RestoreJob, TypeOK, scicat, budget
<1> QED
  BY <1>1 DEF Compensated

\* Every step preserves it for every transfer.
LEMMA NextCompensated ==
  ASSUME MaxFaults <= 1, AllCompensated, [Next]_vars
  PROVE  \A k \in Jobs : Compensated(k)'
<1>1. ASSUME NEW j \in Jobs, StepOf(j)
      PROVE  \A k \in Jobs : Compensated(k)'
  <2>1. Compensated(j)'
    BY <1>1, StepKeepsCompensated DEF AllCompensated
  <2>2. \A k \in Jobs \ {j} : Same(k)
    BY <1>1, OthersSame DEF AllCompensated, IInv, SameStory
  <2>3. faults # 0 => faults' # 0
    BY CountersGrow DEF AllCompensated, IInv
  <2> QED
    BY <2>1, <2>2, <2>3 DEF AllCompensated, Compensated, Same
<1>2. CASE Crash \/ Restart \/ Serve \/ (\E j \in Jobs : RestoreJob(j))
  BY <1>2, ProcessKeepsCompensated DEF AllCompensated, IInv
<1>3. CASE UNCHANGED vars
  BY <1>3 DEF AllCompensated, Compensated, vars, scicat, budget
<1> QED
  BY <1>1, <1>2, <1>3 DEF Next, StepOf

\* A POST that fails because one call failed leaves no transfer that moves, for
\* any number of transfers, DELETEs, crashes and restarts around it.
THEOREM FailedPostCompensated ==
  ASSUME MaxFaults <= 1
  PROVE  Spec => []FailedPostLeavesNoTransfer
<1>1. Init => AllCompensated
  BY InitIInv DEF AllCompensated, Init, Compensated
<1>2. AllCompensated /\ [Next]_vars => AllCompensated'
  BY NextCompensated, NextIInv DEF AllCompensated
<1>3. AllCompensated => FailedPostLeavesNoTransfer
  BY DEF AllCompensated, Compensated, FailedPostLeavesNoTransfer
<1> QED
  BY <1>1, <1>2, <1>3, PTL DEF Spec

-----------------------------------------------------------------------------
(* Any number of calls fail. *)

\* Nobody leaves a transfer that moves, but for a failed call, a crash, or a
\* record that is gone.
InCharge(j) ==
  /\ pc[j] = "idle" => globus[j] = "none"
  /\ globus[j] \in Moving =>
       \/ pc[j] \in InRequest \cup InTask
       \/ faults # 0 \/ crashes # 0 \/ record[j] = "removed"
  /\ pc[j] = "compensating" => faults # 0 \/ record[j] = "removed"
  /\ pc[j] = "recording" => faults # 0 \/ globus[j] \notin Moving

\* No step of Globus, a request or a task leaves its own transfer moving without
\* somebody in charge, but a call that fails.
LEMMA StepKeepsInCharge ==
  ASSUME IInv, NEW j \in Jobs, InCharge(j), StepOf(j)
  PROVE  InCharge(j)'
<1>0. /\ faults # 0 => faults' # 0
      /\ crashes # 0 => crashes' # 0
  BY CountersGrow DEF IInv, Next, StepOf
<1>a. JobInv(j)
  BY DEF IInv
<1> USE TrackingAssumption DEF IInv, TypeOK, InCharge, Go, InRequest, InTask
<1>1. CASE RefuseRequest(j) \/ SubmitTransfer(j)
  BY <1>1 DEF RefuseRequest, SubmitTransfer, scicat, Moving
<1>2. CASE \/ SubmitFails(j) \/ CreateJobFails(j) \/ CheckTransferFails(j)
           \/ ReportFails(j) \/ MarkReadyFails(j) \/ FinishWithoutToken(j)
           \/ CancelTransferFails(j)
  <2>1. CallFails
    BY <1>2 DEF SubmitFails, CreateJobFails, CheckTransferFails, ReportFails,
       PatchFails, MarkReadyFails, FinishWithoutToken, CancelTransferFails
  <2>2. faults' # 0
    BY <2>1 DEF CallFails
  <2>3. pc'[j] # "idle"
    BY <1>2 DEF SubmitFails, CreateJobFails, CheckTransferFails, ReportFails,
       MarkReadyFails, FinishWithoutToken, CancelTransferFails
  <2> QED
    BY <2>2, <2>3
<1>3. CASE CreateJob(j) \/ StartRecord(j) \/ AddTransferTask(j)
  BY <1>3 DEF CreateJob, StartRecord, AddTransferTask
<1>4. CASE StartRecordFails(j)
  BY <1>4 DEF StartRecordFails, PatchFails, CallFails
<1>5. CASE Compensate(j)
  BY <1>0, <1>5 DEF Compensate, scicat
<1>6. CASE StartTask(j) \/ HearCancel(j) \/ CheckTransfer(j)
  BY <1>6 DEF StartTask, HearCancel, CheckTransfer
<1>7. CASE Report(j) \/ ReportRefused(j)
  BY <1>7 DEF Report, ReportRefused, scicat
<1>8. CASE MarkReady(j) \/ Explain(j) \/ CreateArchivalJob(j)
  <2>1. globus'[j] = "succeeded" /\ pc'[j] \in {"archiving", "ended"}
    BY <1>8, <1>a DEF MarkReady, Explain, CreateArchivalJob, JobInv,
       FinishingSucceeded
  <2> QED
    BY <2>1 DEF Moving
<1>9. CASE CancelTransfer(j)
  BY <1>9 DEF CancelTransfer, StopTransfer, Moving
<1>10. CASE RecordCancel(j)
  <2>1. /\ pc[j] = "recording" /\ pc'[j] = "ended" /\ globus' = globus
    BY <1>10 DEF RecordCancel
  <2> QED
    BY <1>0, <2>1
<1>11. CASE RequestDelete(j) \/ RemoveRecord(j)
  <2>1. /\ UNCHANGED <<pc, globus>>
        /\ record[j] = "removed" => record'[j] = "removed"
    BY <1>11 DEF RequestDelete, RemoveRecord, TryPatch, Patch, PatchFails,
       scicat
  <2> QED
    BY <1>0, <2>1
<1>12. CASE Transfer(j)
  BY <1>12 DEF Transfer, scicat, budget, Moving
<1> QED
  BY <1>1, <1>2, <1>3, <1>4, <1>5, <1>6, <1>7, <1>8, <1>9, <1>10, <1>11,
     <1>12
     DEF StepOf, RequestStep, TaskStep

\* Nor does the process, when it stops, starts, serves or restores a job.
LEMMA ProcessKeepsInCharge ==
  ASSUME TypeOK, NEW k \in Jobs, InCharge(k),
         Crash \/ Restart \/ Serve \/ (\E j \in Jobs : RestoreJob(j))
  PROVE  InCharge(k)'
<1>1. /\ UNCHANGED <<globus, record, faults>>
      /\ \/ crashes' # 0 /\ pc'[k] \in {pc[k], "interrupted", "lost"}
         \/ crashes' = crashes /\ pc'[k] \in {pc[k], "queued"}
  <2>1. CASE Crash
    BY <2>1 DEF Crash, TypeOK, scicat
  <2>2. CASE Restart \/ Serve \/ (\E j \in Jobs : RestoreJob(j))
    BY <2>2 DEF Restart, Serve, RestoreJob, TypeOK, scicat, budget
  <2> QED
    BY <2>1, <2>2
<1> QED
  BY <1>1 DEF InCharge, InTask

\* Every step leaves somebody in charge, whatever fails.
LEMMA NextInCharge ==
  ASSUME IInv, \A j \in Jobs : InCharge(j), [Next]_vars
  PROVE  \A k \in Jobs : InCharge(k)'
<1>1. ASSUME NEW j \in Jobs, StepOf(j)
      PROVE  \A k \in Jobs : InCharge(k)'
  <2>1. InCharge(j)'
    BY <1>1, StepKeepsInCharge
  <2>2. \A k \in Jobs \ {j} : Same(k)
    BY <1>1, OthersSame DEF IInv, SameStory
  <2>3. /\ faults # 0 => faults' # 0
        /\ crashes # 0 => crashes' # 0
    BY CountersGrow DEF IInv
  <2> QED
    BY <2>1, <2>2, <2>3 DEF InCharge, Same
<1>2. CASE Crash \/ Restart \/ Serve \/ (\E j \in Jobs : RestoreJob(j))
  BY <1>2, ProcessKeepsInCharge DEF IInv
<1>3. CASE UNCHANGED vars
  BY <1>3 DEF InCharge, vars, scicat, budget
<1> QED
  BY <1>1, <1>2, <1>3 DEF Next, StepOf

=============================================================================
