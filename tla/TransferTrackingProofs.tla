----------------------- MODULE TransferTrackingProofs -----------------------
(***************************************************************************)
(* What SciCat says of a transfer is true, for every set of transfers, any *)
(* number of failing calls and crashes, and whatever records a restart     *)
(* finds.                                                                  *)
(***************************************************************************)
EXTENDS TransferTracking, TLAPS

-----------------------------------------------------------------------------
(* The strengthening: what each goroutine knows of its transfer. *)

Ended == {"succeeded", "failed"}

\* A transfer exists in Globus before it has a record, and a record before
\* anybody can delete or resume it.
SubmittedFirst(j) ==
  /\ pc[j] \in {"idle", "submitted"} => record[j] = "absent" /\ ~ready[j]
  /\ pc[j] \in InRequest \cup InTask => globus[j] # "none"
  /\ record[j] # "absent" => globus[j] # "none"
  /\ j \in unfinished \/ delete[j] # "none" => record[j] # "absent"

\* What a task has seen of a transfer that is over stays true.
SeenIsTrue(j) ==
  /\ pc[j] = "reporting" => seen[j] \in {"active", "succeeded", "error"}
  /\ pc[j] = "reporting" /\ seen[j] = "succeeded" => globus[j] = "succeeded"
  /\ pc[j] = "recording" /\ seen[j] = "stopped" => globus[j] \in Ended

\* finishTask runs only for a transfer that succeeded.
FinishingSucceeded(j) ==
  /\ pc[j] \in {"finishing", "explaining", "archiving"} =>
       globus[j] = "succeeded"
  /\ pc[j] = "archiving" => ready[j]

\* RecordIsTruthful and ReadyOnlyIfSucceeded for one transfer.
TruthOf(j) ==
  /\ record[j] \in {"finished", "not archivable"} => globus[j] = "succeeded"
  /\ record[j] = "cancelled" => globus[j] \in Ended
  /\ ready[j] => globus[j] = "succeeded"
  /\ archived[j] > 0 => ready[j]

JobInv(j) ==
  SubmittedFirst(j) /\ SeenIsTrue(j) /\ FinishingSucceeded(j) /\ TruthOf(j)

IInv == TypeOK /\ \A j \in Jobs : JobInv(j)

\* A step that leaves job k alone.
Same(k) ==
  /\ pc'[k] = pc[k]
  /\ seen'[k] = seen[k]
  /\ delete'[k] = delete[k]
  /\ globus'[k] = globus[k]
  /\ record'[k] = record[k]
  /\ ready'[k] = ready[k]
  /\ archived'[k] = archived[k]
  /\ k \in unfinished' => k \in unfinished

LEMMA SameKeepsJobInv == \A k \in Jobs : JobInv(k) /\ Same(k) => JobInv(k)'
<1> TAKE k \in Jobs
<1> HAVE JobInv(k) /\ Same(k)
<1>1. SubmittedFirst(k)'
  BY DEF JobInv, Same, SubmittedFirst, InRequest, InTask
<1>2. SeenIsTrue(k)' /\ FinishingSucceeded(k)'
  BY DEF JobInv, Same, SeenIsTrue, FinishingSucceeded, Ended
<1>3. TruthOf(k)'
  BY DEF JobInv, Same, TruthOf, Ended
<1> QED
  BY <1>1, <1>2, <1>3 DEF JobInv

LEMMA InitIInv == Init => IInv
<1> SUFFICES ASSUME Init PROVE IInv
    OBVIOUS
<1>1. TypeOK
  BY TrackingAssumption DEF Init, TypeOK, Up, Progress, Seen, Deleting,
     GlobusState, Record, InRequest, InTask
<1>2. \A j \in Jobs : JobInv(j)
  <2> TAKE j \in Jobs
  <2>1. /\ pc[j] = "idle" /\ record[j] = "absent" /\ ~ready[j]
        /\ archived[j] = 0 /\ j \notin unfinished /\ delete[j] = "none"
    BY DEF Init
  <2> QED
    BY <2>1 DEF JobInv, SubmittedFirst, SeenIsTrue, FinishingSucceeded,
       TruthOf, InRequest, InTask
<1> QED
  BY <1>1, <1>2 DEF IInv

-----------------------------------------------------------------------------
(* Steps keep the types. *)

LEMMA CallType ==
  ASSUME TypeOK, CallSucceeds \/ CallFails
  PROVE  faults' \in 0..MaxFaults /\ crashes' \in 0..MaxCrashes
BY TrackingAssumption DEF TypeOK, CallSucceeds, CallFails, budget

LEMMA StopType ==
  ASSUME TypeOK, NEW j \in Jobs, StopTransfer(j) \/ UNCHANGED globus
  PROVE  globus' \in [Jobs -> GlobusState]
BY DEF TypeOK, StopTransfer, GlobusState

LEMMA PatchType ==
  ASSUME TypeOK, NEW j \in Jobs, NEW to \in Record, TryPatch(j, to)
  PROVE  /\ record' \in [Jobs -> Record]
         /\ faults' \in 0..MaxFaults /\ crashes' \in 0..MaxCrashes
<1>1. CallSucceeds \/ CallFails
  BY DEF TryPatch, PatchFails
<1>2. record' \in [Jobs -> Record]
  BY DEF TryPatch, PatchFails, Patch, TypeOK
<1> QED
  BY <1>1, <1>2, CallType

LEMMA NextTypeOK == TypeOK /\ [Next]_vars => TypeOK'
<1> SUFFICES ASSUME TypeOK, [Next]_vars PROVE TypeOK'
    OBVIOUS
<1> USE TrackingAssumption DEF TypeOK, Progress, InRequest, InTask, local,
        scicat, budget
<1>1. ASSUME NEW j \in Jobs, RefuseRequest(j) PROVE TypeOK'
  BY <1>1 DEF RefuseRequest, Go
<1>2. ASSUME NEW j \in Jobs, SubmitTransfer(j) PROVE TypeOK'
  BY <1>2 DEF SubmitTransfer, GlobusState, Go
<1>3. ASSUME NEW j \in Jobs, SubmitFails(j) PROVE TypeOK'
  BY <1>3, CallType DEF SubmitFails, GlobusState, Go
<1>4. ASSUME NEW j \in Jobs, CreateJob(j) PROVE TypeOK'
  BY <1>4 DEF CreateJob, Record, Go
<1>5. ASSUME NEW j \in Jobs, CreateJobFails(j) PROVE TypeOK'
  BY <1>5, CallType DEF CreateJobFails, Record, Go
<1>6. ASSUME NEW j \in Jobs, StartRecord(j) PROVE TypeOK'
  <2>1. "started" \in Record /\ TryPatch(j, "started")
    BY <1>6 DEF StartRecord, TryPatch, CallSucceeds, Record
  <2> QED
    BY <1>6, <2>1, PatchType DEF StartRecord, Go
<1>7. ASSUME NEW j \in Jobs, StartRecordFails(j) PROVE TypeOK'
  <2>1. /\ record' \in [Jobs -> Record]
        /\ faults' \in 0..MaxFaults /\ crashes' \in 0..MaxCrashes
    <3>1. CASE PatchFails(j, "started")
      BY <3>1, PatchType DEF TryPatch, Record
    <3>2. CASE UNCHANGED <<record, budget>>
      BY <3>2
    <3> QED
      BY <1>7, <3>1, <3>2 DEF StartRecordFails
  <2> QED
    BY <1>7, <2>1 DEF StartRecordFails, Go
<1>8. ASSUME NEW j \in Jobs, Compensate(j) PROVE TypeOK'
  BY <1>8, CallType, StopType DEF Compensate, Go
<1>9. ASSUME NEW j \in Jobs, AddTransferTask(j) PROVE TypeOK'
  BY <1>9 DEF AddTransferTask, Go
<1>10. ASSUME NEW j \in Jobs, StartTask(j) PROVE TypeOK'
  BY <1>10 DEF StartTask, Go
<1>11. ASSUME NEW j \in Jobs, HearCancel(j) PROVE TypeOK'
  BY <1>11 DEF HearCancel, Deleting, Go
<1>12. ASSUME NEW j \in Jobs, CheckTransfer(j) PROVE TypeOK'
  BY <1>12 DEF CheckTransfer, Seen, Go, WhatGlobusSays
<1>13. ASSUME NEW j \in Jobs, CheckTransferFails(j) PROVE TypeOK'
  BY <1>13, CallType DEF CheckTransferFails, Seen, Go
<1>14. ASSUME NEW j \in Jobs, Report(j) PROVE TypeOK'
  <2>1. Status(j) \in Record /\ TryPatch(j, Status(j))
    BY <1>14 DEF Report, TryPatch, CallSucceeds, Status, Record, Seen
  <2> QED
    BY <1>14, <2>1, PatchType DEF Report, Go
<1>15. ASSUME NEW j \in Jobs, ReportRefused(j) PROVE TypeOK'
  BY <1>15 DEF ReportRefused, Go
<1>16. ASSUME NEW j \in Jobs, ReportFails(j) PROVE TypeOK'
  <2>1. Status(j) \in Record /\ TryPatch(j, Status(j))
    BY <1>16 DEF ReportFails, TryPatch, Status, Record, Seen
  <2> QED
    BY <1>16, <2>1, PatchType DEF ReportFails, Go
<1>17. ASSUME NEW j \in Jobs, MarkReady(j) PROVE TypeOK'
  BY <1>17 DEF MarkReady, Go
<1>18. ASSUME NEW j \in Jobs, MarkReadyFails(j) PROVE TypeOK'
  BY <1>18, CallType DEF MarkReadyFails, Go
<1>19. ASSUME NEW j \in Jobs, FinishWithoutToken(j) PROVE TypeOK'
  BY <1>19, CallType DEF FinishWithoutToken, Go
<1>20. ASSUME NEW j \in Jobs, Explain(j) PROVE TypeOK'
  <2>1. "not archivable" \in Record /\ TryPatch(j, "not archivable")
    BY <1>20 DEF Explain, Record
  <2> QED
    BY <1>20, <2>1, PatchType DEF Explain, Go
<1>21. ASSUME NEW j \in Jobs, CreateArchivalJob(j) PROVE TypeOK'
  BY <1>21, CallType DEF CreateArchivalJob, Archived, Go
<1>22. ASSUME NEW j \in Jobs, CancelTransfer(j) PROVE TypeOK'
  BY <1>22, StopType DEF CancelTransfer, Seen, Go
<1>23. ASSUME NEW j \in Jobs, CancelTransferFails(j) PROVE TypeOK'
  BY <1>23, StopType, CallType DEF CancelTransferFails, Seen, Go
<1>24. ASSUME NEW j \in Jobs, RecordCancel(j) PROVE TypeOK'
  <2>1. CancelStatus(j) \in Record /\ TryPatch(j, CancelStatus(j))
    BY <1>24 DEF RecordCancel, CancelStatus, Record
  <2> QED
    BY <1>24, <2>1, PatchType DEF RecordCancel, Go
<1>25. ASSUME NEW j \in Jobs, RequestDelete(j) PROVE TypeOK'
  BY <1>25 DEF RequestDelete, Tracked, Found, Deleting
<1>26. ASSUME NEW j \in Jobs, RemoveRecord(j) PROVE TypeOK'
  <2>1. "removed" \in Record /\ TryPatch(j, "removed")
    BY <1>26 DEF RemoveRecord, Record
  <2> QED
    BY <1>26, <2>1, PatchType DEF RemoveRecord, Go, Deleting
<1>27. ASSUME NEW j \in Jobs, RestoreJob(j) PROVE TypeOK'
  BY <1>27 DEF RestoreJob
<1>28. ASSUME NEW j \in Jobs, Transfer(j) PROVE TypeOK'
  BY <1>28 DEF Transfer, GlobusState
<1>29. ASSUME Crash PROVE TypeOK'
  <2>1. pc' \in [Jobs -> Progress]
    BY <1>29 DEF Crash
  <2>2. \A j \in Jobs : pc'[j] \notin InRequest \cup InTask
    BY <1>29 DEF Crash
  <2>3. delete' \in [Jobs -> Deleting] /\ seen' \in [Jobs -> Seen] /\ up' \in Up
    BY <1>29 DEF Crash, Deleting, Seen, Up
  <2> QED
    BY <1>29, <2>1, <2>2, <2>3 DEF Crash
<1>30. ASSUME Restart PROVE TypeOK'
  BY <1>30 DEF Restart, Up
<1>31. ASSUME Serve PROVE TypeOK'
  BY <1>31 DEF Serve, Up
<1>32. CASE UNCHANGED vars
  BY <1>32 DEF vars
<1> QED
  BY <1>1, <1>2, <1>3, <1>4, <1>5, <1>6, <1>7, <1>8, <1>9, <1>10, <1>11,
     <1>12, <1>13, <1>14, <1>15, <1>16, <1>17, <1>18, <1>19, <1>20, <1>21,
     <1>22, <1>23, <1>24, <1>25, <1>26, <1>27, <1>28, <1>29, <1>30, <1>31,
     <1>32 DEF Next, RequestStep, TaskStep

-----------------------------------------------------------------------------
(* Steps keep what is known of every transfer. *)

LEMMA NextJobInv == IInv /\ [Next]_vars => (\A j \in Jobs : JobInv(j))'
<1> SUFFICES ASSUME IInv, [Next]_vars PROVE \A j \in Jobs : JobInv(j)'
    OBVIOUS
<1>a. /\ pc \in [Jobs -> Progress] /\ seen \in [Jobs -> Seen]
      /\ globus \in [Jobs -> GlobusState] /\ record \in [Jobs -> Record]
      /\ ready \in [Jobs -> BOOLEAN] /\ archived \in [Jobs -> Nat]
      /\ delete \in [Jobs -> Deleting]
  BY DEF IInv, TypeOK
<1>b. \A j \in Jobs : JobInv(j)
  BY DEF IInv
<1>c. ASSUME NEW j \in Jobs, \A k \in Jobs \ {j} : Same(k), JobInv(j)'
      PROVE  \A k \in Jobs : JobInv(k)'
  BY <1>b, <1>c, SameKeepsJobInv
<1>1. ASSUME NEW j \in Jobs, RefuseRequest(j)
      PROVE  \A k \in Jobs : JobInv(k)'
  <2>1. \A k \in Jobs \ {j} : Same(k)
    BY <1>a, <1>1 DEF RefuseRequest, Go, Same, local, scicat
  <2>2. JobInv(j)'
    BY <1>a, <1>b, <1>1 DEF RefuseRequest, Go, local, scicat, JobInv,
       SubmittedFirst, SeenIsTrue, FinishingSucceeded, TruthOf, InRequest,
       InTask, Ended, Moving, GlobusState
  <2> QED
    BY <1>c, <2>1, <2>2
<1>2. ASSUME NEW j \in Jobs, SubmitTransfer(j)
      PROVE  \A k \in Jobs : JobInv(k)'
  <2>1. \A k \in Jobs \ {j} : Same(k)
    BY <1>a, <1>2 DEF SubmitTransfer, Go, Same, local, scicat
  <2>2. JobInv(j)'
    BY <1>a, <1>b, <1>2 DEF SubmitTransfer, Go, local, scicat, JobInv,
       SubmittedFirst, SeenIsTrue, FinishingSucceeded, TruthOf, InRequest,
       InTask, Ended, Moving, GlobusState
  <2> QED
    BY <1>c, <2>1, <2>2
<1>3. ASSUME NEW j \in Jobs, SubmitFails(j)
      PROVE  \A k \in Jobs : JobInv(k)'
  <2>1. \A k \in Jobs \ {j} : Same(k)
    BY <1>a, <1>3 DEF SubmitFails, Go, CallFails, Same, local, scicat
  <2>2. JobInv(j)'
    BY <1>a, <1>b, <1>3 DEF SubmitFails, Go, CallFails, local, scicat, JobInv,
       SubmittedFirst, SeenIsTrue, FinishingSucceeded, TruthOf, InRequest,
       InTask, Ended, Moving, GlobusState
  <2> QED
    BY <1>c, <2>1, <2>2
<1>4. ASSUME NEW j \in Jobs, CreateJob(j)
      PROVE  \A k \in Jobs : JobInv(k)'
  <2>1. \A k \in Jobs \ {j} : Same(k)
    BY <1>a, <1>4 DEF CreateJob, Go, Same, local, scicat
  <2>2. JobInv(j)'
    BY <1>a, <1>b, <1>4 DEF CreateJob, Go, local, scicat, JobInv,
       SubmittedFirst, SeenIsTrue, FinishingSucceeded, TruthOf, InRequest,
       InTask, Ended, Moving, GlobusState
  <2> QED
    BY <1>c, <2>1, <2>2
<1>5. ASSUME NEW j \in Jobs, CreateJobFails(j)
      PROVE  \A k \in Jobs : JobInv(k)'
  <2>1. \A k \in Jobs \ {j} : Same(k)
    BY <1>a, <1>5 DEF CreateJobFails, Go, CallFails, Same, local, scicat
  <2>2. JobInv(j)'
    <3>1. /\ pc[j] = "submitted" /\ pc'[j] = "compensating"
          /\ record'[j] \in {"absent", "created"}
          /\ UNCHANGED <<globus, ready, archived, unfinished, delete>>
      BY <1>a, <1>5 DEF CreateJobFails, Go, local
    <3> QED
      BY <1>b, <3>1 DEF JobInv, SubmittedFirst, SeenIsTrue,
         FinishingSucceeded, TruthOf, InRequest, InTask
  <2> QED
    BY <1>c, <2>1, <2>2
<1>6. ASSUME NEW j \in Jobs, StartRecord(j)
      PROVE  \A k \in Jobs : JobInv(k)'
  <2>1. \A k \in Jobs \ {j} : Same(k)
    BY <1>a, <1>6 DEF StartRecord, Go, Patch, Same, local, scicat
  <2>2. JobInv(j)'
    BY <1>a, <1>b, <1>6 DEF StartRecord, Go, Patch, local, scicat, JobInv,
       SubmittedFirst, SeenIsTrue, FinishingSucceeded, TruthOf, InRequest,
       InTask, Ended, Moving, GlobusState
  <2> QED
    BY <1>c, <2>1, <2>2
<1>7. ASSUME NEW j \in Jobs, StartRecordFails(j)
      PROVE  \A k \in Jobs : JobInv(k)'
  <2>1. \A k \in Jobs \ {j} : Same(k)
    BY <1>a, <1>7 DEF StartRecordFails, Go, PatchFails, Patch, CallFails,
       Same, local, scicat
  <2>2. JobInv(j)'
    BY <1>a, <1>b, <1>7 DEF StartRecordFails, Go, PatchFails, Patch,
       CallFails, local, scicat, JobInv, SubmittedFirst, SeenIsTrue,
       FinishingSucceeded, TruthOf, InRequest, InTask, Ended, Moving,
       GlobusState
  <2> QED
    BY <1>c, <2>1, <2>2
<1>8. ASSUME NEW j \in Jobs, Compensate(j)
      PROVE  \A k \in Jobs : JobInv(k)'
  <2>1. \A k \in Jobs \ {j} : Same(k)
    BY <1>a, <1>8 DEF Compensate, Go, StopTransfer, CallSucceeds, CallFails,
       Same, local, scicat
  <2>2. JobInv(j)'
    BY <1>a, <1>b, <1>8 DEF Compensate, Go, StopTransfer, CallSucceeds,
       CallFails, local, scicat, JobInv, SubmittedFirst, SeenIsTrue,
       FinishingSucceeded, TruthOf, InRequest, InTask, Ended, Moving,
       GlobusState
  <2> QED
    BY <1>c, <2>1, <2>2
<1>9. ASSUME NEW j \in Jobs, AddTransferTask(j)
      PROVE  \A k \in Jobs : JobInv(k)'
  <2>1. \A k \in Jobs \ {j} : Same(k)
    BY <1>a, <1>9 DEF AddTransferTask, Go, Same, local, scicat
  <2>2. JobInv(j)'
    BY <1>a, <1>b, <1>9 DEF AddTransferTask, Go, local, scicat, JobInv,
       SubmittedFirst, SeenIsTrue, FinishingSucceeded, TruthOf, InRequest,
       InTask, Ended, Moving, GlobusState
  <2> QED
    BY <1>c, <2>1, <2>2
<1>10. ASSUME NEW j \in Jobs, StartTask(j)
      PROVE  \A k \in Jobs : JobInv(k)'
  <2>1. \A k \in Jobs \ {j} : Same(k)
    BY <1>a, <1>10 DEF StartTask, Go, Same, local, scicat
  <2>2. JobInv(j)'
    BY <1>a, <1>b, <1>10 DEF StartTask, Go, local, scicat, JobInv,
       SubmittedFirst, SeenIsTrue, FinishingSucceeded, TruthOf, InRequest,
       InTask, Ended, Moving, GlobusState
  <2> QED
    BY <1>c, <2>1, <2>2
<1>11. ASSUME NEW j \in Jobs, HearCancel(j)
      PROVE  \A k \in Jobs : JobInv(k)'
  <2>1. \A k \in Jobs \ {j} : Same(k)
    BY <1>a, <1>11 DEF HearCancel, Go, Same, local, scicat
  <2>2. JobInv(j)'
    BY <1>a, <1>b, <1>11 DEF HearCancel, AskedToStop, Go, local, scicat, JobInv,
       SubmittedFirst, SeenIsTrue, FinishingSucceeded, TruthOf, InRequest,
       InTask, Ended, Moving, GlobusState
  <2> QED
    BY <1>c, <2>1, <2>2
<1>12. ASSUME NEW j \in Jobs, CheckTransfer(j)
      PROVE  \A k \in Jobs : JobInv(k)'
  <2>1. \A k \in Jobs \ {j} : Same(k)
    BY <1>a, <1>12 DEF CheckTransfer, Go, WhatGlobusSays, Same, local, scicat
  <2>2. JobInv(j)'
    BY <1>a, <1>b, <1>12 DEF CheckTransfer, Go, WhatGlobusSays, local, scicat,
       JobInv, SubmittedFirst, SeenIsTrue, FinishingSucceeded, TruthOf,
       InRequest, InTask, Ended, Moving, GlobusState
  <2> QED
    BY <1>c, <2>1, <2>2
<1>13. ASSUME NEW j \in Jobs, CheckTransferFails(j)
      PROVE  \A k \in Jobs : JobInv(k)'
  <2>1. \A k \in Jobs \ {j} : Same(k)
    BY <1>a, <1>13 DEF CheckTransferFails, Go, CallFails, Same, local, scicat
  <2>2. JobInv(j)'
    BY <1>a, <1>b, <1>13 DEF CheckTransferFails, Go, CallFails, local, scicat,
       JobInv, SubmittedFirst, SeenIsTrue, FinishingSucceeded, TruthOf,
       InRequest, InTask, Ended, Moving, GlobusState
  <2> QED
    BY <1>c, <2>1, <2>2
<1>14. ASSUME NEW j \in Jobs, Report(j)
      PROVE  \A k \in Jobs : JobInv(k)'
  <2>1. \A k \in Jobs \ {j} : Same(k)
    BY <1>a, <1>14 DEF Report, Go, Patch, Status, Same, local, scicat
  <2>2. JobInv(j)'
    BY <1>a, <1>b, <1>14 DEF Report, Go, Patch, Status, local, scicat, JobInv,
       SubmittedFirst, SeenIsTrue, FinishingSucceeded, TruthOf, InRequest,
       InTask, Ended, Moving, GlobusState
  <2> QED
    BY <1>c, <2>1, <2>2
<1>15. ASSUME NEW j \in Jobs, ReportRefused(j)
      PROVE  \A k \in Jobs : JobInv(k)'
  <2>1. \A k \in Jobs \ {j} : Same(k)
    BY <1>a, <1>15 DEF ReportRefused, Go, Same, local, scicat
  <2>2. JobInv(j)'
    BY <1>a, <1>b, <1>15 DEF ReportRefused, Go, local, scicat, JobInv,
       SubmittedFirst, SeenIsTrue, FinishingSucceeded, TruthOf, InRequest,
       InTask, Ended, Moving, GlobusState
  <2> QED
    BY <1>c, <2>1, <2>2
<1>16. ASSUME NEW j \in Jobs, ReportFails(j)
      PROVE  \A k \in Jobs : JobInv(k)'
  <2>1. \A k \in Jobs \ {j} : Same(k)
    BY <1>a, <1>16 DEF ReportFails, Go, PatchFails, Patch, CallFails, Status,
       Same, local, scicat
  <2>2. JobInv(j)'
    BY <1>a, <1>b, <1>16 DEF ReportFails, Go, PatchFails, Patch, CallFails,
       Status, local, scicat, JobInv, SubmittedFirst, SeenIsTrue,
       FinishingSucceeded, TruthOf, InRequest, InTask, Ended, Moving,
       GlobusState
  <2> QED
    BY <1>c, <2>1, <2>2
<1>17. ASSUME NEW j \in Jobs, MarkReady(j)
      PROVE  \A k \in Jobs : JobInv(k)'
  <2>1. \A k \in Jobs \ {j} : Same(k)
    BY <1>a, <1>17 DEF MarkReady, Go, Same, local, scicat
  <2>2. JobInv(j)'
    BY <1>a, <1>b, <1>17 DEF MarkReady, Go, local, scicat, JobInv,
       SubmittedFirst, SeenIsTrue, FinishingSucceeded, TruthOf, InRequest,
       InTask, Ended, Moving, GlobusState
  <2> QED
    BY <1>c, <2>1, <2>2
<1>18. ASSUME NEW j \in Jobs, MarkReadyFails(j)
      PROVE  \A k \in Jobs : JobInv(k)'
  <2>1. \A k \in Jobs \ {j} : Same(k)
    BY <1>a, <1>18 DEF MarkReadyFails, Go, CallFails, Same, local, scicat
  <2>2. JobInv(j)'
    BY <1>a, <1>b, <1>18 DEF MarkReadyFails, Go, CallFails, local, scicat,
       JobInv, SubmittedFirst, SeenIsTrue, FinishingSucceeded, TruthOf,
       InRequest, InTask, Ended, Moving, GlobusState
  <2> QED
    BY <1>c, <2>1, <2>2
<1>19. ASSUME NEW j \in Jobs, FinishWithoutToken(j)
      PROVE  \A k \in Jobs : JobInv(k)'
  <2>1. \A k \in Jobs \ {j} : Same(k)
    BY <1>a, <1>19 DEF FinishWithoutToken, Go, CallFails, Same, local, scicat
  <2>2. JobInv(j)'
    BY <1>a, <1>b, <1>19 DEF FinishWithoutToken, Go, CallFails, local, scicat,
       JobInv, SubmittedFirst, SeenIsTrue, FinishingSucceeded, TruthOf,
       InRequest, InTask, Ended, Moving, GlobusState
  <2> QED
    BY <1>c, <2>1, <2>2
<1>20. ASSUME NEW j \in Jobs, Explain(j)
      PROVE  \A k \in Jobs : JobInv(k)'
  <2>1. \A k \in Jobs \ {j} : Same(k)
    BY <1>a, <1>20 DEF Explain, Go, TryPatch, PatchFails, Patch, CallSucceeds,
       CallFails, Same, local, scicat
  <2>2. JobInv(j)'
    BY <1>a, <1>b, <1>20 DEF Explain, Go, TryPatch, PatchFails, Patch,
       CallSucceeds, CallFails, local, scicat, JobInv, SubmittedFirst,
       SeenIsTrue, FinishingSucceeded, TruthOf, InRequest, InTask, Ended,
       Moving, GlobusState
  <2> QED
    BY <1>c, <2>1, <2>2
<1>21. ASSUME NEW j \in Jobs, CreateArchivalJob(j)
      PROVE  \A k \in Jobs : JobInv(k)'
  <2>1. \A k \in Jobs \ {j} : Same(k)
    BY <1>a, <1>21 DEF CreateArchivalJob, Go, Archived, CallSucceeds,
       CallFails, Same, local, scicat
  <2>2. JobInv(j)'
    BY <1>a, <1>b, <1>21 DEF CreateArchivalJob, Go, Archived, CallSucceeds,
       CallFails, local, scicat, JobInv, SubmittedFirst, SeenIsTrue,
       FinishingSucceeded, TruthOf, InRequest, InTask, Ended, Moving,
       GlobusState
  <2> QED
    BY <1>c, <2>1, <2>2
<1>22. ASSUME NEW j \in Jobs, CancelTransfer(j)
      PROVE  \A k \in Jobs : JobInv(k)'
  <2>1. \A k \in Jobs \ {j} : Same(k)
    BY <1>a, <1>22 DEF CancelTransfer, Go, StopTransfer, Same, local, scicat
  <2>2. JobInv(j)'
    BY <1>a, <1>b, <1>22 DEF CancelTransfer, Go, StopTransfer, local, scicat,
       JobInv, SubmittedFirst, SeenIsTrue, FinishingSucceeded, TruthOf,
       InRequest, InTask, Ended, Moving, GlobusState
  <2> QED
    BY <1>c, <2>1, <2>2
<1>23. ASSUME NEW j \in Jobs, CancelTransferFails(j)
      PROVE  \A k \in Jobs : JobInv(k)'
  <2>1. \A k \in Jobs \ {j} : Same(k)
    BY <1>a, <1>23 DEF CancelTransferFails, Go, StopTransfer, CallFails, Same,
       local, scicat
  <2>2. JobInv(j)'
    BY <1>a, <1>b, <1>23 DEF CancelTransferFails, Go, StopTransfer, CallFails,
       local, scicat, JobInv, SubmittedFirst, SeenIsTrue, FinishingSucceeded,
       TruthOf, InRequest, InTask, Ended, Moving, GlobusState
  <2> QED
    BY <1>c, <2>1, <2>2
<1>24. ASSUME NEW j \in Jobs, RecordCancel(j)
      PROVE  \A k \in Jobs : JobInv(k)'
  <2>1. \A k \in Jobs \ {j} : Same(k)
    BY <1>a, <1>24 DEF RecordCancel, Go, TryPatch, PatchFails, Patch,
       CallSucceeds, CallFails, CancelStatus, Same, local, scicat
  <2>2. JobInv(j)'
    BY <1>a, <1>b, <1>24 DEF RecordCancel, Go, TryPatch, PatchFails, Patch,
       CallSucceeds, CallFails, CancelStatus, local, scicat, JobInv,
       SubmittedFirst, SeenIsTrue, FinishingSucceeded, TruthOf, InRequest,
       InTask, Ended, Moving, GlobusState
  <2> QED
    BY <1>c, <2>1, <2>2
<1>25. ASSUME NEW j \in Jobs, RequestDelete(j)
      PROVE  \A k \in Jobs : JobInv(k)'
  <2>1. \A k \in Jobs \ {j} : Same(k)
    BY <1>a, <1>25 DEF RequestDelete, Tracked, Found, Same, local, scicat
  <2>2. JobInv(j)'
    BY <1>a, <1>b, <1>25 DEF RequestDelete, Tracked, Found, local, scicat, JobInv,
       SubmittedFirst, SeenIsTrue, FinishingSucceeded, TruthOf, InRequest,
       InTask, Ended, Moving, GlobusState
  <2> QED
    BY <1>c, <2>1, <2>2
<1>26. ASSUME NEW j \in Jobs, RemoveRecord(j)
      PROVE  \A k \in Jobs : JobInv(k)'
  <2>1. \A k \in Jobs \ {j} : Same(k)
    BY <1>a, <1>26 DEF RemoveRecord, TryPatch, PatchFails, Patch,
       CallSucceeds, CallFails, Same, local, scicat
  <2>2. JobInv(j)'
    <3>1. /\ record'[j] \in {record[j], "removed"}
          /\ UNCHANGED <<pc, seen, globus, ready, archived, unfinished>>
      BY <1>a, <1>26 DEF RemoveRecord, TryPatch, PatchFails, Patch
    <3>2. delete[j] # "none" /\ delete'[j] # "none"
      BY <1>a, <1>26 DEF RemoveRecord
    <3> QED
      BY <1>b, <3>1, <3>2 DEF JobInv, SubmittedFirst, SeenIsTrue,
         FinishingSucceeded, TruthOf, InRequest, InTask
  <2> QED
    BY <1>c, <2>1, <2>2
<1>27. ASSUME NEW j \in Jobs, RestoreJob(j)
      PROVE  \A k \in Jobs : JobInv(k)'
  <2>1. \A k \in Jobs \ {j} : Same(k)
    BY <1>a, <1>27 DEF RestoreJob, Same, local, scicat
  <2>2. JobInv(j)'
    BY <1>a, <1>b, <1>27 DEF RestoreJob, local, scicat, JobInv,
       SubmittedFirst, SeenIsTrue, FinishingSucceeded, TruthOf, InRequest,
       InTask, Ended, Moving, GlobusState
  <2> QED
    BY <1>c, <2>1, <2>2
<1>28. ASSUME NEW j \in Jobs, Transfer(j)
      PROVE  \A k \in Jobs : JobInv(k)'
  <2>1. \A k \in Jobs \ {j} : Same(k)
    BY <1>a, <1>28 DEF Transfer, Same, local, scicat
  <2>2. JobInv(j)'
    BY <1>a, <1>b, <1>28 DEF Transfer, local, scicat, JobInv, SubmittedFirst,
       SeenIsTrue, FinishingSucceeded, TruthOf, InRequest, InTask, Ended,
       Moving, GlobusState
  <2> QED
    BY <1>c, <2>1, <2>2
<1>29. ASSUME Crash PROVE \A k \in Jobs : JobInv(k)'
  BY <1>a, <1>b, <1>29 DEF Crash, scicat, JobInv, SubmittedFirst, SeenIsTrue,
     FinishingSucceeded, TruthOf, InRequest, InTask
<1>30. ASSUME Restart PROVE \A k \in Jobs : JobInv(k)'
  BY <1>a, <1>b, <1>30 DEF Restart, Unfinished, scicat, JobInv, SubmittedFirst,
     SeenIsTrue, FinishingSucceeded, TruthOf
<1>31. CASE Serve \/ UNCHANGED vars
  <2>1. \A k \in Jobs : Same(k)
    BY <1>31 DEF Serve, vars, local, scicat, Same
  <2> QED
    BY <1>b, <2>1, SameKeepsJobInv
<1> QED
  BY <1>1, <1>2, <1>3, <1>4, <1>5, <1>6, <1>7, <1>8, <1>9, <1>10, <1>11,
     <1>12, <1>13, <1>14, <1>15, <1>16, <1>17, <1>18, <1>19, <1>20, <1>21,
     <1>22, <1>23, <1>24, <1>25, <1>26, <1>27, <1>28, <1>29, <1>30, <1>31 DEF
     Next, RequestStep, TaskStep

LEMMA NextIInv == IInv /\ [Next]_vars => IInv'
BY NextTypeOK, NextJobInv DEF IInv

LEMMA IInvImplies == IInv => RecordIsTruthful /\ ReadyOnlyIfSucceeded
BY DEF IInv, JobInv, TruthOf, Ended, RecordIsTruthful, ReadyOnlyIfSucceeded

-----------------------------------------------------------------------------
(* The theorems. *)

\* In every reachable state what each handler and task remembers is true of
\* Globus and of SciCat.
THEOREM TrackingInvariant == Spec => []IInv
BY InitIInv, NextIInv, PTL DEF Spec

\* The types of the variables hold in every reachable state; nothing is in
\* progress while the process is down.
THEOREM TrackingTypeCorrect == Spec => []TypeOK
BY TrackingInvariant, PTL DEF IInv

\* SciCat says "finished" only of a transfer that succeeded and "cancelled"
\* only of one that has stopped.
THEOREM RecordTruthful == Spec => []RecordIsTruthful
BY TrackingInvariant, IInvImplies, PTL

\* No dataset is marked or archived whose transfer did not succeed.
THEOREM ReadySucceeded == Spec => []ReadyOnlyIfSucceeded
BY TrackingInvariant, IInvImplies, PTL

=============================================================================
