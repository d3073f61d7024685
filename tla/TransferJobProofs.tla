------------------------- MODULE TransferJobProofs -------------------------
(***************************************************************************)
(* The tracking implements TransferJob, for every set of transfers and any *)
(* number of failing calls and deletions, if no job is ever resumed: the   *)
(* filter of the restore finds nothing (~MissingIsFalse), however often    *)
(* the process crashes, or it does not crash.                              *)
(***************************************************************************)
EXTENDS TransferTrackingProofs

NothingResumed == ~MissingIsFalse \/ MaxCrashes = 0

-----------------------------------------------------------------------------
(* What each place of a goroutine knows of the SciCat job. *)

OpenRecord == {"started", "transferring", "poll failed"}

\* The code that the job has, as long as nobody has removed it.
RecordFits(j) ==
  /\ pc[j] \in {"idle", "rejected", "submitted"} => record[j] = "absent"
  /\ pc[j] = "created" => record[j] = "created"
  /\ pc[j] = "compensating" => record[j] \in {"absent", "created", "started"}
  /\ pc[j] \in {"started", "queued"} => record[j] = "started"
  /\ pc[j] \in {"loop", "reporting", "cancelling", "recording"} =>
       record[j] \in OpenRecord
  /\ pc[j] \in {"finishing", "explaining", "archiving"} =>
       record[j] = "finished"

\* The places at which the dataset may already be marked, and archived.
AfterMark == {"explaining", "archiving", "ended", "lost"}
AfterArchive == {"ended", "lost"}

\* Nothing is ever resumed, the record is where the goroutine left it, and the
\* dataset follows it.
StoryInv(j) ==
  /\ j \notin unfinished
  /\ pc[j] = "idle" => globus[j] = "none"
  /\ record[j] = "removed" \/ RecordFits(j)
  /\ ready[j] => /\ pc[j] \in AfterMark
                 /\ record[j] \in {"finished", "not archivable", "removed"}
  /\ archived[j] # 0 => archived[j] = 1 /\ pc[j] \in AfterArchive
  /\ archive[j] \/ archived[j] > 0 => autoArchive[j]

Known(j) == JobInv(j) /\ StoryInv(j)

\* A step that leaves job k alone.
SameStory(k) ==
  /\ Same(k)
  /\ archive'[k] = archive[k]
  /\ autoArchive'[k] = autoArchive[k]

LEMMA SameKeepsStory == \A k \in Jobs : StoryInv(k) /\ SameStory(k) => StoryInv(k)'
<1> SUFFICES ASSUME NEW k \in Jobs, StoryInv(k), SameStory(k) PROVE StoryInv(k)'
    OBVIOUS
<1>1. RecordFits(k) => RecordFits(k)'
  BY DEF SameStory, Same, RecordFits
<1> QED
  BY <1>1 DEF StoryInv, SameStory, Same

LEMMA InitStory == Init => \A j \in Jobs : StoryInv(j)
<1> SUFFICES ASSUME Init, NEW j \in Jobs PROVE StoryInv(j)
    OBVIOUS
<1>1. /\ pc[j] = "idle" /\ globus[j] = "none" /\ record[j] = "absent"
      /\ ~ready[j] /\ archived[j] = 0 /\ ~archive[j] /\ unfinished = {}
  BY DEF Init
<1> QED
  BY <1>1 DEF StoryInv, RecordFits

-----------------------------------------------------------------------------
(* A step of one transfer leaves the others alone. *)

StepOf(j) ==
  \/ RefuseRequest(j) \/ SubmitTransfer(j) \/ SubmitFails(j)
  \/ RequestStep(j) \/ TaskStep(j)
  \/ RequestDelete(j) \/ RemoveRecord(j)
  \/ Transfer(j)

LEMMA OthersSame ==
  ASSUME TypeOK, NEW j \in Jobs, StepOf(j)
  PROVE  /\ \A k \in Jobs \ {j} : SameStory(k)
         /\ unfinished' = unfinished /\ autoArchive' = autoArchive
<1> USE DEF TypeOK, SameStory, Same, local, scicat, Go, Patch, TryPatch,
        PatchFails, StopTransfer
<1>1. CASE RefuseRequest(j) \/ SubmitTransfer(j) \/ SubmitFails(j)
  BY <1>1 DEF RefuseRequest, SubmitTransfer, SubmitFails
<1>2. CASE RequestStep(j)
  BY <1>2 DEF RequestStep, CreateJob, CreateJobFails, StartRecord,
     StartRecordFails, Compensate, AddTransferTask
<1>3. CASE \/ StartTask(j) \/ HearCancel(j)
           \/ CheckTransfer(j) \/ CheckTransferFails(j)
           \/ Report(j) \/ ReportRefused(j) \/ ReportFails(j)
  BY <1>3 DEF StartTask, HearCancel, CheckTransfer, CheckTransferFails, Report,
     ReportRefused, ReportFails
<1>4. CASE \/ MarkReady(j) \/ MarkReadyFails(j) \/ FinishWithoutToken(j)
           \/ Explain(j) \/ CreateArchivalJob(j)
  BY <1>4 DEF MarkReady, MarkReadyFails, FinishWithoutToken, Explain,
     CreateArchivalJob, Archived
<1>5. CASE CancelTransfer(j) \/ CancelTransferFails(j) \/ RecordCancel(j)
  BY <1>5 DEF CancelTransfer, CancelTransferFails, RecordCancel
<1>6. CASE RequestDelete(j) \/ RemoveRecord(j) \/ Transfer(j)
  BY <1>6 DEF RequestDelete, RemoveRecord, Transfer
<1> QED
  BY <1>1, <1>2, <1>3, <1>4, <1>5, <1>6 DEF StepOf, TaskStep

\* A record that exists goes on existing, if only as removed.
LEMMA RecordStays ==
  ASSUME IInv, [Next]_vars, NEW k \in Jobs, record[k] # "absent"
  PROVE  record'[k] # "absent"
<1> USE DEF IInv, TypeOK, JobInv, SubmittedFirst
<1>1. ASSUME NEW j \in Jobs, StepOf(j)
      PROVE  record'[k] # "absent"
  <2> USE DEF local, scicat, Go, Patch, TryPatch, PatchFails
  <2>1. CASE k # j
    BY <1>1, <2>1, OthersSame DEF SameStory, Same
  <2>2. CASE k = j /\ RequestStep(j)
    BY <2>2 DEF RequestStep, CreateJob, CreateJobFails, StartRecord,
       StartRecordFails, Compensate, AddTransferTask
  <2>3. CASE k = j /\ (Report(j) \/ ReportFails(j))
    BY <2>3 DEF Report, ReportFails, Status
  <2>4. CASE k = j /\ (Explain(j) \/ RecordCancel(j))
    BY <2>4 DEF Explain, RecordCancel, CancelStatus
  <2>5. CASE k = j /\ (RemoveRecord(j) \/ RequestDelete(j) \/ Transfer(j))
    BY <2>5 DEF RemoveRecord, RequestDelete, Transfer
  <2>6. CASE \/ RefuseRequest(j) \/ SubmitTransfer(j) \/ SubmitFails(j)
             \/ StartTask(j) \/ HearCancel(j)
             \/ CheckTransfer(j) \/ CheckTransferFails(j)
             \/ ReportRefused(j)
             \/ MarkReady(j) \/ MarkReadyFails(j) \/ FinishWithoutToken(j)
             \/ CreateArchivalJob(j)
             \/ CancelTransfer(j) \/ CancelTransferFails(j)
    BY <2>6 DEF RefuseRequest, SubmitTransfer, SubmitFails, StartTask,
       HearCancel, CheckTransfer, CheckTransferFails, ReportRefused,
       MarkReady, MarkReadyFails, FinishWithoutToken, CreateArchivalJob,
       CancelTransfer, CancelTransferFails
  <2> QED
    BY <1>1, <2>1, <2>2, <2>3, <2>4, <2>5, <2>6 DEF StepOf, TaskStep
<1>2. ASSUME NEW j \in Jobs, RestoreJob(j)
      PROVE  record'[k] # "absent"
  BY <1>2 DEF RestoreJob, scicat
<1>3. CASE Crash \/ Restart \/ Serve \/ UNCHANGED vars
  BY <1>3 DEF Crash, Restart, Serve, vars, scicat
<1> QED
  BY <1>1, <1>2, <1>3 DEF Next, StepOf

-----------------------------------------------------------------------------
(* Steps keep what is known of the job. *)

LEMMA ArchivedOnce ==
  ASSUME TypeOK, NEW j \in Jobs, archived[j] = 0, Archived(j)
  PROVE  archived'[j] # 0 => archived'[j] = 1 /\ archive[j]
<1>1. archived'[j] = IF archive[j] THEN archived[j] + 1 ELSE archived[j]
  BY DEF TypeOK, Archived
<1> QED
  BY <1>1

LEMMA StepKeepsStory ==
  ASSUME TypeOK, NEW j \in Jobs, Known(j), StepOf(j)
  PROVE  StoryInv(j)'
<1> USE DEF TypeOK, Known, JobInv, SubmittedFirst, FinishingSucceeded,
        StoryInv, RecordFits, OpenRecord, AfterMark, AfterArchive, InRequest,
        InTask, local, scicat, Go, Patch, PatchFails, StopTransfer
<1>1. CASE RefuseRequest(j) \/ SubmitTransfer(j) \/ SubmitFails(j)
  BY <1>1 DEF RefuseRequest, SubmitTransfer, SubmitFails
<1>2. CASE CreateJob(j) \/ CreateJobFails(j)
  BY <1>2 DEF CreateJob, CreateJobFails
<1>3. CASE StartRecord(j) \/ StartRecordFails(j)
  BY <1>3 DEF StartRecord, StartRecordFails
<1>4. CASE Compensate(j) \/ AddTransferTask(j)
  BY <1>4 DEF Compensate, AddTransferTask
<1>5. CASE \/ StartTask(j) \/ HearCancel(j)
           \/ CheckTransfer(j) \/ CheckTransferFails(j)
  BY <1>5 DEF StartTask, HearCancel, CheckTransfer, CheckTransferFails
<1>6. CASE Report(j) \/ ReportRefused(j) \/ ReportFails(j)
  <2>1. Status(j) \in OpenRecord \cup {"finished"}
    BY DEF Status
  <2>2. Status(j) = "finished" <=> seen[j] = "succeeded"
    BY DEF Status
  <2> QED
    BY <1>6, <2>1, <2>2 DEF Report, ReportRefused, ReportFails, Record
<1>7. CASE MarkReady(j) \/ MarkReadyFails(j) \/ FinishWithoutToken(j)
  BY <1>7 DEF MarkReady, MarkReadyFails, FinishWithoutToken, Record
<1>8. CASE Explain(j)
  BY <1>8 DEF Explain, TryPatch, Record
<1>12. CASE CreateArchivalJob(j)
  <2>1. /\ pc[j] = "archiving" /\ pc'[j] = "ended"
        /\ UNCHANGED <<globus, record, ready, archive, autoArchive, unfinished>>
    BY <1>12 DEF CreateArchivalJob
  <2>2. archived[j] = 0 /\ ready[j] /\ record[j] \in {"finished", "removed"}
    BY <2>1
  <2>3. archived'[j] # 0 => archived'[j] = 1 /\ archive[j]
    <3>1. archived' = archived \/ Archived(j)
      BY <1>12 DEF CreateArchivalJob
    <3> QED
      BY <2>2, <3>1, ArchivedOnce
  <2> QED
    BY <2>1, <2>2, <2>3
<1>9. CASE CancelTransfer(j) \/ CancelTransferFails(j) \/ RecordCancel(j)
  BY <1>9 DEF CancelTransfer, CancelTransferFails, RecordCancel, TryPatch,
     CancelStatus, Record
<1>10. CASE RequestDelete(j) \/ RemoveRecord(j)
  <2>1. /\ record'[j] \in {record[j], "removed"}
        /\ UNCHANGED <<pc, globus, ready, archived, archive, autoArchive,
                       unfinished>>
    BY <1>10 DEF RequestDelete, RemoveRecord, TryPatch
  <2>2. RecordFits(j) /\ record'[j] = record[j] => RecordFits(j)'
    BY <2>1
  <2> QED
    BY <2>1, <2>2
<1>11. CASE Transfer(j)
  BY <1>11 DEF Transfer
<1> QED
  BY <1>1, <1>2, <1>3, <1>4, <1>5, <1>6, <1>7, <1>8, <1>9, <1>10, <1>11,
     <1>12
     DEF StepOf, RequestStep, TaskStep

\* The steps of the whole process leave the outside world alone, and resume
\* nothing.
LEMMA ProcessKeepsStory ==
  ASSUME ~MissingIsFalse \/ up # "down", TypeOK, Crash \/ Restart \/ Serve,
         NEW k \in Jobs, StoryInv(k)
  PROVE  StoryInv(k)'
<1>1. /\ record'[k] = record[k] /\ ready'[k] = ready[k]
      /\ archived'[k] = archived[k] /\ globus'[k] = globus[k]
      /\ autoArchive'[k] = autoArchive[k]
  BY DEF Crash, Restart, Serve, scicat
<1>2. pc'[k] = pc[k] \/ pc'[k] = "interrupted" \/ pc'[k] = "lost"
  BY DEF Crash, Restart, Serve, TypeOK
<1>3. ~(pc[k] \in AfterMark /\ pc'[k] = "interrupted")
  BY DEF Crash, Restart, Serve, TypeOK, AfterMark, InRequest
<1>4. k \notin unfinished'
  BY DEF Crash, Restart, Serve, Unfinished, StoryInv
<1>5. archive'[k] => archive[k]
  <2>1. CASE Crash
    <3>1. archive'[k] = FALSE
      BY <2>1 DEF Crash
    <3> QED
      BY <3>1
  <2>2. CASE Restart \/ Serve
    <3>1. archive' = archive
      BY <2>2 DEF Restart, Serve
    <3> QED
      BY <3>1
  <2> QED
    BY <2>1, <2>2
<1>6. RecordFits(k) => RecordFits(k)'
  BY <1>1, <1>2 DEF RecordFits
<1>7. (pc[k] \in AfterMark => pc'[k] \in AfterMark) /\
      (pc[k] \in AfterArchive => pc'[k] \in AfterArchive)
  BY <1>2, <1>3 DEF AfterMark, AfterArchive
<1> QED
  BY <1>1, <1>2, <1>4, <1>5, <1>6, <1>7 DEF StoryInv

AllKnown == IInv /\ \A j \in Jobs : StoryInv(j)

LEMMA NextStory ==
  ASSUME ~MissingIsFalse \/ up # "down", AllKnown, [Next]_vars
  PROVE  \A k \in Jobs : StoryInv(k)'
<1>1. ASSUME NEW j \in Jobs, StepOf(j) PROVE \A k \in Jobs : StoryInv(k)'
  <2>1. StoryInv(j)'
    BY <1>1, StepKeepsStory DEF AllKnown, IInv, Known
  <2> QED
    BY <1>1, <2>1, OthersSame, SameKeepsStory DEF AllKnown, IInv
<1>2. CASE Crash \/ Restart \/ Serve
  BY <1>2, ProcessKeepsStory DEF AllKnown, IInv
<1>3. ASSUME NEW j \in Jobs, RestoreJob(j) PROVE FALSE
  BY <1>3 DEF RestoreJob, AllKnown, StoryInv
<1>4. CASE UNCHANGED vars
  BY <1>4, SameKeepsStory DEF AllKnown, SameStory, Same, vars, local, scicat
<1> QED
  BY <1>1, <1>2, <1>3, <1>4 DEF Next, StepOf

\* The process goes down in a crash only.
LEMMA StepKeepsUp ==
  ASSUME NEW j \in Jobs, StepOf(j)
  PROVE  up' = up
BY DEF StepOf, RequestStep, TaskStep, RefuseRequest, SubmitTransfer,
       SubmitFails, CreateJob, CreateJobFails, StartRecord, StartRecordFails,
       Compensate, AddTransferTask, StartTask, HearCancel, CheckTransfer,
       CheckTransferFails, Report, ReportRefused, ReportFails, MarkReady,
       MarkReadyFails, FinishWithoutToken, Explain, CreateArchivalJob,
       CancelTransfer, CancelTransferFails, RecordCancel, RequestDelete,
       RemoveRecord, Transfer, local

NeverDown == MaxCrashes = 0 => up # "down"

LEMMA NextNeverDown ==
  ASSUME TypeOK, NeverDown, [Next]_vars
  PROVE  NeverDown'
<1>1. ASSUME MaxCrashes = 0 PROVE ~Crash
  BY <1>1 DEF TypeOK, Crash
<1>2. ASSUME NEW j \in Jobs, StepOf(j) \/ RestoreJob(j) PROVE up' = up
  BY <1>2, StepKeepsUp DEF RestoreJob
<1>3. CASE Restart \/ Serve \/ UNCHANGED vars
  BY <1>3 DEF NeverDown, Restart, Serve, vars, local
<1> QED
  BY <1>1, <1>2, <1>3 DEF NeverDown, Next, StepOf

\* In every reachable state what the SciCat job of a transfer tells, what is
\* left of its dataset and where its task is fit together.
THEOREM StoryInvariant == ASSUME NothingResumed PROVE Spec => []AllKnown
<1>1. Init => AllKnown /\ NeverDown
  BY InitIInv, InitStory DEF AllKnown, NeverDown, Init
<1>2. AllKnown /\ NeverDown /\ [Next]_vars => AllKnown' /\ NeverDown'
  BY NextStory, NextIInv, NextNeverDown
  DEF AllKnown, IInv, NeverDown, NothingResumed
<1> QED
  BY <1>1, <1>2, PTL DEF Spec

\* A dataset is marked only behind a record that says finished, and the record
\* goes on saying so whatever fails, is deleted or crashes.
THEOREM ReadyRecorded == ASSUME NothingResumed PROVE Spec => []ReadyIsRecorded
<1>1. AllKnown => ReadyIsRecorded
  BY DEF AllKnown, StoryInv, ReadyIsRecorded
<1> QED
  BY <1>1, StoryInvariant, PTL

\* A transfer is archived only if its POST asked for it, and once.
THEOREM ArchivedAsAsked == ASSUME NothingResumed PROVE Spec => []ArchiveAsAsked
<1>1. AllKnown => ArchiveAsAsked
  <2> SUFFICES ASSUME AllKnown, NEW j \in Jobs
               PROVE  (archived[j] > 0 => autoArchive[j]) /\ archived[j] <= 1
    BY DEF ArchiveAsAsked, ArchiveOnlyIfAsked
  <2>1. StoryInv(j) /\ archived[j] \in Nat
    BY DEF AllKnown, IInv, TypeOK
  <2>2. archived[j] # 0 => archived[j] = 1
    BY <2>1 DEF StoryInv
  <2>3. archived[j] > 0 => autoArchive[j]
    BY <2>1 DEF StoryInv
  <2> QED
    BY <2>1, <2>2, <2>3
<1> QED
  BY <1>1, StoryInvariant, PTL

-----------------------------------------------------------------------------
(* Every step is a step of TransferJob or leaves its state alone. *)

\* What a step does to the abstract state of job j: at most one of the three
\* parts moves, and as TransferJob lets it.
TransferMoves(j) ==
  \/ TransferOf(j) = "none" /\ TransferOf(j)' = "moving"
  \/ TransferOf(j) = "moving" /\ TransferOf(j)' \in Ended

ToldMoves(j) ==
  \/ /\ ToldBy(j) = "nothing" /\ ToldBy(j)' = "open"
     /\ TransferOf(j) # "none"
  \/ /\ ToldBy(j) = "open"
     /\ \/ ToldBy(j)' = "finished" /\ TransferOf(j) = "succeeded"
        \/ ToldBy(j)' = "cancelled" /\ TransferOf(j) \in Ended
        \/ ToldBy(j)' = "not cancelled"
  \/ /\ ToldBy(j) \in {"open", "finished", "cancelled", "not cancelled"}
     /\ ToldBy(j)' = "removed"

DatasetMoves(j) ==
  \/ /\ DatasetOf(j) = "untouched" /\ DatasetOf(j)' = "marked"
     /\ TransferOf(j) = "succeeded" /\ ToldBy(j) \in {"finished", "removed"}
  \/ /\ DatasetOf(j) = "marked" /\ DatasetOf(j)' = "archived"
     /\ autoArchive[j]

SameTransfer(k) == TransferOf(k)' = TransferOf(k)
SameTold(k) == ToldBy(k)' = ToldBy(k)
SameDataset(k) == DatasetOf(k)' = DatasetOf(k)
SameAll(k) == SameTransfer(k) /\ SameTold(k) /\ SameDataset(k)

Moves(j) ==
  \/ SameAll(j)
  \/ TransferMoves(j) /\ SameTold(j) /\ SameDataset(j)
  \/ SameTransfer(j) /\ ToldMoves(j) /\ SameDataset(j)
  \/ SameTransfer(j) /\ SameTold(j) /\ DatasetMoves(j)

LEMMA MovesIsJobStep ==
  ASSUME NEW j \in Jobs, Moves(j), \A k \in Jobs \ {j} : SameAll(k),
         autoArchive' = autoArchive
  PROVE  [Job!Next]_(Job!vars)
<1> DEFINE t == [k \in Jobs |-> TransferOf(k)]
           s == [k \in Jobs |-> ToldBy(k)]
           d == [k \in Jobs |-> DatasetOf(k)]
<1>1. SameTransfer(j) => t' = t
  BY DEF SameAll, SameTransfer
<1>2. SameTold(j) => s' = s
  BY DEF SameAll, SameTold
<1>3. SameDataset(j) => d' = d
  BY DEF SameAll, SameDataset
<1>4. t' = [t EXCEPT ![j] = TransferOf(j)']
  BY DEF SameAll, SameTransfer
<1>5. s' = [s EXCEPT ![j] = ToldBy(j)']
  BY DEF SameAll, SameTold
<1>6. d' = [d EXCEPT ![j] = DatasetOf(j)']
  BY DEF SameAll, SameDataset
<1>7. t[j] = TransferOf(j) /\ s[j] = ToldBy(j) /\ d[j] = DatasetOf(j)
  OBVIOUS
<1> HIDE DEF t, s, d
<1>8. CASE SameAll(j)
  <2>1. UNCHANGED Job!vars
    BY <1>8, <1>1, <1>2, <1>3 DEF SameAll, Job!vars, t, s, d
  <2> QED
    BY <2>1
<1>9. CASE TransferMoves(j) /\ SameTold(j) /\ SameDataset(j)
  <2>1. CASE TransferOf(j) = "none" /\ TransferOf(j)' = "moving"
    <3>1. t[j] = "none" /\ t' = [t EXCEPT ![j] = "moving"] /\ s' = s /\ d' = d
      BY <1>2, <1>3, <1>4, <1>7, <1>9, <2>1
    <3>2. Job!Begin(j)
      BY <3>1 DEF Job!Begin, t, s, d
    <3> QED
      BY <3>2 DEF Job!Next
  <2>2. CASE TransferOf(j) = "moving" /\ TransferOf(j)' \in Ended
    <3>1. /\ t[j] = "moving" /\ s' = s /\ d' = d
          /\ \E how \in Ended : t' = [t EXCEPT ![j] = how]
      BY <1>2, <1>3, <1>4, <1>7, <1>9, <2>2
    <3>2. Job!End(j)
      BY <3>1 DEF Job!End, Job!Over, Ended, t, s, d
    <3> QED
      BY <3>2 DEF Job!Next
  <2> QED
    BY <1>9, <2>1, <2>2 DEF TransferMoves
<1>10. CASE SameTransfer(j) /\ ToldMoves(j) /\ SameDataset(j)
  <2>1. t' = t /\ d' = d
    BY <1>1, <1>3, <1>10
  <2>2. CASE /\ ToldBy(j) = "nothing" /\ ToldBy(j)' = "open"
             /\ TransferOf(j) # "none"
    <3>1. s[j] = "nothing" /\ t[j] # "none" /\ s' = [s EXCEPT ![j] = "open"]
      BY <1>5, <1>7, <2>2
    <3>2. Job!Open(j)
      BY <2>1, <3>1 DEF Job!Open, t, s, d
    <3> QED
      BY <3>2 DEF Job!Next
  <2>3. CASE /\ ToldBy(j) = "open"
             /\ \/ ToldBy(j)' = "finished" /\ TransferOf(j) = "succeeded"
                \/ ToldBy(j)' = "cancelled" /\ TransferOf(j) \in Ended
                \/ ToldBy(j)' = "not cancelled"
    <3>1. /\ s[j] = "open"
          /\ \E how \in {"finished", "cancelled", "not cancelled"} :
               /\ how = "finished" => t[j] = "succeeded"
               /\ how = "cancelled" => t[j] \in Ended
               /\ s' = [s EXCEPT ![j] = how]
      BY <1>5, <1>7, <2>3
    <3>2. Job!TellEnd(j)
      BY <2>1, <3>1 DEF Job!TellEnd, Job!Over, Job!Ending, Ended, t, s, d
    <3> QED
      BY <3>2 DEF Job!Next
  <2>4. CASE /\ ToldBy(j) \in {"open", "finished", "cancelled", "not cancelled"}
             /\ ToldBy(j)' = "removed"
    <3>1. /\ s[j] \in {"open", "finished", "cancelled", "not cancelled"}
          /\ s' = [s EXCEPT ![j] = "removed"]
      BY <1>5, <1>7, <2>4
    <3>2. Job!Remove(j)
      BY <2>1, <3>1 DEF Job!Remove, Job!Ending, t, s, d
    <3> QED
      BY <3>2 DEF Job!Next
  <2> QED
    BY <1>10, <2>2, <2>3, <2>4 DEF ToldMoves
<1>11. CASE SameTransfer(j) /\ SameTold(j) /\ DatasetMoves(j)
  <2>1. t' = t /\ s' = s
    BY <1>1, <1>2, <1>11
  <2>2. CASE /\ DatasetOf(j) = "untouched" /\ DatasetOf(j)' = "marked"
             /\ TransferOf(j) = "succeeded"
             /\ ToldBy(j) \in {"finished", "removed"}
    <3>1. /\ d[j] = "untouched" /\ d' = [d EXCEPT ![j] = "marked"]
          /\ t[j] = "succeeded" /\ s[j] \in {"finished", "removed"}
      BY <1>6, <1>7, <2>2
    <3>2. Job!Mark(j)
      BY <2>1, <3>1 DEF Job!Mark, t, s, d
    <3> QED
      BY <3>2 DEF Job!Next
  <2>3. CASE /\ DatasetOf(j) = "marked" /\ DatasetOf(j)' = "archived"
             /\ autoArchive[j]
    <3>1. d[j] = "marked" /\ d' = [d EXCEPT ![j] = "archived"]
      BY <1>6, <1>7, <2>3
    <3>2. Job!Archive(j)
      BY <2>1, <2>3, <3>1 DEF Job!Archive, t, s, d
    <3> QED
      BY <3>2 DEF Job!Next
  <2> QED
    BY <1>11, <2>2, <2>3 DEF DatasetMoves
<1> QED
  BY <1>8, <1>9, <1>10, <1>11 DEF Moves

\* A part of which the variables are unchanged is unchanged.
LEMMA Unmoved ==
  ASSUME NEW k
  PROVE  /\ globus'[k] = globus[k] => SameTransfer(k)
         /\ record'[k] = record[k] => SameTold(k)
         /\ ready'[k] = ready[k] /\ archived'[k] = archived[k] => SameDataset(k)
<1>1. globus'[k] = globus[k] => SameTransfer(k)
  BY DEF SameTransfer, TransferOf
<1>2. record'[k] = record[k] => SameTold(k)
  BY DEF SameTold, ToldBy
<1>3. ready'[k] = ready[k] /\ archived'[k] = archived[k] => SameDataset(k)
  BY DEF SameDataset, DatasetOf
<1> QED
  BY <1>1, <1>2, <1>3

\* What may happen to a transfer, to a record and to a dataset.
GlobusMoves(j) ==
  \/ globus'[j] = globus[j]
  \/ globus[j] = "none" /\ globus'[j] \in {"none", "active"}
  \/ globus[j] \in Moving /\ globus'[j] \in GlobusState \ {"none"}

LEMMA GlobusStep ==
  ASSUME NEW j \in Jobs, GlobusMoves(j), UNCHANGED <<record, ready, archived>>
  PROVE  Moves(j)
<1>1. SameTold(j) /\ SameDataset(j)
  BY Unmoved
<1>2. SameTransfer(j) \/ TransferMoves(j)
  BY DEF GlobusMoves, SameTransfer, TransferMoves, TransferOf, Moving,
     GlobusState, Ended
<1> QED
  BY <1>1, <1>2 DEF Moves, SameAll

RecordMoves(j) ==
  \/ record'[j] = record[j]
  \/ /\ record[j] = "absent" /\ record'[j] = "created"
     /\ globus[j] # "none"
  \/ record[j] = "created" /\ record'[j] = "started"
  \/ record[j] \in OpenRecord /\ record'[j] \in OpenRecord
  \/ /\ record[j] \in OpenRecord /\ record'[j] = "finished"
     /\ globus[j] = "succeeded"
  \/ record[j] = "finished" /\ record'[j] = "not archivable"
  \/ /\ record[j] \in OpenRecord /\ record'[j] = "cancelled"
     /\ globus[j] \in Ended
  \/ record[j] \in OpenRecord /\ record'[j] = "not cancelled"
  \/ record[j] \in Record \ {"absent"} /\ record'[j] = "removed"

LEMMA RecordStep ==
  ASSUME NEW j \in Jobs, RecordMoves(j), UNCHANGED <<globus, ready, archived>>
  PROVE  Moves(j)
<1>1. SameTransfer(j) /\ SameDataset(j)
  BY Unmoved
<1>2. globus[j] \in Ended \cup {"none"} => TransferOf(j) = globus[j]
  BY DEF TransferOf, Moving, Ended
<1>3. globus[j] # "none" => TransferOf(j) # "none"
  BY DEF TransferOf, Moving
<1>4. SameTold(j) \/ ToldMoves(j)
  BY <1>2, <1>3 DEF RecordMoves, SameTold, ToldMoves, ToldBy, OpenRecord,
     Record, Ended
<1> QED
  BY <1>1, <1>4 DEF Moves, SameAll

\* Mark or archive.
DatasetSteps(j) ==
  \/ ready'[j] = ready[j] /\ archived'[j] = archived[j]
  \/ /\ ~ready[j] /\ ready'[j] /\ archived[j] = 0 /\ archived'[j] = 0
     /\ globus[j] = "succeeded" /\ record[j] \in {"finished", "removed"}
  \/ /\ ready[j] /\ ready'[j] /\ archived[j] = 0 /\ archived'[j] = 1
     /\ autoArchive[j]

LEMMA DatasetStep ==
  ASSUME NEW j \in Jobs, DatasetSteps(j), UNCHANGED <<globus, record>>
  PROVE  Moves(j)
<1>1. SameTransfer(j) /\ SameTold(j)
  BY Unmoved
<1>2. CASE ready'[j] = ready[j] /\ archived'[j] = archived[j]
  <2>1. SameDataset(j)
    BY <1>2, Unmoved
  <2> QED
    BY <1>1, <2>1 DEF Moves, SameAll
<1>3. CASE /\ ~ready[j] /\ ready'[j] /\ archived[j] = 0 /\ archived'[j] = 0
           /\ globus[j] = "succeeded" /\ record[j] \in {"finished", "removed"}
  <2>1. DatasetOf(j) = "untouched" /\ DatasetOf(j)' = "marked"
    BY <1>3 DEF DatasetOf
  <2>2. TransferOf(j) = "succeeded" /\ ToldBy(j) \in {"finished", "removed"}
    BY <1>3 DEF TransferOf, Moving, ToldBy
  <2> QED
    BY <1>1, <2>1, <2>2 DEF Moves, DatasetMoves
<1>4. CASE /\ ready[j] /\ ready'[j] /\ archived[j] = 0 /\ archived'[j] = 1
           /\ autoArchive[j]
  <2>1. DatasetOf(j) = "marked" /\ DatasetOf(j)' = "archived"
    BY <1>4 DEF DatasetOf
  <2> QED
    BY <1>1, <1>4, <2>1 DEF Moves, DatasetMoves
<1> QED
  BY <1>2, <1>3, <1>4 DEF DatasetSteps

\* Each step of a transfer moves one part of the outside world.
LEMMA StepMoves ==
  ASSUME TypeOK, NEW j \in Jobs, Known(j), StepOf(j)
  PROVE  Moves(j)
<1> USE DEF Known, JobInv, StoryInv, RecordFits, SubmittedFirst, InRequest,
        InTask, local, scicat, Go
<1>t. /\ globus \in [Jobs -> GlobusState] /\ record \in [Jobs -> Record]
      /\ ready \in [Jobs -> BOOLEAN] /\ archived \in [Jobs -> Nat]
  BY DEF TypeOK
<1>1. CASE \/ RefuseRequest(j) \/ AddTransferTask(j) \/ StartTask(j)
           \/ HearCancel(j) \/ CheckTransfer(j) \/ CheckTransferFails(j)
           \/ ReportRefused(j) \/ FinishWithoutToken(j) \/ RequestDelete(j)
  <2>1. UNCHANGED <<globus, record, ready, archived>>
    BY <1>1 DEF RefuseRequest, AddTransferTask, StartTask, HearCancel,
       CheckTransfer, CheckTransferFails, ReportRefused, FinishWithoutToken,
       RequestDelete
  <2> QED
    BY <2>1, GlobusStep DEF GlobusMoves
<1>2. CASE SubmitTransfer(j) \/ SubmitFails(j) \/ Compensate(j) \/ Transfer(j)
           \/ CancelTransfer(j) \/ CancelTransferFails(j)
  <2>1. UNCHANGED <<record, ready, archived>>
    BY <1>2 DEF SubmitTransfer, SubmitFails, Compensate, Transfer,
       CancelTransfer, CancelTransferFails
  <2>2. GlobusMoves(j)
    BY <1>t, <1>2 DEF SubmitTransfer, SubmitFails, Compensate, Transfer,
       CancelTransfer, CancelTransferFails, StopTransfer, GlobusMoves,
       GlobusState, Moving
  <2> QED
    BY <2>1, <2>2, GlobusStep
<1>3. CASE CreateJob(j) \/ CreateJobFails(j)
  <2>1. UNCHANGED <<globus, ready, archived>> /\ record[j] = "absent"
        /\ globus[j] # "none"
    BY <1>3 DEF CreateJob, CreateJobFails
  <2>2. RecordMoves(j)
    BY <1>t, <1>3, <2>1 DEF CreateJob, CreateJobFails, RecordMoves
  <2> QED
    BY <2>1, <2>2, RecordStep
<1>4. CASE StartRecord(j) \/ StartRecordFails(j)
  <2>1. UNCHANGED <<globus, ready, archived>>
    BY <1>4 DEF StartRecord, StartRecordFails
  <2>2. RecordMoves(j)
    BY <1>t, <1>4 DEF StartRecord, StartRecordFails, PatchFails, Patch,
       RecordMoves
  <2> QED
    BY <2>1, <2>2, RecordStep
<1>5. CASE Report(j) \/ ReportFails(j)
  <2>1. UNCHANGED <<globus, ready, archived>>
    BY <1>5 DEF Report, ReportFails
  <2>2. Status(j) \in OpenRecord \cup {"finished"}
    BY DEF Status, OpenRecord
  <2>3. pc[j] = "reporting" /\ record'[j] \in {record[j], Status(j)}
    BY <1>t, <1>5 DEF Report, ReportFails, PatchFails, Patch
  <2>4. Status(j) = "finished" => globus[j] = "succeeded"
    BY <2>3 DEF SeenIsTrue, Status
  <2>5. record[j] = "removed" => record'[j] = "removed"
    BY <1>t, <1>5 DEF Report, ReportFails, PatchFails, Patch
  <2>6. RecordMoves(j)
    BY <2>2, <2>3, <2>4, <2>5 DEF RecordMoves
  <2> QED
    BY <2>1, <2>6, RecordStep
<1>6. CASE Explain(j)
  <2>1. UNCHANGED <<globus, ready, archived>>
    BY <1>6 DEF Explain
  <2>2. RecordMoves(j)
    BY <1>t, <1>6 DEF Explain, TryPatch, PatchFails, Patch, RecordMoves
  <2> QED
    BY <2>1, <2>2, RecordStep
<1>7. CASE RecordCancel(j)
  <2>1. UNCHANGED <<globus, ready, archived>>
    BY <1>7 DEF RecordCancel
  <2>2. RecordMoves(j)
    BY <1>t, <1>7 DEF RecordCancel, TryPatch, PatchFails, Patch, CancelStatus,
       SeenIsTrue, RecordMoves
  <2> QED
    BY <2>1, <2>2, RecordStep
<1>8. CASE RemoveRecord(j)
  <2>1. UNCHANGED <<globus, ready, archived>> /\ record[j] # "absent"
    BY <1>8 DEF RemoveRecord
  <2>2. RecordMoves(j)
    BY <1>t, <1>8, <2>1 DEF RemoveRecord, TryPatch, PatchFails, Patch,
       RecordMoves
  <2> QED
    BY <2>1, <2>2, RecordStep
<1>9. CASE MarkReady(j) \/ MarkReadyFails(j)
  <2>1. UNCHANGED <<globus, record, archived>> /\ pc[j] = "finishing"
    BY <1>9 DEF MarkReady, MarkReadyFails
  <2>2. ~ready[j] /\ archived[j] = 0 /\ globus[j] = "succeeded"
        /\ record[j] \in {"finished", "removed"}
    BY <2>1 DEF FinishingSucceeded, AfterMark, AfterArchive
  <2>3. ready'[j] = ready[j] \/ ready'[j] = TRUE
    BY <1>t, <1>9 DEF MarkReady, MarkReadyFails
  <2>4. DatasetSteps(j)
    BY <2>1, <2>2, <2>3 DEF DatasetSteps
  <2> QED
    BY <2>1, <2>4, DatasetStep
<1>10. CASE CreateArchivalJob(j)
  <2>1. UNCHANGED <<globus, record, ready>> /\ pc[j] = "archiving"
    BY <1>10 DEF CreateArchivalJob
  <2>2. ready[j] /\ archived[j] = 0
    BY <2>1 DEF FinishingSucceeded, AfterArchive
  <2>3. archived' = archived \/ Archived(j)
    BY <1>10 DEF CreateArchivalJob
  <2>4. archived'[j] # 0 => archived'[j] = 1 /\ archive[j]
    BY <2>2, <2>3, ArchivedOnce
  <2>5. DatasetSteps(j)
    BY <2>1, <2>2, <2>4 DEF DatasetSteps
  <2> QED
    BY <2>1, <2>5, DatasetStep
<1> QED
  BY <1>1, <1>2, <1>3, <1>4, <1>5, <1>6, <1>7, <1>8, <1>9, <1>10
     DEF StepOf, RequestStep, TaskStep

\* Initial states are initial states, steps are steps.
LEMMA JobInit == Init => Job!Init
<1> SUFFICES ASSUME Init PROVE Job!Init
    OBVIOUS
<1>1. \A j \in Jobs : /\ TransferOf(j) = "none" /\ ToldBy(j) = "nothing"
                     /\ DatasetOf(j) = "untouched"
  BY DEF Init, TransferOf, Moving, ToldBy, DatasetOf
<1>2. autoArchive \in [Jobs -> BOOLEAN]
  BY DEF Init
<1> QED
  BY <1>1, <1>2 DEF Job!Init

LEMMA JobNext ==
  ASSUME AllKnown, [Next]_vars
  PROVE  [Job!Next]_(Job!vars)
<1>1. ASSUME NEW j \in Jobs, StepOf(j) PROVE [Job!Next]_(Job!vars)
  <2>1. Moves(j)
    BY <1>1, StepMoves DEF AllKnown, IInv, Known
  <2>2. /\ \A k \in Jobs \ {j} : SameStory(k)
        /\ autoArchive' = autoArchive
    BY <1>1, OthersSame DEF AllKnown, IInv
  <2>3. \A k \in Jobs \ {j} : SameAll(k)
    BY <2>2, Unmoved DEF SameStory, Same, SameAll
  <2> QED
    BY <2>1, <2>2, <2>3, MovesIsJobStep
<1>2. ASSUME NEW j \in Jobs, RestoreJob(j) PROVE FALSE
  BY <1>2 DEF RestoreJob, AllKnown, StoryInv
<1>3. CASE Crash \/ Restart \/ Serve \/ UNCHANGED vars
  <2>1. UNCHANGED <<globus, record, ready, archived, autoArchive>>
    BY <1>3 DEF Crash, Restart, Serve, vars, local, scicat
  <2>2. \A k \in Jobs : SameAll(k)
    BY <2>1, Unmoved DEF SameAll
  <2>3. UNCHANGED Job!vars
    BY <2>1, <2>2 DEF SameAll, SameTransfer, SameTold, SameDataset, Job!vars
  <2> QED
    BY <2>3
<1> QED
  BY <1>1, <1>2, <1>3 DEF Next, StepOf

\* The tracking keeps the promise of TransferJob.
THEOREM TrackingImplementsJob == ASSUME NothingResumed PROVE Spec => JobPromise
BY JobInit, JobNext, StoryInvariant, PTL DEF Spec, JobPromise, Job!Spec

\* A cancelled job stays cancelled: nothing is told after an end.
THEOREM CancelledFinal == ASSUME NothingResumed PROVE Spec => CancelledIsFinal
<1> DEFINE Kept(j) == record[j] = "cancelled" =>
                        record'[j] \in {"cancelled", "removed"}
<1>1. ASSUME AllKnown, [Next]_vars PROVE \A j \in Jobs : Kept(j)
  <2>1. ASSUME NEW j \in Jobs, StepOf(j) PROVE \A k \in Jobs : Kept(k)
    <3>1. Moves(j)
      BY <1>1, <2>1, StepMoves DEF AllKnown, IInv, Known
    <3>2. Kept(j)
      BY <3>1 DEF Moves, SameAll, SameTold, ToldMoves, ToldBy
    <3>3. \A k \in Jobs \ {j} : record'[k] = record[k]
      BY <1>1, <2>1, OthersSame DEF AllKnown, IInv, SameStory, Same
    <3> QED
      BY <3>2, <3>3
  <2>2. ASSUME NEW j \in Jobs, RestoreJob(j) PROVE FALSE
    BY <1>1, <2>2 DEF RestoreJob, AllKnown, StoryInv
  <2>3. CASE Crash \/ Restart \/ Serve \/ UNCHANGED vars
    <3>1. record' = record
      BY <2>3 DEF Crash, Restart, Serve, vars, scicat
    <3> QED
      BY <3>1
  <2> QED
    BY <1>1, <2>1, <2>2, <2>3 DEF Next, StepOf
<1>2. AllKnown /\ [Next]_vars =>
        [\A j \in Jobs : record[j] = "cancelled" =>
                            record'[j] \in {"cancelled", "removed"}]_vars
  BY <1>1
<1> QED
  BY <1>2, StoryInvariant, PTL DEF Spec, CancelledIsFinal

=============================================================================
