---------------------------- MODULE TransferJob ----------------------------
(***************************************************************************)
(* What the proxy promises of the transfers it is asked for, without any   *)
(* of its goroutines, calls, failures or crashes: the SciCat job tells a   *)
(* true story of the transfer that ends at most once, and the dataset is   *)
(* marked and archived only behind that story.  TransferTracking and Proxy *)
(* implement it.                                                           *)
(***************************************************************************)
CONSTANT Jobs  \* transfers ever requested

VARIABLES
  transfer,  \* what Globus does: "moving" until it has succeeded or failed
  told,      \* what the SciCat job says
  dataset,   \* what became of the dataset
  wanted     \* the request asked for archival

vars == <<transfer, told, dataset, wanted>>

Over == {"succeeded", "failed"}

\* "open": the job exists and does not say how the transfer ended.
Ending == {"finished", "cancelled", "not cancelled"}

Init ==
  /\ transfer = [j \in Jobs |-> "none"]
  /\ told = [j \in Jobs |-> "nothing"]
  /\ dataset = [j \in Jobs |-> "untouched"]
  /\ wanted \in [Jobs -> BOOLEAN]

\* A transfer is requested once and ends once.
Begin(j) ==
  /\ transfer[j] = "none"
  /\ transfer' = [transfer EXCEPT ![j] = "moving"]
  /\ UNCHANGED <<told, dataset, wanted>>

End(j) ==
  /\ transfer[j] = "moving"
  /\ \E how \in Over : transfer' = [transfer EXCEPT ![j] = how]
  /\ UNCHANGED <<told, dataset, wanted>>

\* The job is created for a transfer that Globus has accepted.
Open(j) ==
  /\ told[j] = "nothing"
  /\ transfer[j] # "none"
  /\ told' = [told EXCEPT ![j] = "open"]
  /\ UNCHANGED <<transfer, dataset, wanted>>

\* The end is told once, and truly.
TellEnd(j) ==
  /\ told[j] = "open"
  /\ \E how \in Ending :
       /\ how = "finished" => transfer[j] = "succeeded"
       /\ how = "cancelled" => transfer[j] \in Over
       /\ told' = [told EXCEPT ![j] = how]
  /\ UNCHANGED <<transfer, dataset, wanted>>

Remove(j) ==
  /\ told[j] \in Ending \cup {"open"}
  /\ told' = [told EXCEPT ![j] = "removed"]
  /\ UNCHANGED <<transfer, dataset, wanted>>

\* The dataset follows the story: marked once "finished" was told, archived
\* once, after that, and only if the request asked for it.
Mark(j) ==
  /\ dataset[j] = "untouched"
  /\ transfer[j] = "succeeded"
  /\ told[j] \in {"finished", "removed"}
  /\ dataset' = [dataset EXCEPT ![j] = "marked"]
  /\ UNCHANGED <<transfer, told, wanted>>

Archive(j) ==
  /\ dataset[j] = "marked"
  /\ wanted[j]
  /\ dataset' = [dataset EXCEPT ![j] = "archived"]
  /\ UNCHANGED <<transfer, told, wanted>>

Next ==
  \E j \in Jobs :
    \/ Begin(j) \/ End(j)
    \/ Open(j) \/ TellEnd(j) \/ Remove(j)
    \/ Mark(j) \/ Archive(j)

Spec == Init /\ [][Next]_vars

=============================================================================
