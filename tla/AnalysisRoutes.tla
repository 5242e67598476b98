--------------------------- MODULE AnalysisRoutes ---------------------------
(***************************************************************************)
(* The analysis routes of one API process: single requests and batches     *)
(* over the one CancellationService, whose two cancel routes take any id.  *)
(* A step of either kind leaves the other's handlers where they are; what  *)
(* they share is the registry.                                             *)
(***************************************************************************)
EXTENDS AnalysisRequests, BatchRequests

\* single_{user}_{second} is no uuid4.
ASSUME IdsApart ==
  \A r \in Requests, b \in Batches : IdOf[r] # RegisteredId[b] /\ IdOf[r] # RecordId[b]

singleVars == <<place, dives, cancelled, peak>>
handlerVars == <<batchPlace, batchId, history, answer>>
routesVars == <<running, userTasks, singleVars, handlerVars>>

InitRoutes == Init /\ InitBatches

NextRoutes ==
  \/ Next /\ UNCHANGED handlerVars
  \/ NextBatches /\ UNCHANGED singleVars

SpecRoutes == InitRoutes /\ [][NextRoutes]_routesVars

\* The event loop resumes a handler whose await is answered, and every call it waits
\* for has a time-out.
FairSpecRoutes ==
  /\ SpecRoutes
  /\ \A r \in Requests : WF_routesVars(RequestStep(r) /\ UNCHANGED handlerVars)
  /\ \A b \in Batches : WF_routesVars(BatchStep(b) /\ UNCHANGED singleVars)
=============================================================================
