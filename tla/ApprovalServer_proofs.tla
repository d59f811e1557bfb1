----------------------- MODULE ApprovalServer_proofs -----------------------
(***************************************************************************)
(* Theorems about ApprovalServer, for every set of requests, branches and  *)
(* projects, every auto-approval mode and every bound: its types; that it  *)
(* keeps a decision ledger, so that agents are told one decision per       *)
(* request and every step is a step of DecisionLedger or leaves the ledger *)
(* alone; and what it promises beyond that: the copies it keeps of one     *)
(* thing agree, a success it reports has happened and is in the audit log, *)
(* and git merges by hand only what is stored as approved.                 *)
(***************************************************************************)
EXTENDS ApprovalServer, SequenceTheorems, TLAPS

-----------------------------------------------------------------------------
(* What the helpers return *)

LEMMA DecisionFits ==
  ASSUME TypeOK, NEW r \in Req, NEW v \in Verdict, NEW a \in ExecutorAction, CanStore(r)
  PROVE  /\ NewDecision(r, v, a) \in Decision \/ decs[r] # None
         /\ StoredDecision(r, v, a) \in Decision
<1>1. CASE decs[r] # None
  BY <1>1 DEF TypeOK, StoredDecision, DecisionMap
<1>2. CASE decs[r] = None
  <2>1. nextId \in 1..MaxDecisions
    BY <1>2, BoundAssumption DEF TypeOK, CanStore
  <2>2. NewDecision(r, v, a) \in Decision
    BY <2>1 DEF NewDecision, Decision
  <2>3. QED
    BY <1>2, <2>2 DEF StoredDecision
<1>3. QED
  BY <1>1, <1>2

LEMMA ResultFits ==
  ASSUME NEW d \in Decision, NEW x \in {"none", "succeeded", "failed", "skipped"}
  PROVE  WithResult(d, x) \in Decision
BY DEF WithResult, Decision

LEMMA CountFits ==
  ASSUME TypeOK, NEW r \in Req, CanStore(r), CountIds(r)
  PROVE  nextId' \in 1..(MaxDecisions + 1)
BY BoundAssumption DEF TypeOK, CanStore, CountIds

LEMMA MapsFit ==
  ASSUME TypeOK, NEW d \in Decision, SetDecision(d)
  PROVE  decs' \in DecisionMap /\ byId' \in [1..MaxDecisions -> Decision \cup {None}]
BY DEF TypeOK, SetDecision, DecisionMap

LEMMA LogFits ==
  ASSUME NEW h \in SUBSET Entry, NEW r \in Req \cup {None}, NEW x \in Result,
         NEW src \in {"system", "manual", "auto"}
  PROVE  Logged(h, r, x, src) \in SUBSET Entry
BY DEF Logged, Entry

LEMMA WritesFit ==
  /\ \A rq \in SUBSET Req, ds \in DecisionMap : AgentsWrite(rq, ds) \in Write
  /\ \A h \in SUBSET Entry : HistoryWrite(h) \in Write
BY DEF AgentsWrite, HistoryWrite, Write, AgentStore

LEMMA ChildFits ==
  ASSUME TypeOK, NEW before
  PROVE  /\ \A r \in Req, b \in Branch, d \in Decision :
              GitChild("manual", r, b, d, before) \in Run
         /\ \A r \in Req, b \in Branch : GitChild("auto", r, b, None, before) \in Run
         /\ GitChild("undo", None, NoBranch, None, before) \in Run
BY DEF TypeOK, GitChild, Run, ManualRun, AutoRun, UndoRun, GitState

LEMMA IndexFits ==
  ASSUME NEW ds \in DecisionMap
  PROVE  IndexById(ds) \in [1..MaxDecisions -> Decision \cup {None}]
<1>1. ASSUME NEW i \in 1..MaxDecisions, \E r \in Req : ds[r] # None /\ ds[r].id = i
      PROVE  ds[CHOOSE r \in Req : ds[r] # None /\ ds[r].id = i] \in Decision
  BY <1>1 DEF DecisionMap
<1>2. QED
  BY <1>1 DEF IndexById

LEMMA LandingFits ==
  ASSUME TypeOK, NEW r \in Req, NEW how \in {landed[r], "approved", "merged"},
         landed' = [landed EXCEPT ![r] = how]
  PROVE  landed' \in [Req -> {"no", "approved", "merged"}]
BY DEF TypeOK

LEMMA EmptyFits == EmptyStore \in AgentStore /\ NoDecisions \in DecisionMap
BY DEF EmptyStore, AgentStore, NoDecisions, DecisionMap

\* The writes a handler queues are writes.
LEMMA QueuesFit ==
  ASSUME TypeOK
  PROVE  /\ <<>> \in Seq(Write)
         /\ \A r \in Req, h \in SUBSET Entry : SubmitWrites(r, h) \in Seq(Write)
         /\ \A h \in SUBSET Entry : <<HistoryWrite(h)>> \in Seq(Write)
         /\ \A d \in Decision : StoreWrites(d) \in Seq(Write)
         /\ \A h \in SUBSET Entry, d \in Decision : ResultWrites(h, d) \in Seq(Write)
<1>1. \A d \in Decision : [decs EXCEPT ![d.req] = d] \in DecisionMap
  BY DEF TypeOK, DecisionMap, Decision
<1>2. \A w \in Write : <<w>> \in Seq(Write)
  OBVIOUS
<1>3. \A v, w \in Write : <<v, w>> \in Seq(Write)
  OBVIOUS
<1>4. \A rq \in SUBSET Req, r \in Req : rq \cup {r} \in SUBSET Req
  OBVIOUS
<1>5. reqs \in SUBSET Req /\ decs \in DecisionMap
  BY DEF TypeOK
<1>6. \A r \in Req, h \in SUBSET Entry : SubmitWrites(r, h) \in Seq(Write)
  BY <1>3, <1>4, <1>5, WritesFit DEF SubmitWrites
<1>7. \A d \in Decision : StoreWrites(d) \in Seq(Write)
  BY <1>1, <1>2, <1>5, WritesFit DEF StoreWrites
<1>8. \A h \in SUBSET Entry, d \in Decision : ResultWrites(h, d) \in Seq(Write)
  BY <1>1, <1>3, <1>5, WritesFit DEF ResultWrites
<1>9. QED
  BY <1>2, <1>6, <1>7, <1>8, WritesFit

-----------------------------------------------------------------------------
(* Type correctness *)

LEMMA InitType == Init => TypeOK
<1> SUFFICES ASSUME Init PROVE TypeOK
  OBVIOUS
<1>1. decs \in DecisionMap /\ disk \in AgentStore
  BY EmptyFits DEF Init
<1>2. byId \in [1..MaxDecisions -> Decision \cup {None}]
  BY DEF Init
<1>3. nextId \in 1..(MaxDecisions + 1)
  BY BoundAssumption DEF Init
<1>4. repo \in [Project -> Seq(Branch \cup {Base})]
  BY BoundAssumption DEF Init
<1>5. runs \in [Slot -> Run \cup {None}] /\ status \in [Req -> Status]
  BY DEF Init, Status
<1>6. crashes \in 0..MaxCrashes
  BY BoundAssumption DEF Init
<1>7. writes \in Seq(Write)
  BY DEF Init
<1>8. QED
  BY <1>1, <1>2, <1>3, <1>4, <1>5, <1>6, <1>7 DEF Init, TypeOK

LEMMA SubmitType ==
  ASSUME TypeOK, NEW r \in Req, NEW policy \in BOOLEAN, Submit(r, policy)
  PROVE  TypeOK'
<1>1. Logged(history, r, "REQUESTED", "system") \in SUBSET Entry
  BY LogFits DEF TypeOK, Result
<1>2. writes' \in Seq(Write)
  BY <1>1, QueuesFit DEF Submit
<1>3. QED
  BY <1>1, <1>2 DEF Submit, TypeOK, SubmittedStatus, Status, stores, agents

LEMMA SubmitDryRunType ==
  ASSUME TypeOK, NEW r \in Req, NEW policy \in BOOLEAN, SubmitDryRun(r, policy)
  PROVE  TypeOK'
<1> DEFINE h1 == Logged(history, r, "REQUESTED", "system")
<1> DEFINE h2 == Logged(h1, r, "AUTO_APPROVE_SKIPPED", "auto")
<1>1. h1 \in SUBSET Entry
  BY LogFits DEF TypeOK, Result
<1>2. h2 \in SUBSET Entry
  BY <1>1, LogFits DEF Result
<1>3. SubmitWrites(r, h1) \in Seq(Write) /\ HistoryWrite(h2) \in Write
  BY <1>1, <1>2, QueuesFit, WritesFit
<1>4. writes' \in Seq(Write)
  BY <1>3 DEF SubmitDryRun
<1>5. history' \in SUBSET Entry
  BY <1>2 DEF SubmitDryRun
<1>6. QED
  BY <1>4, <1>5 DEF SubmitDryRun, TypeOK, SubmittedStatus, Status, stores, agents

LEMMA SubmitAutoApprovedType ==
  ASSUME TypeOK, NEW r \in Req, NEW b \in Branch, NEW policy \in BOOLEAN, NEW s \in Slot,
         SubmitAutoApproved(r, b, policy, s)
  PROVE  TypeOK'
<1> DEFINE h == Logged(history, r, "REQUESTED", "system")
<1> DEFINE child == GitChild("auto", r, b, None, SubmitWrites(r, h))
<1>1. h \in SUBSET Entry
  BY LogFits DEF TypeOK, Result
<1>2. writes' \in Seq(Write)
  BY <1>1, QueuesFit DEF SubmitAutoApproved
<1>3. child \in Run
  BY ChildFits
<1>4. runs' \in [Slot -> Run \cup {None}]
  BY <1>3 DEF SubmitAutoApproved, TypeOK
<1>5. status' \in [Req -> Status]
  BY DEF SubmitAutoApproved, TypeOK, SubmittedStatus, Status
<1>6. cooling' \in BOOLEAN
  BY ModeAssumption DEF SubmitAutoApproved
<1>7. history' \in SUBSET Entry
  BY <1>1 DEF SubmitAutoApproved
<1>8. QED
  BY <1>2, <1>4, <1>5, <1>6, <1>7 DEF SubmitAutoApproved, TypeOK, stores, agents

\* What the slot of a child holds, while it runs and once it has ended.
LEMMA ChildHas ==
  ASSUME TypeOK, NEW s \in Slot, runs[s] # None
  PROVE  /\ runs[s] \in Run
         /\ runs[s].proj \in Project /\ runs[s].req \in Req \cup {None}
         /\ runs[s].kind # "undo" => runs[s].req \in Req /\ runs[s].branch \in Branch
         /\ runs[s].kind = "manual" => runs[s].snap \in Decision
<1>1. runs[s] \in Run
  BY DEF TypeOK
<1>2. QED
  BY <1>1 DEF Run, ManualRun, AutoRun, UndoRun

LEMMA ChildEnds ==
  ASSUME NEW run \in Run, NEW result \in GitState
  PROVE  Ended(run, result) \in Run \cup {None}
BY DEF Ended, Run, ManualRun, AutoRun, UndoRun

LEMMA FinishAutoType ==
  ASSUME TypeOK, NEW s \in Slot, FinishAuto(s)
  PROVE  TypeOK'
<1> DEFINE run == runs[s]
<1> DEFINE ok == run.git = "ok"
<1> DEFINE h == Logged(history, run.req, IF ok THEN "APPROVED" ELSE "APPROVE_FAILED", "auto")
<1>1. run.req \in Req \cup {None}
  BY ChildHas DEF FinishAuto
<1>2. h \in SUBSET Entry
  BY <1>1, LogFits DEF TypeOK, Result
<1>3. writes' \in Seq(Write)
  BY <1>2, QueuesFit DEF FinishAuto
<1>4. status' \in [Req -> Status]
  BY DEF FinishAuto, TypeOK, FinishedStatus, Status
<1>5. history' \in SUBSET Entry
  BY <1>2 DEF FinishAuto
<1>6. runs' \in [Slot -> Run \cup {None}] /\ inFlight' \subseteq Req
  BY DEF FinishAuto, TypeOK
<1>7. QED
  BY <1>3, <1>4, <1>5, <1>6 DEF FinishAuto, TypeOK, stores, agents

LEMMA ApproveSkippedType ==
  ASSUME TypeOK, NEW r \in Req, NEW a \in ExecutorAction, ApproveSkipped(r, a)
  PROVE  TypeOK'
<1> DEFINE d == StoredDecision(r, "approve", a)
<1> DEFINE skipped == WithResult(d, "skipped")
<1> DEFINE h == Logged(history, r, "APPROVE_SKIPPED", "manual")
<1>1. d \in Decision
  BY DecisionFits DEF ApproveSkipped, Verdict
<1>2. skipped \in Decision
  BY <1>1, ResultFits
<1>3. h \in SUBSET Entry
  BY LogFits DEF TypeOK, Result
<1>4. decs' \in DecisionMap /\ byId' \in [1..MaxDecisions -> Decision \cup {None}]
  BY <1>2, MapsFit DEF ApproveSkipped
<1>5. nextId' \in 1..(MaxDecisions + 1)
  BY CountFits DEF ApproveSkipped
<1>6. StoreWrites(d) \in Seq(Write) /\ ResultWrites(h, skipped) \in Seq(Write)
  BY <1>1, <1>2, <1>3, QueuesFit
<1>7. writes' \in Seq(Write)
  BY <1>6 DEF ApproveSkipped
<1>8. history' \in SUBSET Entry
  BY <1>3 DEF ApproveSkipped
<1>9. QED
  BY <1>4, <1>5, <1>7, <1>8 DEF ApproveSkipped, TypeOK, stores, agents

LEMMA ApproveWithoutBranchType ==
  ASSUME TypeOK, NEW r \in Req, NEW a \in ExecutorAction, ApproveWithoutBranch(r, a)
  PROVE  TypeOK'
<1> DEFINE d == StoredDecision(r, "approve", a)
<1> DEFINE done == WithResult(d, "succeeded")
<1> DEFINE h == Logged(history, r, "APPROVED", "manual")
<1>1. d \in Decision
  BY DecisionFits DEF ApproveWithoutBranch, Verdict
<1>2. done \in Decision
  BY <1>1, ResultFits
<1>3. h \in SUBSET Entry
  BY LogFits DEF TypeOK, Result
<1>4. decs' \in DecisionMap /\ byId' \in [1..MaxDecisions -> Decision \cup {None}]
  BY <1>2, MapsFit DEF ApproveWithoutBranch
<1>5. nextId' \in 1..(MaxDecisions + 1)
  BY CountFits DEF ApproveWithoutBranch
<1>6. StoreWrites(d) \in Seq(Write) /\ ResultWrites(h, done) \in Seq(Write)
  BY <1>1, <1>2, <1>3, QueuesFit
<1>7. writes' \in Seq(Write)
  BY <1>6 DEF ApproveWithoutBranch
<1>8. history' \in SUBSET Entry /\ status' \in [Req -> Status]
  BY <1>3 DEF ApproveWithoutBranch, TypeOK, FinishedStatus, Status
<1>9. landed' \in [Req -> {"no", "approved", "merged"}]
  BY LandingFits DEF ApproveWithoutBranch
<1>10. QED
  BY <1>4, <1>5, <1>7, <1>8, <1>9 DEF ApproveWithoutBranch, TypeOK, stores, agents

LEMMA ApproveMergesType ==
  ASSUME TypeOK, NEW r \in Req, NEW b \in Branch, NEW a \in ExecutorAction, NEW s \in Slot,
         ApproveMerges(r, b, a, s)
  PROVE  TypeOK'
<1> DEFINE d == StoredDecision(r, "approve", a)
<1> DEFINE child == GitChild("manual", r, b, d, StoreWrites(d))
<1>1. d \in Decision
  BY DecisionFits DEF ApproveMerges, Verdict
<1>2. decs' \in DecisionMap /\ byId' \in [1..MaxDecisions -> Decision \cup {None}]
  BY <1>1, MapsFit DEF ApproveMerges
<1>3. nextId' \in 1..(MaxDecisions + 1)
  BY CountFits DEF ApproveMerges
<1>4. writes' \in Seq(Write)
  BY <1>1, QueuesFit DEF ApproveMerges
<1>5. child \in Run
  BY <1>1, ChildFits
<1>6. runs' \in [Slot -> Run \cup {None}]
  BY <1>5 DEF ApproveMerges, TypeOK
<1>7. status' \in [Req -> Status]
  BY DEF ApproveMerges, TypeOK, Status
<1>8. QED
  BY <1>2, <1>3, <1>4, <1>6, <1>7 DEF ApproveMerges, TypeOK, stores, agents

LEMMA FinishManualType ==
  ASSUME TypeOK, NEW s \in Slot, FinishManual(s)
  PROVE  TypeOK'
<1> DEFINE run == runs[s]
<1> DEFINE ok == run.git = "ok"
<1> DEFINE d == WithResult(run.snap, IF ok THEN "succeeded" ELSE "failed")
<1> DEFINE h ==
      Logged(history, run.req, IF ok THEN "APPROVED" ELSE "APPROVE_FAILED", "manual")
<1>1. run.req \in Req /\ run.snap \in Decision
  BY ChildHas DEF FinishManual
<1>2. d \in Decision
  BY <1>1, ResultFits
<1>3. h \in SUBSET Entry
  BY <1>1, LogFits DEF TypeOK, Result
<1>4. decs' \in DecisionMap /\ byId' \in [1..MaxDecisions -> Decision \cup {None}]
  BY <1>2, MapsFit DEF FinishManual
<1>5. writes' \in Seq(Write)
  BY <1>2, <1>3, QueuesFit DEF FinishManual
<1>6. status' \in [Req -> Status]
  BY DEF FinishManual, TypeOK, FinishedStatus, Status
<1>7. history' \in SUBSET Entry
  BY <1>3 DEF FinishManual
<1>8. runs' \in [Slot -> Run \cup {None}]
  BY DEF FinishManual, TypeOK
<1>9. QED
  BY <1>4, <1>5, <1>6, <1>7, <1>8 DEF FinishManual, TypeOK, stores, agents

LEMMA RejectType ==
  ASSUME TypeOK, NEW r \in Req, Reject(r)
  PROVE  TypeOK'
<1> DEFINE d == StoredDecision(r, "reject", "none")
<1> DEFINE h == Logged(history, r, "REJECTED", "manual")
<1>1. d \in Decision
  BY DecisionFits DEF Reject, Verdict, ExecutorAction
<1>2. h \in SUBSET Entry
  BY LogFits DEF TypeOK, Result
<1>3. decs' \in DecisionMap /\ byId' \in [1..MaxDecisions -> Decision \cup {None}]
  BY <1>1, MapsFit DEF Reject
<1>4. nextId' \in 1..(MaxDecisions + 1)
  BY CountFits DEF Reject
<1>5. StoreWrites(d) \in Seq(Write) /\ HistoryWrite(h) \in Write
  BY <1>1, <1>2, QueuesFit, WritesFit
<1>6. writes' \in Seq(Write)
  BY <1>5 DEF Reject
<1>7. history' \in SUBSET Entry /\ status' \in [Req -> Status]
  BY <1>2 DEF Reject, TypeOK, Status
<1>8. QED
  BY <1>3, <1>4, <1>6, <1>7 DEF Reject, TypeOK, stores, agents

LEMMA UndoType ==
  ASSUME TypeOK, NEW s \in Slot, Undo(s)
  PROVE  TypeOK'
<1>1. GitChild("undo", None, NoBranch, None, <<>>) \in Run
  BY ChildFits
<1>2. runs' \in [Slot -> Run \cup {None}]
  BY <1>1 DEF Undo, TypeOK
<1>3. QED
  BY <1>2 DEF Undo, TypeOK, memory, stores, agents

LEMMA FinishUndoType ==
  ASSUME TypeOK, NEW s \in Slot, FinishUndo(s)
  PROVE  TypeOK'
<1> DEFINE h ==
      Logged(history, None, IF runs[s].git = "ok" THEN "ROLLBACK" ELSE "ROLLBACK_FAILED",
             "manual")
<1>1. h \in SUBSET Entry
  BY LogFits DEF TypeOK, Result
<1>2. writes' \in Seq(Write) /\ history' \in SUBSET Entry
  BY <1>1, QueuesFit DEF FinishUndo
<1>3. runs' \in [Slot -> Run \cup {None}]
  BY DEF FinishUndo, TypeOK
<1>4. QED
  BY <1>2, <1>3 DEF FinishUndo, TypeOK, stores, agents

LEMMA AgentSavesType ==
  ASSUME TypeOK, AgentSaves
  PROVE  TypeOK'
<1>1. reqs \in SUBSET Req /\ decs \in DecisionMap
  BY DEF TypeOK
<1>2. writes' \in Seq(Write)
  BY <1>1, WritesFit DEF AgentSaves
<1>3. QED
  BY <1>2 DEF AgentSaves, TypeOK, memory, stores, agents

LEMMA PullType ==
  ASSUME TypeOK, NEW r \in Req, Poll(r)
  PROVE  TypeOK'
<1>1. Given(decs[r]) \in Told
  BY DEF Poll, TypeOK, DecisionMap, Decision, Given, Told
<1>2. QED
  BY <1>1 DEF Poll, TypeOK, memory, stores

LEMMA AckType ==
  ASSUME TypeOK, NEW i \in 1..MaxDecisions, Ack(i)
  PROVE  TypeOK'
<1>1. Acknowledged(byId[i]) \in Decision
  <2>1. byId[i] \in Decision
    BY DEF Ack, TypeOK
  <2>2. QED
    BY <2>1 DEF Decision, Acknowledged
<1>2. decs' \in DecisionMap /\ byId' \in [1..MaxDecisions -> Decision \cup {None}]
  BY <1>1, MapsFit DEF Ack
<1>3. QED
  BY <1>2 DEF Ack, TypeOK, stores

LEMMA GitMergeType ==
  ASSUME TypeOK, NEW s \in Slot, GitMergeSucceeds(s)
  PROVE  TypeOK'
<1>1. runs[s].req \in Req /\ runs[s].branch \in Branch /\ runs[s] \in Run
  BY ChildHas DEF GitMergeSucceeds
<1>2. Ended(runs[s], "ok") \in Run \cup {None}
  BY <1>1, ChildEnds DEF GitState
<1>3. runs' \in [Slot -> Run \cup {None}]
  BY <1>2 DEF GitMergeSucceeds, TypeOK
<1>4. repo' \in [Project -> Seq(Branch \cup {Base})]
  <2>1. \A q \in Seq(Branch \cup {Base}) : Append(q, runs[s].branch) \in Seq(Branch \cup {Base})
    BY <1>1
  <2>2. [repo EXCEPT ![runs[s].proj] = Append(@, runs[s].branch)]
          \in [Project -> Seq(Branch \cup {Base})]
    BY <2>1 DEF TypeOK
  <2>3. QED
    BY <2>2 DEF GitMergeSucceeds, TypeOK
<1>5. landed' \in [Req -> {"no", "approved", "merged"}]
  BY <1>1, LandingFits DEF GitMergeSucceeds
<1>6. QED
  BY <1>1, <1>3, <1>4, <1>5 DEF GitMergeSucceeds, TypeOK, memory, stores, agents

LEMMA GitResetType ==
  ASSUME TypeOK, NEW s \in Slot, GitResetSucceeds(s)
  PROVE  TypeOK'
<1> DEFINE p == runs[s].proj
<1>1. p \in Project /\ runs[s] \in Run
  BY ChildHas DEF GitResetSucceeds
<1>2. Ended(runs[s], "ok") \in Run \cup {None}
  BY <1>1, ChildEnds DEF GitState
<1>3. runs' \in [Slot -> Run \cup {None}]
  BY <1>2 DEF GitResetSucceeds, TypeOK
<1>4. repo[p] \in Seq(Branch \cup {Base}) /\ Len(repo[p]) > 1
  BY <1>1 DEF GitResetSucceeds, TypeOK
<1>5. Front(repo[p]) \in Seq(Branch \cup {Base})
  BY <1>4 DEF Front
<1>6. repo' \in [Project -> Seq(Branch \cup {Base})]
  BY <1>5 DEF GitResetSucceeds, TypeOK
<1>7. QED
  BY <1>3, <1>6 DEF GitResetSucceeds, TypeOK, memory, stores, agents

LEMMA GitFailsType ==
  ASSUME TypeOK, NEW s \in Slot, GitFails(s)
  PROVE  TypeOK'
<1>1. Ended(runs[s], "failed") \in Run \cup {None}
  BY ChildHas, ChildEnds DEF GitFails, GitState
<1>2. runs' \in [Slot -> Run \cup {None}]
  BY <1>1 DEF GitFails, TypeOK
<1>3. QED
  BY <1>2 DEF GitFails, TypeOK, memory, stores, agents

LEMMA FlushType ==
  ASSUME TypeOK, Flush
  PROVE  TypeOK'
<1>1. writes \in Seq(Write) /\ writes # <<>>
  BY DEF TypeOK, Flush
<1>2. Head(writes) \in Write /\ Tail(writes) \in Seq(Write)
  BY <1>1
<1>3. disk' \in AgentStore /\ diskHistory' \subseteq Entry
  BY <1>2 DEF Flush, TypeOK, Write
<1>4. \A run \in Run \cup {None} : Spawned(run) \in Run \cup {None}
  BY DEF Spawned, Run, ManualRun, AutoRun, UndoRun, GitState
<1>5. runs' \in [Slot -> Run \cup {None}]
  BY <1>4 DEF Flush, TypeOK
<1>6. writes' \in Seq(Write)
  BY <1>2 DEF Flush
<1>7. QED
  BY <1>3, <1>5, <1>6 DEF Flush, TypeOK, memory, agents

LEMMA CrashType ==
  ASSUME TypeOK, Dies, disk' \in AgentStore
  PROVE  TypeOK'
<1>1. byId' \in [1..MaxDecisions -> Decision \cup {None}] /\ decs' \in DecisionMap
  BY EmptyFits, IndexFits DEF Dies
<1>2. \A run \in Run \cup {None} : Orphaned(run) \in Run \cup {None}
  BY DEF Orphaned, Run, ManualRun, AutoRun, UndoRun
<1>3. runs' \in [Slot -> Run \cup {None}]
  BY <1>2 DEF Dies, TypeOK
<1>4. status' \in [Req -> Status]
  BY DEF Dies, Status
<1>5. crashes' \in 0..MaxCrashes
  BY BoundAssumption DEF Dies, TypeOK
<1>6. writes' \in Seq(Write)
  BY DEF Dies
<1>7. QED
  BY <1>1, <1>3, <1>4, <1>5, <1>6 DEF Dies, TypeOK, agents

LEMMA StartType ==
  ASSUME TypeOK, Start
  PROVE  TypeOK'
<1>1. disk.decs \in DecisionMap /\ disk.reqs \in SUBSET Req
  BY DEF TypeOK, AgentStore
<1>2. byId' \in [1..MaxDecisions -> Decision \cup {None}] /\ decs' \in DecisionMap
  BY <1>1, IndexFits DEF Start
<1>3. reqs' \subseteq Req /\ status' \in [Req -> Status]
  BY <1>1 DEF Start, RestoredRequests, RestoredStatus, Status
<1>4. QED
  BY <1>2, <1>3 DEF Start, TypeOK, stores, agents

LEMMA RestType ==
  ASSUME TypeOK, CooldownElapses \/ (\E p \in Project : SelectProject(p)) \/ UNCHANGED vars
  PROVE  TypeOK'
<1>1. CASE CooldownElapses
  BY <1>1 DEF CooldownElapses, TypeOK, stores, agents
<1>2. CASE \E p \in Project : SelectProject(p)
  BY <1>2 DEF SelectProject, TypeOK, memory, stores, agents
<1>3. CASE UNCHANGED vars
  BY <1>3 DEF vars, TypeOK, memory, stores, agents
<1>4. QED
  BY <1>1, <1>2, <1>3

LEMMA NextType == TypeOK /\ [Next]_vars => TypeOK'
<1> SUFFICES ASSUME TypeOK, [Next]_vars PROVE TypeOK'
  OBVIOUS
<1>1. CASE Requests
  BY <1>1, SubmitType, SubmitDryRunType, SubmitAutoApprovedType DEF Requests
<1>2. CASE Operators
  BY <1>2, ApproveSkippedType, ApproveWithoutBranchType, ApproveMergesType, RejectType,
     UndoType, RestType DEF Operators, Approvals
<1>3. CASE Callbacks
  BY <1>3, FinishManualType, FinishAutoType, FinishUndoType DEF Callbacks
<1>4. CASE AgentSaves \/ Pulls \/ Acks
  BY <1>4, AgentSavesType, PullType, AckType DEF Pulls, Acks
<1>5. CASE Git
  BY <1>5, GitMergeType, GitResetType, GitFailsType DEF Git
<1>6. CASE Crash
  BY <1>6, CrashType DEF Crash, TypeOK
<1>7. CASE Flush \/ Start
  BY <1>7, FlushType, StartType
<1>8. CASE CooldownElapses \/ UNCHANGED vars
  BY <1>8, RestType
<1>9. QED
  BY <1>1, <1>2, <1>3, <1>4, <1>5, <1>6, <1>7, <1>8 DEF Next

\* TypeOK is an invariant: every handler, callback, file write and restart leaves each
\* map and store with the values the code means it to hold, and createDecisionId's ids
\* and the crash count stay within their bounds.
THEOREM TypeCorrect == Spec => []TypeOK
<1>1. Init => TypeOK
  BY InitType
<1>2. TypeOK /\ [Next]_vars => TypeOK'
  BY NextType
<1>3. QED
  BY <1>1, <1>2, PTL DEF Spec

-----------------------------------------------------------------------------
(***************************************************************************)
(* The decision ledger                                                     *)
(***************************************************************************)

(* Facts about decision maps *)

\* Replacing a decision by one that tells agents the same, or adding a first one.
LEMMA MapGrows ==
  ASSUME NEW ds \in DecisionMap, Keyed(ds), NEW d \in Decision,
         ds[d.req] = None \/ Given(ds[d.req]) = Given(d)
  PROVE  /\ Keyed([ds EXCEPT ![d.req] = d])
         /\ Knows([ds EXCEPT ![d.req] = d], ds)
         /\ ds[d.req] # None => Agree([ds EXCEPT ![d.req] = d], ds)
         /\ \A e \in Decision : Given(e) = Given(d) =>
              /\ e.req = d.req
              /\ Agree([ds EXCEPT ![d.req] = e], [ds EXCEPT ![d.req] = d])
              /\ Keyed([ds EXCEPT ![d.req] = e])
<1>1. d.req \in Req /\ d # None
  BY NoDecisionAssumption DEF Decision
<1>2. \A e \in Decision : e # None /\ (Given(e) = Given(d) => e.req = d.req)
  BY NoDecisionAssumption DEF Given
<1>3. DOMAIN ds = Req
  BY DEF DecisionMap
<1>4. QED
  BY <1>1, <1>2, <1>3 DEF Keyed, Knows, Agree

LEMMA AgreeIsEquality ==
  ASSUME NEW ds, NEW es, NEW fs, Agree(ds, es), Agree(es, fs)
  PROVE  Agree(es, ds) /\ Agree(ds, fs)
BY DEF Agree, Knows

LEMMA KnowsComposes ==
  ASSUME NEW ds, NEW es, NEW fs, Knows(fs, es), Knows(es, ds)
  PROVE  Knows(fs, ds)
BY DEF Knows

LEMMA AgreeReflexive == \A ds : Agree(ds, ds)
BY DEF Agree, Knows

\* A decision under its own index.
LEMMA IndexIsKeyed ==
  ASSUME NEW ds \in DecisionMap, Keyed(ds), NEW i \in 1..MaxDecisions, IndexById(ds)[i] # None
  PROVE  /\ IndexById(ds)[i].id = i
         /\ ds[IndexById(ds)[i].req] = IndexById(ds)[i]
<1>1. \E r \in Req : ds[r] # None /\ ds[r].id = i
  BY DEF IndexById
<1>2. PICK r \in Req :
        r = (CHOOSE q \in Req : ds[q] # None /\ ds[q].id = i) /\ ds[r] # None /\ ds[r].id = i
  BY <1>1
<1>3. IndexById(ds)[i] = ds[r]
  BY <1>1, <1>2 DEF IndexById
<1>4. QED
  BY <1>2, <1>3 DEF Keyed

-----------------------------------------------------------------------------
(* The initial state *)

LEMMA LedgerInit == Init => LedgerInv
<1> SUFFICES ASSUME Init PROVE LedgerInv
  OBVIOUS
<1>1. \A r \in Req : decs[r] = None /\ disk.decs[r] = None
  BY DEF Init, NoDecisions, EmptyStore
<1>2. MapsAreKeyed
  BY <1>1 DEF MapsAreKeyed, Keyed, Init
<1>3. WritesAgree
  <2>1. AgentWrites = {} /\ up /\ writes = <<>>
    BY DEF AgentWrites, Init
  <2>2. Agree(disk.decs, decs)
    BY <1>1 DEF Agree, Knows
  <2>3. QED
    BY <2>1, <2>2 DEF WritesAgree
<1>4. StoreIsBehindByOne /\ SeenIsStored
  BY <1>1 DEF StoreIsBehindByOne, SeenIsStored, Knows, Init
<1>5. ChildrenAgree
  BY DEF ChildrenAgree, Live, Init
<1>6. QED
  BY <1>2, <1>3, <1>4, <1>5 DEF LedgerInv

-----------------------------------------------------------------------------
(* Handlers that leave the decisions alone *)

\* No step of this kind starts a manual merge.
NoNewChild ==
  \A s \in Slot : Live(s, {"manual"})' =>
    Live(s, {"manual"}) /\ runs'[s].req = runs[s].req /\ runs'[s].snap = runs[s].snap

LEMMA DecisionsKept ==
  ASSUME TypeOK, LedgerInv, UNCHANGED <<up, decs, byId, disk, seen>>, NoNewChild,
         writes' = writes \/ Idle,
         \A k \in AgentWrites' : writes' = writes \/ writes'[k].store.decs = decs
  PROVE  LedgerInv'
<1>1. MapsAreKeyed' /\ StoreIsBehindByOne' /\ SeenIsStored'
  BY DEF LedgerInv, MapsAreKeyed, StoreIsBehindByOne, SeenIsStored
<1>2. ChildrenAgree'
  BY DEF LedgerInv, ChildrenAgree, NoNewChild
<1>3. WritesAgree'
  <2>1. CASE writes' = writes
    BY <2>1 DEF LedgerInv, WritesAgree, AgentWrites
  <2>2. CASE writes' # writes
    <3>1. Agree(disk.decs, decs)
      BY <2>2 DEF LedgerInv, WritesAgree, Idle, AgentWrites
    <3>2. Keyed(decs) /\ Agree(decs, decs)
      BY AgreeReflexive DEF LedgerInv, MapsAreKeyed
    <3>3. QED
      BY <2>2, <3>1, <3>2 DEF WritesAgree, AgentWrites, Idle
  <2>3. QED
    BY <2>1, <2>2
<1>4. QED
  BY <1>1, <1>2, <1>3 DEF LedgerInv

-----------------------------------------------------------------------------
(* Handlers that store a decision *)

\* The decision d is new, or a copy of the one there is.
Compatible(d) == decs[d.req] = None \/ Given(decs[d.req]) = Given(d)

\* What a new decision queues: every agent store it writes has a copy of d, and there
\* is one unless the decision was there before.
Persists(d) ==
  /\ \A k \in AgentWrites' : \E e \in Decision :
       Given(e) = Given(d) /\ writes'[k].store.decs = [decs EXCEPT ![d.req] = e]
  /\ decs[d.req] = None => AgentWrites' # {}

LEMMA DecisionSet ==
  ASSUME TypeOK, LedgerInv, Idle, UNCHANGED <<up, disk, seen>>,
         NEW d \in Decision, Compatible(d), SetDecision(d), Persists(d),
         \A s \in Slot : Live(s, {"manual"})' =>
           \/ /\ Live(s, {"manual"})
              /\ runs'[s].req = runs[s].req /\ runs'[s].snap = runs[s].snap
           \/ runs'[s].req = d.req /\ runs'[s].snap = d
  PROVE  LedgerInv'
<1>1. decs \in DecisionMap /\ Keyed(decs) /\ d.req \in Req /\ d.id \in 1..MaxDecisions
  BY DEF TypeOK, LedgerInv, MapsAreKeyed, Decision
<1>2. decs' = [decs EXCEPT ![d.req] = d] /\ byId' = [byId EXCEPT ![d.id] = d]
  BY DEF SetDecision
<1>3. Keyed(decs') /\ Knows(decs', decs) /\ (decs[d.req] # None => Agree(decs', decs))
  BY <1>1, <1>2, MapGrows DEF Compatible
<1>4. decs'[d.req] = d /\ d # None /\ \A r \in Req : r # d.req => decs'[r] = decs[r]
  BY <1>1, <1>2, NoDecisionAssumption DEF DecisionMap
<1>5. Agree(disk.decs, decs)
  BY DEF LedgerInv, WritesAgree, Idle, AgentWrites
<1>6. MapsAreKeyed'
  <2>1. Keyed(decs)' /\ Keyed(disk.decs)'
    BY <1>3 DEF LedgerInv, MapsAreKeyed, Keyed
  <2>2. ASSUME NEW i \in 1..MaxDecisions, byId'[i] # None
        PROVE  /\ byId'[i].id = i /\ decs'[byId'[i].req] # None
               /\ Given(decs'[byId'[i].req]) = Given(byId'[i])
    <3>1. CASE i = d.id
      BY <1>2, <1>4, <3>1 DEF TypeOK
    <3>2. CASE i # d.id
      <4>1. byId'[i] = byId[i]
        BY <1>2, <3>2 DEF TypeOK
      <4>2. /\ byId[i].id = i /\ byId[i].req \in Req
            /\ decs[byId[i].req] # None /\ Given(decs[byId[i].req]) = Given(byId[i])
        BY <2>2, <4>1 DEF LedgerInv, MapsAreKeyed, TypeOK, Decision
      <4>3. QED
        BY <1>3, <4>1, <4>2 DEF Knows
    <3>3. QED
      BY <3>1, <3>2
  <2>3. QED
    BY <2>1, <2>2 DEF MapsAreKeyed
<1>7. WritesAgree'
  <2>1. ASSUME NEW k \in AgentWrites'
        PROVE  /\ Keyed(writes'[k].store.decs)
               /\ Agree(writes'[k].store.decs, decs')
    <3>1. PICK e \in Decision :
            Given(e) = Given(d) /\ writes'[k].store.decs = [decs EXCEPT ![d.req] = e]
      BY <2>1 DEF Persists
    <3>2. Given(e) = Given(d) => /\ e.req = d.req
                                 /\ Agree([decs EXCEPT ![d.req] = e], decs')
                                 /\ Keyed([decs EXCEPT ![d.req] = e])
      BY <1>1, <1>2, MapGrows DEF Compatible
    <3>3. QED
      BY <3>1, <3>2
  <2>2. AgentWrites' = {} => Agree(disk.decs, decs')
    <3>1. AgentWrites' = {} => decs[d.req] # None
      BY DEF Persists
    <3>2. QED
      BY <1>3, <1>5, <3>1, AgreeIsEquality DEF Agree, Knows
  <2>3. up'
    BY DEF Idle
  <2>4. QED
    BY <2>1, <2>2, <2>3 DEF WritesAgree
<1>8. StoreIsBehindByOne'
  <2>1. Knows(decs', disk.decs)
    BY <1>3, <1>5, KnowsComposes DEF Agree
  <2>2. \A r \in Req : decs'[r] # None /\ disk.decs[r] = None => r = d.req
    BY <1>4, <1>5 DEF Agree, Knows
  <2>3. QED
    BY <2>1, <2>2 DEF StoreIsBehindByOne
<1>9. SeenIsStored'
  BY DEF LedgerInv, SeenIsStored
<1>10. ChildrenAgree'
  <2> SUFFICES ASSUME NEW s \in Slot, Live(s, {"manual"})'
               PROVE  /\ up' /\ decs'[runs'[s].req] # None
                      /\ Given(decs'[runs'[s].req]) = Given(runs'[s].snap)
    BY DEF ChildrenAgree
  <2>1. CASE /\ Live(s, {"manual"})
             /\ runs'[s].req = runs[s].req /\ runs'[s].snap = runs[s].snap
    <3>1. runs[s].req \in Req
      BY <2>1, ChildHas DEF Live
    <3>2. decs[runs[s].req] # None /\ Given(decs[runs[s].req]) = Given(runs[s].snap)
      BY <2>1 DEF LedgerInv, ChildrenAgree
    <3>3. QED
      BY <1>3, <2>1, <3>1, <3>2 DEF Knows, Idle
  <2>2. CASE runs'[s].req = d.req /\ runs'[s].snap = d
    BY <1>4, <2>2 DEF Idle
  <2>3. QED
    BY <2>1, <2>2
<1>11. QED
  BY <1>6, <1>7, <1>8, <1>9, <1>10 DEF LedgerInv

-----------------------------------------------------------------------------
(* The handlers, one by one *)

LEMMA RequestsKeepLedger ==
  ASSUME TypeOK, LedgerInv, Requests
  PROVE  LedgerInv'
<1>1. ASSUME NEW r \in Req, NEW policy \in BOOLEAN, Submit(r, policy)
      PROVE  LedgerInv'
  <2>1. \A k \in AgentWrites' : writes'[k].store.decs = decs
    BY <1>1 DEF Submit, SubmitWrites, AgentWrites, AgentsWrite, HistoryWrite
  <2>2. NoNewChild /\ Idle
    BY <1>1 DEF Submit, NoNewChild, Live
  <2>3. QED
    BY <1>1, <2>1, <2>2, DecisionsKept DEF Submit, stores, agents
<1>2. ASSUME NEW r \in Req, NEW policy \in BOOLEAN, SubmitDryRun(r, policy)
      PROVE  LedgerInv'
  <2>1. \A k \in AgentWrites' : writes'[k].store.decs = decs
    BY <1>2 DEF SubmitDryRun, SubmitWrites, AgentWrites, AgentsWrite, HistoryWrite
  <2>2. NoNewChild /\ Idle
    BY <1>2 DEF SubmitDryRun, NoNewChild, Live
  <2>3. QED
    BY <1>2, <2>1, <2>2, DecisionsKept DEF SubmitDryRun, stores, agents
<1>3. ASSUME NEW r \in Req, NEW policy \in BOOLEAN, NEW b \in Branch, NEW s \in Slot,
             SubmitAutoApproved(r, b, policy, s)
      PROVE  LedgerInv'
  <2>1. \A k \in AgentWrites' : writes'[k].store.decs = decs
    BY <1>3 DEF SubmitAutoApproved, SubmitWrites, AgentWrites, AgentsWrite, HistoryWrite
  <2>2. NoNewChild
    BY <1>3 DEF SubmitAutoApproved, NoNewChild, Live, TypeOK, GitChild
  <2>3. Idle
    BY <1>3 DEF SubmitAutoApproved
  <2>4. QED
    BY <1>3, <2>1, <2>2, <2>3, DecisionsKept DEF SubmitAutoApproved, stores, agents
<1>4. QED
  BY <1>1, <1>2, <1>3 DEF Requests

LEMMA AgentSavesKeepsLedger ==
  ASSUME TypeOK, LedgerInv, AgentSaves
  PROVE  LedgerInv'
<1>1. \A k \in AgentWrites' : writes'[k].store.decs = decs
  BY DEF AgentSaves, AgentWrites, AgentsWrite
<1>2. NoNewChild /\ Idle /\ UNCHANGED <<up, decs, byId, disk, seen>>
  BY DEF AgentSaves, NoNewChild, Live, memory, stores, agents
<1>3. QED
  BY <1>1, <1>2, DecisionsKept

LEMMA QuietStepsKeepLedger ==
  ASSUME TypeOK, LedgerInv,
         \/ \E s \in Slot : FinishAuto(s) \/ FinishUndo(s) \/ Undo(s)
         \/ Git \/ CooldownElapses \/ (\E p \in Project : SelectProject(p))
         \/ UNCHANGED vars
  PROVE  LedgerInv'
<1>1. ASSUME NEW s \in Slot, FinishAuto(s) \/ FinishUndo(s) PROVE LedgerInv'
  <2>1. AgentWrites' = {}
    BY <1>1 DEF FinishAuto, FinishUndo, AgentWrites, HistoryWrite
  <2>2. NoNewChild
    BY <1>1 DEF FinishAuto, FinishUndo, NoNewChild, Live, TypeOK
  <2>3. Idle /\ UNCHANGED <<up, decs, byId, disk, seen>>
    BY <1>1 DEF FinishAuto, FinishUndo, stores, agents
  <2>4. QED
    BY <2>1, <2>2, <2>3, DecisionsKept
<1>2. ASSUME NEW s \in Slot, Undo(s) PROVE LedgerInv'
  <2>1. NoNewChild
    BY <1>2 DEF Undo, NoNewChild, Live, TypeOK, GitChild
  <2>2. writes' = writes /\ UNCHANGED <<up, decs, byId, disk, seen>>
    BY <1>2 DEF Undo, memory, stores, agents
  <2>3. QED
    BY <2>1, <2>2, DecisionsKept
<1>3. CASE Git
  <2>1. PICK s \in Slot : GitMergeSucceeds(s) \/ GitResetSucceeds(s) \/ GitFails(s)
    BY <1>3 DEF Git
  <2>2. PICK result : runs' = [runs EXCEPT ![s] = Ended(runs[s], result)] /\ runs[s] # None
    BY <2>1 DEF GitMergeSucceeds, GitResetSucceeds, GitFails
  <2>3. runs[s] \in Run /\ runs'[s] = Ended(runs[s], result)
    BY <2>2 DEF TypeOK
  <2>4. Live(s, {"manual"})' =>
          Live(s, {"manual"}) /\ runs'[s].req = runs[s].req /\ runs'[s].snap = runs[s].snap
    BY <2>2, <2>3 DEF Live, Ended, Run, ManualRun, AutoRun, UndoRun
  <2>5. \A t \in Slot : t # s => runs'[t] = runs[t]
    BY <2>2 DEF TypeOK
  <2>6. NoNewChild
    BY <2>4, <2>5 DEF NoNewChild, Live
  <2>7. writes' = writes /\ UNCHANGED <<up, decs, byId, disk, seen>>
    BY <2>1 DEF GitMergeSucceeds, GitResetSucceeds, GitFails, memory, stores, agents
  <2>8. QED
    BY <2>6, <2>7, DecisionsKept
<1>4. CASE CooldownElapses \/ (\E p \in Project : SelectProject(p)) \/ UNCHANGED vars
  <2>1. writes' = writes /\ UNCHANGED <<up, decs, byId, disk, seen, runs>>
    BY <1>4 DEF CooldownElapses, SelectProject, vars, memory, stores, agents
  <2>2. NoNewChild
    BY <2>1 DEF NoNewChild, Live
  <2>3. QED
    BY <2>1, <2>2, DecisionsKept
<1>5. QED
  BY <1>1, <1>2, <1>3, <1>4

LEMMA StoredIsCompatible ==
  ASSUME TypeOK, LedgerInv, NEW r \in Req, NEW v \in Verdict, NEW a \in ExecutorAction,
         CanStore(r)
  PROVE  /\ StoredDecision(r, v, a) \in Decision
         /\ StoredDecision(r, v, a).req = r
         /\ Compatible(StoredDecision(r, v, a))
<1>1. StoredDecision(r, v, a) \in Decision
  BY DecisionFits
<1>2. CASE decs[r] # None
  BY <1>1, <1>2 DEF LedgerInv, MapsAreKeyed, Keyed, StoredDecision, Compatible
<1>3. CASE decs[r] = None
  BY <1>1, <1>3 DEF StoredDecision, NewDecision, Compatible
<1>4. QED
  BY <1>1, <1>2, <1>3

LEMMA ResultIsCopy ==
  ASSUME NEW d \in Decision, NEW x \in {"none", "succeeded", "failed", "skipped"}
  PROVE  /\ WithResult(d, x) \in Decision
         /\ WithResult(d, x).req = d.req /\ Given(WithResult(d, x)) = Given(d)
BY DEF WithResult, Decision, Given

\* What queues of two kinds of writes look like when they are joined.
LEMMA Joined ==
  /\ \A v, w : <<>> \o <<v, w>> = <<v, w>> /\ Append(<<>>, v) = <<v>>
  /\ \A u, v, w : <<u>> \o <<v, w>> = <<u, v, w>> /\ Append(<<u>>, v) = <<u, v>>
<1> SUFFICES ASSUME NEW u, NEW v, NEW w
             PROVE  /\ <<>> \o <<v, w>> = <<v, w>> /\ Append(<<>>, v) = <<v>>
                    /\ <<u>> \o <<v, w>> = <<u, v, w>> /\ Append(<<u>>, v) = <<u, v>>
  OBVIOUS
<1> DEFINE S == {u, v, w}
<1>1. <<>> \in Seq(S) /\ <<u>> \in Seq(S) /\ <<v, w>> \in Seq(S) /\ <<u, v, w>> \in Seq(S)
  OBVIOUS
<1>2. <<>> \o <<v, w>> = <<v, w>>
  BY <1>1, ConcatEmptySeq
<1>3. <<u>> \o <<v, w>> = <<u, v, w>>
  <2> DEFINE q == <<u>> \o <<v, w>>
  <2>1. /\ q \in Seq(S) /\ Len(q) = Len(<<u>>) + Len(<<v, w>>)
        /\ \A i \in 1..(Len(<<u>>) + Len(<<v, w>>)) :
             q[i] = IF i <= Len(<<u>>) THEN <<u>>[i] ELSE <<v, w>>[i - Len(<<u>>)]
    BY <1>1, ConcatProperties
  <2>2. Len(<<u>>) = 1 /\ Len(<<v, w>>) = 2 /\ <<u>>[1] = u /\ <<v, w>>[1] = v /\ <<v, w>>[2] = w
    OBVIOUS
  <2> HIDE DEF q
  <2>3. q \in Seq(S) /\ Len(q) = 3 /\ q[1] = u /\ q[2] = v /\ q[3] = w
    BY <2>1, <2>2
  <2>4. q = [i \in 1..3 |-> q[i]] /\ <<u, v, w>> = [i \in 1..3 |-> <<u, v, w>>[i]]
    BY <2>3
  <2>5. \A i \in 1..3 : q[i] = <<u, v, w>>[i]
    BY <2>3
  <2>6. q = <<u, v, w>>
    BY <2>4, <2>5, Zenon
  <2>7. QED
    BY <2>6 DEF q
<1>4. Append(<<>>, v) = <<v>>
  OBVIOUS
<1>5. Append(<<u>>, v) = <<u, v>>
  <2> DEFINE q == Append(<<u>>, v)
  <2>1. q \in Seq(S) /\ Len(q) = 2 /\ q[1] = u /\ q[2] = v
    BY <1>1
  <2> HIDE DEF q
  <2>2. q = [i \in 1..2 |-> q[i]] /\ <<u, v>> = [i \in 1..2 |-> <<u, v>>[i]]
    BY <2>1
  <2>3. \A i \in 1..2 : q[i] = <<u, v>>[i]
    BY <2>1
  <2>4. q = <<u, v>>
    BY <2>2, <2>3, Zenon
  <2>5. QED
    BY <2>4 DEF q
<1>6. QED
  BY <1>2, <1>3, <1>4, <1>5

\* The agent stores among up to three writes.
LEMMA Queued ==
  /\ \A v : writes' = <<v>> => AgentWrites' = {k \in {1} : writes'[k].file = "agents"}
                              /\ writes'[1] = v
  /\ \A v, w : writes' = <<v, w>> =>
       /\ AgentWrites' = {k \in {1, 2} : writes'[k].file = "agents"}
       /\ writes'[1] = v /\ writes'[2] = w
  /\ \A u, v, w : writes' = <<u, v, w>> =>
       /\ AgentWrites' = {k \in {1, 2, 3} : writes'[k].file = "agents"}
       /\ writes'[1] = u /\ writes'[2] = v /\ writes'[3] = w
BY DEF AgentWrites

LEMMA Written ==
  /\ \A h : HistoryWrite(h).file = "history"
  /\ \A rq, ds : AgentsWrite(rq, ds).file = "agents" /\ AgentsWrite(rq, ds).store.decs = ds
BY DEF HistoryWrite, AgentsWrite

\* An executor that comes to its result at once stores the decision and then a copy.
LEMMA ExecutorPersists ==
  ASSUME NEW d \in Decision, NEW e \in Decision, Given(e) = Given(d), e.req = d.req,
         NEW h, writes' = StoreWrites(d) \o ResultWrites(h, e)
  PROVE  Persists(e)
<1> DEFINE last == AgentsWrite(reqs, [decs EXCEPT ![e.req] = e])
<1> DEFINE first == AgentsWrite(reqs, [decs EXCEPT ![d.req] = d])
<1>1. CASE decs[d.req] # None
  <2>1. writes' = <<HistoryWrite(h), last>>
    BY <1>1, Joined DEF StoreWrites, ResultWrites
  <2>2. AgentWrites' = {2} /\ writes'[2] = last
    BY <2>1, Queued, Written
  <2>3. writes'[2].store.decs = [decs EXCEPT ![e.req] = e]
    BY <2>2, Written
  <2>4. QED
    BY <1>1, <2>2, <2>3 DEF Persists
<1>2. CASE decs[d.req] = None
  <2>1. writes' = <<first, HistoryWrite(h), last>>
    BY <1>2, Joined DEF StoreWrites, ResultWrites
  <2>2. AgentWrites' = {1, 3} /\ writes'[1] = first /\ writes'[3] = last
    BY <2>1, Queued, Written
  <2>3. /\ writes'[1].store.decs = [decs EXCEPT ![e.req] = d]
        /\ writes'[3].store.decs = [decs EXCEPT ![e.req] = e]
    BY <2>2, Written
  <2>4. QED
    BY <2>2, <2>3 DEF Persists
<1>3. QED
  BY <1>1, <1>2

LEMMA ApprovalsKeepLedger ==
  ASSUME TypeOK, LedgerInv, Approvals
  PROVE  LedgerInv'
<1>1. ASSUME NEW r \in Req, NEW a \in ExecutorAction, ApproveSkipped(r, a)
      PROVE  LedgerInv'
  <2> DEFINE d == StoredDecision(r, "approve", a)
  <2> DEFINE e == WithResult(d, "skipped")
  <2>1. d \in Decision /\ d.req = r /\ Compatible(d)
    BY <1>1, StoredIsCompatible DEF ApproveSkipped, Verdict
  <2>2. e \in Decision /\ e.req = d.req /\ Given(e) = Given(d)
    BY <2>1, ResultIsCopy
  <2>3. Compatible(e)
    BY <2>1, <2>2 DEF Compatible
  <2>4. Persists(e)
    BY <1>1, <2>1, <2>2, ExecutorPersists DEF ApproveSkipped
  <2>5. \A s \in Slot : Live(s, {"manual"})' =>
          Live(s, {"manual"}) /\ runs'[s].req = runs[s].req /\ runs'[s].snap = runs[s].snap
    BY <1>1 DEF ApproveSkipped, Live
  <2>6. Idle /\ SetDecision(e) /\ UNCHANGED <<up, disk, seen>>
    BY <1>1 DEF ApproveSkipped, stores, agents
  <2>7. QED
    BY <2>2, <2>3, <2>4, <2>5, <2>6, DecisionSet
<1>2. ASSUME NEW r \in Req, NEW a \in ExecutorAction, ApproveWithoutBranch(r, a)
      PROVE  LedgerInv'
  <2> DEFINE d == StoredDecision(r, "approve", a)
  <2> DEFINE e == WithResult(d, "succeeded")
  <2>1. d \in Decision /\ d.req = r /\ Compatible(d)
    BY <1>2, StoredIsCompatible DEF ApproveWithoutBranch, Verdict
  <2>2. e \in Decision /\ e.req = d.req /\ Given(e) = Given(d)
    BY <2>1, ResultIsCopy
  <2>3. Compatible(e)
    BY <2>1, <2>2 DEF Compatible
  <2>4. Persists(e)
    BY <1>2, <2>1, <2>2, ExecutorPersists DEF ApproveWithoutBranch
  <2>5. \A s \in Slot : Live(s, {"manual"})' =>
          Live(s, {"manual"}) /\ runs'[s].req = runs[s].req /\ runs'[s].snap = runs[s].snap
    BY <1>2 DEF ApproveWithoutBranch, Live
  <2>6. Idle /\ SetDecision(e) /\ UNCHANGED <<up, disk, seen>>
    BY <1>2 DEF ApproveWithoutBranch, stores, agents
  <2>7. QED
    BY <2>2, <2>3, <2>4, <2>5, <2>6, DecisionSet
<1>3. ASSUME NEW r \in Req, NEW a \in ExecutorAction, NEW b \in Branch, NEW s \in Slot,
             ApproveMerges(r, b, a, s)
      PROVE  LedgerInv'
  <2> DEFINE d == StoredDecision(r, "approve", a)
  <2>1. d \in Decision /\ d.req = r /\ Compatible(d)
    BY <1>3, StoredIsCompatible DEF ApproveMerges, Verdict
  <2>2. writes' = StoreWrites(d) /\ SetDecision(d) /\ Idle
    BY <1>3 DEF ApproveMerges
  <2>3. Persists(d)
    BY <2>1, <2>2 DEF Persists, StoreWrites, AgentWrites, AgentsWrite
  <2>4. runs' = [runs EXCEPT ![s] = GitChild("manual", r, b, d, StoreWrites(d))]
    BY <1>3 DEF ApproveMerges
  <2>5. \A t \in Slot : Live(t, {"manual"})' =>
          \/ /\ Live(t, {"manual"})
             /\ runs'[t].req = runs[t].req /\ runs'[t].snap = runs[t].snap
          \/ runs'[t].req = d.req /\ runs'[t].snap = d
    <3>1. runs'[s].req = d.req /\ runs'[s].snap = d
      BY <2>1, <2>4 DEF TypeOK, GitChild
    <3>2. \A t \in Slot : t # s => runs'[t] = runs[t]
      BY <2>4 DEF TypeOK
    <3>3. QED
      BY <3>1, <3>2 DEF Live
  <2>6. UNCHANGED <<up, disk, seen>>
    BY <1>3 DEF ApproveMerges, stores, agents
  <2>7. QED
    BY <2>1, <2>2, <2>3, <2>5, <2>6, DecisionSet
<1>4. QED
  BY <1>1, <1>2, <1>3 DEF Approvals

LEMMA RejectKeepsLedger ==
  ASSUME TypeOK, LedgerInv, NEW r \in Req, Reject(r)
  PROVE  LedgerInv'
<1> DEFINE d == StoredDecision(r, "reject", "none")
<1> DEFINE h == Logged(history, r, "REJECTED", "manual")
<1>1. d \in Decision /\ d.req = r /\ Compatible(d)
  BY StoredIsCompatible DEF Reject, Verdict, ExecutorAction
<1>2. Persists(d)
  <2>1. CASE decs[r] # None
    <3>1. writes' = <<HistoryWrite(h)>>
      BY <1>1, <2>1, Joined DEF Reject, StoreWrites
    <3>2. AgentWrites' = {}
      BY <3>1, Queued, Written
    <3>3. QED
      BY <1>1, <2>1, <3>2 DEF Persists
  <2>2. CASE decs[r] = None
    <3>1. writes' = <<AgentsWrite(reqs, [decs EXCEPT ![d.req] = d]), HistoryWrite(h)>>
      BY <1>1, <2>2, Joined DEF Reject, StoreWrites
    <3>2. AgentWrites' = {1} /\ writes'[1].store.decs = [decs EXCEPT ![d.req] = d]
      BY <3>1, Queued, Written
    <3>3. QED
      BY <1>1, <3>2 DEF Persists
  <2>3. QED
    BY <2>1, <2>2
<1>3. \A s \in Slot : Live(s, {"manual"})' =>
        Live(s, {"manual"}) /\ runs'[s].req = runs[s].req /\ runs'[s].snap = runs[s].snap
  BY DEF Reject, Live
<1>4. Idle /\ SetDecision(d) /\ UNCHANGED <<up, disk, seen>>
  BY DEF Reject, stores, agents
<1>5. QED
  BY <1>1, <1>2, <1>3, <1>4, DecisionSet

\* What a manual merge writes back is a copy of the decision there is, although the
\* executor held its own copy across the await.
LEMMA FinishManualKeepsLedger ==
  ASSUME TypeOK, LedgerInv, NEW s \in Slot, FinishManual(s)
  PROVE  LedgerInv'
<1> DEFINE run == runs[s]
<1> DEFINE d == WithResult(run.snap, IF run.git = "ok" THEN "succeeded" ELSE "failed")
<1> DEFINE h ==
      Logged(history, run.req, IF run.git = "ok" THEN "APPROVED" ELSE "APPROVE_FAILED", "manual")
<1>1. run.snap \in Decision /\ run.req \in Req /\ Live(s, {"manual"})
  BY ChildHas DEF FinishManual, Live
<1>2. decs[run.req] # None /\ Given(decs[run.req]) = Given(run.snap)
  BY <1>1 DEF LedgerInv, ChildrenAgree
<1>3. decs[run.req].req = run.req
  BY <1>1, <1>2 DEF LedgerInv, MapsAreKeyed, Keyed
<1>4. run.snap.req = run.req
  BY <1>2, <1>3 DEF Given
<1>5. d \in Decision /\ d.req = run.req /\ Given(d) = Given(run.snap)
  BY <1>1, <1>4, ResultIsCopy
<1>6. Compatible(d)
  BY <1>2, <1>5 DEF Compatible
<1>7. Persists(d)
  <2>1. writes' = <<HistoryWrite(h), AgentsWrite(reqs, [decs EXCEPT ![d.req] = d])>>
    BY DEF FinishManual, ResultWrites
  <2>2. AgentWrites' = {2} /\ writes'[2].store.decs = [decs EXCEPT ![d.req] = d]
    BY <2>1, Queued, Written
  <2>3. QED
    BY <1>5, <2>2 DEF Persists
<1>8. \A t \in Slot : Live(t, {"manual"})' =>
        Live(t, {"manual"}) /\ runs'[t].req = runs[t].req /\ runs'[t].snap = runs[t].snap
  BY DEF FinishManual, Live, TypeOK
<1>9. Idle /\ SetDecision(d) /\ UNCHANGED <<up, disk, seen>>
  BY DEF FinishManual, stores, agents
<1>10. QED
  BY <1>5, <1>6, <1>7, <1>8, <1>9, DecisionSet

LEMMA AckKeepsLedger ==
  ASSUME TypeOK, LedgerInv, NEW i \in 1..MaxDecisions, Ack(i)
  PROVE  LedgerInv'
<1> DEFINE d == Acknowledged(byId[i])
<1>1. byId[i] \in Decision /\ decs[byId[i].req] # None
      /\ Given(decs[byId[i].req]) = Given(byId[i])
  BY DEF Ack, TypeOK, LedgerInv, MapsAreKeyed
<1>2. d \in Decision /\ d.req = byId[i].req /\ Given(d) = Given(byId[i])
  BY <1>1 DEF Acknowledged, Decision, Given
<1>3. Compatible(d)
  BY <1>1, <1>2 DEF Compatible
<1>4. Idle /\ writes' = writes /\ SetDecision(d) /\ UNCHANGED <<up, disk, seen, runs>>
  BY DEF Ack, stores
<1>5. Persists(d)
  BY <1>1, <1>2, <1>4 DEF Persists, Idle, AgentWrites
<1>6. \A s \in Slot : Live(s, {"manual"})' =>
        Live(s, {"manual"}) /\ runs'[s].req = runs[s].req /\ runs'[s].snap = runs[s].snap
  BY <1>4 DEF Live
<1>7. QED
  BY <1>2, <1>3, <1>4, <1>5, <1>6, DecisionSet

-----------------------------------------------------------------------------
(* Polls, file writes, crashes and restarts *)

LEMMA PollIsStored ==
  ASSUME TypeOK, LedgerInv, NEW r \in Req, Poll(r)
  PROVE  disk.decs[r] # None /\ Given(disk.decs[r]) = Given(decs[r]) /\ Given(decs[r]).req = r
<1>1. Agree(disk.decs, decs) /\ decs[r] # None
  BY DEF LedgerInv, WritesAgree, Poll, Idle, AgentWrites
<1>2. QED
  BY <1>1 DEF Agree, Knows, LedgerInv, MapsAreKeyed, Keyed, Given

LEMMA PollKeepsLedger ==
  ASSUME TypeOK, LedgerInv, NEW r \in Req, Poll(r)
  PROVE  LedgerInv'
<1>1. UNCHANGED <<up, decs, byId, writes, disk, runs>> /\ seen' = seen \cup {Given(decs[r])}
  BY DEF Poll, memory, stores
<1>2. MapsAreKeyed' /\ WritesAgree' /\ StoreIsBehindByOne' /\ ChildrenAgree'
  BY <1>1 DEF LedgerInv, MapsAreKeyed, WritesAgree, AgentWrites, StoreIsBehindByOne,
              ChildrenAgree, Live
<1>3. SeenIsStored'
  BY <1>1, PollIsStored DEF LedgerInv, SeenIsStored
<1>4. QED
  BY <1>2, <1>3 DEF LedgerInv

\* A write brings the store from what it knew to exactly what memory knows.
LEMMA FlushAgrees ==
  ASSUME TypeOK, LedgerInv, Flush
  PROVE  /\ Keyed(disk'.decs)
         /\ Knows(disk'.decs, disk.decs) /\ Knows(decs, disk'.decs)
         /\ AgentWrites' = {} => Agree(disk'.decs, decs)
         /\ \A k \in AgentWrites' : k + 1 \in AgentWrites /\ writes'[k] = writes[k + 1]
<1>1. writes \in Seq(Write) /\ writes # <<>> /\ writes' = Tail(writes) /\ up
  BY DEF TypeOK, Flush
<1>2. /\ Head(writes) = writes[1] /\ 1 \in DOMAIN writes
      /\ \A k \in DOMAIN writes' : k + 1 \in DOMAIN writes /\ writes'[k] = writes[k + 1]
      /\ \A k \in DOMAIN writes : k # 1 => k - 1 \in DOMAIN writes' /\ writes'[k - 1] = writes[k]
  BY <1>1
<1>3. \A k \in AgentWrites' : k + 1 \in AgentWrites /\ writes'[k] = writes[k + 1]
  BY <1>2 DEF AgentWrites
<1>4. Knows(decs, disk.decs)
  BY <1>1 DEF LedgerInv, StoreIsBehindByOne
<1>5. CASE writes[1].file = "agents"
  <2>1. disk' = writes[1].store /\ 1 \in AgentWrites
    BY <1>2, <1>5 DEF Flush, AgentWrites
  <2>2. Keyed(disk'.decs) /\ Agree(disk'.decs, decs)
    BY <2>1 DEF LedgerInv, WritesAgree
  <2>3. QED
    BY <1>3, <1>4, <2>2, KnowsComposes DEF Agree
<1>6. CASE writes[1].file # "agents"
  <2>1. disk' = disk
    BY <1>2, <1>6 DEF Flush
  <2>2. AgentWrites' = {} => AgentWrites = {}
    BY <1>2, <1>6 DEF AgentWrites
  <2>3. AgentWrites' = {} => Agree(disk.decs, decs)
    BY <1>1, <2>2 DEF LedgerInv, WritesAgree
  <2>4. Knows(disk'.decs, disk.decs) /\ Knows(decs, disk'.decs) /\ Keyed(disk'.decs)
    BY <1>4, <2>1 DEF Knows, LedgerInv, MapsAreKeyed
  <2>5. AgentWrites' = {} => Agree(disk'.decs, decs)
    BY <2>1, <2>3
  <2>6. QED
    BY <1>3, <2>4, <2>5
<1>7. QED
  BY <1>5, <1>6

LEMMA FlushKeepsLedger ==
  ASSUME TypeOK, LedgerInv, Flush
  PROVE  LedgerInv'
<1>1. UNCHANGED <<up, decs, byId, seen>> /\ up
  BY DEF Flush, memory, agents
<1>2. MapsAreKeyed'
  BY <1>1, FlushAgrees DEF LedgerInv, MapsAreKeyed
<1>3. WritesAgree'
  BY <1>1, FlushAgrees DEF LedgerInv, WritesAgree
<1>4. StoreIsBehindByOne'
  BY <1>1, FlushAgrees DEF LedgerInv, StoreIsBehindByOne, Knows
<1>5. SeenIsStored'
  <2>1. \A g \in seen : g.req \in Req
    BY DEF TypeOK, Told
  <2>2. QED
    BY <1>1, <2>1, FlushAgrees DEF LedgerInv, SeenIsStored, Knows
<1>6. ChildrenAgree'
  <2>1. ASSUME NEW s \in Slot, Live(s, {"manual"})'
        PROVE  /\ Live(s, {"manual"})
               /\ runs'[s].req = runs[s].req /\ runs'[s].snap = runs[s].snap
    <3>1. runs'[s] = Spawned(runs[s]) \/ runs'[s] = runs[s]
      BY DEF Flush
    <3>2. runs[s] \in Run \cup {None}
      BY DEF TypeOK
    <3>3. QED
      BY <2>1, <3>1, <3>2 DEF Live, Spawned, Run, ManualRun, AutoRun, UndoRun
  <2>2. QED
    BY <1>1, <2>1 DEF LedgerInv, ChildrenAgree
<1>7. QED
  BY <1>2, <1>3, <1>4, <1>5, <1>6 DEF LedgerInv

LEMMA CrashKeepsLedger ==
  ASSUME TypeOK, LedgerInv, Crash
  PROVE  LedgerInv'
<1>1. ~up' /\ writes' = <<>> /\ UNCHANGED <<disk, seen>> /\ \A r \in Req : decs'[r] = None
  BY DEF Crash, Dies, NoDecisions, agents
<1>2. MapsAreKeyed'
  <2>1. \A i \in 1..MaxDecisions : byId'[i] = None
    BY DEF Crash, Dies, IndexById, NoDecisions
  <2>2. QED
    BY <1>1, <2>1 DEF LedgerInv, MapsAreKeyed, Keyed
<1>3. WritesAgree' /\ StoreIsBehindByOne' /\ SeenIsStored'
  BY <1>1 DEF LedgerInv, WritesAgree, AgentWrites, StoreIsBehindByOne, SeenIsStored
<1>4. ChildrenAgree'
  <2>1. \A s \in Slot : runs'[s] = Orphaned(runs[s]) /\ runs[s] \in Run \cup {None}
    BY DEF Crash, Dies, TypeOK
  <2>2. \A s \in Slot : ~Live(s, {"manual"})'
    BY <2>1 DEF Live, Orphaned, Run, ManualRun, AutoRun, UndoRun
  <2>3. QED
    BY <2>2 DEF ChildrenAgree
<1>5. QED
  BY <1>2, <1>3, <1>4 DEF LedgerInv

LEMMA StartKeepsLedger ==
  ASSUME TypeOK, LedgerInv, Start
  PROVE  LedgerInv'
<1>1. /\ ~up /\ up' /\ writes = <<>> /\ UNCHANGED <<writes, disk, seen, runs>>
      /\ decs' = disk.decs /\ byId' = IndexById(disk.decs)
  BY DEF Start, stores, agents, LedgerInv, WritesAgree
<1>2. disk.decs \in DecisionMap /\ Keyed(disk.decs)
  BY DEF TypeOK, AgentStore, LedgerInv, MapsAreKeyed
<1>3. MapsAreKeyed'
  BY <1>1, <1>2, IndexIsKeyed DEF MapsAreKeyed
<1>4. WritesAgree'
  BY <1>1, AgreeReflexive DEF WritesAgree, AgentWrites
<1>5. StoreIsBehindByOne'
  BY <1>1 DEF StoreIsBehindByOne, Knows
<1>6. SeenIsStored' /\ ChildrenAgree'
  BY <1>1 DEF LedgerInv, SeenIsStored, ChildrenAgree, Live
<1>7. QED
  BY <1>3, <1>4, <1>5, <1>6 DEF LedgerInv

LEMMA LedgerNext == TypeOK /\ LedgerInv /\ [Next]_vars => LedgerInv'
<1> SUFFICES ASSUME TypeOK, LedgerInv, [Next]_vars PROVE LedgerInv'
  OBVIOUS
<1>1. CASE Requests
  BY <1>1, RequestsKeepLedger
<1>2. CASE Operators
  BY <1>2, ApprovalsKeepLedger, RejectKeepsLedger, QuietStepsKeepLedger DEF Operators
<1>3. CASE Callbacks
  BY <1>3, FinishManualKeepsLedger, QuietStepsKeepLedger DEF Callbacks
<1>4. CASE AgentSaves \/ Pulls \/ Acks
  BY <1>4, AgentSavesKeepsLedger, PollKeepsLedger, AckKeepsLedger DEF Pulls, Acks
<1>5. CASE Flush \/ Crash \/ Start
  BY <1>5, FlushKeepsLedger, CrashKeepsLedger, StartKeepsLedger
<1>6. CASE Git \/ CooldownElapses \/ UNCHANGED vars
  BY <1>6, QuietStepsKeepLedger
<1>7. QED
  BY <1>1, <1>2, <1>3, <1>4, <1>5, <1>6 DEF Next

-----------------------------------------------------------------------------
(* The theorems *)

\* LedgerInv is an invariant: the maps, the store, the pending writes and the objects
\* executors hold across their awaits always tell the same decision on a request.
THEOREM LedgerInvariant == Spec => []LedgerInv
<1>1. Init => LedgerInv
  BY LedgerInit
<1>2. TypeOK /\ LedgerInv /\ [Next]_vars => LedgerInv'
  BY LedgerNext
<1>3. QED
  BY <1>1, <1>2, TypeCorrect, PTL DEF Spec

\* Whatever agents poll, operators decide and crashes undo, no agent is told two
\* different decisions on one request (storeApprovalDecision, loadAgentStore).
THEOREM OneDecisionTold == Spec => []ToldOneDecision
<1>1. LedgerInv => ToldOneDecision
  BY DEF LedgerInv, SeenIsStored, ToldOneDecision
<1>2. QED
  BY <1>1, LedgerInvariant, PTL

LEMMA RulingOfAgreeing ==
  ASSUME NEW ds, NEW es, Agree(ds, es)
  PROVE  Ruling(ds) = Ruling(es)
BY DEF Ruling, Agree, Knows

\* The store is what a poll can be answered from: between two handlers it has the
\* decisions memory has.
THEOREM StoredDecisionsAreCurrent == Spec => [](Idle => Ruling(disk.decs) = Ruling(decs))
<1>1. LedgerInv => (Idle => Ruling(disk.decs) = Ruling(decs))
  <2> SUFFICES ASSUME LedgerInv, Idle PROVE Ruling(disk.decs) = Ruling(decs)
    OBVIOUS
  <2>1. Agree(disk.decs, decs)
    BY DEF LedgerInv, WritesAgree, Idle, AgentWrites
  <2>2. QED
    BY <2>1, RulingOfAgreeing
<1>2. QED
  BY <1>1, LedgerInvariant, PTL

LEMMA LedgerStep ==
  ASSUME TypeOK, LedgerInv, [Next]_vars
  PROVE  [Ledger!Next]_(Ledger!vars)
<1>1. CASE Pulls
  <2>1. PICK r \in Req : Poll(r)
    BY <1>1 DEF Pulls
  <2>2. seen' = seen \cup {Given(decs[r])} /\ disk' = disk
    BY <2>1 DEF Poll, stores
  <2>3. Given(decs[r]) \in Told
    BY <2>1 DEF Poll, TypeOK, DecisionMap, Decision, Given, Told
  <2>4. Ruling(disk.decs)[r] = Given(decs[r])
    BY <2>1, PollIsStored DEF Ruling
  <2>5. Ledger!Tell(r)
    BY <2>2, <2>3, <2>4, NoDecisionAssumption DEF Ledger!Tell
  <2>6. QED
    BY <2>5 DEF Ledger!Next
<1>2. CASE Flush
  <2>1. seen' = seen /\ decs' = decs /\ up
    BY <1>2 DEF Flush, memory, agents
  <2>2. CASE Ruling(disk'.decs) = Ruling(disk.decs)
    BY <2>1, <2>2 DEF Ledger!vars
  <2>3. CASE Ruling(disk'.decs) # Ruling(disk.decs)
    <3>1. Knows(disk'.decs, disk.decs) /\ Knows(decs, disk'.decs)
      BY <1>2, FlushAgrees
    <3>2. \A q, r \in Req :
            decs[q] # None /\ disk.decs[q] = None /\ decs[r] # None /\ disk.decs[r] = None
            => q = r
      BY <2>1 DEF LedgerInv, StoreIsBehindByOne
    <3>3. PICK x \in Req : Ruling(disk'.decs)[x] # Ruling(disk.decs)[x]
      BY <2>3 DEF Ruling
    <3>4. disk.decs[x] = None /\ disk'.decs[x] # None /\ decs[x] # None
      BY <3>1, <3>3 DEF Ruling, Knows
    <3>5. \A r \in Req : r # x => Ruling(disk'.decs)[r] = Ruling(disk.decs)[r]
      BY <3>1, <3>2, <3>4 DEF Ruling, Knows
    <3>6. Ruling(disk'.decs) = [Ruling(disk.decs) EXCEPT ![x] = Ruling(disk'.decs)[x]]
      BY <3>5 DEF Ruling
    <3>7. Ruling(disk.decs)[x] = None
      BY <3>4 DEF Ruling
    <3>8. Ledger!Decide(x, Ruling(disk'.decs)[x])
      BY <2>1, <3>6, <3>7 DEF Ledger!Decide
    <3>9. QED
      BY <3>8 DEF Ledger!Next
  <2>4. QED
    BY <2>2, <2>3
<1>3. CASE ~Pulls /\ ~Flush
  <2>1. CASE Requests
    BY <2>1 DEF Requests, Submit, SubmitDryRun, SubmitAutoApproved, stores, agents, Ledger!vars
  <2>2. CASE Operators
    <3>1. Approvals => disk' = disk /\ seen' = seen
      <4>1. ASSUME NEW r \in Req, NEW a \in ExecutorAction, ApproveSkipped(r, a)
            PROVE  disk' = disk /\ seen' = seen
        BY <4>1 DEF ApproveSkipped, stores, agents
      <4>2. ASSUME NEW r \in Req, NEW a \in ExecutorAction, ApproveWithoutBranch(r, a)
            PROVE  disk' = disk /\ seen' = seen
        BY <4>2 DEF ApproveWithoutBranch, stores, agents
      <4>3. ASSUME NEW r \in Req, NEW a \in ExecutorAction, NEW b \in Branch, NEW s \in Slot,
                   ApproveMerges(r, b, a, s)
            PROVE  disk' = disk /\ seen' = seen
        BY <4>3 DEF ApproveMerges, stores, agents
      <4>4. QED
        BY <4>1, <4>2, <4>3 DEF Approvals
    <3>2. (\E r \in Req : Reject(r)) => disk' = disk /\ seen' = seen
      BY DEF Reject, stores, agents
    <3>3. \/ \E s \in Slot : Undo(s)
          \/ \E p \in Project : SelectProject(p)
          => disk' = disk /\ seen' = seen
      BY DEF Undo, SelectProject, stores, agents
    <3>4. disk' = disk /\ seen' = seen
      BY <2>2, <3>1, <3>2, <3>3 DEF Operators
    <3>5. QED
      BY <3>4 DEF Ledger!vars
  <2>3. CASE Callbacks
    BY <2>3 DEF Callbacks, FinishManual, FinishAuto, FinishUndo, stores, agents, Ledger!vars
  <2>4. CASE CooldownElapses \/ AgentSaves \/ Acks \/ UNCHANGED vars
    BY <2>4 DEF CooldownElapses, AgentSaves, Acks, Ack, vars, stores, agents, Ledger!vars
  <2>5. CASE Git
    BY <2>5 DEF Git, GitMergeSucceeds, GitResetSucceeds, GitFails, stores, agents, Ledger!vars
  <2>6. CASE Crash \/ Start
    BY <2>6 DEF Crash, Dies, Start, stores, agents, Ledger!vars
  <2>7. QED
    BY <1>3, <2>1, <2>2, <2>3, <2>4, <2>5, <2>6 DEF Next
<1>4. QED
  BY <1>1, <1>2, <1>3

\* The agent store is a decision ledger: a decision, once stored, never changes or
\* disappears, and polls give out nothing else, through crashes and restarts.
THEOREM RefinesLedger == Spec => ImplementsLedger
<1>1. Init => Ledger!Init
  BY DEF Init, Ledger!Init, Ruling, EmptyStore, NoDecisions
<1>2. TypeOK /\ LedgerInv /\ [Next]_vars => [Ledger!Next]_(Ledger!vars)
  BY LedgerStep
<1>3. QED
  BY <1>1, <1>2, TypeCorrect, LedgerInvariant, PTL DEF Spec, ImplementsLedger, Ledger!Spec

-----------------------------------------------------------------------------
(***************************************************************************)
(* What is promised beyond the ledger                                      *)
(***************************************************************************)

(* The inductive invariants *)

\* No two decisions have one id, and the next id is new.
IdsAreUnique(ds) ==
  /\ \A q, r \in Req : ds[q] # None /\ ds[r] # None /\ ds[q].id = ds[r].id => q = r
  /\ \A r \in Req : ds[r] # None => ds[r].id < nextId

\* Every agent store still to be written has the requests memory has.
RequestsAreWritten ==
  /\ \A k \in AgentWrites : writes[k].store.reqs = reqs
  /\ up /\ AgentWrites = {} => disk.reqs = reqs

CopiesInv ==
  /\ IdsAreUnique(decs) /\ IdsAreUnique(disk.decs)
  /\ MapsAgree /\ RequestsAreWritten /\ ApprovingHasMerge /\ AutoIsSingle

LogWrites == {k \in DOMAIN writes : writes[k].file = "history"}

Landed(r) == r \in Req /\ landed[r] # "no"
ResultsLanded(ds) == \A r \in Req : ds[r] # None /\ ds[r].result = "succeeded" => Landed(r)
LogLanded(h) == \A e \in h : e.result = "APPROVED" => Landed(e.req)

\* Wherever a success is recorded or about to be - in memory, in a file, in a write or by a
\* child that has ended -, it has happened.
LandedInv ==
  /\ \A r \in Req : status[r] = "merged" => Landed(r)
  /\ ResultsLanded(decs) /\ ResultsLanded(disk.decs)
  /\ LogLanded(history) /\ LogLanded(diskHistory)
  /\ \A k \in AgentWrites : ResultsLanded(writes[k].store.decs)
  /\ \A k \in LogWrites : LogLanded(writes[k].entries)
  /\ \A s \in Slot :
       runs[s] # None /\ runs[s].kind # "undo" /\ runs[s].git = "ok" => Landed(runs[s].req)

Logs(h, r) == \E e \in h : e.req = r /\ e.result = "APPROVED"
Audited(ds, h) == \A r \in Req : ds[r] # None /\ ds[r].result = "succeeded" => Logs(h, r)

\* The log only grows: each of its writes has what the file and the writes before it have, and
\* the last one, or the file if there is none, has what memory has.
LogGrows ==
  /\ \A k \in LogWrites : diskHistory \subseteq writes[k].entries /\ writes[k].entries \subseteq history
  /\ \A j, k \in LogWrites : j < k => writes[j].entries \subseteq writes[k].entries
  /\ up => diskHistory \subseteq history
  /\ up /\ LogWrites = {} => diskHistory = history
  /\ LogWrites # {} => \E k \in LogWrites : writes[k].entries = history

\* A success is in the log that is in the file when it comes to the agent store.
AuditInv ==
  /\ LogGrows
  /\ Audited(disk.decs, diskHistory)
  /\ \A k \in AgentWrites : \A r \in Req :
       writes[k].store.decs[r] # None /\ writes[k].store.decs[r].result = "succeeded" =>
         \/ Logs(diskHistory, r)
         \/ \E j \in LogWrites : j < k /\ Logs(writes[j].entries, r)
  /\ up => Audited(decs, history)

AuditTracked == "APPROVED" \in Tracked => AuditInv

\* ds says no other than es of what an executor is to do for a request.
SameAction(ds, es) ==
  \A r \in Req : ds[r] # None /\ es[r] # None => ds[r].action = es[r].action
ApprovesMerge(d) == d # None /\ d.decision = "approve" /\ d.action = "merge"

\* Copies of a decision have one action, only an approval's is to merge, and a manual child is
\* of an approval: in memory while the process lives, in the store once it has been started.
OrdersInv ==
  /\ \A ds \in {decs, disk.decs} : \A r \in Req :
       ds[r] # None /\ ds[r].action = "merge" => ds[r].decision = "approve"
  /\ SameAction(decs, disk.decs)
  /\ \A k \in AgentWrites : SameAction(decs, writes[k].store.decs)
  /\ \A s \in Slot : runs[s] # None /\ runs[s].kind = "manual" =>
       /\ runs[s].live => ApprovesMerge(decs[runs[s].req]) /\ runs[s].snap.action = "merge"
       /\ runs[s].git = "queued" => runs[s].live
       /\ runs[s].git # "queued" => ApprovesMerge(disk.decs[runs[s].req])

\* Without auto-approval every child that merges is a manual one, and what git has merged is
\* stored as approved.
MergedInv ==
  AutoMode # "on" =>
    /\ \A s \in Slot : runs[s] # None => runs[s].kind # "auto"
    /\ \A r \in Req : landed[r] = "merged" => ApprovesMerge(disk.decs[r])

-----------------------------------------------------------------------------
(* What a handler does to decisions and what it queues *)

Handler == Requests \/ Operators \/ Callbacks \/ AgentSaves \/ Pulls \/ Acks

\* A handler puts one decision in both maps: a copy of the one there is, or one with a new id.
PutsDecision(d) ==
  /\ SetDecision(d)
  /\ \/ decs[d.req] # None /\ Given(decs[d.req]) = Given(d) /\ nextId' = nextId
     \/ decs[d.req] = None /\ d.id = nextId /\ nextId' = nextId + 1

LEMMA StoredIsPut ==
  ASSUME TypeOK, LedgerInv, NEW r \in Req, NEW v \in Verdict, NEW a \in ExecutorAction,
         CanStore(r), CountIds(r), NEW e \in Decision, SetDecision(e),
         Given(e) = Given(StoredDecision(r, v, a))
  PROVE  PutsDecision(e)
<1> DEFINE d == StoredDecision(r, v, a)
<1>1. d.req = r /\ Compatible(d)
  BY StoredIsCompatible
<1>2. e.req = r /\ e.id = d.id /\ Given(e) = Given(d)
  BY <1>1 DEF Given
<1>3. CASE decs[r] # None
  BY <1>1, <1>2, <1>3 DEF PutsDecision, Compatible, CountIds
<1>4. CASE decs[r] = None
  <2>1. d.id = nextId
    BY <1>4 DEF StoredDecision, NewDecision
  <2>2. QED
    BY <1>2, <1>4, <2>1 DEF PutsDecision, CountIds
<1>5. QED
  BY <1>3, <1>4

\* What a manual merge writes back is a copy of the decision there is.
LEMMA SnapIsCopy ==
  ASSUME TypeOK, LedgerInv, NEW s \in Slot, FinishManual(s),
         NEW x \in {"none", "succeeded", "failed", "skipped"}
  PROVE  LET d == WithResult(runs[s].snap, x) IN
         /\ d \in Decision /\ d.req = runs[s].req
         /\ decs[d.req] # None /\ Given(decs[d.req]) = Given(d)
<1>1. runs[s].snap \in Decision /\ runs[s].req \in Req /\ Live(s, {"manual"})
  BY ChildHas DEF FinishManual, Live
<1>2. decs[runs[s].req] # None /\ Given(decs[runs[s].req]) = Given(runs[s].snap)
  BY <1>1 DEF LedgerInv, ChildrenAgree
<1>3. decs[runs[s].req].req = runs[s].req
  BY <1>1, <1>2 DEF LedgerInv, MapsAreKeyed, Keyed
<1>4. runs[s].snap.req = runs[s].req
  BY <1>2, <1>3 DEF Given
<1>5. QED
  BY <1>1, <1>2, <1>4, ResultIsCopy

LEMMA HandlersPut ==
  ASSUME TypeOK, LedgerInv, Handler
  PROVE  /\ Idle /\ up' /\ UNCHANGED stores
         /\ UNCHANGED <<decs, byId, nextId>> \/ \E d \in Decision : PutsDecision(d)
<1>1. ASSUME NEW r \in Req, NEW a \in ExecutorAction, ApproveSkipped(r, a)
      PROVE  Idle /\ up' /\ UNCHANGED stores /\ \E d \in Decision : PutsDecision(d)
  <2> DEFINE d == StoredDecision(r, "approve", a)
  <2>1. /\ WithResult(d, "skipped") \in Decision
        /\ Given(WithResult(d, "skipped")) = Given(d)
    BY <1>1, StoredIsCompatible, ResultIsCopy DEF ApproveSkipped, Verdict
  <2>2. PutsDecision(WithResult(d, "skipped"))
    BY <1>1, <2>1, StoredIsPut DEF ApproveSkipped, Verdict
  <2>3. QED
    BY <1>1, <2>1, <2>2 DEF ApproveSkipped, Idle
<1>2. ASSUME NEW r \in Req, NEW a \in ExecutorAction, ApproveWithoutBranch(r, a)
      PROVE  Idle /\ up' /\ UNCHANGED stores /\ \E d \in Decision : PutsDecision(d)
  <2> DEFINE d == StoredDecision(r, "approve", a)
  <2>1. /\ WithResult(d, "succeeded") \in Decision
        /\ Given(WithResult(d, "succeeded")) = Given(d)
    BY <1>2, StoredIsCompatible, ResultIsCopy DEF ApproveWithoutBranch, Verdict
  <2>2. PutsDecision(WithResult(d, "succeeded"))
    BY <1>2, <2>1, StoredIsPut DEF ApproveWithoutBranch, Verdict
  <2>3. QED
    BY <1>2, <2>1, <2>2 DEF ApproveWithoutBranch, Idle
<1>3. ASSUME NEW r \in Req, NEW b \in Branch, NEW a \in ExecutorAction, NEW s \in Slot,
             ApproveMerges(r, b, a, s)
      PROVE  Idle /\ up' /\ UNCHANGED stores /\ \E d \in Decision : PutsDecision(d)
  <2> DEFINE d == StoredDecision(r, "approve", a)
  <2>1. d \in Decision
    BY <1>3, StoredIsCompatible DEF ApproveMerges, Verdict
  <2>2. PutsDecision(d)
    BY <1>3, <2>1, StoredIsPut DEF ApproveMerges, Verdict
  <2>3. QED
    BY <1>3, <2>1, <2>2 DEF ApproveMerges, Idle
<1>4. ASSUME NEW r \in Req, Reject(r)
      PROVE  Idle /\ up' /\ UNCHANGED stores /\ \E d \in Decision : PutsDecision(d)
  <2> DEFINE d == StoredDecision(r, "reject", "none")
  <2>1. d \in Decision
    BY <1>4, StoredIsCompatible DEF Reject, Verdict, ExecutorAction
  <2>2. PutsDecision(d)
    BY <1>4, <2>1, StoredIsPut DEF Reject, Verdict, ExecutorAction
  <2>3. QED
    BY <1>4, <2>1, <2>2 DEF Reject, Idle
<1>5. ASSUME NEW s \in Slot, FinishManual(s)
      PROVE  Idle /\ up' /\ UNCHANGED stores /\ \E d \in Decision : PutsDecision(d)
  <2> DEFINE d == WithResult(runs[s].snap, IF runs[s].git = "ok" THEN "succeeded" ELSE "failed")
  <2>1. d \in Decision /\ d.req = runs[s].req /\ decs[d.req] # None /\ Given(decs[d.req]) = Given(d)
    BY <1>5, SnapIsCopy
  <2>2. PutsDecision(d)
    BY <1>5, <2>1 DEF FinishManual, PutsDecision
  <2>3. QED
    BY <1>5, <2>1, <2>2 DEF FinishManual, Idle
<1>6. ASSUME NEW i \in 1..MaxDecisions, Ack(i)
      PROVE  Idle /\ up' /\ UNCHANGED stores /\ \E d \in Decision : PutsDecision(d)
  <2>1. /\ byId[i] \in Decision /\ decs[byId[i].req] # None
        /\ Given(decs[byId[i].req]) = Given(byId[i])
    BY <1>6 DEF Ack, TypeOK, LedgerInv, MapsAreKeyed
  <2>2. /\ Acknowledged(byId[i]) \in Decision /\ Acknowledged(byId[i]).req = byId[i].req
        /\ Given(Acknowledged(byId[i])) = Given(byId[i])
    BY <2>1 DEF Acknowledged, Decision, Given
  <2>3. PutsDecision(Acknowledged(byId[i]))
    BY <1>6, <2>1, <2>2 DEF Ack, PutsDecision
  <2>4. QED
    BY <1>6, <2>2, <2>3 DEF Ack, Idle
<1>7. CASE Requests
  BY <1>7 DEF Requests, Submit, SubmitDryRun, SubmitAutoApproved, Idle, stores
<1>8. CASE (\E s \in Slot : Undo(s) \/ FinishAuto(s) \/ FinishUndo(s)) \/ AgentSaves \/ Pulls
           \/ (\E p \in Project : SelectProject(p))
  BY <1>8 DEF Undo, FinishAuto, FinishUndo, AgentSaves, Pulls, Poll, SelectProject, Idle,
              memory, stores
<1>9. QED
  BY <1>1, <1>2, <1>3, <1>4, <1>5, <1>6, <1>7, <1>8
     DEF Handler, Operators, Approvals, Callbacks, Acks

-----------------------------------------------------------------------------
(* What a handler leaves to be written *)

Succeeds(ds, r) == ds[r] # None /\ ds[r].result = "succeeded"

\* A store that is written before the handler has come to a result: it has what memory will
\* have, or a new decision as it was before its result.
FirstStore(ds) ==
  \A r \in Req :
    /\ ds[r] # decs'[r] =>
         /\ decs[r] = None /\ decs'[r] # None /\ ds[r] # None
         /\ ds[r].action = decs'[r].action
    /\ Succeeds(ds, r) => Succeeds(decs, r)

\* A result is in the log before it is in the agent store.
SuccessesAreLogged ==
  "APPROVED" \in Tracked =>
    \A r \in Req : Succeeds(decs', r) => Succeeds(decs, r) \/ Logs(history', r)

\* The agent stores a handler queues have the requests and decisions memory has in the end,
\* the log writes lead from the old log to the new one.
QueueFits ==
  /\ \A k \in AgentWrites' :
       /\ writes'[k].store.reqs = reqs'
       /\ FirstStore(writes'[k].store.decs) \/ writes'[k].store.decs = decs'
       /\ "APPROVED" \in Tracked =>
            \A r \in Req : Succeeds(writes'[k].store.decs, r) =>
              \/ Succeeds(decs, r)
              \/ \E j \in LogWrites' : j < k /\ Logs(writes'[j].entries, r)
  /\ AgentWrites' = {} => reqs' = reqs
  /\ \A k \in LogWrites' : history \subseteq writes'[k].entries /\ writes'[k].entries \subseteq history'
  /\ \A j, k \in LogWrites' : j < k => writes'[j].entries \subseteq writes'[k].entries
  /\ history \subseteq history'
  /\ LogWrites' = {} => history' = history
  /\ LogWrites' # {} => \E k \in LogWrites' : writes'[k].entries = history'
  /\ SuccessesAreLogged

\* The log writes among up to three writes.
LEMMA QueuedLogs ==
  /\ \A v : writes' = <<v>> => LogWrites' = {k \in {1} : writes'[k].file = "history"}
  /\ \A v, w : writes' = <<v, w>> => LogWrites' = {k \in {1, 2} : writes'[k].file = "history"}
  /\ \A u, v, w : writes' = <<u, v, w>> =>
       LogWrites' = {k \in {1, 2, 3} : writes'[k].file = "history"}
BY DEF LogWrites

LEMMA WrittenFields ==
  /\ \A h : HistoryWrite(h).entries = h
  /\ \A rq, ds : AgentsWrite(rq, ds).store.reqs = rq
BY DEF HistoryWrite, AgentsWrite

\* No handler queues but one store, log entries and one last store, or some of these.
LEMMA QueueShapes ==
  ASSUME NEW ds, NEW h, history \subseteq h, h \subseteq history', SuccessesAreLogged,
         \/ writes' = <<>> /\ reqs' = reqs /\ history' = history
         \/ writes' = <<HistoryWrite(history')>> /\ reqs' = reqs
         \/ writes' = <<HistoryWrite(history'), AgentsWrite(reqs', decs')>>
         \/ /\ FirstStore(ds)
            /\ \/ writes' = <<AgentsWrite(reqs', ds)>> /\ history' = history
               \/ writes' = <<AgentsWrite(reqs', ds), HistoryWrite(history')>>
               \/ writes' = <<AgentsWrite(reqs', ds), HistoryWrite(h), HistoryWrite(history')>>
               \/ writes' = <<AgentsWrite(reqs', ds), HistoryWrite(history'),
                              AgentsWrite(reqs', decs')>>
  PROVE  QueueFits
<1>1. CASE writes' = <<>> /\ reqs' = reqs /\ history' = history
  BY <1>1 DEF QueueFits, AgentWrites, LogWrites
<1>2. CASE FirstStore(ds) /\ writes' = <<AgentsWrite(reqs', ds)>> /\ history' = history
  <2>1. AgentWrites' = {1} /\ LogWrites' = {} /\ writes'[1] = AgentsWrite(reqs', ds)
    BY <1>2, Queued, QueuedLogs, Written
  <2>2. QED
    BY <1>2, <2>1, Written, WrittenFields DEF QueueFits, FirstStore
<1>3. CASE writes' = <<HistoryWrite(history')>> /\ reqs' = reqs
  <2>1. AgentWrites' = {} /\ LogWrites' = {1} /\ writes'[1] = HistoryWrite(history')
    BY <1>3, Queued, QueuedLogs, Written
  <2>2. QED
    BY <1>3, <2>1, WrittenFields DEF QueueFits
<1>4. CASE FirstStore(ds) /\ writes' = <<AgentsWrite(reqs', ds), HistoryWrite(history')>>
  <2>1. /\ AgentWrites' = {1} /\ LogWrites' = {2}
        /\ writes'[1] = AgentsWrite(reqs', ds) /\ writes'[2] = HistoryWrite(history')
    BY <1>4, Queued, QueuedLogs, Written
  <2>2. QED
    BY <1>4, <2>1, Written, WrittenFields DEF QueueFits, FirstStore
<1>5. CASE /\ FirstStore(ds)
           /\ writes' = <<AgentsWrite(reqs', ds), HistoryWrite(h), HistoryWrite(history')>>
  <2>1. /\ AgentWrites' = {1} /\ LogWrites' = {2, 3}
        /\ writes'[1] = AgentsWrite(reqs', ds) /\ writes'[2] = HistoryWrite(h)
        /\ writes'[3] = HistoryWrite(history')
    BY <1>5, Queued, QueuedLogs, Written
  <2>2. QED
    BY <1>5, <2>1, Written, WrittenFields DEF QueueFits, FirstStore
<1>6. CASE writes' = <<HistoryWrite(history'), AgentsWrite(reqs', decs')>>
  <2>1. /\ AgentWrites' = {2} /\ LogWrites' = {1}
        /\ writes'[1] = HistoryWrite(history') /\ writes'[2] = AgentsWrite(reqs', decs')
    BY <1>6, Queued, QueuedLogs, Written
  <2>2. QED
    BY <1>6, <2>1, Written, WrittenFields DEF QueueFits, SuccessesAreLogged
<1>7. CASE /\ FirstStore(ds)
           /\ writes' = <<AgentsWrite(reqs', ds), HistoryWrite(history'), AgentsWrite(reqs', decs')>>
  <2>1. /\ AgentWrites' = {1, 3} /\ LogWrites' = {2}
        /\ writes'[1] = AgentsWrite(reqs', ds) /\ writes'[2] = HistoryWrite(history')
        /\ writes'[3] = AgentsWrite(reqs', decs')
    BY <1>7, Queued, QueuedLogs, Written
  <2>2. QED
    BY <1>7, <2>1, Written, WrittenFields DEF QueueFits, FirstStore, SuccessesAreLogged
<1>8. QED
  BY <1>1, <1>2, <1>3, <1>4, <1>5, <1>6, <1>7

\* ds with the decision d that is new, and has no result, is a first store.
LEMMA NewDecisionIsFirst ==
  ASSUME TypeOK, NEW d \in Decision, NEW e \in Decision, SetDecision(e),
         e.req = d.req, e.action = d.action, decs[d.req] = None, d.result = "none"
  PROVE  FirstStore([decs EXCEPT ![d.req] = d])
<1> DEFINE ds == [decs EXCEPT ![d.req] = d]
<1>1. d.req \in Req /\ decs \in [Req -> Decision \cup {None}] /\ d # None /\ e # None
  BY NoDecisionAssumption DEF TypeOK, DecisionMap, Decision
<1>2. decs' = [decs EXCEPT ![e.req] = e]
  BY DEF SetDecision
<1>3. ds[d.req] = d /\ decs'[d.req] = e
  BY <1>1, <1>2
<1>4. \A r \in Req : r # d.req => ds[r] = decs[r] /\ decs'[r] = decs[r]
  BY <1>1, <1>2
<1> HIDE DEF ds
<1>5. ASSUME NEW r \in Req
      PROVE  /\ ds[r] # decs'[r] =>
                 /\ decs[r] = None /\ decs'[r] # None /\ ds[r] # None
                 /\ ds[r].action = decs'[r].action
             /\ Succeeds(ds, r) => Succeeds(decs, r)
  <2>1. CASE r = d.req
    BY <1>1, <1>3, <2>1 DEF Succeeds
  <2>2. CASE r # d.req
    BY <1>4, <2>2 DEF Succeeds
  <2>3. QED
    BY <2>1, <2>2
<1>6. QED
  BY <1>5 DEF FirstStore, ds

LEMMA SameStoreIsFirst ==
  ASSUME decs' = decs
  PROVE  FirstStore(decs) /\ SuccessesAreLogged
BY DEF FirstStore, SuccessesAreLogged

\* A decision whose success is old or in the log.
LEMMA PutIsLogged ==
  ASSUME TypeOK, NEW e \in Decision, SetDecision(e),
         "APPROVED" \in Tracked /\ e.result = "succeeded" =>
           Succeeds(decs, e.req) \/ Logs(history', e.req)
  PROVE  SuccessesAreLogged
<1>1. e.req \in Req /\ decs \in [Req -> Decision \cup {None}] /\ e # None
  BY NoDecisionAssumption DEF TypeOK, DecisionMap, Decision
<1>2. decs'[e.req] = e /\ \A r \in Req : r # e.req => decs'[r] = decs[r]
  BY <1>1 DEF SetDecision
<1>3. QED
  BY <1>2 DEF SuccessesAreLogged, Succeeds

LEMMA LogIsKept ==
  \A h, r, result, source :
    /\ h \subseteq Logged(h, r, result, source)
    /\ result = "APPROVED" /\ result \in Tracked => Logs(Logged(h, r, result, source), r)
<1> SUFFICES ASSUME NEW h, NEW r, NEW result, NEW source
             PROVE  /\ h \subseteq Logged(h, r, result, source)
                    /\ result = "APPROVED" /\ result \in Tracked =>
                         Logs(Logged(h, r, result, source), r)
  OBVIOUS
<1> DEFINE e == [req |-> r, result |-> result, source |-> source]
<1>1. h \subseteq Logged(h, r, result, source)
  BY DEF Logged
<1>2. ASSUME result = "APPROVED", result \in Tracked
      PROVE  Logs(Logged(h, r, result, source), r)
  <2>1. e \in Logged(h, r, result, source)
    BY <1>2 DEF Logged
  <2>2. e.req = r /\ e.result = "APPROVED"
    BY <1>2
  <2>3. QED
    BY <2>1, <2>2 DEF Logs
<1>3. QED
  BY <1>1, <1>2

\* An executor that comes to its result in the handler that stores the decision.
LEMMA ExecutorQueues ==
  ASSUME TypeOK, NEW d \in Decision, NEW e \in Decision, SetDecision(e),
         e.req = d.req, e.action = d.action, decs[d.req] = None => d.result = "none",
         reqs' = reqs, history \subseteq history',
         writes' = StoreWrites(d) \o ResultWrites(history', e),
         "APPROVED" \in Tracked /\ e.result = "succeeded" => Logs(history', e.req)
  PROVE  QueueFits
<1> DEFINE ds == [decs EXCEPT ![d.req] = d]
<1>1. decs' = [decs EXCEPT ![e.req] = e] /\ SuccessesAreLogged
  BY PutIsLogged DEF SetDecision
<1>2. CASE decs[d.req] # None
  <2>1. writes' = <<HistoryWrite(history'), AgentsWrite(reqs', decs')>>
    BY <1>1, <1>2, Joined DEF StoreWrites, ResultWrites
  <2>2. QED
    BY <1>1, <2>1, QueueShapes
<1>3. CASE decs[d.req] = None
  <2>1. writes' = <<AgentsWrite(reqs', ds), HistoryWrite(history'), AgentsWrite(reqs', decs')>>
    BY <1>1, <1>3, Joined DEF StoreWrites, ResultWrites
  <2>2. FirstStore(ds)
    BY <1>3, NewDecisionIsFirst
  <2>3. QED
    BY <1>1, <2>1, <2>2, QueueShapes
<1>4. QED
  BY <1>2, <1>3


LEMMA StoredIsNew ==
  ASSUME NEW r \in Req, NEW v \in Verdict, NEW a \in ExecutorAction, decs[r] = None
  PROVE  StoredDecision(r, v, a).result = "none"
BY DEF StoredDecision, NewDecision

LEMMA AppendedThird == \A u, v, w : Append(<<u, v>>, w) = <<u, v, w>>
<1> SUFFICES ASSUME NEW u, NEW v, NEW w PROVE Append(<<u, v>>, w) = <<u, v, w>>
  OBVIOUS
<1> DEFINE q == Append(<<u, v>>, w)
<1>1. <<u, v>> \in Seq({u, v, w})
  OBVIOUS
<1>2. q \in Seq({u, v, w}) /\ Len(q) = 3 /\ q[1] = u /\ q[2] = v /\ q[3] = w
  BY <1>1
<1> HIDE DEF q
<1>3. q = [i \in 1..3 |-> q[i]] /\ <<u, v, w>> = [i \in 1..3 |-> <<u, v, w>>[i]]
  BY <1>2
<1>4. \A i \in 1..3 : q[i] = <<u, v, w>>[i]
  BY <1>2
<1>5. q = <<u, v, w>>
  BY <1>3, <1>4, Zenon
<1>6. QED
  BY <1>5 DEF q

LEMMA RequestsQueue ==
  ASSUME TypeOK, Requests
  PROVE  QueueFits
<1>1. PICK r \in Req, policy \in BOOLEAN :
        \/ Submit(r, policy) \/ SubmitDryRun(r, policy)
        \/ \E b \in Branch, s \in Slot : SubmitAutoApproved(r, b, policy, s)
  BY DEF Requests
<1>2. reqs' = reqs \cup {r} /\ decs' = decs
  BY <1>1 DEF Submit, SubmitDryRun, SubmitAutoApproved
<1>3. FirstStore(decs) /\ SuccessesAreLogged
  BY <1>2, SameStoreIsFirst
<1>4. CASE Submit(r, policy) \/ \E b \in Branch, s \in Slot : SubmitAutoApproved(r, b, policy, s)
  <2>1. /\ writes' = <<AgentsWrite(reqs', decs), HistoryWrite(history')>>
        /\ history' = Logged(history, r, "REQUESTED", "system")
    BY <1>2, <1>4 DEF Submit, SubmitAutoApproved, SubmitWrites
  <2>2. QED
    BY <1>3, <2>1, LogIsKept, QueueShapes
<1>5. CASE SubmitDryRun(r, policy)
  <2> DEFINE h == Logged(history, r, "REQUESTED", "system")
  <2>1. /\ writes' = Append(<<AgentsWrite(reqs', decs), HistoryWrite(h)>>, HistoryWrite(history'))
        /\ history' = Logged(h, r, "AUTO_APPROVE_SKIPPED", "auto")
    BY <1>2, <1>5 DEF SubmitDryRun, SubmitWrites
  <2>2. writes' = <<AgentsWrite(reqs', decs), HistoryWrite(h), HistoryWrite(history')>>
    BY <2>1, AppendedThird
  <2>3. history \subseteq h /\ h \subseteq history'
    BY <2>1, LogIsKept
  <2>4. QED
    BY <1>3, <2>2, <2>3, QueueShapes
<1>6. QED
  BY <1>1, <1>4, <1>5

LEMMA ApprovalsQueue ==
  ASSUME TypeOK, LedgerInv, Approvals
  PROVE  QueueFits
<1>1. ASSUME NEW r \in Req, NEW a \in ExecutorAction, ApproveSkipped(r, a)
      PROVE  QueueFits
  <2> DEFINE d == StoredDecision(r, "approve", a)
  <2>1. d \in Decision /\ d.req = r /\ WithResult(d, "skipped") \in Decision
    BY <1>1, StoredIsCompatible, ResultIsCopy DEF ApproveSkipped, Verdict
  <2>2. /\ WithResult(d, "skipped").req = d.req /\ WithResult(d, "skipped").action = d.action
        /\ WithResult(d, "skipped").result = "skipped"
    BY <2>1 DEF WithResult, Decision
  <2>3. decs[d.req] = None => d.result = "none"
    BY <2>1, StoredIsNew DEF Verdict
  <2>4. /\ SetDecision(WithResult(d, "skipped")) /\ reqs' = reqs /\ history \subseteq history'
        /\ writes' = StoreWrites(d) \o ResultWrites(history', WithResult(d, "skipped"))
    BY <1>1, LogIsKept DEF ApproveSkipped
  <2> HIDE DEF d
  <2>5. QED
    BY <2>1, <2>2, <2>3, <2>4, ExecutorQueues
<1>2. ASSUME NEW r \in Req, NEW a \in ExecutorAction, ApproveWithoutBranch(r, a)
      PROVE  QueueFits
  <2> DEFINE d == StoredDecision(r, "approve", a)
  <2>1. d \in Decision /\ d.req = r /\ WithResult(d, "succeeded") \in Decision
    BY <1>2, StoredIsCompatible, ResultIsCopy DEF ApproveWithoutBranch, Verdict
  <2>2. WithResult(d, "succeeded").req = d.req /\ WithResult(d, "succeeded").action = d.action
    BY <2>1 DEF WithResult, Decision
  <2>3. decs[d.req] = None => d.result = "none"
    BY <2>1, StoredIsNew DEF Verdict
  <2>4. /\ SetDecision(WithResult(d, "succeeded")) /\ reqs' = reqs
        /\ history' = Logged(history, r, "APPROVED", "manual")
        /\ writes' = StoreWrites(d) \o ResultWrites(history', WithResult(d, "succeeded"))
    BY <1>2 DEF ApproveWithoutBranch
  <2>5. history \subseteq history' /\ ("APPROVED" \in Tracked => Logs(history', r))
    BY <2>4, LogIsKept
  <2> HIDE DEF d
  <2>6. QED
    BY <2>1, <2>2, <2>3, <2>4, <2>5, ExecutorQueues
<1>3. ASSUME NEW r \in Req, NEW b \in Branch, NEW a \in ExecutorAction, NEW s \in Slot,
             ApproveMerges(r, b, a, s)
      PROVE  QueueFits
  <2> DEFINE d == StoredDecision(r, "approve", a)
  <2>1. d \in Decision /\ d.req = r
    BY <1>3, StoredIsCompatible DEF ApproveMerges, Verdict
  <2>2. decs[d.req] = None => d.result = "none"
    BY <2>1, StoredIsNew DEF Verdict
  <2>3. decs[d.req] # None => d = decs[d.req]
    BY <2>1 DEF StoredDecision
  <2>4. SetDecision(d) /\ reqs' = reqs /\ history' = history /\ writes' = StoreWrites(d)
    BY <1>3 DEF ApproveMerges
  <2> HIDE DEF d
  <2>5. SuccessesAreLogged
    BY <2>1, <2>2, <2>3, <2>4, PutIsLogged DEF Succeeds
  <2>6. CASE decs[d.req] # None
    BY <2>4, <2>5, <2>6, QueueShapes DEF StoreWrites
  <2>7. CASE decs[d.req] = None
    BY <2>1, <2>2, <2>4, <2>5, <2>7, NewDecisionIsFirst, QueueShapes DEF StoreWrites
  <2>8. QED
    BY <2>6, <2>7
<1>4. QED
  BY <1>1, <1>2, <1>3 DEF Approvals

LEMMA RejectQueues ==
  ASSUME TypeOK, LedgerInv, NEW r \in Req, Reject(r)
  PROVE  QueueFits
<1> DEFINE d == StoredDecision(r, "reject", "none")
<1>1. d \in Decision /\ d.req = r
  BY StoredIsCompatible DEF Reject, Verdict, ExecutorAction
<1>2. decs[d.req] = None => d.result = "none"
  BY <1>1, StoredIsNew DEF Verdict, ExecutorAction
<1>3. decs[d.req] # None => d = decs[d.req]
  BY <1>1 DEF StoredDecision
<1>4. /\ SetDecision(d) /\ reqs' = reqs /\ history \subseteq history'
      /\ writes' = Append(StoreWrites(d), HistoryWrite(history'))
  BY LogIsKept DEF Reject
<1> HIDE DEF d
<1>5. SuccessesAreLogged
  BY <1>1, <1>2, <1>3, <1>4, PutIsLogged DEF Succeeds
<1>6. CASE decs[d.req] # None
  <2>1. writes' = <<HistoryWrite(history')>>
    BY <1>4, <1>6, Joined DEF StoreWrites
  <2>2. QED
    BY <1>4, <1>5, <2>1, QueueShapes
<1>7. CASE decs[d.req] = None
  <2>1. writes' = <<AgentsWrite(reqs', [decs EXCEPT ![d.req] = d]), HistoryWrite(history')>>
    BY <1>4, <1>7, Joined DEF StoreWrites
  <2>2. FirstStore([decs EXCEPT ![d.req] = d])
    BY <1>1, <1>2, <1>4, <1>7, NewDecisionIsFirst
  <2>3. QED
    BY <1>4, <1>5, <2>1, <2>2, QueueShapes
<1>8. QED
  BY <1>6, <1>7

LEMMA CallbacksQueue ==
  ASSUME TypeOK, LedgerInv, Callbacks
  PROVE  QueueFits
<1>1. ASSUME NEW s \in Slot, FinishAuto(s) \/ FinishUndo(s) PROVE QueueFits
  <2>1. reqs' = reqs /\ decs' = decs /\ writes' = <<HistoryWrite(history')>>
    BY <1>1 DEF FinishAuto, FinishUndo
  <2>2. history \subseteq history'
    BY <1>1, LogIsKept DEF FinishAuto, FinishUndo
  <2>3. QED
    BY <2>1, <2>2, SameStoreIsFirst, QueueShapes
<1>2. ASSUME NEW s \in Slot, FinishManual(s) PROVE QueueFits
  <2> DEFINE x == IF runs[s].git = "ok" THEN "succeeded" ELSE "failed"
  <2> DEFINE d == WithResult(runs[s].snap, x)
  <2>1. d \in Decision /\ d.req = runs[s].req
    BY <1>2, SnapIsCopy
  <2>2. runs[s].snap \in Decision
    BY <1>2, ChildHas DEF FinishManual
  <2>3. d.result = x
    BY <2>2 DEF WithResult, Decision
  <2>4. /\ SetDecision(d) /\ reqs' = reqs
        /\ history' = Logged(history, runs[s].req,
                             IF runs[s].git = "ok" THEN "APPROVED" ELSE "APPROVE_FAILED", "manual")
        /\ writes' = ResultWrites(history', d)
    BY <1>2 DEF FinishManual
  <2>5. history \subseteq history'
    BY <2>4, LogIsKept
  <2>6. "APPROVED" \in Tracked /\ d.result = "succeeded" => Logs(history', d.req)
    BY <2>1, <2>3, <2>4, LogIsKept
  <2> HIDE DEF d
  <2>7. SuccessesAreLogged
    BY <2>1, <2>4, <2>6, PutIsLogged
  <2>8. writes' = <<HistoryWrite(history'), AgentsWrite(reqs', decs')>>
    BY <2>4 DEF ResultWrites, SetDecision
  <2>9. QED
    BY <2>5, <2>7, <2>8, QueueShapes
<1>3. QED
  BY <1>1, <1>2 DEF Callbacks

LEMMA AcksQueue ==
  ASSUME TypeOK, LedgerInv, MapsAgree, NEW i \in 1..MaxDecisions, Ack(i)
  PROVE  QueueFits
<1>1. byId[i] # None /\ byId = IndexById(decs) /\ byId[i] \in Decision
  BY DEF Ack, Idle, MapsAgree, TypeOK
<1>2. decs[byId[i].req] = byId[i]
  BY <1>1, IndexIsKeyed DEF TypeOK, LedgerInv, MapsAreKeyed
<1>3. /\ Acknowledged(byId[i]) \in Decision /\ Acknowledged(byId[i]).req = byId[i].req
      /\ Acknowledged(byId[i]).result = byId[i].result
  BY <1>1 DEF Acknowledged, Decision
<1>4. SetDecision(Acknowledged(byId[i])) /\ reqs' = reqs /\ history' = history /\ writes' = <<>>
  BY DEF Ack, Idle
<1>5. SuccessesAreLogged
  BY <1>1, <1>2, <1>3, <1>4, PutIsLogged DEF Succeeds
<1>6. QED
  BY <1>4, <1>5, QueueShapes

LEMMA HandlersQueue ==
  ASSUME TypeOK, LedgerInv, MapsAgree, Handler
  PROVE  QueueFits
<1>1. CASE AgentSaves
  <2>1. /\ writes' = <<AgentsWrite(reqs', decs)>> /\ reqs' = reqs /\ decs' = decs
        /\ history' = history
    BY <1>1 DEF AgentSaves, memory
  <2>2. QED
    BY <2>1, SameStoreIsFirst, QueueShapes
<1>2. CASE Pulls \/ (\E s \in Slot : Undo(s)) \/ (\E p \in Project : SelectProject(p))
  <2>1. writes' = <<>> /\ reqs' = reqs /\ decs' = decs /\ history' = history
    BY <1>2 DEF Pulls, Poll, Undo, SelectProject, Idle, memory
  <2>2. QED
    BY <2>1, SameStoreIsFirst, QueueShapes
<1>3. QED
  BY <1>1, <1>2, RequestsQueue, ApprovalsQueue, RejectQueues, CallbacksQueue, AcksQueue
     DEF Handler, Operators, Acks

-----------------------------------------------------------------------------
(* Git children: what a step does to the live ones *)

LiveChild(run) == run # None /\ run.live

\* Live children stay live, of the same kind, for the same request, and no other comes.
SameChildren ==
  \A t \in Slot :
    /\ LiveChild(runs'[t]) <=> LiveChild(runs[t])
    /\ LiveChild(runs[t]) =>
         /\ runs'[t].kind = runs[t].kind /\ runs'[t].req = runs[t].req
         /\ runs'[t].snap = runs[t].snap

LEMMA GitChanges ==
  ASSUME NEW run \in Run, NEW g \in GitState
  PROVE  LET e == [run EXCEPT !.git = g] IN
         /\ e \in Run /\ e # None /\ e.git = g
         /\ e.live = run.live /\ e.kind = run.kind /\ e.req = run.req /\ e.snap = run.snap
BY NoRunAssumption DEF Run, ManualRun, AutoRun, UndoRun

LEMMA GitKeepsChildren ==
  ASSUME TypeOK, Git
  PROVE  SameChildren
<1>1. PICK s \in Slot : GitMergeSucceeds(s) \/ GitResetSucceeds(s) \/ GitFails(s)
  BY DEF Git
<1>2. PICK result \in GitState :
        runs' = [runs EXCEPT ![s] = Ended(runs[s], result)] /\ runs[s] # None
  BY <1>1 DEF GitMergeSucceeds, GitResetSucceeds, GitFails, GitState
<1>3. runs[s] \in Run /\ runs'[s] = Ended(runs[s], result)
  BY <1>2 DEF TypeOK
<1>4. /\ LiveChild(runs'[s]) <=> LiveChild(runs[s])
      /\ LiveChild(runs[s]) => /\ runs'[s].kind = runs[s].kind /\ runs'[s].req = runs[s].req
                               /\ runs'[s].snap = runs[s].snap
  BY <1>2, <1>3, GitChanges DEF LiveChild, Ended
<1>5. \A t \in Slot : t # s => runs'[t] = runs[t]
  BY <1>2 DEF TypeOK
<1>6. QED
  BY <1>4, <1>5 DEF SameChildren

LEMMA FlushKeepsChildren ==
  ASSUME TypeOK, Flush
  PROVE  SameChildren
<1> SUFFICES ASSUME NEW t \in Slot
             PROVE  /\ LiveChild(runs'[t]) <=> LiveChild(runs[t])
                    /\ LiveChild(runs[t]) =>
                         /\ runs'[t].kind = runs[t].kind /\ runs'[t].req = runs[t].req
                         /\ runs'[t].snap = runs[t].snap
  BY DEF SameChildren
<1>1. runs'[t] = Spawned(runs[t]) \/ runs'[t] = runs[t]
  BY DEF Flush
<1>2. runs[t] \in Run \cup {None} /\ "running" \in GitState
  BY DEF TypeOK, GitState
<1>3. CASE runs'[t] = runs[t]
  BY <1>3
<1>4. CASE runs'[t] # runs[t]
  <2>1. runs[t] \in Run /\ runs'[t] = [runs[t] EXCEPT !.git = "running"]
    BY <1>1, <1>2, <1>4 DEF Spawned
  <2>2. QED
    BY <1>2, <2>1, GitChanges, NoRunAssumption DEF LiveChild
<1>5. QED
  BY <1>3, <1>4

LEMMA ChildStarts ==
  ASSUME TypeOK, NEW s \in Slot, Free(s), NEW kind, NEW r, NEW b, NEW d, NEW before,
         runs' = [runs EXCEPT ![s] = GitChild(kind, r, b, d, before)]
  PROVE  /\ runs[s] = None /\ runs'[s].live
         /\ runs'[s].kind = kind /\ runs'[s].req = r /\ runs'[s].snap = d
         /\ runs'[s].git = IF before = <<>> THEN "running" ELSE "queued"
         /\ \A t \in Slot : t # s => runs'[t] = runs[t]
BY DEF TypeOK, Free, GitChild

LEMMA ChildGone ==
  ASSUME TypeOK, NEW s \in Slot, runs' = [runs EXCEPT ![s] = None]
  PROVE  runs'[s] = None /\ \A t \in Slot : t # s => runs'[t] = runs[t]
BY DEF TypeOK

\* Nobody starts to approve a request, and nobody ends its merge.
LEMMA SameChildrenHold ==
  ASSUME ApprovingHasMerge, AutoIsSingle, SameChildren, inFlight' = inFlight,
         \A r \in Req : status'[r] = "approving" => status[r] = "approving"
  PROVE  ApprovingHasMerge' /\ AutoIsSingle'
<1>1. ASSUME NEW s \in Slot, NEW K
      PROVE  /\ Live(s, K)' <=> Live(s, K)
             /\ Live(s, K) => runs'[s].req = runs[s].req
  BY DEF SameChildren, LiveChild, Live
<1>2. ApprovingHasMerge'
  BY <1>1 DEF ApprovingHasMerge
<1>3. inFlight' = {runs'[s].req : s \in {t \in Slot : Live(t, {"auto"})'}}
  BY <1>1 DEF AutoIsSingle
<1>4. QED
  BY <1>1, <1>2, <1>3 DEF AutoIsSingle

LiveMerge(run) == run # None /\ run.live /\ run.kind \in {"manual", "auto"}

\* A child for nobody's merge comes or goes.
LEMMA OtherChildHolds ==
  ASSUME ApprovingHasMerge, AutoIsSingle, inFlight' = inFlight, status' = status,
         NEW u \in Slot, ~LiveMerge(runs[u]), ~LiveMerge(runs'[u]),
         \A s \in Slot : s # u => runs'[s] = runs[s]
  PROVE  ApprovingHasMerge' /\ AutoIsSingle'
<1>1. ASSUME NEW s \in Slot, NEW K \in {{"auto"}, {"manual", "auto"}}
      PROVE  /\ Live(s, K)' <=> Live(s, K)
             /\ Live(s, K) => runs'[s].req = runs[s].req
  <2>1. CASE s # u
    BY <2>1 DEF Live
  <2>2. CASE s = u
    BY <2>2 DEF Live, LiveMerge
  <2>3. QED
    BY <2>1, <2>2
<1>2. ApprovingHasMerge'
  BY <1>1 DEF ApprovingHasMerge
<1>3. inFlight' = {runs'[s].req : s \in {t \in Slot : Live(t, {"auto"})'}}
  BY <1>1 DEF AutoIsSingle
<1>4. QED
  BY <1>1, <1>2, <1>3 DEF AutoIsSingle

LEMMA AutoApprovalHolds ==
  ASSUME TypeOK, ApprovingHasMerge, AutoIsSingle, NEW r \in Req, NEW b \in Branch,
         NEW policy \in BOOLEAN, NEW s \in Slot, SubmitAutoApproved(r, b, policy, s)
  PROVE  ApprovingHasMerge' /\ AutoIsSingle'
<1>1. /\ inFlight' = inFlight \cup {r} /\ r \notin inFlight
      /\ \A q \in Req : status'[q] = "approving" => q = r \/ status[q] = "approving"
  BY DEF SubmitAutoApproved, AutoStarts, SubmittedStatus, TypeOK
<1>2. /\ runs[s] = None /\ runs'[s] # None /\ runs'[s].live
      /\ runs'[s].kind = "auto" /\ runs'[s].req = r
      /\ \A t \in Slot : t # s => runs'[t] = runs[t]
  <2>1. PICK w : Free(s) /\ runs' = [runs EXCEPT ![s] = GitChild("auto", r, b, None, w)]
    BY DEF SubmitAutoApproved
  <2>2. /\ runs[s] = None /\ runs'[s].live /\ runs'[s].kind = "auto" /\ runs'[s].req = r
        /\ \A t \in Slot : t # s => runs'[t] = runs[t]
    BY <2>1 DEF TypeOK, Free, GitChild
  <2>3. runs'[s] # None
    <3>1. GitChild("auto", r, b, None, w) \in Run
      BY ChildFits DEF TypeOK
    <3>2. QED
      BY <2>1, <3>1, NoRunAssumption DEF TypeOK
  <2>4. QED
    BY <2>2, <2>3
<1>3. ASSUME NEW t \in Slot, NEW K
      PROVE  /\ t # s => /\ Live(t, K)' <=> Live(t, K)
                         /\ runs'[t].req = runs[t].req
             /\ ~Live(s, K)
             /\ "auto" \in K => Live(s, K)'
  BY <1>2 DEF Live
<1>4. ApprovingHasMerge'
  BY <1>1, <1>2, <1>3 DEF ApprovingHasMerge
<1>5. \A t \in Slot : Live(t, {"auto"}) => runs[t].req \in inFlight
  BY DEF AutoIsSingle
<1>6. inFlight' = {runs'[t].req : t \in {u \in Slot : Live(u, {"auto"})'}}
  <2>1. \A q \in inFlight : \E t \in Slot : Live(t, {"auto"}) /\ runs[t].req = q
    BY DEF AutoIsSingle
  <2>2. \A q \in inFlight' : \E t \in Slot : Live(t, {"auto"})' /\ runs'[t].req = q
    BY <1>1, <1>2, <1>3, <2>1
  <2>3. \A t \in Slot : Live(t, {"auto"})' => runs'[t].req \in inFlight'
    BY <1>1, <1>2, <1>3, <1>5
  <2>4. QED
    BY <2>2, <2>3
<1>7. \A t, u \in Slot :
        Live(t, {"auto"})' /\ Live(u, {"auto"})' /\ runs'[t].req = runs'[u].req => t = u
  BY <1>1, <1>2, <1>3, <1>5 DEF AutoIsSingle
<1>8. QED
  BY <1>4, <1>6, <1>7 DEF AutoIsSingle

LEMMA ManualApprovalHolds ==
  ASSUME TypeOK, ApprovingHasMerge, AutoIsSingle, NEW r \in Req, NEW b \in Branch,
         NEW a \in ExecutorAction, NEW s \in Slot, ApproveMerges(r, b, a, s)
  PROVE  ApprovingHasMerge' /\ AutoIsSingle'
<1>1. /\ inFlight' = inFlight
      /\ \A q \in Req : status'[q] = "approving" => q = r \/ status[q] = "approving"
  BY DEF ApproveMerges, TypeOK
<1>2. /\ runs[s] = None /\ runs'[s] # None /\ runs'[s].live
      /\ runs'[s].kind = "manual" /\ runs'[s].req = r
      /\ \A t \in Slot : t # s => runs'[t] = runs[t]
  <2> DEFINE d == StoredDecision(r, "approve", a)
  <2>1. PICK w : Free(s) /\ runs' = [runs EXCEPT ![s] = GitChild("manual", r, b, d, w)]
    BY DEF ApproveMerges
  <2>2. /\ runs[s] = None /\ runs'[s].live /\ runs'[s].kind = "manual" /\ runs'[s].req = r
        /\ \A t \in Slot : t # s => runs'[t] = runs[t]
    BY <2>1 DEF TypeOK, Free, GitChild
  <2>3. runs'[s] # None
    <3>1. d \in Decision
      BY DecisionFits DEF ApproveMerges, Verdict
    <3>2. GitChild("manual", r, b, d, w) \in Run
      BY <3>1, ChildFits DEF TypeOK
    <3>3. QED
      BY <2>1, <3>2, NoRunAssumption DEF TypeOK
  <2>4. QED
    BY <2>2, <2>3
<1>3. ASSUME NEW t \in Slot, NEW K
      PROVE  /\ t # s => /\ Live(t, K)' <=> Live(t, K)
                         /\ runs'[t].req = runs[t].req
             /\ ~Live(s, K)
             /\ "manual" \in K => Live(s, K)'
  BY <1>2 DEF Live
<1>4. ApprovingHasMerge'
  BY <1>1, <1>2, <1>3 DEF ApprovingHasMerge
<1>5. ~Live(s, {"auto"})'
  BY <1>2 DEF Live
<1>6. inFlight' = {runs'[t].req : t \in {u \in Slot : Live(u, {"auto"})'}}
  BY <1>1, <1>3, <1>5 DEF AutoIsSingle
<1>7. QED
  BY <1>3, <1>4, <1>5, <1>6 DEF AutoIsSingle

LEMMA ManualEndHolds ==
  ASSUME TypeOK, ApprovingHasMerge, AutoIsSingle, NEW s \in Slot, FinishManual(s)
  PROVE  ApprovingHasMerge' /\ AutoIsSingle'
<1>1. /\ runs'[s] = None /\ \A t \in Slot : t # s => runs'[t] = runs[t]
      /\ inFlight' = inFlight /\ ~Live(s, {"auto"})
  BY ChildGone DEF FinishManual, Live
<1>2. runs[s].req \in Req
  BY ChildHas DEF FinishManual
<1>3. \A q \in Req : status'[q] = "approving" => status[q] = "approving" /\ q # runs[s].req
  BY <1>2 DEF FinishManual, FinishedStatus, TypeOK
<1>4. ASSUME NEW t \in Slot, NEW K
      PROVE  t # s => /\ Live(t, K)' <=> Live(t, K)
                      /\ runs'[t].req = runs[t].req
  BY <1>1 DEF Live
<1>5. ApprovingHasMerge'
  BY <1>3, <1>4 DEF ApprovingHasMerge
<1>6. ~Live(s, {"auto"})'
  BY <1>1 DEF Live
<1>7. inFlight' = {runs'[t].req : t \in {u \in Slot : Live(u, {"auto"})'}}
  BY <1>1, <1>4, <1>6 DEF AutoIsSingle
<1>8. QED
  BY <1>4, <1>5, <1>6, <1>7 DEF AutoIsSingle

LEMMA AutoEndHolds ==
  ASSUME TypeOK, ApprovingHasMerge, AutoIsSingle, NEW s \in Slot, FinishAuto(s)
  PROVE  ApprovingHasMerge' /\ AutoIsSingle'
<1>1. /\ runs'[s] = None /\ \A t \in Slot : t # s => runs'[t] = runs[t]
      /\ inFlight' = inFlight \ {runs[s].req} /\ Live(s, {"auto"})
  BY ChildGone DEF FinishAuto, Live
<1>2. runs[s].req \in Req
  BY ChildHas DEF FinishAuto
<1>3. \A q \in Req : status'[q] = "approving" => status[q] = "approving" /\ q # runs[s].req
  BY <1>2 DEF FinishAuto, FinishedStatus, TypeOK
<1>4. ASSUME NEW t \in Slot, NEW K
      PROVE  t # s => /\ Live(t, K)' <=> Live(t, K)
                      /\ runs'[t].req = runs[t].req
  BY <1>1 DEF Live
<1>5. ApprovingHasMerge'
  BY <1>3, <1>4 DEF ApprovingHasMerge
<1>6. ~Live(s, {"auto"})'
  BY <1>1 DEF Live
<1>7. \A t \in Slot : t # s /\ Live(t, {"auto"}) => runs[t].req # runs[s].req
  BY <1>1 DEF AutoIsSingle
<1>8. inFlight' = {runs'[t].req : t \in {u \in Slot : Live(u, {"auto"})'}}
  <2>1. \A q \in inFlight : \E t \in Slot : Live(t, {"auto"}) /\ runs[t].req = q
    BY DEF AutoIsSingle
  <2>2. \A q \in inFlight' : \E t \in Slot : Live(t, {"auto"})' /\ runs'[t].req = q
    BY <1>1, <1>4, <2>1
  <2>3. \A t \in Slot : Live(t, {"auto"}) => runs[t].req \in inFlight
    BY DEF AutoIsSingle
  <2>4. \A t \in Slot : Live(t, {"auto"})' => runs'[t].req \in inFlight'
    BY <1>1, <1>4, <1>6, <1>7, <2>3
  <2>5. QED
    BY <2>2, <2>4
<1>9. QED
  BY <1>4, <1>5, <1>6, <1>8 DEF AutoIsSingle

LEMMA HandlersHoldChildren ==
  ASSUME TypeOK, ApprovingHasMerge, AutoIsSingle, Handler
  PROVE  ApprovingHasMerge' /\ AutoIsSingle'
<1>1. CASE Requests
  <2>1. PICK r \in Req, policy \in BOOLEAN :
          \/ Submit(r, policy) \/ SubmitDryRun(r, policy)
          \/ \E b \in Branch, s \in Slot : SubmitAutoApproved(r, b, policy, s)
    BY <1>1 DEF Requests
  <2>2. CASE Submit(r, policy) \/ SubmitDryRun(r, policy)
    <3>1. /\ runs' = runs /\ inFlight' = inFlight
          /\ \A q \in Req : status'[q] = "approving" => status[q] = "approving"
      BY <2>2 DEF Submit, SubmitDryRun, SubmittedStatus, TypeOK
    <3>2. QED
      BY <3>1, SameChildrenHold DEF SameChildren
  <2>3. QED
    BY <2>1, <2>2, AutoApprovalHolds
<1>2. CASE Approvals \/ \E r \in Req : Reject(r)
  <2>1. ASSUME NEW r \in Req, NEW a \in ExecutorAction,
               ApproveSkipped(r, a) \/ ApproveWithoutBranch(r, a) \/ Reject(r)
        PROVE  ApprovingHasMerge' /\ AutoIsSingle'
    <3>1. /\ runs' = runs /\ inFlight' = inFlight
          /\ \A q \in Req : status'[q] = "approving" => status[q] = "approving"
      BY <2>1 DEF ApproveSkipped, ApproveWithoutBranch, Reject, FinishedStatus, TypeOK
    <3>2. QED
      BY <3>1, SameChildrenHold DEF SameChildren
  <2>2. "none" \in ExecutorAction
    BY DEF ExecutorAction
  <2>3. QED
    BY <1>2, <2>1, <2>2, ManualApprovalHolds DEF Approvals
<1>3. CASE \E s \in Slot : Undo(s) \/ FinishUndo(s)
  <2>1. PICK s \in Slot : Undo(s) \/ FinishUndo(s)
    BY <1>3
  <2>2. inFlight' = inFlight /\ status' = status
    BY <2>1 DEF Undo, FinishUndo, memory
  <2>3. CASE Undo(s)
    <3>1. /\ runs[s] = None /\ runs'[s].kind = "undo"
          /\ \A t \in Slot : t # s => runs'[t] = runs[t]
      BY <2>3, ChildStarts DEF Undo
    <3>2. ~LiveMerge(runs[s]) /\ ~LiveMerge(runs'[s])
      BY <3>1 DEF LiveMerge
    <3>3. QED
      BY <2>2, <3>1, <3>2, OtherChildHolds
  <2>4. CASE FinishUndo(s)
    <3>1. /\ runs[s].kind = "undo" /\ runs'[s] = None
          /\ \A t \in Slot : t # s => runs'[t] = runs[t]
      BY <2>4, ChildGone DEF FinishUndo
    <3>2. ~LiveMerge(runs[s]) /\ ~LiveMerge(runs'[s])
      BY <3>1 DEF LiveMerge
    <3>3. QED
      BY <2>2, <3>1, <3>2, OtherChildHolds
  <2>5. QED
    BY <2>1, <2>3, <2>4
<1>4. CASE AgentSaves \/ Pulls \/ Acks \/ \E p \in Project : SelectProject(p)
  <2>1. runs' = runs /\ inFlight' = inFlight /\ status' = status
    BY <1>4 DEF AgentSaves, Pulls, Poll, Acks, Ack, SelectProject, memory
  <2>2. QED
    BY <2>1, SameChildrenHold DEF SameChildren
<1>5. QED
  BY <1>1, <1>2, <1>3, <1>4, ManualEndHolds, AutoEndHolds
     DEF Handler, Operators, Callbacks

-----------------------------------------------------------------------------
(* The copies agree *)

\* A decision is found under its id.
LEMMA IndexFinds ==
  ASSUME NEW ds \in DecisionMap, IdsAreUnique(ds), NEW r \in Req, ds[r] # None
  PROVE  ds[r].id \in 1..MaxDecisions /\ IndexById(ds)[ds[r].id] = ds[r]
<1>1. ds[r].id \in 1..MaxDecisions
  BY DEF DecisionMap, Decision
<1>2. \E q \in Req : ds[q] # None /\ ds[q].id = ds[r].id
  OBVIOUS
<1>3. PICK q \in Req :
        q = (CHOOSE x \in Req : ds[x] # None /\ ds[x].id = ds[r].id)
        /\ ds[q] # None /\ ds[q].id = ds[r].id
  BY <1>2
<1>4. q = r
  BY <1>3 DEF IdsAreUnique
<1>5. IndexById(ds)[ds[r].id] = ds[q]
  BY <1>1, <1>2, <1>3 DEF IndexById
<1>6. QED
  BY <1>1, <1>4, <1>5

\* Putting a decision in the map and under its id in the index keeps the two in step.
LEMMA IndexOfPut ==
  ASSUME NEW ds \in DecisionMap, NEW es \in DecisionMap, NEW d \in Decision,
         es = [ds EXCEPT ![d.req] = d], IdsAreUnique(ds),
         \A q, r \in Req : es[q] # None /\ es[r] # None /\ es[q].id = es[r].id => q = r,
         ds[d.req] # None => ds[d.req].id = d.id
  PROVE  IndexById(es) = [IndexById(ds) EXCEPT ![d.id] = d]
<1>1. d.req \in Req /\ d.id \in 1..MaxDecisions /\ d # None
  BY NoDecisionAssumption DEF Decision
<1>2. es[d.req] = d /\ \A r \in Req : r # d.req => es[r] = ds[r]
  BY <1>1 DEF DecisionMap
<1>3. ASSUME NEW i \in 1..MaxDecisions
      PROVE  IndexById(es)[i] = IF i = d.id THEN d ELSE IndexById(ds)[i]
  <2>1. CASE i = d.id
    <3>1. \E q \in Req : es[q] # None /\ es[q].id = i
      BY <1>1, <1>2, <2>1
    <3>2. PICK q \in Req :
            q = (CHOOSE x \in Req : es[x] # None /\ es[x].id = i) /\ es[q] # None /\ es[q].id = i
      BY <3>1
    <3>3. q = d.req
      BY <1>1, <1>2, <2>1, <3>2
    <3>4. QED
      BY <1>2, <2>1, <3>1, <3>2, <3>3 DEF IndexById
  <2>2. CASE i # d.id /\ \E r \in Req : ds[r] # None /\ ds[r].id = i
    <3>1. PICK r \in Req : ds[r] # None /\ ds[r].id = i
      BY <2>2
    <3>2. r # d.req /\ es[r] = ds[r]
      BY <1>2, <2>2, <3>1
    <3>3. PICK q \in Req :
            q = (CHOOSE x \in Req : es[x] # None /\ es[x].id = i) /\ es[q] # None /\ es[q].id = i
      BY <3>1, <3>2
    <3>4. IndexById(es)[i] = es[q] /\ q = r
      BY <3>1, <3>2, <3>3 DEF IndexById
    <3>5. IndexById(ds)[i] = ds[r]
      BY <3>1, IndexFinds
    <3>6. QED
      BY <2>2, <3>2, <3>4, <3>5
  <2>3. CASE i # d.id /\ ~\E r \in Req : ds[r] # None /\ ds[r].id = i
    <3>1. ~\E r \in Req : es[r] # None /\ es[r].id = i
      BY <1>2, <2>3
    <3>2. QED
      BY <2>3, <3>1 DEF IndexById
  <2>4. QED
    BY <2>1, <2>2, <2>3
<1>4. /\ IndexById(es) = [i \in 1..MaxDecisions |-> IndexById(es)[i]]
      /\ DOMAIN IndexById(ds) = 1..MaxDecisions
  BY DEF IndexById
<1>5. QED
  BY <1>3, <1>4

LEMMA CopiesInit == Init => CopiesInv
<1> SUFFICES ASSUME Init PROVE CopiesInv
  OBVIOUS
<1>1. \A r \in Req : decs[r] = None /\ disk.decs[r] = None /\ status[r] = "ready"
  BY DEF Init, NoDecisions, EmptyStore
<1>2. IdsAreUnique(decs) /\ IdsAreUnique(disk.decs) /\ ApprovingHasMerge
  BY <1>1 DEF IdsAreUnique, ApprovingHasMerge
<1>3. MapsAgree
  BY <1>1 DEF Init, MapsAgree, IndexById
<1>4. RequestsAreWritten
  BY DEF Init, RequestsAreWritten, AgentWrites, EmptyStore
<1>5. AutoIsSingle
  BY DEF Init, AutoIsSingle, Live
<1>6. QED
  BY <1>2, <1>3, <1>4, <1>5 DEF CopiesInv

\* The store has no ids memory does not have.
LEMMA KnownIdsAreUnique ==
  ASSUME NEW ds, NEW es, IdsAreUnique(es), Knows(es, ds)
  PROVE  IdsAreUnique(ds)
<1>1. ASSUME NEW r \in Req, ds[r] # None PROVE es[r] # None /\ es[r].id = ds[r].id
  BY <1>1 DEF Knows, Given
<1>2. QED
  BY <1>1 DEF IdsAreUnique

LEMMA PutIdsAreUnique ==
  ASSUME TypeOK, IdsAreUnique(decs), NEW d \in Decision, PutsDecision(d)
  PROVE  /\ IdsAreUnique(decs)'
         /\ decs[d.req] # None => decs[d.req].id = d.id
         /\ nextId' = nextId \/ nextId' = nextId + 1
<1>1. d.req \in Req /\ d # None /\ decs \in [Req -> Decision \cup {None}]
      /\ nextId \in Nat /\ d.id \in Nat /\ \A r \in Req : decs[r] # None => decs[r].id \in Nat
  BY NoDecisionAssumption DEF TypeOK, DecisionMap, Decision
<1>2. decs'[d.req] = d /\ \A r \in Req : r # d.req => decs'[r] = decs[r]
  BY <1>1 DEF PutsDecision, SetDecision
<1>3. CASE decs[d.req] # None
  <2>1. decs[d.req].id = d.id /\ nextId' = nextId
    BY <1>3 DEF PutsDecision, Given
  <2>2. QED
    BY <1>1, <1>2, <1>3, <2>1 DEF IdsAreUnique
<1>4. CASE decs[d.req] = None
  <2>1. d.id = nextId /\ nextId' = nextId + 1
    BY <1>4 DEF PutsDecision
  <2>2. QED
    BY <1>1, <1>2, <1>4, <2>1 DEF IdsAreUnique
<1>5. QED
  BY <1>3, <1>4

LEMMA HandlersHoldCopies ==
  ASSUME TypeOK, TypeOK', LedgerInv, CopiesInv, Handler
  PROVE  CopiesInv'
<1>1. Idle /\ up' /\ UNCHANGED stores /\ QueueFits
  BY HandlersPut, HandlersQueue DEF CopiesInv
<1>2. IdsAreUnique(decs)' /\ MapsAgree' /\ (nextId' = nextId \/ nextId' = nextId + 1)
  <2>1. CASE UNCHANGED <<decs, byId, nextId>>
    BY <1>1, <2>1 DEF CopiesInv, IdsAreUnique, MapsAgree, Idle
  <2>2. CASE \E d \in Decision : PutsDecision(d)
    <3>1. PICK d \in Decision : PutsDecision(d)
      BY <2>2
    <3>2. /\ IdsAreUnique(decs)'
          /\ decs[d.req] # None => decs[d.req].id = d.id
          /\ nextId' = nextId \/ nextId' = nextId + 1
      BY <3>1, PutIdsAreUnique DEF CopiesInv
    <3>3. decs \in DecisionMap /\ decs' \in DecisionMap
      BY DEF TypeOK
    <3>4. decs' = [decs EXCEPT ![d.req] = d] /\ byId' = [byId EXCEPT ![d.id] = d]
      BY <3>1 DEF PutsDecision, SetDecision
    <3>5. \A q, r \in Req : decs'[q] # None /\ decs'[r] # None /\ decs'[q].id = decs'[r].id => q = r
      BY <3>2 DEF IdsAreUnique
    <3>6. IndexById(decs') = [IndexById(decs) EXCEPT ![d.id] = d]
      BY <3>2, <3>3, <3>4, <3>5, IndexOfPut DEF CopiesInv
    <3>7. byId = IndexById(decs)
      BY <1>1 DEF CopiesInv, MapsAgree, Idle
    <3>8. QED
      BY <3>2, <3>4, <3>6, <3>7 DEF MapsAgree
  <2>3. QED
    BY <2>1, <2>2, HandlersPut
<1>3. IdsAreUnique(disk.decs)'
  <2>1. \A r \in Req : disk.decs[r] # None => disk.decs[r].id \in Nat
    BY DEF TypeOK, AgentStore, DecisionMap, Decision
  <2>2. nextId \in Nat /\ disk' = disk
    BY <1>1 DEF TypeOK, stores
  <2>3. QED
    BY <1>2, <2>1, <2>2 DEF CopiesInv, IdsAreUnique
<1>4. RequestsAreWritten'
  <2>1. disk.reqs = reqs /\ disk' = disk
    BY <1>1 DEF CopiesInv, RequestsAreWritten, Idle, AgentWrites, stores
  <2>2. QED
    BY <1>1, <2>1 DEF RequestsAreWritten, QueueFits
<1>5. ApprovingHasMerge' /\ AutoIsSingle'
  BY HandlersHoldChildren DEF CopiesInv
<1>6. QED
  BY <1>2, <1>3, <1>4, <1>5 DEF CopiesInv

\* Steps that change neither memory nor files.
Quiet == Git \/ CooldownElapses \/ UNCHANGED vars

LEMMA QuietChangesNothing ==
  ASSUME TypeOK, Quiet
  PROVE  /\ UNCHANGED <<up, reqs, status, decs, byId, inFlight, history, nextId, writes, disk,
                        diskHistory>>
         /\ SameChildren
<1>1. CASE Git
  BY <1>1, GitKeepsChildren
     DEF Git, GitMergeSucceeds, GitResetSucceeds, GitFails, memory, stores
<1>2. CASE CooldownElapses \/ UNCHANGED vars
  <2>1. UNCHANGED <<up, reqs, status, decs, byId, inFlight, history, nextId, writes, disk,
                    diskHistory, runs>>
    BY <1>2 DEF CooldownElapses, vars, memory, stores
  <2>2. QED
    BY <2>1 DEF SameChildren
<1>3. QED
  BY <1>1, <1>2 DEF Quiet

LEMMA QuietHoldsCopies ==
  ASSUME TypeOK, CopiesInv, Quiet
  PROVE  CopiesInv'
<1>1. /\ UNCHANGED <<up, reqs, status, decs, byId, inFlight, history, nextId, writes, disk>>
      /\ SameChildren
  BY QuietChangesNothing
<1>2. ApprovingHasMerge' /\ AutoIsSingle'
  BY <1>1, SameChildrenHold DEF CopiesInv
<1>3. IdsAreUnique(decs)' /\ IdsAreUnique(disk.decs)'
  BY <1>1 DEF CopiesInv, IdsAreUnique
<1>4. MapsAgree' /\ RequestsAreWritten'
  BY <1>1 DEF CopiesInv, MapsAgree, RequestsAreWritten, AgentWrites
<1>5. QED
  BY <1>2, <1>3, <1>4 DEF CopiesInv

\* The writes after the first move up by one.
LEMMA FlushShifts ==
  ASSUME TypeOK, Flush
  PROVE  /\ up /\ 1 \in DOMAIN writes
         /\ \A k \in DOMAIN writes' : k + 1 \in DOMAIN writes /\ writes'[k] = writes[k + 1]
         /\ \A k \in DOMAIN writes :
              k # 1 => k - 1 \in DOMAIN writes' /\ writes'[k - 1] = writes[k]
         /\ \A k \in DOMAIN writes \cup DOMAIN writes' : k \in Nat /\ k >= 1
         /\ DOMAIN writes = AgentWrites \cup LogWrites
         /\ IF writes[1].file = "agents" THEN disk' = writes[1].store /\ diskHistory' = diskHistory
            ELSE disk' = disk /\ diskHistory' = writes[1].entries
<1>1. writes \in Seq(Write) /\ writes # <<>> /\ writes' = Tail(writes) /\ up
  BY DEF TypeOK, Flush
<1>2. /\ Head(writes) = writes[1] /\ 1 \in DOMAIN writes
      /\ \A k \in DOMAIN writes' : k + 1 \in DOMAIN writes /\ writes'[k] = writes[k + 1]
      /\ \A k \in DOMAIN writes : k # 1 => k - 1 \in DOMAIN writes' /\ writes'[k - 1] = writes[k]
      /\ \A k \in DOMAIN writes \cup DOMAIN writes' : k \in Nat /\ k >= 1
  BY <1>1
<1>3. \A w \in Write : w.file = "agents" \/ w.file = "history"
  BY DEF Write
<1>4. \A k \in DOMAIN writes : writes[k] \in Write
  BY <1>1
<1>5. DOMAIN writes = AgentWrites \cup LogWrites
  BY <1>3, <1>4 DEF AgentWrites, LogWrites
<1>6. IF writes[1].file = "agents" THEN disk' = writes[1].store /\ diskHistory' = diskHistory
      ELSE disk' = disk /\ diskHistory' = writes[1].entries
  BY <1>2, <1>3, <1>4 DEF Flush
<1>7. QED
  BY <1>1, <1>2, <1>5, <1>6

LEMMA FlushHoldsCopies ==
  ASSUME TypeOK, LedgerInv, CopiesInv, Flush
  PROVE  CopiesInv'
<1>1. UNCHANGED <<up, reqs, status, decs, byId, inFlight, nextId>> /\ up
  BY DEF Flush, memory
<1>2. ApprovingHasMerge' /\ AutoIsSingle'
  BY <1>1, FlushKeepsChildren, SameChildrenHold DEF CopiesInv
<1>3. IdsAreUnique(decs)'
  BY <1>1 DEF CopiesInv, IdsAreUnique
<1>4. IdsAreUnique(disk.decs)'
  <2>1. IdsAreUnique(disk'.decs)
    BY FlushAgrees, KnownIdsAreUnique DEF CopiesInv
  <2>2. QED
    BY <1>1, <2>1 DEF IdsAreUnique
<1>5. MapsAgree'
  BY <1>1 DEF CopiesInv, MapsAgree
<1>6. RequestsAreWritten'
  <2>1. \A k \in AgentWrites' : writes'[k].store.reqs = reqs'
    BY <1>1, FlushAgrees DEF CopiesInv, RequestsAreWritten
  <2>2. ASSUME AgentWrites' = {} PROVE disk'.reqs = reqs'
    <3>1. CASE writes[1].file = "agents"
      <4>1. 1 \in AgentWrites /\ disk' = writes[1].store
        BY <3>1, FlushShifts DEF AgentWrites
      <4>2. QED
        BY <1>1, <4>1 DEF CopiesInv, RequestsAreWritten
    <3>2. CASE writes[1].file # "agents"
      <4>1. AgentWrites = {} /\ disk' = disk
        BY <2>2, <3>2, FlushShifts DEF AgentWrites
      <4>2. QED
        BY <1>1, <4>1 DEF CopiesInv, RequestsAreWritten
    <3>3. QED
      BY <3>1, <3>2
  <2>3. QED
    BY <2>1, <2>2 DEF RequestsAreWritten
<1>7. QED
  BY <1>2, <1>3, <1>4, <1>5, <1>6 DEF CopiesInv

LEMMA CrashHoldsCopies ==
  ASSUME TypeOK, CopiesInv, Crash
  PROVE  CopiesInv'
<1>1. /\ ~up' /\ writes' = <<>> /\ UNCHANGED <<disk, nextId>> /\ inFlight' = {}
      /\ \A r \in Req : decs'[r] = None /\ status'[r] = "ready"
      /\ \A s \in Slot : runs'[s] = Orphaned(runs[s])
  BY DEF Crash, Dies, NoDecisions
<1>2. \A s \in Slot : ~Live(s, {"auto"})'
  <2>1. \A s \in Slot : runs[s] \in Run \cup {None}
    BY DEF TypeOK
  <2>2. QED
    BY <1>1, <2>1 DEF Live, Orphaned, Run, ManualRun, AutoRun, UndoRun
<1>3. ApprovingHasMerge' /\ AutoIsSingle'
  BY <1>1, <1>2 DEF ApprovingHasMerge, AutoIsSingle
<1>4. IdsAreUnique(decs)' /\ IdsAreUnique(disk.decs)' /\ MapsAgree' /\ RequestsAreWritten'
  BY <1>1 DEF CopiesInv, IdsAreUnique, MapsAgree, RequestsAreWritten, AgentWrites
<1>5. QED
  BY <1>3, <1>4 DEF CopiesInv

LEMMA StartHoldsCopies ==
  ASSUME TypeOK, LedgerInv, CopiesInv, Start
  PROVE  CopiesInv'
<1>1. /\ ~up /\ writes = <<>> /\ UNCHANGED <<writes, disk, nextId, runs, inFlight>>
      /\ reqs' = disk.reqs /\ decs' = disk.decs /\ byId' = IndexById(disk.decs)
      /\ \A r \in Req : status'[r] = "ready"
  BY DEF Start, stores, RestoredRequests, RestoredStatus, LedgerInv, WritesAgree
<1>2. SameChildren
  BY <1>1 DEF SameChildren
<1>3. ApprovingHasMerge' /\ AutoIsSingle'
  BY <1>1, <1>2, SameChildrenHold DEF CopiesInv
<1>4. IdsAreUnique(decs)' /\ IdsAreUnique(disk.decs)' /\ MapsAgree' /\ RequestsAreWritten'
  BY <1>1 DEF CopiesInv, IdsAreUnique, MapsAgree, RequestsAreWritten, AgentWrites
<1>5. QED
  BY <1>3, <1>4 DEF CopiesInv

\* The five kinds of steps.
LEMMA StepKinds ==
  ASSUME [Next]_vars
  PROVE  Handler \/ Quiet \/ Flush \/ Crash \/ Start
BY DEF Next, Handler, Quiet

LEMMA CopiesNext == TypeOK /\ TypeOK' /\ LedgerInv /\ CopiesInv /\ [Next]_vars => CopiesInv'
BY StepKinds, HandlersHoldCopies, QuietHoldsCopies, FlushHoldsCopies, CrashHoldsCopies,
   StartHoldsCopies

\* CopiesInv is an invariant, for any number of requests, repositories, merges and crashes.
THEOREM CopiesInvariant == Spec => []CopiesInv
<1>1. Init => CopiesInv
  BY CopiesInit
<1>2. TypeOK /\ TypeOK' /\ LedgerInv /\ CopiesInv /\ [Next]_vars => CopiesInv'
  BY CopiesNext
<1>3. QED
  BY <1>1, <1>2, TypeCorrect, LedgerInvariant, PTL DEF Spec

\* What the server keeps in several places agrees: between handlers the agent store has the
\* requests and decisions of memory (persistAgentStore), the index by id has the decisions of
\* the map, a request is "approving" only while a merge will settle it, and
\* autoApproveInFlight names exactly the requests with an automatic merge.
THEOREM CopiesAlwaysAgree == Spec => []CopiesAgree
<1>1. LedgerInv /\ CopiesInv => CopiesAgree
  <2> SUFFICES ASSUME LedgerInv, CopiesInv PROVE CopiesAgree
    OBVIOUS
  <2>1. ASSUME Idle PROVE disk.reqs = reqs /\ Ruling(disk.decs) = Ruling(decs)
    <3>1. Agree(disk.decs, decs)
      BY <2>1 DEF LedgerInv, WritesAgree, Idle, AgentWrites
    <3>2. disk.reqs = reqs
      BY <2>1 DEF CopiesInv, RequestsAreWritten, Idle, AgentWrites
    <3>3. QED
      BY <3>1, <3>2, RulingOfAgreeing
  <2>2. QED
    BY <2>1 DEF CopiesAgree, StoreIsCurrent, CopiesInv
<1>2. QED
  BY <1>1, LedgerInvariant, CopiesInvariant, PTL

-----------------------------------------------------------------------------
(* A success that is reported has happened *)

LandedLater(r) == r \in Req /\ landed'[r] # "no"

\* What a handler says of success was said before or is true.
OnlyLandedSucceeds ==
  /\ \A r \in Req : Landed(r) => LandedLater(r)
  /\ \A r \in Req :
       /\ status'[r] = "merged" => status[r] = "merged" \/ LandedLater(r)
       /\ Succeeds(decs', r) => Succeeds(decs, r) \/ LandedLater(r)
  /\ \A e \in history' : e.result = "APPROVED" => e \in history \/ LandedLater(e.req)
  /\ \A s \in Slot : runs'[s] \in {runs[s], None} \/ runs'[s].git \in {"queued", "running"}

LEMMA NothingLands == landed' = landed => \A r \in Req : Landed(r) => LandedLater(r)
BY DEF Landed, LandedLater

LEMMA LandedInit == Init => LandedInv
<1> SUFFICES ASSUME Init PROVE LandedInv
  OBVIOUS
<1>1. /\ \A r \in Req : decs[r] = None /\ disk.decs[r] = None /\ status[r] = "ready"
      /\ history = {} /\ diskHistory = {} /\ AgentWrites = {} /\ LogWrites = {}
      /\ \A s \in Slot : runs[s] = None
  BY DEF Init, NoDecisions, EmptyStore, AgentWrites, LogWrites
<1>2. QED
  BY <1>1 DEF LandedInv, ResultsLanded, LogLanded

LEMMA LoggedEntries ==
  ASSUME NEW h, NEW r, NEW result, NEW source, NEW e \in Logged(h, r, result, source)
  PROVE  e \in h \/ (e.req = r /\ e.result = result)
<1> DEFINE f == [req |-> r, result |-> result, source |-> source]
<1>1. e \in h \/ e = f
  BY DEF Logged
<1>2. f.req = r /\ f.result = result
  OBVIOUS
<1>3. QED
  BY <1>1, <1>2

\* An action that puts a decision whose success is old or true.
LEMMA PutSucceeds ==
  ASSUME TypeOK, NEW d \in Decision, SetDecision(d),
         d.result = "succeeded" => Succeeds(decs, d.req) \/ LandedLater(d.req)
  PROVE  \A r \in Req : Succeeds(decs', r) => Succeeds(decs, r) \/ LandedLater(r)
<1>1. d.req \in Req /\ decs \in [Req -> Decision \cup {None}]
  BY DEF TypeOK, DecisionMap, Decision
<1>2. decs'[d.req] = d /\ \A r \in Req : r # d.req => decs'[r] = decs[r]
  BY <1>1 DEF SetDecision
<1>3. QED
  BY <1>2 DEF Succeeds

\* The decision an approval or rejection stores, before it has a result.
LEMMA StoredSucceeds ==
  ASSUME TypeOK, LedgerInv, NEW r \in Req, NEW v \in Verdict, NEW a \in ExecutorAction,
         CanStore(r)
  PROVE  LET d == StoredDecision(r, v, a) IN
         d \in Decision /\ d.req = r /\ (d.result = "succeeded" => Succeeds(decs, r))
BY StoredIsCompatible DEF StoredDecision, NewDecision, Succeeds

LEMMA HandlersLand ==
  ASSUME TypeOK, LedgerInv, MapsAgree, LandedInv, Handler
  PROVE  OnlyLandedSucceeds
<1>1. ASSUME NEW r \in Req, NEW a \in ExecutorAction, ApproveSkipped(r, a)
      PROVE  OnlyLandedSucceeds
  <2> DEFINE d == StoredDecision(r, "approve", a)
  <2>1. d \in Decision /\ WithResult(d, "skipped") \in Decision
    BY <1>1, StoredIsCompatible, ResultIsCopy DEF ApproveSkipped, Verdict
  <2>2. SetDecision(WithResult(d, "skipped")) /\ WithResult(d, "skipped").result = "skipped"
    BY <1>1, <2>1 DEF ApproveSkipped, WithResult, Decision
  <2>3. /\ status' = status /\ runs' = runs /\ landed' = landed
        /\ history' = Logged(history, r, "APPROVE_SKIPPED", "manual")
    BY <1>1 DEF ApproveSkipped
  <2>4. QED
    BY <2>1, <2>2, <2>3, PutSucceeds, LoggedEntries, NothingLands DEF OnlyLandedSucceeds
<1>2. ASSUME NEW r \in Req, NEW a \in ExecutorAction, ApproveWithoutBranch(r, a)
      PROVE  OnlyLandedSucceeds
  <2> DEFINE d == StoredDecision(r, "approve", a)
  <2>1. d \in Decision /\ d.req = r /\ WithResult(d, "succeeded") \in Decision
        /\ WithResult(d, "succeeded").req = r
    BY <1>2, StoredIsCompatible, ResultIsCopy DEF ApproveWithoutBranch, Verdict
  <2>2. /\ SetDecision(WithResult(d, "succeeded"))
        /\ status' = [status EXCEPT ![r] = "merged"] /\ runs' = runs
        /\ landed' = [landed EXCEPT ![r] = IF @ = "merged" THEN @ ELSE "approved"]
        /\ history' = Logged(history, r, "APPROVED", "manual")
    BY <1>2 DEF ApproveWithoutBranch, FinishedStatus
  <2>3. LandedLater(r) /\ \A q \in Req : Landed(q) => LandedLater(q)
    BY <2>2 DEF TypeOK, Landed, LandedLater
  <2>4. \A q \in Req : Succeeds(decs', q) => Succeeds(decs, q) \/ LandedLater(q)
    BY <2>1, <2>2, <2>3, PutSucceeds
  <2>5. \A q \in Req : status'[q] = "merged" => status[q] = "merged" \/ q = r
    BY <2>2 DEF TypeOK
  <2>6. \A e \in history' : e.result = "APPROVED" => e \in history \/ LandedLater(e.req)
    BY <2>2, <2>3, LoggedEntries
  <2>7. QED
    BY <2>2, <2>3, <2>4, <2>5, <2>6 DEF OnlyLandedSucceeds
<1>3. ASSUME NEW r \in Req, NEW b \in Branch, NEW a \in ExecutorAction, NEW s \in Slot,
             ApproveMerges(r, b, a, s)
      PROVE  OnlyLandedSucceeds
  <2> DEFINE d == StoredDecision(r, "approve", a)
  <2>1. d \in Decision /\ d.req = r /\ (d.result = "succeeded" => Succeeds(decs, r))
    BY <1>3, StoredSucceeds DEF ApproveMerges, Verdict
  <2>2. /\ SetDecision(d) /\ landed' = landed /\ history' = history
        /\ status' = [status EXCEPT ![r] = "approving"]
        /\ Free(s) /\ runs' = [runs EXCEPT ![s] = GitChild("manual", r, b, d, StoreWrites(d))]
    BY <1>3 DEF ApproveMerges
  <2> HIDE DEF d
  <2>3. \A q \in Req : Succeeds(decs', q) => Succeeds(decs, q) \/ LandedLater(q)
    BY <2>1, <2>2, PutSucceeds
  <2>4. \A q \in Req : status'[q] = "merged" => status[q] = "merged"
    BY <2>2 DEF TypeOK
  <2>5. \A t \in Slot : runs'[t] \in {runs[t], None} \/ runs'[t].git \in {"queued", "running"}
    BY <2>2 DEF TypeOK, GitChild
  <2>6. QED
    BY <2>2, <2>3, <2>4, <2>5, NothingLands DEF OnlyLandedSucceeds
<1>4. ASSUME NEW r \in Req, Reject(r)
      PROVE  OnlyLandedSucceeds
  <2> DEFINE d == StoredDecision(r, "reject", "none")
  <2>1. d \in Decision /\ d.req = r /\ (d.result = "succeeded" => Succeeds(decs, r))
    BY <1>4, StoredSucceeds DEF Reject, Verdict, ExecutorAction
  <2>2. /\ SetDecision(d) /\ landed' = landed /\ runs' = runs
        /\ history' = Logged(history, r, "REJECTED", "manual")
        /\ status' = [status EXCEPT ![r] = "rejected"]
    BY <1>4 DEF Reject
  <2> HIDE DEF d
  <2>3. \A q \in Req : Succeeds(decs', q) => Succeeds(decs, q) \/ LandedLater(q)
    BY <2>1, <2>2, PutSucceeds
  <2>4. \A q \in Req : status'[q] = "merged" => status[q] = "merged"
    BY <2>2 DEF TypeOK
  <2>5. \A e \in history' : e.result = "APPROVED" => e \in history
    BY <2>2, LoggedEntries
  <2>6. QED
    BY <2>2, <2>3, <2>4, <2>5, NothingLands DEF OnlyLandedSucceeds
<1>5. ASSUME NEW s \in Slot, FinishManual(s) \/ FinishAuto(s)
      PROVE  OnlyLandedSucceeds
  <2>1. PICK r \in Req, ok \in BOOLEAN :
          r = runs[s].req /\ ok = (runs[s].git = "ok") /\ runs[s] # None /\ runs[s].kind # "undo"
    BY <1>5, ChildHas DEF FinishManual, FinishAuto
  <2>2. /\ landed' = landed /\ runs' = [runs EXCEPT ![s] = None]
        /\ status' = [status EXCEPT ![r] = FinishedStatus(ok)]
        /\ \E src : history' = Logged(history, r, IF ok THEN "APPROVED" ELSE "APPROVE_FAILED", src)
    BY <1>5, <2>1 DEF FinishManual, FinishAuto
  <2>3. ok => LandedLater(r)
    BY <2>1, <2>2 DEF LandedInv, Landed, LandedLater
  <2>4. \A q \in Req : Succeeds(decs', q) => Succeeds(decs, q) \/ LandedLater(q)
    <3>1. CASE FinishAuto(s)
      BY <3>1 DEF FinishAuto
    <3>2. CASE FinishManual(s)
      <4> DEFINE x == IF ok THEN "succeeded" ELSE "failed"
      <4> DEFINE d == WithResult(runs[s].snap, x)
      <4>1. runs[s].snap \in Decision /\ SetDecision(d)
        BY <2>1, <3>2, ChildHas DEF FinishManual
      <4>2. d \in Decision /\ d.req = r
        BY <2>1, <3>2, SnapIsCopy
      <4>3. d.result = x
        BY <4>1 DEF WithResult, Decision
      <4> HIDE DEF d
      <4>4. d.result = "succeeded" => LandedLater(d.req)
        BY <2>3, <4>2, <4>3
      <4>5. QED
        BY <4>1, <4>2, <4>4, PutSucceeds
    <3>3. QED
      BY <1>5, <3>1, <3>2
  <2>5. \A q \in Req : status'[q] = "merged" => status[q] = "merged" \/ (q = r /\ ok)
    BY <2>1, <2>2 DEF TypeOK, FinishedStatus
  <2>6. \A e \in history' : e.result = "APPROVED" => e \in history \/ LandedLater(e.req)
    <3>1. PICK src : history' = Logged(history, r, IF ok THEN "APPROVED" ELSE "APPROVE_FAILED", src)
      BY <2>2
    <3>2. QED
      BY <2>3, <3>1, LoggedEntries
  <2>7. \A t \in Slot : runs'[t] \in {runs[t], None}
    BY <2>2 DEF TypeOK
  <2>8. QED
    BY <2>2, <2>3, <2>4, <2>5, <2>6, <2>7, NothingLands DEF OnlyLandedSucceeds
<1>6. ASSUME NEW i \in 1..MaxDecisions, Ack(i)
      PROVE  OnlyLandedSucceeds
  <2>1. byId[i] # None /\ byId = IndexById(decs) /\ byId[i] \in Decision
    BY <1>6 DEF Ack, Idle, MapsAgree, TypeOK
  <2>2. decs[byId[i].req] = byId[i]
    BY <2>1, IndexIsKeyed DEF TypeOK, LedgerInv, MapsAreKeyed
  <2>3. /\ Acknowledged(byId[i]) \in Decision /\ Acknowledged(byId[i]).req = byId[i].req
        /\ Acknowledged(byId[i]).result = byId[i].result
    BY <2>1 DEF Acknowledged, Decision
  <2>4. /\ SetDecision(Acknowledged(byId[i])) /\ status' = status /\ history' = history
        /\ runs' = runs /\ landed' = landed
    BY <1>6 DEF Ack
  <2>5. \A q \in Req : Succeeds(decs', q) => Succeeds(decs, q) \/ LandedLater(q)
    BY <2>1, <2>2, <2>3, <2>4, PutSucceeds DEF Succeeds
  <2>6. QED
    BY <2>4, <2>5, NothingLands DEF OnlyLandedSucceeds
<1>7. CASE Requests
  <2>1. PICK r \in Req, policy \in BOOLEAN :
          \/ Submit(r, policy) \/ SubmitDryRun(r, policy)
          \/ \E b \in Branch, s \in Slot : SubmitAutoApproved(r, b, policy, s)
    BY <1>7 DEF Requests
  <2>2. decs' = decs /\ landed' = landed
    BY <2>1 DEF Submit, SubmitDryRun, SubmitAutoApproved
  <2>3. \A q \in Req : status'[q] = "merged" => status[q] = "merged"
    BY <2>1 DEF Submit, SubmitDryRun, SubmitAutoApproved, SubmittedStatus, TypeOK
  <2>4. \A e \in history' : e.result = "APPROVED" => e \in history
    BY <2>1, LoggedEntries DEF Submit, SubmitDryRun, SubmitAutoApproved
  <2>5. \A t \in Slot : runs'[t] \in {runs[t], None} \/ runs'[t].git \in {"queued", "running"}
    BY <2>1 DEF Submit, SubmitDryRun, SubmitAutoApproved, TypeOK, GitChild
  <2>6. QED
    BY <2>2, <2>3, <2>4, <2>5, NothingLands DEF OnlyLandedSucceeds
<1>8. CASE \E s \in Slot : Undo(s) \/ FinishUndo(s)
  <2>1. PICK s \in Slot : Undo(s) \/ FinishUndo(s)
    BY <1>8
  <2>2. decs' = decs /\ landed' = landed /\ status' = status
    BY <2>1 DEF Undo, FinishUndo, memory
  <2>3. \A e \in history' : e.result = "APPROVED" => e \in history
    BY <2>1, LoggedEntries DEF Undo, FinishUndo, memory
  <2>4. \A t \in Slot : runs'[t] \in {runs[t], None} \/ runs'[t].git \in {"queued", "running"}
    BY <2>1 DEF Undo, FinishUndo, TypeOK, GitChild
  <2>5. QED
    BY <2>2, <2>3, <2>4, NothingLands DEF OnlyLandedSucceeds
<1>9. CASE AgentSaves \/ Pulls \/ \E p \in Project : SelectProject(p)
  <2>1. decs' = decs /\ landed' = landed /\ status' = status /\ history' = history /\ runs' = runs
    BY <1>9 DEF AgentSaves, Pulls, Poll, SelectProject, memory
  <2>2. QED
    BY <2>1, NothingLands DEF OnlyLandedSucceeds
<1>10. QED
  BY <1>1, <1>2, <1>3, <1>4, <1>5, <1>6, <1>7, <1>8, <1>9
     DEF Handler, Operators, Approvals, Callbacks, Acks

LEMMA HandlersHoldLanded ==
  ASSUME TypeOK, LedgerInv, MapsAgree, LandedInv, Handler
  PROVE  LandedInv'
<1>1. OnlyLandedSucceeds /\ QueueFits /\ UNCHANGED stores
  BY HandlersLand, HandlersQueue, HandlersPut
<1>2. \A r : Landed(r) => LandedLater(r)
  BY <1>1 DEF OnlyLandedSucceeds, Landed, LandedLater
<1>3. \A r \in Req : Succeeds(decs', r) \/ Succeeds(decs, r) => LandedLater(r)
  BY <1>1, <1>2 DEF OnlyLandedSucceeds, LandedInv, ResultsLanded, Succeeds
<1>4. \A e \in history' : e.result = "APPROVED" => LandedLater(e.req)
  BY <1>1, <1>2 DEF OnlyLandedSucceeds, LandedInv, LogLanded
<1>5. \A r \in Req : status'[r] = "merged" => LandedLater(r)
  BY <1>1, <1>2 DEF OnlyLandedSucceeds, LandedInv
<1>6. \A r \in Req : disk'.decs[r] # None /\ disk'.decs[r].result = "succeeded" => LandedLater(r)
  BY <1>1, <1>2 DEF LandedInv, ResultsLanded, stores
<1>7. \A e \in diskHistory' : e.result = "APPROVED" => LandedLater(e.req)
  BY <1>1, <1>2 DEF LandedInv, LogLanded, stores
<1>8. \A k \in AgentWrites' : \A r \in Req :
        Succeeds(writes'[k].store.decs, r) => LandedLater(r)
  BY <1>1, <1>3 DEF QueueFits, FirstStore
<1>9. \A k \in LogWrites' : \A e \in writes'[k].entries : e.result = "APPROVED" => LandedLater(e.req)
  BY <1>1, <1>4 DEF QueueFits
<1>10. \A s \in Slot :
         runs'[s] # None /\ runs'[s].kind # "undo" /\ runs'[s].git = "ok" => LandedLater(runs'[s].req)
  BY <1>1, <1>2 DEF OnlyLandedSucceeds, LandedInv
<1>11. QED
  BY <1>3, <1>4, <1>5, <1>6, <1>7, <1>8, <1>9, <1>10
     DEF LandedInv, ResultsLanded, LogLanded, Landed, LandedLater, Succeeds

LEMMA QuietHoldsLanded ==
  ASSUME TypeOK, LandedInv, Quiet
  PROVE  LandedInv'
<1>1. UNCHANGED <<up, reqs, status, decs, byId, inFlight, history, nextId, writes, disk, diskHistory>>
  BY QuietChangesNothing
<1>2. landed' = landed \/ \E q \in Req : landed' = [landed EXCEPT ![q] = "merged"]
  <2>1. ASSUME NEW s \in Slot, GitMergeSucceeds(s)
        PROVE  runs[s].req \in Req /\ landed' = [landed EXCEPT ![runs[s].req] = "merged"]
    BY <2>1, ChildHas DEF GitMergeSucceeds
  <2>2. QED
    BY <2>1 DEF Quiet, Git, GitResetSucceeds, GitFails, CooldownElapses, vars
<1>3. \A r : Landed(r) => LandedLater(r)
  BY <1>2 DEF TypeOK, Landed, LandedLater
<1>4. ASSUME NEW t \in Slot, runs'[t] # None, runs'[t].kind # "undo", runs'[t].git = "ok"
      PROVE  LandedLater(runs'[t].req)
  <2>1. CASE Git
    <3>1. PICK s \in Slot : GitMergeSucceeds(s) \/ GitResetSucceeds(s) \/ GitFails(s)
      BY <2>1 DEF Git
    <3>2. PICK g \in GitState :
            /\ runs' = [runs EXCEPT ![s] = Ended(runs[s], g)] /\ runs[s] # None
            /\ g = "ok" => runs[s].kind = "undo" \/ GitMergeSucceeds(s)
      BY <3>1 DEF GitMergeSucceeds, GitResetSucceeds, GitFails, GitState
    <3>3. CASE t # s
      BY <1>3, <1>4, <3>2, <3>3 DEF TypeOK, LandedInv
    <3>4. CASE t = s
      <4>1. runs[s] \in Run /\ runs'[s] = Ended(runs[s], g)
        BY <3>2 DEF TypeOK
      <4>2. /\ runs'[s].kind = runs[s].kind /\ runs'[s].req = runs[s].req /\ g = "ok"
        BY <1>4, <3>4, <4>1, GitChanges DEF Ended
      <4>3. GitMergeSucceeds(s)
        BY <1>4, <3>2, <3>4, <4>2
      <4>4. runs[s].req \in Req
        BY <4>3, ChildHas DEF GitMergeSucceeds
      <4>5. LandedLater(runs[s].req)
        BY <4>3, <4>4 DEF GitMergeSucceeds, TypeOK, LandedLater
      <4>6. QED
        BY <3>4, <4>2, <4>5
    <3>5. QED
      BY <3>3, <3>4
  <2>2. CASE ~Git
    <3>1. runs' = runs
      BY <2>2 DEF Quiet, CooldownElapses, vars
    <3>2. QED
      BY <1>3, <1>4, <3>1 DEF LandedInv
  <2>3. QED
    BY <2>1, <2>2
<1>5. QED
  BY <1>1, <1>3, <1>4
     DEF LandedInv, ResultsLanded, LogLanded, Landed, LandedLater, AgentWrites, LogWrites

LEMMA FilesHoldLanded ==
  ASSUME TypeOK, LedgerInv, LandedInv, Flush \/ Crash \/ Start
  PROVE  LandedInv'
<1>1. landed' = landed /\ \A r : Landed(r) => LandedLater(r)
  <2>1. landed' = landed
    BY DEF Flush, Crash, Dies, Start
  <2>2. QED
    BY <2>1 DEF Landed, LandedLater
<1>2. ASSUME NEW t \in Slot, runs'[t] # None, runs'[t].kind # "undo", runs'[t].git = "ok"
      PROVE  LandedLater(runs'[t].req)
  <2>1. runs[t] \in Run \cup {None} /\ "running" \in GitState
    BY DEF TypeOK, GitState
  <2>2. runs'[t] \in {runs[t], Spawned(runs[t]), Orphaned(runs[t])}
    BY DEF Flush, Crash, Dies, Start
  <2>3. Spawned(runs[t]) # runs[t] => Spawned(runs[t]).git = "running"
    BY <2>1, GitChanges DEF Spawned
  <2>4. Orphaned(runs[t]) # None => Orphaned(runs[t]).git = "running"
    BY <2>1 DEF Orphaned, Run, ManualRun, AutoRun, UndoRun
  <2>5. runs'[t] = runs[t]
    BY <1>2, <2>2, <2>3, <2>4
  <2>6. QED
    BY <1>1, <1>2, <2>5 DEF LandedInv
<1>3. CASE Flush
  <2>1. UNCHANGED <<status, decs, history>>
    BY <1>3 DEF Flush, memory
  <2>2. /\ \A k \in AgentWrites' : k + 1 \in AgentWrites /\ writes'[k] = writes[k + 1]
        /\ \A k \in LogWrites' : k + 1 \in LogWrites /\ writes'[k] = writes[k + 1]
    BY <1>3, FlushShifts DEF AgentWrites, LogWrites
  <2>3. ResultsLanded(disk'.decs) /\ LogLanded(diskHistory')
    <3>1. CASE writes[1].file = "agents"
      <4>1. 1 \in AgentWrites /\ disk' = writes[1].store /\ diskHistory' = diskHistory
        BY <1>3, <3>1, FlushShifts DEF AgentWrites
      <4>2. QED
        BY <4>1 DEF LandedInv
    <3>2. CASE writes[1].file # "agents"
      <4>1. 1 \in LogWrites /\ disk' = disk /\ diskHistory' = writes[1].entries
        BY <1>3, <3>2, FlushShifts DEF AgentWrites
      <4>2. QED
        BY <4>1 DEF LandedInv
    <3>3. QED
      BY <3>1, <3>2
  <2>4. /\ \A k \in AgentWrites' : ResultsLanded(writes'[k].store.decs)
        /\ \A k \in LogWrites' : LogLanded(writes'[k].entries)
    BY <2>2 DEF LandedInv
  <2>5. QED
    BY <1>1, <1>2, <2>1, <2>3, <2>4
       DEF LandedInv, ResultsLanded, LogLanded, Landed, LandedLater
<1>4. CASE Crash
  <2>1. /\ AgentWrites' = {} /\ LogWrites' = {} /\ UNCHANGED <<disk, diskHistory>>
        /\ history' = {} /\ \A r \in Req : decs'[r] = None /\ status'[r] = "ready"
    BY <1>4 DEF Crash, Dies, NoDecisions, AgentWrites, LogWrites
  <2>2. QED
    BY <1>1, <1>2, <2>1 DEF LandedInv, ResultsLanded, LogLanded, Landed, LandedLater
<1>5. CASE Start
  <2>1. /\ AgentWrites' = {} /\ LogWrites' = {} /\ UNCHANGED <<disk, diskHistory>>
        /\ history' = diskHistory /\ decs' = disk.decs /\ \A r \in Req : status'[r] = "ready"
    BY <1>5 DEF Start, stores, RestoredStatus, AgentWrites, LogWrites, LedgerInv, WritesAgree
  <2>2. QED
    BY <1>1, <1>2, <2>1 DEF LandedInv, ResultsLanded, LogLanded, Landed, LandedLater
<1>6. QED
  BY <1>3, <1>4, <1>5

LEMMA LandedNext ==
  TypeOK /\ LedgerInv /\ CopiesInv /\ LandedInv /\ [Next]_vars => LandedInv'
BY StepKinds, HandlersHoldLanded, QuietHoldsLanded, FilesHoldLanded DEF CopiesInv

\* LandedInv is an invariant.
THEOREM LandedInvariant == Spec => []LandedInv
<1>1. Init => LandedInv
  BY LandedInit
<1>2. TypeOK /\ LedgerInv /\ CopiesInv /\ LandedInv /\ [Next]_vars => LandedInv'
  BY LandedNext
<1>3. QED
  BY <1>1, <1>2, TypeCorrect, LedgerInvariant, CopiesInvariant, PTL DEF Spec

\* The server keeps no success that did not happen: for a request that is merged, whose executor
\* succeeded or that the log has as APPROVED, git has merged a branch of one of its submissions, or
\* one without a branch was approved, across awaits, crashes and restarts. Which submission it was
\* is not told: one that follows a merge is not asked for a merge of its own.
THEOREM SuccessIsAlwaysReal == Spec => []SuccessIsReal
<1>1. LandedInv => SuccessIsReal
  BY DEF LandedInv, ResultsLanded, LogLanded, Landed, SuccessIsReal
<1>2. QED
  BY <1>1, LandedInvariant, PTL

-----------------------------------------------------------------------------
(* A stored success is in the stored log *)

LEMMA AuditInit == Init => AuditTracked
<1> SUFFICES ASSUME Init PROVE AuditTracked
  OBVIOUS
<1>1. /\ \A r \in Req : decs[r] = None /\ disk.decs[r] = None
      /\ history = {} /\ diskHistory = {} /\ AgentWrites = {} /\ LogWrites = {}
  BY DEF Init, NoDecisions, EmptyStore, AgentWrites, LogWrites
<1>2. QED
  BY <1>1 DEF AuditTracked, AuditInv, LogGrows, Audited

LEMMA HandlersHoldAudit ==
  ASSUME TypeOK, TypeOK', LedgerInv, MapsAgree, AuditInv, Handler, "APPROVED" \in Tracked
  PROVE  AuditInv'
<1>1. QueueFits /\ UNCHANGED stores /\ Idle /\ up'
  BY HandlersQueue, HandlersPut
<1>2. up /\ LogWrites = {} /\ AgentWrites = {}
  BY <1>1 DEF Idle, LogWrites, AgentWrites
<1>3. diskHistory = history /\ diskHistory' = diskHistory
  BY <1>1, <1>2 DEF AuditInv, LogGrows, stores
<1>4. LogGrows'
  BY <1>1, <1>3 DEF QueueFits, LogGrows
<1>5. \A r \in Req : Succeeds(decs, r) => Logs(history, r)
  BY <1>2 DEF AuditInv, Audited, Succeeds
<1>6. \A k \in AgentWrites' : \A r \in Req : Succeeds(writes'[k].store.decs, r) =>
        \/ Logs(diskHistory', r)
        \/ \E j \in LogWrites' : j < k /\ Logs(writes'[j].entries, r)
  BY <1>1, <1>3, <1>5 DEF QueueFits
<1>7. \A r \in Req : Succeeds(decs', r) => Logs(history', r)
  <2>1. \A r \in Req : Logs(history, r) => Logs(history', r)
    BY <1>1 DEF QueueFits, Logs
  <2>2. QED
    BY <1>1, <1>5, <2>1 DEF QueueFits, SuccessesAreLogged
<1>8. Audited(disk.decs, diskHistory)'
  BY <1>1 DEF AuditInv, Audited, stores
<1>9. QED
  BY <1>1, <1>4, <1>6, <1>7, <1>8 DEF AuditInv, Audited, Succeeds

LEMMA QuietHoldsAudit ==
  ASSUME TypeOK, AuditInv, Quiet
  PROVE  AuditInv'
<1>1. UNCHANGED <<up, reqs, status, decs, byId, inFlight, history, nextId, writes, disk, diskHistory>>
  BY QuietChangesNothing
<1>2. QED
  BY <1>1 DEF AuditInv, LogGrows, Audited, AgentWrites, LogWrites

LEMMA FlushHoldsAudit ==
  ASSUME TypeOK, AuditInv, Flush
  PROVE  AuditInv'
<1>1. UNCHANGED <<up, decs, history>> /\ up
  BY DEF Flush, memory
<1>2. /\ 1 \in AgentWrites \cup LogWrites
      /\ \A k \in AgentWrites' : k \in Nat /\ k + 1 \in AgentWrites /\ writes'[k] = writes[k + 1]
      /\ \A k \in LogWrites' :
           k \in Nat /\ k >= 1 /\ k + 1 \in LogWrites /\ writes'[k] = writes[k + 1]
      /\ \A k \in LogWrites :
           k \in Nat /\ k >= 1 /\ (k # 1 => k - 1 \in LogWrites' /\ writes'[k - 1] = writes[k])
  BY FlushShifts DEF AgentWrites, LogWrites
<1>3. CASE 1 \in AgentWrites
  <2>1. disk' = writes[1].store /\ diskHistory' = diskHistory /\ 1 \notin LogWrites
    BY <1>3, FlushShifts DEF AgentWrites, LogWrites
  <2>2. LogGrows'
    <3>1. \A k \in LogWrites' : k + 1 \in LogWrites /\ writes'[k].entries = writes[k + 1].entries
      BY <1>2
    <3>2. /\ \A k \in LogWrites' :
               diskHistory' \subseteq writes'[k].entries /\ writes'[k].entries \subseteq history'
          /\ diskHistory' \subseteq history'
      BY <1>1, <2>1, <3>1 DEF AuditInv, LogGrows
    <3>3. \A j, k \in LogWrites' : j < k => writes'[j].entries \subseteq writes'[k].entries
      <4> SUFFICES ASSUME NEW j \in LogWrites', NEW k \in LogWrites', j < k
                   PROVE  writes'[j].entries \subseteq writes'[k].entries
        OBVIOUS
      <4>1. j + 1 \in LogWrites /\ k + 1 \in LogWrites /\ j + 1 < k + 1
        BY <1>2
      <4>2. writes[j + 1].entries \subseteq writes[k + 1].entries
        BY <4>1 DEF AuditInv, LogGrows
      <4>3. QED
        BY <3>1, <4>2
    <3>4. LogWrites' = {} => diskHistory' = history'
      BY <1>1, <1>2, <2>1 DEF AuditInv, LogGrows
    <3>5. LogWrites' # {} => \E k \in LogWrites' : writes'[k].entries = history'
      <4> SUFFICES ASSUME LogWrites' # {} PROVE \E k \in LogWrites' : writes'[k].entries = history'
        OBVIOUS
      <4>1. PICK k \in LogWrites : writes[k].entries = history
        BY <3>1 DEF AuditInv, LogGrows
      <4>2. k - 1 \in LogWrites' /\ writes'[k - 1].entries = history'
        BY <1>1, <1>2, <2>1, <4>1
      <4>3. QED
        BY <4>2
    <3>6. QED
      BY <3>2, <3>3, <3>4, <3>5 DEF LogGrows
  <2>3. \A r \in Req : Succeeds(disk'.decs, r) => Logs(diskHistory', r)
    BY <1>2, <1>3, <2>1 DEF AuditInv, Succeeds
  <2>4. ASSUME NEW k \in AgentWrites', NEW r \in Req, Succeeds(writes'[k].store.decs, r),
               ~Logs(diskHistory', r)
        PROVE  \E j \in LogWrites' : j < k /\ Logs(writes'[j].entries, r)
    <3>1. k + 1 \in AgentWrites /\ Succeeds(writes[k + 1].store.decs, r) /\ k \in Nat
      BY <1>2, <2>4
    <3>2. PICK j \in LogWrites : j < k + 1 /\ Logs(writes[j].entries, r)
      BY <2>1, <2>4, <3>1 DEF AuditInv, Succeeds
    <3>3. j \in Nat /\ j # 1 /\ j - 1 \in LogWrites' /\ writes'[j - 1] = writes[j]
      BY <1>2, <2>1, <3>2
    <3>4. j - 1 < k
      BY <3>1, <3>2, <3>3
    <3>5. Logs(writes'[j - 1].entries, r)
      BY <3>2, <3>3
    <3>6. QED
      BY <3>3, <3>4, <3>5
  <2>5. QED
    BY <1>1, <2>2, <2>3, <2>4 DEF AuditInv, Audited, Succeeds
<1>4. CASE 1 \in LogWrites
  <2>1. disk' = disk /\ diskHistory' = writes[1].entries
    BY <1>4, FlushShifts DEF LogWrites
  <2>2. diskHistory \subseteq diskHistory' /\ diskHistory' \subseteq history
    BY <1>4, <2>1 DEF AuditInv, LogGrows
  <2>3. LogGrows'
    <3>1. \A k \in LogWrites' :
            k + 1 \in LogWrites /\ writes'[k].entries = writes[k + 1].entries /\ 1 < k + 1
      BY <1>2
    <3>2. \A k \in LogWrites' :
            diskHistory' \subseteq writes'[k].entries /\ writes'[k].entries \subseteq history'
      BY <1>1, <1>4, <2>1, <3>1 DEF AuditInv, LogGrows
    <3>3. \A j, k \in LogWrites' : j < k => writes'[j].entries \subseteq writes'[k].entries
      <4> SUFFICES ASSUME NEW j \in LogWrites', NEW k \in LogWrites', j < k
                   PROVE  writes'[j].entries \subseteq writes'[k].entries
        OBVIOUS
      <4>1. j + 1 \in LogWrites /\ k + 1 \in LogWrites /\ j + 1 < k + 1
        BY <1>2
      <4>2. writes[j + 1].entries \subseteq writes[k + 1].entries
        BY <4>1 DEF AuditInv, LogGrows
      <4>3. QED
        BY <3>1, <4>2
    <3>4. PICK m \in LogWrites : writes[m].entries = history
      BY <1>4 DEF AuditInv, LogGrows
    <3>5. CASE m = 1
      <4>1. diskHistory' = history'
        BY <1>1, <2>1, <3>4, <3>5
      <4>2. \A k \in LogWrites' : writes'[k].entries = history'
        BY <3>2, <4>1
      <4>3. QED
        BY <3>2, <3>3, <4>1, <4>2 DEF LogGrows
    <3>6. CASE m # 1
      <4>1. m - 1 \in LogWrites' /\ writes'[m - 1].entries = history'
        BY <1>1, <1>2, <3>4, <3>6
      <4>2. QED
        BY <1>1, <2>2, <3>2, <3>3, <4>1 DEF LogGrows
    <3>7. QED
      BY <3>5, <3>6
  <2>4. \A r \in Req : Logs(diskHistory, r) => Logs(diskHistory', r)
    BY <2>2 DEF Logs
  <2>5. \A r \in Req : Succeeds(disk'.decs, r) => Logs(diskHistory', r)
    BY <2>1, <2>4 DEF AuditInv, Audited, Succeeds
  <2>6. ASSUME NEW k \in AgentWrites', NEW r \in Req, Succeeds(writes'[k].store.decs, r),
               ~Logs(diskHistory', r)
        PROVE  \E j \in LogWrites' : j < k /\ Logs(writes'[j].entries, r)
    <3>1. k + 1 \in AgentWrites /\ Succeeds(writes[k + 1].store.decs, r) /\ k \in Nat
      BY <1>2, <2>6
    <3>2. PICK j \in LogWrites : j < k + 1 /\ Logs(writes[j].entries, r)
      BY <2>4, <2>6, <3>1 DEF AuditInv, Succeeds
    <3>3. j # 1
      BY <2>1, <2>6, <3>2
    <3>4. j - 1 \in LogWrites' /\ j - 1 < k /\ Logs(writes'[j - 1].entries, r)
      BY <1>2, <3>1, <3>2, <3>3
    <3>5. QED
      BY <3>4
  <2>7. QED
    BY <1>1, <2>3, <2>5, <2>6 DEF AuditInv, Audited, Succeeds
<1>5. QED
  BY <1>2, <1>3, <1>4

LEMMA RestartsHoldAudit ==
  ASSUME TypeOK, LedgerInv, AuditInv, Crash \/ Start
  PROVE  AuditInv'
<1>1. AgentWrites' = {} /\ LogWrites' = {} /\ UNCHANGED <<disk, diskHistory>>
  BY DEF Crash, Dies, Start, stores, AgentWrites, LogWrites, LedgerInv, WritesAgree
<1>2. CASE Crash
  <2>1. ~up'
    BY <1>2 DEF Crash, Dies
  <2>2. QED
    BY <1>1, <2>1 DEF AuditInv, LogGrows, Audited
<1>3. CASE Start
  <2>1. history' = diskHistory /\ decs' = disk.decs
    BY <1>3 DEF Start
  <2>2. QED
    BY <1>1, <2>1 DEF AuditInv, LogGrows, Audited
<1>4. QED
  BY <1>2, <1>3

LEMMA AuditNext ==
  TypeOK /\ TypeOK' /\ LedgerInv /\ CopiesInv /\ AuditTracked /\ [Next]_vars => AuditTracked'
<1> SUFFICES ASSUME TypeOK, TypeOK', LedgerInv, CopiesInv, AuditInv, [Next]_vars,
                    "APPROVED" \in Tracked
             PROVE  AuditInv'
  BY DEF AuditTracked
<1>1. QED
  BY StepKinds, HandlersHoldAudit, QuietHoldsAudit, FlushHoldsAudit, RestartsHoldAudit
     DEF CopiesInv

\* AuditTracked is an invariant.
THEOREM AuditInvariant == Spec => []AuditTracked
<1>1. Init => AuditTracked
  BY AuditInit
<1>2. TypeOK /\ TypeOK' /\ LedgerInv /\ CopiesInv /\ AuditTracked /\ [Next]_vars => AuditTracked'
  BY AuditNext
<1>3. QED
  BY <1>1, <1>2, TypeCorrect, LedgerInvariant, CopiesInvariant, PTL DEF Spec

\* The audit log is never behind the agent store: wherever the process dies, a stored decision
\* that says it succeeded has its APPROVED entry in the stored history (appendHistory before
\* recordApprovalDecisionExecutorResult). Of a failure, of an automatic merge, which has no
\* decision, and of the message sent to dashboards before the entry is written, it says nothing.
THEOREM ResultIsAlwaysAudited == Spec => []ResultIsAudited
<1>1. AuditTracked => ResultIsAudited
  BY DEF AuditTracked, AuditInv, Audited, Logs, ResultIsAudited
<1>2. QED
  BY <1>1, AuditInvariant, PTL

-----------------------------------------------------------------------------
(* Git merges by hand what is stored as approved *)

\* A decision keeps its verdict and action, and only an approval's is to merge.
VerdictsKept ==
  \A r \in Req :
    /\ decs[r] # None =>
         /\ decs'[r] # None
         /\ decs'[r].action = decs[r].action /\ decs'[r].decision = decs[r].decision
    /\ decs[r] = None /\ decs'[r] # None /\ decs'[r].action = "merge" =>
         decs'[r].decision = "approve"

\* A manual child that has just been started: it runs at once only for a decision that was
\* there before.
NewOrder(run) ==
  /\ run.live /\ run.snap.action = "merge" /\ run.req \in Req
  /\ ApprovesMerge(decs'[run.req])
  /\ run.git # "queued" => decs[run.req] # None

OrdersKept ==
  /\ VerdictsKept
  /\ \A s \in Slot : runs'[s] # None /\ runs'[s].kind = "manual" =>
       runs'[s] = runs[s] \/ NewOrder(runs'[s])

LEMMA PutKeepsVerdicts ==
  ASSUME TypeOK, NEW d \in Decision, SetDecision(d),
         IF decs[d.req] # None
         THEN d.action = decs[d.req].action /\ d.decision = decs[d.req].decision
         ELSE d.action = "merge" => d.decision = "approve"
  PROVE  VerdictsKept
<1>1. d.req \in Req /\ decs \in [Req -> Decision \cup {None}] /\ d # None
  BY NoDecisionAssumption DEF TypeOK, DecisionMap, Decision
<1>2. decs'[d.req] = d /\ \A r \in Req : r # d.req => decs'[r] = decs[r]
  BY <1>1 DEF SetDecision
<1>3. QED
  BY <1>1, <1>2 DEF VerdictsKept

\* What storeApprovalDecision returns, and what a result makes of it.
LEMMA StoredKeepsVerdict ==
  ASSUME TypeOK, LedgerInv, NEW r \in Req, NEW v \in Verdict, NEW a \in ExecutorAction,
         CanStore(r), NEW x \in {"none", "succeeded", "failed", "skipped"}
  PROVE  LET d == StoredDecision(r, v, a) IN
         /\ d \in Decision /\ d.req = r
         /\ WithResult(d, x) \in Decision /\ WithResult(d, x).req = r
         /\ WithResult(d, x).action = d.action /\ WithResult(d, x).decision = d.decision
         /\ decs[r] # None => d = decs[r]
         /\ decs[r] = None => d.action = a /\ d.decision = v
<1> DEFINE d == StoredDecision(r, v, a)
<1>1. d \in Decision /\ d.req = r
  BY StoredIsCompatible
<1>2. /\ decs[r] # None => d = decs[r]
      /\ decs[r] = None => d.action = a /\ d.decision = v
  BY DEF StoredDecision, NewDecision
<1> HIDE DEF d
<1>3. /\ WithResult(d, x) \in Decision /\ WithResult(d, x).req = d.req
      /\ WithResult(d, x).action = d.action /\ WithResult(d, x).decision = d.decision
  BY <1>1 DEF WithResult, Decision
<1>4. QED
  BY <1>1, <1>2, <1>3 DEF d

LEMMA HandlersKeepOrders ==
  ASSUME TypeOK, LedgerInv, MapsAgree, OrdersInv, Handler
  PROVE  OrdersKept
<1>1. ASSUME NEW r \in Req, NEW a \in ExecutorAction,
             ApproveSkipped(r, a) \/ ApproveWithoutBranch(r, a)
      PROVE  OrdersKept
  <2> DEFINE d == StoredDecision(r, "approve", a)
  <2>1. PICK x \in {"skipped", "succeeded"} : SetDecision(WithResult(d, x))
    BY <1>1 DEF ApproveSkipped, ApproveWithoutBranch
  <2>2. /\ WithResult(d, x) \in Decision /\ WithResult(d, x).req = r
        /\ WithResult(d, x).action = d.action /\ WithResult(d, x).decision = d.decision
        /\ decs[r] # None => d = decs[r]
        /\ decs[r] = None => d.decision = "approve"
    <3>1. CanStore(r) /\ "approve" \in Verdict
      BY <1>1 DEF ApproveSkipped, ApproveWithoutBranch, Verdict
    <3>2. x \in {"none", "succeeded", "failed", "skipped"}
      OBVIOUS
    <3>3. QED
      BY <3>1, <3>2, StoredKeepsVerdict
  <2> HIDE DEF d
  <2>3. VerdictsKept
    BY <2>1, <2>2, PutKeepsVerdicts
  <2>4. runs' = runs
    BY <1>1 DEF ApproveSkipped, ApproveWithoutBranch
  <2>5. QED
    BY <2>3, <2>4 DEF OrdersKept
<1>2. ASSUME NEW r \in Req, NEW b \in Branch, NEW a \in ExecutorAction, NEW s \in Slot,
             ApproveMerges(r, b, a, s)
      PROVE  OrdersKept
  <2> DEFINE d == StoredDecision(r, "approve", a)
  <2>1. /\ SetDecision(d) /\ d.action = "merge" /\ Free(s)
        /\ runs' = [runs EXCEPT ![s] = GitChild("manual", r, b, d, StoreWrites(d))]
    BY <1>2 DEF ApproveMerges
  <2>2. /\ d \in Decision /\ d.req = r
        /\ decs[r] # None => d = decs[r]
        /\ decs[r] = None => d.decision = "approve"
    BY <1>2, StoredKeepsVerdict DEF ApproveMerges, Verdict
  <2> HIDE DEF d
  <2>3. VerdictsKept
    BY <2>1, <2>2, PutKeepsVerdicts
  <2>4. d.decision = "approve"
    BY <2>1, <2>2 DEF OrdersInv
  <2>5. decs'[r] = d /\ d # None
    BY <2>1, <2>2, NoDecisionAssumption DEF SetDecision, TypeOK, DecisionMap
  <2>6. decs[r] = None => StoreWrites(d) # <<>>
    BY <2>2 DEF StoreWrites
  <2>7. NewOrder(runs'[s])
    <3>1. /\ runs'[s].live /\ runs'[s].snap = d /\ runs'[s].req = r
          /\ runs'[s].git # "queued" => StoreWrites(d) = <<>>
      BY <2>1 DEF TypeOK, GitChild
    <3>2. QED
      BY <2>1, <2>4, <2>5, <2>6, <3>1 DEF NewOrder, ApprovesMerge
  <2>8. \A t \in Slot : t # s => runs'[t] = runs[t]
    BY <2>1 DEF TypeOK
  <2>9. QED
    BY <2>3, <2>7, <2>8 DEF OrdersKept
<1>3. ASSUME NEW r \in Req, Reject(r)
      PROVE  OrdersKept
  <2> DEFINE d == StoredDecision(r, "reject", "none")
  <2>1. SetDecision(d) /\ runs' = runs
    BY <1>3 DEF Reject
  <2>2. /\ d \in Decision /\ d.req = r
        /\ decs[r] # None => d = decs[r]
        /\ decs[r] = None => d.action = "none"
    BY <1>3, StoredKeepsVerdict DEF Reject, Verdict, ExecutorAction
  <2> HIDE DEF d
  <2>3. VerdictsKept
    BY <2>1, <2>2, PutKeepsVerdicts
  <2>4. QED
    BY <2>1, <2>3 DEF OrdersKept
<1>4. ASSUME NEW s \in Slot, FinishManual(s)
      PROVE  OrdersKept
  <2> DEFINE d == WithResult(runs[s].snap, IF runs[s].git = "ok" THEN "succeeded" ELSE "failed")
  <2>1. SetDecision(d) /\ runs' = [runs EXCEPT ![s] = None]
    BY <1>4 DEF FinishManual
  <2>2. /\ d \in Decision /\ d.req = runs[s].req
        /\ decs[d.req] # None /\ Given(decs[d.req]) = Given(d)
    BY <1>4, SnapIsCopy
  <2>3. runs[s].snap \in Decision
    BY <1>4, ChildHas DEF FinishManual
  <2>4. d.action = runs[s].snap.action
    BY <2>3 DEF WithResult, Decision
  <2>5. runs[s].snap.action = "merge" /\ decs[runs[s].req].action = "merge"
    BY <1>4 DEF FinishManual, OrdersInv, ApprovesMerge
  <2> HIDE DEF d
  <2>6. VerdictsKept
    BY <2>1, <2>2, <2>4, <2>5, PutKeepsVerdicts DEF Given
  <2>7. \A t \in Slot : runs'[t] \in {runs[t], None}
    BY <2>1 DEF TypeOK
  <2>8. QED
    BY <2>6, <2>7 DEF OrdersKept
<1>5. ASSUME NEW i \in 1..MaxDecisions, Ack(i)
      PROVE  OrdersKept
  <2>1. byId[i] # None /\ byId = IndexById(decs) /\ byId[i] \in Decision
    BY <1>5 DEF Ack, Idle, MapsAgree, TypeOK
  <2>2. decs[byId[i].req] = byId[i]
    BY <2>1, IndexIsKeyed DEF TypeOK, LedgerInv, MapsAreKeyed
  <2>3. /\ Acknowledged(byId[i]) \in Decision /\ Acknowledged(byId[i]).req = byId[i].req
        /\ Acknowledged(byId[i]).action = byId[i].action
        /\ Acknowledged(byId[i]).decision = byId[i].decision
    BY <2>1 DEF Acknowledged, Decision
  <2>4. SetDecision(Acknowledged(byId[i])) /\ runs' = runs
    BY <1>5 DEF Ack
  <2>5. VerdictsKept
    BY <2>1, <2>2, <2>3, <2>4, PutKeepsVerdicts
  <2>6. QED
    BY <2>4, <2>5 DEF OrdersKept
<1>6. CASE Requests
  <2>1. PICK r \in Req, policy \in BOOLEAN :
          \/ Submit(r, policy) \/ SubmitDryRun(r, policy)
          \/ \E b \in Branch, s \in Slot : SubmitAutoApproved(r, b, policy, s)
    BY <1>6 DEF Requests
  <2>2. decs' = decs
    BY <2>1 DEF Submit, SubmitDryRun, SubmitAutoApproved
  <2>3. \A t \in Slot : runs'[t] = runs[t] \/ runs'[t].kind = "auto"
    BY <2>1 DEF Submit, SubmitDryRun, SubmitAutoApproved, TypeOK, GitChild
  <2>4. QED
    BY <2>2, <2>3 DEF OrdersKept, VerdictsKept
<1>7. CASE \E s \in Slot : Undo(s) \/ FinishUndo(s) \/ FinishAuto(s)
  <2>1. PICK s \in Slot : Undo(s) \/ FinishUndo(s) \/ FinishAuto(s)
    BY <1>7
  <2>2. decs' = decs
    BY <2>1 DEF Undo, FinishUndo, FinishAuto, memory
  <2>3. \A t \in Slot : runs'[t] \in {runs[t], None} \/ runs'[t].kind = "undo"
    BY <2>1 DEF Undo, FinishUndo, FinishAuto, TypeOK, GitChild
  <2>4. QED
    BY <2>2, <2>3 DEF OrdersKept, VerdictsKept
<1>8. CASE AgentSaves \/ Pulls \/ \E p \in Project : SelectProject(p)
  <2>1. decs' = decs /\ runs' = runs
    BY <1>8 DEF AgentSaves, Pulls, Poll, SelectProject, memory
  <2>2. QED
    BY <2>1 DEF OrdersKept, VerdictsKept
<1>9. QED
  BY <1>1, <1>2, <1>3, <1>4, <1>5, <1>6, <1>7, <1>8
     DEF Handler, Operators, Approvals, Callbacks, Acks

LEMMA OrdersInit == Init => OrdersInv
<1> SUFFICES ASSUME Init PROVE OrdersInv
  OBVIOUS
<1>1. /\ \A r \in Req : decs[r] = None /\ disk.decs[r] = None
      /\ AgentWrites = {} /\ \A s \in Slot : runs[s] = None
  BY DEF Init, NoDecisions, EmptyStore, AgentWrites
<1>2. QED
  BY <1>1 DEF OrdersInv, SameAction

LEMMA HandlersHoldOrders ==
  ASSUME TypeOK, LedgerInv, MapsAgree, OrdersInv, Handler
  PROVE  OrdersInv'
<1>1. OrdersKept /\ QueueFits /\ Idle /\ UNCHANGED stores
  BY HandlersKeepOrders, HandlersQueue, HandlersPut
<1>2. disk' = disk /\ Agree(disk.decs, decs)
  BY <1>1 DEF stores, LedgerInv, WritesAgree, Idle, AgentWrites
<1>3. \A r \in Req : decs'[r] # None /\ decs'[r].action = "merge" => decs'[r].decision = "approve"
  BY <1>1 DEF OrdersKept, VerdictsKept, OrdersInv
<1>4. SameAction(decs', disk'.decs)
  BY <1>1, <1>2 DEF OrdersKept, VerdictsKept, OrdersInv, SameAction, Agree, Knows
<1>5. \A k \in AgentWrites' : SameAction(decs', writes'[k].store.decs)
  BY <1>1 DEF QueueFits, FirstStore, SameAction
<1>6. ASSUME NEW s \in Slot, runs'[s] # None, runs'[s].kind = "manual"
      PROVE  /\ runs'[s].live => ApprovesMerge(decs'[runs'[s].req]) /\ runs'[s].snap.action = "merge"
             /\ runs'[s].git = "queued" => runs'[s].live
             /\ runs'[s].git # "queued" => ApprovesMerge(disk'.decs[runs'[s].req])
  <2>1. CASE runs'[s] = runs[s]
    <3>1. runs[s].req \in Req
      BY <1>6, <2>1, ChildHas
    <3>2. QED
      BY <1>1, <1>2, <1>6, <2>1, <3>1
         DEF OrdersInv, OrdersKept, VerdictsKept, ApprovesMerge
  <2>2. CASE NewOrder(runs'[s])
    <3>1. PICK r \in Req : r = runs'[s].req
      BY <2>2 DEF NewOrder
    <3>2. ASSUME runs'[s].git # "queued" PROVE ApprovesMerge(disk'.decs[r])
      <4>1. decs[r] # None /\ ApprovesMerge(decs'[r])
        BY <2>2, <3>1, <3>2 DEF NewOrder
      <4>2. ApprovesMerge(decs[r])
        BY <1>1, <4>1 DEF OrdersKept, VerdictsKept, ApprovesMerge
      <4>3. disk.decs[r] # None /\ Given(disk.decs[r]) = Given(decs[r])
        BY <1>2, <4>1 DEF Agree, Knows
      <4>4. QED
        BY <1>2, <4>2, <4>3 DEF OrdersInv, SameAction, ApprovesMerge, Given
    <3>3. QED
      BY <2>2, <3>1, <3>2 DEF NewOrder
  <2>3. QED
    BY <1>1, <1>6, <2>1, <2>2 DEF OrdersKept
<1>7. \A r \in Req :
        disk'.decs[r] # None /\ disk'.decs[r].action = "merge" => disk'.decs[r].decision = "approve"
  BY <1>2 DEF OrdersInv
<1>8. QED
  BY <1>3, <1>4, <1>5, <1>6, <1>7 DEF OrdersInv

\* The store of a decision to approve and merge is written over by none that says otherwise.
LEMMA FlushKeepsVerdicts ==
  ASSUME TypeOK, LedgerInv, OrdersInv, Flush
  PROVE  /\ SameAction(decs, disk'.decs)
         /\ \A r \in Req : disk.decs[r] # None =>
              /\ disk'.decs[r] # None /\ disk'.decs[r].action = disk.decs[r].action
              /\ disk'.decs[r].decision = disk.decs[r].decision
<1>1. SameAction(decs, disk'.decs)
  <2>1. CASE writes[1].file = "agents"
    <3>1. 1 \in AgentWrites /\ disk' = writes[1].store
      BY <2>1, FlushShifts DEF AgentWrites
    <3>2. QED
      BY <3>1 DEF OrdersInv
  <2>2. CASE writes[1].file # "agents"
    <3>1. disk' = disk
      BY <2>2, FlushShifts
    <3>2. QED
      BY <3>1 DEF OrdersInv
  <2>3. QED
    BY <2>1, <2>2
<1>2. ASSUME NEW r \in Req, disk.decs[r] # None
      PROVE  /\ disk'.decs[r] # None /\ disk'.decs[r].action = disk.decs[r].action
             /\ disk'.decs[r].decision = disk.decs[r].decision
  <2>1. /\ disk'.decs[r] # None /\ Given(disk'.decs[r]) = Given(disk.decs[r])
        /\ decs[r] # None
    BY <1>2, FlushAgrees DEF Knows
  <2>2. disk'.decs[r].action = decs[r].action /\ disk.decs[r].action = decs[r].action
    BY <1>1, <1>2, <2>1 DEF OrdersInv, SameAction
  <2>3. QED
    BY <2>1, <2>2 DEF Given
<1>3. QED
  BY <1>1, <1>2

LEMMA FlushHoldsOrders ==
  ASSUME TypeOK, LedgerInv, OrdersInv, Flush
  PROVE  OrdersInv'
<1>1. decs' = decs /\ \A k \in AgentWrites' : k + 1 \in AgentWrites /\ writes'[k] = writes[k + 1]
  BY FlushAgrees DEF Flush, memory
<1>2. \A r \in Req :
        disk'.decs[r] # None /\ disk'.decs[r].action = "merge" => disk'.decs[r].decision = "approve"
  <2> SUFFICES ASSUME NEW r \in Req, disk'.decs[r] # None, disk'.decs[r].action = "merge"
               PROVE  disk'.decs[r].decision = "approve"
    OBVIOUS
  <2>1. decs[r] # None /\ Given(decs[r]) = Given(disk'.decs[r])
    BY FlushAgrees DEF Knows
  <2>2. decs[r].action = "merge"
    BY <2>1, FlushKeepsVerdicts DEF SameAction
  <2>3. QED
    BY <2>1, <2>2 DEF OrdersInv, Given
<1>3. \A k \in AgentWrites' : SameAction(decs', writes'[k].store.decs)
  BY <1>1 DEF OrdersInv
<1>4. ASSUME NEW s \in Slot, runs'[s] # None, runs'[s].kind = "manual"
      PROVE  /\ runs'[s].live => ApprovesMerge(decs'[runs'[s].req]) /\ runs'[s].snap.action = "merge"
             /\ runs'[s].git = "queued" => runs'[s].live
             /\ runs'[s].git # "queued" => ApprovesMerge(disk'.decs[runs'[s].req])
  <2>1. runs[s] \in Run \cup {None} /\ "running" \in GitState
    BY DEF TypeOK, GitState
  <2>2. CASE runs'[s] = runs[s]
    <3>1. runs[s].req \in Req
      BY <1>4, <2>2, ChildHas
    <3>2. QED
      BY <1>1, <1>4, <2>2, <3>1, FlushKeepsVerdicts DEF OrdersInv, ApprovesMerge
  <2>3. CASE runs'[s] # runs[s]
    <3>1. /\ runs[s] # None /\ runs[s].git = "queued" /\ writes' = <<>>
          /\ runs'[s] = [runs[s] EXCEPT !.git = "running"]
      BY <2>3 DEF Flush, Spawned
    <3>2. /\ runs'[s].live = runs[s].live /\ runs'[s].kind = runs[s].kind
          /\ runs'[s].req = runs[s].req /\ runs'[s].snap = runs[s].snap
          /\ runs'[s].git = "running"
      BY <2>1, <3>1, GitChanges
    <3>3. PICK r \in Req : r = runs[s].req
      BY <1>4, <3>1, <3>2, ChildHas
    <3>4. runs[s].live /\ ApprovesMerge(decs[r]) /\ runs[s].snap.action = "merge"
      BY <1>4, <3>1, <3>2, <3>3 DEF OrdersInv
    <3>5. Agree(disk'.decs, decs)
      BY <3>1, FlushAgrees DEF AgentWrites
    <3>6. ApprovesMerge(disk'.decs[r])
      BY <3>4, <3>5, FlushKeepsVerdicts DEF Agree, Knows, SameAction, ApprovesMerge, Given
    <3>7. QED
      BY <1>1, <3>2, <3>3, <3>4, <3>6
  <2>4. QED
    BY <2>2, <2>3
<1>5. SameAction(decs', disk'.decs)
  BY <1>1, FlushKeepsVerdicts
<1>6. \A r \in Req : decs'[r] # None /\ decs'[r].action = "merge" => decs'[r].decision = "approve"
  BY <1>1 DEF OrdersInv
<1>7. QED
  BY <1>2, <1>3, <1>4, <1>5, <1>6 DEF OrdersInv

LEMMA QuietHoldsOrders ==
  ASSUME TypeOK, OrdersInv, Quiet
  PROVE  OrdersInv'
<1>1. UNCHANGED <<decs, writes, disk>>
  BY QuietChangesNothing
<1>2. \A s \in Slot : runs'[s] # None /\ runs'[s].kind = "manual" =>
        \/ runs'[s] = runs[s]
        \/ /\ runs[s] # None /\ runs[s].kind = "manual" /\ runs[s].git # "queued"
           /\ runs'[s].live = runs[s].live /\ runs'[s].req = runs[s].req
           /\ runs'[s].snap = runs[s].snap /\ runs'[s].git # "queued"
  <2>1. CASE Git
    <3>1. PICK s \in Slot : GitMergeSucceeds(s) \/ GitResetSucceeds(s) \/ GitFails(s)
      BY <2>1 DEF Git
    <3>2. PICK g \in {"ok", "failed"} :
            /\ runs' = [runs EXCEPT ![s] = Ended(runs[s], g)] /\ runs[s] # None
            /\ runs[s].git = "running"
      BY <3>1 DEF GitMergeSucceeds, GitResetSucceeds, GitFails
    <3>3. runs[s] \in Run /\ runs'[s] = Ended(runs[s], g) /\ g \in GitState
      BY <3>2 DEF TypeOK, GitState
    <3>4. runs'[s] # None =>
            /\ runs'[s].live = runs[s].live /\ runs'[s].req = runs[s].req
            /\ runs'[s].snap = runs[s].snap /\ runs'[s].git = g /\ runs'[s].kind = runs[s].kind
      BY <3>3, GitChanges DEF Ended
    <3>5. \A t \in Slot : t # s => runs'[t] = runs[t]
      BY <3>2 DEF TypeOK
    <3>6. QED
      BY <3>2, <3>4, <3>5
  <2>2. CASE ~Git
    BY <2>2 DEF Quiet, CooldownElapses, vars
  <2>3. QED
    BY <2>1, <2>2
<1>3. \A s \in Slot : runs'[s] # None /\ runs'[s].kind = "manual" =>
        /\ runs'[s].live => ApprovesMerge(decs'[runs'[s].req]) /\ runs'[s].snap.action = "merge"
        /\ runs'[s].git = "queued" => runs'[s].live
        /\ runs'[s].git # "queued" => ApprovesMerge(disk'.decs[runs'[s].req])
  BY <1>1, <1>2 DEF OrdersInv
<1>4. QED
  BY <1>1, <1>3 DEF OrdersInv, AgentWrites

LEMMA RestartsHoldOrders ==
  ASSUME TypeOK, LedgerInv, OrdersInv, Crash \/ Start
  PROVE  OrdersInv'
<1>1. AgentWrites' = {} /\ disk' = disk
  BY DEF Crash, Dies, Start, stores, AgentWrites, LedgerInv, WritesAgree
<1>2. CASE Crash
  <2>1. \A r \in Req : decs'[r] = None
    BY <1>2 DEF Crash, Dies, NoDecisions
  <2>2. \A s \in Slot : runs'[s] # None /\ runs'[s].kind = "manual" =>
          /\ ~runs'[s].live /\ runs'[s].git = "running"
          /\ ApprovesMerge(disk'.decs[runs'[s].req])
    <3> SUFFICES ASSUME NEW s \in Slot, runs'[s] # None, runs'[s].kind = "manual"
                 PROVE  /\ ~runs'[s].live /\ runs'[s].git = "running"
                        /\ ApprovesMerge(disk'.decs[runs'[s].req])
      OBVIOUS
    <3>1. runs[s] \in Run \cup {None} /\ runs'[s] = Orphaned(runs[s])
      BY <1>2 DEF Crash, Dies, TypeOK
    <3>2. /\ runs[s] \in Run /\ runs[s] # None /\ runs[s].git = "running"
          /\ runs'[s] = [runs[s] EXCEPT !.live = FALSE]
      BY <3>1 DEF Orphaned
    <3>3. /\ ~runs'[s].live /\ runs'[s].git = "running" /\ runs[s].kind = "manual"
          /\ runs'[s].req = runs[s].req
      BY <3>2 DEF Run, ManualRun, AutoRun, UndoRun
    <3>4. QED
      BY <1>1, <3>2, <3>3 DEF OrdersInv
  <2>3. QED
    BY <1>1, <2>1, <2>2 DEF OrdersInv, SameAction
<1>3. CASE Start
  <2>1. decs' = disk.decs /\ runs' = runs /\ ~up
    BY <1>3 DEF Start
  <2>2. \A s \in Slot : runs[s] # None /\ runs[s].kind = "manual" => ~runs[s].live
    BY <2>1 DEF LedgerInv, ChildrenAgree, Live
  <2>3. QED
    BY <1>1, <2>1, <2>2 DEF OrdersInv, SameAction
<1>4. QED
  BY <1>2, <1>3

LEMMA OrdersNext ==
  TypeOK /\ LedgerInv /\ CopiesInv /\ OrdersInv /\ [Next]_vars => OrdersInv'
BY StepKinds, HandlersHoldOrders, FlushHoldsOrders, QuietHoldsOrders, RestartsHoldOrders
   DEF CopiesInv

\* OrdersInv is an invariant.
THEOREM OrdersInvariant == Spec => []OrdersInv
<1>1. Init => OrdersInv
  BY OrdersInit
<1>2. TypeOK /\ LedgerInv /\ CopiesInv /\ OrdersInv /\ [Next]_vars => OrdersInv'
  BY OrdersNext
<1>3. QED
  BY <1>1, <1>2, TypeCorrect, LedgerInvariant, CopiesInvariant, PTL DEF Spec

\* No `git merge` of an operator's approval runs, or has run on as an orphan, before the decision
\* to approve and merge is in the agent store (storeApprovalDecision before mergeBranch).
THEOREM ManualMergeIsAlwaysDecided == Spec => []ManualMergeIsDecided
<1>1. OrdersInv => ManualMergeIsDecided
  BY DEF OrdersInv, ApprovesMerge, ManualMergeIsDecided
<1>2. QED
  BY <1>1, OrdersInvariant, PTL

LEMMA MergedInit == Init => MergedInv
<1> SUFFICES ASSUME Init PROVE MergedInv
  OBVIOUS
<1>1. (\A r \in Req : landed[r] = "no") /\ \A s \in Slot : runs[s] = None
  BY DEF Init
<1>2. QED
  BY <1>1 DEF MergedInv

\* Stored approvals stay.
LEMMA StoredApprovalsStay ==
  ASSUME TypeOK, LedgerInv, MapsAgree, OrdersInv, [Next]_vars, NEW r \in Req,
         ApprovesMerge(disk.decs[r])
  PROVE  ApprovesMerge(disk'.decs[r])
<1>1. CASE Flush
  BY <1>1, FlushKeepsVerdicts DEF ApprovesMerge
<1>2. CASE Handler \/ Quiet \/ Crash \/ Start
  <2>1. disk' = disk
    BY <1>2, HandlersPut, QuietChangesNothing DEF stores, Crash, Start
  <2>2. QED
    BY <2>1
<1>3. QED
  BY <1>1, <1>2, StepKinds

LEMMA MergesAreNew ==
  ASSUME TypeOK, OrdersInv, MergedInv, AutoMode # "on", [Next]_vars,
         NEW r \in Req, landed'[r] = "merged"
  PROVE  landed[r] = "merged" \/ ApprovesMerge(disk.decs[r])
<1>1. CASE landed' = landed
  BY <1>1
<1>2. CASE landed' # landed
  <2>1. \/ \E s \in Slot : GitMergeSucceeds(s)
        \/ \E q \in Req, a \in ExecutorAction : ApproveWithoutBranch(q, a)
    <3>1. ~Requests
      BY <1>2 DEF Requests, Submit, SubmitDryRun, SubmitAutoApproved
    <3>2. Operators => \E q \in Req, a \in ExecutorAction : ApproveWithoutBranch(q, a)
      BY <1>2 DEF Operators, Approvals, ApproveSkipped, ApproveMerges, Reject, Undo, SelectProject
    <3>3. ~Callbacks
      BY <1>2 DEF Callbacks, FinishManual, FinishAuto, FinishUndo
    <3>4. ~(CooldownElapses \/ AgentSaves \/ Pulls \/ Acks \/ UNCHANGED vars)
      BY <1>2 DEF CooldownElapses, AgentSaves, Pulls, Poll, Acks, Ack, vars
    <3>5. Git => \E s \in Slot : GitMergeSucceeds(s)
      BY <1>2 DEF Git, GitResetSucceeds, GitFails
    <3>6. ~(Flush \/ Crash \/ Start)
      BY <1>2 DEF Flush, Crash, Dies, Start
    <3>7. QED
      BY <3>1, <3>2, <3>3, <3>4, <3>5, <3>6 DEF Next
  <2>2. CASE \E s \in Slot : GitMergeSucceeds(s)
    <3>1. PICK s \in Slot : GitMergeSucceeds(s)
      BY <2>2
    <3>2. /\ runs[s] # None /\ runs[s].kind # "undo" /\ runs[s].git = "running"
          /\ landed' = [landed EXCEPT ![runs[s].req] = "merged"]
      BY <3>1 DEF GitMergeSucceeds
    <3>3. runs[s] \in Run /\ runs[s].req \in Req
      BY <3>2, ChildHas
    <3>4. runs[s].kind = "manual"
      BY <3>2, <3>3 DEF MergedInv, Run, ManualRun, AutoRun, UndoRun
    <3>5. ApprovesMerge(disk.decs[runs[s].req])
      BY <3>2, <3>3, <3>4 DEF OrdersInv
    <3>6. r = runs[s].req \/ landed'[r] = landed[r]
      BY <3>2, <3>3 DEF TypeOK
    <3>7. QED
      BY <3>5, <3>6
  <2>3. CASE \E q \in Req, a \in ExecutorAction : ApproveWithoutBranch(q, a)
    BY <2>3 DEF ApproveWithoutBranch, TypeOK
  <2>4. QED
    BY <2>1, <2>2, <2>3
<1>3. QED
  BY <1>1, <1>2

LEMMA NoAutoChild ==
  ASSUME TypeOK, MergedInv, AutoMode # "on", [Next]_vars, NEW t \in Slot, runs'[t] # None
  PROVE  runs'[t].kind # "auto"
<1>1. runs[t] \in Run \cup {None} /\ "running" \in GitState /\ (runs[t] # None => runs[t].kind # "auto")
  BY DEF TypeOK, GitState, MergedInv
<1>2. CASE Requests
  <2>1. runs' = runs
    BY <1>2 DEF Requests, Submit, SubmitDryRun, SubmitAutoApproved
  <2>2. QED
    BY <1>1, <2>1
<1>3. CASE Operators
  <2>1. runs'[t] = runs[t] \/ runs'[t].kind \in {"manual", "undo"}
    <3>1. ASSUME NEW r \in Req, NEW b \in Branch, NEW a \in ExecutorAction, NEW s \in Slot,
                 ApproveMerges(r, b, a, s)
          PROVE  runs'[t] = runs[t] \/ runs'[t].kind \in {"manual", "undo"}
      <4>1. PICK d, w : runs' = [runs EXCEPT ![s] = GitChild("manual", r, b, d, w)]
        BY <3>1 DEF ApproveMerges
      <4>2. QED
        BY <4>1 DEF GitChild, TypeOK
    <3>2. ASSUME NEW s \in Slot, Undo(s)
          PROVE  runs'[t] = runs[t] \/ runs'[t].kind \in {"manual", "undo"}
      BY <3>2 DEF Undo, GitChild, TypeOK
    <3>3. ASSUME NEW r \in Req, NEW a \in ExecutorAction,
                 ApproveSkipped(r, a) \/ ApproveWithoutBranch(r, a) \/ Reject(r)
          PROVE  runs'[t] = runs[t]
      BY <3>3 DEF ApproveSkipped, ApproveWithoutBranch, Reject
    <3>4. ASSUME NEW p \in Project, SelectProject(p)
          PROVE  runs'[t] = runs[t]
      BY <3>4 DEF SelectProject
    <3>5. CASE Approvals
      BY <3>1, <3>3, <3>5 DEF Approvals
    <3>6. CASE \E r \in Req : Reject(r)
      <4>1. "none" \in ExecutorAction
        BY DEF ExecutorAction
      <4>2. QED
        BY <3>3, <3>6, <4>1
    <3>7. CASE \E s \in Slot : Undo(s)
      BY <3>2, <3>7
    <3>8. CASE \E p \in Project : SelectProject(p)
      BY <3>4, <3>8
    <3>9. QED
      BY <1>3, <3>5, <3>6, <3>7, <3>8 DEF Operators
  <2>2. QED
    BY <1>1, <2>1
<1>4. CASE Callbacks
  <2>1. runs'[t] \in {runs[t], None}
    BY <1>4 DEF Callbacks, FinishManual, FinishAuto, FinishUndo, TypeOK
  <2>2. QED
    BY <1>1, <2>1
<1>5. CASE Git
  <2>1. PICK s \in Slot : GitMergeSucceeds(s) \/ GitResetSucceeds(s) \/ GitFails(s)
    BY <1>5 DEF Git
  <2>2. PICK g \in GitState :
          runs' = [runs EXCEPT ![s] = Ended(runs[s], g)] /\ runs[s] # None
    BY <2>1 DEF GitMergeSucceeds, GitResetSucceeds, GitFails, GitState
  <2>3. runs'[t] \in {runs[t], Ended(runs[t], g)}
    BY <2>2 DEF TypeOK
  <2>4. QED
    BY <1>1, <2>2, <2>3, GitChanges, NoRunAssumption DEF Ended
<1>6. CASE Flush
  <2>1. runs'[t] \in {runs[t], Spawned(runs[t])}
    BY <1>6 DEF Flush
  <2>2. CASE runs'[t] # runs[t]
    <3>1. runs[t] \in Run /\ runs'[t] = [runs[t] EXCEPT !.git = "running"]
      BY <1>1, <2>1, <2>2 DEF Spawned
    <3>2. QED
      BY <1>1, <3>1, GitChanges, NoRunAssumption
  <2>3. QED
    BY <1>1, <2>2
<1>7. CASE Crash
  <2>1. runs'[t] = Orphaned(runs[t])
    BY <1>7 DEF Crash, Dies
  <2>2. QED
    BY <1>1, <2>1 DEF Orphaned, Run, ManualRun, AutoRun, UndoRun
<1>8. CASE CooldownElapses \/ AgentSaves \/ Pulls \/ Acks \/ Start \/ UNCHANGED vars
  <2>1. runs' = runs
    BY <1>8 DEF CooldownElapses, AgentSaves, Pulls, Poll, Acks, Ack, Start, vars
  <2>2. QED
    BY <1>1, <2>1
<1>9. QED
  BY <1>2, <1>3, <1>4, <1>5, <1>6, <1>7, <1>8 DEF Next

LEMMA MergedNext ==
  TypeOK /\ LedgerInv /\ CopiesInv /\ OrdersInv /\ MergedInv /\ [Next]_vars => MergedInv'
<1> SUFFICES ASSUME TypeOK, LedgerInv, CopiesInv, OrdersInv, MergedInv, [Next]_vars,
                    AutoMode # "on"
             PROVE  /\ \A s \in Slot : runs'[s] # None => runs'[s].kind # "auto"
                    /\ \A r \in Req : landed'[r] = "merged" => ApprovesMerge(disk'.decs[r])
  BY DEF MergedInv
<1>1. \A s \in Slot : runs'[s] # None => runs'[s].kind # "auto"
  BY NoAutoChild
<1>2. ASSUME NEW r \in Req, landed'[r] = "merged" PROVE ApprovesMerge(disk'.decs[r])
  <2>1. ApprovesMerge(disk.decs[r])
    BY <1>2, MergesAreNew DEF MergedInv
  <2>2. QED
    BY <2>1, StoredApprovalsStay DEF CopiesInv
<1>3. QED
  BY <1>1, <1>2

\* MergedInv is an invariant.
THEOREM MergedInvariant == Spec => []MergedInv
<1>1. Init => MergedInv
  BY MergedInit
<1>2. TypeOK /\ LedgerInv /\ CopiesInv /\ OrdersInv /\ MergedInv /\ [Next]_vars => MergedInv'
  BY MergedNext
<1>3. QED
  BY <1>1, <1>2, TypeCorrect, LedgerInvariant, CopiesInvariant, OrdersInvariant, PTL DEF Spec

\* Unless auto-approval is on, git never merges a request whose stored decision rejects it, whatever
\* the order of verdicts, merges that fail, crashes and restarts (storeApprovalDecision keeps the
\* first verdict, loadAgentStore brings it back).
THEOREM RejectedIsNeverMerged == Spec => []RejectedIsNotMerged
<1>1. MergedInv => RejectedIsNotMerged
  BY DEF MergedInv, ApprovesMerge, RejectedIsNotMerged
<1>2. QED
  BY <1>1, MergedInvariant, PTL
=============================================================================
