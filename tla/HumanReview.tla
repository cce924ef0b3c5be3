----------------------------- MODULE HumanReview -----------------------------
(***************************************************************************)
(* One ReviewCase: its staged tasks and the revisions they review, and the *)
(* delivery of its start and of its decision to the HumanReview workflow.  *)
(*                                                                         *)
(* A review action is one transaction that holds the rows of case, task    *)
(* and target.  The decision commits before Temporal hears of it; a row of *)
(* review_deliveries owes the call, and couriers (the routes and a loop)   *)
(* repeat it across time-outs and crashes, while operators with            *)
(* workflow.control command the same workflow.                             *)
(***************************************************************************)
EXTENDS Integers, Sequences, FiniteSets

CONSTANTS
    Users,
    Author,        \* created the target
    Qualified,     \* who has the role of a stage, by stage
    Policies,      \* the policies the case may be created under
    MaxRevisions,  \* bound: edits and restarts
    MaxTransfers,  \* bound: tasks that are assigned at once
    MaxFaults,     \* bound: calls that time out, and crashes
    Interventions, \* what operators may command
    MaxOps,        \* bound: commands of theirs that the workflow accepts, each once
    None

Stages == {"ENGINEERING", "EXPERT", "APPROVAL"}

\* validate_review_policy; editable: the target is a CLAIM_CANDIDATE
ValidPolicy(p) ==
    /\ p.stages # << >> /\ p.stages[1] = "ENGINEERING"
    /\ \A i, j \in DOMAIN p.stages : i # j => p.stages[i] # p.stages[j]
    /\ p.risk = "HIGH" => p.stages = <<"ENGINEERING", "EXPERT", "APPROVAL">>

ASSUME PolicyAssumption ==
    \A p \in Policies : /\ p \in [risk : {"LOW", "MEDIUM", "HIGH"}, stages : Seq(Stages),
                                  editable : BOOLEAN]
                        /\ ValidPolicy(p)
ASSUME UserAssumption ==
    /\ Author \in Users /\ Qualified \in [Stages -> SUBSET Users]
    /\ None \notin Users \cup {"OPEN", "WAITING_EVIDENCE", "APPROVED", "REJECTED", "CANCELLED"}
ASSUME BoundAssumption ==
    MaxRevisions \in Nat \ {0} /\ MaxTransfers \in Nat /\ MaxFaults \in Nat /\ MaxOps \in Nat

VARIABLES
    policy,
    status, stage,   \* review_cases: status and current_stage (0: NULL)
    tasks,           \* review_tasks, by sequence
    editors,         \* review_target_revisions: edited_by, by revision
    accepts,         \* review_actions that ACCEPT
    evidence,        \* the target's evidence satisfies the gate
    promoted,        \* the revisions that became claims, relations or approved pages
    start, decision, \* review_deliveries of the two kinds
    attempt, courier,
    faults,
    wf,              \* the HumanReview run
    updates,         \* outcome of each update id the run has seen
    ops              \* operators' commands that it accepted

caseVars     == <<policy, status, stage, tasks, editors, accepts, evidence, promoted>>
deliveryVars == <<start, decision, attempt, courier, faults>>
runVars      == <<wf, updates, ops>>
vars == <<caseVars, deliveryVars, runVars>>

-----------------------------------------------------------------------------
Open     == {"OPEN", "WAITING_EVIDENCE"}
Final    == {"APPROVED", "REJECTED"}
Tasks    == [status : {"PENDING", "WAITING_EVIDENCE", "REJECTED", "APPROVED"},
             claimed : Users \cup {None}, assignee : Users \cup {None}]
Accepts  == [rev : Nat, stage : Stages, by : Users]
Commands == {"PAUSE", "RESUME", "CANCEL", "CLAIM", "REQUEST_INPUT", "PROVIDE_INPUT",
             "APPROVE", "REJECT"}
Places   == {"none", "starting", "announce", "wait", "ending", "completed", "failed"}
Runs     == [at : Places, cancel : BOOLEAN, decision : Final \cup {None},
             result : Final \cup {"CANCELLED", None},
             status : {"CREATED", "RUNNING", "PAUSED", "WAITING", "WAITING_INPUT",
                       "CANCELLING", "REJECTED", "SUCCEEDED", "CANCELLED"}]

TypeOK ==
    /\ policy \in Policies
    /\ status \in Open \cup Final /\ stage \in 0..Len(policy.stages)
    /\ tasks \in [1..Len(policy.stages) -> Tasks]
    /\ editors \in Seq(Users \cup {None})
    /\ accepts \subseteq Accepts
    /\ evidence \in BOOLEAN /\ promoted \in Seq(Nat)
    /\ start \in {"pending", "delivered"} /\ decision \in {"none", "pending", "delivered"}
    /\ attempt \in Nat /\ courier \in {"idle", "ready"} /\ faults \in 0..MaxFaults
    /\ wf \in Runs
    /\ updates \subseteq [attempt : Nat, ok : BOOLEAN] /\ ops \subseteq Commands

NewTask == [status |-> "PENDING", claimed |-> None, assignee |-> None]

\* create_review_case
Init ==
    /\ policy \in Policies
    /\ status = "OPEN" /\ stage = 1
    /\ tasks = [i \in 1..Len(policy.stages) |-> NewTask]
    /\ editors = <<None>> /\ accepts = {}
    /\ evidence = TRUE /\ promoted = << >>
    /\ start = "pending" /\ decision = "none"
    /\ attempt = 0 /\ courier = "idle" /\ faults = 0
    /\ wf = [at |-> "none", cancel |-> FALSE, decision |-> None, result |-> None,
             status |-> "CREATED"]
    /\ updates = {} /\ ops = {}

-----------------------------------------------------------------------------
(* act_on_review and restart_review_case *)

Revision  == Len(editors)
StageName == policy.stages[stage]

\* The user may act on the task of the current stage.
MayAct(u) ==
    /\ stage # 0
    /\ u \in Qualified[StageName]
    /\ tasks[stage].assignee \in {None, u}
    /\ tasks[stage].claimed \in {None, u}

Acted(u, st) == [tasks EXCEPT ![stage].claimed = u, ![stage].status = st]

\* mutation: an edit gives the case back to the stage that made it
Rework_Here(u) ==
    /\ tasks' = [tasks EXCEPT ![stage].status = "PENDING", ![stage].claimed = None]
    /\ stage' = stage
Rework(u) ==
    /\ tasks' = [i \in DOMAIN tasks |->
                    [tasks[i] EXCEPT !.status = "PENDING", !.claimed = None]]
    /\ stage' = 1

Modify(u) ==
    /\ MayAct(u) /\ policy.editable /\ Revision < MaxRevisions
    /\ editors' = Append(editors, u)
    /\ Rework(u) /\ status' = "OPEN"
    /\ UNCHANGED <<policy, accepts, evidence, promoted, deliveryVars, runVars>>

RequestEvidence(u) ==
    /\ MayAct(u)
    /\ tasks' = Acted(u, "WAITING_EVIDENCE")
    /\ status' = "WAITING_EVIDENCE"
    /\ UNCHANGED <<policy, stage, editors, accepts, evidence, promoted, deliveryVars, runVars>>

Assigned == {i \in DOMAIN tasks : tasks[i].assignee # None}

Transfer(u, to) ==
    /\ MayAct(u) /\ Cardinality(Assigned \cup {stage}) <= MaxTransfers
    /\ tasks' = [tasks EXCEPT ![stage] = [NewTask EXCEPT !.assignee = to]]
    /\ UNCHANGED <<policy, status, stage, editors, accepts, evidence, promoted,
                   deliveryVars, runVars>>

\* The decision's delivery is inserted in the transaction that decides.
Decide(final) ==
    /\ status' = final /\ stage' = 0
    /\ decision' = IF decision = "none" THEN "pending" ELSE decision
    /\ UNCHANGED <<start, attempt, courier, faults>>

Refuse(u) ==
    /\ MayAct(u)
    /\ tasks' = Acted(u, "REJECTED")
    /\ Decide("REJECTED")
    /\ UNCHANGED <<policy, editors, accepts, evidence, promoted, runVars>>

Editors == {editors[i] : i \in DOMAIN editors} \ {None}
Accepters == {a.by : a \in {b \in accepts : b.stage # "APPROVAL"}}

\* mutation: who accepted an earlier revision may approve
Independent_Revision(u) ==
    policy.risk = "HIGH" =>
        u \notin {Author} \cup Editors
                   \cup {a.by : a \in {b \in accepts : b.rev = Revision /\ b.stage # "APPROVAL"}}
Independent(u) ==
    policy.risk = "HIGH" => u \notin {Author} \cup Editors \cup Accepters

Promote ==
    /\ evidence
    /\ promoted' = Append(promoted, Revision)
    /\ Decide("APPROVED")

IsLast == stage = Len(policy.stages)

Accept(u) ==
    /\ MayAct(u)
    /\ accepts' = accepts \cup {[rev |-> Revision, stage |-> StageName, by |-> u]}
    /\ tasks' = Acted(u, "APPROVED")
    /\ \/ StageName = "APPROVAL" /\ Independent(u) /\ Promote
       \/ StageName # "APPROVAL" /\ IsLast /\ Promote
       \/ /\ StageName # "APPROVAL" /\ ~IsLast
          /\ stage' = stage + 1 /\ status' = "OPEN"
          /\ UNCHANGED <<promoted, deliveryVars>>
    /\ UNCHANGED <<policy, editors, evidence, runVars>>

Restartable == status \in Open

\* Rebinds the case to the target's content; the delivered start stays.
Restart ==
    /\ Restartable /\ Revision < MaxRevisions
    /\ editors' = Append(editors, None)
    /\ tasks' = [i \in DOMAIN tasks |-> NewTask]
    /\ stage' = 1 /\ status' = "OPEN"
    /\ UNCHANGED <<policy, accepts, evidence, promoted, deliveryVars, runVars>>

\* A source is invalidated: its anchors are revoked.
LoseEvidence ==
    /\ evidence /\ evidence' = FALSE
    /\ UNCHANGED <<policy, status, stage, tasks, editors, accepts, promoted, deliveryVars,
                   runVars>>

-----------------------------------------------------------------------------
(* HumanReviewV2Workflow *)

Closed == wf.at \in {"completed", "failed"}

Started == [wf EXCEPT !.at = "starting", !.status = "RUNNING"]

\* Both steps of the plan have been projected: the run waits, whatever it was told.
Announce ==
    /\ wf.at = "starting"
    /\ wf' = [wf EXCEPT !.at = "announce", !.status = "WAITING"]
    /\ UNCHANGED <<caseVars, deliveryVars, updates, ops>>

ResultOf(d) == d

\* The wait's condition holds, at once or later, escalated or not.
Resume ==
    /\ wf.at \in {"announce", "wait"}
    /\ \/ /\ wf.at = "announce" /\ ~wf.cancel /\ wf.decision = None
          /\ wf' = [wf EXCEPT !.at = "wait"]
       \/ /\ wf.cancel
          /\ wf' = [wf EXCEPT !.at = "ending", !.status = "CANCELLED", !.result = "CANCELLED"]
       \/ /\ ~wf.cancel /\ wf.decision # None
          /\ wf' = [wf EXCEPT !.at = "ending", !.result = ResultOf(wf.decision),
                      !.status = IF @ = "REJECTED" THEN @ ELSE "SUCCEEDED"]
    /\ UNCHANGED <<caseVars, deliveryVars, updates, ops>>

Complete ==
    /\ wf.at = "ending"
    /\ wf' = [wf EXCEPT !.at = "completed"]
    /\ UNCHANGED <<caseVars, deliveryVars, updates, ops>>

\* A projection uses up its attempts, or the run its time.
RunFails ==
    /\ wf.at \notin {"none", "completed", "failed"} /\ faults < MaxFaults
    /\ faults' = faults + 1
    /\ wf' = [wf EXCEPT !.at = "failed", !.result = None]
    /\ UNCHANGED <<caseVars, start, decision, attempt, courier, updates, ops>>

Available(st) ==
    CASE st = "RUNNING"       -> {"PAUSE", "CANCEL"}
      [] st = "PAUSED"        -> {"RESUME", "CANCEL"}
      [] st = "WAITING_INPUT" -> {"PROVIDE_INPUT", "CANCEL"}
      [] st = "WAITING"       -> {"CLAIM", "REQUEST_INPUT", "APPROVE", "REJECT", "CANCEL"}
      [] OTHER -> {}

Accepted(action) == wf.at # "none" /\ ~Closed /\ action \in Available(wf.status)

Commanded(action) ==
    CASE action = "PAUSE"         -> [wf EXCEPT !.status = "PAUSED"]
      [] action = "RESUME"        -> [wf EXCEPT !.status = "RUNNING"]
      [] action = "CANCEL"        -> [wf EXCEPT !.status = "CANCELLING", !.cancel = TRUE]
      [] action = "REQUEST_INPUT" -> [wf EXCEPT !.status = "WAITING_INPUT"]
      [] action = "PROVIDE_INPUT" -> [wf EXCEPT !.status = "WAITING"]
      [] action = "APPROVE"       -> [wf EXCEPT !.status = "RUNNING", !.decision = "APPROVED"]
      [] action = "REJECT"        -> [wf EXCEPT !.status = "REJECTED", !.decision = "REJECTED"]
      [] OTHER -> wf

\* An operator's command through the workflow routes.
Operate(action) ==
    /\ action \in Interventions \ ops /\ Accepted(action)
    /\ Cardinality(ops) < MaxOps
    /\ wf' = Commanded(action)
    /\ ops' = ops \cup {action}
    /\ UNCHANGED <<caseVars, deliveryVars, updates>>

-----------------------------------------------------------------------------
(* ReviewDelivery.deliver.  Its transaction holds the delivery's row, so one *)
(* courier at a time has it; a crash gives it back.                          *)

Fault == faults < MaxFaults /\ faults' = faults + 1

\* gateway.start finds the run that exists; its answer may be lost.
DeliverStart ==
    /\ start = "pending" /\ courier = "idle"
    /\ wf' = IF wf.at = "none" THEN Started ELSE wf
    /\ \/ start' = "delivered" /\ UNCHANGED faults
       \/ Fault /\ UNCHANGED start
    /\ UNCHANGED <<caseVars, decision, attempt, courier, updates, ops>>

Action == IF status = "APPROVED" THEN "APPROVE" ELSE "REJECT"

\* The workflow has completed with the decision; mutation: nobody asks.
Confirmed_Never == FALSE
Confirmed == wf.at = "completed" /\ wf.result = status

Ready == wf.at \in {"announce", "wait"} /\ wf.status = "WAITING"

Inspect ==
    /\ decision = "pending" /\ courier = "idle"
    /\ \/ Confirmed /\ decision' = "delivered" /\ UNCHANGED courier
       \/ Ready /\ courier' = "ready" /\ UNCHANGED decision
    /\ UNCHANGED <<caseVars, start, attempt, faults, runVars>>

Known(a) == {u \in updates : u.attempt = a}

\* An update id that the run has seen has its first outcome.
Update(a) ==
    IF Closed \/ Known(a) # {} THEN UNCHANGED <<wf, updates>>
    ELSE /\ updates' = updates \cup {[attempt |-> a, ok |-> Accepted(Action)]}
         /\ wf' = IF Accepted(Action) THEN Commanded(Action) ELSE wf

UpdateOk(a) == \E u \in Known(a) : u.ok
UpdateAccepted(a) == ~Closed /\ (IF Known(a) = {} THEN Accepted(Action) ELSE UpdateOk(a))

\* mutation: a refused command counts as delivered
Outcome_Refused(a) == decision' = "delivered" /\ UNCHANGED <<attempt, faults>>

\* The answer comes; or it is refused; or the call times out; or all is lost.
Outcome(a) ==
    \/ /\ UpdateAccepted(a) \/ Confirmed
       /\ decision' = "delivered" /\ UNCHANGED <<attempt, faults>>
    \/ /\ ~UpdateAccepted(a) /\ ~Confirmed
       /\ attempt' = attempt + 1 /\ UNCHANGED <<decision, faults>>
    \/ Fault /\ attempt' = attempt + 1 /\ UNCHANGED decision
    \/ Fault /\ UNCHANGED <<attempt, decision>>

SendDecision ==
    /\ decision = "pending" /\ courier = "ready"
    /\ Update(attempt)
    /\ Outcome(attempt)
    /\ courier' = "idle"
    /\ UNCHANGED <<caseVars, start, ops>>

Next ==
    \/ \E u \in Users : Modify(u) \/ RequestEvidence(u) \/ Refuse(u) \/ Accept(u)
    \/ \E u, to \in Users : Transfer(u, to)
    \/ Restart \/ LoseEvidence
    \/ Announce \/ Resume \/ Complete \/ RunFails
    \/ \E action \in Commands : Operate(action)
    \/ DeliverStart \/ Inspect \/ SendDecision

Spec == Init /\ [][Next]_vars

\* The loop of ReviewDelivery.run comes round every two seconds, and Temporal
\* resumes a run that can go on.  Nobody has to review, and none has to operate.
FairSpec ==
    /\ Spec
    /\ WF_vars(DeliverStart) /\ WF_vars(Inspect) /\ WF_vars(SendDecision)
    /\ WF_vars(Announce) /\ WF_vars(Resume) /\ WF_vars(Complete)

-----------------------------------------------------------------------------
(* Properties *)

\* The stages that had to accept: those up to the one that approved.
Passed == {i \in DOMAIN policy.stages :
              \A j \in 1..(i - 1) : policy.stages[j] # "APPROVAL"}

\* What becomes knowledge is one revision, promoted once, and every stage up to the
\* approving one accepted that very revision, whatever was edited, restarted or
\* transferred meanwhile (_advance_review, _promote_target).
AcceptedAsPromoted ==
    /\ promoted # << >> <=> status = "APPROVED"
    /\ promoted # << >> =>
         /\ promoted = <<Revision>>
         /\ \A i \in Passed :
                /\ \E a \in accepts : a.rev = Revision /\ a.stage = policy.stages[i]
                /\ tasks[i].status = "APPROVED"

\* Nobody who made, edited or in any earlier round accepted a HIGH risk target takes
\* its final approval (validate_final_approval_separation).
IndependentFinalApproval ==
    policy.risk = "HIGH" =>
        \A a \in accepts : a.stage = "APPROVAL" =>
            /\ a.by # Author /\ a.by \notin Editors
            /\ \A b \in accepts : b.stage # "APPROVAL" => b.by # a.by

\* The workflow never ends with a decision the case has not committed, unless an
\* operator decided for it (ReviewDelivery.deliver).
ResultIsCommitted ==
    wf.result \in Final /\ ops \cap {"APPROVE", "REJECT"} = {} => status = wf.result

\* A delivery marked delivered has reached the run (the crash and retry paths of deliver).
DeliveredIsRecorded ==
    decision = "delivered" => status \in Final /\ wf.decision = status

\* The case, its delivery and its workflow tell of one decision.
ReviewRowsFit == TypeOK /\ ResultIsCommitted /\ DeliveredIsRecorded

\* Operators or failures can keep a decision from its workflow.
Prevented == \/ wf.at = "failed"
             \/ ops \cap {"CANCEL", "APPROVE", "REJECT", "REQUEST_INPUT"} # {}

\* Every committed decision reaches its workflow, which ends with it, after any
\* crashes, time-outs and lost answers, and whatever pauses operators ask for.
DecisionIsCarriedOut ==
    status \in Final ~>
        Prevented \/ (decision = "delivered" /\ wf.at = "completed" /\ wf.result = status)
=============================================================================
