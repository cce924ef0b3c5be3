--------------------------- MODULE GovernanceProofs ---------------------------
(***************************************************************************)
(* Theorems about the two processes that decide what comes into force:     *)
(* HumanReview, for any users, policies, revisions, faults and             *)
(* interventions, and then SchemaRegistry with PackRegistry, for any packs *)
(* with any dependencies, declarations, names and bounds.                  *)
(***************************************************************************)
EXTENDS HumanReview, SchemaRegistry, FiniteSetTheorems, TLAPS

-----------------------------------------------------------------------------
(* HumanReview *)

\* The case is decided exactly when no stage is current and a delivery is owed or made.
Decided ==
    /\ stage = 0 <=> status \in Final
    /\ decision = "none" <=> status \in Open

\* The stage has accepted the revision at hand.
Done(i) ==
    /\ tasks[i].status = "APPROVED"
    /\ \E a \in accepts : a.rev = Revision /\ a.stage = policy.stages[i]

\* While a case is open its earlier stages have accepted, none of them finally.
Progress ==
    /\ stage # 0 => /\ \A i \in 1..(stage - 1) : Done(i) /\ policy.stages[i] # "APPROVAL"
                    /\ \A a \in accepts : a.stage # "APPROVAL"
    /\ status # "APPROVED" => promoted = << >>

CaseInv == Decided /\ Progress /\ AcceptedAsPromoted /\ IndependentFinalApproval

\* A run that has a decision takes no other, and a result is the decision.
Heard ==
    /\ wf.decision # None \/ wf.at \in {"none", "starting"}
           => wf.status \notin {"WAITING", "WAITING_INPUT"}
    /\ wf.at \in {"none", "starting"} => wf.decision = None
    /\ wf.result \in Final => wf.result = wf.decision

\* The decision is the case's unless an operator's, and one that was acknowledged is.
Told ==
    /\ wf.decision # None /\ ops \cap {"APPROVE", "REJECT"} = {} => wf.decision = status
    /\ decision = "delivered" \/ (\E u \in updates : u.ok) => wf.decision = status

\* The inductive invariant
IInv == TypeOK /\ CaseInv /\ Heard /\ Told

-----------------------------------------------------------------------------
\* What a policy in force says
LEMMA PolicyFacts ==
    ASSUME policy \in Policies
    PROVE  /\ policy.stages \in Seq(Stages) /\ Len(policy.stages) \in Nat \ {0}
           /\ policy.risk \in {"LOW", "MEDIUM", "HIGH"}
  BY PolicyAssumption DEF ValidPolicy

LEMMA InvInit == Init => IInv
<1> SUFFICES ASSUME Init PROVE IInv
  OBVIOUS
<1>1. policy.stages \in Seq(Stages) /\ Len(policy.stages) \in Nat \ {0}
  BY PolicyFacts DEF Init
<1>2. TypeOK
  <2>1. tasks \in [1..Len(policy.stages) -> Tasks]
    BY DEF Init, NewTask, Tasks
  <2>2. editors \in Seq(Users \cup {None}) /\ promoted \in Seq(Nat) /\ stage \in 0..Len(policy.stages)
    BY <1>1 DEF Init
  <2>3. wf \in Runs /\ updates \subseteq [attempt : Nat, ok : BOOLEAN] /\ ops \subseteq Commands
    BY DEF Init, Runs, Places
  <2>4. attempt \in Nat /\ faults \in 0..MaxFaults
    BY BoundAssumption DEF Init
  <2>5. QED
    BY <2>1, <2>2, <2>3, <2>4 DEF Init, TypeOK, Open
<1>3. CaseInv
  BY UserAssumption DEF Init, CaseInv, Decided, Progress, AcceptedAsPromoted, IndependentFinalApproval,
         Open, Final
<1>4. Heard /\ Told
  BY UserAssumption DEF Init, Heard, Told, Final
<1>5. QED
  BY <1>2, <1>3, <1>4 DEF IInv

\* What leaves the case alone, and its decision where it is or on its way.
LEMMA SameCase ==
    ASSUME IInv, UNCHANGED caseVars, decision' = "none" <=> decision = "none"
    PROVE  CaseInv'
  BY DEF IInv, caseVars, CaseInv, Decided, Progress, Done, Revision, AcceptedAsPromoted, Passed,
         IndependentFinalApproval, Editors

\* What leaves the workflow alone while the case is open, or touches neither decision.
LEMMA SameRun ==
    ASSUME IInv, UNCHANGED runVars, decision' = "delivered" <=> decision = "delivered",
           status \in Open \/ status' = status
    PROVE  Heard' /\ Told'
<1>1. Heard'
  BY DEF IInv, Heard, runVars
<1>2. status \in Open => wf.decision # status
  BY UserAssumption DEF IInv, TypeOK, Runs, Open, Final
<1>3. Told'
  BY <1>2 DEF IInv, Told, runVars
<1>4. QED
  BY <1>1, <1>3

-----------------------------------------------------------------------------
(* What reviewers do *)

LEMMA Facts ==
    ASSUME IInv, stage # 0
    PROVE  /\ stage \in 1..Len(policy.stages) /\ StageName \in Stages /\ status \in Open
           /\ decision = "none" /\ promoted = << >>
           /\ \A a \in accepts : a.stage # "APPROVAL"
           /\ Revision \in Nat /\ tasks[stage] \in Tasks
           /\ policy \in Policies /\ policy.stages \in Seq(Stages) /\ Len(policy.stages) \in Nat \ {0}
<1>1. policy.stages \in Seq(Stages) /\ Len(policy.stages) \in Nat \ {0} /\ policy \in Policies
  BY PolicyFacts DEF IInv, TypeOK
<1>2. stage \in 1..Len(policy.stages) /\ tasks[stage] \in Tasks /\ Revision \in Nat
  BY <1>1 DEF IInv, TypeOK, Revision
<1>3. status \in Open /\ decision = "none"
  BY DEF IInv, TypeOK, CaseInv, Decided, Open, Final
<1>4. promoted = << >> /\ \A a \in accepts : a.stage # "APPROVAL"
  BY <1>3 DEF IInv, CaseInv, Progress, Open
<1>5. QED
  BY <1>1, <1>2, <1>3, <1>4 DEF StageName

\* Acting on a stage's task leaves a row of tasks.
LEMMA ActedTask ==
    ASSUME NEW u \in Users, NEW st \in {"WAITING_EVIDENCE", "REJECTED", "APPROVED"},
           IInv, stage # 0
    PROVE  Acted(u, st) \in [1..Len(policy.stages) -> Tasks]
<1> DEFINE e == [[tasks[stage] EXCEPT !.claimed = u] EXCEPT !.status = st]
<1>1. e \in Tasks
  BY Facts DEF Tasks
<1>2. Acted(u, st) = [tasks EXCEPT ![stage] = e]
  BY Facts DEF Acted, IInv, TypeOK
<1> HIDE DEF e
<1>3. QED
  BY <1>1, <1>2, Facts DEF IInv, TypeOK

\* The current stage's task changes, or all of them start over.
LEMMA ActStep ==
    ASSUME IInv,
           \/ \E u \in Users : RequestEvidence(u)
           \/ \E u, to \in Users : Transfer(u, to)
    PROVE  IInv'
<1>1. /\ stage # 0 /\ UNCHANGED <<policy, stage, editors, accepts, evidence, promoted>>
      /\ UNCHANGED <<start, decision, attempt, courier, faults>> /\ UNCHANGED runVars
      /\ status' \in {status, "WAITING_EVIDENCE"}
      /\ \A i \in DOMAIN tasks : i # stage => tasks'[i] = tasks[i]
  BY DEF RequestEvidence, Transfer, MayAct, Acted, deliveryVars, IInv, TypeOK
<1>2. tasks' \in [1..Len(policy.stages) -> Tasks]
  <2>1. tasks[stage] \in Tasks /\ stage \in 1..Len(policy.stages)
    BY <1>1, Facts
  <2>2. CASE \E u \in Users : RequestEvidence(u)
    BY <1>1, <2>2, ActedTask DEF RequestEvidence
  <2>3. CASE \E u, to \in Users : Transfer(u, to)
    BY <2>1, <2>3 DEF Transfer, NewTask, Tasks, IInv, TypeOK
  <2>4. QED
    BY <2>2, <2>3
<1>3. status \in Open /\ status' \in Open /\ decision = "none" /\ promoted = << >>
      /\ \A a \in accepts : a.stage # "APPROVAL"
  BY <1>1, Facts DEF Open
<1>4. TypeOK'
  BY <1>1, <1>2, <1>3 DEF IInv, TypeOK, runVars
<1>5. Decided'
  BY <1>1, <1>3 DEF Decided, Open, Final
<1>6. Progress'
  <2>1. \A i \in 1..(stage - 1) : i \in DOMAIN tasks /\ i # stage
    BY <1>1, Facts DEF IInv, TypeOK
  <2>2. \A i \in 1..(stage - 1) : Done(i)' /\ policy.stages[i] # "APPROVAL"
    BY <1>1, <2>1 DEF IInv, CaseInv, Progress, Done, Revision
  <2>3. QED
    BY <1>1, <1>3, <2>2 DEF Progress
<1>7. AcceptedAsPromoted' /\ IndependentFinalApproval'
  BY <1>1, <1>3 DEF AcceptedAsPromoted, IndependentFinalApproval, Open
<1>8. Heard' /\ Told'
  BY <1>1, <1>3, SameRun
<1>9. QED
  BY <1>4, <1>5, <1>6, <1>7, <1>8 DEF IInv, CaseInv

LEMMA ReworkStep ==
    ASSUME IInv, Restart \/ \E u \in Users : Modify(u)
    PROVE  IInv'
<1>1. stage # 0
  BY DEF Restart, Restartable, Modify, MayAct, IInv, CaseInv, Decided, Open, Final
<1>2. /\ stage' = 1 /\ status' = "OPEN" /\ UNCHANGED <<policy, accepts, evidence, promoted>>
      /\ UNCHANGED <<start, decision, attempt, courier, faults>> /\ UNCHANGED runVars
  BY DEF Restart, Modify, Rework, deliveryVars
<1>3. tasks' \in [1..Len(policy.stages) -> Tasks]
  <2>1. DOMAIN tasks = 1..Len(policy.stages) /\ \A i \in DOMAIN tasks : tasks[i] \in Tasks
    BY DEF IInv, TypeOK
  <2>2. \A i \in DOMAIN tasks :
            [[tasks[i] EXCEPT !.status = "PENDING"] EXCEPT !.claimed = None] \in Tasks
    BY <2>1 DEF Tasks
  <2>3. CASE Restart
    BY <2>1, <2>3 DEF Restart, NewTask, Tasks
  <2>4. CASE \E u \in Users : Modify(u)
    BY <2>1, <2>2, <2>4 DEF Modify, Rework
  <2>5. QED
    BY <2>3, <2>4
<1>4. editors' \in Seq(Users \cup {None})
  <2>1. editors \in Seq(Users \cup {None})
    BY DEF IInv, TypeOK
  <2>2. \E x \in Users \cup {None} : editors' = Append(editors, x)
    BY DEF Restart, Modify
  <2>3. QED
    BY <2>1, <2>2
<1>5. TypeOK'
  BY SMTT(30), <1>1, <1>2, <1>3, <1>4, Facts DEF IInv, TypeOK, Open, runVars
<1>6. CaseInv'
  BY <1>1, <1>2, Facts DEF CaseInv, Decided, Progress, AcceptedAsPromoted, IndependentFinalApproval,
                           Open, Final
<1>7. Heard' /\ Told'
  BY <1>1, <1>2, Facts, SameRun
<1>8. QED
  BY <1>5, <1>6, <1>7 DEF IInv

LEMMA RefuseStep == ASSUME IInv, NEW u \in Users, Refuse(u) PROVE IInv'
<1>1. stage # 0 /\ status' = "REJECTED" /\ stage' = 0
      /\ UNCHANGED <<policy, editors, accepts, evidence, promoted>>
      /\ UNCHANGED <<start, attempt, courier, faults>> /\ UNCHANGED runVars
  BY DEF Refuse, MayAct, Decide
<1>2. decision = "none" /\ decision' = "pending"
  BY <1>1, Facts DEF Refuse, Decide
<1>3. tasks' \in [1..Len(policy.stages) -> Tasks]
  BY <1>1, ActedTask DEF Refuse
<1>4. TypeOK'
  BY <1>1, <1>2, <1>3, Facts DEF IInv, TypeOK, Final, runVars
<1>5. CaseInv'
  BY <1>1, <1>2, Facts DEF CaseInv, Decided, Progress, AcceptedAsPromoted, IndependentFinalApproval,
                           Open, Final
<1>6. Heard' /\ Told'
  BY <1>1, <1>2, Facts, SameRun
<1>7. QED
  BY <1>4, <1>5, <1>6 DEF IInv

LEMMA AcceptStep == ASSUME IInv, NEW u \in Users, Accept(u) PROVE IInv'
<1> DEFINE now == [rev |-> Revision, stage |-> StageName, by |-> u]
           n == Len(policy.stages)
<1>1. /\ stage # 0 /\ accepts' = accepts \cup {now} /\ UNCHANGED <<policy, editors, evidence>>
      /\ UNCHANGED <<start, attempt, courier, faults>> /\ UNCHANGED runVars
      /\ tasks' = Acted(u, "APPROVED")
  BY DEF Accept, MayAct, Promote, Decide, deliveryVars
<1>2. /\ stage \in 1..n /\ StageName \in Stages /\ status \in Open /\ decision = "none"
      /\ promoted = << >> /\ (\A a \in accepts : a.stage # "APPROVAL")
      /\ Revision \in Nat /\ tasks[stage] \in Tasks /\ n \in Nat \ {0}
  BY <1>1, Facts
<1>3. /\ tasks' \in [1..n -> Tasks] /\ tasks'[stage].status = "APPROVED"
      /\ \A i \in 1..n : i # stage => tasks'[i] = tasks[i]
  BY <1>1, <1>2 DEF Acted, Tasks, IInv, TypeOK
<1>4. /\ now \in Accepts /\ now.rev = Revision /\ now.stage = StageName /\ now.by = u
      /\ Revision' = Revision
  BY <1>1, <1>2 DEF Accepts, Revision
<1> HIDE DEF now
<1>5. \A i \in 1..stage : Done(i)'
  <2>1. \A i \in 1..(stage - 1) : i \in 1..n /\ i # stage /\ Done(i)
    BY <1>1, <1>2 DEF IInv, CaseInv, Progress
  <2>2. \A i : i = stage => Done(i)'
    BY <1>1, <1>3, <1>4 DEF Done, StageName
  <2>3. \A i \in 1..(stage - 1) : Done(i)'
    BY <1>1, <1>3, <1>4, <2>1 DEF Done
  <2>4. \A i \in 1..stage : i = stage \/ i \in 1..(stage - 1)
    BY <1>2
  <2>5. QED
    BY <2>2, <2>3, <2>4
<1>6. CASE StageName # "APPROVAL" /\ ~IsLast
  <2>1. stage' = stage + 1 /\ status' = "OPEN" /\ promoted' = promoted /\ decision' = decision
    BY <1>6 DEF Accept, deliveryVars
  <2>2. stage' \in 1..n /\ stage' # 0
    BY <1>2, <1>6, <2>1 DEF IsLast
  <2>3. TypeOK'
    BY <1>1, <1>2, <1>3, <1>4, <2>1, <2>2 DEF IInv, TypeOK, Open, runVars
  <2>4. \A i \in 1..(stage' - 1) : Done(i)' /\ policy.stages[i] # "APPROVAL"
    <3>1. \A i \in 1..(stage' - 1) : i \in 1..stage
      BY <1>2, <2>1
    <3>2. \A i \in 1..stage : i = stage \/ i \in 1..(stage - 1)
      BY <1>2
    <3>3. QED
      BY <1>1, <1>5, <1>6, <3>1, <3>2 DEF IInv, CaseInv, Progress, StageName
  <2>5. \A a \in accepts' : a.stage # "APPROVAL"
    BY <1>1, <1>2, <1>4, <1>6
  <2>6. CaseInv'
    BY <1>1, <1>2, <2>1, <2>2, <2>4, <2>5 DEF CaseInv, Decided, Progress, AcceptedAsPromoted,
                                         IndependentFinalApproval, Open, Final
  <2>7. Heard' /\ Told'
    BY <1>1, <1>2, <2>1, SameRun
  <2>8. QED
    BY <2>3, <2>6, <2>7 DEF IInv
<1>7. CASE Promote /\ (StageName = "APPROVAL" => Independent(u)) /\ (StageName = "APPROVAL" \/ IsLast)
  <2>1. /\ promoted' = <<Revision>> /\ status' = "APPROVED" /\ stage' = 0
        /\ decision' = "pending"
    BY <1>2, <1>7 DEF Promote, Decide
  <2>2. TypeOK'
    BY <1>1, <1>2, <1>3, <1>4, <2>1 DEF IInv, TypeOK, Final, runVars
  <2>3. Decided' /\ Progress'
    BY <2>1 DEF Decided, Progress, Open, Final
  <2>4. AcceptedAsPromoted'
    <3>1. \A i \in Passed : i \in 1..stage
      <4> SUFFICES ASSUME NEW i \in Passed, ~(i <= stage) PROVE FALSE
        BY PolicyFacts DEF Passed, IInv, TypeOK
      <4>1. i \in 1..n /\ \A j \in 1..(i - 1) : policy.stages[j] # "APPROVAL"
        BY PolicyFacts DEF Passed, IInv, TypeOK
      <4>2. stage \in 1..(i - 1) /\ ~IsLast
        BY <1>2, <4>1 DEF IsLast
      <4>3. QED
        BY <1>7, <4>1, <4>2 DEF StageName
    <3>2. Passed' = Passed
      BY <1>1 DEF Passed
    <3>3. promoted' # << >> /\ promoted' = <<Revision'>>
      BY <1>4, <2>1
    <3>4. \A i \in Passed' : /\ \E a \in accepts' : a.rev = Revision' /\ a.stage = policy'.stages[i]
                             /\ tasks'[i].status = "APPROVED"
      BY <1>5, <3>1, <3>2 DEF Done
    <3>5. QED
      BY <2>1, <3>3, <3>4 DEF AcceptedAsPromoted
  <2>5. IndependentFinalApproval'
    <3> SUFFICES ASSUME policy.risk = "HIGH", NEW a \in accepts', a.stage = "APPROVAL"
                 PROVE  /\ a.by # Author /\ a.by \notin Editors
                        /\ \A b \in accepts' : b.stage # "APPROVAL" => b.by # a.by
      BY <1>1 DEF IndependentFinalApproval, Editors
    <3>1. a = now /\ StageName = "APPROVAL" /\ a.by = u
      BY <1>1, <1>2, <1>4
    <3>2. u # Author /\ u \notin Editors /\ u \notin Accepters
      BY <1>7, <3>1 DEF Independent
    <3>3. \A b \in accepts' : b.stage # "APPROVAL" => b \in accepts
      BY <1>1, <1>4, <3>1
    <3>4. QED
      BY <3>1, <3>2, <3>3 DEF Accepters
  <2>6. Heard' /\ Told'
    BY <1>1, <1>2, <2>1, SameRun
  <2>7. QED
    BY <2>2, <2>3, <2>4, <2>5, <2>6 DEF IInv, CaseInv
<1>8. QED
  BY <1>6, <1>7 DEF Accept

-----------------------------------------------------------------------------
(* What the workflow does *)

LEMMA RunStep ==
    ASSUME IInv, Announce \/ Resume \/ Complete \/ RunFails
    PROVE  IInv'
<1>1. UNCHANGED caseVars /\ UNCHANGED <<start, decision, attempt, courier, updates, ops>>
  BY DEF Announce, Resume, Complete, RunFails, deliveryVars
<1>2. faults' \in 0..MaxFaults
  BY BoundAssumption DEF Announce, Resume, Complete, RunFails, deliveryVars, IInv, TypeOK
<1>3. wf \in Runs
  BY DEF IInv, TypeOK
<1>4. /\ wf' \in Runs /\ wf'.decision = wf.decision
      /\ wf'.at \notin {"none", "starting"}
      /\ wf'.status \in {"WAITING", "WAITING_INPUT"} =>
             wf'.status = wf.status \/ (wf.at = "starting" /\ wf'.status = "WAITING")
      /\ wf'.result \in Final => wf'.result = wf.decision
  <2>1. CASE Announce
    BY <1>3, <2>1 DEF Announce, Runs, Places, IInv, Heard, Final
  <2>2. CASE Resume
    <3>1. /\ wf.decision \in Final \cup {None} /\ (wf.result \in Final => wf.result = wf.decision)
          /\ wf.at \in {"announce", "wait"}
      BY <1>3, <2>2 DEF Resume, Runs, IInv, Heard
    <3>2. CASE wf' = [wf EXCEPT !.at = "wait"]
      BY <1>3, <3>1, <3>2 DEF Runs, Places
    <3>3. CASE wf' = [wf EXCEPT !.at = "ending", !.status = "CANCELLED", !.result = "CANCELLED"]
      BY <1>3, <3>3 DEF Runs, Places, Final
    <3>4. CASE /\ wf.decision # None
               /\ wf' = [wf EXCEPT !.at = "ending", !.result = wf.decision,
                                   !.status = IF @ = "REJECTED" THEN @ ELSE "SUCCEEDED"]
      BY <1>3, <3>1, <3>4 DEF Runs, Places
    <3>5. QED
      BY <2>2, <3>2, <3>3, <3>4 DEF Resume, ResultOf
  <2>3. CASE Complete
    BY <1>3, <2>3 DEF Complete, Runs, Places, IInv, Heard, Final
  <2>4. CASE RunFails
    BY <1>3, <2>4, UserAssumption DEF RunFails, Runs, Places, IInv, Heard, Final
  <2>5. QED
    BY <2>1, <2>2, <2>3, <2>4
<1>5. TypeOK'
  BY <1>1, <1>2, <1>4 DEF IInv, TypeOK, caseVars
<1>6. CaseInv'
  BY <1>1, SameCase
<1>7. Heard'
  BY <1>4 DEF IInv, Heard
<1>8. Told'
  BY <1>1, <1>4 DEF IInv, Told, caseVars
<1>9. QED
  BY <1>5, <1>6, <1>7, <1>8 DEF IInv

\* A command that is accepted, an operator's or the case's.
LEMMA CommandFacts ==
    ASSUME IInv, NEW c \in Commands, Accepted(c)
    PROVE  /\ wf \in Runs /\ Commanded(c) \in Runs /\ wf.at \notin {"none", "completed", "failed"}
           /\ Commanded(c).at = wf.at /\ Commanded(c).result = wf.result
           /\ Commanded(c).decision =
                  IF c = "APPROVE" THEN "APPROVED"
                  ELSE IF c = "REJECT" THEN "REJECTED" ELSE wf.decision
           /\ c \in {"APPROVE", "REJECT"} => wf.status = "WAITING" /\ wf.decision = None
           /\ Commanded(c).status \in {"WAITING", "WAITING_INPUT"} =>
                  /\ wf.status \in {"WAITING", "WAITING_INPUT"}
                  /\ c \notin {"APPROVE", "REJECT"}
<1>1. wf \in Runs
  BY DEF IInv, TypeOK
<1>2. wf.at \notin {"none", "completed", "failed"} /\ c \in Available(wf.status)
  BY DEF Accepted, Closed
<1>3. c \in {"APPROVE", "REJECT"} => wf.status = "WAITING" /\ wf.decision = None
  BY <1>2 DEF Available, IInv, Heard
<1>4. CASE c = "PAUSE"
  <2>1. Commanded(c) = [wf EXCEPT !.status = "PAUSED"]
    BY <1>2, <1>4 DEF Commanded, Available
  <2>2. QED
    BY <1>1, <1>2, <1>3, <1>4, <2>1 DEF Runs, Final
<1>5. CASE c = "RESUME"
  <2>1. Commanded(c) = [wf EXCEPT !.status = "RUNNING"]
    BY <1>2, <1>5 DEF Commanded, Available
  <2>2. QED
    BY <1>1, <1>2, <1>3, <1>5, <2>1 DEF Runs, Final
<1>6. CASE c = "CANCEL"
  <2>1. Commanded(c) = [wf EXCEPT !.status = "CANCELLING", !.cancel = TRUE]
    BY <1>2, <1>6 DEF Commanded, Available
  <2>2. QED
    BY <1>1, <1>2, <1>3, <1>6, <2>1 DEF Runs, Final
<1>7. CASE c = "REQUEST_INPUT"
  <2>1. Commanded(c) = [wf EXCEPT !.status = "WAITING_INPUT"] /\ wf.status = "WAITING"
    BY <1>2, <1>7 DEF Commanded, Available
  <2>2. QED
    BY <1>1, <1>2, <1>3, <1>7, <2>1 DEF Runs, Final
<1>8. CASE c = "PROVIDE_INPUT"
  <2>1. Commanded(c) = [wf EXCEPT !.status = "WAITING"] /\ wf.status = "WAITING_INPUT"
    BY <1>2, <1>8 DEF Commanded, Available
  <2>2. QED
    BY <1>1, <1>2, <1>3, <1>8, <2>1 DEF Runs, Final
<1>9. CASE c = "APPROVE"
  <2>1. Commanded(c) = [wf EXCEPT !.status = "RUNNING", !.decision = "APPROVED"]
    BY <1>2, <1>9 DEF Commanded, Available
  <2>2. QED
    BY <1>1, <1>2, <1>3, <1>9, <2>1 DEF Runs, Final
<1>10. CASE c = "REJECT"
  <2>1. Commanded(c) = [wf EXCEPT !.status = "REJECTED", !.decision = "REJECTED"]
    BY <1>2, <1>10 DEF Commanded, Available
  <2>2. QED
    BY <1>1, <1>2, <1>3, <1>10, <2>1 DEF Runs, Final
<1>11. CASE c = "CLAIM"
  <2>1. Commanded(c) = wf
    BY <1>2, <1>11 DEF Commanded, Available
  <2>2. QED
    BY <1>1, <1>2, <1>3, <1>11, <2>1 DEF Runs, Final
<1>12. QED
  BY <1>4, <1>5, <1>6, <1>7, <1>8, <1>9, <1>10, <1>11 DEF Commands

LEMMA OperateStep ==
    ASSUME IInv, NEW c \in Commands, Operate(c)
    PROVE  IInv'
<1>1. /\ Accepted(c) /\ wf' = Commanded(c) /\ ops' = ops \cup {c}
      /\ UNCHANGED caseVars /\ UNCHANGED updates
      /\ UNCHANGED <<start, decision, attempt, courier, faults>>
  BY DEF Operate, deliveryVars
<1>2. TypeOK'
  BY <1>1, CommandFacts DEF IInv, TypeOK, caseVars
<1>3. CaseInv'
  BY <1>1, SameCase
<1>4. Heard'
  BY <1>1, CommandFacts, UserAssumption DEF IInv, Heard, Final
<1>5. Told'
  <2>1. c \in {"APPROVE", "REJECT"} =>
            decision # "delivered" /\ ~ \E v \in updates : v.ok
    <3>1. wf.decision = None => wf.decision # status
      BY UserAssumption DEF IInv, TypeOK, Open, Final
    <3>2. QED
      BY <1>1, <3>1, CommandFacts DEF IInv, Told
  <2>2. c \notin {"APPROVE", "REJECT"} => wf'.decision = wf.decision
    BY <1>1, CommandFacts
  <2>3. UNCHANGED <<status, decision, updates>>
    BY <1>1 DEF caseVars
  <2>4. CASE c \in {"APPROVE", "REJECT"}
    BY <1>1, <2>1, <2>3, <2>4 DEF Told
  <2>5. CASE c \notin {"APPROVE", "REJECT"}
    BY <1>1, <2>2, <2>3, <2>5 DEF IInv, Told
  <2>6. QED
    BY <2>4, <2>5
<1>6. QED
  BY <1>2, <1>3, <1>4, <1>5 DEF IInv

-----------------------------------------------------------------------------
(* What couriers do *)

LEMMA StartStep == ASSUME IInv, DeliverStart PROVE IInv'
<1>1. /\ UNCHANGED caseVars /\ UNCHANGED <<decision, attempt, courier, updates, ops>>
      /\ wf' = IF wf.at = "none" THEN Started ELSE wf
      /\ start' \in {"pending", "delivered"}
  BY DEF DeliverStart, IInv, TypeOK
<1>2. faults' \in 0..MaxFaults
  BY BoundAssumption DEF DeliverStart, Fault, IInv, TypeOK
<1>3. wf \in Runs
  BY DEF IInv, TypeOK
<1>4. wf' \in Runs /\ wf'.decision = wf.decision /\ wf'.result = wf.result
  BY <1>1, <1>3 DEF Started, Runs, Places
<1>5. TypeOK'
  BY <1>1, <1>2, <1>4 DEF IInv, TypeOK, caseVars
<1>6. CaseInv'
  BY <1>1, SameCase
<1>7. Heard'
  <2>1. CASE wf.at = "none"
    <3>1. wf' = Started /\ wf'.status = "RUNNING" /\ wf'.at = "starting"
      BY <1>1, <1>3, <2>1 DEF Started, Runs
    <3>2. QED
      BY <1>4, <2>1, <3>1 DEF IInv, Heard
  <2>2. CASE wf.at # "none"
    BY <1>1, <2>2 DEF IInv, Heard
  <2>3. QED
    BY <2>1, <2>2
<1>8. Told'
  BY <1>1, <1>4 DEF IInv, Told, caseVars
<1>9. QED
  BY <1>5, <1>6, <1>7, <1>8 DEF IInv

\* A run that has completed with the case's decision had been given it.
LEMMA ConfirmedFacts ==
    ASSUME IInv, Confirmed, decision # "none"
    PROVE  wf.decision = status
  BY DEF IInv, TypeOK, CaseInv, Decided, Heard, Confirmed, Open, Final

LEMMA InspectStep == ASSUME IInv, Inspect PROVE IInv'
<1>1. /\ UNCHANGED caseVars /\ UNCHANGED <<start, attempt, faults>> /\ UNCHANGED runVars
      /\ decision = "pending" /\ decision' \in {"pending", "delivered"}
      /\ decision' = "delivered" => Confirmed
      /\ courier' \in {"idle", "ready"}
  BY DEF Inspect
<1>2. TypeOK'
  BY <1>1 DEF IInv, TypeOK, caseVars, runVars
<1>3. CaseInv'
  BY <1>1, SameCase
<1>4. Heard'
  BY <1>1 DEF IInv, Heard, runVars
<1>5. Told'
  BY <1>1, ConfirmedFacts DEF IInv, Told, caseVars, runVars
<1>6. QED
  BY <1>2, <1>3, <1>4, <1>5 DEF IInv

LEMMA DecisionStep == ASSUME IInv, SendDecision PROVE IInv'
<1>1. /\ UNCHANGED caseVars /\ UNCHANGED <<start, ops>> /\ Update(attempt) /\ Outcome(attempt)
      /\ decision = "pending" /\ courier' = "idle"
  BY DEF SendDecision
<1>2. /\ status \in Final /\ Action \in {"APPROVE", "REJECT"} /\ Action \in Commands
      /\ status = IF Action = "APPROVE" THEN "APPROVED" ELSE "REJECTED"
  BY <1>1 DEF IInv, TypeOK, CaseInv, Decided, Open, Final, Action, Commands
<1>3. /\ decision' \in {"pending", "delivered"} /\ attempt' \in Nat /\ faults' \in 0..MaxFaults
      /\ decision' = "delivered" => UpdateAccepted(attempt) \/ Confirmed
  BY <1>1, BoundAssumption DEF Outcome, Fault, IInv, TypeOK
<1>4. attempt \in Nat /\ wf \in Runs /\ updates \subseteq [attempt : Nat, ok : BOOLEAN]
  BY DEF IInv, TypeOK
<1>5. CASE Closed \/ Known(attempt) # {}
  <2>1. UNCHANGED <<wf, updates>>
    BY <1>1, <1>5 DEF Update
  <2>2. TypeOK'
    BY <1>1, <1>3, <2>1 DEF IInv, TypeOK, caseVars
  <2>3. CaseInv'
    BY <1>1, <1>3, SameCase
  <2>4. Heard'
    BY <2>1 DEF IInv, Heard
  <2>5. decision' = "delivered" => wf.decision = status
    <3>1. UpdateAccepted(attempt) => \E v \in updates : v.ok
      BY <1>5 DEF UpdateAccepted, UpdateOk, Known
    <3>2. QED
      BY <1>1, <1>3, <3>1, ConfirmedFacts DEF IInv, Told
  <2>6. Told'
    BY <1>1, <2>1, <2>5 DEF IInv, Told, caseVars
  <2>7. QED
    BY <2>2, <2>3, <2>4, <2>6 DEF IInv
<1>6. CASE ~Closed /\ Known(attempt) = {} /\ Accepted(Action)
  <2>1. updates' = updates \cup {[attempt |-> attempt, ok |-> Accepted(Action)]} /\ wf' = Commanded(Action)
    BY <1>1, <1>6 DEF Update
  <2>2. updates' \subseteq [attempt : Nat, ok : BOOLEAN]
    <3>1. Accepted(Action) \in BOOLEAN
      BY DEF Accepted
    <3>2. QED
      BY <1>4, <2>1, <3>1
  <2>3. /\ wf' \in Runs /\ wf'.at = wf.at /\ wf.at # "none" /\ wf'.result = wf.result
        /\ wf'.decision = status /\ wf'.status \notin {"WAITING", "WAITING_INPUT"}
        /\ wf.decision = None /\ wf.status = "WAITING"
    BY <1>2, <1>6, <2>1, CommandFacts
  <2>4. TypeOK'
    BY <1>1, <1>3, <2>2, <2>3 DEF IInv, TypeOK, caseVars
  <2>5. CaseInv'
    BY <1>1, <1>3, SameCase
  <2>6. Heard'
    BY <2>3, UserAssumption DEF IInv, Heard, Final
  <2>7. Told'
    BY <1>1, <2>3 DEF Told, caseVars
  <2>8. QED
    BY <2>4, <2>5, <2>6, <2>7 DEF IInv
<1>7. CASE ~Closed /\ Known(attempt) = {} /\ ~Accepted(Action)
  <2> DEFINE v == [attempt |-> attempt, ok |-> FALSE]
  <2>1. updates' = updates \cup {v} /\ UNCHANGED wf
    <3>1. Accepted(Action) = FALSE
      BY <1>7 DEF Accepted
    <3>2. QED
      BY <1>1, <1>7, <3>1 DEF Update
  <2>2. v \in [attempt : Nat, ok : BOOLEAN] /\ ~v.ok
    BY <1>4
  <2>3. ~UpdateAccepted(attempt)
    BY <1>7 DEF UpdateAccepted
  <2> HIDE DEF v
  <2>4. TypeOK'
    BY <1>1, <1>3, <2>1, <2>2 DEF IInv, TypeOK, caseVars
  <2>5. CaseInv'
    BY <1>1, <1>3, SameCase
  <2>6. Heard'
    BY <2>1 DEF IInv, Heard
  <2>7. decision' = "delivered" => wf.decision = status
    BY <1>1, <1>3, <2>3, ConfirmedFacts
  <2>8. Told'
    BY <1>1, <2>1, <2>2, <2>7 DEF IInv, Told, caseVars
  <2>9. QED
    BY <2>4, <2>5, <2>6, <2>8 DEF IInv
<1>8. QED
  BY <1>5, <1>6, <1>7

LEMMA EvidenceStep == ASSUME IInv, LoseEvidence PROVE IInv'
<1>1. /\ evidence' = FALSE /\ UNCHANGED <<policy, status, stage, tasks, editors, accepts, promoted>>
      /\ UNCHANGED <<start, decision, attempt, courier, faults>> /\ UNCHANGED runVars
  BY DEF LoseEvidence, deliveryVars
<1>2. TypeOK'
  BY <1>1 DEF IInv, TypeOK, runVars
<1>3. CaseInv'
  BY <1>1 DEF IInv, CaseInv, Decided, Progress, Done, Revision, AcceptedAsPromoted, Passed,
              IndependentFinalApproval, Editors
<1>4. Heard' /\ Told'
  BY <1>1, SameRun
<1>5. QED
  BY <1>2, <1>3, <1>4 DEF IInv

LEMMA StutterStep == ASSUME IInv, UNCHANGED vars PROVE IInv'
<1>1. UNCHANGED caseVars /\ UNCHANGED deliveryVars /\ UNCHANGED runVars
  BY DEF vars
<1>2. TypeOK'
  BY <1>1 DEF IInv, TypeOK, caseVars, deliveryVars, runVars
<1>3. CaseInv' /\ Heard' /\ Told'
  BY <1>1, SameCase, SameRun DEF caseVars, deliveryVars
<1>4. QED
  BY <1>2, <1>3 DEF IInv

-----------------------------------------------------------------------------
LEMMA InvNext == IInv /\ [Next]_vars => IInv'
<1> SUFFICES ASSUME IInv, [Next]_vars PROVE IInv'
  OBVIOUS
<1>1. ASSUME NEW u \in Users, RequestEvidence(u) PROVE IInv'
  BY <1>1, ActStep
<1>2. ASSUME NEW u \in Users, NEW to \in Users, Transfer(u, to) PROVE IInv'
  BY <1>2, ActStep
<1>3. ASSUME NEW u \in Users, Modify(u) PROVE IInv'
  BY <1>3, ReworkStep
<1>4. CASE Restart
  BY <1>4, ReworkStep
<1>5. ASSUME NEW u \in Users, Refuse(u) PROVE IInv'
  BY <1>5, RefuseStep
<1>6. ASSUME NEW u \in Users, Accept(u) PROVE IInv'
  BY <1>6, AcceptStep
<1>7. CASE LoseEvidence
  BY <1>7, EvidenceStep
<1>8. CASE Announce \/ Resume \/ Complete \/ RunFails
  BY <1>8, RunStep
<1>9. ASSUME NEW c \in Commands, Operate(c) PROVE IInv'
  BY <1>9, OperateStep
<1>10. CASE DeliverStart
  BY <1>10, StartStep
<1>11. CASE Inspect
  BY <1>11, InspectStep
<1>12. CASE SendDecision
  BY <1>12, DecisionStep
<1>13. CASE UNCHANGED vars
  BY <1>13, StutterStep
<1>14. QED
  BY <1>1, <1>2, <1>3, <1>4, <1>5, <1>6, <1>7, <1>8, <1>9, <1>10, <1>11, <1>12, <1>13 DEF Next

LEMMA Invariance == Spec => []IInv
  BY InvInit, InvNext, PTL DEF Spec

\* In every reachable state the rows have their types, the run's result is one the case
\* has committed or an operator imposed, and what was acknowledged has arrived.
THEOREM RowsFit == Spec => []ReviewRowsFit
<1>1. IInv => ReviewRowsFit
  <2> SUFFICES ASSUME IInv PROVE ReviewRowsFit
    OBVIOUS
  <2>1. ResultIsCommitted
    BY UserAssumption DEF IInv, Heard, Told, ResultIsCommitted, Final
  <2>2. DeliveredIsRecorded
    BY DEF IInv, TypeOK, CaseInv, Decided, Told, DeliveredIsRecorded, Open, Final
  <2>3. QED
    BY <2>1, <2>2 DEF IInv, ReviewRowsFit
<1>2. QED
  BY <1>1, Invariance, PTL

\* However a case is edited, restarted and transferred, what becomes knowledge is the
\* one revision that every required stage accepted (_advance_review, _promote_target).
THEOREM Promotion == Spec => []AcceptedAsPromoted
<1>1. IInv => AcceptedAsPromoted
  BY DEF IInv, CaseInv
<1>2. QED
  BY <1>1, Invariance, PTL

\* Under any policy and assignment of roles, no author, editor or earlier accepter of a
\* HIGH risk target gives its final approval (validate_final_approval_separation).
THEOREM Separation == Spec => []IndependentFinalApproval
<1>1. IInv => IndependentFinalApproval
  BY DEF IInv, CaseInv
<1>2. QED
  BY <1>1, Invariance, PTL


-----------------------------------------------------------------------------
(* SchemaRegistry: natural numbers first *)

\* A set of natural numbers that is not empty has a least element ...
LEMMA Least ==
  ASSUME NEW T \in SUBSET Nat, T # {}
  PROVE  \E x \in T : \A y \in T : x <= y
<1>1. PICK x \in T : \A y \in T : ~ (<<y, x>> \in OpToRel(<, Nat))
  BY NatLessThanWellFounded, WFMin, Zenon
<1>2. \A y \in T : ~ (y < x)
  BY <1>1 DEF OpToRel
<1>3. x \in Nat /\ \A y \in T : y \in Nat
  OBVIOUS
<1>4. \A y \in T : x <= y
  BY <1>2, <1>3
<1>5. QED
  BY <1>4

\* ... so one that has 0 and the successor of each of its elements has them all.
LEMMA Induction ==
  ASSUME NEW T \in SUBSET Nat, 0 \in T, \A n \in T : n + 1 \in T
  PROVE  T = Nat
<1>1. ASSUME Nat \ T # {} PROVE FALSE
  <2>1. PICK x \in Nat \ T : \A y \in Nat \ T : x <= y
    BY <1>1, Least
  <2>2. x - 1 \in Nat
    BY <2>1
  <2>3. x - 1 \in T
    BY <2>1, <2>2
  <2>4. QED
    BY <2>1, <2>3
<1>2. QED
  BY <1>1

-----------------------------------------------------------------------------
(* The resolution of a set of packs *)

Demands ==
    {d \in [pack : Packs, choice : SUBSET PackVersions, range : SUBSET PackVersions,
            above : SUBSET Packs] : d.choice \subseteq d.range /\ d.choice \subseteq VersionsOf(d.pack)}

\* Of what is resolved, each dependency is satisfied or demanded.
Sound(s) ==
    /\ s.demands \in Seq(Demands) /\ s.resolved \in SUBSET PackVersions
    /\ \A p, q \in s.resolved : PackOf[p] = PackOf[q] => p = q
    /\ \A p \in s.resolved : \A i \in DOMAIN Needs[p] :
           \/ s.resolved \cap Needs[p][i].range # {}
           \/ \E k \in DOMAIN s.demands : s.demands[k].range = Needs[p][i].range

LEMMA DependenciesAreDemands ==
  ASSUME NEW p \in PackVersions, NEW above \in SUBSET Packs
  PROVE  /\ Dependencies(p, above) \in Seq(Demands)
         /\ DOMAIN Dependencies(p, above) = DOMAIN Needs[p]
         /\ \A i \in DOMAIN Needs[p] : Dependencies(p, above)[i].range = Needs[p][i].range
<1>1. /\ Needs[p] \in Seq(Dependency) /\ PackOf[p] \in Packs
      /\ \A i \in DOMAIN Needs[p] : Needs[p][i].range \subseteq VersionsOf(Needs[p][i].pack)
  BY PackAssumption
<1>2. PICK n \in Nat : DOMAIN Needs[p] = 1..n
  BY <1>1
<1>3. \A i \in 1..n : Needs[p][i] \in [pack : Packs, range : SUBSET PackVersions]
  <2>1. \A i \in 1..n : Needs[p][i] \in Dependency
    BY <1>1, <1>2
  <2>2. QED
    BY <2>1 DEF Dependency
<1>4. \A i \in 1..n : Demand(Needs[p][i].pack, Needs[p][i].range, Needs[p][i].range, above \cup {PackOf[p]}) \in Demands
  BY <1>1, <1>2, <1>3 DEF Demand, Demands
<1>5. Dependencies(p, above) \in [1..n -> Demands]
  BY <1>2, <1>4 DEF Dependencies
<1>6. Dependencies(p, above) \in Seq(Demands)
  BY <1>5
<1>7. QED
  BY <1>2, <1>6 DEF Dependencies, Demand

LEMMA StartIsSound ==
  ASSUME NEW S \in SUBSET PackVersions, NEW roots \in Roots(S)
  PROVE  Sound(Start(roots))
<1>1. PICK n : n = Cardinality({PackOf[p] : p \in S})
  OBVIOUS
<1>2. n \in Nat
  <2>1. {PackOf[p] : p \in S} \subseteq Packs
    BY PackAssumption
  <2>2. IsFiniteSet({PackOf[p] : p \in S})
    BY <2>1, PackAssumption, FS_Subset
  <2>3. QED
    BY <1>1, <2>2, FS_CardinalityType
<1>3. roots \in [1..n -> S]
  BY <1>1 DEF Roots
<1>4. \A i \in 1..n : Demand(PackOf[roots[i]], {roots[i]}, VersionsOf(PackOf[roots[i]]), {}) \in Demands
  <2>1. ASSUME NEW i \in 1..n
        PROVE  Demand(PackOf[roots[i]], {roots[i]}, VersionsOf(PackOf[roots[i]]), {}) \in Demands
    <3>1. PICK p \in PackVersions : p = roots[i]
      BY <1>3
    <3>2. PackOf[p] \in Packs
      BY PackAssumption
    <3>3. Demand(PackOf[p], {p}, VersionsOf(PackOf[p]), {}) \in Demands
      BY <3>2 DEF Demand, Demands, VersionsOf
    <3>4. QED
      BY <3>1, <3>3
  <2>2. QED
    BY <2>1
<1>5. Start(roots).demands \in [1..n -> Demands] /\ Start(roots).resolved = {}
  BY <1>3, <1>4 DEF Start
<1>6. Start(roots).demands \in Seq(Demands)
  BY <1>2, <1>5
<1>7. QED
  BY <1>5, <1>6 DEF Sound

LEMMA Joined ==
  ASSUME NEW S, NEW s \in Seq(S), NEW t \in Seq(S)
  PROVE  /\ s \o t \in Seq(S)
         /\ DOMAIN (s \o t) = 1..(Len(s) + Len(t))
         /\ \A i \in 1..Len(s) : (s \o t)[i] = s[i]
         /\ \A i \in 1..Len(t) : (s \o t)[Len(s) + i] = t[i]
OBVIOUS

LEMMA HeadAndTail ==
  ASSUME NEW S, NEW s \in Seq(S), s # << >>
  PROVE  /\ Head(s) \in S /\ Head(s) = s[1] /\ Tail(s) \in Seq(S)
         /\ Len(s) \in Nat \ {0} /\ Len(Tail(s)) = Len(s) - 1
         /\ \A i \in 1..Len(Tail(s)) : Tail(s)[i] = s[i + 1]
OBVIOUS

\* A call keeps that.
LEMMA ResolveIsSound ==
  ASSUME NEW s, Sound(s), NEW t \in Resolve(s)
  PROVE  Sound(t)
<1> DEFINE d    == Head(s.demands)
           rest == Tail(s.demands)
           met  == {p \in s.resolved : PackOf[p] = d.pack}
           free == {p \in d.choice : Trusted(p)}
<1>1. /\ s.demands \in Seq(Demands) /\ s.resolved \in SUBSET PackVersions
      /\ \A p, q \in s.resolved : PackOf[p] = PackOf[q] => p = q
      /\ \A p \in s.resolved : \A i \in DOMAIN Needs[p] :
             \/ s.resolved \cap Needs[p][i].range # {}
             \/ \E k \in DOMAIN s.demands : s.demands[k].range = Needs[p][i].range
  BY DEF Sound
<1>2. \/ s.demands = << >> /\ t = s
      \/ /\ s.demands # << >> /\ met # {} /\ met \subseteq d.range
         /\ t = [demands |-> rest, resolved |-> s.resolved]
      \/ /\ s.demands # << >> /\ met = {}
         /\ \E p \in free :
                t = [demands |-> Dependencies(p, d.above) \o rest, resolved |-> s.resolved \cup {p}]
  BY DEF Resolve
<1>3. CASE s.demands = << >>
  BY <1>2, <1>3
<1>4. CASE s.demands # << >>
  <2>1. PICK n \in Nat \ {0} : n = Len(s.demands) /\ DOMAIN s.demands = 1..n
    BY <1>1, <1>4, HeadAndTail
  <2>2. /\ d \in Demands /\ d = s.demands[1]
        /\ rest \in Seq(Demands) /\ Len(rest) = n - 1
        /\ \A i \in 1..(n - 1) : rest[i] = s.demands[i + 1]
    BY <1>1, <1>4, <2>1, HeadAndTail
  <2>3. \A k \in DOMAIN s.demands : k = 1 \/ (k - 1 \in 1..(n - 1) /\ s.demands[k] = rest[k - 1])
    BY <2>1, <2>2
  <2> HIDE DEF d, rest
  <2>4. ASSUME NEW p \in s.resolved, NEW i \in DOMAIN Needs[p]
        PROVE  \/ s.resolved \cap Needs[p][i].range # {} \/ Needs[p][i].range = d.range
               \/ \E k \in 1..(n - 1) : rest[k].range = Needs[p][i].range
    <3>1. CASE s.resolved \cap Needs[p][i].range # {}
      BY <3>1
    <3>2. ASSUME NEW k \in DOMAIN s.demands, s.demands[k].range = Needs[p][i].range
          PROVE  Needs[p][i].range = d.range \/ \E l \in 1..(n - 1) : rest[l].range = Needs[p][i].range
      BY <2>2, <2>3, <3>2
    <3>3. QED
      BY <1>1, <3>1, <3>2
  <2>5. CASE met # {}
    <3>1. met \subseteq d.range /\ t = [demands |-> rest, resolved |-> s.resolved]
      BY <1>2, <1>4, <2>5
    <3>2. t.demands = rest /\ t.resolved = s.resolved
      BY <3>1
    <3>3. s.resolved \cap d.range # {}
      BY <2>5, <3>1
    <3>4. ASSUME NEW p \in t.resolved, NEW i \in DOMAIN Needs[p]
          PROVE  \/ t.resolved \cap Needs[p][i].range # {}
                 \/ \E k \in DOMAIN t.demands : t.demands[k].range = Needs[p][i].range
      <4>1. DOMAIN rest = 1..(n - 1)
        BY <2>1, <2>2
      <4>2. QED
        BY <2>4, <3>2, <3>3, <4>1
    <3>5. QED
      BY <1>1, <2>2, <3>2, <3>4 DEF Sound
  <2>6. CASE met = {}
    <3>1. PICK p \in free : t = [demands |-> Dependencies(p, d.above) \o rest, resolved |-> s.resolved \cup {p}]
      BY <1>2, <1>4, <2>6
    <3>2. p \in d.range /\ p \in PackVersions /\ PackOf[p] = d.pack /\ d.above \in SUBSET Packs
      BY <2>2 DEF Demands, VersionsOf
    <3>3. PICK new : new = Dependencies(p, d.above)
      OBVIOUS
    <3>4. /\ new \in Seq(Demands) /\ DOMAIN new = DOMAIN Needs[p]
          /\ \A i \in DOMAIN Needs[p] : new[i].range = Needs[p][i].range
      BY <3>2, <3>3, DependenciesAreDemands
    <3>5. PICK m \in Nat : m = Len(new) /\ DOMAIN new = 1..m
      BY <3>4
    <3>6. t.demands = new \o rest /\ t.resolved = s.resolved \cup {p}
      BY <3>1, <3>3
    <3>7. /\ t.demands \in Seq(Demands)
          /\ DOMAIN t.demands = 1..(m + (n - 1))
          /\ \A i \in 1..m : t.demands[i] = new[i]
          /\ \A i \in 1..(n - 1) : t.demands[m + i] = rest[i]
      BY <2>2, <3>4, <3>5, <3>6, Joined
    <3>8. ASSUME NEW q \in t.resolved, NEW r \in t.resolved, PackOf[q] = PackOf[r]
          PROVE  q = r
      BY <1>1, <2>6, <3>2, <3>6, <3>8
    <3>9. ASSUME NEW q \in t.resolved, NEW i \in DOMAIN Needs[q]
          PROVE  \/ t.resolved \cap Needs[q][i].range # {}
                 \/ \E k \in DOMAIN t.demands : t.demands[k].range = Needs[q][i].range
      <4>1. CASE q = p
        <5>1. i \in 1..m /\ t.demands[i].range = Needs[q][i].range
          BY <3>4, <3>5, <3>7, <3>9, <4>1
        <5>2. i \in DOMAIN t.demands
          BY <2>1, <3>7, <5>1
        <5>3. QED
          BY <5>1, <5>2
      <4>2. CASE q # p
        <5>1. q \in s.resolved
          BY <3>6, <4>2
        <5>2. CASE s.resolved \cap Needs[q][i].range # {}
          BY <3>6, <5>2
        <5>3. CASE Needs[q][i].range = d.range
          BY <3>2, <3>6, <5>3
        <5>4. ASSUME NEW k \in 1..(n - 1), rest[k].range = Needs[q][i].range
              PROVE  \E l \in DOMAIN t.demands : t.demands[l].range = Needs[q][i].range
          <6>1. m + k \in DOMAIN t.demands
            BY <2>1, <3>5, <3>7
          <6>2. t.demands[m + k].range = Needs[q][i].range
            BY <3>7, <5>4
          <6>3. QED
            BY <6>1, <6>2
        <5>5. QED
          BY <2>4, <5>1, <5>2, <5>3, <5>4
      <4>3. QED
        BY <4>1, <4>2
    <3>10. t.resolved \in SUBSET PackVersions
      BY <1>1, <3>2, <3>6
    <3>11. QED
      BY <3>7, <3>8, <3>9, <3>10 DEF Sound
  <2>7. QED
    BY <2>5, <2>6
<1>5. QED
  BY <1>3, <1>4

\* The recursive function of Resolved exists ...
LEMMA CallsExist ==
  ASSUME NEW first, NEW m \in Nat
  PROVE  \E f : f = [n \in 0..m |-> IF n = 0 THEN first ELSE Call(f[n - 1])]
<1> DEFINE T == {l \in Nat : \E f :
                     f = [n \in 0..l |-> IF n = 0 THEN first ELSE Call(f[n - 1])]}
<1>1. 0 \in T
  <2>1. PICK f : f = [n \in 0..0 |-> first]
    OBVIOUS
  <2>2. f = [n \in 0..0 |-> IF n = 0 THEN first ELSE Call(f[n - 1])]
    BY <2>1
  <2>3. QED
    BY <2>2
<1>2. ASSUME NEW l \in T PROVE l + 1 \in T
  <2>1. PICK f : f = [n \in 0..l |-> IF n = 0 THEN first ELSE Call(f[n - 1])]
    OBVIOUS
  <2>2. PICK g : g = [n \in 0..(l + 1) |-> IF n = l + 1 THEN Call(f[l]) ELSE f[n]]
    OBVIOUS
  <2>3. l \in Nat /\ l + 1 # 0 /\ (l + 1) - 1 = l
    OBVIOUS
  <2>4. \A n \in 0..l : g[n] = f[n] /\ (n # 0 => g[n - 1] = f[n - 1])
    BY <2>2, <2>3
  <2>5. ASSUME NEW n \in 0..l
        PROVE  g[n] = IF n = 0 THEN first ELSE Call(g[n - 1])
    <3>1. f[n] = IF n = 0 THEN first ELSE Call(f[n - 1])
      BY <2>1
    <3>2. QED
      BY <2>4, <3>1
  <2>6. g[l + 1] = Call(g[(l + 1) - 1])
    <3>1. g[l + 1] = Call(f[l])
      BY <2>2, <2>3
    <3>2. g[(l + 1) - 1] = f[l]
      BY <2>3, <2>4
    <3>3. QED
      BY <3>1, <3>2
  <2>7. \A n \in 0..(l + 1) : n \in 0..l \/ n = l + 1
    BY <2>3
  <2>8. \A n \in 0..(l + 1) : g[n] = IF n = 0 THEN first ELSE Call(g[n - 1])
    BY <2>3, <2>5, <2>6, <2>7
  <2>9. g = [n \in 0..(l + 1) |-> IF n = 0 THEN first ELSE Call(g[n - 1])]
    BY <2>2, <2>8
  <2>10. QED
    BY <2>9
<1>3. T \in SUBSET Nat
  OBVIOUS
<1>4. T = Nat
  <2> HIDE DEF T
  <2>1. QED
    BY <1>1, <1>2, <1>3, Induction
<1>5. QED
  BY <1>4

\* Whatever packs are wanted, and whatever is registered and revoked, what the resolution
\* (_resolve_pack_graph) returns has one version of each pack, and of every dependency
\* a version in its range.
THEOREM ResolvedIsSatisfied ==
  ASSUME NEW S \in SUBSET PackVersions, NEW packs \in Resolved(S)
  PROVE  packs \in SUBSET PackVersions /\ Satisfied(packs)
<1>1. MaxCalls \in Nat
  BY PackAssumption, FS_CardinalityType DEF MaxCalls
<1>2. PICK m \in Nat : m = MaxCalls
  BY <1>1
<1> DEFINE first == {Start(roots) : roots \in Roots(S)}
           calls == CHOOSE f : f = [n \in 0..m |-> IF n = 0 THEN first ELSE Call(f[n - 1])]
<1>3. calls = [n \in 0..m |-> IF n = 0 THEN first ELSE Call(calls[n - 1])]
  <2> HIDE DEF first
  <2>1. QED
    BY <1>2, CallsExist
<1>4. PICK s \in calls[m] : s.demands = << >> /\ s.resolved = packs
  <2>1. Resolved(S) = {s.resolved : s \in {t \in calls[m] : t.demands = << >>}}
    BY <1>2 DEF Resolved
  <2> HIDE DEF calls
  <2>2. QED
    BY <2>1
<1> HIDE DEF calls
<1> DEFINE T == {n \in Nat : n <= m => \A t \in calls[n] : Sound(t)}
<1>5. 0 \in T
  <2>1. calls[0] = first
    BY <1>3
  <2>2. \A t \in first : Sound(t)
    BY StartIsSound
  <2>3. QED
    BY <2>1, <2>2
<1>6. ASSUME NEW n \in T PROVE n + 1 \in T
  <2>1. ASSUME n + 1 <= m, NEW t \in calls[n + 1] PROVE Sound(t)
    <3>1. n + 1 \in 0..m /\ n + 1 # 0 /\ (n + 1) - 1 = n /\ n <= m
      BY <2>1
    <3>2. calls[n + 1] = Call(calls[n])
      BY <1>3, <3>1
    <3>3. PICK u \in calls[n] : t \in Resolve(u)
      BY <2>1, <3>2 DEF Call
    <3>4. Sound(u)
      BY <3>1
    <3>5. QED
      BY <3>3, <3>4, ResolveIsSound
  <2>2. QED
    BY <2>1
<1>7. T = Nat
  <2>1. T \in SUBSET Nat
    OBVIOUS
  <2> HIDE DEF T
  <2>2. QED
    BY <1>5, <1>6, <2>1, Induction
<1>8. Sound(s)
  BY <1>4, <1>7
<1>9. QED
  BY <1>4, <1>8 DEF Sound, Satisfied

-----------------------------------------------------------------------------
(* Schema versions *)

\* A request knows what its version was, unless the version has changed since.
RequestsFit ==
    \A r \in requests :
        /\ r.v \in DOMAIN versions /\ r.etag <= versions[r.v].etag
        /\ r.etag = versions[r.v].etag /\ r.kind = "publish"
               => versions[r.v].status = "TESTING" /\ ~versions[r.v].breaking

PublishedExist == \A k \in DOMAIN published : published[k] \in DOMAIN versions

SchemaInv ==
    /\ versions \in Seq(Versions) /\ published \in Seq(Nat) /\ requests \subseteq Requests
    /\ CompositionsAreClosed /\ RequestsFit /\ PublishedExist

\* Who has read holds the row, of an installation still to be executed.
ReadsFit ==
    \A i \in Ids : Locked(i) =>
        /\ i \in DOMAIN installs /\ installs[i].status \in Executable
        /\ waiting[i] > 0
        /\ reads[i] \in Reads /\ Satisfied(reads[i].packs)

\* An installation rolls back to one before it; none has a candidate that does not exist.
InstallsFit ==
    /\ Len(installs) <= MaxInstalls
    /\ \A i \in DOMAIN installs :
           /\ installs[i].operation = "ROLLBACK" => installs[i].previous \in 1..(i - 1)
           /\ installs[i].candidate \in {0} \cup DOMAIN versions

InstallInv ==
    /\ installs \in Seq(Installs)
    /\ runs \in [Ids -> RunStates] /\ attempts \in 0..MaxAttempts /\ waiting \in [Ids -> Nat]
    /\ reads \in [Ids -> Reads \cup {NoRead}]
    /\ EffectHasCandidate /\ ReadsFit /\ InstallsFit

\* The inductive invariant
RegistryInv == RegistryTypeOK /\ SchemaInv /\ InstallInv

\* A set of natural numbers that is bounded has a greatest element.
LEMMA Greatest ==
  ASSUME NEW T \in SUBSET Nat, T # {}, NEW n \in Nat, \A x \in T : x <= n
  PROVE  \E x \in T : \A y \in T : y <= x
<1> DEFINE B == {b \in Nat : \A x \in T : x <= b}
<1>1. PICK b \in B : \A c \in B : b <= c
  <2>1. n \in B
    OBVIOUS
  <2>2. B \in SUBSET Nat /\ B # {}
    BY <2>1
  <2> HIDE DEF B
  <2>3. QED
    BY <2>2, Least
<1>2. ASSUME b \notin T PROVE FALSE
  <2>1. PICK x \in T : x <= b
    OBVIOUS
  <2>2. b - 1 \in Nat
    BY <1>2, <2>1
  <2>3. \A y \in T : y <= b - 1
    BY <1>2
  <2>4. b - 1 \in B
    BY <2>2, <2>3
  <2>5. QED
    BY <1>1, <2>2, <2>4
<1>3. QED
  BY <1>2

LEMMA Appended ==
  ASSUME NEW S, NEW s \in Seq(S), NEW x \in S
  PROVE  /\ Append(s, x) \in Seq(S)
         /\ Len(s) \in Nat /\ Len(Append(s, x)) = Len(s) + 1
         /\ DOMAIN s = 1..Len(s)
         /\ DOMAIN Append(s, x) = 1..(Len(s) + 1)
         /\ \A i \in 1..Len(s) : Append(s, x)[i] = s[i]
         /\ Append(s, x)[Len(s) + 1] = x
OBVIOUS

LEMMA BaselineIsContent ==
  ASSUME SchemaInv
  PROVE  Baseline \subseteq Content
<1>1. /\ Live \in SUBSET Nat /\ Len(published) \in Nat
      /\ \A k \in Live : k <= Len(published) /\ published[k] \in DOMAIN versions
  BY DEF SchemaInv, PublishedExist, Live
<1>2. CASE Live # {}
  <2>1. \E k \in Live : \A j \in Live : j <= k
    BY <1>1, <1>2, Greatest
  <2>2. PICK k \in Live : k = CHOOSE c \in Live : \A j \in Live : j <= c
    BY <2>1
  <2>3. Baseline = versions[published[k]].content
    BY <1>2, <2>2 DEF Baseline
  <2>4. versions[published[k]] \in Versions
    BY <1>1 DEF SchemaInv
  <2>5. QED
    BY <2>3, <2>4 DEF Versions
<1>3. QED
  BY <1>2 DEF Baseline

LEMMA DraftIsVersion ==
  ASSUME NEW name \in Named, NEW local \in SUBSET Content, NEW packs \in SUBSET PackVersions,
         NEW breaking \in BOOLEAN
  PROVE  /\ Draft(name, local, packs, breaking) \in Versions
         /\ Draft(name, local, packs, breaking).packs = packs
<1>1. Composed(local, packs) \in SUBSET Content
  BY DEF Composed, Content
<1>2. QED
  BY <1>1 DEF Draft, Versions

\* A version is added.
LEMMA SchemaGrows ==
  ASSUME SchemaInv, NEW d \in Versions, Satisfied(d.packs), AddVersion(d),
         UNCHANGED <<published, requests>>
  PROVE  /\ SchemaInv' /\ Len(versions) \in Nat
         /\ DOMAIN versions = 1..Len(versions) /\ DOMAIN versions' = 1..(Len(versions) + 1)
<1>1. versions \in Seq(Versions) /\ versions' = Append(versions, d)
  BY DEF SchemaInv, AddVersion
<1>2. PICK n \in Nat : n = Len(versions) /\ DOMAIN versions = 1..n
  BY <1>1
<1>3. /\ versions' \in Seq(Versions) /\ DOMAIN versions' = 1..(n + 1)
      /\ \A v \in 1..n : versions'[v] = versions[v]
      /\ versions'[n + 1] = d
  BY <1>1, <1>2, Appended
<1>4. CompositionsAreClosed'
  <2>1. ASSUME NEW v \in DOMAIN versions' PROVE Satisfied(versions'[v].packs)
    <3>1. CASE v \in 1..n
      BY <1>2, <1>3, <3>1 DEF SchemaInv, CompositionsAreClosed
    <3>2. CASE v = n + 1
      BY <1>3, <3>2
    <3>3. QED
      BY <1>2, <1>3, <3>1, <3>2
  <2>2. QED
    BY <2>1 DEF CompositionsAreClosed
<1>5. RequestsFit'
  <2>1. \A r \in requests' : r \in requests /\ r.v \in 1..n /\ r.v \in 1..(n + 1) /\ versions'[r.v] = versions[r.v]
    BY <1>2, <1>3 DEF SchemaInv, RequestsFit
  <2>2. QED
    BY <1>3, <2>1 DEF SchemaInv, RequestsFit
<1>6. PublishedExist'
  BY <1>2, <1>3 DEF SchemaInv, PublishedExist
<1>7. QED
  BY <1>2, <1>3, <1>4, <1>5, <1>6 DEF SchemaInv

\* A version is changed, or not: its etag tells.
LEMMA SchemaRevised ==
  ASSUME SchemaInv, NEW v \in DOMAIN versions, NEW mark \in {"TESTING", "PUBLISHED", "DEPRECATED"},
         NEW breaking \in BOOLEAN, Revise(v, mark, breaking),
         published' \in Seq(Nat), \A k \in DOMAIN published' : published'[k] \in DOMAIN versions,
         requests' \subseteq requests
  PROVE  SchemaInv' /\ DOMAIN versions' = DOMAIN versions
<1>1. versions \in Seq(Versions) /\ requests \subseteq Requests
  BY DEF SchemaInv
<1>2. PICK old \in Versions : old = versions[v]
  BY <1>1
<1>3. PICK new : new = [old EXCEPT !.status = mark, !.breaking = breaking, !.etag = old.etag + 1]
  OBVIOUS
<1>4. /\ new \in Versions /\ new.packs = versions[v].packs /\ new.etag = versions[v].etag + 1
      /\ versions[v].etag \in Nat
  <2>1. old.etag \in Nat /\ old.etag + 1 \in Nat
    BY DEF Versions
  <2>2. new \in Versions /\ new.packs = old.packs /\ new.etag = old.etag + 1
    BY <1>3, <2>1 DEF Versions
  <2>3. QED
    BY <1>2, <2>1, <2>2
<1>5. versions' = [versions EXCEPT ![v] = new]
  BY <1>1, <1>2, <1>3 DEF Revise, Versions
<1>6. /\ versions' \in Seq(Versions) /\ DOMAIN versions' = DOMAIN versions
      /\ versions'[v] = new /\ \A u \in DOMAIN versions : u # v => versions'[u] = versions[u]
  BY <1>1, <1>4, <1>5
<1>7. CompositionsAreClosed'
  BY <1>4, <1>6 DEF SchemaInv, CompositionsAreClosed
<1>8. RequestsFit'
  <2>1. ASSUME NEW r \in requests'
        PROVE  /\ r.v \in DOMAIN versions' /\ r.etag <= versions'[r.v].etag
               /\ r.etag = versions'[r.v].etag /\ r.kind = "publish"
                      => versions'[r.v].status = "TESTING" /\ ~versions'[r.v].breaking
    <3>1. r \in requests /\ r.v \in DOMAIN versions /\ r.etag <= versions[r.v].etag /\ r.etag \in Nat
      BY <1>1 DEF SchemaInv, RequestsFit, Requests
    <3>2. CASE r.v = v
      <4>1. r.etag < versions'[r.v].etag
        BY <1>4, <1>6, <3>1, <3>2
      <4>2. versions'[r.v].etag \in Nat
        BY <1>4, <1>6, <3>2
      <4>3. QED
        BY <1>6, <3>1, <4>1, <4>2
    <3>3. CASE r.v # v
      BY <1>6, <3>1, <3>3 DEF SchemaInv, RequestsFit
    <3>4. QED
      BY <3>2, <3>3
  <2>2. QED
    BY <2>1 DEF RequestsFit
<1>9. QED
  BY <1>1, <1>6, <1>7, <1>8 DEF SchemaInv, PublishedExist

LEMMA SchemaKept ==
  ASSUME SchemaInv, UNCHANGED <<versions, published>>, requests' \subseteq requests
  PROVE  SchemaInv'
BY DEF SchemaInv, CompositionsAreClosed, RequestsFit, PublishedExist

\* More versions leave the installations as they are.
LEMMA InstallsKept ==
  ASSUME InstallInv, UNCHANGED installVars, NEW n \in Nat, DOMAIN versions = 1..n,
         NEW m \in Nat, DOMAIN versions' = 1..m, n <= m
  PROVE  InstallInv'
<1>1. \A i \in DOMAIN installs : installs[i].candidate \in 0..n
  BY DEF InstallInv, InstallsFit
<1>2. EffectHasCandidate'
  <2>1. \A i \in DOMAIN installs : installs[i].candidate \in 1..m <=> installs[i].candidate \in 1..n
    BY <1>1
  <2>2. QED
    BY <2>1 DEF InstallInv, EffectHasCandidate, installVars
<1>3. InstallsFit'
  <2>1. \A i \in DOMAIN installs : installs[i].candidate \in {0} \cup 1..m
    BY <1>1
  <2>2. QED
    BY <2>1 DEF InstallInv, InstallsFit, installVars
<1>4. ReadsFit'
  BY DEF InstallInv, ReadsFit, Locked, installVars
<1>5. QED
  BY <1>2, <1>3, <1>4 DEF InstallInv, installVars

\* Rows of installations are changed: what each row has to say is enough.
LEMMA RowsRewritten ==
  ASSUME InstallInv, installs' \in [DOMAIN installs -> Installs],
         \A k \in DOMAIN installs :
             /\ installs'[k].operation = installs[k].operation
             /\ installs'[k].previous = installs[k].previous
             /\ installs'[k].candidate \in {0} \cup DOMAIN versions'
             /\ installs'[k].status \in Effective <=> installs'[k].candidate \in DOMAIN versions'
  PROVE  /\ installs' \in Seq(Installs) /\ DOMAIN installs' = DOMAIN installs
         /\ EffectHasCandidate' /\ InstallsFit'
<1>1. installs \in Seq(Installs)
  BY DEF InstallInv
<1>2. installs' \in Seq(Installs) /\ DOMAIN installs' = DOMAIN installs /\ Len(installs') = Len(installs)
  BY <1>1
<1>3. EffectHasCandidate'
  BY <1>2 DEF EffectHasCandidate, Effective
<1>4. InstallsFit'
  BY <1>2 DEF InstallInv, InstallsFit
<1>5. QED
  BY <1>2, <1>3, <1>4

LEMMA DomainOfVersions ==
  ASSUME SchemaInv
  PROVE  /\ Len(versions) \in Nat /\ DOMAIN versions = 1..Len(versions)
         /\ \A v \in DOMAIN versions : versions[v] \in Versions
BY DEF SchemaInv

LEMMA InstallsStay ==
  ASSUME RegistryInv, UNCHANGED installVars, DOMAIN versions' = DOMAIN versions
  PROVE  InstallInv'
<1>1. PICK n \in Nat : DOMAIN versions = 1..n
  BY DomainOfVersions DEF RegistryInv
<1>2. DOMAIN versions' = 1..n /\ n <= n
  BY <1>1
<1>3. InstallInv
  BY DEF RegistryInv
<1>4. QED
  BY <1>1, <1>2, <1>3, InstallsKept

LEMMA DomainOfInstalls ==
  ASSUME InstallInv
  PROVE  /\ Len(installs) \in Nat /\ DOMAIN installs = 1..Len(installs) /\ DOMAIN installs \subseteq Ids
         /\ \A i \in DOMAIN installs : installs[i] \in Installs
<1>1. installs \in Seq(Installs) /\ Len(installs) <= MaxInstalls
  BY DEF InstallInv, InstallsFit
<1>2. QED
  BY <1>1, InstallBounds DEF Ids

-----------------------------------------------------------------------------
(* The actions keep the invariant *)

LEMMA RegistryStep ==
  ASSUME RegistryInv, AskRegistry \/ (\E p \in PackVersions : RegisterPack(p)),
         UNCHANGED <<schemaVars, installVars>>
  PROVE  RegistryInv'
<1>1. RegistryTypeOK'
  <2>1. ASSUME NEW k \in SigningKeys, RegisterTrustKey(k) PROVE RegistryTypeOK'
    BY <2>1 DEF RegistryInv, RegistryTypeOK, RegisterTrustKey, KeyStatuses
  <2>2. ASSUME NEW p \in PackVersions, VerifyPack(p) PROVE RegistryTypeOK'
    BY <2>2 DEF RegistryInv, RegistryTypeOK, VerifyPack
  <2>3. ASSUME NEW x \in PackVersions \cup SigningKeys, ImportRevocation(x) PROVE RegistryTypeOK'
    BY <2>3 DEF RegistryInv, RegistryTypeOK, ImportRevocation, KeyStatuses
  <2>4. ASSUME NEW p \in PackVersions, RegisterPack(p) PROVE RegistryTypeOK'
    BY <2>4 DEF RegistryInv, RegistryTypeOK, RegisterPack
  <2>5. QED
    BY <2>1, <2>2, <2>3, <2>4 DEF AskRegistry
<1>2. SchemaInv'
  BY SchemaKept DEF RegistryInv, schemaVars
<1>3. InstallInv'
  BY InstallsStay DEF schemaVars
<1>4. QED
  BY <1>1, <1>2, <1>3 DEF RegistryInv

LEMMA CreateDraftStep ==
  ASSUME RegistryInv, NEW name \in Names, NEW local \in Locals, NEW packs \in SUBSET PackVersions,
         Satisfied(packs), NEW breaking \in BOOLEAN, CreateDraft(name, local, packs, breaking)
  PROVE  RegistryInv'
<1>1. Asked(name) \in Named /\ local \in SUBSET Content
  BY DEF Asked, Named, Content
<1>2. PICK d \in Versions : d = Draft(Asked(name), local, packs, breaking) /\ d.packs = packs
  BY <1>1, DraftIsVersion
<1>3. /\ AddVersion(d) /\ UNCHANGED <<published, requests>> /\ UNCHANGED installVars
      /\ UNCHANGED registryVars
  BY <1>2 DEF CreateDraft
<1>4. /\ SchemaInv' /\ Len(versions) \in Nat
      /\ DOMAIN versions = 1..Len(versions) /\ DOMAIN versions' = 1..(Len(versions) + 1)
  BY <1>2, <1>3, SchemaGrows DEF RegistryInv
<1>5. InstallInv'
  <2>1. Len(versions) + 1 \in Nat /\ Len(versions) <= Len(versions) + 1
    BY <1>4
  <2>2. QED
    BY <1>3, <1>4, <2>1, InstallsKept DEF RegistryInv
<1>6. QED
  BY <1>3, <1>4, <1>5 DEF RegistryInv, RegistryTypeOK, registryVars

LEMMA UserDraftStep ==
  ASSUME RegistryInv, NEW name \in Names, NEW local \in Locals,
         \/ CreateSchema(name, local) \/ CreateSchemaVersion(name, local)
         \/ \E roots \in Compositions : ComposeSchema(name, local, roots)
  PROVE  RegistryInv'
<1>1. CASE CreateSchema(name, local) \/ CreateSchemaVersion(name, local)
  <2>1. CreateDraft(name, local, {}, FALSE)
    BY <1>1 DEF CreateSchema, CreateSchemaVersion
  <2>2. {} \in SUBSET PackVersions /\ Satisfied({}) /\ FALSE \in BOOLEAN
    BY DEF Satisfied
  <2>3. QED
    BY <2>1, <2>2, CreateDraftStep
<1>2. ASSUME NEW roots \in Compositions, ComposeSchema(name, local, roots) PROVE RegistryInv'
  <2>1. PICK packs \in Resolved(roots) :
            CreateDraft(name, local, packs, Breaking(Baseline, Composed(local, packs)))
    BY <1>2 DEF ComposeSchema
  <2>2. packs \in SUBSET PackVersions /\ Satisfied(packs)
    BY CompositionsAssumption, ResolvedIsSatisfied
  <2>3. Breaking(Baseline, Composed(local, packs)) \in BOOLEAN
    BY DEF Breaking
  <2>4. QED
    BY <2>1, <2>2, <2>3, CreateDraftStep
<1>3. QED
  BY <1>1, <1>2

LEMMA AskStep ==
  ASSUME RegistryInv, NEW v \in DOMAIN versions, ReadForValidate(v) \/ ReadForPublish(v) \/ ReadForDeprecate(v)
  PROVE  RegistryInv'
<1>1. PICK kind \in {"validate", "publish", "deprecate"} :
          /\ Ask(Request(kind, v))
          /\ kind = "publish" => versions[v].status = "TESTING" /\ ~versions[v].breaking
  BY DEF ReadForValidate, ReadForPublish, ReadForDeprecate
<1>2. PICK r : r = Request(kind, v)
  OBVIOUS
<1>3. Len(versions) \in Nat /\ DOMAIN versions = 1..Len(versions) /\ versions[v] \in Versions
  BY DomainOfVersions DEF RegistryInv
<1>4. /\ r \in Requests /\ r.v = v /\ r.etag = versions[v].etag /\ r.kind = kind
      /\ versions[v].etag \in Nat
  <2>1. Baseline \subseteq Content
    BY BaselineIsContent DEF RegistryInv
  <2>2. versions[v].etag \in Nat
    BY <1>3 DEF Versions
  <2>3. v \in Nat
    BY <1>3
  <2>4. QED
    BY <1>2, <2>1, <2>2, <2>3 DEF Request, Requests
<1>5. requests' = requests \cup {r} /\ UNCHANGED <<registryVars, versions, published, installVars>>
  BY <1>1, <1>2 DEF Ask
<1>6. RequestsFit'
  BY <1>1, <1>4, <1>5 DEF RegistryInv, SchemaInv, RequestsFit
<1>7. SchemaInv'
  BY <1>4, <1>5, <1>6 DEF RegistryInv, SchemaInv, CompositionsAreClosed, PublishedExist
<1>8. InstallInv'
  BY <1>5, InstallsStay
<1>9. QED
  BY <1>5, <1>7, <1>8 DEF RegistryInv, RegistryTypeOK, registryVars

LEMMA RequestStep ==
  ASSUME RegistryInv, NEW r \in requests, ValidateSchema(r) \/ PublishSchema(r) \/ DeprecateSchema(r)
  PROVE  RegistryInv'
<1>1. /\ r.v \in DOMAIN versions /\ r.v \in Nat
      /\ versions[r.v] \in Versions /\ versions[r.v].breaking \in BOOLEAN
  <2>1. r.v \in DOMAIN versions
    BY DEF RegistryInv, SchemaInv, RequestsFit
  <2>2. QED
    BY <2>1, DomainOfVersions DEF RegistryInv, Versions
<1>2. UNCHANGED <<registryVars, installVars>> /\ requests' \subseteq requests
  BY DEF ValidateSchema, PublishSchema, DeprecateSchema
<1>3. SchemaInv' /\ DOMAIN versions' = DOMAIN versions
  <2>1. CASE UNCHANGED <<versions, published>>
    BY <1>2, <2>1, SchemaKept DEF RegistryInv
  <2>2. ASSUME NEW mark \in {"TESTING", "PUBLISHED", "DEPRECATED"}, NEW breaking \in BOOLEAN,
               Revise(r.v, mark, breaking), published' \in {published, Append(published, r.v)}
        PROVE  SchemaInv' /\ DOMAIN versions' = DOMAIN versions
    <3>1. /\ published' \in Seq(Nat)
          /\ \A k \in DOMAIN published' : published'[k] \in DOMAIN versions
      <4>1. published \in Seq(Nat) /\ \A k \in DOMAIN published : published[k] \in DOMAIN versions
        BY DEF RegistryInv, SchemaInv, PublishedExist
      <4>2. CASE published' = published
        BY <4>1, <4>2
      <4>3. CASE published' = Append(published, r.v)
        <5>1. /\ published' \in Seq(Nat) /\ DOMAIN published' = 1..(Len(published) + 1)
              /\ DOMAIN published = 1..Len(published) /\ Len(published) \in Nat
              /\ \A k \in 1..Len(published) : published'[k] = published[k]
              /\ published'[Len(published) + 1] = r.v
          BY <1>1, <4>1, <4>3, Appended
        <5>2. \A k \in DOMAIN published' : k \in 1..Len(published) \/ k = Len(published) + 1
          BY <5>1
        <5>3. QED
          BY <1>1, <4>1, <5>1, <5>2
      <4>4. QED
        BY <2>2, <4>2, <4>3
    <3>2. QED
      BY <1>1, <1>2, <2>2, <3>1, SchemaRevised DEF RegistryInv
  <2>3. CASE ValidateSchema(r)
    <3>1. \/ UNCHANGED versions
          \/ Revise(r.v, "TESTING", Breaking(r.base, versions[r.v].content))
      BY <2>3 DEF ValidateSchema
    <3>2. published' = published /\ Breaking(r.base, versions[r.v].content) \in BOOLEAN
      BY <2>3 DEF ValidateSchema, Breaking
    <3>3. QED
      BY <2>1, <2>2, <3>1, <3>2
  <2>4. CASE PublishSchema(r)
    BY <1>1, <2>1, <2>2, <2>4 DEF PublishSchema
  <2>5. CASE DeprecateSchema(r)
    BY <1>1, <2>1, <2>2, <2>5 DEF DeprecateSchema
  <2>6. QED
    BY <2>3, <2>4, <2>5
<1>4. InstallInv'
  BY <1>2, <1>3, InstallsStay
<1>5. QED
  BY <1>2, <1>3, <1>4 DEF RegistryInv, RegistryTypeOK, registryVars

\* What an action of an installation leaves alone
LEMMA SchemaStays ==
  ASSUME RegistryInv, UNCHANGED <<registryVars, schemaVars>>, InstallInv'
  PROVE  RegistryInv'
<1>1. SchemaInv'
  BY SchemaKept DEF RegistryInv, schemaVars
<1>2. QED
  BY <1>1 DEF RegistryInv, RegistryTypeOK, registryVars

LEMMA CreateInstallationStep ==
  ASSUME RegistryInv, NEW operation \in {"INSTALL", "UPGRADE", "DISABLE", "ROLLBACK"}, NEW pack \in PackVersions,
         NEW previous \in {0} \cup DOMAIN installs, NEW name \in Named,
         operation = "ROLLBACK" => previous # 0,
         CreateInstallation(operation, pack, previous, name)
  PROVE  RegistryInv'
<1>1. PICK row : row = [operation |-> operation, pack |-> pack, previous |-> previous, name |-> name,
                        candidate |-> 0, status |-> "PLANNED"]
  OBVIOUS
<1>2. PICK n \in Nat : n = Len(installs) /\ DOMAIN installs = 1..n /\ DOMAIN installs \subseteq Ids
  BY DomainOfInstalls DEF RegistryInv
<1>3. row \in Installs
  BY <1>1, <1>2 DEF Installs
<1>4. /\ installs \in Seq(Installs) /\ installs' = Append(installs, row)
      /\ n < MaxInstalls
      /\ UNCHANGED <<registryVars, schemaVars, runs, waiting, reads, attempts>>
  BY <1>1, <1>2 DEF CreateInstallation, RegistryInv, InstallInv
<1>5. /\ installs' \in Seq(Installs) /\ Len(installs') = n + 1 /\ DOMAIN installs' = 1..(n + 1)
      /\ \A i \in 1..n : installs'[i] = installs[i]
      /\ installs'[n + 1] = row
  BY <1>2, <1>3, <1>4, Appended
<1>6. \A i \in DOMAIN installs' : i \in 1..n \/ i = n + 1
  BY <1>2, <1>5
<1>7. Len(versions) \in Nat /\ DOMAIN versions = 1..Len(versions) /\ versions' = versions
  BY <1>4, DomainOfVersions DEF RegistryInv, schemaVars
<1>8. /\ row.status \notin Effective /\ row.candidate = 0 /\ 0 \notin DOMAIN versions
      /\ row.operation = operation /\ row.previous = previous
  BY <1>1, <1>7 DEF Effective
<1>9. EffectHasCandidate'
  <2>1. ASSUME NEW i \in DOMAIN installs'
        PROVE  installs'[i].status \in Effective <=> installs'[i].candidate \in DOMAIN versions
    <3>1. CASE i \in 1..n
      BY <1>2, <1>5, <3>1 DEF RegistryInv, InstallInv, EffectHasCandidate
    <3>2. CASE i = n + 1
      BY <1>5, <1>8, <3>2
    <3>3. QED
      BY <1>6, <3>1, <3>2
  <2>2. QED
    BY <1>7, <2>1 DEF EffectHasCandidate, Effective
<1>10. InstallsFit'
  <2>1. ASSUME NEW i \in DOMAIN installs'
        PROVE  /\ installs'[i].operation = "ROLLBACK" => installs'[i].previous \in 1..(i - 1)
               /\ installs'[i].candidate \in {0} \cup DOMAIN versions
    <3>1. CASE i \in 1..n
      BY <1>2, <1>5, <3>1 DEF RegistryInv, InstallInv, InstallsFit
    <3>2. CASE i = n + 1
      <4>1. i - 1 = n
        BY <3>2
      <4>2. QED
        BY <1>2, <1>5, <1>8, <3>2, <4>1
    <3>3. QED
      BY <1>6, <3>1, <3>2
  <2>2. Len(installs') <= MaxInstalls
    BY <1>4, <1>5, InstallBounds
  <2>3. QED
    BY <1>7, <2>1, <2>2 DEF InstallsFit
<1>11. ReadsFit'
  <2>1. \A i \in DOMAIN installs : i \in DOMAIN installs' /\ installs'[i] = installs[i]
    BY <1>2, <1>5
  <2>2. QED
    BY <1>4, <2>1 DEF RegistryInv, InstallInv, ReadsFit, Locked
<1>12. InstallInv'
  BY <1>4, <1>5, <1>9, <1>10, <1>11 DEF RegistryInv, InstallInv
<1>13. QED
  BY <1>4, <1>12, SchemaStays

LEMMA UserInstallStep ==
  ASSUME RegistryInv,
         \/ \E operation \in {"INSTALL", "UPGRADE"}, pack \in PackVersions, name \in Names :
                Install(operation, pack, name)
         \/ \E i \in DOMAIN installs : Control(i, "DISABLE") \/ Control(i, "ROLLBACK")
  PROVE  RegistryInv'
<1>1. ASSUME NEW operation \in {"INSTALL", "UPGRADE"}, NEW pack \in PackVersions, NEW name \in Names,
             Install(operation, pack, name)
      PROVE  RegistryInv'
  <2>1. Asked(name) \in Named /\ CreateInstallation(operation, pack, 0, Asked(name))
    BY <1>1 DEF Install, Asked, Named
  <2>2. QED
    BY <2>1, CreateInstallationStep
<1>2. ASSUME NEW i \in DOMAIN installs, NEW operation \in {"DISABLE", "ROLLBACK"}, Control(i, operation)
      PROVE  RegistryInv'
  <2>1. /\ installs[i].pack \in PackVersions /\ installs[i].name \in Named
        /\ i \in Ids /\ i # 0
    BY DomainOfInstalls DEF RegistryInv, Installs, Ids
  <2>2. PICK name \in Named : CreateInstallation(operation, installs[i].pack, i, name)
    <3>1. [name |-> "disable", disables |-> i] \in Named
      BY <2>1 DEF Named
    <3>2. QED
      BY <1>2, <2>1, <3>1 DEF Control
  <2>3. QED
    BY <2>1, <2>2, CreateInstallationStep
<1>3. QED
  BY <1>1, <1>2

\* An attempt ends, or a run or an attempt is scheduled: the rows stay.
LEMMA AttemptStep ==
  ASSUME RegistryInv, NEW i \in DOMAIN installs,
         \/ StartInstall(i) \/ Schedule(i) \/ GiveUp(i) \/ AlreadyDone(i) \/ Refused(i)
  PROVE  RegistryInv'
<1>1. i \in Ids
  BY DomainOfInstalls DEF RegistryInv
<1>2. /\ UNCHANGED <<registryVars, schemaVars>> /\ UNCHANGED installs /\ UNCHANGED reads
      /\ UNCHANGED versions
  BY DEF StartInstall, Schedule, GiveUp, AlreadyDone, Refused, schemaVars
<1>3. runs' \in [Ids -> RunStates]
  <2>1. runs \in [Ids -> RunStates]
    BY DEF RegistryInv, InstallInv
  <2>2. \/ runs' = runs \/ \E at \in RunStates : runs' = [runs EXCEPT ![i] = at]
    BY DEF StartInstall, Schedule, GiveUp, AlreadyDone, Refused, Report, RunStates
  <2>3. QED
    BY <2>1, <2>2
<1>4. attempts' \in 0..MaxAttempts
  BY InstallBounds DEF RegistryInv, InstallInv, StartInstall, Schedule, GiveUp, AlreadyDone, Refused
<1>5. /\ waiting' \in [Ids -> Nat]
      /\ \A k \in Ids : Locked(k) => waiting'[k] >= waiting[k]
  <2>1. waiting \in [Ids -> Nat]
    BY DEF RegistryInv, InstallInv
  <2>2. CASE waiting' = waiting
    BY <2>1, <2>2
  <2>3. CASE waiting' = [waiting EXCEPT ![i] = waiting[i] + 1]
    BY <1>1, <2>1, <2>3
  <2>4. CASE waiting' = [waiting EXCEPT ![i] = waiting[i] - 1] /\ waiting[i] > 0 /\ ~Locked(i)
    BY <1>1, <2>1, <2>4
  <2>5. CASE StartInstall(i) \/ GiveUp(i)
    BY <2>2, <2>5 DEF StartInstall, GiveUp
  <2>6. CASE Schedule(i)
    BY <2>3, <2>6 DEF Schedule
  <2>7. CASE AlreadyDone(i) \/ Refused(i)
    BY <2>4, <2>7 DEF AlreadyDone, Refused, Begins, Leaves
  <2>8. QED
    BY <2>5, <2>6, <2>7
<1>6. ReadsFit'
  <2>1. waiting \in [Ids -> Nat] /\ ReadsFit
    BY DEF RegistryInv, InstallInv
  <2>2. QED
    BY <1>2, <1>5, <2>1 DEF ReadsFit, Locked
<1>7. EffectHasCandidate' /\ InstallsFit'
  BY <1>2 DEF RegistryInv, InstallInv, EffectHasCandidate, InstallsFit
<1>8. InstallInv'
  BY <1>2, <1>3, <1>4, <1>5, <1>6, <1>7 DEF RegistryInv, InstallInv
<1>9. QED
  BY <1>2, <1>8, SchemaStays

\* The row is marked, or the failure recorded.
LEMMA MarkStep ==
  ASSUME RegistryInv, NEW i \in DOMAIN installs, MarkStarted(i) \/ FailInstall(i)
  PROVE  RegistryInv'
<1>1. PICK mark \in {"INSTALLING", "FAILED"} :
          /\ installs' = [installs EXCEPT ![i].status = mark]
          /\ mark = "FAILED" => ~Locked(i)
  BY DEF MarkStarted, FailInstall
<1>2. /\ UNCHANGED <<registryVars, schemaVars, runs, waiting, reads, attempts>>
      /\ installs[i].status \in Executable /\ UNCHANGED versions
  BY DEF MarkStarted, FailInstall, Unstarted, Failable, Executable, schemaVars
<1>3. PICK old \in Installs : old = installs[i]
  BY DomainOfInstalls DEF RegistryInv
<1>4. PICK new : new = [old EXCEPT !.status = mark]
  OBVIOUS
<1>5. /\ new \in Installs /\ new.operation = old.operation /\ new.previous = old.previous
      /\ new.candidate = old.candidate /\ new.status = mark
  BY <1>4 DEF Installs
<1>6. /\ installs' \in [DOMAIN installs -> Installs] /\ installs'[i] = new
      /\ \A k \in DOMAIN installs : k # i => installs'[k] = installs[k]
  <2>1. installs \in [DOMAIN installs -> Installs]
    BY DomainOfInstalls DEF RegistryInv, InstallInv
  <2>2. installs' = [installs EXCEPT ![i] = new]
    BY <1>1, <1>3, <1>4
  <2>3. QED
    BY <1>5, <2>1, <2>2
<1>7. /\ installs' \in Seq(Installs) /\ DOMAIN installs' = DOMAIN installs
      /\ EffectHasCandidate' /\ InstallsFit'
  <2>1. ASSUME NEW k \in DOMAIN installs
        PROVE  /\ installs'[k].operation = installs[k].operation
               /\ installs'[k].previous = installs[k].previous
               /\ installs'[k].candidate \in {0} \cup DOMAIN versions'
               /\ installs'[k].status \in Effective <=> installs'[k].candidate \in DOMAIN versions'
    <3>1. /\ installs[k].candidate \in {0} \cup DOMAIN versions
          /\ installs[k].status \in Effective <=> installs[k].candidate \in DOMAIN versions
      BY DEF RegistryInv, InstallInv, InstallsFit, EffectHasCandidate
    <3>2. CASE k = i
      <4>1. installs[i].status \notin Effective /\ mark \notin Effective
        BY <1>2 DEF Executable, Effective
      <4>2. QED
        BY <1>2, <1>3, <1>5, <1>6, <3>1, <3>2, <4>1
    <3>3. CASE k # i
      BY <1>2, <1>6, <3>1, <3>3
    <3>4. QED
      BY <3>2, <3>3
  <2>2. QED
    BY <1>6, <2>1, RowsRewritten DEF RegistryInv
<1>8. ReadsFit'
  <2>1. ASSUME NEW k \in Ids, Locked(k)
        PROVE  k \in DOMAIN installs' /\ installs'[k].status \in Executable
    <3>1. k \in DOMAIN installs /\ installs[k].status \in Executable
      BY <2>1 DEF RegistryInv, InstallInv, ReadsFit
    <3>2. CASE k = i
      BY <1>1, <1>5, <1>6, <1>7, <2>1, <3>2 DEF Executable
    <3>3. QED
      BY <1>6, <1>7, <3>1, <3>2
  <2>2. QED
    BY <1>2, <2>1 DEF RegistryInv, InstallInv, ReadsFit, Locked, Executable
<1>9. InstallInv'
  BY <1>2, <1>7, <1>8 DEF RegistryInv, InstallInv
<1>10. QED
  BY <1>2, <1>9, SchemaStays

\* An attempt reads, and holds the row from then on.
LEMMA ReadStep ==
  ASSUME RegistryInv, NEW i \in DOMAIN installs, ReadForExecute(i)
  PROVE  RegistryInv'
<1>1. PICK packs \in Resolved(Wanted(i)) :
          reads' = [reads EXCEPT ![i] = [packs |-> packs, local |-> LocalDeclarations,
                      base |-> Baseline, replaced |-> SamePack(i)]]
  BY DEF ReadForExecute
<1>2. /\ UNCHANGED <<registryVars, schemaVars>> /\ UNCHANGED <<installs, runs, waiting, attempts>>
      /\ UNCHANGED versions
      /\ waiting[i] > 0 /\ installs[i].status \in Executable
  BY DEF ReadForExecute, schemaVars, Begins, Concluded
<1>3. /\ DOMAIN installs \subseteq Ids /\ \A k \in DOMAIN installs : installs[k].pack \in PackVersions
  BY DomainOfInstalls DEF RegistryInv, Installs
<1>4. packs \in SUBSET PackVersions /\ Satisfied(packs)
  <2>1. Wanted(i) \in SUBSET PackVersions
    BY <1>3 DEF Wanted, Installed
  <2>2. QED
    BY <2>1, ResolvedIsSatisfied
<1>5. LocalDeclarations \in SUBSET Content
  BY DomainOfVersions DEF RegistryInv, LocalDeclarations, Versions
<1>6. Baseline \in SUBSET Content
  BY BaselineIsContent DEF RegistryInv
<1>7. SamePack(i) \in SUBSET Ids
  BY <1>3 DEF SamePack, Installed
<1>8. PICK read : /\ read = [packs |-> packs, local |-> LocalDeclarations,
                              base |-> Baseline, replaced |-> SamePack(i)]
                  /\ read \in Reads /\ read.packs = packs
  <2>1. PICK read : read = [packs |-> packs, local |-> LocalDeclarations,
                            base |-> Baseline, replaced |-> SamePack(i)]
    OBVIOUS
  <2>2. read \in Reads /\ read.packs = packs
    BY <1>4, <1>5, <1>6, <1>7, <2>1 DEF Reads
  <2>3. QED
    BY <2>1, <2>2
<1>9. /\ reads' \in [Ids -> Reads \cup {NoRead}] /\ reads'[i] = read
      /\ \A k \in Ids : k # i => reads'[k] = reads[k]
  <2>1. reads \in [Ids -> Reads \cup {NoRead}] /\ i \in Ids
    BY <1>3 DEF RegistryInv, InstallInv
  <2>2. reads' = [reads EXCEPT ![i] = read]
    BY <1>1, <1>8
  <2>3. QED
    BY <1>8, <2>1, <2>2
<1>10. ReadsFit'
  <2>1. ASSUME NEW k \in Ids, Locked(k)'
        PROVE  /\ k \in DOMAIN installs /\ installs[k].status \in Executable
               /\ waiting[k] > 0
               /\ reads'[k] \in Reads /\ Satisfied(reads'[k].packs)
    <3>1. CASE k = i
      BY <1>2, <1>4, <1>8, <1>9, <3>1
    <3>2. CASE k # i
      <4>1. Locked(k) /\ reads'[k] = reads[k]
        BY <1>9, <2>1, <3>2 DEF Locked
      <4>2. QED
        BY <4>1 DEF RegistryInv, InstallInv, ReadsFit
    <3>3. QED
      BY <3>1, <3>2
  <2>2. QED
    BY <1>2, <2>1 DEF ReadsFit, Executable
<1>11. EffectHasCandidate' /\ InstallsFit'
  BY <1>2 DEF RegistryInv, InstallInv, EffectHasCandidate, InstallsFit
<1>12. InstallInv'
  BY <1>2, <1>9, <1>10, <1>11 DEF RegistryInv, InstallInv
<1>13. QED
  BY <1>2, <1>12, SchemaStays

\* What ends an attempt that holds its row: the row is free, the others as they were.
LEMMA RowFreed ==
  ASSUME RegistryInv, NEW i \in DOMAIN installs, Locked(i),
         reads' = [reads EXCEPT ![i] = NoRead], Leaves(i)
  PROVE  /\ reads' \in [Ids -> Reads \cup {NoRead}] /\ waiting' \in [Ids -> Nat]
         /\ ~Locked(i)'
         /\ \A k \in Ids : k # i => reads'[k] = reads[k] /\ waiting'[k] = waiting[k]
<1>1. i \in Ids
  BY DomainOfInstalls DEF RegistryInv
<1>2. reads \in [Ids -> Reads \cup {NoRead}] /\ waiting \in [Ids -> Nat] /\ waiting[i] > 0
  BY <1>1 DEF RegistryInv, InstallInv, ReadsFit
<1>3. waiting' = [waiting EXCEPT ![i] = waiting[i] - 1] /\ waiting[i] - 1 \in Nat
  BY <1>1, <1>2 DEF Leaves
<1>4. waiting' \in [Ids -> Nat] /\ \A k \in Ids : k # i => waiting'[k] = waiting[k]
  BY <1>1, <1>2, <1>3
<1>5. /\ reads' \in [Ids -> Reads \cup {NoRead}] /\ reads'[i] = NoRead
      /\ \A k \in Ids : k # i => reads'[k] = reads[k]
  BY <1>1, <1>2
<1>6. QED
  BY <1>4, <1>5 DEF Locked

LEMMA UndoStep ==
  ASSUME RegistryInv, NEW i \in DOMAIN installs, UndoExecute(i)
  PROVE  RegistryInv'
<1>1. /\ UNCHANGED <<registryVars, schemaVars>> /\ UNCHANGED <<installs, runs, attempts>>
      /\ UNCHANGED versions
  BY DEF UndoExecute, schemaVars
<1>2. /\ reads' \in [Ids -> Reads \cup {NoRead}] /\ waiting' \in [Ids -> Nat]
      /\ ~Locked(i)'
      /\ \A k \in Ids : k # i => reads'[k] = reads[k] /\ waiting'[k] = waiting[k]
  BY RowFreed DEF UndoExecute
<1>3. ReadsFit'
  <2>1. \A k \in Ids : Locked(k)' => Locked(k) /\ reads'[k] = reads[k] /\ waiting'[k] = waiting[k]
    BY <1>2 DEF Locked
  <2>2. QED
    BY <1>1, <2>1 DEF RegistryInv, InstallInv, ReadsFit
<1>4. EffectHasCandidate' /\ InstallsFit'
  BY <1>1 DEF RegistryInv, InstallInv, EffectHasCandidate, InstallsFit
<1>5. InstallInv'
  BY <1>1, <1>2, <1>3, <1>4 DEF RegistryInv, InstallInv
<1>6. QED
  BY <1>1, <1>5, SchemaStays

LEMMA ReportTypes ==
  ASSUME RegistryInv, NEW i, NEW at \in RunStates, Report(i, at)
  PROVE  runs' \in [Ids -> RunStates]
BY DEF RegistryInv, InstallInv, Report

\* The candidate and the rows are written.
LEMMA ExecuteStep ==
  ASSUME RegistryInv, NEW i \in DOMAIN installs, ExecuteInstall(i)
  PROVE  RegistryInv'
<1>1. i \in Ids /\ DOMAIN installs \subseteq Ids /\ Locked(i)
  BY DomainOfInstalls DEF RegistryInv, ExecuteInstall
<1>2. /\ installs[i].status \in Executable /\ installs[i].name \in Named
      /\ reads[i] \in Reads /\ Satisfied(reads[i].packs)
  <2>1. installs[i].name \in Named
    BY DomainOfInstalls DEF RegistryInv, Installs
  <2>2. QED
    BY <1>1, <2>1 DEF RegistryInv, InstallInv, ReadsFit
<1>3. PICK d \in Versions : /\ d = Draft(installs[i].name, reads[i].local, reads[i].packs,
                                  Breaking(reads[i].base, Composed(reads[i].local, reads[i].packs)))
                            /\ d.packs = reads[i].packs
  <2>1. reads[i].local \in SUBSET Content /\ reads[i].packs \in SUBSET PackVersions
    BY <1>2 DEF Reads
  <2>2. Breaking(reads[i].base, Composed(reads[i].local, reads[i].packs)) \in BOOLEAN
    BY DEF Breaking
  <2>3. QED
    BY <1>2, <2>1, <2>2, DraftIsVersion
<1>4. PICK n \in Nat : n = Len(versions) /\ DOMAIN versions = 1..n
  BY DomainOfVersions DEF RegistryInv
<1>5. SchemaInv' /\ DOMAIN versions' = 1..(n + 1)
  <2>1. AddVersion(d) /\ UNCHANGED <<published, requests>>
    BY <1>3 DEF ExecuteInstall
  <2>2. QED
    BY <1>2, <1>3, <1>4, <2>1, SchemaGrows DEF RegistryInv
<1>6. PICK new \in Installs : /\ new = [installs[i] EXCEPT !.status = StatusAfter(i), !.candidate = n + 1]
                              /\ new.operation = installs[i].operation /\ new.previous = installs[i].previous
                              /\ new.candidate = n + 1 /\ new.status \in Effective
  <2>1. PICK old \in Installs : old = installs[i]
    BY DomainOfInstalls DEF RegistryInv
  <2>2. PICK mark \in {"DISABLED", "ACTIVE"} : mark = StatusAfter(i)
    BY DEF StatusAfter
  <2>3. PICK new : new = [old EXCEPT !.status = mark, !.candidate = n + 1]
    OBVIOUS
  <2>4. /\ new \in Installs /\ new.operation = old.operation /\ new.previous = old.previous
        /\ new.candidate = n + 1 /\ new.status = mark
    <3>1. n + 1 \in Nat
      OBVIOUS
    <3>2. QED
      BY <2>3, <3>1 DEF Installs
  <2>5. QED
    BY <2>1, <2>2, <2>3, <2>4 DEF Effective
<1>7. /\ installs' = [k \in DOMAIN installs |->
             IF k = i THEN new
             ELSE IF k \in Replaced(i) /\ installs[k].status = "ACTIVE"
             THEN [installs[k] EXCEPT !.status = "DISABLED"] ELSE installs[k]]
      /\ reads' = [reads EXCEPT ![i] = NoRead] /\ Leaves(i)
      /\ Report(i, "succeeded")
      /\ UNCHANGED registryVars /\ UNCHANGED attempts
  BY <1>4, <1>6 DEF ExecuteInstall
<1>8. ASSUME NEW k \in DOMAIN installs, k # i
      PROVE  /\ installs'[k] \in Installs
             /\ installs'[k].operation = installs[k].operation
             /\ installs'[k].previous = installs[k].previous
             /\ installs'[k].candidate = installs[k].candidate
             /\ installs'[k].status \in Effective <=> installs[k].status \in Effective
             /\ installs[k].status # "ACTIVE" => installs'[k] = installs[k]
  <2>1. PICK old \in Installs : old = installs[k]
    BY DomainOfInstalls DEF RegistryInv
  <2>2. installs'[k] = old \/ (old.status = "ACTIVE" /\ installs'[k] = [old EXCEPT !.status = "DISABLED"])
    BY <1>7, <1>8, <2>1
  <2>3. CASE installs'[k] = old
    BY <2>1, <2>3
  <2>4. CASE old.status = "ACTIVE" /\ installs'[k] = [old EXCEPT !.status = "DISABLED"]
    BY <2>1, <2>4 DEF Installs, Effective
  <2>5. QED
    BY <2>2, <2>3, <2>4
<1>9. /\ installs' \in Seq(Installs) /\ DOMAIN installs' = DOMAIN installs
      /\ EffectHasCandidate' /\ InstallsFit'
  <2>1. installs'[i] = new
    BY <1>7
  <2>2. installs' \in [DOMAIN installs -> Installs]
    BY <1>6, <1>7, <1>8, <2>1
  <2>3. ASSUME NEW k \in DOMAIN installs
        PROVE  /\ installs'[k].operation = installs[k].operation
               /\ installs'[k].previous = installs[k].previous
               /\ installs'[k].candidate \in {0} \cup DOMAIN versions'
               /\ installs'[k].status \in Effective <=> installs'[k].candidate \in DOMAIN versions'
    <3>1. CASE k = i
      <4>1. n + 1 \in DOMAIN versions'
        BY <1>5
      <4>2. installs'[k] = new
        BY <2>1, <3>1
      <4>3. QED
        BY <1>6, <3>1, <4>1, <4>2
    <3>2. CASE k # i
      <4>1. /\ installs[k].candidate \in {0} \cup 1..n
            /\ installs[k].status \in Effective <=> installs[k].candidate \in 1..n
        BY <1>4 DEF RegistryInv, InstallInv, InstallsFit, EffectHasCandidate
      <4>2. QED
        BY <1>5, <1>8, <3>2, <4>1
    <3>3. QED
      BY <3>1, <3>2
  <2>4. QED
    BY <2>2, <2>3, RowsRewritten DEF RegistryInv
<1>10. /\ reads' \in [Ids -> Reads \cup {NoRead}] /\ waiting' \in [Ids -> Nat]
       /\ ~Locked(i)'
       /\ \A k \in Ids : k # i => reads'[k] = reads[k] /\ waiting'[k] = waiting[k]
  BY <1>1, <1>7, RowFreed
<1>11. ReadsFit'
  <2>1. ASSUME NEW k \in Ids, Locked(k)'
        PROVE  /\ k \in DOMAIN installs' /\ installs'[k].status \in Executable
               /\ waiting'[k] > 0
               /\ reads'[k] \in Reads /\ Satisfied(reads'[k].packs)
    <3>1. k # i /\ Locked(k) /\ reads'[k] = reads[k] /\ waiting'[k] = waiting[k]
      BY <1>10, <2>1 DEF Locked
    <3>2. /\ k \in DOMAIN installs /\ installs[k].status \in Executable
          /\ waiting[k] > 0 /\ reads[k] \in Reads /\ Satisfied(reads[k].packs)
      BY <3>1 DEF RegistryInv, InstallInv, ReadsFit
    <3>3. installs'[k] = installs[k]
      BY <1>8, <3>1, <3>2 DEF Executable
    <3>4. QED
      BY <1>9, <3>1, <3>2, <3>3
  <2>2. QED
    BY <2>1 DEF ReadsFit, Executable
<1>12. InstallInv'
  <2>1. runs' \in [Ids -> RunStates]
    BY <1>7, ReportTypes DEF RunStates
  <2>2. attempts' \in 0..MaxAttempts
    BY <1>7 DEF RegistryInv, InstallInv
  <2>3. QED
    BY <1>9, <1>10, <1>11, <2>1, <2>2 DEF InstallInv
<1>13. QED
  BY <1>5, <1>7, <1>12 DEF RegistryInv, RegistryTypeOK, registryVars

\* The pointer is set back to an installation that had a candidate.
LEMMA RestoreStep ==
  ASSUME RegistryInv, NEW i \in DOMAIN installs, RestorePointer(i)
  PROVE  RegistryInv'
<1>1. PICK n \in Nat : n = Len(installs) /\ DOMAIN installs = 1..n /\ DOMAIN installs \subseteq Ids
  BY DomainOfInstalls DEF RegistryInv
<1>2. PICK target : target = installs[i].previous
  OBVIOUS
<1>3. /\ installs[i].status \in Executable /\ ~Locked(i) /\ ~Locked(target) /\ waiting[i] > 0
      /\ installs[i].operation = "ROLLBACK" /\ installs[target].candidate # 0
      /\ Leaves(i) /\ Report(i, "succeeded")
      /\ UNCHANGED <<registryVars, schemaVars>> /\ UNCHANGED <<reads, attempts>> /\ UNCHANGED versions
  BY <1>2 DEF RestorePointer, Begins, Concluded, Restorable, schemaVars
<1>4. target \in DOMAIN installs /\ target # i
  <2>1. target \in 1..(i - 1)
    BY <1>2, <1>3 DEF RegistryInv, InstallInv, InstallsFit
  <2>2. QED
    BY <1>1, <2>1
<1>5. \A k \in DOMAIN installs :
          /\ installs[k].candidate \in {0} \cup DOMAIN versions
          /\ installs[k].status \in Effective <=> installs[k].candidate \in DOMAIN versions
  BY DEF RegistryInv, InstallInv, InstallsFit, EffectHasCandidate
<1>6. PICK c : c = installs[target].candidate /\ c \in DOMAIN versions /\ c \in Nat
  BY <1>3, <1>4, <1>5, DomainOfVersions DEF RegistryInv
<1>7. ASSUME NEW k \in DOMAIN installs
      PROVE  /\ installs'[k] \in Installs
             /\ installs'[k].operation = installs[k].operation
             /\ installs'[k].previous = installs[k].previous
             /\ installs'[k].candidate \in {0} \cup DOMAIN versions
             /\ installs'[k].status \in Effective <=> installs'[k].candidate \in DOMAIN versions
             /\ k # i /\ k # target /\ installs[k].status # "ACTIVE" => installs'[k] = installs[k]
  <2>1. PICK old \in Installs : old = installs[k]
    BY <1>7, DomainOfInstalls DEF RegistryInv
  <2>2. \/ k = i /\ installs'[k] = [old EXCEPT !.status = "ROLLED_BACK", !.candidate = c]
        \/ k = target /\ installs'[k] = [old EXCEPT !.status = "ACTIVE"]
        \/ old.status = "ACTIVE" /\ installs'[k] = [old EXCEPT !.status = "DISABLED"]
        \/ installs'[k] = old
    BY <1>2, <1>4, <1>6, <2>1 DEF RestorePointer
  <2>3. CASE k = i /\ installs'[k] = [old EXCEPT !.status = "ROLLED_BACK", !.candidate = c]
    BY <1>6, <2>1, <2>3 DEF Installs, Effective
  <2>4. CASE k = target /\ installs'[k] = [old EXCEPT !.status = "ACTIVE"]
    BY <1>6, <2>1, <2>4 DEF Installs, Effective
  <2>5. CASE old.status = "ACTIVE" /\ installs'[k] = [old EXCEPT !.status = "DISABLED"]
    BY <1>5, <2>1, <2>5 DEF Installs, Effective
  <2>6. CASE installs'[k] = old
    BY <1>5, <2>1, <2>6
  <2>7. QED
    BY <2>2, <2>3, <2>4, <2>5, <2>6
<1>8. DOMAIN installs' = DOMAIN installs
  BY DEF RestorePointer
<1>9. installs' \in Seq(Installs) /\ EffectHasCandidate' /\ InstallsFit'
  <2>1. installs' \in [DOMAIN installs -> Installs]
    <3> DEFINE row(k) ==
            CASE k = i -> [installs[k] EXCEPT !.status = "ROLLED_BACK",
                                              !.candidate = installs[installs[i].previous].candidate]
              [] k = installs[i].previous -> [installs[k] EXCEPT !.status = "ACTIVE"]
              [] OTHER -> IF installs[k].status = "ACTIVE"
                          THEN [installs[k] EXCEPT !.status = "DISABLED"] ELSE installs[k]
    <3>1. installs' = [k \in DOMAIN installs |-> row(k)]
      BY DEF RestorePointer
    <3> HIDE DEF row
    <3>2. QED
      BY <1>7, <3>1
  <2>2. QED
    BY <1>3, <1>7, <2>1, RowsRewritten DEF RegistryInv
<1>10. waiting' \in [Ids -> Nat] /\ \A k \in Ids : k # i => waiting'[k] = waiting[k]
  <2>1. waiting \in [Ids -> Nat] /\ i \in Ids
    BY <1>1 DEF RegistryInv, InstallInv
  <2>2. waiting' = [waiting EXCEPT ![i] = waiting[i] - 1] /\ waiting[i] - 1 \in Nat
    BY <1>3, <2>1 DEF Leaves
  <2>3. QED
    BY <2>1, <2>2
<1>11. ReadsFit'
  <2>1. ASSUME NEW k \in Ids, Locked(k)'
        PROVE  /\ k \in DOMAIN installs' /\ installs'[k].status \in Executable
               /\ waiting'[k] > 0
               /\ reads'[k] \in Reads /\ Satisfied(reads'[k].packs)
    <3>1. Locked(k) /\ k # i /\ k # target /\ reads'[k] = reads[k]
      BY <1>3, <2>1 DEF Locked
    <3>2. /\ k \in DOMAIN installs /\ installs[k].status \in Executable
          /\ waiting[k] > 0 /\ reads[k] \in Reads /\ Satisfied(reads[k].packs)
      BY <3>1 DEF RegistryInv, InstallInv, ReadsFit
    <3>3. installs'[k] = installs[k]
      BY <1>7, <3>1, <3>2 DEF Executable
    <3>4. QED
      BY <1>8, <1>10, <3>1, <3>2, <3>3
  <2>2. QED
    BY <2>1 DEF ReadsFit, Executable
<1>12. InstallInv'
  <2>1. runs' \in [Ids -> RunStates]
    BY <1>3, ReportTypes DEF RunStates
  <2>2. attempts' \in 0..MaxAttempts /\ reads' \in [Ids -> Reads \cup {NoRead}]
    BY <1>3 DEF RegistryInv, InstallInv
  <2>3. QED
    BY <1>9, <1>10, <1>11, <2>1, <2>2 DEF InstallInv
<1>13. QED
  BY <1>3, <1>12, SchemaStays

LEMMA RegistryInvInit == InstallInit => RegistryInv
<1> SUFFICES ASSUME InstallInit PROVE RegistryInv
  OBVIOUS
<1>1. RegistryTypeOK
  BY PackAssumption DEF InstallInit, RegistryInit, RegistryTypeOK, KeyStatuses
<1>2. SchemaInv
  BY DEF InstallInit, SchemaInv, CompositionsAreClosed, RequestsFit, PublishedExist
<1>3. InstallInv
  <2>1. /\ installs = << >> /\ runs = [i \in Ids |-> "none"] /\ attempts = 0
        /\ waiting = [i \in Ids |-> 0] /\ reads = [i \in Ids |-> NoRead]
    BY DEF InstallInit
  <2>2. EffectHasCandidate /\ InstallsFit
    BY <2>1, InstallBounds DEF EffectHasCandidate, InstallsFit
  <2>3. ReadsFit
    BY <2>1 DEF ReadsFit, Locked
  <2>4. QED
    BY <2>1, <2>2, <2>3, InstallBounds DEF InstallInv, RunStates
<1>4. QED
  BY <1>1, <1>2, <1>3 DEF RegistryInv

LEMMA RegistryInvNext == RegistryInv /\ [InstallNext]_allVars => RegistryInv'
<1> SUFFICES ASSUME RegistryInv, [InstallNext]_allVars PROVE RegistryInv'
  OBVIOUS
<1>1. CASE UserNext
  <2>1. ASSUME NEW name \in Names, NEW local \in Locals,
               \/ CreateSchema(name, local) \/ CreateSchemaVersion(name, local)
               \/ \E roots \in Compositions : ComposeSchema(name, local, roots)
        PROVE  RegistryInv'
    BY <2>1, UserDraftStep
  <2>2. ASSUME NEW v \in DOMAIN versions, ReadForValidate(v) \/ ReadForPublish(v) \/ ReadForDeprecate(v)
        PROVE  RegistryInv'
    BY <2>2, AskStep
  <2>3. CASE AskRegistry /\ UNCHANGED <<schemaVars, installVars>>
    BY <2>3, RegistryStep
  <2>4. CASE \/ \E operation \in {"INSTALL", "UPGRADE"}, pack \in PackVersions, name \in Names :
                    Install(operation, pack, name)
             \/ \E i \in DOMAIN installs : Control(i, "DISABLE") \/ Control(i, "ROLLBACK")
    BY <2>4, UserInstallStep
  <2>5. QED
    BY <1>1, <2>1, <2>2, <2>3, <2>4 DEF UserNext
<1>2. ASSUME NEW p \in PackVersions, RegisterPack(p) /\ UNCHANGED <<schemaVars, installVars>>
      PROVE  RegistryInv'
  BY <1>2, RegistryStep
<1>3. ASSUME NEW r \in requests, ValidateSchema(r) \/ PublishSchema(r) \/ DeprecateSchema(r)
      PROVE  RegistryInv'
  BY <1>3, RequestStep
<1>4. ASSUME NEW i \in DOMAIN installs,
             \/ StartInstall(i) \/ MarkStarted(i) \/ Schedule(i) \/ GiveUp(i)
             \/ AlreadyDone(i) \/ Refused(i) \/ ReadForExecute(i)
             \/ ExecuteInstall(i) \/ UndoExecute(i) \/ RestorePointer(i) \/ FailInstall(i)
      PROVE  RegistryInv'
  BY <1>4, AttemptStep, MarkStep, ReadStep, ExecuteStep, UndoStep, RestoreStep
<1>5. CASE UNCHANGED allVars
  <2>1. UNCHANGED <<registryVars, schemaVars>> /\ UNCHANGED installVars /\ UNCHANGED versions
    BY <1>5 DEF allVars, schemaVars
  <2>2. InstallInv'
    BY <2>1, InstallsStay
  <2>3. QED
    BY <2>1, <2>2, SchemaStays
<1>6. QED
  BY <1>1, <1>2, <1>3, <1>4, <1>5 DEF InstallNext

LEMMA RegistryInvariance == InstallSpec => []RegistryInv
<1>1. QED
  BY RegistryInvInit, RegistryInvNext, PTL DEF InstallSpec

\* Installations, schema versions and packs fit together, in every state: what took effect
\* has a candidate, and what a version is composed of is complete.
THEOREM InstallRows == InstallSpec => []InstallRowsFit
<1>1. RegistryInv => InstallRowsFit
  BY DEF RegistryInv, SchemaInv, InstallInv, InstallRowsFit, InstallTypeOK
<1>2. QED
  BY <1>1, RegistryInvariance, PTL

\* What an installation has become is never taken back, nor its candidate exchanged,
\* whatever marks and attempts come late.
THEOREM EffectIsNeverUndone == InstallSpec => EffectIsKept
<1> DEFINE Kept == \A i \in DOMAIN installs :
          /\ installs[i].candidate # 0 => installs'[i].candidate = installs[i].candidate
          /\ (installs[i].status \in Effective \cup {"FAILED"})
                => installs'[i].status \notin {"PLANNED", "INSTALLING"}
          /\ installs[i].status = "FAILED" => installs'[i].status = "FAILED"
<1>1. RegistryInv /\ [InstallNext]_allVars => [Kept]_allVars
  <2> SUFFICES ASSUME RegistryInv, InstallNext PROVE Kept
    OBVIOUS
  <2>1. /\ installs \in Seq(Installs) /\ \A i \in DOMAIN installs : installs[i] \in Installs
        /\ \A i \in DOMAIN installs :
               /\ installs[i].candidate \in {0} \cup DOMAIN versions
               /\ installs[i].status \in Effective <=> installs[i].candidate \in DOMAIN versions
        /\ 0 \notin DOMAIN versions
    BY DomainOfInstalls, DomainOfVersions DEF RegistryInv, InstallInv, InstallsFit, EffectHasCandidate
  <2>2. ASSUME UNCHANGED installs PROVE Kept
    BY <2>2 DEF Effective
  <2>3. ASSUME NEW operation, NEW pack, NEW previous, NEW name, CreateInstallation(operation, pack, previous, name)
        PROVE  Kept
    <3>1. PICK row : installs' = Append(installs, row)
      BY <2>3 DEF CreateInstallation
    <3>2. \A i \in DOMAIN installs : installs'[i] = installs[i]
      BY <2>1, <3>1
    <3>3. QED
      BY <3>2 DEF Effective
  <2>4. ASSUME NEW i \in DOMAIN installs, MarkStarted(i) \/ FailInstall(i) PROVE Kept
    <3>1. /\ installs[i].status \in Executable
          /\ \E mark : installs' = [installs EXCEPT ![i].status = mark]
      BY <2>4 DEF MarkStarted, FailInstall, Unstarted, Failable, Executable
    <3>2. ASSUME NEW k \in DOMAIN installs
          PROVE  /\ installs'[k].candidate = installs[k].candidate
                 /\ k # i => installs'[k] = installs[k]
      <4>1. PICK old \in Installs : old = installs[k]
        BY <2>1
      <4>2. installs'[k] = old \/ \E mark : installs'[k] = [old EXCEPT !.status = mark]
        BY <3>1, <4>1
      <4>3. installs'[k].candidate = old.candidate
        BY <4>2 DEF Installs
      <4>4. QED
        BY <3>1, <4>1, <4>3
    <3>3. QED
      BY <3>1, <3>2 DEF Effective, Executable
  <2>5. ASSUME NEW i \in DOMAIN installs, ExecuteInstall(i) \/ RestorePointer(i) PROVE Kept
    <3>1. installs[i].status \in Executable
      <4>1. CASE ExecuteInstall(i)
        BY <4>1, DomainOfInstalls DEF RegistryInv, InstallInv, ReadsFit, ExecuteInstall
      <4>2. CASE RestorePointer(i)
        BY <4>2 DEF RestorePointer, Concluded
      <4>3. QED
        BY <2>5, <4>1, <4>2
    <3>2. installs[i].candidate = 0
      BY <2>1, <3>1 DEF Effective, Executable
    <3>3. ASSUME NEW k \in DOMAIN installs, k # i
          PROVE  \/ installs'[k] = installs[k]
                 \/ /\ installs[k].status \in Effective
                    /\ installs'[k].candidate = installs[k].candidate
                    /\ installs'[k].status \in {"ACTIVE", "DISABLED"}
      <4>1. PICK old \in Installs : old = installs[k]
        BY <2>1
      <4>2. ASSUME NEW mark \in {"ACTIVE", "DISABLED"}, installs'[k] = [old EXCEPT !.status = mark]
            PROVE  installs'[k].candidate = old.candidate /\ installs'[k].status = mark
        BY <4>2 DEF Installs
      <4>3. CASE ExecuteInstall(i)
        <5>1. installs'[k] = old \/ (old.status = "ACTIVE" /\ installs'[k] = [old EXCEPT !.status = "DISABLED"])
          BY <3>3, <4>1, <4>3 DEF ExecuteInstall
        <5>2. QED
          BY <4>1, <4>2, <5>1 DEF Effective
      <4>4. CASE RestorePointer(i)
        <5>1. PICK target : target = installs[i].previous
          OBVIOUS
        <5>2. installs[target].candidate # 0
          BY <4>4, <5>1 DEF RestorePointer, Restorable
        <5>3. \/ k = target /\ installs'[k] = [old EXCEPT !.status = "ACTIVE"]
              \/ old.status = "ACTIVE" /\ installs'[k] = [old EXCEPT !.status = "DISABLED"]
              \/ installs'[k] = old
          BY <3>3, <4>1, <4>4, <5>1 DEF RestorePointer
        <5>4. k = target => old.status \in Effective
          BY <2>1, <4>1, <5>2
        <5>5. QED
          BY <4>1, <4>2, <5>3, <5>4 DEF Effective
      <4>5. QED
        BY <2>5, <4>3, <4>4
    <3>4. QED
      BY <3>1, <3>2, <3>3 DEF Effective, Executable
  <2>6. UNCHANGED installs \/ Kept
    <3>1. CASE UserNext
      BY <2>3, <3>1 DEF UserNext, Install, Control, CreateSchema, CreateSchemaVersion, ComposeSchema, CreateDraft,
                        ReadForValidate, ReadForPublish, ReadForDeprecate, Ask, installVars
    <3>2. ASSUME NEW p \in PackVersions, RegisterPack(p) /\ UNCHANGED <<schemaVars, installVars>>
          PROVE  UNCHANGED installs
      BY <3>2 DEF installVars
    <3>3. ASSUME NEW r \in requests, ValidateSchema(r) \/ PublishSchema(r) \/ DeprecateSchema(r)
          PROVE  UNCHANGED installs
      BY <3>3 DEF ValidateSchema, PublishSchema, DeprecateSchema, installVars
    <3>4. ASSUME NEW i \in DOMAIN installs,
                 \/ StartInstall(i) \/ Schedule(i) \/ GiveUp(i)
                 \/ AlreadyDone(i) \/ Refused(i) \/ ReadForExecute(i) \/ UndoExecute(i)
          PROVE  UNCHANGED installs
      BY <3>4 DEF StartInstall, Schedule, GiveUp, AlreadyDone, Refused, ReadForExecute, UndoExecute
    <3>5. QED
      BY <2>4, <2>5, <3>1, <3>2, <3>3, <3>4 DEF InstallNext
  <2>7. QED
    BY <2>2, <2>6
<1>2. QED
  BY <1>1, RegistryInvariance, PTL DEF InstallSpec, EffectIsKept

\* A version is published once, from TESTING, without a breaking verdict, and DEPRECATED
\* is the end of it, though each is decided on what was read in another transaction.
THEOREM PublicationIsFinal == InstallSpec => PublishedOnce
<1> DEFINE Once == \A v \in DOMAIN versions :
          /\ versions'[v].status = "PUBLISHED" /\ versions[v].status # "PUBLISHED"
                => versions[v].status = "TESTING" /\ ~versions[v].breaking
          /\ versions[v].status = "DEPRECATED" => versions'[v] = versions[v]
          /\ versions'[v].content = versions[v].content
<1>1. RegistryInv /\ [InstallNext]_allVars => [Once]_allVars
  <2> SUFFICES ASSUME RegistryInv, InstallNext PROVE Once
    OBVIOUS
  <2>1. versions \in Seq(Versions) /\ \A v \in DOMAIN versions : versions[v] \in Versions
    BY DomainOfVersions DEF RegistryInv, SchemaInv
  <2>2. ASSUME UNCHANGED versions PROVE Once
    BY <2>2
  <2>3. ASSUME NEW d, AddVersion(d) PROVE Once
    <3>1. \A v \in DOMAIN versions : versions'[v] = versions[v]
      BY <2>1, <2>3 DEF AddVersion
    <3>2. QED
      BY <3>1
  <2>4. ASSUME NEW u \in DOMAIN versions, NEW mark, NEW breaking, Revise(u, mark, breaking),
               versions[u].status # "DEPRECATED",
               mark = "PUBLISHED" => versions[u].status = "TESTING" /\ ~versions[u].breaking
        PROVE  Once
    <3>1. PICK old \in Versions : old = versions[u]
      BY <2>1
    <3>2. /\ versions'[u] = [old EXCEPT !.status = mark, !.breaking = breaking, !.etag = old.etag + 1]
          /\ \A v \in DOMAIN versions : v # u => versions'[v] = versions[v]
      BY <2>1, <2>4, <3>1 DEF Revise, Versions
    <3>3. versions'[u].status = mark /\ versions'[u].content = old.content
      BY <3>2 DEF Versions
    <3>4. QED
      BY <2>4, <3>1, <3>2, <3>3
  <2>5. ASSUME NEW r \in requests, ValidateSchema(r) \/ PublishSchema(r) \/ DeprecateSchema(r)
        PROVE  Once
    <3>1. /\ r.v \in DOMAIN versions
          /\ r.etag = versions[r.v].etag /\ r.kind = "publish"
                 => versions[r.v].status = "TESTING" /\ ~versions[r.v].breaking
      BY DEF RegistryInv, SchemaInv, RequestsFit
    <3>2. CASE ValidateSchema(r)
      <4>1. \/ UNCHANGED versions
            \/ /\ Revise(r.v, "TESTING", Breaking(r.base, versions[r.v].content))
               /\ versions[r.v].status = "DRAFT"
        BY <3>2 DEF ValidateSchema
      <4>2. QED
        BY <2>2, <2>4, <3>1, <4>1
    <3>3. CASE PublishSchema(r)
      <4>1. \/ UNCHANGED versions
            \/ /\ Revise(r.v, "PUBLISHED", versions[r.v].breaking)
               /\ versions[r.v].status = "TESTING" /\ ~versions[r.v].breaking
        BY <3>1, <3>3 DEF PublishSchema, Unchanged
      <4>2. QED
        BY <2>2, <2>4, <3>1, <4>1
    <3>4. CASE DeprecateSchema(r)
      <4>1. \/ UNCHANGED versions
            \/ /\ Revise(r.v, "DEPRECATED", versions[r.v].breaking)
               /\ versions[r.v].status = "PUBLISHED"
        BY <3>4 DEF DeprecateSchema
      <4>2. QED
        BY <2>2, <2>4, <3>1, <4>1
    <3>5. QED
      BY <2>5, <3>2, <3>3, <3>4
  <2>6. UNCHANGED versions \/ Once
    <3>1. CASE UserNext
      BY <2>3, <3>1 DEF UserNext, Install, Control, CreateInstallation, CreateSchema, CreateSchemaVersion,
                        ComposeSchema, CreateDraft, ReadForValidate, ReadForPublish, ReadForDeprecate, Ask,
                        schemaVars
    <3>2. ASSUME NEW p \in PackVersions, RegisterPack(p) /\ UNCHANGED <<schemaVars, installVars>>
          PROVE  UNCHANGED versions
      BY <3>2 DEF schemaVars
    <3>3. ASSUME NEW i \in DOMAIN installs, ExecuteInstall(i) PROVE Once
      BY <2>3, <3>3 DEF ExecuteInstall
    <3>4. ASSUME NEW i \in DOMAIN installs,
                 \/ StartInstall(i) \/ MarkStarted(i) \/ Schedule(i) \/ GiveUp(i)
                 \/ AlreadyDone(i) \/ Refused(i) \/ ReadForExecute(i) \/ UndoExecute(i)
                 \/ RestorePointer(i) \/ FailInstall(i)
          PROVE  UNCHANGED versions
      BY <3>4 DEF StartInstall, MarkStarted, Schedule, GiveUp, AlreadyDone, Refused, ReadForExecute, UndoExecute,
                  RestorePointer, FailInstall, schemaVars
    <3>5. QED
      BY <2>5, <3>1, <3>2, <3>3, <3>4 DEF InstallNext
  <2>7. QED
    BY <2>2, <2>6
<1>2. QED
  BY <1>1, RegistryInvariance, PTL DEF InstallSpec, PublishedOnce
=============================================================================
