----------------------- MODULE KnowledgeReleaseProofs -----------------------
(***************************************************************************)
(* Theorems about KnowledgeRelease for every set of candidates, people,    *)
(* versions, sources and channels and every number of attempts.            *)
(***************************************************************************)
EXTENDS KnowledgeRelease, TLAPS

-----------------------------------------------------------------------------
(* The inductive invariant *)

\* A candidate that exists has the creator and the version it was created with.
CreatedOnce ==
    /\ \A c \in Candidates : status[c] # "NONE" => version[c] \in Versions
    /\ \A c, d \in Candidates : version[c] = version[d] /\ version[c] # None => c = d

\* The first approval moves the candidate on for good, so it is the only one.
ApprovedOnce ==
    /\ \A p \in approvals : /\ status[p.cand] \in {"APPROVED", "PUBLISHED"}
                            /\ p.actor # creator[p.cand]
    /\ \A p, q \in approvals : p.cand = q.cand => p = q

\* A release is of a published candidate, under its version, in the name of
\* its approver; a published candidate has exactly one.
ReleasedOnce ==
    /\ \A i \in DOMAIN releases :
          LET r == releases[i] IN
          /\ status[r.cand] = "PUBLISHED"
          /\ r.version = version[r.cand]
          /\ ApprovalsBy(r.cand, r.actor) # {}
    /\ \A c \in Candidates : status[c] = "PUBLISHED" => ReleasesOf(c) # {}
    /\ \A i, j \in DOMAIN releases : releases[i].cand = releases[j].cand => i = j

\* What a publication found is still so while it holds its locks.
LocksHold ==
    /\ \A m, n \in locking : m = n
    /\ \A m \in locking :
          /\ status[m.cand] = "APPROVED"
          /\ ReleasesOf(m.cand) = {}
          /\ ApprovalsBy(m.cand, m.actor) # {}
          /\ m.actor \in members \cap Publishers /\ Evaluable(m.cand)
          /\ sources[m.cand] \cap lost = {}
          /\ blockers = {}

\* Nothing runs for a candidate that does not exist.
Started ==
    \A c \in Candidates :
        status[c] = "NONE" => pc[c] = "none" /\ \A m \in live : m.cand # c

IInv == TypeOK /\ Started /\ CreatedOnce /\ ApprovedOnce /\ ReleasedOnce /\ LocksHold

-----------------------------------------------------------------------------
(* Types *)

\* _move_pointer writes a well-formed pointer and history row.
LEMMA MoveTypes ==
  ASSUME PointerTypes, NEW ch \in Channels, NEW r \in Nat, MovePointer(ch, r),
         UNCHANGED <<deprecated, etag>>
  PROVE  PointerTypes'
<1>1. pointer[ch].release \in Nat /\ pointer[ch].version \in Nat
  BY DEF PointerTypes
<1>2. pointer' \in [Channels -> [release : Nat, version : Nat]]
  BY <1>1 DEF MovePointer, PointerTypes
<1>3. history' \in [Channels -> Seq(Moves)]
  <2>1. [old |-> pointer[ch].release, new |-> r, version |-> pointer[ch].version + 1] \in Moves
    BY <1>1 DEF Moves
  <2>2. history[ch] \in Seq(Moves)
    BY DEF PointerTypes
  <2>3. QED
    BY <2>1, <2>2 DEF MovePointer, PointerTypes
<1>4. QED
  BY <1>2, <1>3 DEF PointerTypes

\* The report of an attempt keeps the types of the workflow's state.
LEMMA ReportTypes ==
  ASSUME TypeOK, NEW m \in live, NEW place \in Places, Report(m, place)
  PROVE  WorkflowTypes'
BY DEF Report, TypeOK, WorkflowTypes, Attempts

\* Every step of Next keeps the types of the component's state.
LEMMA TypeStep == IInv /\ [Next]_vars => TypeOK'
<1> SUFFICES ASSUME IInv, [Next]_vars PROVE TypeOK'
  OBVIOUS
<1> USE RolesAssumption, BoundAssumption
    DEF IInv, TypeOK, candidateVars, pointerVars, gateVars, workflowVars, callVars
<1>0. DOMAIN releases \subseteq Nat
  BY DEF CandidateTypes
<1>1. ASSUME NEW c \in Candidates, NEW a \in Makers, NEW v \in Versions, NEW S \in SUBSET Sources,
             CreateCandidate(c, a, v, S)
      PROVE  TypeOK'
  <2>1. CandidateTypes'
    BY <1>1 DEF CreateCandidate, CandidateTypes, Statuses, Approvals, Releases
  <2>2. PointerTypes' /\ GateTypes' /\ WorkflowTypes' /\ CallTypes'
    BY <1>1 DEF CreateCandidate,
              PointerTypes, GateTypes, WorkflowTypes, CallTypes
  <2>3. QED
    BY <2>1, <2>2
<1>2. ASSUME NEW c \in Candidates,
             StartWorkflow(c)
      PROVE  TypeOK'
  <2>1. WorkflowTypes'
    BY <1>2 DEF StartWorkflow, WorkflowTypes, Attempts, Places, Waiting, Closed
  <2>2. CandidateTypes' /\ PointerTypes' /\ GateTypes' /\ CallTypes'
    BY <1>2 DEF StartWorkflow,
              CandidateTypes, PointerTypes, GateTypes, CallTypes
  <2>3. QED
    BY <2>1, <2>2
<1>3. ASSUME NEW c \in Candidates, NEW a \in Publishers, NEW ch \in Channels, NEW k \in Keys,
             RecordApproval(c, a, ch, k)
      PROVE  TypeOK'
  <2>1. CandidateTypes'
    BY <1>3 DEF RecordApproval, CandidateTypes, Statuses, Approvals, Releases
  <2>2. CallTypes'
    BY <1>3 DEF RecordApproval, CallTypes, Commands
  <2>3. PointerTypes' /\ GateTypes' /\ WorkflowTypes'
    BY <1>3 DEF RecordApproval,
              PointerTypes, GateTypes, WorkflowTypes
  <2>4. QED
    BY <2>1, <2>2, <2>3
<1>4. ASSUME NEW c \in Candidates, NEW a \in Reviewers,
             NEW act \in {"APPROVED", "REJECTED"}, NEW k \in Keys,
             GenericCommand(c, a, act, k)
      PROVE  TypeOK'
  <2>1. CallTypes'
    BY <1>4 DEF GenericCommand, CallTypes, Commands
  <2>2. CandidateTypes' /\ PointerTypes' /\ GateTypes' /\ WorkflowTypes'
    BY <1>4 DEF GenericCommand,
              CandidateTypes, PointerTypes, GateTypes, WorkflowTypes
  <2>3. QED
    BY <2>1, <2>2
<1>5. ASSUME NEW o \in Operators, NEW ch \in Channels,
             ReadPointer(o, ch)
      PROVE  TypeOK'
  <2>1. PointerTypes'
    BY <1>5 DEF ReadPointer, PointerTypes, Moves
  <2>2. CandidateTypes' /\ GateTypes' /\ WorkflowTypes' /\ CallTypes'
    BY <1>5 DEF ReadPointer,
              CandidateTypes, GateTypes, WorkflowTypes, CallTypes
  <2>3. QED
    BY <2>1, <2>2
<1>6. ASSUME NEW o \in Operators, NEW r \in DOMAIN releases,
             SwitchPointer(o, r)
      PROVE  TypeOK'
  <2>1. PointerTypes'
    BY <1>0, <1>6, MoveTypes DEF SwitchPointer, PointerTypes
  <2>2. CandidateTypes' /\ GateTypes' /\ WorkflowTypes' /\ CallTypes'
    BY <1>6 DEF SwitchPointer, MovePointer,
              CandidateTypes, GateTypes, WorkflowTypes, CallTypes
  <2>3. QED
    BY <2>1, <2>2
<1>7. ASSUME NEW r \in DOMAIN releases,
             Deprecate(r)
      PROVE  TypeOK'
  <2>1. PointerTypes'
    BY <1>0, <1>7 DEF Deprecate, PointerTypes, Moves
  <2>2. CandidateTypes' /\ GateTypes' /\ WorkflowTypes' /\ CallTypes'
    BY <1>7 DEF Deprecate,
              CandidateTypes, GateTypes, WorkflowTypes, CallTypes
  <2>3. QED
    BY <2>1, <2>2
<1>8. CASE Gate
  <2>1. GateTypes'
    BY <1>8 DEF Gate, ChangeMembership, LoseSource, ChangeConflict, ChangeQuality,
                OnlyGateChanges, GateTypes
  <2>2. CandidateTypes' /\ PointerTypes' /\ WorkflowTypes' /\ CallTypes'
    BY <1>8 DEF Gate, ChangeMembership, LoseSource, ChangeConflict, ChangeQuality, OnlyGateChanges,
              CandidateTypes, PointerTypes, WorkflowTypes, CallTypes
  <2>3. QED
    BY <2>1, <2>2
<1>9. ASSUME NEW c \in Candidates,
             WorkflowStep(c)
      PROVE  TypeOK'
  <2>1. WorkflowTypes'
    BY <1>9 DEF WorkflowStep, Begin, Announced, ApprovalTimeout, Escalated, Resume, Dispatch,
                Abort, OnlyWorkflowMoves, WorkflowTypes, Attempts, Places, Waiting, Closed
  <2>2. CandidateTypes' /\ PointerTypes' /\ GateTypes' /\ CallTypes'
    BY <1>9 DEF WorkflowStep, Begin, Announced, ApprovalTimeout, Escalated, Resume, Dispatch,
                Abort, OnlyWorkflowMoves,
              CandidateTypes, PointerTypes, GateTypes, CallTypes
  <2>3. QED
    BY <2>1, <2>2
<1>10. ASSUME NEW m \in pending,
             AcceptCommand(m) \/ RefuseCommand(m)
      PROVE  TypeOK'
  <2>1. m \in Commands
    BY DEF CallTypes
  <2>2. WorkflowTypes'
    BY <1>10, <2>1 DEF AcceptCommand, RefuseCommand, WorkflowTypes, Commands
  <2>3. CallTypes'
    BY <1>10 DEF AcceptCommand, RefuseCommand, CallTypes, Commands
  <2>4. CandidateTypes' /\ PointerTypes' /\ GateTypes'
    BY <1>10 DEF AcceptCommand, RefuseCommand,
              CandidateTypes, PointerTypes, GateTypes
  <2>5. QED
    BY <2>1, <2>2, <2>3, <2>4
<1>11. ASSUME NEW m \in live, RunAttempt(m)
       PROVE  TypeOK'
  <2>0. m \in Attempts
    BY DEF WorkflowTypes
  <2> USE <2>0 DEF Attempts
  <2>1. GateTypes' /\ CallTypes'
    BY <1>11 DEF RunAttempt, ValidationCached, ValidationPasses, ValidationFails,
                 ValidationRaises, PublishAgain, PublishChecks, PublishCommits,
                 PublishRollsBack, PublishRefused, Report, GateTypes, CallTypes
  <2>2. CASE \/ ValidationCached(m) \/ ValidationPasses(m) \/ ValidationFails(m)
             \/ PublishAgain(m) \/ PublishRefused(m)
    <3>1. WorkflowTypes'
      BY <2>2, ReportTypes
         DEF ValidationCached, ValidationPasses, ValidationFails, PublishAgain,
             PublishRefused, Places, Waiting, Closed
    <3>2. CandidateTypes'
      BY <2>2 DEF ValidationCached, ValidationPasses, ValidationFails, PublishAgain,
                  PublishRefused, CandidateTypes, Statuses
    <3>3. PointerTypes'
      BY <2>2 DEF ValidationCached, ValidationPasses, ValidationFails, PublishAgain,
                  PublishRefused, Report, PointerTypes
    <3>4. QED
      BY <2>1, <3>1, <3>2, <3>3
  <2>3. CASE ValidationRaises(m) \/ PublishChecks(m) \/ PublishRollsBack(m)
    <3>1. CandidateTypes' /\ PointerTypes'
      BY <2>3 DEF ValidationRaises, PublishChecks, PublishRollsBack, CandidateTypes, PointerTypes
    <3>2. WorkflowTypes'
      <4>1. CASE ValidationRaises(m)
        <5>1. m \notin locking
          BY <4>1 DEF ValidationRaises, Unlocked
        <5>2. QED
          BY <4>1, <5>1 DEF ValidationRaises, WorkflowTypes
      <4>2. CASE PublishChecks(m) \/ PublishRollsBack(m)
        BY <4>2 DEF PublishChecks, PublishRollsBack, WorkflowTypes
      <4>3. QED
        BY <2>3, <4>1, <4>2
    <3>3. QED
      BY <2>1, <3>1, <3>2
  <2>4. CASE PublishCommits(m)
    <3>1. PICK p \in ApprovalsBy(m.cand, m.actor) :
             /\ releases' = Append(releases, [cand |-> m.cand, version |-> version[m.cand],
                                              actor |-> m.actor])
             /\ MovePointer(p.channel, Len(releases) + 1)
      BY <2>4 DEF PublishCommits
    <3>2. p \in Approvals
      BY DEF ApprovalsBy, CandidateTypes
    <3>3. [cand |-> m.cand, version |-> version[m.cand], actor |-> m.actor] \in Releases
      <4>1. version[m.cand] \in Versions
        BY <2>4 DEF PublishCommits, LocksHold, CreatedOnce
      <4>2. m.actor \in Actors
        BY <3>2 DEF ApprovalsBy, Approvals
      <4>3. QED
        BY <4>1, <4>2 DEF Releases
    <3>4. CandidateTypes'
      BY <2>4, <3>1, <3>3 DEF PublishCommits, CandidateTypes, Statuses
    <3>5. PointerTypes'
      <4>1. Len(releases) + 1 \in Nat /\ p.channel \in Channels
        BY <3>2 DEF CandidateTypes, Approvals
      <4>2. QED
        BY <2>4, <3>1, <4>1, MoveTypes DEF PublishCommits, Report
    <3>6. WorkflowTypes'
      BY <2>4, ReportTypes DEF PublishCommits, Places, Closed
    <3>7. QED
      BY <2>1, <3>4, <3>5, <3>6
  <2>5. QED
    BY <1>11, <2>2, <2>3, <2>4 DEF RunAttempt
<1>12. CASE UNCHANGED vars
  BY <1>12 DEF vars, CandidateTypes, PointerTypes, GateTypes, WorkflowTypes, CallTypes
<1>13. QED
  BY <1>1, <1>2, <1>3, <1>4, <1>5, <1>6, <1>7, <1>8, <1>9, <1>10, <1>11, <1>12
     DEF Next, Requests

-----------------------------------------------------------------------------
(* The invariant is inductive *)

\* An empty space satisfies the invariant.
LEMMA InvInit == Init => IInv
<1> SUFFICES ASSUME Init PROVE IInv
  OBVIOUS
<1> USE DEF Init
<1>1. TypeOK
  BY BoundAssumption
     DEF TypeOK, CandidateTypes, PointerTypes, GateTypes, WorkflowTypes, CallTypes,
         Statuses, Places
<1>2. Started /\ CreatedOnce /\ ApprovedOnce /\ ReleasedOnce /\ LocksHold
  BY DEF Started, CreatedOnce, ApprovedOnce, ReleasedOnce, LocksHold
<1>3. QED
  BY <1>1, <1>2 DEF IInv

\* Most steps touch neither the rows nor the facts that a publication locks.
LEMMA Frame ==
  ASSUME IInv, locking' \subseteq locking,
         UNCHANGED <<candidateVars, approvals, releases, members, lost, blockers>>
  PROVE  CreatedOnce' /\ ApprovedOnce' /\ ReleasedOnce' /\ LocksHold'
<1> USE DEF IInv, candidateVars
<1>1. CreatedOnce' /\ ApprovedOnce'
  BY DEF CreatedOnce, ApprovedOnce
<1>2. ReleasedOnce'
  BY DEF ReleasedOnce, ReleasesOf, ApprovalsBy
<1>3. LocksHold'
  BY DEF LocksHold, ReleasesOf, ApprovalsBy, Evaluable
<1>4. QED
  BY <1>1, <1>2, <1>3

\* Membership, sources and conflicts change only while no publication works.
LEMMA FrameUnlocked ==
  ASSUME IInv, locking = {}, locking' = {},
         UNCHANGED <<candidateVars, approvals, releases>>
  PROVE  CreatedOnce' /\ ApprovedOnce' /\ ReleasedOnce' /\ LocksHold'
<1> USE DEF IInv, candidateVars
<1>1. CreatedOnce' /\ ApprovedOnce'
  BY DEF CreatedOnce, ApprovedOnce
<1>2. ReleasedOnce'
  BY DEF ReleasedOnce, ReleasesOf, ApprovalsBy
<1>3. LocksHold'
  BY DEF LocksHold
<1>4. QED
  BY <1>1, <1>2, <1>3

\* The workflow starts after the candidate's transaction, and no candidate vanishes.
LEMMA StartedStep == IInv /\ [Next]_vars => Started'
<1> SUFFICES ASSUME IInv, [Next]_vars PROVE Started'
  OBVIOUS
<1> USE DEF Started, candidateVars, pointerVars, gateVars, workflowVars, callVars
<1>0. /\ status \in [Candidates -> Statuses] /\ pc \in [Candidates -> Places]
      /\ live \subseteq Attempts /\ locking \subseteq live
      /\ Started /\ ApprovedOnce /\ LocksHold
  BY DEF IInv, TypeOK, CandidateTypes, WorkflowTypes
<1>1. ASSUME NEW c \in Candidates, StartWorkflow(c) \/ WorkflowStep(c)
      PROVE  Started'
  BY <1>0, <1>1 DEF StartWorkflow, WorkflowStep, Begin, Announced, ApprovalTimeout, Escalated,
                    Resume, Dispatch, Abort, OnlyWorkflowMoves
<1>2. ASSUME NEW m \in live, RunAttempt(m)
      PROVE  Started'
  <2> USE <1>0
  <2>1. m.cand \in Candidates /\ status[m.cand] # "NONE"
    BY DEF Attempts
  <2>2. \A c \in Candidates : status'[c] = "NONE" => status[c] = "NONE"
    BY <1>2, <2>1 DEF RunAttempt, ValidationCached, ValidationPasses, ValidationFails,
         ValidationRaises, PublishAgain, PublishChecks, PublishCommits, PublishRollsBack,
         PublishRefused
  <2>3. live' \subseteq live /\ \A c \in Candidates : c # m.cand => pc'[c] = pc[c]
    BY <1>2, <2>1 DEF RunAttempt, ValidationCached, ValidationPasses, ValidationFails,
         ValidationRaises, PublishAgain, PublishChecks, PublishCommits, PublishRollsBack,
         PublishRefused, Report
  <2>4. QED
    BY <2>1, <2>2, <2>3
<1>3. CASE \/ \E c \in Candidates, a \in Makers, v \in Versions, S \in SUBSET Sources :
                 CreateCandidate(c, a, v, S)
           \/ \E c \in Candidates, a \in Publishers, ch \in Channels, k \in Keys :
                 RecordApproval(c, a, ch, k)
  BY <1>0, <1>3 DEF CreateCandidate, RecordApproval
<1>4. CASE \/ \E c \in Candidates, a \in Reviewers, act \in {"APPROVED", "REJECTED"}, k \in Keys :
                 GenericCommand(c, a, act, k)
           \/ \E m \in pending : AcceptCommand(m) \/ RefuseCommand(m)
           \/ Gate
  BY <1>0, <1>4 DEF GenericCommand, AcceptCommand, RefuseCommand, Gate, ChangeMembership,
                    LoseSource, ChangeConflict, ChangeQuality, OnlyGateChanges
<1>5. CASE \/ \E o \in Operators, ch \in Channels : ReadPointer(o, ch)
           \/ \E o \in Operators, r \in DOMAIN releases : SwitchPointer(o, r)
           \/ \E r \in DOMAIN releases : Deprecate(r)
           \/ UNCHANGED vars
  BY <1>0, <1>5 DEF ReadPointer, SwitchPointer, Deprecate, vars
<1>6. QED
  BY <1>1, <1>2, <1>3, <1>4, <1>5 DEF Next, Requests

\* Every step keeps the invariant.
LEMMA InvStep == IInv /\ [Next]_vars => IInv'
<1> SUFFICES ASSUME IInv, [Next]_vars PROVE IInv'
  OBVIOUS
<1> TypeOK' /\ Started'
  BY TypeStep, StartedStep
<1> SUFFICES CreatedOnce' /\ ApprovedOnce' /\ ReleasedOnce' /\ LocksHold'
  BY DEF IInv
<1> USE DEF candidateVars, pointerVars, gateVars, workflowVars, callVars
<1>0. /\ status \in [Candidates -> Statuses] /\ creator \in [Candidates -> Actors \cup {None}]
      /\ version \in [Candidates -> Versions \cup {None}]
      /\ approvals \subseteq Approvals /\ live \subseteq Attempts /\ locking \subseteq live
      /\ releases \in Seq(Releases)
      /\ Started /\ CreatedOnce /\ ApprovedOnce /\ ReleasedOnce /\ LocksHold
  BY DEF IInv, TypeOK, CandidateTypes, WorkflowTypes
<1>1. ASSUME NEW c \in Candidates, NEW a \in Makers, NEW v \in Versions,
             NEW S \in SUBSET Sources, CreateCandidate(c, a, v, S)
      PROVE  CreatedOnce' /\ ApprovedOnce' /\ ReleasedOnce' /\ LocksHold'
  <2> USE <1>0, <1>1 DEF CreateCandidate
  <2>1. CreatedOnce'
    BY DEF CreatedOnce
  <2>2. \A p \in approvals : p.cand # c
    BY DEF ApprovedOnce
  <2>3. ApprovedOnce'
    BY <2>2 DEF ApprovedOnce, Approvals
  <2>4. \A i \in DOMAIN releases : releases[i] \in Releases /\ releases[i].cand # c
    BY DEF ReleasedOnce
  <2>5. ReleasedOnce'
    BY <2>4 DEF ReleasedOnce, ReleasesOf, ApprovalsBy, Releases
  <2>6. \A m \in locking : m \in Attempts /\ m.cand # c
    BY DEF LocksHold
  <2>7. LocksHold'
    BY <2>6 DEF LocksHold, ReleasesOf, ApprovalsBy, Evaluable, Attempts
  <2>8. QED
    BY <2>1, <2>3, <2>5, <2>7
<1>2. ASSUME NEW c \in Candidates, NEW a \in Publishers, NEW ch \in Channels, NEW k \in Keys,
             RecordApproval(c, a, ch, k)
      PROVE  CreatedOnce' /\ ApprovedOnce' /\ ReleasedOnce' /\ LocksHold'
  <2> USE <1>0, <1>2 DEF RecordApproval
  <2>1. CreatedOnce'
    BY DEF CreatedOnce
  <2>2. \A p \in approvals : p \in Approvals /\ p.cand # c
    BY DEF ApprovedOnce
  <2>3. ApprovedOnce'
    BY <2>2 DEF ApprovedOnce, Approvals
  <2>4. \A i \in DOMAIN releases : releases[i] \in Releases /\ releases[i].cand # c
    BY DEF ReleasedOnce
  <2>5. ReleasedOnce'
    BY <2>4 DEF ReleasedOnce, ReleasesOf, ApprovalsBy, Releases
  <2>6. LocksHold'
    BY DEF LocksHold
  <2>7. QED
    BY <2>1, <2>3, <2>5, <2>6
<1>3. CASE Gate
  <2>1. CASE \E c \in Candidates : ChangeQuality(c)
    BY <2>1, Frame DEF ChangeQuality, OnlyGateChanges
  <2>2. CASE \/ \E a \in Actors : ChangeMembership(a)
             \/ \E s \in Sources : LoseSource(s)
             \/ \E k \in Conflicts : ChangeConflict(k)
    BY <2>2, FrameUnlocked
       DEF ChangeMembership, LoseSource, ChangeConflict, OnlyGateChanges
  <2>3. QED
    BY <1>3, <2>1, <2>2 DEF Gate
<1>4. ASSUME NEW m \in live, RunAttempt(m)
      PROVE  CreatedOnce' /\ ApprovedOnce' /\ ReleasedOnce' /\ LocksHold'
  <2>0. m \in Attempts
    BY <1>0
  <2>1. CASE \/ ValidationCached(m) \/ ValidationRaises(m) \/ PublishAgain(m)
             \/ PublishRollsBack(m) \/ PublishRefused(m)
    BY <2>1, Frame DEF ValidationCached, ValidationRaises, PublishAgain, PublishRollsBack,
                       PublishRefused, Report
  <2>2. CASE ValidationPasses(m) \/ ValidationFails(m)
    <3> USE <1>0, <2>0, <2>2 DEF ValidationPasses, ValidationFails, Validated, Report
    <3>1. CreatedOnce'
      <4>1. status[m.cand] # "NONE"
        BY DEF Started, Attempts
      <4>2. QED
        BY <4>1 DEF CreatedOnce
    <3>2. \A p \in approvals : p \in Approvals /\ p.cand # m.cand
      BY DEF ApprovedOnce
    <3>3. ApprovedOnce'
      BY <3>2 DEF ApprovedOnce, Approvals
    <3>4. \A i \in DOMAIN releases : releases[i] \in Releases /\ releases[i].cand # m.cand
      BY DEF ReleasedOnce
    <3>5. ReleasedOnce'
      BY <3>4 DEF ReleasedOnce, ReleasesOf, ApprovalsBy, Releases
    <3>6. \A n \in locking : n \in Attempts /\ n.cand # m.cand
      BY DEF LocksHold
    <3>7. LocksHold'
      BY <3>6 DEF LocksHold, ReleasesOf, ApprovalsBy, Evaluable, Attempts
    <3>8. QED
      BY <3>1, <3>3, <3>5, <3>7
  <2>3. CASE PublishChecks(m)
    <3> USE <1>0, <2>3 DEF PublishChecks
    <3>1. CreatedOnce' /\ ApprovedOnce'
      BY DEF CreatedOnce, ApprovedOnce
    <3>2. ReleasedOnce'
      BY DEF ReleasedOnce, ReleasesOf, ApprovalsBy
    <3>3. LocksHold'
      BY DEF LocksHold, MayPublish, CandidateCurrent, ValidationGate, ReleasesOf, ApprovalsBy,
             Evaluable
    <3>4. QED
      BY <3>1, <3>2, <3>3
  <2>4. CASE PublishCommits(m)
    <3> USE <1>0, <2>0, <2>4 DEF PublishCommits, Report
    <3> DEFINE r == [cand |-> m.cand, version |-> version[m.cand], actor |-> m.actor]
    <3>1. /\ DOMAIN releases' = DOMAIN releases \cup {Len(releases) + 1}
          /\ Len(releases) + 1 \notin DOMAIN releases
          /\ \A i \in DOMAIN releases : releases'[i] = releases[i]
          /\ releases'[Len(releases) + 1] = r
      <4>1. releases' = Append(releases, r)
        OBVIOUS
      <4>2. QED
        BY <4>1
    <3>2. /\ m.cand \in Candidates
          /\ status[m.cand] = "APPROVED" /\ ApprovalsBy(m.cand, m.actor) # {}
          /\ \A i \in DOMAIN releases : releases[i] \in Releases /\ releases[i].cand # m.cand
      BY DEF LocksHold, ReleasesOf, Attempts
    <3>3. CreatedOnce'
      BY <3>2 DEF CreatedOnce
    <3>4. ApprovedOnce'
      BY <3>2 DEF ApprovedOnce, Approvals
    <3>5. ReleasedOnce'
      <4>1. ASSUME NEW i \in DOMAIN releases'
            PROVE  /\ status'[releases'[i].cand] = "PUBLISHED"
                   /\ releases'[i].version = version'[releases'[i].cand]
                   /\ ApprovalsBy(releases[i].cand, releases[i].actor)' # {}
        <5>1. CASE i \in DOMAIN releases
          <6>1. releases'[i] = releases[i] /\ releases[i].cand # m.cand
                /\ releases[i].cand \in Candidates
            BY <3>1, <3>2, <5>1 DEF Releases
          <6>2. status'[releases[i].cand] = "PUBLISHED"
            BY <5>1, <6>1 DEF ReleasedOnce
          <6>3. releases[i].version = version[releases[i].cand]
            BY <5>1 DEF ReleasedOnce
          <6>4. ApprovalsBy(releases[i].cand, releases[i].actor) # {}
            BY <5>1 DEF ReleasedOnce, ApprovalsBy
          <6>5. QED
            BY <6>1, <6>2, <6>3, <6>4 DEF ApprovalsBy
        <5>2. CASE i = Len(releases) + 1
          <6>1. releases'[i] = r
            BY <3>1, <5>2
          <6>2. status'[m.cand] = "PUBLISHED"
            BY <3>2
          <6>3. ApprovalsBy(releases[i].cand, releases[i].actor)' # {}
            BY <3>2, <6>1 DEF ApprovalsBy
          <6>4. r.cand = m.cand /\ r.version = version'[m.cand]
            OBVIOUS
          <6>5. QED
            BY <6>1, <6>2, <6>3, <6>4
        <5>3. QED
          BY <3>1, <5>1, <5>2
      <4>2. ASSUME NEW c \in Candidates, status'[c] = "PUBLISHED"
            PROVE  ReleasesOf(c)' # {}
        <5>1. CASE c = m.cand
          BY <3>1, <5>1 DEF ReleasesOf
        <5>2. CASE c # m.cand
          BY <3>1, <3>2, <4>2, <5>2 DEF ReleasedOnce, ReleasesOf
        <5>3. QED
          BY <5>1, <5>2
      <4>3. ASSUME NEW i \in DOMAIN releases', NEW j \in DOMAIN releases',
                   releases'[i].cand = releases'[j].cand
            PROVE  i = j
        BY <3>1, <3>2, <4>3 DEF ReleasedOnce
      <4>4. QED
        BY <4>1, <4>2, <4>3 DEF ReleasedOnce, ApprovalsBy, ReleasesOf
    <3>6. LocksHold'
      <4>1. locking' = {}
        BY DEF LocksHold
      <4>2. QED
        BY <4>1 DEF LocksHold
    <3>7. QED
      BY <3>3, <3>4, <3>5, <3>6
  <2>5. QED
    BY <1>4, <2>1, <2>2, <2>3, <2>4 DEF RunAttempt
<1>5. ASSUME NEW c \in Candidates, StartWorkflow(c) \/ WorkflowStep(c)
      PROVE  CreatedOnce' /\ ApprovedOnce' /\ ReleasedOnce' /\ LocksHold'
  BY <1>5, Frame DEF StartWorkflow, WorkflowStep, Begin, Announced, ApprovalTimeout, Escalated,
                     Resume, Dispatch, Abort, OnlyWorkflowMoves
<1>6. CASE \/ \E c \in Candidates, a \in Reviewers, act \in {"APPROVED", "REJECTED"}, k \in Keys :
                 GenericCommand(c, a, act, k)
           \/ \E m \in pending : AcceptCommand(m) \/ RefuseCommand(m)
  BY <1>6, Frame DEF GenericCommand, AcceptCommand, RefuseCommand
<1>7. CASE \/ \E o \in Operators, ch \in Channels : ReadPointer(o, ch)
           \/ \E o \in Operators, r \in DOMAIN releases : SwitchPointer(o, r)
           \/ \E r \in DOMAIN releases : Deprecate(r)
  BY <1>7, Frame DEF ReadPointer, SwitchPointer, Deprecate
<1>8. CASE UNCHANGED vars
  BY <1>8, Frame DEF vars
<1>9. QED
  BY <1>1, <1>2, <1>3, <1>4, <1>5, <1>6, <1>7, <1>8 DEF Next, Requests

-----------------------------------------------------------------------------
(* What each step writes *)

\* Who writes the releases, the approvals and what operators read.
LEMMA Writers ==
  ASSUME Next
  PROVE  /\ UNCHANGED releases \/ \E m \in live : PublishCommits(m)
         /\ \/ UNCHANGED approvals
            \/ \E c \in Candidates, a \in Publishers, ch \in Channels, k \in Keys :
                  RecordApproval(c, a, ch, k)
         /\ UNCHANGED etag \/ \E o \in Operators, ch \in Channels : ReadPointer(o, ch)
<1>1. CASE Requests
  BY <1>1 DEF Requests, CreateCandidate, StartWorkflow, RecordApproval, GenericCommand,
              ReadPointer, SwitchPointer, Deprecate
<1>2. CASE Gate \/ \E m \in pending : AcceptCommand(m) \/ RefuseCommand(m)
  BY <1>2 DEF Gate, ChangeMembership, LoseSource, ChangeConflict, ChangeQuality,
              OnlyGateChanges, AcceptCommand, RefuseCommand
<1>3. CASE \E c \in Candidates : WorkflowStep(c)
  BY <1>3 DEF WorkflowStep, Begin, Announced, ApprovalTimeout, Escalated, Resume, Dispatch,
              Abort, OnlyWorkflowMoves
<1>4. CASE \E m \in live : RunAttempt(m)
  BY <1>4 DEF RunAttempt, ValidationCached, ValidationPasses, ValidationFails,
              ValidationRaises, PublishAgain, PublishChecks, PublishCommits,
              PublishRollsBack, PublishRefused, Report
<1>5. QED
  BY <1>1, <1>2, <1>3, <1>4 DEF Next

\* A pointer moves to a release that exists, by a switch or by a commit.
LEMMA MoveOrFrame ==
  ASSUME IInv, Next
  PROVE  \/ UNCHANGED pointerVars
         \/ \E o \in Operators, r \in DOMAIN releases :
               /\ SwitchPointer(o, r) /\ etag[o].channel \in Channels
               /\ MovePointer(etag[o].channel, r) /\ r \in Nat
         \/ \E m \in live, ch \in Channels :
               /\ PublishCommits(m)
               /\ MovePointer(ch, Len(releases) + 1) /\ Len(releases) + 1 \in Nat
<1> USE DEF pointerVars
<1>1. CASE Requests
  <2>1. ASSUME NEW o \in Operators, NEW r \in DOMAIN releases, SwitchPointer(o, r)
        PROVE  /\ etag[o].channel \in Channels /\ r \in Nat
               /\ MovePointer(etag[o].channel, r)
    <3>1. etag[o].channel \in Channels \cup {None}
      BY DEF IInv, TypeOK, PointerTypes
    <3>2. r \in Nat
      BY DEF IInv, TypeOK, CandidateTypes
    <3>3. QED
      BY <2>1, <3>1, <3>2 DEF SwitchPointer
  <2>2. QED
    BY <1>1, <2>1 DEF Requests, CreateCandidate, StartWorkflow, RecordApproval, GenericCommand,
                      ReadPointer, Deprecate
<1>2. CASE Gate \/ \E m \in pending : AcceptCommand(m) \/ RefuseCommand(m)
  BY <1>2 DEF Gate, ChangeMembership, LoseSource, ChangeConflict, ChangeQuality,
              OnlyGateChanges, AcceptCommand, RefuseCommand
<1>3. CASE \E c \in Candidates : WorkflowStep(c)
  BY <1>3 DEF WorkflowStep, Begin, Announced, ApprovalTimeout, Escalated, Resume, Dispatch,
              Abort, OnlyWorkflowMoves
<1>4. CASE \E m \in live : RunAttempt(m)
  <2>1. ASSUME NEW m \in live, PublishCommits(m)
        PROVE  \E ch \in Channels :
                 MovePointer(ch, Len(releases) + 1) /\ Len(releases) + 1 \in Nat
    <3>1. \A p \in ApprovalsBy(m.cand, m.actor) : p.channel \in Channels
      BY DEF ApprovalsBy, IInv, TypeOK, CandidateTypes, Approvals
    <3>2. Len(releases) + 1 \in Nat
      BY DEF IInv, TypeOK, CandidateTypes
    <3>3. QED
      BY <2>1, <3>1, <3>2 DEF PublishCommits
  <2>2. QED
    BY <1>4, <2>1 DEF RunAttempt, ValidationCached, ValidationPasses, ValidationFails,
              ValidationRaises, PublishAgain, PublishChecks, PublishRollsBack, PublishRefused
<1>5. QED
  BY <1>1, <1>2, <1>3, <1>4 DEF Next

\* What a step does to the candidates' rows and approvals.
LEMMA StatusStep ==
  ASSUME IInv, Next
  PROVE  /\ approvals \subseteq approvals'
         /\ \A c \in Candidates :
              /\ status[c] = "APPROVED" => status'[c] \in {"APPROVED", "PUBLISHED"}
              /\ status[c] = "PUBLISHED" => status'[c] = "PUBLISHED"
<1>0. status \in [Candidates -> Statuses]
  BY DEF IInv, TypeOK, CandidateTypes
<1> USE <1>0 DEF candidateVars
<1>1. CASE Requests
  BY <1>1 DEF Requests, CreateCandidate, StartWorkflow, RecordApproval, GenericCommand,
              ReadPointer, SwitchPointer, Deprecate
<1>2. CASE Gate \/ \E m \in pending : AcceptCommand(m) \/ RefuseCommand(m)
  BY <1>2 DEF Gate, ChangeMembership, LoseSource, ChangeConflict, ChangeQuality,
              OnlyGateChanges, AcceptCommand, RefuseCommand
<1>3. CASE \E c \in Candidates : WorkflowStep(c)
  BY <1>3 DEF WorkflowStep, Begin, Announced, ApprovalTimeout, Escalated, Resume, Dispatch,
              Abort, OnlyWorkflowMoves
<1>4. CASE \E m \in live : RunAttempt(m)
  BY <1>4 DEF RunAttempt, ValidationCached, ValidationPasses, ValidationFails, Validated,
              ValidationRaises, PublishAgain, PublishChecks, PublishCommits,
              PublishRollsBack, PublishRefused
<1>5. QED
  BY <1>1, <1>2, <1>3, <1>4 DEF Next

\* A move appends to the channel's chain and leaves the other channels alone.
LEMMA MoveKeepsChain ==
  ASSUME IInv, ChannelHistory, NEW ch \in Channels, NEW r \in DOMAIN releases',
         DOMAIN releases \subseteq DOMAIN releases', MovePointer(ch, r)
  PROVE  ChannelHistory'
<1> DEFINE h == history[ch]
           move == [old |-> pointer[ch].release, new |-> r, version |-> pointer[ch].version + 1]
<1>1. /\ h \in Seq(Moves) /\ Len(h) \in Nat /\ pointer[ch].version = Len(h)
      /\ pointer[ch].release = IF h = << >> THEN 0 ELSE h[Len(h)].new
  BY DEF IInv, TypeOK, PointerTypes, ChannelHistory
<1>2. /\ pointer' = [pointer EXCEPT ![ch] = [release |-> r, version |-> Len(h) + 1]]
      /\ history' = [history EXCEPT ![ch] = Append(h, move)]
  BY <1>1 DEF MovePointer
<1>3. /\ pointer'[ch] = [release |-> r, version |-> Len(h) + 1]
      /\ history'[ch] = Append(h, move)
      /\ \A d \in Channels \ {ch} : pointer'[d] = pointer[d] /\ history'[d] = history[d]
  BY <1>2 DEF IInv, TypeOK, PointerTypes
<1>4. /\ Len(history'[ch]) = Len(h) + 1
      /\ history'[ch][Len(h) + 1] = move
      /\ \A i \in 1..Len(h) : history'[ch][i] = h[i]
  BY <1>1, <1>3
<1>5. \A i \in 1..Len(h) :
         /\ h[i].version = i
         /\ h[i].old = IF i = 1 THEN 0 ELSE h[i - 1].new
         /\ h[i].new \in DOMAIN releases
  BY DEF ChannelHistory
<1>6. /\ Len(history'[ch]) = pointer'[ch].version
      /\ pointer'[ch].release =
           IF history'[ch] = << >> THEN 0 ELSE history'[ch][Len(history'[ch])].new
  BY <1>1, <1>3, <1>4
<1>7. ASSUME NEW i \in 1..Len(history'[ch])
      PROVE  /\ history'[ch][i].version = i
             /\ history'[ch][i].old = IF i = 1 THEN 0 ELSE history'[ch][i - 1].new
             /\ history'[ch][i].new \in DOMAIN releases'
  <2>1. CASE i \in 1..Len(h)
    <3>1. i # 1 => i - 1 \in 1..Len(h)
      BY <1>1, <2>1
    <3>2. history'[ch][i] = h[i] /\ (i # 1 => history'[ch][i - 1] = h[i - 1])
      BY <1>4, <2>1, <3>1
    <3>3. QED
      BY <1>5, <2>1, <3>2
  <2>2. CASE i = Len(h) + 1
    BY <1>1, <1>4, <2>2
  <2>3. QED
    BY <1>1, <1>4, <2>1, <2>2
<1>8. ASSUME NEW d \in Channels \ {ch}
      PROVE  /\ Len(history'[d]) = pointer'[d].version
             /\ \A i \in 1..Len(history'[d]) :
                  /\ history'[d][i].version = i
                  /\ history'[d][i].old = IF i = 1 THEN 0 ELSE history'[d][i - 1].new
                  /\ history'[d][i].new \in DOMAIN releases'
             /\ pointer'[d].release =
                  IF history'[d] = << >> THEN 0 ELSE history'[d][Len(history'[d])].new
  BY <1>3 DEF ChannelHistory
<1>9. QED
  BY <1>6, <1>7, <1>8 DEF ChannelHistory

\* A move is seen by the channel's readers as a change of what it serves.
LEMMA Serving ==
  ASSUME IInv, NEW ch \in Channels, NEW r, MovePointer(ch, r)
  PROVE  [d \in Channels |-> pointer[d].release]' =
            [[d \in Channels |-> pointer[d].release] EXCEPT ![ch] = r]
BY DEF MovePointer, IInv, TypeOK, PointerTypes

-----------------------------------------------------------------------------
(* Theorems *)

\* The invariant holds in every reachable state.
LEMMA Invariance == Spec => []IInv
BY InvInit, InvStep, PTL DEF Spec

\* The rows, the workflow's state and the messages under way have their types:
\* attempts stay within the retry policy and a release has a version.
THEOREM TypeCorrect == Spec => []TypeOK
<1>1. IInv => TypeOK
  BY DEF IInv
<1>2. QED
  BY <1>1, Invariance, PTL

\* Every release names a publisher who approved it and did not create it, even
\* though the publisher is read from the last command the workflow accepted.
THEOREM Independence == Spec => []IndependentApproval
<1>1. IInv => IndependentApproval
  BY DEF IInv, ApprovedOnce, ReleasedOnce, IndependentApproval, ApprovalsBy
<1>2. QED
  BY <1>1, Invariance, PTL

\* However often a publication is retried, a candidate is released once, and
\* no two releases of the space share a version.
THEOREM Uniqueness == Spec => []ReleasesAreUnique
<1>1. IInv => ReleasesAreUnique
  <2> SUFFICES ASSUME IInv, NEW i \in DOMAIN releases, NEW j \in DOMAIN releases,
                      \/ releases[i].cand = releases[j].cand
                      \/ releases[i].version = releases[j].version
               PROVE  i = j
    BY DEF ReleasesAreUnique
  <2> DEFINE c == releases[i].cand
             d == releases[j].cand
  <2>1. c \in Candidates /\ d \in Candidates
    <3>1. releases[i] \in Releases /\ releases[j] \in Releases
      BY DEF IInv, TypeOK, CandidateTypes
    <3>2. QED
      BY <3>1 DEF Releases
  <2>2. /\ status[c] = "PUBLISHED" /\ releases[i].version = version[c]
        /\ status[d] = "PUBLISHED" /\ releases[j].version = version[d]
    BY DEF IInv, ReleasedOnce
  <2>3. version[c] \in Versions /\ version[d] \in Versions
    BY <2>1, <2>2 DEF IInv, CreatedOnce
  <2>4. c = d
    BY <2>1, <2>2, <2>3, NoneAssumption DEF IInv, CreatedOnce
  <2>5. QED
    BY <2>4 DEF IInv, ReleasedOnce
<1>2. QED
  BY <1>1, Invariance, PTL

\* The candidate's row and the releases table agree in every state.
THEOREM NoHalfPublication == Spec => []PublishedIffReleased
<1>1. IInv => PublishedIffReleased
  BY DEF IInv, ReleasedOnce, ReleasesOf, PublishedIffReleased
<1>2. QED
  BY <1>1, Invariance, PTL

\* Candidates, validations and releases fit together, for any number of
\* candidates, attempts and activity failures (validate_release_candidate,
\* publish_release_candidate).
THEOREM RowsFit == Spec => []ReleaseRowsFit
  BY TypeCorrect, Uniqueness, NoHalfPublication, PTL DEF ReleaseRowsFit

-----------------------------------------------------------------------------
(* Where a workflow ends *)

\* Only a workflow that resumed with an approval publishes, and it does not come back from
\* there: what of it is released, or may still be, is not of one that was refused.
Placed ==
    /\ \A m \in locking : m.act = "publish"
    /\ \A c \in Candidates :
           /\ (\E m \in live : m.cand = c /\ m.act = "publish") \/ ReleasesOf(c) # {}
                  => pc[c] \in {"publish", "succeeded", "crashed"}
           /\ pc[c] = "succeeded" => ReleasesOf(c) # {}

\* A publication gives its candidate a release and no other one.
LEMMA ReleasedHere ==
  ASSUME IInv, NEW m \in live, PublishCommits(m)
  PROVE  /\ ReleasesOf(m.cand)' # {}
         /\ \A c \in Candidates : c # m.cand => ReleasesOf(c)' = ReleasesOf(c)
<1>1. PICK r : r = [cand |-> m.cand, version |-> version[m.cand], actor |-> m.actor]
  OBVIOUS
<1>2. releases' = Append(releases, r) /\ r.cand = m.cand
  BY <1>1 DEF PublishCommits
<1>3. releases \in Seq(Releases)
  BY DEF IInv, TypeOK, CandidateTypes
<1>4. /\ DOMAIN releases' = DOMAIN releases \cup {Len(releases) + 1}
      /\ releases'[Len(releases) + 1] = r
      /\ \A i \in DOMAIN releases : releases'[i] = releases[i] /\ i # Len(releases) + 1
  BY <1>2, <1>3
<1>5. QED
  BY <1>2, <1>4 DEF ReleasesOf

\* An attempt that reports moves its own workflow, from the place where it is awaited.
LEMMA PlacedReport ==
  ASSUME IInv, Placed, NEW m \in live, NEW place \in Places, Report(m, place), UNCHANGED releases,
         m.act = "publish" => place \in {"succeeded", "crashed"},
         m.act = "validate" => place # "succeeded",
         place = "succeeded" => ReleasesOf(m.cand) # {}
  PROVE  Placed'
<1>1. pc \in [Candidates -> Places] /\ m.act \in {"validate", "publish"} /\ m.cand \in Candidates
  BY DEF IInv, TypeOK, WorkflowTypes, Attempts
<1>2. \A c \in Candidates : ReleasesOf(c)' = ReleasesOf(c)
  BY DEF ReleasesOf
<1>3. live' \subseteq live /\ locking' \subseteq locking
  BY DEF Report
<1>4. \A c \in Candidates :
         \/ pc'[c] = pc[c]
         \/ c = m.cand /\ pc[c] = m.act /\ pc'[c] = place
  BY <1>1 DEF Report
<1>5. QED
  BY <1>1, <1>2, <1>3, <1>4 DEF Placed

LEMMA PlacedStep == IInv /\ Placed /\ [Next]_vars => Placed'
<1> SUFFICES ASSUME IInv, Placed, [Next]_vars PROVE Placed'
  OBVIOUS
<1>0. /\ pc \in [Candidates -> Places] /\ live \subseteq Attempts /\ locking \subseteq live
      /\ \A m \in live : m.act \in {"validate", "publish"} /\ m.cand \in Candidates
  BY DEF IInv, TypeOK, WorkflowTypes, Attempts
<1>1. CASE UNCHANGED <<releases, pc, live, locking>>
  BY <1>1 DEF Placed, ReleasesOf
<1>2. ASSUME NEW c \in Candidates, StartWorkflow(c) \/ WorkflowStep(c)
      PROVE  Placed'
  <2>1. UNCHANGED <<releases, locking>>
    BY <1>2 DEF StartWorkflow, WorkflowStep, Begin, Announced, ApprovalTimeout, Escalated, Resume,
                Dispatch, Abort, OnlyWorkflowMoves
  <2>2. CASE Dispatch(c)
    <3>1. /\ pc' = pc /\ pc[c] \in {"validate", "publish"}
          /\ \A m \in live' : m \in live \/ (m.cand = c /\ m.act = pc[c])
      BY <2>2 DEF Dispatch
    <3>2. QED
      BY <2>1, <3>1 DEF Placed, ReleasesOf
  <2>3. CASE StartWorkflow(c) \/ Begin(c) \/ Announced(c) \/ ApprovalTimeout(c) \/ Escalated(c)
             \/ Resume(c) \/ Abort(c)
    <3>1. /\ live' = live
          /\ \A d \in Candidates : d # c => pc'[d] = pc[d]
          /\ \/ pc[c] \in {"publish"} /\ pc'[c] = "crashed"
             \/ pc[c] \notin {"publish", "succeeded", "crashed"} /\ pc'[c] # "succeeded"
      BY <1>0, <2>3 DEF StartWorkflow, Begin, Announced, ApprovalTimeout, Escalated, Resume, Abort,
                        workflowVars
    <3>2. QED
      BY <2>1, <3>1 DEF Placed, ReleasesOf
  <2>4. QED
    BY <1>2, <2>2, <2>3 DEF WorkflowStep
<1>3. ASSUME NEW m \in live, RunAttempt(m)
      PROVE  Placed'
  <2>1. CASE ValidationCached(m) \/ ValidationPasses(m) \/ ValidationFails(m)
    BY <2>1, PlacedReport
       DEF ValidationCached, ValidationPasses, ValidationFails, Places, Waiting, Closed
  <2>2. CASE PublishAgain(m) \/ PublishRefused(m)
    BY <2>2, PlacedReport DEF PublishAgain, PublishRefused, Places, Closed
  <2>3. CASE ValidationRaises(m) \/ PublishRollsBack(m)
    <3>1. UNCHANGED <<releases, pc>> /\ live' \subseteq live /\ locking' \subseteq locking
      BY <2>3 DEF ValidationRaises, PublishRollsBack
    <3>2. QED
      BY <3>1 DEF Placed, ReleasesOf
  <2>4. CASE PublishChecks(m)
    BY <2>4 DEF PublishChecks, Placed, ReleasesOf
  <2>5. CASE PublishCommits(m)
    <3>1. /\ m.act = "publish" /\ m \in live /\ m.cand \in Candidates
          /\ live' \subseteq live /\ locking' \subseteq locking
          /\ pc' = pc \/ pc' = [pc EXCEPT ![m.cand] = "succeeded"]
      BY <1>0, <2>5 DEF PublishCommits, Placed, Report
    <3>2. pc[m.cand] \in {"publish", "succeeded", "crashed"}
      BY <3>1 DEF Placed
    <3>3. QED
      BY <1>0, <2>5, <3>1, <3>2, ReleasedHere DEF Placed
  <2>6. QED
    BY <1>3, <2>1, <2>2, <2>3, <2>4, <2>5 DEF RunAttempt
<1>4. QED
  <2>1. CASE UNCHANGED vars
    BY <2>1, <1>1 DEF vars, workflowVars
  <2>2. CASE Gate
    BY <2>2, <1>1 DEF Gate, ChangeMembership, LoseSource, ChangeConflict, ChangeQuality, OnlyGateChanges,
                      workflowVars
  <2>3. ASSUME NEW m \in pending, AcceptCommand(m) \/ RefuseCommand(m)
        PROVE  Placed'
    BY <2>3, <1>1 DEF AcceptCommand, RefuseCommand, workflowVars
  <2>4. CASE Requests
    <3>1. \/ UNCHANGED <<releases, pc, live, locking>>
          \/ \E c \in Candidates : StartWorkflow(c)
      BY <2>4 DEF Requests, CreateCandidate, RecordApproval, GenericCommand, ReadPointer, SwitchPointer,
                  Deprecate, workflowVars
    <3>2. QED
      BY <3>1, <1>1, <1>2
  <2>5. QED
    BY <2>1, <2>2, <2>3, <2>4, <1>2, <1>3 DEF Next

\* KnowledgeReleaseV2Workflow.run: for any number of candidates, attempts and retries, a
\* workflow that says it succeeded has a release, and one that says the gate or a person
\* refused has none, then or later.
THEOREM Outcome == Spec => []OutcomeIsTrue
<1>1. Init => Placed
  BY DEF Init, Placed, ReleasesOf
<1>2. Placed => OutcomeIsTrue
  BY DEF Placed, OutcomeIsTrue
<1>3. QED
  BY <1>1, <1>2, PlacedStep, Invariance, PTL DEF Spec

-----------------------------------------------------------------------------
(* Steps *)

\* The gate holds at the moment a release is committed, for its own publisher.
THEOREM CurrentGate == Spec => PublishesUnderCurrentGate
<1> DEFINE Publishes ==
      \A i \in DOMAIN releases' \ DOMAIN releases :
         LET r == releases'[i] IN
         /\ r.actor \in members \cap Publishers /\ Evaluable(r.cand)
         /\ sources[r.cand] \cap lost = {}
         /\ blockers = {}
<1>1. IInv /\ [Next]_vars => [Publishes]_vars
  <2> SUFFICES ASSUME IInv, Next PROVE Publishes
    OBVIOUS
  <2>1. ASSUME NEW m \in live, PublishCommits(m)
        PROVE  Publishes
    <3>1. /\ m.actor \in members \cap Publishers /\ Evaluable(m.cand)
          /\ sources[m.cand] \cap lost = {} /\ blockers = {}
      BY <2>1 DEF PublishCommits, IInv, LocksHold
    <3>2. releases' = Append(releases, [cand |-> m.cand, version |-> version[m.cand],
                                        actor |-> m.actor])
      BY <2>1 DEF PublishCommits
    <3>3. \A i \in DOMAIN releases' \ DOMAIN releases :
             releases'[i] = [cand |-> m.cand, version |-> version[m.cand], actor |-> m.actor]
      BY <3>2 DEF IInv, TypeOK, CandidateTypes
    <3>4. QED
      BY <3>1, <3>3
  <2>2. CASE UNCHANGED releases
    BY <2>2
  <2>3. QED
    BY <2>1, <2>2, Writers
<1>2. QED
  BY <1>1, Invariance, PTL DEF Spec, PublishesUnderCurrentGate

\* Nothing on the record is rewritten, and an approved candidate has only one
\* way to go.
THEOREM RecordIsKept == Spec => NothingIsUndone
<1> DEFINE Kept ==
      /\ \A i \in DOMAIN releases : i \in DOMAIN releases' /\ releases'[i] = releases[i]
      /\ approvals \subseteq approvals'
      /\ \A ch \in Channels : \A i \in DOMAIN history[ch] :
            i \in DOMAIN history'[ch] /\ history'[ch][i] = history[ch][i]
      /\ \A c \in Candidates :
            /\ status[c] = "APPROVED" => status'[c] \in {"APPROVED", "PUBLISHED"}
            /\ status[c] = "PUBLISHED" => status'[c] = "PUBLISHED"
<1>1. IInv /\ [Next]_vars => [Kept]_vars
  <2> SUFFICES ASSUME IInv, Next PROVE Kept
    OBVIOUS
  <2>0. /\ status \in [Candidates -> Statuses] /\ history \in [Channels -> Seq(Moves)]
        /\ pointer \in [Channels -> [release : Nat, version : Nat]]
        /\ releases \in Seq(Releases)
    BY DEF IInv, TypeOK, CandidateTypes, PointerTypes
  <2>1. \A i \in DOMAIN releases : i \in DOMAIN releases' /\ releases'[i] = releases[i]
    <3>1. ASSUME NEW m \in live, PublishCommits(m)
          PROVE  \E r : releases' = Append(releases, r)
      BY <3>1 DEF PublishCommits
    <3>2. ASSUME NEW r, releases' = Append(releases, r), NEW i \in DOMAIN releases
          PROVE  i \in DOMAIN releases' /\ releases'[i] = releases[i]
      BY <2>0, <3>2
    <3>3. QED
      BY <3>1, <3>2, Writers
  <2>2. \A ch \in Channels : \A i \in DOMAIN history[ch] :
           i \in DOMAIN history'[ch] /\ history'[ch][i] = history[ch][i]
    <3>1. ASSUME NEW ch \in Channels, NEW r \in Nat, MovePointer(ch, r)
          PROVE  \A d \in Channels : \A i \in DOMAIN history[d] :
                    i \in DOMAIN history'[d] /\ history'[d][i] = history[d][i]
      <4>1. [old |-> pointer[ch].release, new |-> r, version |-> pointer[ch].version + 1] \in Moves
        BY <2>0 DEF Moves
      <4>2. history[ch] \in Seq(Moves)
        BY <2>0
      <4>3. QED
        BY <2>0, <3>1, <4>1, <4>2 DEF MovePointer
    <3>2. QED
      BY <2>0, <3>1, MoveOrFrame DEF pointerVars
  <2>3. /\ approvals \subseteq approvals'
        /\ \A c \in Candidates :
            /\ status[c] = "APPROVED" => status'[c] \in {"APPROVED", "PUBLISHED"}
            /\ status[c] = "PUBLISHED" => status'[c] = "PUBLISHED"
    BY <2>0, StatusStep
  <2>4. QED
    BY <2>1, <2>2, <2>3
<1>2. QED
  BY <1>1, Invariance, PTL DEF Spec, NothingIsUndone

\* Every channel's history is the unbroken chain of moves to what it serves.
THEOREM ChannelsAreChains == Spec => []ChannelHistory
<1>1. Init => ChannelHistory
  BY DEF Init, ChannelHistory
<1>2. IInv /\ ChannelHistory /\ [Next]_vars => ChannelHistory'
  <2> SUFFICES ASSUME IInv, ChannelHistory, [Next]_vars PROVE ChannelHistory'
    OBVIOUS
  <2>1. CASE UNCHANGED vars
    BY <2>1 DEF vars, pointerVars, ChannelHistory
  <2>2. CASE Next
    <3>1. DOMAIN releases \subseteq DOMAIN releases'
      <4>1. ASSUME NEW m \in live, PublishCommits(m)
            PROVE  \E r : releases' = Append(releases, r)
        BY <4>1 DEF PublishCommits
      <4>2. QED
        BY <2>2, <4>1, Writers DEF IInv, TypeOK, CandidateTypes
    <3>2. CASE UNCHANGED pointerVars
      BY <3>1, <3>2 DEF pointerVars, ChannelHistory
    <3>3. ASSUME NEW o \in Operators, NEW r \in DOMAIN releases,
                 etag[o].channel \in Channels, MovePointer(etag[o].channel, r)
          PROVE  ChannelHistory'
      BY <3>1, <3>3, MoveKeepsChain
    <3>4. ASSUME NEW m \in live, NEW ch \in Channels, PublishCommits(m),
                 MovePointer(ch, Len(releases) + 1)
          PROVE  ChannelHistory'
      <4>1. \E r : releases' = Append(releases, r)
        BY <3>4 DEF PublishCommits
      <4>2. Len(releases) + 1 \in DOMAIN releases'
        BY <4>1 DEF IInv, TypeOK, CandidateTypes
      <4>3. QED
        BY <3>1, <3>4, <4>2, MoveKeepsChain
    <3>5. QED
      BY <2>2, <3>2, <3>3, <3>4, MoveOrFrame
  <2>3. QED
    BY <2>1, <2>2
<1>3. QED
  BY <1>1, <1>2, Invariance, PTL DEF Spec

\* What an operator read of a pointer is a state the pointer was in.
ReadsAreOld ==
    \A o \in Operators :
        LET e == etag[o] IN
        e.channel # None =>
            /\ e.version <= pointer[e.channel].version
            /\ e.release = IF e.version = 0 THEN 0 ELSE history[e.channel][e.version].new

\* Pointer history is append-only, so a read stays a state the pointer was in.
LEMMA ReadsStayOld == Spec => []ReadsAreOld
<1>1. Init => ReadsAreOld
  BY DEF Init, ReadsAreOld
<1>2. IInv /\ ChannelHistory /\ ReadsAreOld /\ [Next]_vars => ReadsAreOld'
  <2> SUFFICES ASSUME IInv, ChannelHistory, ReadsAreOld, [Next]_vars PROVE ReadsAreOld'
    OBVIOUS
  <2>0. /\ pointer \in [Channels -> [release : Nat, version : Nat]]
        /\ history \in [Channels -> Seq(Moves)]
        /\ etag \in [Operators -> [channel : Channels \cup {None}, release : Nat, version : Nat]]
    BY DEF IInv, TypeOK, PointerTypes
  <2>1. ASSUME NEW ch \in Channels, NEW r \in Nat, MovePointer(ch, r), UNCHANGED etag
        PROVE  ReadsAreOld'
    <3> DEFINE h == history[ch]
    <3>1. [old |-> pointer[ch].release, new |-> r, version |-> pointer[ch].version + 1] \in Moves
      BY <2>0 DEF Moves
    <3>2. h \in Seq(Moves) /\ Len(h) = pointer[ch].version /\ Len(h) \in Nat
      BY <2>0 DEF ChannelHistory
    <3>3. /\ pointer'[ch].version = Len(h) + 1
          /\ \A i \in 1..Len(h) : history'[ch][i] = h[i]
          /\ \A d \in Channels \ {ch} : pointer'[d] = pointer[d] /\ history'[d] = history[d]
      BY <2>0, <2>1, <3>1, <3>2 DEF MovePointer
    <3>4. ASSUME NEW o \in Operators, etag[o].channel # None
          PROVE  /\ etag[o].version <= pointer'[etag[o].channel].version
                 /\ etag[o].release = IF etag[o].version = 0 THEN 0
                                      ELSE history'[etag[o].channel][etag[o].version].new
      <4>1. etag[o].version \in Nat /\ etag[o].channel \in Channels
        BY <2>0, <3>4
      <4>2. /\ etag[o].version <= pointer[etag[o].channel].version
            /\ etag[o].release = IF etag[o].version = 0 THEN 0
                                 ELSE history[etag[o].channel][etag[o].version].new
        BY <3>4 DEF ReadsAreOld
      <4>3. CASE etag[o].channel = ch
        BY <3>2, <3>3, <4>1, <4>2, <4>3
      <4>4. CASE etag[o].channel # ch
        BY <3>3, <4>1, <4>2, <4>4
      <4>5. QED
        BY <4>3, <4>4
    <3>5. QED
      BY <2>1, <3>4 DEF ReadsAreOld
  <2>2. ASSUME NEW o \in Operators, NEW ch \in Channels, ReadPointer(o, ch)
        PROVE  ReadsAreOld'
    <3>1. /\ Len(history[ch]) = pointer[ch].version /\ history[ch] \in Seq(Moves)
          /\ pointer[ch].release =
               IF history[ch] = << >> THEN 0 ELSE history[ch][Len(history[ch])].new
      BY <2>0 DEF ChannelHistory
    <3>2. pointer[ch].version \in Nat
          /\ pointer[ch].release = IF pointer[ch].version = 0 THEN 0
                                   ELSE history[ch][pointer[ch].version].new
      BY <2>0, <3>1
    <3>3. QED
      BY <2>0, <2>2, <3>2 DEF ReadPointer, ReadsAreOld, pointerVars
  <2>3. CASE UNCHANGED <<pointerVars, etag>>
    BY <2>3 DEF pointerVars, ReadsAreOld
  <2>4. CASE Next
    <3>1. \/ UNCHANGED etag
          \/ \E o \in Operators, ch \in Channels : ReadPointer(o, ch)
      BY <2>4, Writers
    <3>2. ASSUME NEW o \in Operators, NEW ch \in Channels, ReadPointer(o, ch)
          PROVE  ReadsAreOld'
      BY <2>2, <3>2
    <3>3. CASE UNCHANGED etag
      BY <2>1, <2>3, <2>4, <3>3, MoveOrFrame
    <3>4. QED
      BY <3>1, <3>2, <3>3
  <2>5. QED
    BY <2>3, <2>4 DEF vars
<1>3. QED
  BY <1>1, <1>2, Invariance, ChannelsAreChains, PTL DEF Spec

\* A pointer that moves without a new release was read, as it was, by the
\* operator who moved it: a version read names one release for ever.
THEOREM RollbackIsInformed == Spec => SwitchesWhatWasRead
<1> DEFINE Informed ==
      \A ch \in Channels :
         (pointer[ch] # pointer'[ch] /\ releases' = releases) =>
            \E o \in Operators :
               etag[o] = [channel |-> ch, release |-> pointer[ch].release,
                          version |-> pointer[ch].version]
<1>1. IInv /\ ChannelHistory /\ ReadsAreOld /\ [Next]_vars => [Informed]_vars
  <2> SUFFICES ASSUME IInv, ChannelHistory, ReadsAreOld, Next,
                      NEW ch \in Channels, pointer[ch] # pointer'[ch], releases' = releases
               PROVE  \E o \in Operators :
                         etag[o] = [channel |-> ch, release |-> pointer[ch].release,
                                    version |-> pointer[ch].version]
    OBVIOUS
  <2>1. ASSUME NEW m \in live, PublishCommits(m)
        PROVE  FALSE
    <3>1. \E r : releases' = Append(releases, r)
      BY <2>1 DEF PublishCommits
    <3>2. releases \in Seq(Releases)
      BY DEF IInv, TypeOK, CandidateTypes
    <3>3. ASSUME NEW r, releases' = Append(releases, r)
          PROVE  Len(releases') = Len(releases) + 1 /\ Len(releases) \in Nat
      BY <3>2, <3>3
    <3>4. QED
      BY <3>1, <3>3
  <2>2. PICK o \in Operators, r \in DOMAIN releases :
           SwitchPointer(o, r) /\ MovePointer(etag[o].channel, r)
    BY <2>1, MoveOrFrame DEF pointerVars
  <2>3. etag[o].channel = ch
    BY <2>2 DEF MovePointer, IInv, TypeOK, PointerTypes
  <2>4. etag[o].version = pointer[ch].version
    BY <2>2, <2>3 DEF SwitchPointer
  <2>5. etag[o].release = pointer[ch].release
    <3>1. /\ Len(history[ch]) = pointer[ch].version
          /\ pointer[ch].release =
               IF history[ch] = << >> THEN 0 ELSE history[ch][Len(history[ch])].new
          /\ history[ch] \in Seq(Moves)
      BY DEF ChannelHistory, IInv, TypeOK, PointerTypes
    <3>2. etag[o].release =
             IF etag[o].version = 0 THEN 0 ELSE history[ch][etag[o].version].new
      BY <2>3, NoneAssumption DEF ReadsAreOld
    <3>3. QED
      BY <2>4, <3>1, <3>2
  <2>6. etag[o] \in [channel : Channels \cup {None}, release : Nat, version : Nat]
    BY DEF IInv, TypeOK, PointerTypes
  <2>7. QED
    BY <2>3, <2>4, <2>5, <2>6
<1>2. QED
  BY <1>1, Invariance, ChannelsAreChains, ReadsStayOld, PTL DEF Spec, SwitchesWhatWasRead

\* Candidates, workflows, retried activities and changing gates implement the
\* ledger of ReleaseLedger: each step is one of the ledger's, or invisible.
THEOREM Refinement == Spec => ImplementsLedger
<1>1. Init => Ledger!Init
  BY DEF Init, Ledger!Init
<1>2. IInv /\ [Next]_vars => [Ledger!Next]_(Ledger!ledgerVars)
  <2> SUFFICES ASSUME IInv, [Next]_vars
               PROVE  Ledger!Next \/ UNCHANGED Ledger!ledgerVars
    OBVIOUS
  <2> USE DEF Ledger!ledgerVars
  <2>1. CASE UNCHANGED vars
    BY <2>1 DEF vars, candidateVars, pointerVars
  <2>2. ASSUME NEW m \in live, PublishCommits(m)
        PROVE  Ledger!Next
    <3>1. PICK p \in ApprovalsBy(m.cand, m.actor) :
             /\ releases' = Append(releases, [cand |-> m.cand, version |-> version[m.cand],
                                              actor |-> m.actor])
             /\ MovePointer(p.channel, Len(releases) + 1)
      BY <2>2 DEF PublishCommits
    <3>2. /\ p \in approvals /\ p \in Approvals
          /\ p.cand = m.cand /\ p.actor = m.actor /\ p.channel \in Channels
      BY DEF ApprovalsBy, Approvals, IInv, TypeOK, CandidateTypes
    <3>3. version[m.cand] \in Versions /\ ReleasesOf(m.cand) = {} /\ m.cand \in Candidates
      BY <2>2, <3>2 DEF PublishCommits, IInv, LocksHold, CreatedOnce, Approvals
    <3>4. ASSUME NEW i \in DOMAIN releases
          PROVE  releases[i].cand # p.cand /\ releases[i].version # version[m.cand]
      <4>1. releases[i] \in Releases
        BY DEF IInv, TypeOK, CandidateTypes
      <4>2. releases[i].cand # m.cand
        BY <3>3 DEF ReleasesOf
      <4>3. releases[i].version = version[releases[i].cand]
        BY DEF IInv, ReleasedOnce
      <4>4. QED
        BY <3>2, <3>3, <4>1, <4>2, <4>3, NoneAssumption DEF IInv, CreatedOnce, Releases
    <3>5. [ch \in Channels |-> pointer[ch].release]' =
             [[ch \in Channels |-> pointer[ch].release] EXCEPT ![p.channel] = Len(releases) + 1]
      BY <3>1, <3>2, Serving
    <3>6. UNCHANGED approvals
      BY <2>2 DEF PublishCommits
    <3>7. PICK v \in Versions : v = version[m.cand]
      BY <3>3
    <3>8. Ledger!Publish(p, v)
      BY <3>1, <3>2, <3>4, <3>5, <3>6, <3>7 DEF Ledger!Publish
    <3>9. QED
      BY <3>2, <3>8 DEF Ledger!Next
  <2>3. ASSUME NEW o \in Operators, NEW r \in DOMAIN releases, SwitchPointer(o, r),
               etag[o].channel \in Channels, MovePointer(etag[o].channel, r)
        PROVE  Ledger!Next
    <3>1. UNCHANGED <<releases, approvals>>
      BY <2>3 DEF SwitchPointer
    <3>2. Ledger!Serve(etag[o].channel, r)
      BY <2>3, <3>1, Serving DEF Ledger!Serve
    <3>3. QED
      BY <2>3, <3>2 DEF Ledger!Next
  <2>4. ASSUME NEW c \in Candidates, NEW a \in Publishers, NEW ch \in Channels, NEW k \in Keys,
               RecordApproval(c, a, ch, k)
        PROVE  Ledger!Next
    <3>1. \A p \in approvals : p.cand # c
      BY <2>4 DEF RecordApproval, IInv, ApprovedOnce
    <3>2. Ledger!Approve(c, a, ch)
      BY <2>4, <3>1 DEF RecordApproval, pointerVars, Ledger!Approve
    <3>3. QED
      BY <3>2, RolesAssumption DEF Ledger!Next
  <2>5. CASE Next /\ UNCHANGED <<releases, pointerVars>>
    <3>1. CASE UNCHANGED approvals
      BY <2>5, <3>1 DEF pointerVars
    <3>2. QED
      BY <2>4, <2>5, <3>1, Writers
  <2>6. QED
    BY <2>1, <2>2, <2>3, <2>5, MoveOrFrame, Writers
<1>3. QED
  BY <1>1, <1>2, Invariance, PTL DEF Spec, ImplementsLedger, Ledger!Spec
=============================================================================
