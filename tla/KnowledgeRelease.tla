-------------------------- MODULE KnowledgeRelease --------------------------
(***************************************************************************)
(* Publication of one knowledge space: ReleaseCandidate rows, the durable  *)
(* KnowledgeRelease v2 workflow that validates and publishes each of them, *)
(* the HTTP handlers that approve, command, switch and deprecate, and the  *)
(* facts of other components that the release gate reads.                  *)
(*                                                                         *)
(* A database transaction is one action, but for the publication, whose    *)
(* check of the gate and commit are two steps under the locks it holds in  *)
(* between.  What no lock spans is kept apart: the approval transaction    *)
(* and the Temporal update it is followed by, the transaction of an        *)
(* activity and the report of its result, an activity attempt and the      *)
(* retry that replaced it.  VALIDATING and PUBLISHING exist only inside    *)
(* one transaction and are never visible.                                  *)
(***************************************************************************)
EXTENDS Integers, Sequences, FiniteSets

CONSTANTS
    Candidates,   \* ids of ReleaseCandidates that may be created
    Versions,     \* SemVer strings
    Actors,       \* user identities
    Makers,       \* hold release.create and quality.run in the space
    Publishers,   \* hold release.publish
    Reviewers,    \* hold workflow.review
    Operators,    \* hold release.switch
    Sources,      \* SourceVersions a manifest can trace to
    Conflicts,    \* blocking ConflictCases of the space
    Channels,     \* names of release pointers
    Keys,         \* Idempotency-Keys of approvals and commands
    MaxAttempts,  \* bound: attempts of one activity
    MaxMoves,     \* bound: version a pointer is switched up to
    None

ASSUME RolesAssumption == 
    /\ Makers \subseteq Actors
    /\ Publishers \subseteq Actors
    /\ Reviewers \subseteq Actors
    /\ Operators \subseteq Actors
ASSUME NoneAssumption == None \notin Actors \cup Versions \cup Channels
ASSUME BoundAssumption == MaxAttempts \in Nat /\ MaxMoves \in Nat

VARIABLES
    status, creator, version, sources,   \* release_candidates
    approvals,                           \* release_approvals
    releases,                            \* releases, in order of insertion
    pointer, history, deprecated,        \* release_pointers, their history, deprecations
    etag,                                \* what each operator last read of a pointer
    members, lost, blockers, deficient,  \* what other components decide
    pc, decision, decider,               \* the workflow of each candidate
    attempts, live,                      \* activity attempts, replaced ones included
    locking,                             \* the attempt whose publication holds its locks
    pending, outcome                     \* Temporal updates under way, by key

candidateVars == <<status, creator, version, sources>>
pointerVars   == <<pointer, history>>
gateVars      == <<members, lost, blockers, deficient>>
workflowVars  == <<pc, decision, decider, attempts, live, locking>>
callVars      == <<pending, outcome>>
vars == <<candidateVars, approvals, releases, pointerVars, deprecated, etag,
          gateVars, workflowVars, callVars>>

-----------------------------------------------------------------------------
(* Rows and messages *)

Statuses  == {"NONE", "DRAFT", "PENDING_APPROVAL", "APPROVED", "PUBLISHED", "FAILED"}
Approvals == [cand : Candidates, actor : Actors, channel : Channels]
Releases  == [cand : Candidates, version : Versions, actor : Actors]
Moves     == [old : Nat, new : Nat, version : Nat]
Commands  == [key : Keys, cand : Candidates, actor : Actors, action : {"APPROVED", "REJECTED"}]
Attempts  == [cand : Candidates, act : {"validate", "publish"}, n : 1..MaxAttempts,
              actor : Actors \cup {None}]

Waiting == {"announce", "wait", "escalating", "escalated"}   \* self._status is WAITING
Closed  == {"gate_failed", "rejected", "succeeded", "crashed"}
Places  == {"none", "begin", "validate", "publish"} \cup Waiting \cup Closed

CandidateTypes ==
    /\ status \in [Candidates -> Statuses]
    /\ creator \in [Candidates -> Actors \cup {None}]
    /\ version \in [Candidates -> Versions \cup {None}]
    /\ sources \in [Candidates -> SUBSET Sources]
    /\ approvals \subseteq Approvals
    /\ releases \in Seq(Releases)

PointerTypes ==
    /\ pointer \in [Channels -> [release : Nat, version : Nat]]
    /\ history \in [Channels -> Seq(Moves)]
    /\ deprecated \subseteq Nat
    /\ etag \in [Operators -> [channel : Channels \cup {None}, release : Nat, version : Nat]]

GateTypes ==
    /\ members \subseteq Actors /\ lost \subseteq Sources
    /\ blockers \subseteq Conflicts /\ deficient \subseteq Candidates

WorkflowTypes ==
    /\ pc \in [Candidates -> Places]
    /\ decision \in [Candidates -> {"NONE", "APPROVED", "REJECTED"}]
    /\ decider \in [Candidates -> Actors \cup {None}]
    /\ attempts \in [Candidates -> 0..MaxAttempts]
    /\ live \subseteq Attempts /\ locking \subseteq live

CallTypes ==
    /\ pending \subseteq Commands
    /\ outcome \in [Keys -> {"unused", "sent", "accepted", "refused"}]

TypeOK == CandidateTypes /\ PointerTypes /\ GateTypes /\ WorkflowTypes /\ CallTypes

Init ==
    /\ status = [c \in Candidates |-> "NONE"]
    /\ creator = [c \in Candidates |-> None]
    /\ version = [c \in Candidates |-> None]
    /\ sources = [c \in Candidates |-> {}]
    /\ approvals = {} /\ releases = << >>
    /\ pointer = [ch \in Channels |-> [release |-> 0, version |-> 0]]
    /\ history = [ch \in Channels |-> << >>]
    /\ deprecated = {}
    /\ etag = [o \in Operators |-> [channel |-> None, release |-> 0, version |-> 0]]
    /\ members = Actors /\ lost = {} /\ blockers = {} /\ deficient = {}
    /\ pc = [c \in Candidates |-> "none"]
    /\ decision = [c \in Candidates |-> "NONE"]
    /\ decider = [c \in Candidates |-> None]
    /\ attempts = [c \in Candidates |-> 0]
    /\ live = {} /\ locking = {} /\ pending = {}
    /\ outcome = [k \in Keys |-> "unused"]

-----------------------------------------------------------------------------
(* The gate *)

\* No blocking lint finding (a manifest without source references is one) and
\* a passing run of the fixed suite.
QualityPasses(c) == sources[c] # {} /\ c \notin deficient

\* _evaluate asks the suite's questions as the candidate's creator, who must
\* still hold quality.run.
Evaluable(c) == creator[c] \in members \cap Makers

\* execute_release_validation
ValidationGate(c) == QualityPasses(c) /\ blockers = {}

\* _assert_candidate_current, on behalf of publisher a
CandidateCurrent(c, a) ==
    /\ a \in members \cap Publishers
    /\ sources[c] \cap lost = {}
    /\ Evaluable(c)
    /\ ValidationGate(c)

-----------------------------------------------------------------------------
(* create_candidate: the candidate's transaction, then the workflow's start. *)
(* A client that lost the answer repeats the call with its key.              *)

CreateCandidate(c, a, v, S) ==
    /\ status[c] = "NONE"
    /\ a \in members \cap Makers
    /\ S \cap lost = {}
    /\ \A d \in Candidates : version[d] # v
    /\ status' = [status EXCEPT ![c] = "DRAFT"]
    /\ creator' = [creator EXCEPT ![c] = a]
    /\ version' = [version EXCEPT ![c] = v]
    /\ sources' = [sources EXCEPT ![c] = S]
    /\ UNCHANGED <<approvals, releases, pointerVars, deprecated, etag, gateVars,
                   workflowVars, callVars>>

\* Temporal refuses a second start of the same workflow id.
StartWorkflow(c) ==
    /\ status[c] # "NONE"
    /\ pc[c] = "none"
    /\ pc' = [pc EXCEPT ![c] = "begin"]
    /\ UNCHANGED <<candidateVars, approvals, releases, pointerVars, deprecated, etag,
                   gateVars, decision, decider, attempts, live, locking, callVars>>

-----------------------------------------------------------------------------
(* The workflow's own steps *)

OnlyWorkflowMoves ==
    UNCHANGED <<candidateVars, approvals, releases, pointerVars, deprecated, etag,
                gateVars, locking, callVars>>

\* RUN_STARTED is projected; the validation activity is next.
Begin(c) ==
    /\ pc[c] = "begin"
    /\ pc' = [pc EXCEPT ![c] = "validate"]
    /\ OnlyWorkflowMoves /\ UNCHANGED <<decision, decider, attempts, live>>

\* APPROVAL_WAITING is projected; status has been WAITING since before.
Announced(c) ==
    /\ pc[c] = "announce"
    /\ pc' = [pc EXCEPT ![c] = "wait"]
    /\ OnlyWorkflowMoves /\ UNCHANGED <<decision, decider, attempts, live>>

ApprovalTimeout(c) ==
    /\ pc[c] = "wait" /\ decision[c] = "NONE"
    /\ pc' = [pc EXCEPT ![c] = "escalating"]
    /\ OnlyWorkflowMoves /\ UNCHANGED <<decision, decider, attempts, live>>

\* APPROVAL_TIMEOUT_ESCALATED is projected; the decision remains required.
Escalated(c) ==
    /\ pc[c] = "escalating"
    /\ pc' = [pc EXCEPT ![c] = "escalated"]
    /\ OnlyWorkflowMoves /\ UNCHANGED <<decision, decider, attempts, live>>

\* mutation: the wait after the escalation does not look at the decision
Resume_NotAfterEscalation(c) ==
    /\ pc[c] = "wait" /\ decision[c] # "NONE"
    /\ pc' = [pc EXCEPT ![c] = IF decision[c] = "REJECTED" THEN "rejected" ELSE "publish"]
    /\ attempts' = [attempts EXCEPT ![c] = 0]
    /\ OnlyWorkflowMoves /\ UNCHANGED <<decision, decider, live>>

\* The main coroutine reads the decision only now: updates accepted since the
\* first one have overwritten it.
Resume(c) ==
    /\ pc[c] \in {"wait", "escalated"} /\ decision[c] # "NONE"
    /\ pc' = [pc EXCEPT ![c] = IF decision[c] = "REJECTED" THEN "rejected" ELSE "publish"]
    /\ attempts' = [attempts EXCEPT ![c] = 0]
    /\ OnlyWorkflowMoves /\ UNCHANGED <<decision, decider, live>>

\* An attempt of the activity the workflow awaits.  The one before may have
\* timed out and still be running: it stays live.
Dispatch(c) ==
    /\ pc[c] \in {"validate", "publish"}
    /\ attempts[c] < MaxAttempts
    /\ attempts' = [attempts EXCEPT ![c] = @ + 1]
    /\ live' = live \cup {[cand |-> c, act |-> pc[c], n |-> attempts[c] + 1,
                           actor |-> decider[c]]}
    /\ OnlyWorkflowMoves /\ UNCHANGED <<pc, decision, decider>>

\* A projection or an activity is given up: run() has no handler for it and
\* the Temporal run fails.
Abort(c) ==
    /\ \/ pc[c] \in {"begin", "announce", "escalating"}
       \/ pc[c] \in {"validate", "publish"} /\ attempts[c] > 0
    /\ pc' = [pc EXCEPT ![c] = "crashed"]
    /\ OnlyWorkflowMoves /\ UNCHANGED <<decision, decider, attempts, live>>

-----------------------------------------------------------------------------
(* Activities.  Attempt m ends; its result reaches the workflow only if m is *)
(* the attempt the workflow still awaits, and may be lost even then.         *)

Report(m, place) ==
    /\ live' = live \ {m} /\ locking' = locking \ {m}
    /\ \/ UNCHANGED pc
       \/ /\ pc[m.cand] = m.act /\ attempts[m.cand] = m.n
          /\ pc' = [pc EXCEPT ![m.cand] = place]
    /\ UNCHANGED <<decision, decider, attempts, callVars, gateVars, etag, deprecated>>

\* mutation: a late attempt validates an approved candidate again
Validated_NotApproved == {"PENDING_APPROVAL", "PUBLISHED"}
Validated == {"PENDING_APPROVAL", "APPROVED", "PUBLISHED"}

\* No publication holds the candidate's row.
Unlocked(c) == \A m \in locking : m.cand # c

\* m7_release_validate / execute_release_validation
ValidationCached(m) ==
    /\ m.act = "validate" /\ status[m.cand] \in Validated /\ Unlocked(m.cand)
    /\ Report(m, "announce")
    /\ UNCHANGED <<candidateVars, approvals, releases, pointerVars>>

ValidationPasses(m) ==
    /\ m.act = "validate" /\ status[m.cand] \notin Validated /\ Unlocked(m.cand)
    /\ Evaluable(m.cand) /\ ValidationGate(m.cand)
    /\ status' = [status EXCEPT ![m.cand] = "PENDING_APPROVAL"]
    /\ Report(m, "announce")
    /\ UNCHANGED <<creator, version, sources, approvals, releases, pointerVars>>

ValidationFails(m) ==
    /\ m.act = "validate" /\ status[m.cand] \notin Validated /\ Unlocked(m.cand)
    /\ Evaluable(m.cand) /\ ~ ValidationGate(m.cand)
    /\ status' = [status EXCEPT ![m.cand] = "FAILED"]
    /\ Report(m, "gate_failed")
    /\ UNCHANGED <<creator, version, sources, approvals, releases, pointerVars>>

\* ApiProblem: the transaction rolls back.  The activity lets it escape as an
\* ordinary, retryable error.
ValidationRaises(m) ==
    /\ m.act = "validate" /\ status[m.cand] \notin Validated /\ Unlocked(m.cand)
    /\ ~ Evaluable(m.cand)
    /\ live' = live \ {m}
    /\ UNCHANGED <<candidateVars, approvals, releases, pointerVars, deprecated, etag,
                   gateVars, pc, decision, decider, attempts, locking, callVars>>

ReleasesOf(c) == {i \in DOMAIN releases : releases[i].cand = c}

\* mutation: any publisher's approval will do
ApprovalsBy_Anyone(c, a) == {p \in approvals : p.cand = c}

ApprovalsBy(c, a) == {p \in approvals : p.cand = c /\ p.actor = a}

\* mutation: the history row keeps the version the move replaced
MovePointer_OldVersion(ch, r) ==
    LET v == pointer[ch].version IN
    /\ pointer' = [pointer EXCEPT ![ch] = [release |-> r, version |-> v + 1]]
    /\ history' = [history EXCEPT ![ch] =
                     Append(@, [old |-> pointer[ch].release, new |-> r, version |-> v])]

\* _move_pointer: the pointer row and its history change together.
MovePointer(ch, r) ==
    LET v == pointer[ch].version + 1 IN
    /\ pointer' = [pointer EXCEPT ![ch] = [release |-> r, version |-> v]]
    /\ history' = [history EXCEPT ![ch] =
                     Append(@, [old |-> pointer[ch].release, new |-> r, version |-> v])]

\* m7_release_publish / publish_approved_release / publish_release
PublishAgain(m) ==
    /\ m.act = "publish" /\ ApprovalsBy(m.cand, m.actor) # {}
    /\ ReleasesOf(m.cand) # {}
    /\ Report(m, "succeeded")
    /\ UNCHANGED <<candidateVars, approvals, releases, pointerVars>>

\* mutations: the approval stands for the gate it saw; the check for a replay is lost
MayPublish_NoRecheck(c, a) == ReleasesOf(c) = {} /\ status[c] = "APPROVED"
MayPublish_Replays(c, a) == CandidateCurrent(c, a)

MayPublish(c, a) ==
    /\ ReleasesOf(c) = {}
    /\ status[c] = "APPROVED"
    /\ CandidateCurrent(c, a)

\* The transaction locks the candidate and, FOR NO KEY UPDATE, the space: one
\* publication of the space at a time.  With FOR SHARE it locks the space's
\* memberships and sources.
PublishChecks(m) ==
    /\ m.act = "publish" /\ ApprovalsBy(m.cand, m.actor) # {}
    /\ locking = {}
    /\ MayPublish(m.cand, m.actor)
    /\ locking' = {m}
    /\ UNCHANGED <<candidateVars, approvals, releases, pointerVars, deprecated, etag,
                   gateVars, pc, decision, decider, attempts, live, callVars>>

\* mutation: the pointer is moved to the last release read before the insert
PublishCommits_LastRead(m) ==
    /\ m \in locking
    /\ \E p \in ApprovalsBy(m.cand, m.actor) :
          /\ releases' = Append(releases, [cand |-> m.cand, version |-> version[m.cand],
                                           actor |-> m.actor])
          /\ MovePointer(p.channel, Len(releases))
    /\ status' = [status EXCEPT ![m.cand] = "PUBLISHED"]
    /\ Report(m, "succeeded")
    /\ UNCHANGED <<creator, version, sources, approvals>>

PublishCommits(m) ==
    /\ m \in locking
    /\ \E p \in ApprovalsBy(m.cand, m.actor) :
          /\ releases' = Append(releases, [cand |-> m.cand, version |-> version[m.cand],
                                           actor |-> m.actor])
          /\ MovePointer(p.channel, Len(releases) + 1)
    /\ status' = [status EXCEPT ![m.cand] = "PUBLISHED"]
    /\ Report(m, "succeeded")
    /\ UNCHANGED <<creator, version, sources, approvals>>

\* The worker or its connection dies inside the transaction.
PublishRollsBack(m) ==
    /\ m \in locking
    /\ live' = live \ {m} /\ locking' = {}
    /\ UNCHANGED <<candidateVars, approvals, releases, pointerVars, deprecated, etag,
                   gateVars, pc, decision, decider, attempts, callVars>>

\* mutation: the activity swallows the refusal
PublishRefused_Swallowed(m) ==
    /\ m.act = "publish"
    /\ \/ ApprovalsBy(m.cand, m.actor) = {}
       \/ locking = {} /\ ReleasesOf(m.cand) = {} /\ ~ MayPublish(m.cand, m.actor)
    /\ Report(m, "succeeded")
    /\ UNCHANGED <<candidateVars, approvals, releases, pointerVars>>

\* ApiProblem, translated to a non-retryable failure of the activity.
PublishRefused(m) ==
    /\ m.act = "publish"
    /\ \/ ApprovalsBy(m.cand, m.actor) = {}
       \/ locking = {} /\ ReleasesOf(m.cand) = {} /\ ~ MayPublish(m.cand, m.actor)
    /\ Report(m, "crashed")
    /\ UNCHANGED <<candidateVars, approvals, releases, pointerVars>>

RunAttempt(m) ==
    \/ ValidationCached(m) \/ ValidationPasses(m)
    \/ ValidationFails(m)  \/ ValidationRaises(m)
    \/ PublishAgain(m)     \/ PublishChecks(m)
    \/ PublishCommits(m)   \/ PublishRollsBack(m)  \/ PublishRefused(m)

-----------------------------------------------------------------------------
(* Commands to the workflow *)

\* publish_candidate, first half: record_release_approval.  A repeated key
\* finds its idempotency record and only sends the update again.
RecordApproval(c, a, ch, k) ==
    /\ outcome[k] = "unused"
    /\ a \in members \cap Publishers
    /\ status[c] = "PENDING_APPROVAL"
    /\ a # creator[c]
    /\ locking = {} /\ CandidateCurrent(c, a)
    /\ approvals' = approvals \cup {[cand |-> c, actor |-> a, channel |-> ch]}
    /\ status' = [status EXCEPT ![c] = "APPROVED"]
    /\ pending' = pending \cup {[key |-> k, cand |-> c, actor |-> a, action |-> "APPROVED"]}
    /\ outcome' = [outcome EXCEPT ![k] = "sent"]
    /\ UNCHANGED <<creator, version, sources, releases, pointerVars, deprecated, etag,
                   gateVars, workflowVars>>

\* command_workflow_task: the task row must say WAITING.  It says so from the
\* APPROVAL_WAITING projection until the run's last one, which may be late or lost.
RowSaysWaiting(c) == pc[c] \in Waiting \cup {"publish", "rejected", "succeeded", "crashed"}

GenericCommand(c, a, act, k) ==
    /\ outcome[k] = "unused"
    /\ a \in members \cap Reviewers
    /\ RowSaysWaiting(c)
    /\ pending' = pending \cup {[key |-> k, cand |-> c, actor |-> a, action |-> act]}
    /\ outcome' = [outcome EXCEPT ![k] = "sent"]
    /\ UNCHANGED <<candidateVars, approvals, releases, pointerVars, deprecated, etag,
                   gateVars, workflowVars>>

\* KnowledgeReleaseV2Workflow.command.  Temporal keeps the outcome of an update
\* id: repeating the key repeats the outcome, so a refusal is final.
AcceptCommand(m) ==
    /\ pc[m.cand] \in Waiting
    /\ decision' = [decision EXCEPT ![m.cand] = m.action]
    /\ decider' = [decider EXCEPT ![m.cand] = m.actor]
    /\ outcome' = [outcome EXCEPT ![m.key] = "accepted"]
    /\ pending' = pending \ {m}
    /\ UNCHANGED <<candidateVars, approvals, releases, pointerVars, deprecated, etag,
                   gateVars, pc, attempts, live, locking>>

RefuseCommand(m) ==
    /\ pc[m.cand] \notin Waiting
    /\ outcome' = [outcome EXCEPT ![m.key] = "refused"]
    /\ pending' = pending \ {m}
    /\ UNCHANGED <<candidateVars, approvals, releases, pointerVars, deprecated, etag,
                   gateVars, workflowVars>>

-----------------------------------------------------------------------------
(* Pointers and deprecation *)

ReadPointer(o, ch) ==
    /\ etag' = [etag EXCEPT ![o] = [channel |-> ch, release |-> pointer[ch].release,
                                    version |-> pointer[ch].version]]
    /\ UNCHANGED <<candidateVars, approvals, releases, pointerVars, deprecated, gateVars,
                   workflowVars, callVars>>

\* mutation: If-Match is not compared
SwitchPointer_NoIfMatch(o, r) ==
    LET ch == etag[o].channel IN
    /\ o \in members
    /\ ch # None
    /\ pointer[ch].version < MaxMoves
    /\ MovePointer(ch, r)
    /\ UNCHANGED <<candidateVars, approvals, releases, deprecated, etag, gateVars,
                   workflowVars, callVars>>

\* switch_release_pointer with the If-Match version of an earlier read
SwitchPointer(o, r) ==
    LET ch == etag[o].channel IN
    /\ o \in members
    /\ ch # None
    /\ pointer[ch].version = etag[o].version
    /\ pointer[ch].version < MaxMoves
    /\ MovePointer(ch, r)
    /\ UNCHANGED <<candidateVars, approvals, releases, deprecated, etag, gateVars,
                   workflowVars, callVars>>

\* deprecate_release: one row per release, no other effect
Deprecate(r) ==
    /\ r \notin deprecated
    /\ deprecated' = deprecated \cup {r}
    /\ UNCHANGED <<candidateVars, approvals, releases, pointerVars, etag, gateVars,
                   workflowVars, callVars>>

-----------------------------------------------------------------------------
(* What other components do to the gate *)

OnlyGateChanges ==
    UNCHANGED <<candidateVars, approvals, releases, pointerVars, deprecated, etag,
                workflowVars, callVars>>

\* revoke_membership and a new grant lock the membership's row
ChangeMembership(a) ==
    /\ locking = {}
    /\ members' = IF a \in members THEN members \ {a} ELSE members \cup {a}
    /\ OnlyGateChanges /\ UNCHANGED <<lost, blockers, deficient>>

\* invalidate_source_version, archive_source lock the source's row; never undone
LoseSource(s) ==
    /\ locking = {}
    /\ s \notin lost
    /\ lost' = lost \cup {s}
    /\ OnlyGateChanges /\ UNCHANGED <<members, blockers, deficient>>

\* mutation: a conflict is written without the space's lock
ChangeConflict_NoSpaceLock(k) ==
    /\ blockers' = IF k \in blockers THEN blockers \ {k} ELSE blockers \cup {k}
    /\ OnlyGateChanges /\ UNCHANGED <<members, lost, deficient>>

\* materialize_conflicts and resolve_conflict (REOPEN or a settling resolution)
\* lock the space FOR NO KEY UPDATE
ChangeConflict(k) ==
    /\ locking = {}
    /\ blockers' = IF k \in blockers THEN blockers \ {k} ELSE blockers \cup {k}
    /\ OnlyGateChanges /\ UNCHANGED <<members, lost, deficient>>

\* a page review or the retrieval pipeline changes what lint or the suite finds;
\* nothing locks what those read
ChangeQuality(c) ==
    /\ deficient' = IF c \in deficient THEN deficient \ {c} ELSE deficient \cup {c}
    /\ OnlyGateChanges /\ UNCHANGED <<members, lost, blockers>>

-----------------------------------------------------------------------------
WorkflowStep(c) ==
    \/ Begin(c) \/ Announced(c) \/ ApprovalTimeout(c) \/ Escalated(c)
    \/ Resume(c) \/ Dispatch(c) \/ Abort(c)

Gate ==
    \/ \E a \in Actors : ChangeMembership(a)
    \/ \E s \in Sources : LoseSource(s)
    \/ \E k \in Conflicts : ChangeConflict(k)
    \/ \E c \in Candidates : ChangeQuality(c)

Requests ==
    \/ \E c \in Candidates :
         \/ \E a \in Makers, v \in Versions, S \in SUBSET Sources : CreateCandidate(c, a, v, S)
         \/ StartWorkflow(c)
         \/ \E a \in Publishers, ch \in Channels, k \in Keys : RecordApproval(c, a, ch, k)
         \/ \E a \in Reviewers, act \in {"APPROVED", "REJECTED"}, k \in Keys :
              GenericCommand(c, a, act, k)
    \/ \E o \in Operators : 
         \/ \E ch \in Channels : ReadPointer(o, ch)
         \/ \E r \in DOMAIN releases : SwitchPointer(o, r)
    \/ \E r \in DOMAIN releases : Deprecate(r)

Next ==
    \/ Requests
    \/ Gate
    \/ \E c \in Candidates : WorkflowStep(c)
    \/ \E m \in live : RunAttempt(m)
    \/ \E m \in pending : AcceptCommand(m) \/ RefuseCommand(m)

Spec == Init /\ [][Next]_vars

\* Workers poll both task queues and Temporal re-delivers what was lost, so a
\* workflow's next step, a started attempt and a sent update do happen; an
\* activity ends after its last attempt.  Nobody owes a request or a timeout.
GiveUp(c) == attempts[c] = MaxAttempts /\ Abort(c)

Fairness ==
    /\ \A c \in Candidates :
         /\ WF_vars(Begin(c) \/ Announced(c) \/ Escalated(c) \/ Resume(c) \/ Dispatch(c))
         /\ WF_vars(GiveUp(c))
    /\ \A m \in Attempts : WF_vars(m \in live /\ RunAttempt(m))
    /\ \A m \in Commands : WF_vars(m \in pending /\ (AcceptCommand(m) \/ RefuseCommand(m)))

FairSpec == Spec /\ Fairness

-----------------------------------------------------------------------------
(* Safety *)

\* What is released was approved, on the record, by the very publisher the
\* release names, who did not create the candidate - although that publisher is
\* whoever sent the last accepted command, not who wrote the approval.
IndependentApproval ==
    \A i \in DOMAIN releases :
        /\ releases[i].actor # creator[releases[i].cand]
        /\ \E p \in approvals : p.cand = releases[i].cand /\ p.actor = releases[i].actor

\* Retried and overlapping publication attempts create one release, and a SemVer
\* is never used twice in the space.
ReleasesAreUnique ==
    \A i, j \in DOMAIN releases :
        (\/ releases[i].cand = releases[j].cand
         \/ releases[i].version = releases[j].version) => i = j

\* No half publication: the candidate row and the releases table never disagree,
\* whatever replaced attempts still run.
PublishedIffReleased ==
    \A c \in Candidates : status[c] = "PUBLISHED" <=> ReleasesOf(c) # {}

\* Candidates and releases fit together.
ReleaseRowsFit == TypeOK /\ PublishedIffReleased /\ ReleasesAreUnique

\* The terminal state of a workflow agrees with what happened to its candidate;
\* only a crashed run may or may not have published.
OutcomeIsTrue ==
    \A c \in Candidates :
        /\ pc[c] = "succeeded" => ReleasesOf(c) # {}
        /\ pc[c] \in {"rejected", "gate_failed"} => ReleasesOf(c) = {}

\* Every channel serves an existing release, and its history is the unbroken
\* chain of moves that led there.
ChannelHistory ==
    \A ch \in Channels :
        LET h == history[ch] IN
        /\ Len(h) = pointer[ch].version
        /\ \A i \in 1..Len(h) :
             /\ h[i].version = i
             /\ h[i].old = IF i = 1 THEN 0 ELSE h[i - 1].new
             /\ h[i].new \in DOMAIN releases
        /\ pointer[ch].release = IF h = << >> THEN 0 ELSE h[Len(h)].new

-----------------------------------------------------------------------------
(* Action properties *)

\* The gate that counts is the one at the moment of publication: memberships,
\* sources and conflicts may all have changed since the approval, and other
\* transactions change them while the publication works.
PublishesUnderCurrentGate ==
    [][\A i \in DOMAIN releases' \ DOMAIN releases :
         LET r == releases'[i] IN
         /\ r.actor \in members \cap Publishers /\ Evaluable(r.cand)
         /\ sources[r.cand] \cap lost = {}
         /\ blockers = {}]_vars

\* A rollback never discards a publication its operator has not seen: a pointer
\* that moves without a new release was read by an operator in its last state.
SwitchesWhatWasRead ==
    [][\A ch \in Channels :
         (pointer[ch] # pointer'[ch] /\ releases' = releases) =>
            \E o \in Operators :
               etag[o] = [channel |-> ch, release |-> pointer[ch].release,
                          version |-> pointer[ch].version]]_vars

\* Releases, approvals and pointer history are append-only, and an approved
\* candidate is never sent back by a late validation attempt.
NothingIsUndone ==
    [][/\ \A i \in DOMAIN releases : i \in DOMAIN releases' /\ releases'[i] = releases[i]
       /\ approvals \subseteq approvals'
       /\ \A ch \in Channels : \A i \in DOMAIN history[ch] :
             i \in DOMAIN history'[ch] /\ history'[ch][i] = history[ch][i]
       /\ \A c \in Candidates :
             /\ status[c] = "APPROVED" => status'[c] \in {"APPROVED", "PUBLISHED"}
             /\ status[c] = "PUBLISHED" => status'[c] = "PUBLISHED"]_vars

-----------------------------------------------------------------------------
(* The abstract specification *)

Ledger == INSTANCE ReleaseLedger WITH
    ledger <- releases, approved <- approvals,
    serving <- [ch \in Channels |-> pointer[ch].release]

\* Candidates, workflows, activities, retries and changing gates come down to a
\* ledger: one approval and one release a candidate, served as it is published.
ImplementsLedger == Ledger!Spec

-----------------------------------------------------------------------------
(* Liveness *)

\* A decision the workflow accepted ends it, whether it came while the waiting
\* was being announced, before the timeout or after the escalation.
DecisionIsCarriedOut ==
    \A c \in Candidates : decision[c] # "NONE" ~> pc[c] \in Closed
=============================================================================
