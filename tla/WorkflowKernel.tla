--------------------------- MODULE WorkflowKernel ---------------------------
(***************************************************************************)
(* One task of the workflow kernel: the durable runs of a v1 workflow,     *)
(* the commands sent to them, and the task row that API and UI read.       *)
(*                                                                         *)
(* The run's coroutine and its update handlers interleave at every await.  *)
(* A projection is an activity, hence a message: it is applied some time   *)
(* after it is emitted, perhaps by several attempts, perhaps after the run *)
(* gave it up, and those of handlers race with those of the coroutine.     *)
(* Row and run are brought together by hand where that fails (reconcile).  *)
(***************************************************************************)
EXTENDS Integers, Sequences, FiniteSets, Functions, SequencesExt

CONSTANTS
    N,            \* steps of the plan
    Gate,         \* the step that waits for a human decision; 0: none
    IsReview,     \* the type is HUMAN_REVIEW
    StartPaused,
    Keys,         \* Idempotency-Keys of commands
    Repairers,    \* users who reconcile
    MaxRuns,      \* bound: runs, the retries included
    MaxReplays,   \* bound: projections with an attempt that outlives its success
    None

ASSUME PlanAssumption == N \in Nat /\ Gate \in 0..N
ASSUME ModeAssumption == IsReview \in BOOLEAN /\ StartPaused \in BOOLEAN
ASSUME BoundAssumption == MaxRuns \in Nat /\ MaxReplays \in Nat
ASSUME NoneAssumption == None \notin [status : STRING, run : Nat]

VARIABLES
    row,            \* workflow_tasks: its status and the run it follows
    events,         \* event keys in workflow_task_events
    marked,         \* runs whose start is among them
    run, closed,    \* Temporal: the latest run, and how it closed
    pc, ix,         \* where the coroutine is, and in which step
    status, cancel, decision,
    done, undone,   \* completed and compensated steps
    seq, awaits,    \* the last projection emitted, and the one the coroutine awaits
    handlers,       \* projections that update handlers await
    flying,         \* projections with an attempt that may still be applied
    marks,          \* mark_workflow_started calls that are due
    used, pending,  \* keys used, commands on their way
    seen            \* what each repairer has read of Temporal

rowVars     == <<row, events, marked>>
stepVars    == <<ix, done, undone>>
stateVars   == <<status, cancel, decision>>
projectVars == <<seq, awaits, handlers, flying>>
callVars    == <<marks, used, pending, seen>>
vars == <<rowVars, run, closed, pc, stepVars, stateVars, projectVars, callVars>>

-----------------------------------------------------------------------------
Terminal == {"CANCELLED", "SUCCEEDED", "FAILED", "TIMED_OUT", "REJECTED"}
Statuses == {"CREATED", "STARTING", "RUNNING", "PAUSED", "WAITING", "WAITING_INPUT",
             "CANCELLING", "COMPENSATING"} \cup Terminal
Actions  == {"PAUSE", "RESUME", "CANCEL", "CLAIM", "REQUEST_INPUT", "PROVIDE_INPUT",
             "APPROVE", "REJECT", "RETRY"}
Rows        == [status : Statuses, run : Nat]
Projections == [run : Nat, n : Nat, command : BOOLEAN, status : Statuses]
Commands    == [key : Keys, action : Actions]

Projecting == {"starting", "announce", "escalating", "step_started", "step_done",
               "undoing", "succeeding", "rejecting", "cancelling", "failing"}
Deciding   == {"wait", "escalated"}
Places     == Projecting \cup Deciding \cup {"none", "paused", "draining", "step", "undo", "end"}

TypeOK ==
    /\ row \in Rows
    /\ events \subseteq Nat \X Nat /\ marked \subseteq Nat
    /\ run \in Nat
    /\ closed \in {"none", "open", "completed", "failed", "timed_out"}
    /\ pc \in Places /\ ix \in 0..(N + 1)
    /\ status \in Statuses /\ cancel \in BOOLEAN
    /\ decision \in {"NONE", "APPROVED", "REJECTED"}
    /\ done \in Seq(1..N) /\ undone \in Seq(1..N)
    /\ seq \in Nat /\ awaits \in Nat /\ handlers \subseteq Nat
    /\ flying \subseteq Projections
    /\ marks \subseteq Nat /\ used \subseteq Keys /\ pending \subseteq Commands
    /\ seen \in [Repairers -> Rows \cup {None}]

Init ==
    /\ row = [status |-> "CREATED", run |-> 0]
    /\ events = {} /\ marked = {}
    /\ run = 0 /\ closed = "none"
    /\ pc = "none" /\ ix = 0
    /\ status = "CREATED" /\ cancel = FALSE /\ decision = "NONE"
    /\ done = << >> /\ undone = << >>
    /\ seq = 0 /\ awaits = 0 /\ handlers = {} /\ flying = {}
    /\ marks = {} /\ used = {} /\ pending = {}
    /\ seen = [o \in Repairers |-> None]

-----------------------------------------------------------------------------
(* available_workflow_commands *)

Available(st) ==
    CASE st = "RUNNING"       -> {"PAUSE", "CANCEL"}
      [] st = "PAUSED"        -> {"RESUME", "CANCEL"}
      [] st = "WAITING_INPUT" -> {"PROVIDE_INPUT", "CANCEL"}
      [] st = "WAITING"       -> {"APPROVE", "REJECT", "CANCEL"} \cup
                                 (IF IsReview THEN {"CLAIM", "REQUEST_INPUT"} ELSE {})
      [] st \in {"FAILED", "TIMED_OUT"} -> {"RETRY"}
      [] OTHER -> {}

\* What a command makes of the run's status; CLAIM leaves it.
StatusAfter(action, st) ==
    CASE action = "PAUSE"  -> "PAUSED"
      [] action = "CANCEL" -> "CANCELLING"
      [] action \in {"RESUME", "APPROVE"} -> "RUNNING"
      [] action = "REQUEST_INPUT" -> "WAITING_INPUT"
      [] action = "PROVIDE_INPUT" -> "WAITING"
      [] action = "REJECT" -> "REJECTED"
      [] OTHER -> st

-----------------------------------------------------------------------------
(* Starting a run: Temporal first, then mark_workflow_started *)

NewRun(r) ==
    LET st == IF StartPaused THEN "PAUSED" ELSE "RUNNING" IN
    /\ run' = r /\ closed' = "open"
    /\ pc' = "starting" /\ ix' = 1
    /\ status' = st /\ cancel' = FALSE /\ decision' = "NONE"
    /\ done' = << >> /\ undone' = << >>
    /\ seq' = 1 /\ awaits' = 1 /\ handlers' = {}
    /\ flying' = flying \cup {[run |-> r, n |-> 1, command |-> FALSE, status |-> st]}
    /\ marks' = marks \cup {r}
    /\ UNCHANGED <<rowVars, used, seen>>

Start ==
    /\ closed = "none"
    /\ NewRun(1)
    /\ UNCHANGED pending

\* A repeated POST: Temporal answers with the run that exists.
StartAgain ==
    /\ run > 0 /\ run \notin marked
    /\ marks' = marks \cup {run}
    /\ UNCHANGED <<rowVars, run, closed, pc, stepVars, stateVars, projectVars, used,
                   pending, seen>>

\* mark_workflow_started, which the run's own projections may have overtaken
MarkStarted(r) ==
    /\ r \in marks
    /\ row' = IF r \in marked \/ row.run = r THEN row ELSE [status |-> "STARTING", run |-> r]
    /\ marked' = marked \cup {r}
    /\ marks' = marks \ {r}
    /\ UNCHANGED <<events, run, closed, pc, stepVars, stateVars, projectVars, used,
                   pending, seen>>

-----------------------------------------------------------------------------
(* The coroutine.  Between two awaits it runs alone: each action is what it *)
(* does from the end of one await to the start of the next.                 *)

\* The coroutine emits a projection with status st and awaits it at place.
Project(place, st) ==
    /\ pc' = place /\ status' = st
    /\ seq' = seq + 1 /\ awaits' = seq + 1
    /\ flying' = flying \cup {[run |-> run, n |-> seq + 1, command |-> FALSE, status |-> st]}
    /\ UNCHANGED handlers

NoProjection == UNCHANGED <<status, projectVars>>

OnlyRunMoves == UNCHANGED <<rowVars, run, decision, cancel, callVars>>

\* The activity the coroutine awaits has reported.
Landed == <<run, awaits>> \in events

Close(how) == pc' = "end" /\ closed' = how /\ NoProjection

\* mutations: the loop does not look at the cancellation; nor at the pause
EnterStep_NotCancelled(i) ==
    /\ ix' = i
    /\ \/ i > N /\ Project("succeeding", "SUCCEEDED")
       \/ i <= N /\ status = "PAUSED" /\ pc' = "paused" /\ NoProjection
       \/ i <= N /\ status # "PAUSED" /\ i = Gate /\ Project("announce", "WAITING")
       \/ i <= N /\ status # "PAUSED" /\ i # Gate /\ Project("step_started", "RUNNING")
EnterStep_NotPaused(i) ==
    /\ ix' = i
    /\ \/ i > N /\ Project("succeeding", "SUCCEEDED")
       \/ i <= N /\ cancel /\ Project("undoing", "COMPENSATING")
       \/ i <= N /\ ~ cancel /\ i = Gate /\ Project("announce", "WAITING")
       \/ i <= N /\ ~ cancel /\ i # Gate /\ Project("step_started", "RUNNING")

\* The head of the loop with step i, or the end of it.  Only here, and in the
\* wait for a decision, is the cancellation looked at.
EnterStep(i) ==
    /\ ix' = i
    /\ \/ i > N /\ Project("succeeding", "SUCCEEDED")
       \/ i <= N /\ cancel /\ Project("undoing", "COMPENSATING")
       \/ i <= N /\ ~ cancel /\ status = "PAUSED" /\ pc' = "paused" /\ NoProjection
       \/ i <= N /\ ~ cancel /\ status # "PAUSED" /\ i = Gate /\ Project("announce", "WAITING")
       \/ i <= N /\ ~ cancel /\ status # "PAUSED" /\ i # Gate /\ Project("step_started", "RUNNING")

\* RUN_STARTED is projected.
Started ==
    /\ pc = "starting" /\ Landed
    /\ EnterStep(1)
    /\ OnlyRunMoves /\ UNCHANGED <<closed, done, undone>>

\* _wait_while_paused
Unpaused ==
    /\ pc = "paused" /\ (status # "PAUSED" \/ cancel)
    /\ EnterStep(ix)
    /\ OnlyRunMoves /\ UNCHANGED <<closed, done, undone>>

\* APPROVAL_WAITING, or the escalation, is projected.
Announced ==
    /\ pc \in {"announce", "escalating"} /\ Landed
    /\ pc' = IF pc = "announce" THEN "wait" ELSE "escalated"
    /\ NoProjection
    /\ OnlyRunMoves /\ UNCHANGED <<closed, stepVars>>

ApprovalTimeout ==
    /\ pc = "wait" /\ decision = "NONE" /\ ~ cancel
    /\ Project("escalating", status)
    /\ OnlyRunMoves /\ UNCHANGED <<closed, stepVars>>

\* mutation: an escalated request counts as decided
Decided_ByTimeout ==
    /\ pc \in Deciding /\ (decision # "NONE" \/ cancel \/ pc = "escalated")
    /\ \/ cancel /\ pc' = "draining" /\ NoProjection
       \/ ~ cancel /\ decision = "REJECTED" /\ Project("rejecting", "REJECTED")
       \/ ~ cancel /\ decision # "REJECTED" /\ Project("step_started", "RUNNING")
    /\ OnlyRunMoves /\ UNCHANGED <<closed, stepVars>>

\* mutation: the wait does not end with a cancellation
Decided_NotCancelled ==
    /\ pc \in Deciding /\ decision # "NONE"
    /\ \/ cancel /\ pc' = "draining" /\ NoProjection
       \/ ~ cancel /\ decision = "REJECTED" /\ Project("rejecting", "REJECTED")
       \/ ~ cancel /\ decision = "APPROVED" /\ Project("step_started", "RUNNING")
    /\ OnlyRunMoves /\ UNCHANGED <<closed, stepVars>>

\* mutation: nobody waits after the escalation
Decided_NotEscalated ==
    /\ pc = "wait" /\ (decision # "NONE" \/ cancel)
    /\ \/ cancel /\ pc' = "draining" /\ NoProjection
       \/ ~ cancel /\ decision = "REJECTED" /\ Project("rejecting", "REJECTED")
       \/ ~ cancel /\ decision = "APPROVED" /\ Project("step_started", "RUNNING")
    /\ OnlyRunMoves /\ UNCHANGED <<closed, stepVars>>

\* The end of _wait_for_approval: a cancellation comes before the decision.
Decided ==
    /\ pc \in Deciding /\ (decision # "NONE" \/ cancel)
    /\ \/ cancel /\ pc' = "draining" /\ NoProjection
       \/ ~ cancel /\ decision = "REJECTED" /\ Project("rejecting", "REJECTED")
       \/ ~ cancel /\ decision = "APPROVED" /\ Project("step_started", "RUNNING")
    /\ OnlyRunMoves /\ UNCHANGED <<closed, stepVars>>

\* all_handlers_finished
Drained ==
    /\ pc = "draining" /\ handlers = {}
    /\ Project("undoing", "COMPENSATING")
    /\ OnlyRunMoves /\ UNCHANGED <<closed, stepVars>>

StepStarts ==
    /\ pc = "step_started" /\ Landed
    /\ pc' = "step" /\ NoProjection
    /\ OnlyRunMoves /\ UNCHANGED <<closed, stepVars>>

\* execute_m2_kernel_step returns; STEP_SUCCEEDED carries whatever status
\* commands have left.
StepSucceeds ==
    /\ pc = "step"
    /\ done' = Append(done, ix)
    /\ Project("step_done", status)
    /\ OnlyRunMoves /\ UNCHANGED <<closed, ix, undone>>

NextStep ==
    /\ pc = "step_done" /\ Landed
    /\ EnterStep(ix + 1)
    /\ OnlyRunMoves /\ UNCHANGED <<closed, done, undone>>

\* mutation: steps are undone in the order they were done
UndoStep_Forwards ==
    /\ pc = "undo"
    /\ undone' = Append(undone, done[Len(undone) + 1])
    /\ Project("undoing", status)
    /\ OnlyRunMoves /\ UNCHANGED <<closed, ix, done>>

\* compensate_m2_kernel_step
UndoStep ==
    /\ pc = "undo"
    /\ undone' = Append(undone, done[Len(done) - Len(undone)])
    /\ Project("undoing", status)
    /\ OnlyRunMoves /\ UNCHANGED <<closed, ix, done>>

\* COMPENSATION_STARTED, or STEP_COMPENSATED, is projected.
UndoNext ==
    /\ pc = "undoing" /\ Landed
    /\ \/ Len(undone) < Len(done) /\ pc' = "undo" /\ NoProjection
       \/ Len(undone) = Len(done) /\ Project("cancelling", "CANCELLED")
    /\ OnlyRunMoves /\ UNCHANGED <<closed, stepVars>>

Completed ==
    /\ pc \in {"succeeding", "rejecting", "cancelling"} /\ Landed
    /\ Close("completed")
    /\ OnlyRunMoves /\ UNCHANGED stepVars

\* An activity is given up: after its last attempt, or when its time is over,
\* although an attempt may have been, or may yet be, applied.  Inside the loop
\* RUN_FAILED is projected.
GiveUp ==
    /\ pc \in (Projecting \cup {"step", "undo"}) \ {"starting", "failing"}
    /\ Project("failing", "FAILED")
    /\ OnlyRunMoves /\ UNCHANGED <<closed, stepVars>>

\* The run fails: RUN_FAILED has been projected or given up, or RUN_STARTED
\* was given up, for which there is no handler.
RunFails ==
    /\ pc \in {"failing", "starting"}
    /\ Close("failed")
    /\ OnlyRunMoves /\ UNCHANGED stepVars

\* run_timeout: Temporal closes the run; nothing more of it is executed.
RunTimesOut ==
    /\ closed = "open"
    /\ Close("timed_out")
    /\ OnlyRunMoves /\ UNCHANGED stepVars

RunStep ==
    \/ Started \/ Unpaused \/ Announced \/ Decided \/ Drained
    \/ StepStarts \/ StepSucceeds \/ NextStep \/ UndoStep \/ UndoNext
    \/ Completed \/ GiveUp \/ RunFails

-----------------------------------------------------------------------------
(* record_projection_transition / apply_projection_event *)

\* mutation: a late projection of a command is applied as it is
Ignored_NotCommands(p) ==
    \/ row.run \notin {0, p.run}
    \/ row.status \in Terminal /\ p.status # row.status /\ ~ p.command

\* mutation: projections of every run are applied while the row has not ended
Ignored_NotStale(p) ==
    row.status \in Terminal /\ (row.run # p.run \/ p.status # row.status \/ p.command)

Ignored(p) ==
    \/ row.run \notin {0, p.run}
    \/ row.status \in Terminal /\ (p.status # row.status \/ p.command)

Replays == {p \in flying : <<p.run, p.n>> \in events}

\* mutation: the event key is not looked up
ApplyProjection_NoEventKey(p) ==
    /\ events' = events \cup {<<p.run, p.n>>}
    /\ row' = [status |-> IF Ignored(p) THEN row.status ELSE p.status,
               run |-> IF row.run = 0 THEN p.run ELSE row.run]
    /\ \/ flying' = flying \ {p}
       \/ UNCHANGED flying /\ Cardinality(Replays \cup {p}) <= MaxReplays
    /\ UNCHANGED <<marked, run, closed, pc, stepVars, stateVars, seq, awaits, handlers, callVars>>

\* An attempt is applied.  Its report may be lost and another attempt be under
\* way, which finds the event key taken.
ApplyProjection(p) ==
    /\ events' = events \cup {<<p.run, p.n>>}
    /\ row' = IF <<p.run, p.n>> \in events THEN row
              ELSE [status |-> IF Ignored(p) THEN row.status ELSE p.status,
                    run |-> IF row.run = 0 THEN p.run ELSE row.run]
    /\ \/ flying' = flying \ {p}
       \/ UNCHANGED flying /\ Cardinality(Replays \cup {p}) <= MaxReplays
    /\ UNCHANGED <<marked, run, closed, pc, stepVars, stateVars, seq, awaits, handlers, callVars>>

\* The update handler's own projection has landed or is given up.
HandlerEnds(n) ==
    /\ n \in handlers
    /\ handlers' = handlers \ {n}
    /\ UNCHANGED <<rowVars, run, closed, pc, stepVars, stateVars, seq, awaits, flying, callVars>>

-----------------------------------------------------------------------------
(* command_workflow_task *)

\* The row, as the caller's ETag has it, allows the action; the call goes out.
SendCommand(k, action) ==
    /\ k \notin used
    /\ action \in Available(row.status)
    /\ used' = used \cup {k}
    /\ pending' = pending \cup {[key |-> k, action |-> action]}
    /\ UNCHANGED <<rowVars, run, closed, pc, stepVars, stateVars, projectVars, marks, seen>>

\* _handle_command
AcceptCommand(m) ==
    /\ closed = "open" /\ m.action # "RETRY"
    /\ m.action \in Available(status)
    /\ status' = StatusAfter(m.action, status)
    /\ cancel' = (cancel \/ m.action = "CANCEL")
    /\ decision' = CASE m.action = "APPROVE" -> "APPROVED"
                     [] m.action = "REJECT"  -> "REJECTED"
                     [] OTHER -> decision
    /\ seq' = seq + 1 /\ handlers' = handlers \cup {seq + 1}
    /\ flying' = flying \cup {[run |-> run, n |-> seq + 1, command |-> TRUE, status |-> status']}
    /\ pending' = pending \ {m}
    /\ UNCHANGED <<rowVars, run, closed, pc, stepVars, awaits, marks, used, seen>>

\* gateway.retry with ALLOW_DUPLICATE_FAILED_ONLY
RetryRun(m) ==
    /\ m.action = "RETRY"
    /\ closed \in {"failed", "timed_out"} /\ run < MaxRuns
    /\ NewRun(run + 1)
    /\ pending' = pending \ {m}

RefuseCommand(m) ==
    /\ IF m.action = "RETRY" THEN closed \notin {"failed", "timed_out"}
       ELSE closed # "open" \/ m.action \notin Available(status)
    /\ pending' = pending \ {m}
    /\ UNCHANGED <<rowVars, run, closed, pc, stepVars, stateVars, projectVars, marks, used, seen>>

-----------------------------------------------------------------------------
(* reconcile_workflow_task: Temporal is asked first, the row repaired later *)

\* _merge_temporal_state: a closed run is known by how it closed, whatever the
\* workflow returned; the query of an open one may fail.
Inspections ==
    CASE closed = "open"      -> {[status |-> st, run |-> run] : st \in {status, "RUNNING"}}
      [] closed = "completed" -> {[status |-> "SUCCEEDED", run |-> run]}
      [] closed = "failed"    -> {[status |-> "FAILED", run |-> run]}
      [] closed = "timed_out" -> {[status |-> "TIMED_OUT", run |-> run]}
      [] OTHER -> {}

Inspect(o) ==
    /\ \E s \in Inspections : seen' = [seen EXCEPT ![o] = s]
    /\ UNCHANGED <<rowVars, run, closed, pc, stepVars, stateVars, projectVars, marks, used, pending>>

Reconcile(o) ==
    /\ seen[o] # None
    /\ row' = seen[o]
    /\ seen' = [seen EXCEPT ![o] = None]
    /\ UNCHANGED <<events, marked, run, closed, pc, stepVars, stateVars, projectVars, marks, used,
                   pending>>

-----------------------------------------------------------------------------
Next ==
    \/ Start \/ StartAgain \/ \E r \in marks : MarkStarted(r)
    \/ RunStep \/ ApprovalTimeout \/ RunTimesOut
    \/ \E p \in flying : ApplyProjection(p)
    \/ \E n \in handlers : HandlerEnds(n)
    \/ \E k \in Keys, action \in Actions : SendCommand(k, action)
    \/ \E m \in pending : AcceptCommand(m) \/ RetryRun(m) \/ RefuseCommand(m)
    \/ \E o \in Repairers : Inspect(o) \/ Reconcile(o)

Spec == Init /\ [][Next]_vars

\* Workers poll: the coroutine takes its next step once what it awaits is
\* there, and gives up an activity that does not end.  An update handler ends.
Fairness == WF_vars(RunStep) /\ WF_vars(\E n \in handlers : HandlerEnds(n))

FairSpec == Spec /\ Fairness

-----------------------------------------------------------------------------
(* Safety *)

\* A run that ends CANCELLED has undone every step it had completed, last first.
CancelledIsUndone == status = "CANCELLED" => undone = Reverse(done)

\* No run executes the guarded step, or one after it, without an approval given
\* to that very run: neither a timeout nor the approval of a failed run will do.
GateNeedsApproval ==
    (Gate > 0 /\ pc \in {"step_started", "step"} /\ ix >= Gate) \/ Gate \in Range(done)
        => decision = "APPROVED"

\* What the row says of the end of the run it follows is what happened there,
\* in whatever order projections and their attempts arrive.
RowIsTrue ==
    row.run = run =>
        /\ row.status = "SUCCEEDED" => done = [i \in 1..N |-> i]
        /\ row.status = "CANCELLED" => cancel /\ undone = Reverse(done)
        /\ row.status = "REJECTED"  => decision = "REJECTED" /\ Gate \notin Range(done)
        /\ row.status = "FAILED"    => status = "FAILED"

\* While a run waits for a decision and nobody has sent it a command, the row
\* says so: an approver can only act on a row that says WAITING.
RowSaysWaiting ==
    pc \in Deciding /\ row.run = run /\ used = {} => row.status = "WAITING"

\* The row tells of the run it follows what an approver and an operator rely on.
KernelRowFits == TypeOK /\ RowIsTrue /\ RowSaysWaiting

\* Once a cancellation is accepted no further step begins.
CancelStopsSteps ==
    [][cancel /\ run' = run /\ pc' = "step_started" => pc = "step_started"]_vars

\* While the run is paused no step begins - except after an approval, whose
\* effect overwrites a pause accepted before the coroutine went on.
PauseHolds ==
    [][status = "PAUSED" /\ run' = run /\ pc' = "step_started" =>
          pc = "step_started" \/ pc \in Deciding]_vars

\* "... prevents terminal regression within a run": of the writers, only a
\* repair may change a terminal status of the run the row follows.
TerminalIsFinal ==
    [][row.status \in Terminal /\ row'.run = row.run =>
          row'.status = row.status \/ \E o \in Repairers : Reconcile(o)]_vars

\* "... isolates old runs": what an older run still projects never reaches a
\* row that follows a newer one.
OldRunsAreIsolated ==
    [][(\A e \in events' \ events : e[1] < row.run) /\ events' # events => row' = row]_vars

-----------------------------------------------------------------------------
(* Liveness *)

\* An accepted cancellation ends the run, wherever it waits.
CancelIsCarriedOut == cancel ~> closed # "open"

\* An accepted decision moves the run on, also during and after the escalation.
DecisionIsCarriedOut == decision # "NONE" ~> pc \notin Deciding
=============================================================================
