----------------------------- MODULE ForecastRun -----------------------------
(***************************************************************************)
(* One forecast run: its delivery to Temporal by the reconciler, the       *)
(* attempts of its activity, and the artifact they stage in object storage *)
(* and publish in the database.                                            *)
(*                                                                         *)
(* The run and its delivery are created in one transaction; a retry is     *)
(* another run, with a delivery of its own.  The reconciler reads a        *)
(* delivery, asks Temporal and updates the delivery in separate steps, and *)
(* may die or be timed out between any two.  An attempt Temporal has given *)
(* up may go on, also after the workflow has ended.                        *)
(***************************************************************************)
EXTENDS Integers, Sequences, FiniteSets

CONSTANTS
    Results,      \* what the model may compute
    None,         \* no result
    MaxAttempts,  \* maximum_attempts of the activity
    MaxFaults     \* bound: interruptions of the reconciler, and histories lost

ASSUME BoundAssumption == MaxAttempts \in Nat \ {0} /\ MaxFaults \in Nat
ASSUME NoneAssumption == None \notin Results

VARIABLES
    status,     \* forecast_runs.status
    artifact,   \* forecast_artifacts: the result published, None if there is none
    delivery,   \* forecast_delivery.status
    cancel,     \* forecast_delivery.cancel_pending
    look,       \* what the reconciler has read of the run it works on
    faults,     \* interruptions and losses so far
    flow,       \* Temporal: the workflow
    asked,      \* Temporal: cancellation was requested
    attempts,   \* attempts of the activity, in the order they were scheduled
    objects,    \* object storage: the version of each result's object, 0 if absent
    puts,       \* object versions written so far
    orphans     \* results whose cleanup was lost with a process

deliveryVars == <<delivery, cancel, look, faults>>
flowVars     == <<flow, asked>>
storageVars  == <<objects, puts, orphans>>
vars == <<status, artifact, deliveryVars, flowVars, attempts, storageVars>>

-----------------------------------------------------------------------------
Finished == {"SUCCEEDED", "FAILED", "CANCELLED"}
Flows == {"RUNNING", "failing", "COMPLETED", "FAILED", "CANCELED", "TIMED_OUT"}
Looks == [run : {"QUEUED", "RUNNING"} \cup Finished, cancel : BOOLEAN,
          flow : {"unasked", "unknown", "RUNNING"} \cup (Flows \ {"failing"}),
          then : {"decide", "ACCEPTED", "TERMINAL", "CLEAR"}]
Attempts == [at : {"scheduled", "ready", "computing", "putting", "stored", "checked",
                   "cleaning", "discarding", "done"},
             result : Results \cup {None}, version : Nat]

Idle == [run |-> "none", cancel |-> FALSE, flow |-> "unasked", then |-> "decide"]

TypeOK ==
    /\ status \in {"QUEUED", "RUNNING"} \cup Finished
    /\ artifact \in Results \cup {None}
    /\ delivery \in {"PENDING", "ACCEPTED", "RETRYING", "TERMINAL"} /\ cancel \in BOOLEAN
    /\ look \in Looks \cup {Idle} /\ faults \in 0..MaxFaults
    /\ flow \in {"unknown"} \cup Flows /\ asked \in BOOLEAN
    /\ attempts \in Seq(Attempts) /\ Len(attempts) <= MaxAttempts
    /\ objects \in [Results -> 0..puts] /\ puts \in Nat /\ orphans \subseteq Results

\* create_run
Init ==
    /\ status = "QUEUED" /\ artifact = None
    /\ delivery = "PENDING" /\ cancel = FALSE
    /\ look = Idle /\ faults = 0
    /\ flow = "unknown" /\ asked = FALSE
    /\ attempts = << >>
    /\ objects = [r \in Results |-> 0] /\ puts = 0 /\ orphans = {}

Live == status \in {"QUEUED", "RUNNING"}

\* fail: the run fails unless it is finished.
Failing(how) == IF Live THEN how ELSE status

\* cancel_run
CancelRun ==
    /\ Live
    /\ status' = "CANCELLED" /\ cancel' = TRUE
    /\ UNCHANGED <<artifact, delivery, look, faults, flowVars, attempts, storageVars>>

-----------------------------------------------------------------------------
(* The reconciler *)

\* mutation: a delivery that was accepted is done with
Due_NotAccepted == cancel \/ delivery \in {"PENDING", "RETRYING"}
Due == cancel \/ delivery # "TERMINAL"

ReadDelivery ==
    /\ look = Idle /\ Due
    /\ look' = [run |-> status, cancel |-> cancel, flow |-> "unasked",
                then |-> IF status \in Finished /\ ~cancel THEN "TERMINAL" ELSE "decide"]
    /\ UNCHANGED <<status, artifact, delivery, cancel, faults, flowVars, attempts, storageVars>>

Deciding == look # Idle /\ look.then = "decide"

\* forecast_status: a workflow on its way to fail is still RUNNING.
AskTemporal ==
    /\ Deciding /\ look.flow = "unasked"
    /\ look' = [look EXCEPT !.flow = IF flow = "failing" THEN "RUNNING" ELSE flow]
    /\ UNCHANGED <<status, artifact, delivery, cancel, faults, flowVars, attempts, storageVars>>

Knows(f) == Deciding /\ look.flow = f
Then(s)  == look' = [look EXCEPT !.then = s]

Executing == flow \in {"RUNNING", "failing"}

\* A workflow that has ended meanwhile cannot be cancelled (see Interrupted).
RequestCancel ==
    /\ Deciding /\ look.cancel /\ look.flow # "unasked"
    /\ IF look.flow = "RUNNING" THEN Executing /\ asked' = TRUE ELSE UNCHANGED asked
    /\ Then("CLEAR")
    /\ UNCHANGED <<status, artifact, delivery, cancel, faults, flow, attempts, storageVars>>

StartFlow ==
    /\ Knows("unknown") /\ ~look.cancel /\ look.run = "QUEUED"
    /\ IF flow = "unknown" THEN flow' = "RUNNING" /\ asked' = FALSE ELSE UNCHANGED flowVars
    /\ Then("ACCEPTED")
    /\ UNCHANGED <<status, artifact, delivery, cancel, faults, attempts, storageVars>>

LeaveRunning ==
    /\ Knows("RUNNING") /\ ~look.cancel
    /\ Then("ACCEPTED")
    /\ UNCHANGED <<status, artifact, delivery, cancel, faults, flowVars, attempts, storageVars>>

\* The workflow has ended, or is lost: the run is failed unless it says how it ended.
FailLost ==
    /\ Deciding /\ ~look.cancel
    /\ \/ look.flow \in Flows \ {"RUNNING"}
       \/ look.flow = "unknown" /\ look.run # "QUEUED"
    /\ status' = Failing(IF look.flow = "CANCELED" THEN "CANCELLED" ELSE "FAILED")
    /\ Then("TERMINAL")
    /\ UNCHANGED <<artifact, delivery, cancel, faults, flowVars, attempts, storageVars>>

\* mutation: the flag goes with any update
Clears_Any == TRUE
Clears == look.then = "CLEAR"

Written == IF look.then = "CLEAR" THEN "TERMINAL" ELSE look.then

UpdateDelivery ==
    /\ look # Idle /\ look.then # "decide"
    /\ delivery' = Written
    /\ cancel' = (cancel /\ ~Clears)
    /\ look' = Idle
    /\ UNCHANGED <<status, artifact, faults, flowVars, attempts, storageVars>>

\* A step fails or takes more than ten seconds, or the process dies.
Interrupted ==
    /\ look # Idle
    /\ \/ faults < MaxFaults /\ faults' = faults + 1
       \/ /\ look.then = "decide" /\ look.cancel /\ look.flow = "RUNNING" /\ ~Executing
          /\ UNCHANGED faults
    /\ delivery' \in {"RETRYING", delivery}
    /\ look' = Idle
    /\ UNCHANGED <<status, artifact, cancel, flowVars, attempts, storageVars>>

-----------------------------------------------------------------------------
(* The workflow: ForecastWorkflowV2 *)

\* The first attempt, or one after the last has failed or been given up.
Schedule ==
    /\ flow = "RUNNING" /\ ~asked /\ Len(attempts) < MaxAttempts
    /\ attempts' = Append(attempts, [at |-> "scheduled", result |-> None, version |-> 0])
    /\ UNCHANGED <<status, artifact, deliveryVars, flowVars, storageVars>>

\* The cancellation, a refusal, or the last attempt's failure or timeout
BeginFail ==
    /\ flow = "RUNNING"
    /\ flow' = "failing"
    /\ UNCHANGED <<status, artifact, deliveryVars, asked, attempts, storageVars>>

\* nexweave.forecast.fail, or no attempt of it gets through; the workflow then fails,
\* or is cancelled if that is what it was asked.
FailFlow ==
    /\ flow = "failing"
    /\ status' \in {Failing("FAILED"), status}
    /\ flow' \in (IF asked THEN {"FAILED", "CANCELED"} ELSE {"FAILED"})
    /\ UNCHANGED <<artifact, deliveryVars, asked, attempts, storageVars>>

\* run_timeout
TimeOut ==
    /\ Executing
    /\ flow' = "TIMED_OUT"
    /\ UNCHANGED <<status, artifact, deliveryVars, asked, attempts, storageVars>>

\* Temporal forgets the workflow.
LoseHistory ==
    /\ flow # "unknown" /\ faults < MaxFaults
    /\ flow' = "unknown" /\ faults' = faults + 1
    /\ UNCHANGED <<status, artifact, delivery, cancel, look, asked, attempts, storageVars>>

\* An attempt's result ends the workflow, unless it comes too late.
Report ==
    \/ UNCHANGED flow
    \/ flow = "RUNNING" /\ flow' = "COMPLETED"

-----------------------------------------------------------------------------
(* The activity: ForecastExecution.execute *)

Move(a, at) == attempts' = [attempts EXCEPT ![a].at = at]

\* The run is finished: an attempt that has staged nothing returns at once.
FindFinished(a) ==
    /\ attempts[a].at \in {"scheduled", "ready"} /\ ~Live
    /\ Move(a, "done") /\ Report
    /\ UNCHANGED <<status, artifact, deliveryVars, asked, storageVars>>

ReadRun(a) ==
    /\ attempts[a].at = "scheduled" /\ Live
    /\ Move(a, "ready")
    /\ UNCHANGED <<status, artifact, deliveryVars, flowVars, storageVars>>

MarkRunning(a) ==
    /\ attempts[a].at = "ready" /\ Live
    /\ status' = "RUNNING"
    /\ Move(a, "computing")
    /\ UNCHANGED <<artifact, deliveryVars, flowVars, storageVars>>

Compute(a, result) ==
    /\ attempts[a].at = "computing"
    /\ attempts' = [attempts EXCEPT ![a].at = "putting", ![a].result = result]
    /\ UNCHANGED <<status, artifact, deliveryVars, flowVars, storageVars>>

\* put_if_absent, under a key made of the run and the checksum; what follows waits for it
\* even if the attempt is cancelled.
PutObject(a) ==
    LET r == attempts[a].result
        new == objects[r] = 0
    IN
    /\ attempts[a].at = "putting"
    /\ puts' = IF new THEN puts + 1 ELSE puts
    /\ objects' = IF new THEN [objects EXCEPT ![r] = puts + 1] ELSE objects
    /\ attempts' = [attempts EXCEPT ![a].at = "stored", ![a].version = objects'[r]]
    /\ UNCHANGED <<status, artifact, deliveryVars, flowVars, orphans>>

\* The rights and the source are looked at once more.
CheckInputs(a) ==
    /\ attempts[a].at = "stored"
    /\ Move(a, "checked")
    /\ UNCHANGED <<status, artifact, deliveryVars, flowVars, storageVars>>

Publish(a) ==
    /\ attempts[a].at = "checked"
    /\ IF Live
       THEN /\ status' = "SUCCEEDED" /\ artifact' = attempts[a].result
            /\ Move(a, "done")
       ELSE /\ UNCHANGED <<status, artifact>>
            /\ Move(a, "cleaning")
    /\ Report
    /\ UNCHANGED <<deliveryVars, asked, storageVars>>

\* mutation: only an attempt that failed itself cleans up
Staged_Stored(a) == attempts[a].at = "stored"
Staged(a) == attempts[a].at \in {"stored", "checked"}

\* The attempt is refused, cancelled or fails: it must first clean up what it has staged.
AttemptStops(a) ==
    /\ attempts[a].at \in {"scheduled", "ready", "computing", "stored", "checked"}
    /\ Move(a, IF Staged(a) THEN "cleaning" ELSE "done")
    /\ UNCHANGED <<status, artifact, deliveryVars, flowVars, storageVars>>

Published(r) == artifact = r

LookPublished(a) ==
    /\ attempts[a].at = "cleaning"
    /\ Move(a, IF Published(attempts[a].result) THEN "done" ELSE "discarding")
    /\ UNCHANGED <<status, artifact, deliveryVars, flowVars, storageVars>>

\* discard_unpublished_forecast: the version it has put or found, if that is still there
Discard(a) ==
    LET r == attempts[a].result IN
    /\ attempts[a].at = "discarding"
    /\ objects' = IF objects[r] = attempts[a].version THEN [objects EXCEPT ![r] = 0] ELSE objects
    /\ Move(a, "done")
    /\ UNCHANGED <<status, artifact, deliveryVars, flowVars, puts, orphans>>

\* The worker dies, or the cleanup fails.
AttemptDies(a) ==
    /\ attempts[a].at \in {"putting", "stored", "checked", "cleaning", "discarding"}
    /\ orphans' = orphans \cup {attempts[a].result}
    /\ Move(a, "done")
    /\ UNCHANGED <<status, artifact, deliveryVars, flowVars, objects, puts>>

-----------------------------------------------------------------------------
Reconcile ==
    \/ ReadDelivery \/ AskTemporal \/ RequestCancel \/ StartFlow \/ LeaveRunning
    \/ FailLost \/ UpdateDelivery

Next ==
    \/ CancelRun
    \/ ReadDelivery \/ AskTemporal \/ RequestCancel \/ StartFlow \/ LeaveRunning
    \/ FailLost \/ UpdateDelivery \/ Interrupted
    \/ Schedule \/ BeginFail \/ FailFlow \/ TimeOut \/ LoseHistory
    \/ \E a \in DOMAIN attempts :
           \/ FindFinished(a) \/ ReadRun(a) \/ MarkRunning(a)
           \/ \E result \in Results : Compute(a, result)
           \/ PutObject(a) \/ CheckInputs(a) \/ Publish(a)
           \/ AttemptStops(a) \/ LookPublished(a) \/ Discard(a) \/ AttemptDies(a)

Spec == Init /\ [][Next]_vars

\* The reconciler's loop, and Temporal's timeouts
FairSpec == Spec /\ WF_vars(Reconcile \/ Interrupted) /\ WF_vars(TimeOut)

-----------------------------------------------------------------------------
(* Properties *)

\* A run has an artifact exactly when it SUCCEEDED, however its attempts, the reconciler
\* and a user's cancellation interleave (docs/architecture/adr/
\* ADR-0033-stage-a-runtime-recovery.md:9: cancellation stops any late artifact).
ArtifactIsTheSuccess == (artifact # None) <=> status = "SUCCEEDED"

\* How a run ended is never changed, nor is its artifact exchanged (execute, fail,
\* cancel_run and reconcile all come late at times).
EndIsFinal ==
    [][(status \in Finished) => (status' = status /\ artifact' = artifact)]_vars

\* An object is staged for the artifact, or for an attempt that has it in hand; what is
\* left over was left by a process that died or a cleanup that failed.
StagingIsClean ==
    \A r \in Results :
        objects[r] # 0 =>
            \/ artifact = r \/ r \in orphans
            \/ \E a \in DOMAIN attempts : attempts[a].result = r /\ attempts[a].at # "done"

\* A cancellation that was accepted is passed on: while the workflow executes, it has been
\* asked to stop or the reconciler still has to (cancel_pending).
CancellationIsDelivered ==
    status = "CANCELLED" /\ Executing => asked \/ cancel

\* The run, its artifact and its workflow fit together.
ForecastRowsFit == TypeOK /\ ArtifactIsTheSuccess /\ CancellationIsDelivered

\* Every run ends, though Temporal may lose its workflow or end it with nothing written:
\* the reconciler starts what is queued and fails what is lost (ForecastRecovery.cycle).
RunEnds == <>(status \in Finished)

\* The object of a published artifact is not cleaned up: a success is immutable
\* (docs/architecture/adr/ADR-0032-m95-runnable-forecast-slice.md:14).
PublishedIsKept == artifact # None => objects[artifact] # 0
=============================================================================
