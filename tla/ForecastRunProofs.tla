-------------------------- MODULE ForecastRunProofs --------------------------
(***************************************************************************)
(* Theorems about ForecastRun, for any results, any number of attempts and *)
(* any number of interruptions.                                            *)
(***************************************************************************)
EXTENDS ForecastRun, TLAPS

Stages == {"scheduled", "ready", "computing", "putting", "stored", "checked",
           "cleaning", "discarding", "done"}

\* An attempt with a result to take care of
Carrying == {"putting", "stored", "checked", "cleaning", "discarding"}
Holding  == Carrying \ {"putting"}

Computed == \A a \in DOMAIN attempts : attempts[a].at \in Carrying => attempts[a].result \in Results

\* Somebody answers for the very version that is stored.
Kept(r) ==
    \/ artifact = r \/ r \in orphans
    \/ \E a \in DOMAIN attempts : /\ attempts[a].at \in Holding /\ attempts[a].result = r
                                  /\ attempts[a].version = objects[r]
AllKept == \A r \in Results : objects[r] # 0 => Kept(r)

\* While the reconciler decides on a run that was cancelled meanwhile, the flag is up.
FlagIsUp == look # Idle /\ look.then = "decide" /\ status = "CANCELLED" => cancel
\* It clears the flag of a workflow that was asked, or is over.
ClearsRightly == look # Idle /\ look.then = "CLEAR" => asked \/ ~Executing
\* A workflow that was over when it was asked about is over, unless this look starts it.
OverIsOver ==
    look # Idle /\ look.flow \notin {"unasked", "RUNNING"} /\ look.then # "ACCEPTED" => ~Executing

\* The inductive invariant
IInv ==
    /\ TypeOK /\ Computed /\ ArtifactIsTheSuccess /\ AllKept
    /\ FlagIsUp /\ ClearsRightly /\ OverIsOver /\ CancellationIsDelivered

-----------------------------------------------------------------------------
(* What an attempt's step does to the attempts *)

LEMMA Replaced ==
    ASSUME NEW S, NEW s \in Seq(S), NEW i \in DOMAIN s, NEW e \in S
    PROVE  /\ [s EXCEPT ![i] = e] \in Seq(S) /\ Len([s EXCEPT ![i] = e]) = Len(s)
           /\ DOMAIN [s EXCEPT ![i] = e] = DOMAIN s
  OBVIOUS

LEMMA Moved ==
    ASSUME TypeOK, Computed, NEW a \in DOMAIN attempts, NEW e \in Attempts,
           attempts' = [attempts EXCEPT ![a] = e],
           e.at \in Carrying => e.result \in Results
    PROVE  /\ attempts' \in Seq(Attempts) /\ Len(attempts') <= MaxAttempts
           /\ DOMAIN attempts' = DOMAIN attempts /\ attempts'[a] = e
           /\ \A b \in DOMAIN attempts : b # a => attempts'[b] = attempts[b]
           /\ Computed'
<1>1. /\ attempts' \in Seq(Attempts) /\ Len(attempts') = Len(attempts)
      /\ DOMAIN attempts' = DOMAIN attempts
  BY Replaced DEF TypeOK
<1>2. attempts'[a] = e /\ \A b \in DOMAIN attempts : b # a => attempts'[b] = attempts[b]
  BY DEF TypeOK
<1>3. Len(attempts') <= MaxAttempts
  BY <1>1 DEF TypeOK
<1>4. Computed'
  BY <1>1, <1>2 DEF Computed
<1>5. QED
  BY <1>1, <1>2, <1>3, <1>4

LEMMA MoveIs ==
    ASSUME TypeOK, NEW a \in DOMAIN attempts, NEW at \in Stages, Move(a, at)
    PROVE  \E e \in Attempts : /\ attempts' = [attempts EXCEPT ![a] = e] /\ e.at = at
                               /\ e.result = attempts[a].result
                               /\ e.version = attempts[a].version
<1> DEFINE e == [attempts[a] EXCEPT !.at = at]
<1>1. attempts[a] \in Attempts
  BY DEF TypeOK
<1>2. /\ e \in Attempts /\ e.at = at
      /\ e.result = attempts[a].result /\ e.version = attempts[a].version
  BY <1>1 DEF Attempts, Stages
<1>3. attempts' = [attempts EXCEPT ![a] = e]
  BY DEF Move
<1>4. QED
  BY <1>2, <1>3

-----------------------------------------------------------------------------
(* The steps *)

LEMMA InvInit == Init => IInv
<1> SUFFICES ASSUME Init PROVE IInv
  OBVIOUS
<1>1. TypeOK
  <2>1. attempts \in Seq(Attempts) /\ Len(attempts) <= MaxAttempts
    BY BoundAssumption DEF Init
  <2>2. objects \in [Results -> 0..puts] /\ puts \in Nat /\ faults \in 0..MaxFaults
    BY BoundAssumption DEF Init
  <2>3. QED
    BY <2>1, <2>2 DEF Init, TypeOK
<1>2. Computed /\ ArtifactIsTheSuccess /\ AllKept
  BY NoneAssumption DEF Init, Computed, ArtifactIsTheSuccess, AllKept
<1>3. FlagIsUp /\ ClearsRightly /\ OverIsOver /\ CancellationIsDelivered
  BY DEF Init, FlagIsUp, ClearsRightly, OverIsOver, CancellationIsDelivered
<1>4. QED
  BY <1>1, <1>2, <1>3 DEF IInv

\* What leaves attempts, objects and artifact alone, and forgets no orphan, keeps the
\* staging in order.
LEMMA SameStaging ==
    ASSUME IInv, UNCHANGED <<attempts, artifact, storageVars>>
    PROVE  Computed' /\ AllKept'
  BY DEF IInv, Computed, AllKept, Kept, storageVars

\* The reconciler and the workflow as one: they touch neither attempts nor staging.
LEMMA CancelStep == ASSUME IInv, CancelRun PROVE IInv'
<1>1. Computed' /\ AllKept'
  BY SameStaging DEF CancelRun
<1>2. TypeOK'
  BY DEF IInv, TypeOK, CancelRun, Finished, flowVars, storageVars
<1>3. ArtifactIsTheSuccess'
  BY DEF IInv, ArtifactIsTheSuccess, CancelRun, Live
<1>4. FlagIsUp' /\ ClearsRightly' /\ OverIsOver' /\ CancellationIsDelivered'
  BY DEF IInv, CancelRun, FlagIsUp, ClearsRightly, OverIsOver, CancellationIsDelivered,
         Executing, flowVars
<1>5. QED
  BY <1>1, <1>2, <1>3, <1>4 DEF IInv

LEMMA ReconcileStep == ASSUME IInv, Reconcile \/ Interrupted PROVE IInv'
<1> USE DEF deliveryVars, flowVars
<1>1. CASE ReadDelivery
  <2>1. TypeOK'
    BY <1>1 DEF IInv, TypeOK, ReadDelivery, Looks, Idle, Finished, storageVars
  <2>2. ArtifactIsTheSuccess'
    BY <1>1 DEF IInv, ReadDelivery, ArtifactIsTheSuccess
  <2>3. FlagIsUp' /\ ClearsRightly' /\ OverIsOver' /\ CancellationIsDelivered'
    BY <1>1 DEF IInv, TypeOK, ReadDelivery, FlagIsUp, ClearsRightly, OverIsOver,
                CancellationIsDelivered, Executing, Idle, Finished
  <2>4. QED
    BY <1>1, <2>1, <2>2, <2>3, SameStaging DEF IInv, ReadDelivery
<1>2. CASE AskTemporal
  <2>1. look' \in Looks
    BY <1>2 DEF IInv, TypeOK, AskTemporal, Deciding, Looks, Flows
  <2>2. TypeOK'
    BY <1>2, <2>1 DEF IInv, TypeOK, AskTemporal, storageVars
  <2>3. ArtifactIsTheSuccess'
    BY <1>2 DEF IInv, AskTemporal, ArtifactIsTheSuccess
  <2>4. FlagIsUp' /\ ClearsRightly' /\ OverIsOver' /\ CancellationIsDelivered'
    BY <1>2 DEF IInv, TypeOK, AskTemporal, Deciding, FlagIsUp, ClearsRightly, OverIsOver,
                CancellationIsDelivered, Executing, Idle, Looks
  <2>5. QED
    BY <1>2, <2>2, <2>3, <2>4, SameStaging DEF IInv, AskTemporal
<1>3. CASE RequestCancel
  <2>1. look \in Looks /\ look' = [look EXCEPT !.then = "CLEAR"] /\ look' \in Looks
    BY <1>3 DEF IInv, TypeOK, RequestCancel, Deciding, Then, Looks
  <2>2. TypeOK'
    BY <1>3, <2>1 DEF IInv, TypeOK, RequestCancel, storageVars
  <2>3. ArtifactIsTheSuccess'
    BY <1>3 DEF IInv, RequestCancel, ArtifactIsTheSuccess
  <2>4. asked' \/ ~Executing
    BY <1>3 DEF IInv, RequestCancel, OverIsOver, Deciding
  <2>5. FlagIsUp' /\ ClearsRightly' /\ OverIsOver' /\ CancellationIsDelivered'
    BY <1>3, <2>1, <2>4 DEF IInv, TypeOK, RequestCancel, Deciding, FlagIsUp, ClearsRightly,
         OverIsOver, CancellationIsDelivered, Executing, Looks
  <2>6. QED
    BY <1>3, <2>2, <2>3, <2>5, SameStaging DEF IInv, RequestCancel
<1>4. CASE StartFlow
  <2>1. look \in Looks /\ look' = [look EXCEPT !.then = "ACCEPTED"] /\ look' \in Looks
    BY <1>4 DEF IInv, TypeOK, StartFlow, Knows, Deciding, Then, Looks
  <2>2. TypeOK'
    BY <1>4, <2>1 DEF IInv, TypeOK, StartFlow, Flows, storageVars
  <2>3. ArtifactIsTheSuccess'
    BY <1>4 DEF IInv, StartFlow, ArtifactIsTheSuccess
  <2>4. FlagIsUp' /\ ClearsRightly' /\ OverIsOver' /\ CancellationIsDelivered'
    BY <1>4, <2>1 DEF IInv, StartFlow, Knows, Deciding, FlagIsUp, ClearsRightly,
         OverIsOver, CancellationIsDelivered, Executing, Looks
  <2>5. QED
    BY <1>4, <2>2, <2>3, <2>4, SameStaging DEF IInv, StartFlow
<1>5. CASE LeaveRunning
  <2>1. look \in Looks /\ look' = [look EXCEPT !.then = "ACCEPTED"] /\ look' \in Looks
    BY <1>5 DEF IInv, TypeOK, LeaveRunning, Knows, Deciding, Then, Looks
  <2>2. TypeOK'
    BY <1>5, <2>1 DEF IInv, TypeOK, LeaveRunning, storageVars
  <2>3. ArtifactIsTheSuccess'
    BY <1>5 DEF IInv, LeaveRunning, ArtifactIsTheSuccess
  <2>4. FlagIsUp' /\ ClearsRightly' /\ OverIsOver' /\ CancellationIsDelivered'
    BY <1>5, <2>1 DEF IInv, LeaveRunning, FlagIsUp, ClearsRightly, OverIsOver,
         CancellationIsDelivered, Executing, Looks
  <2>5. QED
    BY <1>5, <2>2, <2>3, <2>4, SameStaging DEF IInv, LeaveRunning
<1>6. CASE FailLost
  <2>1. look \in Looks /\ look' = [look EXCEPT !.then = "TERMINAL"] /\ look' \in Looks
    BY <1>6 DEF IInv, TypeOK, FailLost, Deciding, Then, Looks
  <2>2. TypeOK'
    BY <1>6, <2>1 DEF IInv, TypeOK, FailLost, Failing, Finished, storageVars
  <2>3. ArtifactIsTheSuccess'
    BY <1>6 DEF IInv, FailLost, ArtifactIsTheSuccess, Failing, Live
  <2>4. ~Executing
    BY <1>6 DEF IInv, FailLost, Deciding, OverIsOver, Flows
  <2>5. FlagIsUp' /\ ClearsRightly' /\ OverIsOver' /\ CancellationIsDelivered'
    BY <1>6, <2>1, <2>4 DEF IInv, FailLost, FlagIsUp, ClearsRightly, OverIsOver,
         CancellationIsDelivered, Executing, Looks
  <2>6. QED
    BY <1>6, <2>2, <2>3, <2>5, SameStaging DEF IInv, FailLost
<1>7. CASE UpdateDelivery
  <2>1. TypeOK'
    BY <1>7 DEF IInv, TypeOK, UpdateDelivery, Written, Clears, Looks, storageVars
  <2>2. ArtifactIsTheSuccess'
    BY <1>7 DEF IInv, UpdateDelivery, ArtifactIsTheSuccess
  <2>3. FlagIsUp' /\ ClearsRightly' /\ OverIsOver' /\ CancellationIsDelivered'
    BY <1>7 DEF IInv, TypeOK, UpdateDelivery, Clears, FlagIsUp, ClearsRightly, OverIsOver,
         CancellationIsDelivered, Executing
  <2>4. QED
    BY <1>7, <2>1, <2>2, <2>3, SameStaging DEF IInv, UpdateDelivery
<1>8. CASE Interrupted
  <2>1. faults' \in 0..MaxFaults
    BY <1>8, BoundAssumption DEF IInv, TypeOK, Interrupted
  <2>2. TypeOK'
    BY <1>8, <2>1 DEF IInv, TypeOK, Interrupted, storageVars
  <2>3. ArtifactIsTheSuccess'
    BY <1>8 DEF IInv, Interrupted, ArtifactIsTheSuccess
  <2>4. FlagIsUp' /\ ClearsRightly' /\ OverIsOver' /\ CancellationIsDelivered'
    BY <1>8 DEF IInv, Interrupted, FlagIsUp, ClearsRightly, OverIsOver,
         CancellationIsDelivered, Executing
  <2>5. QED
    BY <1>8, <2>2, <2>3, <2>4, SameStaging DEF IInv, Interrupted
<1>9. QED
  BY <1>1, <1>2, <1>3, <1>4, <1>5, <1>6, <1>7, <1>8 DEF Reconcile

\* A step of the workflow or of an attempt cancels nothing and starts nothing.
LEMMA SameReconciling ==
    ASSUME IInv, UNCHANGED <<look, cancel, asked>>, flow' = flow \/ ~Executing' \/ Executing,
           status' = "CANCELLED" => status = "CANCELLED"
    PROVE  FlagIsUp' /\ ClearsRightly' /\ OverIsOver' /\ CancellationIsDelivered'
  BY DEF IInv, FlagIsUp, ClearsRightly, OverIsOver, CancellationIsDelivered, Executing

LEMMA FlowStep ==
    ASSUME IInv, Schedule \/ BeginFail \/ FailFlow \/ TimeOut \/ LoseHistory PROVE IInv'
<1> USE DEF deliveryVars, flowVars
<1>1. CASE Schedule
  <2> DEFINE e == [at |-> "scheduled", result |-> None, version |-> 0]
  <2>1. e \in Attempts /\ attempts \in Seq(Attempts) /\ attempts' = Append(attempts, e)
    BY <1>1 DEF IInv, TypeOK, Schedule, Attempts
  <2>2. /\ attempts' \in Seq(Attempts) /\ Len(attempts') = Len(attempts) + 1
        /\ DOMAIN attempts' = DOMAIN attempts \cup {Len(attempts) + 1}
        /\ attempts'[Len(attempts) + 1] = e
        /\ \A a \in DOMAIN attempts : attempts'[a] = attempts[a]
    <3> HIDE DEF e
    <3> QED
      BY <2>1
  <2>3. Len(attempts') <= MaxAttempts
    BY <1>1, <2>1, <2>2, BoundAssumption DEF Schedule
  <2>4. TypeOK'
    BY <1>1, <2>2, <2>3 DEF IInv, TypeOK, Schedule, storageVars
  <2>5. Computed'
    BY <2>2 DEF IInv, Computed, Carrying
  <2>6. AllKept'
    BY <1>1, <2>2 DEF IInv, AllKept, Kept, Schedule, storageVars
  <2>7. ArtifactIsTheSuccess'
    BY <1>1 DEF IInv, ArtifactIsTheSuccess, Schedule
  <2>8. QED
    BY <1>1, <2>4, <2>5, <2>6, <2>7, SameReconciling DEF IInv, Schedule
<1>2. CASE BeginFail
  <2>1. TypeOK' /\ ArtifactIsTheSuccess'
    BY <1>2 DEF IInv, TypeOK, ArtifactIsTheSuccess, BeginFail, Flows, storageVars
  <2>2. QED
    BY <1>2, <2>1, SameStaging, SameReconciling DEF IInv, BeginFail, Executing
<1>3. CASE FailFlow
  <2>1. flow' \in Flows /\ ~Executing'
    BY <1>3 DEF FailFlow, Flows, Executing
  <2>2. status' \in {status, "FAILED"} /\ (Live \/ status' = status)
    BY <1>3 DEF FailFlow, Failing
  <2>3. TypeOK' /\ ArtifactIsTheSuccess'
    BY <1>3, <2>1, <2>2 DEF IInv, TypeOK, ArtifactIsTheSuccess, FailFlow, Live, Finished, storageVars
  <2>4. QED
    BY <1>3, <2>1, <2>2, <2>3, SameStaging, SameReconciling DEF IInv, FailFlow
<1>4. CASE TimeOut
  <2>1. TypeOK' /\ ArtifactIsTheSuccess' /\ ~Executing'
    BY <1>4 DEF IInv, TypeOK, ArtifactIsTheSuccess, TimeOut, Flows, Executing, storageVars
  <2>2. QED
    BY <1>4, <2>1, SameStaging, SameReconciling DEF IInv, TimeOut
<1>5. CASE LoseHistory
  <2>1. faults' \in 0..MaxFaults
    BY <1>5, BoundAssumption DEF IInv, TypeOK, LoseHistory
  <2>2. TypeOK' /\ ArtifactIsTheSuccess' /\ ~Executing'
    BY <1>5, <2>1 DEF IInv, TypeOK, ArtifactIsTheSuccess, LoseHistory, Executing, storageVars
  <2>3. QED
    BY <1>5, <2>2, SameStaging, SameReconciling DEF IInv, LoseHistory
<1>6. QED
  BY <1>1, <1>2, <1>3, <1>4, <1>5

-----------------------------------------------------------------------------
(* The steps of an attempt *)

\* An attempt that holds nothing, or goes on holding, disturbs nobody's staging.
LEMMA StillKept ==
    ASSUME IInv, NEW a \in DOMAIN attempts, NEW at \in Stages, Move(a, at),
           UNCHANGED <<artifact, storageVars>>,
           \/ attempts[a].at \notin Holding \/ at \in Holding
           \/ artifact = attempts[a].result
    PROVE  AllKept'
<1> SUFFICES ASSUME NEW r \in Results, objects[r] # 0 PROVE Kept(r)'
  BY DEF AllKept, storageVars
<1>1. Kept(r)
  BY DEF IInv, AllKept
<1>2. ASSUME NEW b \in DOMAIN attempts, attempts[b].at \in Holding, attempts[b].result = r,
             attempts[b].version = objects[r]
      PROVE  Kept(r)'
  <2>1. PICK e \in Attempts : /\ attempts' = [attempts EXCEPT ![a] = e] /\ e.at = at
                              /\ e.result = attempts[a].result /\ e.version = attempts[a].version
    BY MoveIs DEF IInv
  <2>2. b \in DOMAIN attempts' /\ (b # a => attempts'[b] = attempts[b]) /\ attempts'[a] = e
    BY <2>1 DEF IInv, TypeOK
  <2>3. QED
    BY <1>2, <2>1, <2>2 DEF Kept, storageVars
<1>3. QED
  BY <1>1, <1>2 DEF Kept, storageVars

\* A move alone keeps the attempts what they are.
LEMMA MoveKeeps ==
    ASSUME IInv, NEW a \in DOMAIN attempts, NEW at \in Stages, Move(a, at),
           at \in Carrying => attempts[a].at \in Carrying
    PROVE  /\ attempts' \in Seq(Attempts) /\ Len(attempts') <= MaxAttempts /\ Computed'
<1>1. PICK e \in Attempts : /\ attempts' = [attempts EXCEPT ![a] = e] /\ e.at = at
                            /\ e.result = attempts[a].result /\ e.version = attempts[a].version
  BY MoveIs DEF IInv
<1>2. e.at \in Carrying => e.result \in Results
  BY <1>1 DEF IInv, Computed
<1>3. QED
  BY <1>1, <1>2, Moved DEF IInv

LEMMA AttemptStep ==
    ASSUME IInv, NEW a \in DOMAIN attempts,
           \/ FindFinished(a) \/ ReadRun(a) \/ MarkRunning(a)
           \/ \E result \in Results : Compute(a, result)
           \/ PutObject(a) \/ CheckInputs(a) \/ Publish(a)
           \/ AttemptStops(a) \/ LookPublished(a) \/ Discard(a) \/ AttemptDies(a)
    PROVE  IInv'
<1> USE DEF deliveryVars, flowVars
<1>0. a \in DOMAIN attempts /\ attempts \in Seq(Attempts) /\ attempts[a] \in Attempts
  BY DEF IInv, TypeOK
<1>1. CASE FindFinished(a) \/ ReadRun(a) \/ CheckInputs(a) \/ AttemptStops(a)
  <2>1. PICK at \in {"done", "ready", "checked", "cleaning"} :
             /\ Move(a, at)
             /\ attempts[a].at \in Holding <=> at \in {"checked", "cleaning"}
    BY <1>1 DEF FindFinished, ReadRun, CheckInputs, AttemptStops, Staged, Holding, Carrying
  <2>2. UNCHANGED <<status, artifact, delivery, cancel, look, faults, asked, storageVars>>
    BY <1>1 DEF FindFinished, ReadRun, CheckInputs, AttemptStops
  <2>3. flow' \in {flow, "COMPLETED"}
    BY <1>1 DEF FindFinished, ReadRun, CheckInputs, AttemptStops, Report
  <2>4. at \in Stages /\ (at \in Carrying => attempts[a].at \in Carrying)
        /\ (attempts[a].at \notin Holding \/ at \in Holding)
    BY <2>1 DEF Stages, Holding, Carrying
  <2>5. AllKept' /\ attempts' \in Seq(Attempts) /\ Len(attempts') <= MaxAttempts /\ Computed'
    BY <2>1, <2>2, <2>4, StillKept, MoveKeeps
  <2>6. TypeOK' /\ ArtifactIsTheSuccess'
    BY <2>2, <2>3, <2>5 DEF IInv, TypeOK, ArtifactIsTheSuccess, Flows, storageVars
  <2>7. flow' = flow \/ ~Executing'
    BY <2>3 DEF Executing
  <2>8. QED
    BY <2>2, <2>5, <2>6, <2>7, SameReconciling DEF IInv
<1>2. CASE MarkRunning(a)
  <2>1. attempts[a].at \notin Holding /\ "computing" \in Stages /\ "computing" \notin Carrying
    BY <1>2 DEF MarkRunning, Holding, Carrying, Stages
  <2>2. AllKept' /\ attempts' \in Seq(Attempts) /\ Len(attempts') <= MaxAttempts /\ Computed'
    BY <1>2, <2>1, StillKept, MoveKeeps DEF MarkRunning
  <2>3. TypeOK' /\ ArtifactIsTheSuccess'
    BY <1>2, <2>2 DEF IInv, TypeOK, ArtifactIsTheSuccess, MarkRunning, Live, storageVars
  <2>4. QED
    BY <1>2, <2>2, <2>3, SameReconciling DEF IInv, MarkRunning
<1>3. ASSUME NEW r \in Results, Compute(a, r) PROVE IInv'
  <2> DEFINE e == [attempts[a] EXCEPT !.at = "putting", !.result = r]
  <2>1. e \in Attempts /\ e.at = "putting" /\ e.result = r
    BY <1>0 DEF Attempts
  <2>2. attempts' = [attempts EXCEPT ![a] = e] /\ attempts[a].at = "computing"
    BY <1>3 DEF Compute
  <2> HIDE DEF e
  <2>3. /\ attempts' \in Seq(Attempts) /\ Len(attempts') <= MaxAttempts /\ Computed'
        /\ DOMAIN attempts' = DOMAIN attempts
        /\ \A b \in DOMAIN attempts : b # a => attempts'[b] = attempts[b]
    BY <2>1, <2>2, Moved DEF IInv
  <2>4. AllKept'
    <3> SUFFICES ASSUME NEW q \in Results, objects'[q] # 0 PROVE Kept(q)'
      BY DEF AllKept
    <3>1. Kept(q) /\ objects' = objects /\ artifact' = artifact /\ orphans' = orphans
      BY <1>3 DEF IInv, AllKept, Compute, storageVars
    <3>2. attempts[a].at \notin Holding
      BY <2>2 DEF Holding, Carrying
    <3>3. QED
      BY <2>3, <3>1, <3>2 DEF Kept
  <2>5. TypeOK' /\ ArtifactIsTheSuccess'
    BY <1>3, <2>3 DEF IInv, TypeOK, ArtifactIsTheSuccess, Compute, storageVars
  <2>6. QED
    BY <1>3, <2>3, <2>4, <2>5, SameReconciling DEF IInv, Compute
<1>4. CASE PutObject(a)
  <2> DEFINE r == attempts[a].result
             v == objects'[r]
             e == [attempts[a] EXCEPT !.at = "stored", !.version = v]
  <2>1. r \in Results /\ objects \in [Results -> 0..puts] /\ puts \in Nat
    BY <1>4 DEF IInv, TypeOK, Computed, PutObject, Carrying
  <2>2. /\ objects' \in [Results -> 0..puts'] /\ puts' \in Nat
        /\ \A q \in Results : q # r => objects'[q] = objects[q]
    BY <1>4, <2>1 DEF PutObject
  <2>3. v \in Nat
    BY <2>1, <2>2
  <2>4. attempts' = [attempts EXCEPT ![a].at = "stored", ![a].version = v]
        /\ attempts[a].at = "putting"
    BY <1>4 DEF PutObject
  <2> HIDE DEF v
  <2>5. e \in Attempts /\ e.at = "stored" /\ e.result = r /\ e.version = v
    BY <1>0, <2>3 DEF Attempts
  <2>6. attempts' = [attempts EXCEPT ![a] = e]
    BY <1>0, <2>4
  <2> HIDE DEF e
  <2>7. /\ attempts' \in Seq(Attempts) /\ Len(attempts') <= MaxAttempts /\ Computed'
        /\ DOMAIN attempts' = DOMAIN attempts /\ attempts'[a] = e
        /\ \A b \in DOMAIN attempts : b # a => attempts'[b] = attempts[b]
    BY <2>1, <2>5, <2>6, Moved DEF IInv
  <2>8. AllKept'
    <3> SUFFICES ASSUME NEW q \in Results, objects'[q] # 0 PROVE Kept(q)'
      BY DEF AllKept
    <3>1. CASE q = r
      BY <2>5, <2>7, <3>1 DEF v, Kept, Holding, Carrying
    <3>2. CASE q # r
      <4>1. Kept(q) /\ objects'[q] = objects[q]
        BY <2>2, <3>2 DEF IInv, AllKept
      <4>2. QED
        BY <1>4, <2>4, <2>7, <4>1 DEF Kept, PutObject, Holding, Carrying
    <3>3. QED
      BY <3>1, <3>2
  <2>9. TypeOK' /\ ArtifactIsTheSuccess'
    BY <1>4, <2>2, <2>7 DEF IInv, TypeOK, ArtifactIsTheSuccess, PutObject
  <2>10. QED
    BY <1>4, <2>7, <2>8, <2>9, SameReconciling DEF IInv, PutObject
<1>5. CASE Publish(a)
  <2>1. attempts[a].result \in Results /\ attempts[a].at = "checked"
    BY <1>5 DEF IInv, Computed, Publish, Carrying
  <2>2. PICK at \in {"done", "cleaning"} : Move(a, at)
    BY <1>5 DEF Publish
  <2>3. attempts' \in Seq(Attempts) /\ Len(attempts') <= MaxAttempts /\ Computed'
    BY <2>1, <2>2, MoveKeeps DEF Stages, Carrying
  <2>4. flow' \in {flow, "COMPLETED"} /\ (flow' = flow \/ ~Executing')
    BY <1>5 DEF Publish, Report, Executing
  <2>5. AllKept' /\ ArtifactIsTheSuccess' /\ (status' = "CANCELLED" => status = "CANCELLED")
        /\ status' \in {status, "SUCCEEDED"} /\ artifact' \in {artifact, attempts[a].result}
    <3>1. CASE Live
      <4>1. /\ status' = "SUCCEEDED" /\ artifact' = attempts[a].result /\ Move(a, "done")
            /\ UNCHANGED storageVars /\ artifact = None
        BY <1>5, <3>1 DEF Publish, Live, IInv, ArtifactIsTheSuccess
      <4>2. PICK e \in Attempts : /\ attempts' = [attempts EXCEPT ![a] = e]
        BY <4>1, MoveIs DEF IInv, Stages
      <4>3. DOMAIN attempts' = DOMAIN attempts
            /\ \A b \in DOMAIN attempts : b # a => attempts'[b] = attempts[b]
        BY <1>0, <4>2
      <4>4. ASSUME NEW q \in Results, objects[q] # 0, q # attempts[a].result PROVE Kept(q)'
        <5>1. Kept(q) /\ artifact # q
          BY <4>1, <4>4, NoneAssumption DEF IInv, AllKept
        <5>2. QED
          BY <4>1, <4>3, <4>4, <5>1 DEF Kept, storageVars
      <4>5. AllKept'
        BY <4>1, <4>4 DEF AllKept, Kept, storageVars
      <4>6. QED
        BY <2>1, <4>1, <4>5, NoneAssumption DEF ArtifactIsTheSuccess
    <3>2. CASE ~Live
      <4>1. Move(a, "cleaning") /\ UNCHANGED <<status, artifact, storageVars>>
        BY <1>5, <3>2 DEF Publish
      <4>2. AllKept'
        BY <4>1, StillKept DEF Stages, Holding, Carrying
      <4>3. QED
        BY <4>1, <4>2 DEF IInv, ArtifactIsTheSuccess
    <3>3. QED
      BY <3>1, <3>2
  <2>6. UNCHANGED <<delivery, cancel, look, faults, asked, storageVars>>
    BY <1>5 DEF Publish
  <2>7. TypeOK'
    BY <2>1, <2>3, <2>4, <2>5, <2>6 DEF IInv, TypeOK, Flows, Finished, storageVars
  <2>8. QED
    BY <2>3, <2>4, <2>5, <2>6, <2>7, SameReconciling DEF IInv
<1>6. CASE LookPublished(a)
  <2>1. PICK at \in {"done", "discarding"} :
             Move(a, at) /\ (at = "done" => artifact = attempts[a].result)
    BY <1>6 DEF LookPublished, Published
  <2>2. at \in Stages /\ attempts[a].at \in Carrying /\ (at = "discarding" => at \in Holding)
    BY <1>6, <2>1 DEF LookPublished, Stages, Carrying, Holding
  <2>3. AllKept' /\ attempts' \in Seq(Attempts) /\ Len(attempts') <= MaxAttempts /\ Computed'
    BY <1>6, <2>1, <2>2, StillKept, MoveKeeps DEF LookPublished
  <2>4. TypeOK' /\ ArtifactIsTheSuccess'
    BY <1>6, <2>3 DEF IInv, TypeOK, ArtifactIsTheSuccess, LookPublished, storageVars
  <2>5. QED
    BY <1>6, <2>3, <2>4, SameReconciling DEF IInv, LookPublished
<1>7. CASE Discard(a)
  <2> DEFINE r == attempts[a].result
  <2>1. Move(a, "done") /\ r \in Results /\ objects \in [Results -> 0..puts] /\ puts \in Nat
    BY <1>7 DEF IInv, TypeOK, Computed, Discard, Carrying
  <2>2. PICK e \in Attempts : attempts' = [attempts EXCEPT ![a] = e]
    BY <2>1, MoveIs DEF IInv, Stages
  <2>3. attempts' \in Seq(Attempts) /\ Len(attempts') <= MaxAttempts /\ Computed'
    BY <2>1, MoveKeeps DEF Stages, Carrying
  <2>4. DOMAIN attempts' = DOMAIN attempts
        /\ \A b \in DOMAIN attempts : b # a => attempts'[b] = attempts[b]
    BY <1>0, <2>2
  <2>5. objects' \in [Results -> 0..puts]
        /\ \A q \in Results : objects'[q] # 0 =>
               objects'[q] = objects[q] /\ (q = r => objects[q] # attempts[a].version)
    BY <1>7, <2>1 DEF Discard
  <2>6. AllKept'
    <3> SUFFICES ASSUME NEW q \in Results, objects'[q] # 0 PROVE Kept(q)'
      BY DEF AllKept
    <3>1. /\ Kept(q) /\ objects'[q] = objects[q] /\ UNCHANGED <<artifact, orphans>>
          /\ q = r => objects[q] # attempts[a].version
      BY <1>7, <2>5 DEF IInv, AllKept, Discard
    <3>2. QED
      BY <2>4, <3>1 DEF Kept
  <2>7. TypeOK' /\ ArtifactIsTheSuccess'
    BY <1>7, <2>3, <2>5 DEF IInv, TypeOK, ArtifactIsTheSuccess, Discard
  <2>8. QED
    BY <1>7, <2>3, <2>6, <2>7, SameReconciling DEF IInv, Discard
<1>8. CASE AttemptDies(a)
  <2> DEFINE r == attempts[a].result
  <2>1. Move(a, "done") /\ r \in Results /\ orphans' = orphans \cup {r}
        /\ UNCHANGED <<objects, puts, artifact>>
    BY <1>8 DEF IInv, Computed, AttemptDies, Carrying
  <2>2. PICK e \in Attempts : attempts' = [attempts EXCEPT ![a] = e]
    BY <2>1, MoveIs DEF IInv, Stages
  <2>3. attempts' \in Seq(Attempts) /\ Len(attempts') <= MaxAttempts /\ Computed'
    BY <2>1, MoveKeeps DEF Stages, Carrying
  <2>4. DOMAIN attempts' = DOMAIN attempts
        /\ \A b \in DOMAIN attempts : b # a => attempts'[b] = attempts[b]
    BY <1>0, <2>2
  <2>5. AllKept'
    BY <2>1, <2>4 DEF IInv, AllKept, Kept
  <2>6. TypeOK' /\ ArtifactIsTheSuccess'
    BY <1>8, <2>1, <2>3 DEF IInv, TypeOK, ArtifactIsTheSuccess, AttemptDies
  <2>7. QED
    BY <1>8, <2>3, <2>5, <2>6, SameReconciling DEF IInv, AttemptDies
<1>9. QED
  BY <1>1, <1>2, <1>3, <1>4, <1>5, <1>6, <1>7, <1>8

LEMMA Invariance == Spec => []IInv
<1>1. Init => IInv
  BY InvInit
<1>2. IInv /\ [Next]_vars => IInv'
  <2> SUFFICES ASSUME IInv, [Next]_vars PROVE IInv'
    OBVIOUS
  <2>1. CASE UNCHANGED vars
    BY <2>1 DEF vars, deliveryVars, flowVars, storageVars, IInv, TypeOK, Computed,
                ArtifactIsTheSuccess, AllKept, Kept, FlagIsUp, ClearsRightly, OverIsOver,
                CancellationIsDelivered, Executing
  <2>2. CASE Next
    BY <2>2, CancelStep, ReconcileStep, FlowStep, AttemptStep DEF Next, Reconcile
  <2>3. QED
    BY <2>1, <2>2
<1>3. QED
  BY <1>1, <1>2, PTL DEF Spec

-----------------------------------------------------------------------------
\* execute, fail, cancel_run and ForecastRecovery.cycle: the run's row, its artifact and
\* its workflow fit together for any number of attempts and interruptions; an artifact
\* means success, and no accepted cancellation is dropped.
THEOREM RowsFit == Spec => []ForecastRowsFit
<1>1. IInv => ForecastRowsFit
  BY DEF IInv, ForecastRowsFit
<1>2. QED
  BY <1>1, Invariance, PTL

\* The cleanup of ForecastExecution.execute: whatever is staged is published, held, or
\* was left by a process that died.
THEOREM Staging == Spec => []StagingIsClean
<1>1. IInv => StagingIsClean
  BY DEF IInv, AllKept, Kept, StagingIsClean, Holding, Carrying
<1>2. QED
  BY <1>1, Invariance, PTL

\* How a run ended is never changed, nor is its artifact exchanged, by whatever comes
\* late: an attempt, a failure, a cancellation or the reconciler.
THEOREM Finality == Spec => EndIsFinal
<1>1. ASSUME Next, status \in Finished PROVE status' = status /\ artifact' = artifact
  <2>1. ~Live
    BY <1>1 DEF Live, Finished
  <2>2. CASE CancelRun
    BY <2>1, <2>2 DEF CancelRun
  <2>3. CASE Reconcile \/ Interrupted
    BY <2>1, <2>3 DEF Reconcile, ReadDelivery, AskTemporal, RequestCancel, StartFlow,
                      LeaveRunning, FailLost, Failing, UpdateDelivery, Interrupted
  <2>4. CASE Schedule \/ BeginFail \/ FailFlow \/ TimeOut \/ LoseHistory
    BY <2>1, <2>4 DEF Schedule, BeginFail, FailFlow, Failing, TimeOut, LoseHistory
  <2>5. ASSUME NEW a \in DOMAIN attempts,
               \/ FindFinished(a) \/ ReadRun(a) \/ MarkRunning(a)
               \/ \E result \in Results : Compute(a, result)
               \/ PutObject(a) \/ CheckInputs(a) \/ Publish(a)
               \/ AttemptStops(a) \/ LookPublished(a) \/ Discard(a) \/ AttemptDies(a)
        PROVE  status' = status /\ artifact' = artifact
    BY <2>1, <2>5 DEF FindFinished, ReadRun, MarkRunning, Compute, PutObject, CheckInputs,
                      Publish, AttemptStops, LookPublished, Discard, AttemptDies
  <2>6. QED
    BY <1>1, <2>2, <2>3, <2>4, <2>5 DEF Next, Reconcile
<1>2. [Next]_vars => [(status \in Finished) => (status' = status /\ artifact' = artifact)]_vars
  BY <1>1
<1>3. QED
  BY <1>2, PTL DEF Spec, EndIsFinal
=============================================================================
