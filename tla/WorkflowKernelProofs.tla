------------------------- MODULE WorkflowKernelProofs -------------------------
(***************************************************************************)
(* Theorems about WorkflowKernel for every plan, number of runs, commands, *)
(* repairers and replayed projections.                                     *)
(***************************************************************************)
EXTENDS WorkflowKernel, TLAPS

-----------------------------------------------------------------------------
(* The inductive invariant *)

Asking  == {"announce", "wait", "escalating", "escalated"}
AtStep  == Asking \cup {"paused", "draining", "step_started", "step"}
Ended   == {"none", "end"}

\* The completed steps are the first of the plan, up to where the coroutine is.
Shape ==
    /\ \A i \in DOMAIN done : done[i] = i
    /\ Len(done) <= N
    /\ pc = "starting" => ix = 1 /\ Len(done) = 0
    /\ pc \in AtStep => ix \in 1..N /\ Len(done) = ix - 1
    /\ pc \in Asking => ix = Gate
    /\ pc = "step_done" => ix \in 1..N /\ Len(done) = ix
    /\ (closed = "open") <=> (pc \notin Ended)
    /\ (closed = "none") <=> (run = 0)

\* The compensated steps are the last completed ones, in reverse.
Undoing ==
    /\ Len(undone) <= Len(done)
    /\ \A i \in DOMAIN undone : undone[i] = done[Len(done) - i + 1]
    /\ pc \in AtStep \cup {"starting", "step_done"} => Len(undone) = 0
    /\ pc = "undo" => Len(undone) < Len(done)
    /\ pc \in {"draining", "undo", "undoing", "cancelling"} => cancel
    /\ pc = "cancelling" => Len(undone) = Len(done)

\* A run that waits has no decision, and it only has one past its gate.
Asked ==
    /\ status \in {"WAITING", "WAITING_INPUT"} =>
          pc \in Asking \cup {"end"} /\ ix = Gate /\ decision = "NONE" /\ ~ cancel
    /\ decision # "NONE" => ix >= Gate /\ (pc \in {"starting", "paused"} => ix > Gate)

Guarded ==
    /\ Gate > 0 /\ Len(done) >= Gate => decision = "APPROVED"
    /\ Gate > 0 /\ ix >= Gate /\ pc \in {"step_started", "step"} => decision = "APPROVED"

\* What a status says of the run that shows it; none of it is ever undone.
Claim(st) ==
    /\ st = "SUCCEEDED" => Len(done) = N
    /\ st = "CANCELLED" => /\ pc \in {"cancelling", "failing", "end"}
                           /\ cancel /\ Len(undone) = Len(done)
    /\ st = "REJECTED"  => decision = "REJECTED"
    /\ st = "FAILED"    => status = "FAILED" /\ pc \in {"failing", "end"}

RunInv == Shape /\ Undoing /\ Asked /\ Guarded /\ Claim(status)

Messages ==
    /\ \A p \in flying : 0 < p.run /\ p.run <= run /\ (p.run = run => Claim(p.status))
    /\ \A r \in marks : 0 < r /\ r <= run

KInv == TypeOK /\ RunInv /\ Messages

\* What the row says, as long as nobody repairs it.
RowInv ==
    /\ row.run <= run
    /\ row.run = 0 => row.status = "CREATED"
    /\ row.run = run => Claim(row.status)

-----------------------------------------------------------------------------
\* What Append adds, element by element.
LEMMA AppendFacts ==
  ASSUME NEW S, NEW s \in Seq(S), NEW e \in S
  PROVE  /\ Append(s, e) \in Seq(S)
         /\ Len(Append(s, e)) = Len(s) + 1
         /\ DOMAIN Append(s, e) = 1..(Len(s) + 1)
         /\ \A i \in 1..Len(s) : Append(s, e)[i] = s[i]
         /\ Append(s, e)[Len(s) + 1] = e
OBVIOUS

\* The invariant holds of a task that was just created.
LEMMA KInvInit == Init => KInv /\ RowInv
<1> SUFFICES ASSUME Init PROVE KInv /\ RowInv
  OBVIOUS
<1>1. TypeOK
  <2>1. /\ row \in Rows /\ status \in Statuses /\ pc \in Places /\ ix \in 0..(N + 1)
    BY PlanAssumption DEF Init, Rows, Statuses, Places
  <2>2. done \in Seq(1..N) /\ undone \in Seq(1..N)
    BY DEF Init
  <2>3. seen \in [Repairers -> Rows \cup {None}]
    BY DEF Init
  <2> QED
    BY <2>1, <2>2, <2>3 DEF Init, TypeOK
<1>2. Shape /\ Undoing
  BY PlanAssumption DEF Init, Shape, Undoing, Asking, AtStep, Ended
<1>3. Asked /\ Guarded
  BY PlanAssumption DEF Init, Asked, Guarded
<1>4. Claim(status) /\ Claim(row.status) /\ row.status = "CREATED" /\ row.run = 0 /\ run = 0
  BY DEF Init, Claim
<1>5. Messages
  BY DEF Init, Messages
<1> QED
  BY <1>1, <1>2, <1>3, <1>4, <1>5 DEF KInv, RunInv, RowInv

-----------------------------------------------------------------------------
(* The coroutine *)

\* What the coroutine does at the head of the loop keeps the invariant.
LEMMA EnterStepInv ==
  ASSUME KInv, NEW i \in 1..(N + 1), EnterStep(i), closed = "open",
         Len(done) = i - 1, Len(undone) = 0, decision # "NONE" => i > Gate,
         pc \in {"starting", "paused", "step_done"},
         UNCHANGED <<closed, done, undone, decision, cancel, run>>
  PROVE  RunInv'
<1>0. /\ N \in Nat /\ Gate \in 0..N /\ done \in Seq(1..N) /\ undone \in Seq(1..N)
      /\ status \in Statuses
  BY PlanAssumption DEF KInv, TypeOK
<1>1. /\ ix' = i
      /\ \/ pc' = "succeeding" /\ status' = "SUCCEEDED" /\ i > N
         \/ pc' = "undoing" /\ status' = "COMPENSATING" /\ i <= N /\ cancel
         \/ pc' = "paused" /\ status' = "PAUSED" /\ i <= N
         \/ pc' = "announce" /\ status' = "WAITING" /\ i <= N /\ ~ cancel /\ i = Gate
         \/ pc' = "step_started" /\ status' = "RUNNING" /\ i <= N /\ i # Gate
  BY DEF EnterStep, Project, NoProjection
<1>2. Shape'
  BY <1>0, <1>1 DEF KInv, RunInv, Shape, Asking, AtStep, Ended
<1>3. Undoing'
  BY <1>0, <1>1 DEF KInv, RunInv, Undoing, Asking, AtStep
<1>4. Asked'
  BY <1>0, <1>1 DEF KInv, RunInv, Asked, Asking
<1>5. Guarded'
  BY <1>0, <1>1 DEF KInv, RunInv, Guarded
<1>6. Claim(status)'
  BY <1>0, <1>1 DEF Claim
<1> QED
  BY <1>2, <1>3, <1>4, <1>5, <1>6 DEF RunInv

\* A step of the run: the coroutine goes to a place, with or without a
\* projection of the status it then has.
Moves ==
    /\ OnlyRunMoves
    /\ pc' \in Places /\ status' \in Statuses
    /\ \/ UNCHANGED projectVars
       \/ /\ seq' = seq + 1 /\ awaits' = seq + 1 /\ UNCHANGED handlers
          /\ flying' = flying \cup
               {[run |-> run, n |-> seq + 1, command |-> FALSE, status |-> status']}

\* A step of the run keeps types.
LEMMA MovesType ==
  ASSUME TypeOK, Moves, ix' \in 0..(N + 1), done' \in Seq(1..N), undone' \in Seq(1..N),
         closed' \in {"none", "open", "completed", "failed", "timed_out"}
  PROVE  TypeOK'
<1>1. status' \in Statuses /\ run \in Nat /\ seq \in Nat /\ awaits \in Nat
      /\ handlers \subseteq Nat /\ flying \subseteq Projections
  BY DEF TypeOK, Moves
<1>2. seq' \in Nat /\ awaits' \in Nat /\ handlers' \subseteq Nat
  <2>1. handlers' = handlers
    BY DEF Moves, projectVars
  <2>2. \/ seq' = seq /\ awaits' = awaits
        \/ seq' = seq + 1 /\ awaits' = seq + 1
    BY DEF Moves, projectVars
  <2>3. seq + 1 \in Nat
    BY <1>1
  <2> QED
    BY <1>1, <2>1, <2>2, <2>3
<1>3. flying' \subseteq Projections
  <2>1. CASE UNCHANGED projectVars
    BY <1>1, <2>1 DEF projectVars
  <2>2. CASE flying' = flying \cup
               {[run |-> run, n |-> seq + 1, command |-> FALSE, status |-> status']}
    <3>1. [run |-> run, n |-> seq + 1, command |-> FALSE, status |-> status'] \in Projections
      BY <1>1 DEF Projections
    <3> QED
      BY <1>1, <2>2, <3>1
  <2> QED
    BY <2>1, <2>2 DEF Moves
<1> QED
  BY <1>2, <1>3 DEF TypeOK, Moves, OnlyRunMoves, rowVars, callVars

\* What a status claims stays true within a run.
Advances == \A st \in Statuses : Claim(st) => Claim(st)'

\* The head of the loop, as the three steps that come to it.
LEMMA LoopHead ==
  ASSUME KInv, NEW i \in 1..(N + 1), EnterStep(i), OnlyRunMoves,
         Len(done) = i - 1, Len(undone) = 0, decision # "NONE" => i > Gate,
         pc \in {"starting", "paused", "step_done"},
         UNCHANGED <<closed, done, undone>>
  PROVE  Moves /\ TypeOK' /\ RunInv' /\ Advances
<1>1. UNCHANGED <<decision, cancel, run>>
  BY DEF OnlyRunMoves
<1>2. closed = "open"
  BY DEF KInv, RunInv, Shape, Ended
<1>3. RunInv'
  BY <1>1, <1>2, EnterStepInv
<1>4. Moves
  BY DEF EnterStep, Project, NoProjection, Moves, KInv, TypeOK, Places, Projecting, Statuses,
         Terminal
<1>5. TypeOK'
  <2>1. i \in 0..(N + 1) /\ ix' = i
    BY PlanAssumption DEF EnterStep
  <2>2. done' \in Seq(1..N) /\ undone' \in Seq(1..N)
    BY DEF KInv, TypeOK
  <2>3. closed' \in {"none", "open", "completed", "failed", "timed_out"}
    BY <1>2
  <2> QED
    BY <1>4, <2>1, <2>2, <2>3, MovesType DEF KInv
<1>6. Advances
  BY <1>1 DEF Advances, Claim, KInv
<1> QED
  BY <1>3, <1>4, <1>5, <1>6

\* RUN_STARTED is projected, a pause ends, a step is done.
LEMMA LoopSteps ==
  ASSUME KInv, Started \/ Unpaused \/ NextStep
  PROVE  Moves /\ TypeOK' /\ RunInv' /\ Advances
<1>0. /\ N \in Nat /\ Gate \in 0..N /\ ix \in 0..(N + 1)
      /\ done \in Seq(1..N) /\ undone \in Seq(1..N)
  BY PlanAssumption DEF KInv, TypeOK
<1>1. CASE Started
  <2>1. /\ Len(done) = 0 /\ Len(undone) = 0
        /\ decision # "NONE" => 1 > Gate
        /\ 1 \in 1..(N + 1)
    BY <1>0, <1>1 DEF Started, KInv, RunInv, Shape, Undoing, Asked
  <2> QED
    BY <1>1, <2>1, LoopHead DEF Started
<1>2. CASE Unpaused
  <2> PICK i : i = ix
    OBVIOUS
  <2>1. /\ Len(done) = i - 1 /\ Len(undone) = 0
        /\ decision # "NONE" => i > Gate
        /\ i \in 1..(N + 1)
    BY <1>0, <1>2 DEF Unpaused, KInv, RunInv, Shape, Undoing, Asked, AtStep
  <2>2. EnterStep(i)
    BY <1>2 DEF Unpaused, EnterStep
  <2> QED
    BY <1>2, <2>1, <2>2, LoopHead DEF Unpaused
<1>3. CASE NextStep
  <2> PICK i : i = ix + 1
    OBVIOUS
  <2>1. /\ Len(done) = i - 1 /\ Len(undone) = 0
        /\ decision # "NONE" => i > Gate
        /\ i \in 1..(N + 1)
    BY <1>0, <1>3 DEF NextStep, KInv, RunInv, Shape, Undoing, Asked, AtStep
  <2>2. EnterStep(i)
    BY <1>3 DEF NextStep, EnterStep
  <2> QED
    BY <1>3, <2>1, <2>2, LoopHead DEF NextStep
<1> QED
  BY <1>1, <1>2, <1>3

\* The wait for a decision, from its announcement to its end.
LEMMA WaitSteps ==
  ASSUME KInv, Announced \/ ApprovalTimeout \/ Decided \/ Drained
  PROVE  Moves /\ TypeOK' /\ RunInv' /\ Advances
<1>0. /\ N \in Nat /\ Gate \in 0..N /\ ix \in 0..(N + 1)
      /\ done \in Seq(1..N) /\ undone \in Seq(1..N)
      /\ status \in Statuses /\ decision \in {"NONE", "APPROVED", "REJECTED"}
      /\ Shape /\ Undoing /\ Asked /\ Guarded /\ Claim(status)
  BY PlanAssumption DEF KInv, TypeOK, RunInv
<1>1. UNCHANGED <<closed, ix, done, undone, decision, cancel, run>> /\ OnlyRunMoves
  BY DEF Announced, ApprovalTimeout, Decided, Drained, OnlyRunMoves, stepVars
<1>2. \/ pc = "announce" /\ pc' = "wait" /\ status' = status
      \/ pc = "escalating" /\ pc' = "escalated" /\ status' = status
      \/ pc = "wait" /\ pc' = "escalating" /\ status' = status
      \/ pc \in Deciding /\ cancel /\ pc' = "draining" /\ status' = status
      \/ /\ pc \in Deciding /\ decision = "REJECTED" /\ ~ cancel
         /\ pc' = "rejecting" /\ status' = "REJECTED"
      \/ /\ pc \in Deciding /\ decision = "APPROVED" /\ ~ cancel
         /\ pc' = "step_started" /\ status' = "RUNNING"
      \/ pc = "draining" /\ pc' = "undoing" /\ status' = "COMPENSATING" 
  BY DEF Announced, ApprovalTimeout, Decided, Drained, NoProjection, Project
<1>3. Moves
  <2>1. pc' \in Places /\ status' \in Statuses
    BY <1>0, <1>2 DEF Places, Projecting, Deciding, Statuses, Terminal
  <2> QED
    BY <1>1, <2>1 DEF Announced, ApprovalTimeout, Decided, Drained, NoProjection, Project, Moves
<1>4. TypeOK'
  BY <1>0, <1>1, <1>3, MovesType DEF KInv, TypeOK
<1>5. Shape'
  BY <1>0, <1>1, <1>2 DEF Shape, Asking, AtStep, Ended, Deciding
<1>6. pc = "draining" => cancel
  BY <1>0 DEF Undoing
<1>7. Undoing'
  BY <1>0, <1>1, <1>2, <1>6 DEF Undoing, Asking, AtStep, Deciding
<1>8. Asked'
  BY <1>0, <1>1, <1>2 DEF Asked, Asking, Deciding
<1>9. Guarded'
  BY <1>0, <1>1, <1>2 DEF Guarded, Deciding
<1>10. Advances
  BY <1>1, <1>2 DEF Advances, Claim, Deciding
<1>11. Claim(status)'
  BY <1>0, <1>1, <1>2 DEF Claim, Deciding
<1> QED
  BY <1>3, <1>4, <1>5, <1>7, <1>8, <1>9, <1>10, <1>11 DEF RunInv

\* Steps are done and undone.
LEMMA WorkSteps ==
  ASSUME KInv, StepStarts \/ StepSucceeds \/ UndoStep \/ UndoNext
  PROVE  Moves /\ TypeOK' /\ RunInv' /\ Advances
<1>0. /\ N \in Nat /\ Gate \in 0..N /\ ix \in 0..(N + 1)
      /\ done \in Seq(1..N) /\ undone \in Seq(1..N)
      /\ status \in Statuses /\ decision \in {"NONE", "APPROVED", "REJECTED"}
      /\ Shape /\ Undoing /\ Asked /\ Guarded /\ Claim(status)
  BY PlanAssumption DEF KInv, TypeOK, RunInv
<1>1. UNCHANGED <<closed, ix, decision, cancel, run>> /\ OnlyRunMoves
  BY DEF StepStarts, StepSucceeds, UndoStep, UndoNext, OnlyRunMoves, stepVars
<1>2. \/ /\ pc = "step_started" /\ pc' = "step" /\ status' = status
         /\ UNCHANGED <<done, undone>>
      \/ /\ pc = "step" /\ pc' = "step_done" /\ status' = status
         /\ done' = Append(done, ix) /\ undone' = undone
      \/ /\ pc = "undo" /\ pc' = "undoing" /\ status' = status
         /\ undone' = Append(undone, done[Len(done) - Len(undone)]) /\ done' = done
      \/ /\ pc = "undoing" /\ pc' = "undo" /\ status' = status
         /\ Len(undone) < Len(done) /\ UNCHANGED <<done, undone>>
      \/ /\ pc = "undoing" /\ pc' = "cancelling" /\ status' = "CANCELLED"
         /\ Len(undone) = Len(done) /\ UNCHANGED <<done, undone>>
  BY DEF StepStarts, StepSucceeds, UndoStep, UndoNext, NoProjection, Project, stepVars
<1>3. pc = "step" => ix \in 1..N /\ Len(done) = ix - 1 /\ Len(undone) = 0
  BY <1>0 DEF Shape, Undoing, AtStep
<1>4. pc = "undo" => done[Len(done) - Len(undone)] \in 1..N
  BY <1>0 DEF Undoing
<1>5. done' \in Seq(1..N) /\ undone' \in Seq(1..N)
  <2>1. CASE pc = "step"
    <3>1. Append(done, ix) \in Seq(1..N)
      BY <1>0, <1>3, <2>1, AppendFacts
    <3> QED
      BY <1>0, <1>2, <2>1, <3>1
  <2>2. CASE pc = "undo"
    <3>1. Append(undone, done[Len(done) - Len(undone)]) \in Seq(1..N)
      BY <1>0, <1>4, <2>2, AppendFacts
    <3> QED
      BY <1>0, <1>2, <2>2, <3>1
  <2>3. CASE pc \notin {"step", "undo"}
    BY <1>0, <1>2, <2>3
  <2> QED
    BY <2>1, <2>2, <2>3
<1>6. Moves
  <2>1. pc' \in Places /\ status' \in Statuses
    BY <1>0, <1>2 DEF Places, Projecting, Statuses, Terminal
  <2> QED
    BY <1>1, <2>1 DEF StepStarts, StepSucceeds, UndoStep, UndoNext, NoProjection, Project, Moves
<1>7. TypeOK'
  BY <1>0, <1>1, <1>5, <1>6, MovesType DEF KInv, TypeOK
<1>8. Shape'
  <2>1. CASE pc = "step"
    <3>1. /\ done' = Append(done, ix) /\ pc' = "step_done" /\ ix' = ix /\ closed' = closed
          /\ ix \in 1..N /\ Len(done) = ix - 1
      BY <1>1, <1>2, <1>3, <2>1
    <3>2. Len(done') = ix /\ DOMAIN done' = 1..ix /\ done'[ix] = ix
      BY <1>0, <3>1, AppendFacts
    <3>3. \A i \in 1..(ix - 1) : done'[i] = done[i] /\ done[i] = i
      BY <1>0, <3>1, AppendFacts DEF Shape
    <3>4. \A i \in DOMAIN done' : done'[i] = i
      BY <3>1, <3>2, <3>3
    <3> QED
      BY <1>0, <1>1, <2>1, <3>1, <3>2, <3>4 DEF Shape, Asking, AtStep, Ended
  <2>2. CASE pc # "step"
    BY <1>0, <1>1, <1>2, <2>2 DEF Shape, Asking, AtStep, Ended
  <2> QED
    BY <2>1, <2>2
<1>9. Undoing'
  <2>1. CASE pc = "undo"
    <3> PICK r : r = done[Len(done) - Len(undone)]
      OBVIOUS
    <3>1. /\ undone' = Append(undone, r) /\ done' = done /\ Len(undone) < Len(done)
          /\ r \in 1..N
      BY <1>0, <1>2, <1>4, <2>1 DEF Undoing
    <3>2. /\ Len(undone') = Len(undone) + 1
          /\ DOMAIN undone' = 1..(Len(undone) + 1)
          /\ \A i \in 1..Len(undone) : undone'[i] = undone[i]
          /\ undone'[Len(undone) + 1] = r
      <4>1. /\ Len(Append(undone, r)) = Len(undone) + 1
            /\ DOMAIN Append(undone, r) = 1..(Len(undone) + 1)
            /\ \A i \in 1..Len(undone) : Append(undone, r)[i] = undone[i]
            /\ Append(undone, r)[Len(undone) + 1] = r
        <5>1. undone \in Seq(1..N) /\ r \in 1..N
          BY <1>0, <3>1
        <5> QED
          BY <5>1, AppendFacts
      <4> QED
        BY <3>1, <4>1
    <3>3. \A i \in 1..Len(undone) : undone[i] = done[Len(done) - i + 1]
      <4>1. DOMAIN undone = 1..Len(undone)
        BY <1>0
      <4>2. \A i \in DOMAIN undone : undone[i] = done[Len(done) - i + 1]
        BY <1>0 DEF Undoing
      <4> QED
        BY <4>1, <4>2
    <3>4. r = done[Len(done) - (Len(undone) + 1) + 1]
      <4>1. Len(done) - (Len(undone) + 1) + 1 = Len(done) - Len(undone)
        BY <1>0
      <4> QED
        BY <4>1
    <3>5. \A i \in 1..(Len(undone) + 1) : i \in 1..Len(undone) \/ i = Len(undone) + 1
      BY <1>0
    <3>6. \A i \in DOMAIN undone' : undone'[i] = done'[Len(done') - i + 1]
      BY <3>1, <3>2, <3>3, <3>4, <3>5
    <3> QED
      BY SMTT(30), <1>0, <1>1, <1>2, <2>1, <3>1, <3>2, <3>6 DEF Undoing, AtStep, Asking
  <2>2. CASE pc # "undo"
    BY <1>0, <1>1, <1>2, <1>3, <2>2 DEF Undoing, AtStep, Asking
  <2> QED
    BY <2>1, <2>2
<1>10. Asked'
  BY <1>0, <1>1, <1>2 DEF Asked, Asking
<1>11. Guarded'
  BY <1>0, <1>1, <1>2, <1>3 DEF Guarded
<1>12. Advances
  BY <1>0, <1>1, <1>2, <1>3 DEF Advances, Claim
<1>13. Claim(status)'
  BY <1>0, <1>1, <1>2, <1>3 DEF Claim, Undoing
<1> QED
  BY <1>6, <1>7, <1>8, <1>9, <1>10, <1>11, <1>12, <1>13 DEF RunInv

\* A run ends, or fails.
LEMMA EndSteps ==
  ASSUME KInv, Completed \/ GiveUp \/ RunFails \/ RunTimesOut
  PROVE  Moves /\ TypeOK' /\ RunInv' /\ Advances
<1>0. /\ N \in Nat /\ Gate \in 0..N /\ ix \in 0..(N + 1)
      /\ done \in Seq(1..N) /\ undone \in Seq(1..N)
      /\ status \in Statuses /\ pc \in Places
      /\ closed \in {"none", "open", "completed", "failed", "timed_out"}
      /\ Shape /\ Undoing /\ Asked /\ Guarded /\ Claim(status)
  BY PlanAssumption DEF KInv, TypeOK, RunInv
<1>1. UNCHANGED <<ix, done, undone, decision, cancel, run>> /\ OnlyRunMoves
  BY DEF Completed, GiveUp, RunFails, RunTimesOut, OnlyRunMoves, stepVars
<1>2. \/ /\ pc' = "end" /\ status' = status
         /\ closed' \in {"completed", "failed", "timed_out"}
      \/ /\ pc \notin Ended \cup {"starting", "failing", "paused", "draining", "wait", "escalated"}
         /\ pc' = "failing" /\ status' = "FAILED" /\ closed' = closed
  BY DEF Completed, GiveUp, RunFails, RunTimesOut, Close, NoProjection, Project, Ended, Projecting
<1>3. closed = "open"
  BY <1>0 DEF Completed, GiveUp, RunFails, RunTimesOut, Shape, Ended, Projecting
<1>4. Moves
  <2>1. pc' \in Places /\ status' \in Statuses
    BY <1>0, <1>2 DEF Places, Projecting, Statuses, Terminal
  <2> QED
    BY <1>1, <2>1 DEF Completed, GiveUp, RunFails, RunTimesOut, Close, NoProjection, Project, Moves
<1>5. TypeOK'
  <2>1. closed' \in {"none", "open", "completed", "failed", "timed_out"}
    BY <1>0, <1>2
  <2> QED
    BY <1>0, <1>1, <1>4, <2>1, MovesType DEF KInv, TypeOK
<1>6. Shape'
  BY <1>0, <1>1, <1>2, <1>3 DEF Shape, Asking, AtStep, Ended
<1>7. Undoing'
  BY <1>0, <1>1, <1>2 DEF Undoing, Asking, AtStep
<1>8. Asked'
  BY <1>0, <1>1, <1>2 DEF Asked, Asking
<1>9. Guarded'
  BY <1>0, <1>1, <1>2 DEF Guarded
<1>10. Advances
  BY <1>0, <1>1, <1>2 DEF Advances, Claim
<1>11. Claim(status)'
  BY <1>0, <1>1, <1>2 DEF Claim
<1> QED
  BY <1>4, <1>5, <1>6, <1>7, <1>8, <1>9, <1>10, <1>11 DEF RunInv

-----------------------------------------------------------------------------
(* The other steps *)

\* What leaves the run alone, and emits nothing.
LEMMA FrameRunInv ==
  ASSUME KInv, UNCHANGED <<run, closed, pc, stepVars, stateVars>>
  PROVE  RunInv' /\ Advances
<1>1. UNCHANGED <<run, closed, pc, ix, done, undone, status, cancel, decision>>
  BY DEF stepVars, stateVars
<1>2. Shape' /\ Undoing' /\ Asked' /\ Guarded' /\ Claim(status)'
  BY <1>1 DEF KInv, RunInv, Shape, Undoing, Asked, Guarded, Claim
<1>3. Advances
  BY <1>1 DEF Advances, Claim
<1> QED
  BY <1>2, <1>3 DEF RunInv

\* A new run starts afresh; what older runs emitted stays older.
LEMMA NewRunStep ==
  ASSUME KInv, NEW r \in Nat, r > run, NewRun(r), pending' \subseteq pending
  PROVE  TypeOK' /\ RunInv' /\ Messages' /\ (RowInv => RowInv')
<1>0. /\ N \in Nat /\ Gate \in 0..N /\ run \in Nat
      /\ flying \subseteq Projections /\ marks \subseteq Nat
  BY PlanAssumption DEF KInv, TypeOK
<1>1. /\ run' = r /\ closed' = "open" /\ pc' = "starting" /\ ix' = 1
      /\ status' \in {"PAUSED", "RUNNING"} /\ cancel' = FALSE /\ decision' = "NONE"
      /\ done' = << >> /\ undone' = << >> /\ handlers' = {} /\ seq' = 1 /\ awaits' = 1
      /\ marks' = marks \cup {r} /\ UNCHANGED <<row, events, marked, used, seen>>
      /\ flying' = flying \cup {[run |-> r, n |-> 1, command |-> FALSE, status |-> status']}
  BY DEF NewRun, rowVars
<1>2. status' \in Statuses /\ pc' \in Places
  BY <1>1 DEF Statuses, Places, Projecting
<1>3. TypeOK'
  <2>1. done' \in Seq(1..N) /\ undone' \in Seq(1..N)
    BY <1>1
  <2>2. flying' \subseteq Projections
    <3>1. [run |-> r, n |-> 1, command |-> FALSE, status |-> status'] \in Projections
      BY <1>2 DEF Projections
    <3> QED
      BY <1>0, <1>1, <3>1
  <2>3. ix' \in 0..(N + 1) /\ marks' \subseteq Nat /\ run' \in Nat
    BY <1>0, <1>1
  <2> QED
    BY <1>1, <1>2, <2>1, <2>2, <2>3 DEF KInv, TypeOK
<1>4. Shape'
  BY <1>0, <1>1 DEF Shape, Asking, AtStep, Ended
<1>5. Undoing'
  BY <1>0, <1>1 DEF Undoing, Asking, AtStep
<1>6. Asked' /\ Guarded'
  BY <1>0, <1>1 DEF Asked, Guarded
<1>7. Claim(status)'
  BY <1>1 DEF Claim
<1>8. Messages'
  <2>1. ASSUME NEW p \in flying' PROVE 0 < p.run /\ p.run <= r /\ (p.run = r => Claim(p.status)')
    <3>1. CASE p \in flying
      <4>1. p.run \in Nat /\ 0 < p.run /\ p.run <= run
        BY <1>0, <3>1 DEF KInv, Messages, Projections
      <4> QED
        BY <1>0, <4>1
    <3>2. CASE p = [run |-> r, n |-> 1, command |-> FALSE, status |-> status']
      BY <1>0, <1>7, <3>2
    <3> QED
      BY <1>1, <2>1, <3>1, <3>2
  <2>2. ASSUME NEW q \in marks' PROVE 0 < q /\ q <= r
    <3>1. CASE q \in marks
      BY <1>0, <3>1 DEF KInv, Messages
    <3> QED
      BY <1>0, <1>1, <2>2, <3>1
  <2> QED
    BY <1>1, <2>1, <2>2 DEF Messages
<1>9. ASSUME RowInv PROVE RowInv'
  <2>1. row' = row /\ row.run \in Nat /\ row.run < r
    BY <1>0, <1>1, <1>9 DEF RowInv, KInv, TypeOK, Rows
  <2> QED
    BY <1>1, <1>9, <2>1 DEF RowInv
<1> QED
  BY <1>3, <1>4, <1>5, <1>6, <1>7, <1>8, <1>9 DEF RunInv

\* An accepted command: a decision only where one is asked for, and nothing
\* at all once the run has an outcome.
LEMMA AcceptStep ==
  ASSUME KInv, NEW m \in pending, AcceptCommand(m)
  PROVE  TypeOK' /\ RunInv' /\ Advances
<1>0. /\ N \in Nat /\ Gate \in 0..N /\ ix \in 0..(N + 1)
      /\ done \in Seq(1..N) /\ undone \in Seq(1..N)
      /\ status \in Statuses /\ cancel \in BOOLEAN /\ seq \in Nat /\ run \in Nat
      /\ decision \in {"NONE", "APPROVED", "REJECTED"} /\ flying \subseteq Projections
      /\ handlers \subseteq Nat
      /\ Shape /\ Undoing /\ Asked /\ Guarded /\ Claim(status)
  BY PlanAssumption DEF KInv, TypeOK, RunInv
<1>1. UNCHANGED <<rowVars, run, closed, pc, ix, done, undone, awaits, marks, used, seen>>
  BY DEF AcceptCommand, stepVars
<1>2. \/ /\ m.action \in {"PAUSE", "RESUME", "CLAIM", "REQUEST_INPUT", "PROVIDE_INPUT"}
         /\ cancel' = cancel /\ decision' = decision
      \/ m.action = "CANCEL" /\ cancel' = TRUE /\ decision' = decision
      \/ m.action = "APPROVE" /\ cancel' = cancel /\ decision' = "APPROVED"
      \/ m.action = "REJECT" /\ cancel' = cancel /\ decision' = "REJECTED"
  <2>1. m.action \in Actions \ {"RETRY"}
    BY DEF AcceptCommand, KInv, TypeOK, Commands
  <2> QED
    BY <1>0, <2>1 DEF AcceptCommand, Actions
<1>3. /\ m.action \in {"APPROVE", "REJECT", "CLAIM", "REQUEST_INPUT"} => status = "WAITING"
      /\ m.action = "PROVIDE_INPUT" => status = "WAITING_INPUT"
      /\ m.action \in {"PAUSE", "RESUME"} => status \in {"RUNNING", "PAUSED"}
      /\ status \notin {"CREATED", "SUCCEEDED", "CANCELLED", "REJECTED", "FAILED"}
  BY <1>0 DEF AcceptCommand, Available, Statuses, Terminal
<1>4. /\ m.action = "PAUSE" => status' = "PAUSED"
      /\ m.action = "CANCEL" => status' = "CANCELLING"
      /\ m.action \in {"RESUME", "APPROVE"} => status' = "RUNNING"
      /\ m.action = "REQUEST_INPUT" => status' = "WAITING_INPUT"
      /\ m.action = "PROVIDE_INPUT" => status' = "WAITING"
      /\ m.action = "REJECT" => status' = "REJECTED"
      /\ m.action = "CLAIM" => status' = status
  BY DEF AcceptCommand, StatusAfter
<1>5. status' \in Statuses
  BY <1>0, <1>2, <1>4 DEF Statuses, Terminal
<1>6. TypeOK'
  <2>1. flying' \subseteq Projections
    <3>1. [run |-> run, n |-> seq + 1, command |-> TRUE, status |-> status'] \in Projections
      BY <1>0, <1>5 DEF Projections
    <3> QED
      BY <1>0, <3>1 DEF AcceptCommand
  <2>2. handlers' \subseteq Nat /\ seq' \in Nat
    BY <1>0 DEF AcceptCommand
  <2>3. cancel' \in BOOLEAN /\ decision' \in {"NONE", "APPROVED", "REJECTED"}
    BY <1>0, <1>2
  <2>4. pending' \subseteq Commands
    BY DEF AcceptCommand, KInv, TypeOK
  <2> QED
    BY <1>1, <1>5, <2>1, <2>2, <2>3, <2>4 DEF KInv, TypeOK, rowVars
<1>7. Shape'
  BY <1>0, <1>1 DEF Shape
<1>8. Undoing'
  BY <1>0, <1>1, <1>2 DEF Undoing
<1>9. Asked'
  BY <1>0, <1>1, <1>2, <1>3, <1>4 DEF Asked, Asking
<1>10. Guarded'
  BY <1>0, <1>1, <1>2, <1>3 DEF Guarded, Asked, Asking
<1>11. Advances
  BY <1>0, <1>1, <1>2, <1>3 DEF Advances, Claim, Asked
<1>12. Claim(status)'
  BY <1>2, <1>3, <1>4 DEF Claim
<1> QED
  BY <1>6, <1>7, <1>8, <1>9, <1>10, <1>11, <1>12 DEF RunInv

\* What is on its way says nothing that is not so: what was emitted earlier
\* still holds, and what is emitted now is the run's status.
LEMMA MessagesStep ==
  ASSUME KInv, Advances, RunInv', run > 0, run' = run, marks' \subseteq marks \cup {run},
         NEW c \in BOOLEAN, NEW n,
         flying' \subseteq flying \cup {[run |-> run, n |-> n, command |-> c, status |-> status']}
  PROVE  Messages'
<1>1. ASSUME NEW p \in flying' PROVE 0 < p.run /\ p.run <= run /\ (p.run = run => Claim(p.status)')
  <2>1. CASE p \in flying
    <3>1. p.status \in Statuses /\ 0 < p.run /\ p.run <= run /\ (p.run = run => Claim(p.status))
      BY <2>1 DEF KInv, TypeOK, Messages, Projections
    <3> QED
      BY <3>1 DEF Advances
  <2>2. CASE p = [run |-> run, n |-> n, command |-> c, status |-> status']
    <3>1. p.run = run /\ p.status = status' /\ run \in Nat
      BY <2>2 DEF KInv, TypeOK
    <3>2. Claim(p.status)'
      BY <3>1 DEF RunInv, Claim
    <3> QED
      BY <3>1, <3>2
  <2> QED
    BY <1>1, <2>1, <2>2
<1>2. ASSUME NEW q \in marks' PROVE 0 < q /\ q <= run
  BY <1>2 DEF KInv, TypeOK, Messages
<1> QED
  BY <1>1, <1>2 DEF Messages

\* What the row says stays true while only the run moves.
LEMMA RowFrame ==
  ASSUME KInv, RowInv, Advances, UNCHANGED <<row, run>>
  PROVE  RowInv'
BY DEF KInv, TypeOK, RowInv, Advances, Rows

\* Everything but the run's steps, new runs and accepted commands.
Around ==
    \/ StartAgain \/ \E r \in marks : MarkStarted(r)
    \/ \E p \in flying : ApplyProjection(p)
    \/ \E n \in handlers : HandlerEnds(n)
    \/ \E k \in Keys, action \in Actions : SendCommand(k, action)
    \/ \E m \in pending : RefuseCommand(m)
    \/ \E o \in Repairers : Inspect(o) \/ Reconcile(o)
    \/ UNCHANGED vars

\* What happens around the run keeps types.
LEMMA AroundType ==
  ASSUME KInv, Around
  PROVE  TypeOK'
<1>0. TypeOK
  BY DEF KInv
<1>1. CASE StartAgain
  BY <1>0, <1>1 DEF StartAgain, TypeOK, rowVars, stepVars, stateVars, projectVars
<1>2. ASSUME NEW r \in marks, MarkStarted(r) PROVE TypeOK'
  <2>1. r \in Nat /\ "STARTING" \in Statuses
    BY <1>0 DEF TypeOK, Statuses
  <2>2. row' \in Rows
    BY <1>0, <1>2, <2>1 DEF MarkStarted, TypeOK, Rows
  <2> QED
    BY <1>0, <1>2, <2>1, <2>2 DEF MarkStarted, TypeOK, stepVars, stateVars, projectVars
<1>3. ASSUME NEW p \in flying, ApplyProjection(p) PROVE TypeOK'
  <2>1. p \in Projections
    BY <1>0 DEF TypeOK
  <2>2. <<p.run, p.n>> \in Nat \X Nat
    BY <2>1 DEF Projections
  <2>3. row' \in Rows
    <3>1. row.status \in Statuses /\ row.run \in Nat /\ p.status \in Statuses /\ p.run \in Nat
      BY <1>0, <2>1 DEF TypeOK, Rows, Projections
    <3>2. [status |-> IF Ignored(p) THEN row.status ELSE p.status,
           run |-> IF row.run = 0 THEN p.run ELSE row.run] \in Rows
      BY <3>1 DEF Rows
    <3> QED
      BY <1>0, <1>3, <3>2 DEF ApplyProjection, TypeOK
  <2>4. events' \subseteq Nat \X Nat /\ flying' \subseteq Projections
    BY <1>0, <1>3, <2>2 DEF ApplyProjection, TypeOK
  <2> QED
    BY <1>0, <1>3, <2>3, <2>4 DEF ApplyProjection, TypeOK, stepVars, stateVars, callVars
<1>4. ASSUME NEW n \in handlers, HandlerEnds(n) PROVE TypeOK'
  BY <1>0, <1>4 DEF HandlerEnds, TypeOK, rowVars, stepVars, stateVars, callVars
<1>5. ASSUME NEW k \in Keys, NEW action \in Actions, SendCommand(k, action) PROVE TypeOK'
  <2>1. [key |-> k, action |-> action] \in Commands
    BY DEF Commands
  <2> QED
    BY <1>0, <1>5, <2>1 DEF SendCommand, TypeOK, rowVars, stepVars, stateVars, projectVars
<1>6. ASSUME NEW m \in pending, RefuseCommand(m) PROVE TypeOK'
  BY <1>0, <1>6 DEF RefuseCommand, TypeOK, rowVars, stepVars, stateVars, projectVars
<1>7. ASSUME NEW o \in Repairers, Inspect(o) PROVE TypeOK'
  <2>1. Inspections \subseteq Rows
    BY <1>0 DEF Inspections, TypeOK, Rows, Statuses, Terminal
  <2>2. seen' \in [Repairers -> Rows \cup {None}]
    BY <1>0, <1>7, <2>1 DEF Inspect, TypeOK
  <2> QED
    BY <1>0, <1>7, <2>2 DEF Inspect, TypeOK, rowVars, stepVars, stateVars, projectVars
<1>8. ASSUME NEW o \in Repairers, Reconcile(o) PROVE TypeOK'
  <2>1. row' \in Rows /\ seen' \in [Repairers -> Rows \cup {None}]
    BY <1>0, <1>8 DEF Reconcile, TypeOK
  <2> QED
    BY <1>0, <1>8, <2>1 DEF Reconcile, TypeOK, stepVars, stateVars, projectVars
<1>9. CASE UNCHANGED vars
  BY <1>0, <1>9 DEF vars, TypeOK, rowVars, stepVars, stateVars, projectVars, callVars
<1> QED
  BY <1>1, <1>2, <1>3, <1>4, <1>5, <1>6, <1>7, <1>8, <1>9 DEF Around

\* Without repairers the row only repeats what the run has said of itself.
LEMMA AroundRow ==
  ASSUME KInv, RowInv, Around, Repairers = {}
  PROVE  RowInv'
<1>0. /\ TypeOK /\ Messages /\ run \in Nat /\ row \in Rows /\ marks \subseteq Nat
      /\ flying \subseteq Projections
  BY DEF KInv, TypeOK
<1>1. UNCHANGED <<run, closed, pc, stepVars, stateVars>>
  BY DEF Around, StartAgain, MarkStarted, ApplyProjection, HandlerEnds, SendCommand, RefuseCommand,
         vars
<1>2. Advances
  BY <1>1, FrameRunInv
<1>3. CASE row' = row
  BY <1>1, <1>2, <1>3, RowFrame
<1>4. ASSUME NEW r \in marks, MarkStarted(r), row' # row PROVE RowInv'
  <2>1. row' = [status |-> "STARTING", run |-> r] /\ r \in Nat /\ r <= run
    BY <1>0, <1>4 DEF MarkStarted, Messages
  <2>2. r # 0
    BY <1>4, <2>1 DEF KInv, Messages
  <2>3. Claim("STARTING")'
    BY DEF Claim
  <2> QED
    BY <1>1, <2>1, <2>2, <2>3 DEF RowInv
<1>5. ASSUME NEW p \in flying, ApplyProjection(p), row' # row PROVE RowInv'
  <2>1. /\ p.run \in Nat /\ p.status \in Statuses /\ p.run <= run /\ p.run # 0
        /\ p.run = run => Claim(p.status)'
    <3>1. /\ p.run \in Nat /\ p.status \in Statuses /\ p.run <= run /\ 0 < p.run
          /\ p.run = run => Claim(p.status)
      BY <1>0, <1>5 DEF Messages, Projections
    <3> QED
      BY <1>2, <3>1 DEF Advances
  <2> PICK st : st = row.status
    OBVIOUS
  <2>2. /\ row.run \in Nat /\ st \in Statuses /\ row.run <= run
        /\ row.run = run => Claim(st)'
        /\ row.run = 0 => st = "CREATED"
    <3>1. /\ row.run \in Nat /\ st \in Statuses /\ row.run <= run
          /\ row.run = run => Claim(st)
          /\ row.run = 0 => st = "CREATED"
      BY <1>0 DEF RowInv, Rows
    <3> QED
      BY <1>2, <3>1 DEF Advances
  <2>3. row' = [status |-> IF Ignored(p) THEN row.status ELSE p.status,
                run |-> IF row.run = 0 THEN p.run ELSE row.run]
    BY <1>5 DEF ApplyProjection
  <2>4. CASE Ignored(p)
    <3>1. row.run # 0
      BY <2>2, <2>4 DEF Ignored, Terminal
    <3> QED
      BY <1>1, <2>2, <2>3, <2>4, <3>1 DEF RowInv
  <2>5. CASE ~ Ignored(p)
    <3>1. row.run \in {0, p.run}
      BY <2>5 DEF Ignored
    <3>2. row'.run = p.run /\ row'.status = p.status
      BY <2>1, <2>2, <2>3, <2>5, <3>1
    <3> QED
      BY <1>1, <2>1, <3>2 DEF RowInv
  <2> QED
    BY <2>4, <2>5
<1> QED
  BY <1>3, <1>4, <1>5
     DEF Around, StartAgain, HandlerEnds, SendCommand, RefuseCommand, vars, rowVars

-----------------------------------------------------------------------------
\* Every step of the run keeps the invariant.
LEMMA RunSteps ==
  ASSUME KInv, RunStep \/ ApprovalTimeout \/ RunTimesOut
  PROVE  KInv' /\ Advances /\ UNCHANGED <<row, run>>
<1>1. Moves /\ TypeOK' /\ RunInv' /\ Advances
  BY LoopSteps, WaitSteps, WorkSteps, EndSteps DEF RunStep
<1>2. run' = run /\ marks' = marks /\ row' = row
  BY <1>1 DEF Moves, OnlyRunMoves, callVars, rowVars
<1>3. run > 0
  <2>1. closed # "none"
    BY DEF RunStep, Started, Unpaused, NextStep, Announced, ApprovalTimeout, Decided, Drained,
           StepStarts, StepSucceeds, UndoStep, UndoNext, Completed, GiveUp, RunFails, RunTimesOut,
           KInv, RunInv, Shape, Ended, Projecting, Deciding
  <2> QED
    BY <2>1 DEF KInv, TypeOK, RunInv, Shape
<1>4. Messages'
  <2> PICK n : n = seq + 1
    OBVIOUS
  <2>1. flying' \subseteq
          flying \cup {[run |-> run, n |-> n, command |-> FALSE, status |-> status']}
    BY <1>1 DEF Moves, projectVars
  <2> QED
    BY <1>1, <1>2, <1>3, <2>1, MessagesStep
<1> QED
  BY <1>1, <1>2, <1>4 DEF KInv

\* Every step keeps the invariant.
LEMMA KInvStep ==
  ASSUME KInv, [Next]_vars
  PROVE  KInv' /\ (Repairers = {} /\ RowInv => RowInv')
<1>0. run \in Nat /\ seq \in Nat
  BY DEF KInv, TypeOK
<1>1. CASE RunStep \/ ApprovalTimeout \/ RunTimesOut
  BY <1>1, RunSteps, RowFrame
<1>2. CASE Start
  <2>1. 1 > run /\ NewRun(1) /\ pending' = pending
    BY <1>2 DEF Start, KInv, RunInv, Shape
  <2> QED
    BY <2>1, NewRunStep DEF KInv
<1>3. ASSUME NEW m \in pending, RetryRun(m) PROVE KInv' /\ (RowInv => RowInv')
  <2> PICK r : r = run + 1
    OBVIOUS
  <2>1. r \in Nat /\ r > run /\ NewRun(r) /\ pending' \subseteq pending
    BY <1>0, <1>3 DEF RetryRun, NewRun
  <2> QED
    BY <2>1, NewRunStep DEF KInv
<1>4. ASSUME NEW m \in pending, AcceptCommand(m) PROVE KInv' /\ (RowInv => RowInv')
  <2>1. TypeOK' /\ RunInv' /\ Advances
    BY <1>4, AcceptStep
  <2>2. run' = run /\ row' = row /\ marks' = marks
    BY <1>4 DEF AcceptCommand, rowVars
  <2>3. run > 0
    BY <1>0, <1>4 DEF AcceptCommand, KInv, RunInv, Shape
  <2> PICK n : n = seq + 1
    OBVIOUS
  <2>4. flying' \subseteq
          flying \cup {[run |-> run, n |-> n, command |-> TRUE, status |-> status']}
    BY <1>4 DEF AcceptCommand
  <2>5. Messages'
    BY <2>1, <2>2, <2>3, <2>4, MessagesStep
  <2> QED
    BY <2>1, <2>2, <2>5, RowFrame DEF KInv
<1>5. CASE Around
  <2>1. UNCHANGED <<run, closed, pc, stepVars, stateVars>>
        /\ flying' \subseteq flying /\ marks' \subseteq marks \cup {run}
        /\ (marks' \subseteq marks \/ run > 0)
    BY <1>5 DEF Around, StartAgain, MarkStarted, ApplyProjection, HandlerEnds, SendCommand,
                RefuseCommand, Inspect, Reconcile, vars, projectVars, callVars
  <2>2. RunInv' /\ Advances
    BY <2>1, FrameRunInv
  <2>3. Messages'
    <3>1. ASSUME NEW p \in flying'
          PROVE  0 < p.run /\ p.run <= run /\ (p.run = run => Claim(p.status)')
      <4>1. p \in flying /\ p.status \in Statuses
        BY <2>1, <3>1 DEF KInv, TypeOK, Projections
      <4> QED
        BY <2>2, <4>1 DEF KInv, Messages, Advances
    <3>2. \A q \in marks' : 0 < q /\ q <= run
      BY <1>0, <2>1 DEF KInv, Messages
    <3> QED
      BY <2>1, <3>1, <3>2 DEF Messages
  <2> QED
    BY <1>5, <2>2, <2>3, AroundType, AroundRow DEF KInv
<1> QED
  BY <1>1, <1>2, <1>3, <1>4, <1>5 DEF Next, Around

-----------------------------------------------------------------------------
(* The theorems *)

\* The inductive invariant.
LEMMA Invariance == Spec => []KInv
<1>1. Init => KInv
  BY KInvInit
<1>2. KInv /\ [Next]_vars => KInv'
  BY KInvStep
<1> QED
  BY <1>1, <1>2, PTL DEF Spec

\* Every variable keeps to its type, whatever the commands, failures and
\* late projections.
THEOREM KernelTypes == Spec => []TypeOK
<1>1. KInv => TypeOK
  BY DEF KInv
<1> QED
  BY <1>1, Invariance, PTL

\* _wait_for_approval: for any plan, the guarded step runs only in a run that
\* was itself approved.
THEOREM ApprovalGuards == Spec => []GateNeedsApproval
<1>1. KInv => GateNeedsApproval
  <2> SUFFICES ASSUME KInv,
                      (Gate > 0 /\ pc \in {"step_started", "step"} /\ ix >= Gate)
                        \/ Gate \in Range(done)
               PROVE  decision = "APPROVED"
    BY DEF GateNeedsApproval
  <2>1. CASE Gate \in Range(done)
    <3>1. Gate \in 1..Len(done) /\ Len(done) \in Nat
      BY <2>1 DEF Range, KInv, TypeOK, RunInv, Shape
    <3> QED
      BY <3>1, PlanAssumption DEF KInv, RunInv, Guarded
  <2>2. CASE Gate > 0 /\ pc \in {"step_started", "step"} /\ ix >= Gate
    BY <2>2 DEF KInv, RunInv, Guarded
  <2> QED
    BY <2>1, <2>2
<1> QED
  BY <1>1, Invariance, PTL

\* Reverse, by its elements.
LEMMA ReverseOf ==
  ASSUME NEW S, NEW s \in Seq(S), NEW t \in Seq(S), Len(t) = Len(s),
         \A i \in DOMAIN t : t[i] = s[Len(s) - i + 1]
  PROVE  t = Reverse(s)
BY SMTT(30) DEF Reverse

\* _compensate_and_cancel: a run of any length that ends CANCELLED has undone
\* exactly what it had done, last first.
THEOREM Compensation == Spec => []CancelledIsUndone
<1>1. KInv => CancelledIsUndone
  <2> SUFFICES ASSUME KInv, status = "CANCELLED" PROVE undone = Reverse(done)
    BY DEF CancelledIsUndone
  <2>1. /\ done \in Seq(1..N) /\ undone \in Seq(1..N) /\ Len(undone) = Len(done)
        /\ \A i \in DOMAIN undone : undone[i] = done[Len(done) - i + 1]
    BY DEF KInv, TypeOK, RunInv, Undoing, Claim
  <2> QED
    BY <2>1, ReverseOf
<1> QED
  BY <1>1, Invariance, PTL

\* apply_projection_event and mark_workflow_started: as long as nobody repairs
\* the row by hand, what it says of the end of its run is what happened.
THEOREM RowTruth == ASSUME Repairers = {} PROVE Spec => []RowIsTrue
<1>1. Init => KInv /\ RowInv
  BY KInvInit
<1>2. KInv /\ RowInv /\ [Next]_vars => (KInv /\ RowInv)'
  BY KInvStep
<1>3. KInv /\ RowInv => RowIsTrue
  <2> SUFFICES ASSUME KInv, RowInv, row.run = run PROVE RowIsTrue
    BY DEF RowIsTrue
  <2>1. /\ N \in Nat /\ Gate \in 0..N /\ done \in Seq(1..N) /\ undone \in Seq(1..N)
        /\ Claim(row.status)
    BY PlanAssumption DEF KInv, TypeOK, RowInv
  <2>2. row.status = "SUCCEEDED" => done = [i \in 1..N |-> i]
    <3> SUFFICES ASSUME Len(done) = N PROVE done = [i \in 1..N |-> i]
      BY <2>1 DEF Claim
    <3>1. \A i \in 1..N : done[i] = i
      BY SMTT(30), <2>1 DEF KInv, RunInv, Shape
    <3>2. done = [i \in 1..N |-> done[i]]
      BY <2>1
    <3> QED
      BY <3>1, <3>2
  <2>3. row.status = "CANCELLED" => cancel /\ undone = Reverse(done)
    BY <2>1, ReverseOf DEF Claim, KInv, RunInv, Undoing
  <2>4. row.status = "REJECTED" => decision = "REJECTED" /\ Gate \notin Range(done)
    BY <2>1 DEF Claim, KInv, RunInv, Shape, Guarded, Range
  <2>5. row.status = "FAILED" => status = "FAILED"
    BY <2>1 DEF Claim
  <2> QED
    BY <2>2, <2>3, <2>4, <2>5 DEF RowIsTrue
<1> QED
  BY <1>1, <1>2, <1>3, PTL DEF Spec

-----------------------------------------------------------------------------
(* What the row says of a run that nobody has commanded *)

\* Where such a run can be before it ends
Straight == Asking \cup {"starting", "paused", "step_started", "step", "step_done", "succeeding"}

\* It is the first run; every projection is the coroutine's own, which goes on when the one it
\* awaits has landed, so no other can be on its way, and when it has, the row has its status.
Calm ==
    /\ pending = {} /\ run \in {0, 1} /\ ~ cancel /\ decision = "NONE"
    /\ awaits = seq
    /\ \A p \in flying : p.run = 1 /\ p.n <= seq
    /\ \A e \in events : run = 1 /\ e[1] = 1 /\ e[2] <= seq
    /\ events # {} => row.run = 1
    /\ pc \in Straight \cup {"none", "failing", "end"}
    /\ pc \in Asking => status = "WAITING"
    /\ pc \in Straight =>
         /\ \A p \in flying : <<p.run, p.n>> \in events \/ (p.n = awaits /\ p.status = status)
         /\ Landed => row.status = status
         /\ ~ Landed => row.status \notin Terminal
         /\ pc \in {"paused", "wait", "escalated", "step"} => Landed
         /\ pc # "succeeding" => status \notin Terminal

Quiet == used = {} => Calm

\* The coroutine emits the next projection.
LEMMA Emits ==
  ASSUME TypeOK, Calm, pc \in Straight \ {"succeeding"}, Landed, run = 1,
         NEW place \in Straight \ {"paused", "wait", "escalated", "step"}, NEW st, Project(place, st),
         place \in Asking => st = "WAITING", place # "succeeding" => st \notin Terminal,
         UNCHANGED <<events, row, run, decision, cancel, pending>>
  PROVE  Calm'
<1>1. seq \in Nat /\ flying \subseteq Projections
  BY DEF TypeOK
<1>2. /\ pc' = place /\ status' = st /\ seq' = seq + 1 /\ awaits' = seq + 1
      /\ \A p \in flying' : p \in flying \/ (p.run = 1 /\ p.n = seq + 1 /\ p.status = st)
  BY DEF Project
<1>3. \A p \in flying : <<p.run, p.n>> \in events
  <2>1. \A p \in flying : <<p.run, p.n>> \in events \/ p.n = awaits
    BY DEF Calm
  <2>2. \A p \in flying : p.run = run
    BY DEF Calm
  <2>3. QED
    BY <2>1, <2>2 DEF Landed
<1>4. <<run, seq + 1>> \notin events
  <2>1. \A e \in events : e[2] <= seq
    BY DEF Calm
  <2>2. ~ (seq + 1 <= seq)
    BY <1>1
  <2>3. QED
    BY <2>1, <2>2
<1>5. ~ Landed'
  BY <1>2, <1>4 DEF Landed
<1>6. row.status = status /\ status \notin Terminal
  BY DEF Calm
<1>7. /\ \A p \in flying' : p.run = 1 /\ p.n <= seq'
      /\ \A e \in events : run = 1 /\ e[1] = 1 /\ e[2] <= seq'
  <2>1. \A p \in flying : p.n \in Nat /\ p.run = 1 /\ p.n <= seq
    BY <1>1 DEF Calm, Projections
  <2>2. \A e \in events : e[2] \in Nat /\ run = 1 /\ e[1] = 1 /\ e[2] <= seq
    BY DEF Calm, TypeOK
  <2>3. QED
    BY <1>1, <1>2, <2>1, <2>2
<1>8. QED
  BY <1>2, <1>3, <1>5, <1>6, <1>7 DEF Calm

\* The coroutine goes to a place where it awaits no projection.
LEMMA Rests ==
  ASSUME Calm, pc \in Straight \ {"succeeding"}, Landed, pc' \in {"paused", "wait", "escalated", "step"},
         pc' \in Asking => status = "WAITING",
         UNCHANGED <<status, projectVars, events, row, run, decision, cancel, pending>>
  PROVE  Calm'
<1>1. UNCHANGED <<seq, awaits, flying>>
  BY DEF projectVars
<1>2. Landed' /\ pc' \in Straight
  BY <1>1 DEF Landed, Straight, Asking
<1>3. /\ row.status = status
      /\ status \notin Terminal
      /\ \A p \in flying : <<p.run, p.n>> \in events \/ (p.n = awaits /\ p.status = status)
  BY DEF Calm
<1>4. \A p \in flying' : <<p.run, p.n>> \in events' \/ (p.n = awaits' /\ p.status = status')
  BY <1>1, <1>3
<1>5. QED
  BY <1>1, <1>2, <1>3, <1>4 DEF Calm

\* It fails or ends.
LEMMA Leaves ==
  ASSUME TypeOK, Calm, run = 1, pc' \in {"failing", "end"},
         UNCHANGED <<events, row, run, decision, cancel, pending>>,
         \/ UNCHANGED projectVars
         \/ \E st : Project("failing", st)
  PROVE  Calm'
<1>1. seq \in Nat /\ flying \subseteq Projections
  BY DEF TypeOK
<1>2. pc' \notin Straight /\ pc' \notin Asking
  BY DEF Straight, Asking
<1>3. CASE UNCHANGED projectVars
  BY <1>2, <1>3 DEF Calm, projectVars
<1>4. ASSUME NEW st, Project("failing", st)
      PROVE  Calm'
  <2>1. /\ seq' = seq + 1 /\ awaits' = seq + 1
        /\ \A p \in flying' : p \in flying \/ (p.run = 1 /\ p.n = seq + 1)
    BY <1>4 DEF Project
  <2>2. /\ \A p \in flying' : p.run = 1 /\ p.n <= seq'
        /\ \A e \in events : run = 1 /\ e[1] = 1 /\ e[2] <= seq'
    <3>1. \A p \in flying : p.n \in Nat /\ p.run = 1 /\ p.n <= seq
      BY <1>1 DEF Calm, Projections
    <3>2. \A e \in events : e[2] \in Nat /\ run = 1 /\ e[1] = 1 /\ e[2] <= seq
      BY DEF Calm, TypeOK
    <3>3. QED
      BY <1>1, <2>1, <3>1, <3>2
  <2>3. QED
    BY <1>2, <2>1, <2>2 DEF Calm
<1>5. QED
  BY <1>3, <1>4

\* The head of the loop
LEMMA Enters ==
  ASSUME TypeOK, Calm, pc \in {"starting", "paused", "step_done"}, Landed, run = 1, NEW i, EnterStep(i),
         UNCHANGED <<events, row, run, decision, cancel, pending>>
  PROVE  Calm'
<1>1. /\ pc \in Straight \ {"succeeding"}
      /\ {"announce", "step_started", "succeeding"} \subseteq Straight \ {"paused", "wait", "escalated", "step"}
      /\ "step_started" \notin Asking /\ "succeeding" \notin Asking /\ "paused" \notin Asking
      /\ "WAITING" \notin Terminal /\ "RUNNING" \notin Terminal
  BY DEF Straight, Asking, Terminal
<1>2. \/ Project("succeeding", "SUCCEEDED")
      \/ Project("announce", "WAITING")
      \/ Project("step_started", "RUNNING")
      \/ pc' = "paused" /\ NoProjection
  BY DEF EnterStep, Calm
<1>3. CASE pc' = "paused" /\ NoProjection
  BY <1>1, <1>3, Rests DEF NoProjection
<1>4. CASE Project("succeeding", "SUCCEEDED")
  BY <1>1, <1>4, Emits
<1>5. CASE Project("announce", "WAITING")
  BY <1>1, <1>5, Emits
<1>6. CASE Project("step_started", "RUNNING")
  BY <1>1, <1>6, Emits
<1>7. QED
  BY <1>2, <1>3, <1>4, <1>5, <1>6

LEMMA CalmRun ==
  ASSUME KInv, Calm, RunStep \/ ApprovalTimeout \/ RunTimesOut
  PROVE  Calm'
<1>1. TypeOK
  BY DEF KInv
<1>2. UNCHANGED <<events, row, run, decision, cancel, pending>>
  BY DEF RunStep, Started, Unpaused, Announced, Decided, Drained, StepStarts, StepSucceeds, NextStep,
         UndoStep, UndoNext, Completed, GiveUp, RunFails, ApprovalTimeout, RunTimesOut, OnlyRunMoves,
         rowVars, callVars
<1>3. pc \notin {"none", "end"} /\ run = 1
  <2>1. closed # "none" => run # 0
    BY DEF KInv, RunInv, Shape
  <2>2. pc \notin {"none", "end"}
    <3>1. CASE RunTimesOut
      BY <3>1 DEF RunTimesOut, KInv, RunInv, Shape, Ended
    <3>2. CASE RunStep \/ ApprovalTimeout
      BY <3>2 DEF RunStep, Started, Unpaused, Announced, Decided, Drained, StepStarts, StepSucceeds, NextStep,
                  UndoStep, UndoNext, Completed, GiveUp, RunFails, ApprovalTimeout, Projecting, Deciding
    <3>3. QED
      BY <3>1, <3>2
  <2>3. QED
    BY <2>1, <2>2 DEF KInv, RunInv, Shape, Ended, Calm
<1>4. CASE Started
  BY <1>1, <1>2, <1>3, <1>4, Enters DEF Started
<1>5. CASE Unpaused
  <2> PICK i : i = ix
    OBVIOUS
  <2>1. EnterStep(i)
    BY <1>5 DEF Unpaused, EnterStep
  <2>2. Landed
    BY <1>5 DEF Unpaused, Calm, Straight
  <2>3. QED
    BY <1>1, <1>2, <1>3, <1>5, <2>1, <2>2, Enters DEF Unpaused
<1>6. CASE NextStep
  <2> PICK i : i = ix + 1
    OBVIOUS
  <2>1. EnterStep(i)
    BY <1>6 DEF NextStep, EnterStep
  <2>2. QED
    BY <1>1, <1>2, <1>3, <1>6, <2>1, Enters DEF NextStep
<1>7. CASE Announced
  BY <1>2, <1>7, Rests DEF Announced, NoProjection, Calm, Straight, Asking
<1>8. CASE StepStarts
  BY <1>2, <1>8, Rests DEF StepStarts, NoProjection, Straight, Asking
<1>9. CASE ApprovalTimeout
  <2>1. pc \in Straight \ {"succeeding"} /\ Landed /\ status = "WAITING"
    BY <1>9 DEF ApprovalTimeout, Calm, Straight, Asking
  <2> PICK st : st = status
    OBVIOUS
  <2>2. Project("escalating", st) /\ st = "WAITING"
    BY <1>9, <2>1 DEF ApprovalTimeout, Project
  <2>3. "escalating" \in Straight \ {"paused", "wait", "escalated", "step"} /\ "WAITING" \notin Terminal
    BY DEF Straight, Asking, Terminal
  <2>4. QED
    BY <1>1, <1>2, <1>3, <2>1, <2>2, <2>3, Emits
<1>10. CASE StepSucceeds
  <2>1. pc \in Straight \ {"succeeding"} /\ Landed /\ status \notin Terminal
    BY <1>10 DEF StepSucceeds, Calm, Straight
  <2> PICK st : st = status
    OBVIOUS
  <2>2. Project("step_done", st)
    BY <1>10 DEF StepSucceeds, Project
  <2>3. "step_done" \in Straight \ {"paused", "wait", "escalated", "step"} /\ "step_done" \notin Asking
    BY DEF Straight, Asking
  <2>4. QED
    BY <1>1, <1>2, <1>3, <2>1, <2>2, <2>3, Emits
<1>11. CASE GiveUp
  <2>1. pc' = "failing" /\ \E st : Project("failing", st)
    BY <1>11 DEF GiveUp, Project
  <2>2. QED
    BY <1>1, <1>2, <1>3, <2>1, Leaves
<1>12. CASE Completed \/ RunFails \/ RunTimesOut
  <2>1. pc' = "end" /\ UNCHANGED projectVars
    BY <1>12 DEF Completed, RunFails, RunTimesOut, Close, NoProjection
  <2>2. QED
    BY <1>1, <1>2, <1>3, <2>1, Leaves
<1>13. ~ (Decided \/ Drained \/ UndoStep \/ UndoNext)
  BY DEF Decided, Drained, UndoStep, UndoNext, Calm, Straight, Asking
<1>14. QED
  BY <1>4, <1>5, <1>6, <1>7, <1>8, <1>9, <1>10, <1>11, <1>12, <1>13 DEF RunStep

\* A projection is applied, and is the awaited one or has been before.
LEMMA CalmApply ==
  ASSUME KInv, RowInv, Calm, NEW p \in flying, ApplyProjection(p)
  PROVE  Calm'
<1>1. /\ p \in Projections /\ p.run = 1 /\ run = 1 /\ p.n <= seq
      /\ row.run \in {0, 1}
  <2>1. p \in Projections /\ p.run = 1 /\ p.n <= seq /\ p.run <= run /\ run \in {0, 1}
    BY DEF KInv, TypeOK, Messages, Calm
  <2>2. row.run \in Nat /\ row.run <= run
    BY DEF KInv, TypeOK, RowInv, Rows
  <2>3. QED
    BY <2>1, <2>2
<1>2. /\ flying' \subseteq flying /\ events' = events \cup {<<1, p.n>>}
      /\ UNCHANGED <<run, pc, status, cancel, decision, seq, awaits, pending>>
  BY <1>1 DEF ApplyProjection, stateVars, callVars
<1>3. row'.run = 1
  <2>1. CASE <<p.run, p.n>> \in events
    BY <2>1 DEF ApplyProjection, Calm
  <2>2. CASE <<p.run, p.n>> \notin events
    BY <1>1, <2>2 DEF ApplyProjection
  <2>3. QED
    BY <2>1, <2>2
<1>4. /\ \A q \in flying' : q.run = 1 /\ q.n <= seq
      /\ \A e \in events' : run = 1 /\ e[1] = 1 /\ e[2] <= seq
  BY <1>1, <1>2 DEF Calm
<1>5. ASSUME pc \in Straight
      PROVE  /\ \A q \in flying' : <<q.run, q.n>> \in events' \/ (q.n = awaits /\ q.status = status)
             /\ Landed' => row'.status = status
             /\ ~ Landed' => row'.status \notin Terminal
             /\ Landed => Landed'
  <2>1. \A q \in flying' : <<q.run, q.n>> \in events' \/ (q.n = awaits /\ q.status = status)
    BY <1>2, <1>5 DEF Calm
  <2>2. CASE <<p.run, p.n>> \in events
    <3>1. events' = events /\ row' = row
      BY <1>1, <1>2, <2>2 DEF ApplyProjection
    <3>2. QED
      BY <1>2, <1>5, <2>1, <3>1 DEF Calm, Landed
  <2>3. CASE <<p.run, p.n>> \notin events
    <3>1. p.n = awaits /\ p.status = status
      BY <1>5, <2>3 DEF Calm
    <3>2. ~ Landed /\ Landed'
      BY <1>1, <1>2, <2>3, <3>1 DEF Landed
    <3>3. ~ Ignored(p)
      BY <1>1, <1>5, <3>2 DEF Ignored, Calm
    <3>4. row'.status = p.status
      BY <2>3, <3>3 DEF ApplyProjection
    <3>5. QED
      BY <2>1, <3>1, <3>2, <3>4
  <2>4. QED
    BY <2>2, <2>3
<1>6. QED
  BY <1>2, <1>3, <1>4, <1>5 DEF Calm

LEMMA QuietStep ==
  ASSUME KInv, RowInv, Quiet, Repairers = {}, [Next]_vars
  PROVE  Quiet'
<1> SUFFICES ASSUME used' = {} PROVE Calm'
  BY DEF Quiet
<1>1. used = {}
  <2>1. \A k, action : ~ SendCommand(k, action)
    BY DEF SendCommand
  <2>2. UNCHANGED used
    BY <2>1 DEF Next, Start, StartAgain, MarkStarted, NewRun, RunStep, Started, Unpaused, Announced, Decided,
                Drained, StepStarts, StepSucceeds, NextStep, UndoStep, UndoNext, Completed, GiveUp, RunFails,
                ApprovalTimeout, RunTimesOut, OnlyRunMoves, ApplyProjection, HandlerEnds, AcceptCommand,
                RetryRun, RefuseCommand, Inspect, Reconcile, callVars, vars
  <2>3. QED
    BY <2>2
<1>2. Calm
  BY <1>1 DEF Quiet
<1>3. CASE RunStep \/ ApprovalTimeout \/ RunTimesOut
  BY <1>2, <1>3, CalmRun
<1>4. CASE \E p \in flying : ApplyProjection(p)
  BY <1>2, <1>4, CalmApply
<1>5. CASE Start
  <2>1. run = 0 /\ flying = {} /\ events = {}
    <3>1. run = 0
      BY <1>5 DEF Start, KInv, RunInv, Shape
    <3>2. \A p \in flying : p.run \in Nat /\ p.run > 0 /\ p.run <= 0
      BY <3>1 DEF KInv, Messages, TypeOK, Projections
    <3>3. flying = {}
      BY <3>2
    <3>4. events = {}
      BY <1>2, <3>1 DEF Calm
    <3>5. QED
      BY <3>1, <3>3, <3>4
  <2>2. row.status = "CREATED"
    BY <2>1 DEF RowInv, KInv, TypeOK, Rows
  <2> PICK st \in {"PAUSED", "RUNNING"} : st = IF StartPaused THEN "PAUSED" ELSE "RUNNING"
    OBVIOUS
  <2>3. /\ run' = 1 /\ pc' = "starting" /\ status' = st /\ ~ cancel' /\ decision' = "NONE"
        /\ seq' = 1 /\ awaits' = 1 /\ events' = events /\ row' = row /\ pending' = pending
        /\ flying' = flying \cup {[run |-> 1, n |-> 1, command |-> FALSE, status |-> st]}
    BY <1>5 DEF Start, NewRun, rowVars
  <2>4. \A p \in flying' : p.run = 1 /\ p.n = 1 /\ p.status = st
    BY <2>1, <2>3
  <2>5. QED
    BY <1>2, <2>1, <2>2, <2>3, <2>4 DEF Calm, Landed, Straight, Asking, Terminal
<1>6. ASSUME NEW r \in marks, MarkStarted(r)
      PROVE  Calm'
  <2>1. UNCHANGED <<run, pc, status, cancel, decision, seq, awaits, flying, events, pending>>
    BY <1>6 DEF MarkStarted, stateVars, projectVars
  <2>2. CASE row' = row
    BY <1>2, <2>1, <2>2 DEF Calm, Landed
  <2>3. CASE row' = [status |-> "STARTING", run |-> r] /\ row.run # r
    <3>1. r = 1 /\ events = {}
      BY <1>2, <2>3 DEF Calm, KInv, Messages, TypeOK
    <3>2. "STARTING" \notin Terminal /\ ~ Landed /\ ~ Landed'
      BY <2>1, <3>1 DEF Terminal, Landed
    <3>3. QED
      BY <1>2, <2>1, <2>3, <3>1, <3>2 DEF Calm
  <2>4. QED
    BY <1>6, <2>2, <2>3 DEF MarkStarted
<1>7. CASE StartAgain \/ (\E n \in handlers : HandlerEnds(n)) \/ UNCHANGED vars
  <2>1. UNCHANGED <<run, pc, status, cancel, decision, seq, awaits, flying, events, row, pending>>
    BY <1>7 DEF StartAgain, HandlerEnds, vars, rowVars, stateVars, projectVars, callVars
  <2>2. QED
    BY <1>2, <2>1 DEF Calm, Landed
<1>8. /\ \A k, action : ~ SendCommand(k, action)
      /\ pending = {}
  BY <1>2 DEF SendCommand, Calm
<1>9. QED
  BY <1>3, <1>4, <1>5, <1>6, <1>7, <1>8 DEF Next

\* apply_projection_event and the workflow's projections: as long as nobody repairs the row by
\* hand it tells the truth of its run's end, and while a run that was sent no command waits for
\* a decision, the row says WAITING, for any plan, however often projections are replayed.
THEOREM RowFits == ASSUME Repairers = {} PROVE Spec => []KernelRowFits
<1>1. Init => KInv /\ RowInv /\ Quiet
  <2>1. Init => Quiet
    BY DEF Init, Quiet, Calm, Straight, Asking
  <2>2. QED
    BY <2>1, KInvInit
<1>2. KInv /\ RowInv /\ Quiet /\ [Next]_vars => (KInv /\ RowInv /\ Quiet)'
  BY KInvStep, QuietStep
<1>3. KInv /\ Quiet => RowSaysWaiting
  BY DEF Quiet, Calm, RowSaysWaiting, Deciding, Straight, Asking
<1>4. Spec => [](KInv /\ RowInv /\ Quiet)
  BY <1>1, <1>2, PTL DEF Spec
<1>5. KInv => TypeOK
  BY DEF KInv
<1>6. QED
  BY <1>3, <1>4, <1>5, RowTruth, PTL DEF KernelRowFits

\* apply_projection_event, mark_workflow_started: whatever arrives, only a
\* repair changes the terminal status of the run that the row follows.
THEOREM Finality == Spec => TerminalIsFinal
<1>1. ASSUME KInv, [Next]_vars, row.status \in Terminal, row'.run = row.run
      PROVE  row'.status = row.status \/ \E o \in Repairers : Reconcile(o)
  <2>1. CASE row' = row
    BY <2>1
  <2>2. CASE \E o \in Repairers : Reconcile(o)
    BY <2>2
  <2>3. ASSUME NEW r \in marks, MarkStarted(r), row' # row PROVE row'.run # row.run
    BY <2>3 DEF MarkStarted
  <2>4. ASSUME NEW p \in flying, ApplyProjection(p), row' # row
        PROVE  row'.status = row.status
    BY <1>1, <2>4 DEF ApplyProjection, Ignored
  <2>5. CASE Start
    BY <2>5 DEF Start, NewRun, rowVars
  <2>6. ASSUME NEW m \in pending, AcceptCommand(m) \/ RetryRun(m) \/ RefuseCommand(m)
        PROVE  row' = row
    BY <2>6 DEF AcceptCommand, RetryRun, RefuseCommand, NewRun, rowVars
  <2>7. CASE RunStep \/ ApprovalTimeout \/ RunTimesOut
    BY <1>1, <2>7, RunSteps
  <2> QED
    BY <1>1, <2>1, <2>2, <2>3, <2>4, <2>5, <2>6, <2>7
       DEF Next, StartAgain, HandlerEnds, SendCommand, Inspect, vars, rowVars
<1> QED
  BY <1>1, Invariance, PTL DEF Spec, TerminalIsFinal

\* apply_projection_event: STALE_RUN.  A row that follows a newer run does not
\* move when an event of an older one is recorded.
THEOREM Isolation == Spec => OldRunsAreIsolated
<1>1. ASSUME KInv, [Next]_vars, \A e \in events' \ events : e[1] < row.run, events' # events
      PROVE  row' = row
  <2>1. PICK p \in flying : ApplyProjection(p)
    <3>1. ~ (RunStep \/ ApprovalTimeout \/ RunTimesOut)
      <4>1. RunStep \/ ApprovalTimeout \/ RunTimesOut => Moves
        BY <1>1, LoopSteps, WaitSteps, WorkSteps, EndSteps DEF RunStep
      <4> QED
        BY <1>1, <4>1 DEF Moves, OnlyRunMoves, rowVars
    <3> QED
      BY <1>1, <3>1
         DEF Next, Start, NewRun, StartAgain, MarkStarted, HandlerEnds, SendCommand, AcceptCommand,
             RetryRun, RefuseCommand, Inspect, Reconcile, vars, rowVars
  <2>2. p \in Projections /\ row \in Rows
    BY <1>1, <2>1 DEF KInv, TypeOK
  <2>3. <<p.run, p.n>> \notin events /\ p.run < row.run
    BY <1>1, <2>1 DEF ApplyProjection
  <2>4. row.run \notin {0, p.run}
    BY <2>2, <2>3 DEF Rows, Projections
  <2>5. row' = [status |-> row.status, run |-> row.run]
    BY <2>1, <2>3, <2>4 DEF ApplyProjection, Ignored
  <2> QED
    BY <2>2, <2>5 DEF Rows
<1> QED
  BY <1>1, Invariance, PTL DEF Spec, OldRunsAreIsolated

\* _run: no step begins once a cancellation is accepted, at whichever await.
THEOREM CancelIsHeeded == Spec => CancelStopsSteps
<1>1. ASSUME KInv, [Next]_vars, cancel, run' = run, pc' = "step_started"
      PROVE  pc = "step_started"
  <2>1. CASE RunStep
    BY <1>1, <2>1 DEF RunStep, Started, Unpaused, NextStep, EnterStep, Announced, Decided, Drained,
       StepStarts, StepSucceeds, UndoStep, UndoNext, Completed, GiveUp, RunFails, Close, Project,
       NoProjection
  <2>2. CASE ApprovalTimeout \/ RunTimesOut
    BY <1>1, <2>2 DEF ApprovalTimeout, RunTimesOut, Close, Project
  <2>3. ~ Start /\ \A m \in pending : ~ RetryRun(m)
    BY <1>1 DEF Start, RetryRun, NewRun
  <2> QED
    BY <1>1, <2>1, <2>2, <2>3 DEF Next, StartAgain, MarkStarted, ApplyProjection, HandlerEnds,
       SendCommand, AcceptCommand, RefuseCommand, Inspect, Reconcile, vars
<1> QED
  BY <1>1, Invariance, PTL DEF Spec, CancelStopsSteps

\* _wait_while_paused: a paused run begins no step, unless an approval takes
\* it out of its pause.
THEOREM PauseIsHeeded == Spec => PauseHolds
<1>1. ASSUME KInv, [Next]_vars, status = "PAUSED", run' = run, pc' = "step_started"
      PROVE  pc = "step_started" \/ pc \in Deciding
  <2>1. CASE RunStep
    BY <1>1, <2>1 DEF RunStep, Started, Unpaused, NextStep, EnterStep, Announced, Decided, Drained,
       StepStarts, StepSucceeds, UndoStep, UndoNext, Completed, GiveUp, RunFails, Close, Project,
       NoProjection
  <2>2. CASE ApprovalTimeout \/ RunTimesOut
    BY <1>1, <2>2 DEF ApprovalTimeout, RunTimesOut, Close, Project
  <2>3. ~ Start /\ \A m \in pending : ~ RetryRun(m)
    BY <1>1 DEF Start, RetryRun, NewRun
  <2> QED
    BY <1>1, <2>1, <2>2, <2>3 DEF Next, StartAgain, MarkStarted, ApplyProjection, HandlerEnds,
       SendCommand, AcceptCommand, RefuseCommand, Inspect, Reconcile, vars
<1> QED
  BY <1>1, Invariance, PTL DEF Spec, PauseHolds
=============================================================================
