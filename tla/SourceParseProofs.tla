-------------------------- MODULE SourceParseProofs --------------------------
(***************************************************************************)
(* Theorems about SourceParse, for any number of jobs, attempts and        *)
(* requests, and any excerpts.                                             *)
(***************************************************************************)
EXTENDS SourceParse, FiniteSetTheorems, TLAPS

\* A result is what its job's status says, and a usable one was scanned clean.
ResultsFit ==
    \A j \in JobIds :
        /\ job[j].result # None => job[j].status = job[j].result.status
        /\ job[j].status \in Usable => job[j].result # None /\ job[j].scan = "CLEAN"

\* The version names its newest job, and shows one that is usable.
Shown ==
    /\ version.latest = jobs /\ version.active <= jobs
    /\ version.active # 0 => job[version.active].status \in Usable
    /\ version.status = "PARSING" => version.active = 0

\* A job whose start is owed, or that does not exist yet, has no run.
RunsBegin ==
    \A j \in JobIds :
        /\ run[j].n = 0 <=> run[j].at = "none"
        /\ <<"start", j>> \in calls => j <= jobs
        /\ j > jobs \/ <<"start", j>> \in calls => run[j].n = 0

\* The inductive invariant
IInv ==
    /\ TypeOK /\ ResultsFit /\ Shown /\ RunsBegin
    /\ ParsingHasLiveJob /\ LiveJobHasRun

-----------------------------------------------------------------------------
LEMMA InvInit == Init => IInv
<1> SUFFICES ASSUME Init PROVE IInv
  OBVIOUS
<1>1. 1 \in JobIds /\ JobIds \subseteq Nat
  BY BoundAssumption DEF JobIds
<1>2. NoJob \in Jobs /\ Queued \in Jobs /\ Queued.status = "QUEUED" /\ NoJob.status = "none"
      /\ Queued.result = None /\ NoJob.result = None
  BY DEF NoJob, Queued, Jobs, Live
<1>3. TypeOK
  <2>1. version \in Versions /\ jobs \in JobIds /\ archived \in BOOLEAN /\ invalidated \in BOOLEAN
    BY <1>1 DEF Init, Versions
  <2>2. job \in [JobIds -> Jobs]
    BY <1>2 DEF Init
  <2>3. anchor \in [JobIds -> [Excerpts -> Anchors]]
    BY DEF Init, Anchors
  <2>4. run \in [JobIds -> Runs]
    BY DEF Init, Runs
  <2>5. /\ retries \in 0..MaxRequests /\ attempts \subseteq Attempts
        /\ calls \subseteq {"start", "retry", "cancel"} \X JobIds
    BY <1>1, BoundAssumption DEF Init
  <2>6. QED
    BY <2>1, <2>2, <2>3, <2>4, <2>5 DEF TypeOK
<1>4. ResultsFit
  BY <1>2 DEF Init, ResultsFit, Usable
<1>5. Shown
  BY DEF Init, Shown
<1>6. RunsBegin
  BY <1>1 DEF Init, RunsBegin
<1>7. ParsingHasLiveJob /\ LiveJobHasRun
  BY <1>1, <1>2 DEF Init, ParsingHasLiveJob, LiveJobHasRun, Live
<1>8. QED
  BY <1>3, <1>4, <1>5, <1>6, <1>7 DEF IInv

\* What leaves the jobs and the version alone keeps what is said of them.
LEMMA SameRows ==
    ASSUME IInv, UNCHANGED <<version, jobs, job>>, invalidated => invalidated'
    PROVE  ResultsFit' /\ Shown' /\ ParsingHasLiveJob'
  BY DEF IInv, ResultsFit, Shown, ParsingHasLiveJob

\* What leaves the runs alone and forgets no call keeps live jobs looked after.
LEMMA SameRuns ==
    ASSUME IInv, UNCHANGED <<run, calls>>, jobs' = jobs,
           \A j \in JobIds : job'[j].status \in Live => job[j].status \in Live
    PROVE  RunsBegin' /\ LiveJobHasRun'
  BY DEF IInv, RunsBegin, LiveJobHasRun

\* One job's row is replaced by another.
LEMMA OneJob ==
    ASSUME TypeOK, NEW j \in JobIds, NEW e \in Jobs, job' = [job EXCEPT ![j] = e]
    PROVE  /\ job' \in [JobIds -> Jobs] /\ job'[j] = e
           /\ \A k \in JobIds : k # j => job'[k] = job[k]
  BY DEF TypeOK

\* A report moves the run of its attempt or no run.
LEMMA ReportMoves ==
    ASSUME TypeOK, NEW a \in Attempts, NEW act \in Activities \cup {"failing"},
           NEW next \in Activities \cup {"failing", "completed", "failed"},
           NEW code \in Codes \cup {"none"}, Reported(a, act, next, code)
    PROVE  /\ run' \in [JobIds -> Runs]
           /\ \A j \in JobIds : \/ run'[j] = run[j]
                                \/ /\ j = a.job /\ run[j].at = act
                                   /\ run'[j].at = next /\ run'[j].n = run[j].n
<1>1. CASE UNCHANGED run
  BY <1>1 DEF TypeOK
<1>2. CASE run[a.job].at = act /\ run' = [run EXCEPT ![a.job].at = next, ![a.job].code = code]
  <2> DEFINE e == [run[a.job] EXCEPT !.at = next, !.code = code]
  <2>1. a.job \in JobIds /\ run[a.job] \in Runs /\ run \in [JobIds -> Runs]
    BY DEF Attempts, TypeOK
  <2>2. e \in Runs /\ e.at = next /\ e.n = run[a.job].n
    BY <2>1 DEF Runs
  <2>3. run' = [run EXCEPT ![a.job] = e]
    BY <1>2, <2>1
  <2> HIDE DEF e
  <2>4. QED
    BY <1>2, <2>1, <2>2, <2>3
<1>3. QED
  BY <1>1, <1>2 DEF Reported

\* A run that moves on while its job is live, or ends with it, is looked after.
LEMMA ReportKeeps ==
    ASSUME IInv, NEW k \in JobIds, UNCHANGED <<calls, jobs>>,
           NEW act \in Activities \cup {"failing"},
           NEW next \in Activities \cup {"failing", "completed", "failed"},
           \A j \in JobIds : \/ run'[j] = run[j]
                             \/ /\ j = k /\ run[j].at = act
                                /\ run'[j].at = next /\ run'[j].n = run[j].n,
           \A j \in JobIds : job'[j].status \in Live => job[j].status \in Live,
           next \in {"completed", "failed"} => job'[k].status \notin Live
    PROVE  RunsBegin' /\ LiveJobHasRun'
<1>1. RunsBegin'
  <2>1. act # "none" /\ next # "none"
    BY DEF Activities
  <2>2. QED
    BY <2>1 DEF IInv, RunsBegin
<1>2. LiveJobHasRun'
  <2> SUFFICES ASSUME NEW j \in JobIds, job'[j].status \in Live
               PROVE  \/ {<<"start", j>>, <<"retry", j>>} \cap calls # {}
                      \/ run'[j].at \in Activities \cup {"failing", "lost"}
    BY DEF LiveJobHasRun
  <2>1. \/ {<<"start", j>>, <<"retry", j>>} \cap calls # {}
        \/ run[j].at \in Activities \cup {"failing", "lost"}
    BY DEF IInv, LiveJobHasRun
  <2>2. QED
    BY <2>1
<1>3. QED
  BY <1>1, <1>2

-----------------------------------------------------------------------------
(* What users do *)

LEMMA RoomToAsk == ASSUME TypeOK, MoreRequests PROVE retries < MaxRequests
<1>1. IsFiniteSet(JobIds)
  BY FS_Interval, BoundAssumption DEF JobIds
<1>2. IsFiniteSet(Canceled)
  BY <1>1, FS_Subset DEF Canceled
<1>3. IsFiniteSet({"superseded", "invalidated", "archived"})
  <2>1. IsFiniteSet(({} \cup {"superseded"}) \cup {"invalidated"})
    BY FS_EmptySet, FS_AddElement
  <2>2. IsFiniteSet((({} \cup {"superseded"}) \cup {"invalidated"}) \cup {"archived"})
    BY <2>1, FS_AddElement
  <2>3. QED
    BY <2>2, Zenon
<1>4. IsFiniteSet(Happened)
  BY <1>3, FS_Subset DEF Happened
<1>5. Cardinality(Canceled) \in Nat /\ Cardinality(Happened) \in Nat
  BY <1>2, <1>4, FS_CardinalityType
<1>6. jobs \in Nat /\ jobs >= 1 /\ retries \in Nat
  BY DEF TypeOK, JobIds
<1>7. QED
  BY <1>5, <1>6, BoundAssumption DEF MoreRequests

LEMMA UserStep == ASSUME IInv, UserNext PROVE IInv'
<1> USE DEF sourceVars, parseVars, runVars
<1>1. CASE Supersede
  <2>1. version' = [version EXCEPT !.status = "SUPERSEDED"] /\ version \in Versions
    BY <1>1 DEF Supersede, IInv, TypeOK
  <2>2. TypeOK'
    BY <1>1, <2>1 DEF IInv, TypeOK, Supersede, Versions
  <2>3. ResultsFit' /\ Shown' /\ ParsingHasLiveJob'
    BY <1>1, <2>1 DEF IInv, Supersede, ResultsFit, Shown, ParsingHasLiveJob, Versions
  <2>4. QED
    BY <1>1, <2>2, <2>3, SameRuns DEF IInv, Supersede
<1>2. CASE Reparse
  <2> DEFINE j == jobs + 1
  <2>1. /\ j \in JobIds /\ jobs' = j /\ job' = [job EXCEPT ![j] = Queued]
        /\ calls' = calls \cup {<<"start", j>>} /\ jobs \in JobIds /\ jobs \in Nat
    BY <1>2, BoundAssumption DEF Reparse, IInv, TypeOK, JobIds
  <2>2. Queued \in Jobs /\ Queued.status = "QUEUED" /\ Queued.result = None
    BY DEF Queued, NoJob, Jobs, Live
  <2>3. /\ job' \in [JobIds -> Jobs] /\ job'[j] = Queued
        /\ \A k \in JobIds : k # j => job'[k] = job[k]
    BY <2>1, <2>2, OneJob DEF IInv
  <2>4. /\ version' \in Versions /\ version'.latest = j /\ version'.active = version.active
        /\ version'.status = ShownWhileParsing
    BY <1>2, <2>1 DEF Reparse, IInv, TypeOK, Versions, ShownWhileParsing
  <2>5. TypeOK'
    BY <1>2, <2>1, <2>3, <2>4 DEF IInv, TypeOK, Reparse
  <2>6. ResultsFit'
    BY <2>2, <2>3 DEF IInv, ResultsFit, Usable
  <2>7. Shown'
    <3>1. version.active <= jobs /\ version.active \in Nat /\ version.active # j
      BY <2>1 DEF IInv, Shown, TypeOK, Versions, JobIds
    <3>2. version.active # 0 => version.active \in JobIds
      BY DEF IInv, TypeOK, Versions
    <3>3. QED
      BY <2>1, <2>3, <2>4, <3>1, <3>2 DEF IInv, Shown, ShownWhileParsing
  <2>8. RunsBegin'
    <3>1. \A k \in JobIds : <<"start", k>> \in calls' => k = j \/ <<"start", k>> \in calls
      BY <2>1
    <3>2. run' = run
      BY <1>2 DEF Reparse
    <3>3. j > jobs
      BY <2>1
    <3>4. run[j].n = 0
      BY <2>1, <3>3 DEF IInv, RunsBegin
    <3>5. \A k \in JobIds : (k > j => k > jobs) /\ (k <= jobs => k <= j)
      BY <2>1 DEF JobIds
    <3> HIDE DEF j
    <3>6. \A k \in JobIds : <<"start", k>> \in calls' => k <= j
      BY <2>1, <3>1, <3>5 DEF IInv, RunsBegin, JobIds
    <3>7. \A k \in JobIds : (k > j \/ <<"start", k>> \in calls') => run[k].n = 0
      BY <3>1, <3>4, <3>5 DEF IInv, RunsBegin
    <3>8. QED
      BY <2>1, <3>2, <3>6, <3>7 DEF IInv, RunsBegin
  <2>9. ParsingHasLiveJob'
    BY <2>2, <2>3, <2>4 DEF ParsingHasLiveJob, Live
  <2>10. LiveJobHasRun'
    BY <1>2, <2>1, <2>3 DEF IInv, LiveJobHasRun, Reparse
  <2>11. QED
    BY <2>5, <2>6, <2>7, <2>8, <2>9, <2>10 DEF IInv
<1>3. ASSUME NEW j \in JobIds, PrepareRetry(j) PROVE IInv'
  <2>1. PICK e \in Jobs : /\ job' = [job EXCEPT ![j] = e] /\ e.status = "QUEUED"
                          /\ e.result = None
    <3> DEFINE e == [job[j] EXCEPT !.status = "QUEUED", !.code = "none",
                        !.scan = IF @ \in {"FAILED", "INFECTED"} THEN "PENDING" ELSE @]
    <3>1. job[j] \in Jobs /\ job[j].result = None /\ job \in [JobIds -> Jobs]
      BY <1>3 DEF IInv, TypeOK, PrepareRetry
    <3>2. e \in Jobs /\ e.status = "QUEUED" /\ e.result = None
      BY <3>1 DEF Jobs, Live
    <3>3. job' = [job EXCEPT ![j] = e]
      BY <1>3, <3>1 DEF PrepareRetry
    <3>4. QED
      BY <3>2, <3>3
  <2>2. /\ job' \in [JobIds -> Jobs] /\ job'[j] = e
        /\ \A k \in JobIds : k # j => job'[k] = job[k]
    BY <2>1, OneJob DEF IInv
  <2>3. retries' \in 0..MaxRequests
    BY <1>3, RoomToAsk, BoundAssumption DEF IInv, TypeOK, PrepareRetry
  <2>4. TypeOK'
    BY <1>3, <2>2, <2>3 DEF IInv, TypeOK, PrepareRetry
  <2>5. ResultsFit'
    BY <2>1, <2>2 DEF IInv, ResultsFit, Usable
  <2>6. Shown'
    BY <1>3, <2>2 DEF IInv, Shown, PrepareRetry, Usable, TypeOK, Versions
  <2>7. RunsBegin'
    BY <1>3 DEF IInv, RunsBegin, PrepareRetry
  <2>8. ParsingHasLiveJob'
    BY <1>3, <2>1, <2>2 DEF IInv, TypeOK, Shown, ParsingHasLiveJob, PrepareRetry, Live
  <2>9. LiveJobHasRun'
    BY <1>3, <2>2 DEF IInv, LiveJobHasRun, PrepareRetry
  <2>10. QED
    BY <2>4, <2>5, <2>6, <2>7, <2>8, <2>9 DEF IInv
<1>4. ASSUME NEW j \in JobIds, CancelJob(j) PROVE IInv'
  <2>1. PICK e \in Jobs : /\ job' = [job EXCEPT ![j] = e] /\ e.status = "CANCELED"
                          /\ e.result = None
    <3> DEFINE e == [job[j] EXCEPT !.status = "CANCELED", !.code = "CANCELED"]
    <3>1. job[j] \in Jobs /\ job \in [JobIds -> Jobs] /\ job[j].status \in Live
      BY <1>4 DEF IInv, TypeOK, CancelJob
    <3>2. job[j].result = None
      BY <3>1 DEF IInv, ResultsFit, Jobs, Manifests, Live, Usable
    <3>3. e \in Jobs /\ e.status = "CANCELED" /\ e.result = None
      BY <3>1, <3>2 DEF Jobs, Ended
    <3>4. job' = [job EXCEPT ![j] = e]
      BY <1>4, <3>1 DEF CancelJob
    <3>5. QED
      BY <3>3, <3>4
  <2>2. /\ job' \in [JobIds -> Jobs] /\ job'[j] = e
        /\ \A k \in JobIds : k # j => job'[k] = job[k]
    BY <2>1, OneJob DEF IInv
  <2>3. /\ version' \in Versions /\ version'.latest = version.latest
        /\ version'.active = version.active
        /\ version'.status \in {version.status, "STORED"}
        /\ version'.status = "PARSING" => version.latest # j \/ version.active # 0
    BY <1>4 DEF CancelJob, IInv, TypeOK, Versions
  <2>4. TypeOK'
    BY <1>4, <2>2, <2>3 DEF IInv, TypeOK, CancelJob
  <2>5. ResultsFit'
    BY <2>1, <2>2 DEF IInv, ResultsFit, Usable
  <2>6. Shown'
    BY <1>4, <2>2, <2>3 DEF IInv, Shown, CancelJob, Usable, Live, TypeOK, Versions
  <2>7. RunsBegin'
    BY <1>4 DEF IInv, RunsBegin, CancelJob
  <2>8. ParsingHasLiveJob'
    BY <1>4, <2>2, <2>3 DEF IInv, TypeOK, Shown, ParsingHasLiveJob, CancelJob
  <2>9. LiveJobHasRun'
    BY <1>4, <2>1, <2>2 DEF IInv, LiveJobHasRun, CancelJob, Live
  <2>10. QED
    BY <2>4, <2>5, <2>6, <2>7, <2>8, <2>9 DEF IInv
<1>5. CASE InvalidateVersion
  <2>1. anchor' \in [JobIds -> [Excerpts -> Anchors]]
    BY <1>5 DEF InvalidateVersion, Anchors
  <2>2. TypeOK'
    BY <1>5, <2>1 DEF IInv, TypeOK, InvalidateVersion
  <2>3. QED
    BY <1>5, <2>2, SameRows, SameRuns DEF IInv, InvalidateVersion
<1>6. CASE ArchiveSource
  <2>1. TypeOK'
    BY <1>6 DEF IInv, TypeOK, ArchiveSource
  <2>2. QED
    BY <1>6, <2>1, SameRows, SameRuns DEF IInv, ArchiveSource
<1>7. QED
  BY <1>1, <1>2, <1>3, <1>4, <1>5, <1>6 DEF UserNext

-----------------------------------------------------------------------------
(* Temporal *)

LEMMA NewRunIs ==
    ASSUME TypeOK, NEW j \in JobIds, run' = [run EXCEPT ![j] = NewRun(j)]
    PROVE  /\ run' \in [JobIds -> Runs] /\ run'[j].at = "verify" /\ run'[j].n # 0
           /\ \A k \in JobIds : k # j => run'[k] = run[k]
<1>1. run[j].n \in Nat /\ run \in [JobIds -> Runs]
  BY DEF TypeOK, Runs
<1>2. NewRun(j) \in Runs /\ NewRun(j).at = "verify" /\ NewRun(j).n = run[j].n + 1
  BY <1>1 DEF NewRun, Runs, Activities
<1>3. QED
  BY <1>1, <1>2

LEMMA TemporalStep ==
    ASSUME IInv, NEW j \in JobIds,
           StartRun(j) \/ RetryRun(j) \/ CancelRun(j) \/ Schedule(j) \/ GiveUp(j)
    PROVE  IInv'
<1> USE DEF sourceVars, parseVars
<1>1. ResultsFit' /\ Shown' /\ ParsingHasLiveJob'
  BY SameRows DEF StartRun, RetryRun, CancelRun, Schedule, GiveUp
<1>2. CASE StartRun(j)
  <2>1. \/ run[j].n = 0 /\ run' = [run EXCEPT ![j] = NewRun(j)]
        \/ run[j].n # 0 /\ run' = run
    BY <1>2 DEF StartRun
  <2>2. run[j].n = 0 /\ run' = [run EXCEPT ![j] = NewRun(j)]
    BY <1>2, <2>1 DEF StartRun, IInv, RunsBegin
  <2>3. /\ run' \in [JobIds -> Runs] /\ run'[j].at = "verify" /\ run'[j].n # 0
        /\ \A k \in JobIds : k # j => run'[k] = run[k]
    BY <2>2, NewRunIs DEF IInv
  <2>4. calls' = calls \ {<<"start", j>>} /\ <<"start", j>> \in calls
    BY <1>2 DEF StartRun
  <2>5. TypeOK'
    BY <1>2, <2>3, <2>4 DEF IInv, TypeOK, StartRun
  <2>6. RunsBegin'
    <3>1. j <= jobs /\ jobs' = jobs /\ j \in Nat /\ jobs \in Nat
      BY <1>2, <2>4 DEF IInv, RunsBegin, StartRun, TypeOK, JobIds
    <3>2. \A k \in JobIds : k # j =>
              /\ run[k].n = 0 <=> run[k].at = "none"
              /\ k > jobs \/ <<"start", k>> \in calls => run[k].n = 0
      BY DEF IInv, RunsBegin
    <3>3. \A k \in JobIds : <<"start", k>> \in calls' => k <= jobs /\ k # j /\ <<"start", k>> \in calls
      BY <2>4 DEF IInv, RunsBegin
    <3>4. ~(j > jobs) /\ <<"start", j>> \notin calls'
      BY <2>4, <3>1
    <3>5. /\ run'[j].n = 0 <=> run'[j].at = "none"
          /\ j > jobs \/ <<"start", j>> \in calls' => run'[j].n = 0
      BY <2>3, <3>4
    <3>6. \A k \in JobIds : k # j =>
              /\ run'[k].n = 0 <=> run'[k].at = "none"
              /\ k > jobs \/ <<"start", k>> \in calls' => run'[k].n = 0
      BY <2>3, <3>2, <3>3
    <3>7. QED
      BY <3>1, <3>3, <3>5, <3>6 DEF RunsBegin
  <2>7. LiveJobHasRun'
    <3>1. \A k \in JobIds : k # j =>
              ({<<"start", k>>, <<"retry", k>>} \cap calls # {}
                  => {<<"start", k>>, <<"retry", k>>} \cap calls' # {})
      BY <2>4
    <3>2. QED
      BY <1>2, <2>3, <3>1 DEF IInv, LiveJobHasRun, StartRun, Activities
  <2>8. QED
    BY <1>1, <2>5, <2>6, <2>7 DEF IInv
<1>3. CASE RetryRun(j)
  <2>1. run[j].at \in {"failed", "lost"} /\ run' = [run EXCEPT ![j] = NewRun(j)]
    BY <1>3 DEF RetryRun
  <2>2. /\ run' \in [JobIds -> Runs] /\ run'[j].at = "verify" /\ run'[j].n # 0
        /\ \A k \in JobIds : k # j => run'[k] = run[k]
    BY <2>1, NewRunIs DEF IInv
  <2>3. calls' = calls \ {<<"retry", j>>} /\ jobs' = jobs
    BY <1>3 DEF RetryRun
  <2>4. TypeOK'
    BY <1>3, <2>2, <2>3 DEF IInv, TypeOK, RetryRun
  <2>5. RunsBegin'
    <3>1. run[j].n # 0 /\ ~(j > jobs) /\ <<"start", j>> \notin calls
      BY <2>1 DEF IInv, RunsBegin
    <3>2. QED
      BY <2>2, <2>3, <3>1 DEF IInv, RunsBegin
  <2>6. LiveJobHasRun'
    <3>1. \A k \in JobIds : k # j =>
              ({<<"start", k>>, <<"retry", k>>} \cap calls # {}
                  => {<<"start", k>>, <<"retry", k>>} \cap calls' # {})
      BY <2>3
    <3>2. QED
      BY <1>3, <2>2, <3>1 DEF IInv, LiveJobHasRun, RetryRun, Activities
  <2>7. QED
    BY <1>1, <2>4, <2>5, <2>6 DEF IInv
<1>4. CASE CancelRun(j) \/ GiveUp(j)
  <2>1. /\ run' \in [JobIds -> Runs]
        /\ \A k \in JobIds :
              \/ run'[k] = run[k]
              \/ /\ k = j /\ run[j].at \in Activities \cup {"failing"}
                 /\ run'[j].at \in {"failing", "lost"} /\ run'[j].n = run[j].n
    <3>1. run \in [JobIds -> Runs] /\ run[j] \in Runs
      BY DEF IInv, TypeOK
    <3> DEFINE f == [run[j] EXCEPT !.at = "failing", !.code = "TRANSIENT"]
               l == [run[j] EXCEPT !.at = "lost", !.code = "none"]
    <3>2. \/ run' = run
          \/ run[j].at \in Activities /\ run' = [run EXCEPT ![j] = f]
          \/ run[j].at = "failing" /\ run' = [run EXCEPT ![j] = l]
      BY <1>4, <3>1 DEF CancelRun, GiveUp
    <3>3. /\ f \in Runs /\ f.at = "failing" /\ f.n = run[j].n
          /\ l \in Runs /\ l.at = "lost" /\ l.n = run[j].n
      BY <3>1 DEF Runs, Codes
    <3> HIDE DEF f, l
    <3>4. QED
      BY <3>1, <3>2, <3>3
  <2>2. calls' \in {calls, calls \ {<<"cancel", j>>}} /\ jobs' = jobs
    BY <1>4 DEF CancelRun, GiveUp
  <2>3. TypeOK'
    BY <1>4, <2>1, <2>2 DEF IInv, TypeOK, CancelRun, GiveUp
  <2>4. \A k \in JobIds : /\ <<"start", k>> \in calls' <=> <<"start", k>> \in calls
                          /\ <<"retry", k>> \in calls' <=> <<"retry", k>> \in calls
    BY <2>2
  <2>5. RunsBegin'
    BY <2>1, <2>2, <2>4 DEF IInv, RunsBegin, Activities
  <2>6. LiveJobHasRun'
    <3>1. \A k \in JobIds : {<<"start", k>>, <<"retry", k>>} \cap calls # {}
                              => {<<"start", k>>, <<"retry", k>>} \cap calls' # {}
      BY <2>4
    <3>2. QED
      BY <1>4, <2>1, <3>1 DEF IInv, LiveJobHasRun, CancelRun, GiveUp
  <2>7. QED
    BY <1>1, <2>3, <2>5, <2>6 DEF IInv
<1>5. CASE Schedule(j)
  <2>1. Scheduled(j) \in Attempts
    <3>1. run[j] \in Runs /\ run[j].at \in Activities \cup {"failing"}
      BY <1>5 DEF IInv, TypeOK, Schedule
    <3>2. QED
      BY <3>1 DEF Scheduled, Attempts, Runs, Activities
  <2>2. TypeOK'
    BY <1>5, <2>1 DEF IInv, TypeOK, Schedule
  <2>3. QED
    BY <1>1, <1>5, <2>2, SameRuns DEF IInv, Schedule
<1>6. QED
  BY <1>2, <1>3, <1>4, <1>5

-----------------------------------------------------------------------------
(* Activities *)

LEMMA LoadStep == ASSUME IInv, NEW a \in attempts, LoadAndParse(a) \/ BeginPersist(a) PROVE IInv'
<1> USE DEF sourceVars, parseVars
<1>1. a \in Attempts
  BY DEF IInv, TypeOK
<1>2. ResultsFit' /\ Shown' /\ ParsingHasLiveJob'
  BY SameRows DEF LoadAndParse, BeginPersist
<1>3. attempts' \subseteq Attempts
  <2>1. [a EXCEPT !.step = "parsed"] \in Attempts
        /\ [a EXCEPT !.step = "persist", !.saw = invalidated] \in Attempts
    BY <1>1 DEF IInv, TypeOK, Attempts
  <2>2. QED
    BY <2>1 DEF IInv, TypeOK, LoadAndParse, BeginPersist
<1>4. CASE Fails(a, "parse", "POLICY")
  <2>1. Reported(a, "parse", "failing", "POLICY")
    BY <1>4 DEF Fails
  <2>2. /\ run' \in [JobIds -> Runs]
        /\ \A j \in JobIds : \/ run'[j] = run[j]
                             \/ /\ j = a.job /\ run[j].at = "parse"
                                /\ run'[j].at = "failing" /\ run'[j].n = run[j].n
    BY <1>1, <2>1, ReportMoves DEF IInv, Activities, Codes
  <2>3. RunsBegin' /\ LiveJobHasRun'
    BY <1>1, <2>2, ReportKeeps DEF LoadAndParse, BeginPersist, Activities, Attempts
  <2>4. TypeOK'
    BY <1>3, <2>2 DEF IInv, TypeOK, LoadAndParse, BeginPersist
  <2>5. QED
    BY <1>2, <2>3, <2>4 DEF IInv
<1>5. CASE run' = run
  <2>1. TypeOK'
    BY <1>3, <1>5 DEF IInv, TypeOK, LoadAndParse, BeginPersist
  <2>2. QED
    BY <1>2, <1>5, <2>1, SameRuns DEF IInv, LoadAndParse, BeginPersist
<1>6. QED
  BY <1>4, <1>5 DEF LoadAndParse, BeginPersist

\* A job's status and scan change before there is a result, and it stays live.
LEMMA StillRuns ==
    ASSUME IInv, NEW j \in JobIds, NEW e \in Jobs, job' = [job EXCEPT ![j] = e],
           UNCHANGED <<version, jobs, invalidated>>, e.result = job[j].result,
           \/ e = job[j]
           \/ e.status = "RUNNING" /\ job[j].status \in Live
    PROVE  /\ job' \in [JobIds -> Jobs] /\ ResultsFit' /\ Shown' /\ ParsingHasLiveJob'
           /\ \A k \in JobIds : job'[k].status \in Live => job[k].status \in Live
<1>1. /\ job' \in [JobIds -> Jobs] /\ job'[j] = e
      /\ \A k \in JobIds : k # j => job'[k] = job[k]
  BY OneJob DEF IInv
<1>2. job[j].status \in Live => job[j].result = None
  BY DEF IInv, TypeOK, ResultsFit, Jobs, Manifests, Live, Usable
<1>3. \A k \in JobIds : \/ job'[k] = job[k]
                        \/ /\ job'[k].status = "RUNNING" /\ job'[k].result = None
                           /\ job[k].status \in Live /\ job[k].result = None
  BY <1>1, <1>2
<1>4. ResultsFit'
  BY <1>3 DEF IInv, ResultsFit, Usable
<1>5. Shown'
  BY <1>3 DEF IInv, Shown, Usable, Live, TypeOK, Versions
<1>6. ParsingHasLiveJob'
  BY <1>3 DEF IInv, ParsingHasLiveJob, Live, TypeOK, Versions, Shown
<1>7. QED
  BY <1>1, <1>3, <1>4, <1>5, <1>6

LEMMA VerifyStep == ASSUME IInv, NEW a \in attempts, VerifyRaw(a) PROVE IInv'
<1> DEFINE j == a.job
           st == IF job[j].status = "QUEUED" THEN "RUNNING" ELSE job[j].status
           e == [job[j] EXCEPT !.status = st]
<1>1. a \in Attempts /\ j \in JobIds /\ job[j] \in Jobs /\ job \in [JobIds -> Jobs]
  BY DEF IInv, TypeOK, Attempts
<1>2. e \in Jobs /\ e.result = job[j].result
      /\ (e = job[j] \/ (e.status = "RUNNING" /\ job[j].status \in Live))
  BY <1>1 DEF Jobs, Live
<1>3. job' = [job EXCEPT ![j] = e] /\ UNCHANGED <<version, jobs, invalidated, calls>>
  BY <1>1 DEF VerifyRaw, sourceVars
<1>4. PICK next \in {"failing", "scan"}, code \in {"POLICY", "none"} :
           Reported(a, "verify", next, code)
  BY DEF VerifyRaw, Fails, Succeeds
<1>5. /\ run' \in [JobIds -> Runs]
      /\ \A k \in JobIds : \/ run'[k] = run[k]
                           \/ /\ k = a.job /\ run[k].at = "verify"
                              /\ run'[k].at = next /\ run'[k].n = run[k].n
  BY <1>1, <1>4, ReportMoves DEF IInv, Activities, Codes
<1> HIDE DEF e
<1>6. /\ job' \in [JobIds -> Jobs] /\ ResultsFit' /\ Shown' /\ ParsingHasLiveJob'
      /\ \A k \in JobIds : job'[k].status \in Live => job[k].status \in Live
  BY <1>1, <1>2, <1>3, StillRuns
<1>7. RunsBegin' /\ LiveJobHasRun'
  BY <1>1, <1>3, <1>5, <1>6, ReportKeeps DEF Activities
<1>8. TypeOK'
  BY <1>5, <1>6 DEF IInv, TypeOK, VerifyRaw, sourceVars
<1>9. QED
  BY <1>6, <1>7, <1>8 DEF IInv

LEMMA ScanStep == ASSUME IInv, NEW a \in attempts, ScanRaw(a) PROVE IInv'
<1> DEFINE j == a.job
           e == [job[j] EXCEPT !.scan = "CLEAN"]
<1>1. a \in Attempts /\ j \in JobIds /\ job[j] \in Jobs /\ job \in [JobIds -> Jobs]
  BY DEF IInv, TypeOK, Attempts
<1>2. e \in Jobs /\ e.result = job[j].result /\ e.status = job[j].status
  BY <1>1 DEF Jobs
<1>3. \/ job' = [job EXCEPT ![j] = job[j]]
      \/ job' = [job EXCEPT ![j] = e] /\ job[j].status = "RUNNING"
  BY <1>1 DEF ScanRaw
<1>4. PICK next \in {"failing", "parse"}, code \in {"POLICY", "none", "INFECTED", "SCANNER"} :
           Reported(a, "scan", next, code)
  BY DEF ScanRaw, Fails, Succeeds
<1>5. /\ run' \in [JobIds -> Runs]
      /\ \A k \in JobIds : \/ run'[k] = run[k]
                           \/ /\ k = a.job /\ run[k].at = "scan"
                              /\ run'[k].at = next /\ run'[k].n = run[k].n
  BY <1>1, <1>4, ReportMoves DEF IInv, Activities, Codes
<1>6. UNCHANGED <<version, jobs, invalidated, calls>>
  BY DEF ScanRaw, sourceVars
<1> HIDE DEF e
<1>7. /\ job' \in [JobIds -> Jobs] /\ ResultsFit' /\ Shown' /\ ParsingHasLiveJob'
      /\ \A k \in JobIds : job'[k].status \in Live => job[k].status \in Live
  BY <1>1, <1>2, <1>3, <1>6, StillRuns DEF Live
<1>8. RunsBegin' /\ LiveJobHasRun'
  BY <1>1, <1>5, <1>6, <1>7, ReportKeeps DEF Activities
<1>9. TypeOK'
  BY <1>5, <1>7 DEF IInv, TypeOK, ScanRaw, sourceVars
<1>10. QED
  BY <1>7, <1>8, <1>9 DEF IInv

LEMMA ManifestStatus ==
    ASSUME NEW m \in Manifests
    PROVE  /\ m.status \in Usable \cup {"FAILED"} /\ m.status \notin Live /\ m # None
           /\ m.excerpts \subseteq Excerpts
  BY NoneAssumption DEF Manifests, Usable, Live

\* What persist_parse_result does to the rows
LEMMA PersistRows ==
    ASSUME IInv, NEW a \in Attempts, NEW m \in Manifests, Accepts(a),
           job[a.job].result = None, PersistResult(a, m), UNCHANGED <<jobs, invalidated>>
    PROVE  /\ job' \in [JobIds -> Jobs] /\ version' \in Versions
           /\ anchor' \in [JobIds -> [Excerpts -> Anchors]]
           /\ ResultsFit' /\ Shown' /\ ParsingHasLiveJob'
           /\ job'[a.job].status \notin Live
           /\ \A k \in JobIds : k # a.job => job'[k] = job[k]
<1> DEFINE j == a.job
           e == [job[j] EXCEPT !.status = m.status, !.result = m]
<1>1. j \in JobIds /\ job[j] \in Jobs /\ job \in [JobIds -> Jobs] /\ version \in Versions
  BY DEF IInv, TypeOK, Attempts
<1>2. job[j].status = "RUNNING" /\ job[j].scan = "CLEAN" /\ version.latest = j
  BY DEF Accepts
<1>3. e \in Jobs /\ e.status = m.status /\ e.result = m /\ e.scan = "CLEAN"
  BY <1>1, <1>2, ManifestStatus DEF Jobs, Ended
<1>4. job' = [job EXCEPT ![j] = e]
  BY <1>1 DEF PersistResult
<1> HIDE DEF e
<1>5. /\ job' \in [JobIds -> Jobs] /\ job'[j] = e
      /\ \A k \in JobIds : k # j => job'[k] = job[k]
  BY <1>1, <1>3, <1>4, OneJob DEF IInv
<1>6. /\ version' \in Versions /\ version'.latest = j
      /\ version'.active = (IF m.status \in Usable THEN j ELSE version.active)
      /\ version'.status = "PARSING" =>
             m.status \notin Usable /\ version.active # 0 /\ version.status = "PARSING"
  BY <1>1 DEF PersistResult, Versions, VersionAfter
<1>7. anchor' \in [JobIds -> [Excerpts -> Anchors]]
  <2>1. anchor \in [JobIds -> [Excerpts -> Anchors]]
    BY DEF IInv, TypeOK
  <2>2. QED
    BY <2>1 DEF PersistResult, Relocated, Anchors
<1>8. ResultsFit'
  BY <1>3, <1>5, ManifestStatus DEF IInv, ResultsFit
<1>9. Shown'
  <2>1. version.active # 0 => version.active # j /\ version.active \in JobIds
    BY <1>2, <1>1 DEF IInv, Shown, Usable, Versions
  <2>2. jobs' = jobs /\ version.latest = jobs /\ jobs \in Nat
    BY DEF IInv, Shown, TypeOK, JobIds
  <2>3. QED
    BY <1>2, <1>3, <1>5, <1>6, <2>1, <2>2 DEF IInv, Shown
<1>10. ParsingHasLiveJob'
  BY <1>6 DEF IInv, Shown, ParsingHasLiveJob
<1>11. job'[j].status \notin Live
  BY <1>3, <1>5, ManifestStatus
<1>12. QED
  BY <1>5, <1>6, <1>7, <1>8, <1>9, <1>10, <1>11

LEMMA PersistStep ==
    ASSUME IInv, NEW a \in attempts, NEW m \in Manifests, Persist(a, m) PROVE IInv'
<1>1. a \in Attempts /\ a.job \in JobIds
  BY DEF IInv, TypeOK, Attempts
<1>2. UNCHANGED <<archived, invalidated, jobs, retries, calls>> /\ attempts' \subseteq Attempts
  BY DEF Persist, sourceVars, IInv, TypeOK
<1>3. PICK next \in {"failing", "completed"}, code \in {"POLICY", "none"} :
           /\ Reported(a, "parse", next, code)
           /\ \/ next = "completed" /\ job[a.job].result = m /\ UNCHANGED <<job, anchor, version>>
              \/ next = "failing" /\ UNCHANGED <<job, anchor, version>>
              \/ job[a.job].result = None /\ Accepts(a) /\ PersistResult(a, m)
  BY DEF Persist, Fails, Succeeds
<1>4. /\ run' \in [JobIds -> Runs]
      /\ \A j \in JobIds : \/ run'[j] = run[j]
                           \/ /\ j = a.job /\ run[j].at = "parse"
                              /\ run'[j].at = next /\ run'[j].n = run[j].n
  BY <1>1, <1>3, ReportMoves DEF IInv, Activities, Codes
<1>5. CASE UNCHANGED <<job, anchor, version>> /\ (next = "completed" => job[a.job].result = m)
  <2>1. next = "completed" => job[a.job].status \notin Live
    BY <1>1, <1>5, ManifestStatus DEF IInv, ResultsFit
  <2>2. RunsBegin' /\ LiveJobHasRun'
    BY <1>1, <1>2, <1>4, <1>5, <2>1, ReportKeeps DEF Activities
  <2>3. TypeOK'
    BY <1>2, <1>4, <1>5 DEF IInv, TypeOK
  <2>4. QED
    BY <1>2, <1>5, <2>2, <2>3, SameRows DEF IInv
<1>6. CASE job[a.job].result = None /\ Accepts(a) /\ PersistResult(a, m)
  <2>1. /\ job' \in [JobIds -> Jobs] /\ version' \in Versions
        /\ anchor' \in [JobIds -> [Excerpts -> Anchors]]
        /\ ResultsFit' /\ Shown' /\ ParsingHasLiveJob'
        /\ job'[a.job].status \notin Live
        /\ \A k \in JobIds : k # a.job => job'[k] = job[k]
    BY <1>1, <1>2, <1>6, PersistRows
  <2>2. RunsBegin' /\ LiveJobHasRun'
    <3>1. \A j \in JobIds : job'[j].status \in Live => job[j].status \in Live
      BY <2>1
    <3>2. QED
      BY <1>1, <1>2, <1>4, <2>1, <3>1, ReportKeeps DEF Activities
  <2>3. TypeOK'
    BY <1>2, <1>4, <2>1 DEF IInv, TypeOK
  <2>4. QED
    BY <2>1, <2>2, <2>3 DEF IInv
<1>7. QED
  BY <1>3, <1>5, <1>6

LEMMA FailStep == ASSUME IInv, NEW a \in attempts, FailJob(a) PROVE IInv'
<1> DEFINE j == a.job
           e == [job[j] EXCEPT !.status = "FAILED", !.code = a.code,
                               !.scan = ScanAfter(a.code, @)]
<1>1. a \in Attempts /\ j \in JobIds /\ job[j] \in Jobs /\ job \in [JobIds -> Jobs]
      /\ version \in Versions
  BY DEF IInv, TypeOK, Attempts
<1>2. /\ UNCHANGED <<archived, invalidated, jobs, anchor, retries, calls>>
      /\ attempts' \subseteq Attempts /\ Reported(a, "failing", "failed", "none")
  BY DEF FailJob, sourceVars, IInv, TypeOK
<1>3. /\ run' \in [JobIds -> Runs]
      /\ \A k \in JobIds : \/ run'[k] = run[k]
                           \/ /\ k = j /\ run[k].at = "failing"
                              /\ run'[k].at = "failed" /\ run'[k].n = run[k].n
  BY <1>1, <1>2, ReportMoves DEF IInv, Codes
<1>4. CASE Settled(j, a.code)
  <2>1. UNCHANGED <<job, version>>
    BY <1>4 DEF FailJob
  <2>2. job[j].status \notin Live
    BY <1>4 DEF Settled, Live, Usable
  <2>3. RunsBegin' /\ LiveJobHasRun'
    BY <1>1, <1>2, <1>3, <2>1, <2>2, ReportKeeps
  <2>4. TypeOK'
    BY <1>2, <1>3, <2>1 DEF IInv, TypeOK
  <2>5. QED
    BY <1>2, <2>1, <2>3, <2>4, SameRows DEF IInv
<1>5. CASE ~Settled(j, a.code)
  <2>1. /\ job' = [job EXCEPT ![j] = e]
        /\ version' = IF /\ version.latest = j /\ version.active = 0
                         /\ version.status # "SUPERSEDED" /\ ~invalidated
                      THEN [version EXCEPT !.status = "FAILED"] ELSE version
    BY <1>1, <1>5 DEF FailJob
  <2>2. /\ e \in Jobs /\ e.status = "FAILED" /\ e.result = job[j].result
    BY <1>1 DEF Jobs, Ended, Attempts, ScanAfter
  <2> HIDE DEF e
  <2>3. /\ job' \in [JobIds -> Jobs] /\ job'[j] = e
        /\ \A k \in JobIds : k # j => job'[k] = job[k]
    BY <1>1, <2>1, <2>2, OneJob DEF IInv
  <2>4. /\ version' \in Versions /\ version'.latest = version.latest
        /\ version'.active = version.active
        /\ version'.status \in {version.status, "FAILED"}
        /\ version'.status = "PARSING" => version.latest # j \/ version.active # 0 \/ invalidated
    BY <1>1, <2>1 DEF Versions
  <2>5. job[j].status \notin Usable
    BY <1>5 DEF Settled
  <2>6. ResultsFit'
    <3>1. job[j].result # None => job[j].result \in Manifests /\ job[j].status = job[j].result.status
      BY <1>1 DEF IInv, ResultsFit, Jobs
    <3>2. job[j].result # None => job[j].result.status = "FAILED"
      BY <2>5, <3>1, ManifestStatus
    <3>3. QED
      BY <2>2, <2>3, <3>2 DEF IInv, ResultsFit, Usable
  <2>7. Shown'
    BY <1>1, <1>2, <2>3, <2>4, <2>5 DEF IInv, Shown, Versions
  <2>8. ParsingHasLiveJob'
    <3> SUFFICES ASSUME version'.status = "PARSING", ~invalidated
                 PROVE  job'[version.latest].status \in Live
      BY <1>2, <2>4 DEF ParsingHasLiveJob
    <3>1. version.status = "PARSING" /\ version.active = 0 /\ version.latest # j
      BY <2>4 DEF IInv, Shown
    <3>2. version.latest \in JobIds
      BY DEF IInv, Shown, TypeOK
    <3>3. QED
      BY <2>3, <3>1, <3>2 DEF IInv, ParsingHasLiveJob
  <2>9. RunsBegin' /\ LiveJobHasRun'
    <3>1. job'[j].status \notin Live
          /\ \A k \in JobIds : job'[k].status \in Live => job[k].status \in Live
      BY <2>2, <2>3 DEF Live
    <3>2. QED
      BY <1>1, <1>2, <1>3, <3>1, ReportKeeps
  <2>10. TypeOK'
    BY <1>2, <1>3, <2>3, <2>4 DEF IInv, TypeOK
  <2>11. QED
    BY <2>6, <2>7, <2>8, <2>9, <2>10 DEF IInv
<1>6. QED
  BY <1>4, <1>5

-----------------------------------------------------------------------------
LEMMA InvStep == IInv /\ [Next]_vars => IInv'
<1> SUFFICES ASSUME IInv, [Next]_vars PROVE IInv'
  OBVIOUS
<1>1. CASE UNCHANGED vars
  <2>1. TypeOK'
    BY <1>1 DEF vars, sourceVars, parseVars, runVars, IInv, TypeOK
  <2>2. QED
    BY <1>1, <2>1, SameRows, SameRuns DEF vars, sourceVars, parseVars, runVars, IInv
<1>2. ASSUME NEW j \in JobIds, Attempt(j) PROVE IInv'
  BY <1>2, LoadStep, VerifyStep, ScanStep, PersistStep, FailStep DEF Attempt
<1>3. CASE Next
  BY <1>2, <1>3, UserStep, TemporalStep DEF Next, RunNext
<1>4. QED
  BY <1>1, <1>3

LEMMA Invariance == Spec => []IInv
  BY InvInit, InvStep, PTL DEF Spec

\* persist_parse_result against fail_parse_job, cancel_parse_job, prepare_parse_retry and
\* the workflow: for any number of jobs, attempts and retries, what a version shows was
\* parsed, scanned clean and usable, and no job is pending with nobody behind it.
THEOREM RowsFit == Spec => []ParseRowsFit
<1>1. IInv => ActiveIsUsable
  <2> SUFFICES ASSUME IInv, version.active # 0
               PROVE  LET j == version.active IN
                      /\ job[j].status \in Usable /\ job[j].scan = "CLEAN"
                      /\ job[j].result # None /\ job[j].result.status = job[j].status
    BY DEF ActiveIsUsable
  <2>1. version.active \in JobIds /\ job[version.active].status \in Usable
    BY DEF IInv, TypeOK, Versions, Shown
  <2>2. QED
    BY <2>1 DEF IInv, ResultsFit
<1>2. IInv => ParseRowsFit
  BY <1>1 DEF IInv, ParseRowsFit
<1>3. QED
  BY <1>2, Invariance, PTL

-----------------------------------------------------------------------------
\* Nothing is known or done of a job before it is created.
Unborn ==
    /\ \A a \in attempts : a.job <= jobs
    /\ \A j \in JobIds : j > jobs => job[j].status = "none" /\ job[j].result = None

LEMMA AttemptsBorn == IInv /\ Unborn /\ [Next]_vars => \A a \in attempts' : a.job <= jobs
<1> SUFFICES ASSUME IInv, Unborn, [Next]_vars, NEW b \in attempts', b \notin attempts
             PROVE  b.job <= jobs
  BY DEF Unborn
<1>1. CASE \E j \in JobIds : Schedule(j)
  <2>1. PICK j \in JobIds : Schedule(j)
    BY <1>1
  <2>2. b.job = j /\ run[j].at # "none"
    BY <2>1 DEF Schedule, Scheduled, Activities
  <2>3. j \in Nat /\ jobs \in Nat
    BY DEF IInv, TypeOK, JobIds
  <2>4. run[j].n # 0
    BY <2>2 DEF IInv, RunsBegin
  <2>5. ~(j > jobs)
    BY <2>4 DEF IInv, RunsBegin
  <2>6. QED
    BY <2>2, <2>3, <2>5
<1>2. CASE \E a \in attempts : LoadAndParse(a) \/ BeginPersist(a)
  <2>1. PICK a \in attempts : LoadAndParse(a) \/ BeginPersist(a)
    BY <1>2
  <2>2. a \in Attempts
    BY DEF IInv, TypeOK
  <2>3. b.job = a.job
    <3>1. CASE BeginPersist(a)
      <4>1. b = [a EXCEPT !.step = "persist", !.saw = invalidated]
        BY <3>1 DEF BeginPersist
      <4>2. QED
        BY <2>2, <4>1 DEF Attempts
    <3>2. CASE LoadAndParse(a)
      <4>1. b \in {[a EXCEPT !.step = "parsed"], [a EXCEPT !.step = "fail"]} \/ b.job = a.job
        BY <3>2 DEF LoadAndParse
      <4>2. QED
        BY <2>2, <4>1 DEF Attempts
    <3>3. QED
      BY <2>1, <3>1, <3>2
  <2>4. QED
    BY <2>3 DEF Unborn
<1>3. CASE attempts' \subseteq attempts
  BY <1>3
<1>4. CASE UNCHANGED vars
  BY <1>3, <1>4 DEF vars, runVars
<1>5. CASE UserNext
  BY <1>3, <1>5 DEF UserNext, Supersede, Reparse, PrepareRetry, CancelJob, InvalidateVersion,
                    ArchiveSource, runVars
<1>6. ASSUME NEW j \in JobIds, StartRun(j) \/ RetryRun(j) \/ CancelRun(j) \/ GiveUp(j)
      PROVE  attempts' \subseteq attempts
  BY <1>6 DEF StartRun, RetryRun, CancelRun, GiveUp, runVars
<1>7. ASSUME NEW a \in attempts,
             VerifyRaw(a) \/ ScanRaw(a) \/ FailJob(a) \/ \E m \in Manifests : Persist(a, m)
      PROVE  attempts' \subseteq attempts
  BY <1>7 DEF VerifyRaw, ScanRaw, FailJob, Persist, runVars
<1>8. QED
  BY <1>1, <1>2, <1>3, <1>4, <1>5, <1>6, <1>7 DEF Next, RunNext, Attempt

LEMMA JobsBorn ==
    IInv /\ Unborn /\ [Next]_vars
        => /\ jobs' \in {jobs, jobs + 1}
           /\ \A k \in JobIds : k > jobs' => job'[k] = job[k]
<1> SUFFICES ASSUME IInv, Unborn, [Next]_vars
             PROVE  /\ jobs' \in {jobs, jobs + 1}
                    /\ \A k \in JobIds : k > jobs' => job'[k] = job[k]
  OBVIOUS
<1>1. jobs \in Nat /\ JobIds \subseteq Nat /\ job \in [JobIds -> Jobs]
  BY DEF IInv, TypeOK, JobIds
<1>2. CASE Reparse
  BY <1>1, <1>2 DEF Reparse
<1>3. ASSUME NEW j \in JobIds, PrepareRetry(j) \/ CancelJob(j)
      PROVE  jobs' = jobs /\ \A k \in JobIds : k > jobs' => job'[k] = job[k]
  <2>1. jobs' = jobs /\ job[j].status # "none" /\ \A k \in JobIds : k # j => job'[k] = job[k]
    BY <1>1, <1>3 DEF PrepareRetry, CancelJob, Live
  <2>2. QED
    BY <2>1 DEF Unborn
<1>4. ASSUME NEW a \in attempts,
             VerifyRaw(a) \/ ScanRaw(a) \/ FailJob(a) \/ \E m \in Manifests : Persist(a, m)
      PROVE  jobs' = jobs /\ \A k \in JobIds : k > jobs' => job'[k] = job[k]
  <2>1. a.job \in JobIds /\ a.job <= jobs
    BY DEF IInv, TypeOK, Attempts, Unborn
  <2>2. jobs' = jobs /\ \A k \in JobIds : k # a.job => job'[k] = job[k]
    BY <1>1, <1>4 DEF VerifyRaw, ScanRaw, FailJob, Persist, PersistResult
  <2>3. QED
    BY <1>1, <2>1, <2>2
<1>5. CASE UNCHANGED <<job, jobs>>
  BY <1>5
<1>6. QED
  BY <1>2, <1>3, <1>4, <1>5
     DEF Next, UserNext, RunNext, Attempt, Supersede, InvalidateVersion, ArchiveSource,
         StartRun, RetryRun, CancelRun, Schedule, GiveUp, LoadAndParse, BeginPersist,
         vars, parseVars

LEMMA Births == Spec => [](IInv /\ Unborn)
<1>1. Init => IInv /\ Unborn
  <2>1. Init => Unborn
    BY DEF Init, Unborn, NoJob, JobIds
  <2>2. QED
    BY <2>1, InvInit
<1>2. IInv /\ Unborn /\ [Next]_vars => (IInv /\ Unborn)'
  <2> SUFFICES ASSUME IInv, Unborn, [Next]_vars PROVE Unborn'
    BY InvStep
  <2>1. jobs \in Nat /\ jobs' \in {jobs, jobs + 1} /\ JobIds \subseteq Nat
    BY JobsBorn DEF IInv, TypeOK, JobIds
  <2>2. \A a \in attempts' : a.job <= jobs /\ a.job \in Nat
    BY AttemptsBorn, InvStep, <2>1 DEF IInv, TypeOK, Attempts
  <2>3. \A a \in attempts' : a.job <= jobs'
    BY <2>1, <2>2
  <2>4. \A k \in JobIds : k > jobs' => k > jobs /\ job'[k] = job[k]
    BY <2>1, JobsBorn
  <2>5. QED
    BY <2>3, <2>4 DEF Unborn
<1>3. QED
  BY <1>1, <1>2, PTL DEF Spec

\* cancel_parse_job and persist_parse_result: whatever attempts are still under way, a
\* cancelled job stays as it is and a result is neither replaced nor withdrawn.
THEOREM Finality == Spec => EndIsFinal
<1> DEFINE Kept(j) == /\ job[j].status = "CANCELED" => job'[j] = job[j]
                      /\ job[j].result # None => /\ job'[j].result = job[j].result
                                                 /\ job'[j].status = job[j].status
<1>1. ASSUME IInv, Unborn, [Next]_vars, NEW k \in JobIds PROVE Kept(k)
  <2>1. /\ job \in [JobIds -> Jobs] /\ job[k] \in Jobs
        /\ job[k].result # None =>
               job[k].status = job[k].result.status /\ job[k].status \in Usable \cup {"FAILED"}
    BY <1>1, ManifestStatus DEF IInv, TypeOK, ResultsFit, Jobs
  <2>2. CASE job' = job
    BY <2>2
  <2>3. CASE Reparse
    <3>1. jobs + 1 > jobs
      BY <1>1 DEF IInv, TypeOK, JobIds
    <3>2. k = jobs + 1 => job[k].status = "none" /\ job[k].result = None
      BY <1>1, <3>1 DEF Unborn
    <3>3. k # jobs + 1 => job'[k] = job[k]
      BY <2>1, <2>3 DEF Reparse
    <3>4. QED
      BY <3>2, <3>3
  <2>4. ASSUME NEW j \in JobIds, PrepareRetry(j) PROVE Kept(k)
    <3>1. /\ job[j].status = "FAILED" /\ job[j].result = None
          /\ k # j => job'[k] = job[k]
      BY <2>1, <2>4 DEF PrepareRetry
    <3>2. QED
      BY <3>1
  <2>5. ASSUME NEW j \in JobIds, CancelJob(j) PROVE Kept(k)
    BY <2>1, <2>5 DEF CancelJob, Live, Usable
  <2>6. ASSUME NEW a \in attempts, VerifyRaw(a) PROVE Kept(k)
    <3>1. a.job \in JobIds /\ job[a.job] \in Jobs
      BY <1>1 DEF IInv, TypeOK, Attempts
    <3>2. CASE job[a.job].status = "QUEUED"
      <4>1. \A j \in JobIds : j # a.job => job'[j] = job[j]
        BY <2>1, <2>6 DEF VerifyRaw
      <4>2. QED
        BY <2>1, <3>2, <4>1 DEF Usable
    <3>3. CASE job[a.job].status # "QUEUED"
      <4>1. [job[a.job] EXCEPT !.status = job[a.job].status] = job[a.job]
        BY <3>1 DEF Jobs
      <4>2. job' = [job EXCEPT ![a.job] = [job[a.job] EXCEPT !.status = job[a.job].status]]
        BY <2>1, <2>6, <3>3 DEF VerifyRaw
      <4>3. QED
        BY <2>1, <4>1, <4>2
    <3>4. QED
      BY <3>2, <3>3
  <2>7. ASSUME NEW a \in attempts, ScanRaw(a) PROVE Kept(k)
    BY <2>1, <2>7 DEF ScanRaw, Usable
  <2>8. ASSUME NEW a \in attempts, NEW m \in Manifests, Persist(a, m) PROVE Kept(k)
    <3>1. \/ job' = job
          \/ /\ job[a.job].result = None /\ job[a.job].status = "RUNNING"
             /\ \A j \in JobIds : j # a.job => job'[j] = job[j]
      BY <2>1, <2>8 DEF Persist, PersistResult, Accepts
    <3>2. QED
      BY <3>1
  <2>9. ASSUME NEW a \in attempts, FailJob(a) PROVE Kept(k)
    <3> DEFINE e == [job[a.job] EXCEPT !.status = "FAILED", !.code = a.code,
                                       !.scan = ScanAfter(a.code, @)]
    <3>2. a.job \in JobIds /\ job[a.job] \in Jobs
      BY <1>1 DEF IInv, TypeOK, Attempts
    <3>3. \/ job' = job
          \/ job' = [job EXCEPT ![a.job] = e] /\ job[a.job].status \notin Usable \cup {"CANCELED"}
      BY <2>1, <2>9, <3>2 DEF FailJob, Settled
    <3>4. e.status = "FAILED" /\ e.result = job[a.job].result
      BY <3>2 DEF Jobs
    <3> HIDE DEF e
    <3>1. \/ job' = job
          \/ /\ job[a.job].status \notin Usable \cup {"CANCELED"}
             /\ \A j \in JobIds : j # a.job => job'[j] = job[j]
             /\ job'[a.job].status = "FAILED" /\ job'[a.job].result = job[a.job].result
      BY <2>1, <3>2, <3>3, <3>4
    <3>5. QED
      BY <2>1, <3>1
  <2>10. QED
    BY <1>1, <2>2, <2>3, <2>4, <2>5, <2>6, <2>7, <2>8, <2>9
       DEF Next, UserNext, RunNext, Attempt, Supersede, InvalidateVersion, ArchiveSource,
           StartRun, RetryRun, CancelRun, Schedule, GiveUp, LoadAndParse, BeginPersist,
           vars, parseVars
<1>2. IInv /\ Unborn /\ [Next]_vars
          => [\A j \in JobIds :
                  /\ job[j].status = "CANCELED" => job'[j] = job[j]
                  /\ job[j].result # None => /\ job'[j].result = job[j].result
                                             /\ job'[j].status = job[j].status]_vars
  BY <1>1
<1>3. QED
  BY <1>2, Births, PTL DEF Spec, EndIsFinal

\* persist_parse_result under its locks: the version never goes back to an older result,
\* a superseded one shows what it showed, and after an invalidation no anchor becomes
\* valid but by a statement that was waiting already.
THEOREM Rightful == Spec => ShownRightfully
<1> DEFINE Right == /\ version'.active >= version.active
                    /\ version.status = "SUPERSEDED" => version' = version
                    /\ (invalidated /\ ~Waiting) =>
                           \A j \in JobIds, e \in Excerpts :
                               anchor'[j][e] = "VALID" => anchor[j][e] = "VALID"
<1>1. ASSUME IInv, [Next]_vars PROVE Right
  <2>1. /\ version \in Versions /\ version.active \in Nat /\ version.latest \in Nat
        /\ version.active <= version.latest
    BY <1>1 DEF IInv, TypeOK, Versions, Shown, JobIds
  <2>2. CASE UNCHANGED <<version, anchor>>
    BY <2>1, <2>2
  <2>3. CASE /\ anchor' = anchor /\ version'.active = version.active
             /\ (version.status = "SUPERSEDED" => version' = version)
    BY <2>1, <2>3
  <2>4. CASE Supersede \/ Reparse
    <3>1. anchor' = anchor /\ version'.active = version.active /\ version.status # "SUPERSEDED"
      BY <2>1, <2>4 DEF Supersede, Reparse, Current, Versions, parseVars
    <3>2. QED
      BY <2>3, <3>1
  <2>5. ASSUME NEW j \in JobIds, CancelJob(j) PROVE Right
    <3>1. anchor' = anchor /\ version'.active = version.active
          /\ (version.status = "SUPERSEDED" => version' = version)
      BY <2>1, <2>5 DEF CancelJob, Versions
    <3>2. QED
      BY <2>3, <3>1
  <2>6. CASE InvalidateVersion
    BY <2>1, <2>6 DEF InvalidateVersion
  <2>7. ASSUME NEW a \in attempts, FailJob(a) PROVE Right
    <3>1. anchor' = anchor /\ version'.active = version.active
          /\ (version.status = "SUPERSEDED" => version' = version)
      BY <2>1, <2>7 DEF FailJob, Versions
    <3>2. QED
      BY <2>3, <3>1
  <2>8. ASSUME NEW a \in attempts, NEW m \in Manifests, Persist(a, m) PROVE Right
    <3>1. CASE Accepts(a) /\ PersistResult(a, m)
      <4>1. version.latest = a.job /\ Current /\ ~a.saw /\ a.step = "persist"
        BY <2>8, <3>1 DEF Accepts, Persist
      <4>2. version'.active \in {version.active, version.latest}
        BY <3>1, <4>1 DEF PersistResult
      <4>3. QED
        BY <2>1, <4>1, <4>2 DEF Current, Waiting
    <3>2. QED
      BY <2>2, <2>8, <3>1 DEF Persist
  <2>9. ASSUME NEW j \in JobIds, Attempt(j) PROVE Right
    <3>1. PICK a \in attempts :
             \/ VerifyRaw(a) \/ ScanRaw(a) \/ LoadAndParse(a) \/ BeginPersist(a) \/ FailJob(a)
             \/ \E m \in Manifests : Persist(a, m)
      BY <2>9 DEF Attempt
    <3>2. CASE VerifyRaw(a) \/ ScanRaw(a) \/ LoadAndParse(a) \/ BeginPersist(a)
      BY <2>2, <3>2 DEF VerifyRaw, ScanRaw, LoadAndParse, BeginPersist, parseVars
    <3>3. QED
      BY <2>7, <2>8, <3>1, <3>2
  <2>10. ASSUME NEW j \in JobIds,
                \/ PrepareRetry(j) \/ StartRun(j) \/ RetryRun(j) \/ CancelRun(j)
                \/ Schedule(j) \/ GiveUp(j)
         PROVE  Right
    BY <2>2, <2>10 DEF PrepareRetry, StartRun, RetryRun, CancelRun, Schedule, GiveUp, parseVars
  <2>11. CASE ArchiveSource \/ UNCHANGED vars
    BY <2>2, <2>11 DEF ArchiveSource, vars, parseVars
  <2> HIDE DEF Right
  <2>12. QED
    BY <1>1, <2>4, <2>5, <2>6, <2>9, <2>10, <2>11 DEF Next, UserNext, RunNext
<1>2. IInv /\ [Next]_vars
          => [/\ version'.active >= version.active
              /\ version.status = "SUPERSEDED" => version' = version
              /\ (invalidated /\ ~Waiting) =>
                     \A j \in JobIds, e \in Excerpts :
                         anchor'[j][e] = "VALID" => anchor[j][e] = "VALID"]_vars
  BY <1>1
<1>3. QED
  BY <1>2, Invariance, PTL DEF Spec, ShownRightfully
=============================================================================
