------------------------------ MODULE SourceParse ------------------------------
(***************************************************************************)
(* One SourceVersion and the ParseJobs that parse it.  The version shows   *)
(* the active (last usable) and the latest job.  A job's work is done by a *)
(* Temporal run of three activities.  An attempt of an activity may be     *)
(* repeated, may lose its report, and may still act after its run gave it  *)
(* up, while users cancel, retry, reparse, invalidate, archive the source  *)
(* and register a version that supersedes this one.                        *)
(*                                                                         *)
(* Row versions (ETags) are left out: a request with a stale one is        *)
(* refused, and a refused request changes nothing.                         *)
(***************************************************************************)
EXTENDS Integers, FiniteSets

CONSTANTS
    MaxJobs,      \* bound: parse jobs
    MaxAttempts,  \* bound: attempts of activities that may still act
    MaxRequests,  \* bound: what users ask for after the upload, of all kinds
    Excerpts,     \* what an anchor may point at, by excerpt hash
    None

ASSUME BoundAssumption ==
    MaxJobs \in Nat \ {0} /\ MaxAttempts \in Nat /\ MaxRequests \in Nat

VARIABLES
    archived,     \* the SourceDocument is ARCHIVED
    version,      \* source_versions
    invalidated,  \* source_invalidations has a row for the version
    jobs, job,    \* parse_jobs: how many, and the rows
    anchor,       \* source_anchors: status, by job and excerpt
    retries,      \* retries so far
    calls,        \* requests that have committed and owe Temporal a call
    run,          \* Temporal: the latest run of each job's workflow
    attempts      \* activity attempts that may still act

sourceVars == <<archived, invalidated>>
parseVars  == <<version, jobs, job, anchor>>
runVars    == <<retries, calls, run, attempts>>
vars == <<sourceVars, parseVars, runVars>>

-----------------------------------------------------------------------------
JobIds     == 1..MaxJobs
Live       == {"QUEUED", "RUNNING"}
Usable     == {"SUCCEEDED", "PARTIAL_FAILED"}
Ended      == Usable \cup {"FAILED", "CANCELED"}
Activities == {"verify", "scan", "parse"}
Codes      == {"POLICY", "INFECTED", "SCANNER", "TRANSIENT"}
Retryable  == {"SCANNER", "TRANSIENT"}

Versions  == [status : {"PARSING", "STORED", "PARSED", "PARTIAL", "FAILED", "SUPERSEDED"},
              active : JobIds \cup {0}, latest : JobIds \cup {0}]
Manifests == [status : Usable, excerpts : SUBSET Excerpts \ {{}}]
                \cup [status : {"FAILED"}, excerpts : {{}}]
ASSUME NoneAssumption == None \notin Manifests

Jobs      == [status : Live \cup Ended \cup {"none"},
              scan : {"PENDING", "CLEAN", "INFECTED", "FAILED"},
              code : Codes \cup {"none", "CANCELED"}, result : Manifests \cup {None}]
Anchors   == {"none", "VALID", "UNRESOLVED", "REVOKED"}
Attempts  == [job : JobIds, n : Nat, saw : BOOLEAN, code : Codes \cup {"none"},
              step : Activities \cup {"parsed", "persist", "fail"}]
Runs      == [n : Nat, code : Codes \cup {"none"},
              at : Activities \cup {"none", "failing", "completed", "failed", "lost"}]

TypeOK ==
    /\ archived \in BOOLEAN /\ invalidated \in BOOLEAN
    /\ version \in Versions
    /\ jobs \in JobIds
    /\ job \in [JobIds -> Jobs]
    /\ anchor \in [JobIds -> [Excerpts -> Anchors]]
    /\ retries \in 0..MaxRequests
    /\ calls \subseteq {"start", "retry", "cancel"} \X JobIds
    /\ run \in [JobIds -> Runs]
    /\ attempts \subseteq Attempts

NoJob == [status |-> "none", scan |-> "PENDING", code |-> "none", result |-> None]
Queued == [NoJob EXCEPT !.status = "QUEUED"]

\* The upload has been completed: the version is registered with a first job.
Init ==
    /\ archived = FALSE /\ invalidated = FALSE
    /\ version = [status |-> "PARSING", active |-> 0, latest |-> 1]
    /\ jobs = 1
    /\ job = [j \in JobIds |-> IF j = 1 THEN Queued ELSE NoJob]
    /\ anchor = [j \in JobIds |-> [e \in Excerpts |-> "none"]]
    /\ retries = 0 /\ calls = {<<"start", 1>>}
    /\ run = [j \in JobIds |-> [n |-> 0, at |-> "none", code |-> "none"]]
    /\ attempts = {}

-----------------------------------------------------------------------------
(* What users do to the version and its jobs *)

Current == version.status # "SUPERSEDED" /\ ~archived

Canceled == {j \in JobIds : job[j].status = "CANCELED"}

Happened == {x \in {"superseded", "invalidated", "archived"} :
                CASE x = "superseded"  -> version.status = "SUPERSEDED"
                  [] x = "invalidated" -> invalidated
                  [] x = "archived"    -> archived}

MoreRequests ==
    (jobs - 1) + retries + Cardinality(Canceled) + Cardinality(Happened) < MaxRequests

\* register_raw_and_parse_job of another upload that names this version.
Supersede ==
    /\ Current /\ MoreRequests
    /\ version' = [version EXCEPT !.status = "SUPERSEDED"]
    /\ UNCHANGED <<sourceVars, jobs, job, anchor, runVars>>

\* What the version says while a job of it is pending.
ShownWhileParsing == IF version.active = 0 THEN "PARSING" ELSE version.status

Reparse ==
    LET j == jobs + 1 IN
    /\ Current /\ ~invalidated
    /\ j <= MaxJobs /\ MoreRequests
    /\ jobs' = j
    /\ job' = [job EXCEPT ![j] = Queued]
    /\ version' = [version EXCEPT !.latest = j, !.status = ShownWhileParsing]
    /\ calls' = calls \cup {<<"start", j>>}
    /\ UNCHANGED <<sourceVars, anchor, retries, run, attempts>>

PrepareRetry(j) ==
    /\ job[j].status = "FAILED" /\ job[j].result = None
    /\ job[j].code \in Retryable
    /\ MoreRequests
    /\ retries' = retries + 1
    /\ job' = [job EXCEPT ![j].status = "QUEUED", ![j].code = "none",
                 ![j].scan = IF @ \in {"FAILED", "INFECTED"} THEN "PENDING" ELSE @]
    /\ calls' = calls \cup {<<"retry", j>>}
    /\ UNCHANGED <<sourceVars, version, jobs, anchor, run, attempts>>

CancelJob(j) ==
    /\ job[j].status \in Live /\ MoreRequests
    /\ job' = [job EXCEPT ![j].status = "CANCELED", ![j].code = "CANCELED"]
    /\ version' = IF version.latest = j /\ version.status # "SUPERSEDED" /\ version.active = 0
                  THEN [version EXCEPT !.status = "STORED"] ELSE version
    /\ calls' = calls \cup {<<"cancel", j>>}
    /\ UNCHANGED <<sourceVars, jobs, anchor, retries, run, attempts>>

InvalidateVersion ==
    /\ ~invalidated /\ MoreRequests
    /\ invalidated' = TRUE
    /\ anchor' = [j \in JobIds |-> [e \in Excerpts |->
                    IF anchor[j][e] = "none" THEN "none" ELSE "REVOKED"]]
    /\ UNCHANGED <<archived, version, jobs, job, runVars>>

ArchiveSource ==
    /\ ~archived /\ MoreRequests
    /\ archived' = TRUE
    /\ UNCHANGED <<invalidated, parseVars, runVars>>

-----------------------------------------------------------------------------
(* Temporal *)

NewRun(j) == [n |-> run[j].n + 1, at |-> "verify", code |-> "none"]

StartRun(j) ==
    /\ <<"start", j>> \in calls
    /\ run' = IF run[j].n = 0 THEN [run EXCEPT ![j] = NewRun(j)] ELSE run
    /\ calls' = calls \ {<<"start", j>>}
    /\ UNCHANGED <<sourceVars, parseVars, retries, attempts>>

\* A run that has not yet closed as failed makes Temporal refuse the next.
RetryRun(j) ==
    /\ <<"retry", j>> \in calls
    /\ run[j].at \in {"failed", "lost"}
    /\ run' = [run EXCEPT ![j] = NewRun(j)]
    /\ calls' = calls \ {<<"retry", j>>}
    /\ UNCHANGED <<sourceVars, parseVars, retries, attempts>>

\* The activity that waits raises, and the run records a failure.
CancelRun(j) ==
    /\ <<"cancel", j>> \in calls
    /\ run' = IF run[j].at \in Activities
              THEN [run EXCEPT ![j].at = "failing", ![j].code = "TRANSIENT"] ELSE run
    /\ calls' = calls \ {<<"cancel", j>>}
    /\ UNCHANGED <<sourceVars, parseVars, retries, attempts>>

Scheduled(j) == [job |-> j, n |-> run[j].n, saw |-> FALSE, code |-> run[j].code,
                 step |-> IF run[j].at = "failing" THEN "fail" ELSE run[j].at]

\* The first attempt of an activity, or one after another that timed out.
Schedule(j) ==
    /\ run[j].at \in Activities \cup {"failing"} /\ Cardinality(attempts) < MaxAttempts
    /\ attempts' = attempts \cup {Scheduled(j)}
    /\ UNCHANGED <<sourceVars, parseVars, retries, calls, run>>

\* An activity that used up its time or its attempts is given up.
GiveUp_Unrecorded(j) ==
    /\ run[j].at \in Activities \cup {"failing"}
    /\ run' = [run EXCEPT ![j].at = "failed", ![j].code = "none"]
    /\ UNCHANGED <<sourceVars, parseVars, retries, calls, attempts>>
GiveUp_Forever(j) ==
    /\ run[j].at \in Activities
    /\ run' = [run EXCEPT ![j].at = "failing", ![j].code = "TRANSIENT"]
    /\ UNCHANGED <<sourceVars, parseVars, retries, calls, attempts>>
GiveUp(j) ==
    /\ \/ /\ run[j].at \in Activities
          /\ run' = [run EXCEPT ![j].at = "failing", ![j].code = "TRANSIENT"]
       \/ /\ run[j].at = "failing"
          /\ run' = [run EXCEPT ![j].at = "lost", ![j].code = "none"]
    /\ UNCHANGED <<sourceVars, parseVars, retries, calls, attempts>>

\* The attempt's report reaches its run while that waits for it, or is lost.
Reported(a, activity, next, code) ==
    \/ UNCHANGED run
    \/ /\ run[a.job].at = activity /\ run[a.job].n = a.n
       /\ run' = [run EXCEPT ![a.job].at = next, ![a.job].code = code]

Succeeds(a, activity, next) == Reported(a, activity, next, "none")
Fails(a, activity, code)    == Reported(a, activity, "failing", code)

-----------------------------------------------------------------------------
(* Activities *)

VerifyRaw(a) ==
    LET j  == a.job
        st == IF job[j].status = "QUEUED" THEN "RUNNING" ELSE job[j].status
    IN
    /\ a \in attempts /\ a.step = "verify"
    /\ job' = [job EXCEPT ![j].status = st]
    /\ attempts' = attempts \ {a}
    /\ \/ Fails(a, "verify", "POLICY")
       \/ /\ st = "RUNNING" /\ Current /\ ~invalidated
          /\ Succeeds(a, "verify", "scan")
    /\ UNCHANGED <<sourceVars, version, jobs, anchor, retries, calls>>

ScanRaw(a) ==
    LET j == a.job IN
    /\ a \in attempts /\ a.step = "scan"
    /\ attempts' = attempts \ {a}
    /\ \/ /\ job[j].status # "RUNNING"
          /\ Fails(a, "scan", "POLICY")
          /\ UNCHANGED job
       \/ /\ job[j].status = "RUNNING"
          /\ job' = IF job[j].scan = "PENDING" THEN [job EXCEPT ![j].scan = "CLEAN"] ELSE job
          /\ Succeeds(a, "scan", "parse")
       \/ /\ job[j].status = "RUNNING" /\ job[j].scan # "CLEAN"
          /\ \E code \in {"INFECTED", "SCANNER"} : Fails(a, "scan", code)
          /\ UNCHANGED job
    /\ UNCHANGED <<sourceVars, version, jobs, anchor, retries, calls>>

\* parse_and_persist reads its context and parses; a budget may be exceeded.
LoadAndParse(a) ==
    LET j == a.job
    IN
    /\ a \in attempts /\ a.step = "parse"
    /\ \/ /\ attempts' = attempts \ {a}
          /\ Fails(a, "parse", "POLICY")
       \/ /\ job[j].status = "RUNNING" /\ job[j].scan = "CLEAN"
          /\ Current /\ ~invalidated /\ version.latest = j
          /\ attempts' = (attempts \ {a}) \cup {[a EXCEPT !.step = "parsed"]}
          /\ UNCHANGED run
    /\ UNCHANGED <<sourceVars, parseVars, retries, calls>>

\* The statement that locks job, version and document reads source_invalidations
\* as of its start, hence before it waits for those locks.
BeginPersist(a) ==
    /\ a \in attempts /\ a.step = "parsed"
    /\ attempts' = (attempts \ {a})
                     \cup {[a EXCEPT !.step = "persist", !.saw = invalidated]}
    /\ UNCHANGED <<sourceVars, parseVars, retries, calls, run>>

\* mutation: a newer job of the version is not looked for
Accepts_NotLatest(a) ==
    job[a.job].status = "RUNNING" /\ job[a.job].scan = "CLEAN" /\ Current /\ ~a.saw
\* What persist_parse_result asks of the job, the source and the version it has locked.
Accepts(a) ==
    /\ job[a.job].status = "RUNNING" /\ job[a.job].scan = "CLEAN"
    /\ Current /\ ~a.saw /\ version.latest = a.job

VersionAfter(m) == CASE m.status = "SUCCEEDED" -> "PARSED"
                     [] m.status = "PARTIAL_FAILED" -> "PARTIAL"
                     [] OTHER -> "FAILED"

\* An old anchor whose excerpt the new result has too is relocated to it.
Relocated(j, old, m) ==
    [k \in JobIds |-> [e \in Excerpts |->
        IF k = j THEN (IF e \in m.excerpts THEN "VALID" ELSE anchor[k][e])
        ELSE IF k = old /\ anchor[k][e] = "VALID" /\ e \notin m.excerpts
             THEN "UNRESOLVED" ELSE anchor[k][e]]]

PersistResult(a, m) ==
    LET j == a.job
        usable == m.status \in Usable
    IN
    /\ job' = [job EXCEPT ![j].status = m.status, ![j].result = m]
    /\ anchor' = Relocated(j, version.active, m)
    /\ version' = [status |-> IF usable \/ version.active = 0 THEN VersionAfter(m)
                                                             ELSE version.status,
                   active |-> IF usable THEN j ELSE version.active,
                   latest |-> j]

Persist(a, m) ==
    LET result == job[a.job].result IN
    /\ a \in attempts /\ a.step = "persist"
    /\ attempts' = attempts \ {a}
    /\ \/ /\ result = m /\ Succeeds(a, "parse", "completed")
          /\ UNCHANGED <<job, anchor, version>>
       \/ /\ result \notin {None, m} /\ Fails(a, "parse", "POLICY")
          /\ UNCHANGED <<job, anchor, version>>
       \/ /\ result = None /\ ~Accepts(a) /\ Fails(a, "parse", "POLICY")
          /\ UNCHANGED <<job, anchor, version>>
       \/ /\ result = None /\ Accepts(a)
          /\ PersistResult(a, m)
          /\ Succeeds(a, "parse", "completed")
    /\ UNCHANGED <<sourceVars, jobs, retries, calls>>

ScanAfter(code, scan) == CASE code = "INFECTED" -> "INFECTED"
                           [] code = "SCANNER" -> "FAILED"
                           [] OTHER -> scan

\* mutation: a cancelled job fails
Settled_NotCanceled(j, code) ==
    \/ job[j].status \in Usable
    \/ job[j].status = "FAILED" /\ job[j].code = code
Settled(j, code) ==
    \/ job[j].status \in Usable \cup {"CANCELED"}
    \/ job[j].status = "FAILED" /\ job[j].code = code

FailJob(a) ==
    LET j == a.job IN
    /\ a \in attempts /\ a.step = "fail"
    /\ attempts' = attempts \ {a}
    /\ IF Settled(j, a.code) THEN UNCHANGED <<job, version>>
       ELSE /\ job' = [job EXCEPT ![j].status = "FAILED", ![j].code = a.code,
                         ![j].scan = ScanAfter(a.code, @)]
            /\ version' = IF /\ version.latest = j /\ version.active = 0
                             /\ version.status # "SUPERSEDED" /\ ~invalidated
                          THEN [version EXCEPT !.status = "FAILED"] ELSE version
    /\ Reported(a, "failing", "failed", "none")
    /\ UNCHANGED <<sourceVars, jobs, anchor, retries, calls>>

Attempt(j) == \E a \in attempts :
    /\ a.job = j
    /\ \/ VerifyRaw(a) \/ ScanRaw(a) \/ LoadAndParse(a) \/ BeginPersist(a) \/ FailJob(a)
       \/ \E m \in Manifests : Persist(a, m)

-----------------------------------------------------------------------------
UserNext ==
    \/ Reparse \/ Supersede \/ InvalidateVersion \/ ArchiveSource
    \/ \E j \in JobIds : PrepareRetry(j) \/ CancelJob(j)

RunNext == \E j \in JobIds :
    \/ StartRun(j) \/ RetryRun(j) \/ CancelRun(j)
    \/ Schedule(j) \/ GiveUp(j) \/ Attempt(j)

Next == UserNext \/ RunNext

Spec == Init /\ [][Next]_vars

\* Every activity has a schedule-to-close timeout and a bounded number of
\* attempts: Temporal does not let a run wait for one for ever.
FairSpec == Spec /\ \A j \in JobIds : WF_vars(GiveUp(j))

-----------------------------------------------------------------------------
(* Invariants *)

\* The result a version shows is one that was parsed, scanned clean and
\* usable, whatever failures, cancellations and retries of its job and of
\* others came later (persist_parse_result against fail_parse_job,
\* cancel_parse_job and prepare_parse_retry).
ActiveIsUsable ==
    LET j == version.active IN
    j # 0 => /\ job[j].status \in Usable
             /\ job[j].scan = "CLEAN"
             /\ job[j].result # None /\ job[j].result.status = job[j].status

\* A version that says PARSING is being parsed: its latest job has not ended,
\* unless the version was invalidated and its job's failure left no mark.
ParsingHasLiveJob ==
    version.status = "PARSING" /\ ~invalidated => job[version.latest].status \in Live

\* A job that has not ended is looked after: a call to Temporal is owed for
\* it, its run is open, or the run could not even record its failure.
LiveJobHasRun ==
    \A j \in JobIds : job[j].status \in Live =>
        \/ {<<"start", j>>, <<"retry", j>>} \cap calls # {}
        \/ run[j].at \in Activities \cup {"failing", "lost"}

\* What the rows of a version, its jobs and their runs say fits together.
ParseRowsFit == TypeOK /\ ActiveIsUsable /\ ParsingHasLiveJob /\ LiveJobHasRun

-----------------------------------------------------------------------------
(* Action properties *)

\* A cancelled job stays cancelled and never gets a result, and a result is
\* never replaced or withdrawn, whatever attempts are still under way.
EndIsFinal == [][\A j \in JobIds :
    /\ job[j].status = "CANCELED" => job'[j] = job[j]
    /\ job[j].result # None => /\ job'[j].result = job[j].result
                               /\ job'[j].status = job[j].status]_vars

\* A persist statement that already waits for its locks does not see an invalidation.
Waiting == \E a \in attempts : a.step = "persist" /\ ~a.saw

\* However late an attempt of an older job persists, the version never goes back from the
\* result of a reparse; once another version has superseded it nothing changes what it
\* shows; and after an invalidation no anchor becomes valid (persist_parse_result reads
\* version, document and latest job under its locks).
ShownRightfully ==
    [][/\ version'.active >= version.active
       /\ version.status = "SUPERSEDED" => version' = version
       /\ (invalidated /\ ~Waiting) =>
              \A j \in JobIds, e \in Excerpts :
                  anchor'[j][e] = "VALID" => anchor[j][e] = "VALID"]_vars

-----------------------------------------------------------------------------
(* Liveness *)

\* A run that is under way settles its job, or has to give up recording the
\* failure after all attempts of m3_source_fail.
RunSettlesJob == \A j \in JobIds :
    run[j].at \in Activities ~> job[j].status \in Ended \/ run[j].at = "lost"

=============================================================================
