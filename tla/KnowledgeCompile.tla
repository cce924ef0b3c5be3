-------------------------- MODULE KnowledgeCompile --------------------------
(***************************************************************************)
(* Compilation of parsed sources into candidate claims and the Wiki page   *)
(* of one entity, while people edit the page.                              *)
(*                                                                         *)
(* An attempt of the compile activity marks its job RUNNING in one         *)
(* transaction, asks the model outside any, and persists the answer in a   *)
(* second one, which holds the rows of the job, the entity and the page:   *)
(* whatever it reads after them is what was committed before.  Temporal    *)
(* may give an attempt up (one heartbeat, a timeout of 15 seconds) while   *)
(* it goes on.                                                             *)
(*                                                                         *)
(* One predicate of one entity; what the model answers is a choice.  Entity*)
(* versions, relations and proposals are inserted with the claims and      *)
(* carry nothing the properties tell apart.                                *)
(***************************************************************************)
EXTENDS Integers, Sequences, FiniteSets, SequencesExt

CONSTANTS
    Jobs,         \* compile jobs, each with a source of its own
    Answers,      \* what the model may answer: a sequence of statements
    Texts,        \* protected texts that people write
    NoText,       \* the protected section nobody has written
    MaxAttempts,  \* bound: activity attempts of all jobs
    MaxWork       \* bound: those, and edits that have read the page

Statements == UNION {ToSet(a) : a \in Answers}

ASSUME AnswersAssumption == \A a \in Answers : a \in Seq(Statements) /\ a # << >>
ASSUME BoundAssumption == MaxAttempts \in Nat /\ MaxWork \in Nat

VARIABLES
    jobs,       \* compile_jobs.status
    runs,       \* Temporal: the run of each job
    attempts,   \* attempts of m5_compile_execute, in the order they were scheduled
    anchored,   \* the jobs whose source still has VALID anchors
    answers,    \* model_invocations: the jobs whose answers were persisted, in order
    claims,     \* claim_candidates, in the order they were created
    conflicts,  \* conflict_candidates: the claims they set against each other
    page,       \* wiki_page_versions by revision; the last one is current
    edits,      \* edits that have read the page, and how many there were
    edited

compileVars == <<jobs, runs, attempts, anchored, answers, claims, conflicts>>
editVars    == <<edits, edited>>
vars == <<compileVars, page, editVars>>

-----------------------------------------------------------------------------
Statuses == {"none", "CREATED", "RUNNING", "FAILED", "SUCCEEDED"}
Attempts == [job : Jobs, at : {"scheduled", "thinking", "done"}, anchor : BOOLEAN]
Claims   == [job : Jobs, says : Statements, status : {"CANDIDATE", "NEEDS_EVIDENCE"},
             evidence : BOOLEAN]
\* base: the property an import leaves, the revision it was exported from
Versions == [generated : Statements, protected : Texts \cup {NoText}, base : Nat,
             by : {"compile", "edit"}, read : Nat]
Edits    == [read : Nat, text : Texts]

Content(version) == <<version.generated, version.protected, version.base>>

TypeOK ==
    /\ jobs \in [Jobs -> Statuses]
    /\ runs \in [Jobs -> {"none", "open", "failing", "failed", "succeeded"}]
    /\ attempts \in Seq(Attempts)
    /\ anchored \subseteq Jobs
    /\ answers \in Seq(Jobs)
    /\ claims \in Seq(Claims)
    /\ conflicts \subseteq (DOMAIN claims) \X (DOMAIN claims)
    /\ page \in Seq(Versions)
    /\ \A i, k \in DOMAIN page : Content(page[i]) = Content(page[k]) => i = k
    /\ edits \subseteq Edits /\ edited \in 0..MaxWork

Init ==
    /\ jobs = [j \in Jobs |-> "none"]
    /\ runs = [j \in Jobs |-> "none"]
    /\ attempts = << >> /\ anchored = Jobs
    /\ answers = << >> /\ claims = << >> /\ conflicts = {}
    /\ page = << >>
    /\ edits = {} /\ edited = 0

-----------------------------------------------------------------------------
(* The routes *)

\* create_compile_job, of a source that is parsed and not invalidated
CreateCompileJob(j) ==
    /\ jobs[j] = "none" /\ j \in anchored
    /\ jobs' = [jobs EXCEPT ![j] = "CREATED"]
    /\ UNCHANGED <<runs, attempts, anchored, answers, claims, conflicts, page, editVars>>

\* gateway.start; a repeated request finds the run that exists.
StartRun(j) ==
    /\ jobs[j] # "none" /\ runs[j] = "none"
    /\ runs' = [runs EXCEPT ![j] = "open"]
    /\ UNCHANGED <<jobs, attempts, anchored, answers, claims, conflicts, page, editVars>>

MarkCompileStarted(j) ==
    /\ runs[j] # "none" /\ jobs[j] = "CREATED"
    /\ jobs' = [jobs EXCEPT ![j] = "RUNNING"]
    /\ UNCHANGED <<runs, attempts, anchored, answers, claims, conflicts, page, editVars>>

\* invalidate_source_version
InvalidateSource(j) ==
    /\ j \in anchored
    /\ anchored' = anchored \ {j}
    /\ UNCHANGED <<jobs, runs, attempts, answers, claims, conflicts, page, editVars>>

-----------------------------------------------------------------------------
(* The workflow *)

Room == Len(attempts) + edited < MaxWork

Schedule(j) ==
    /\ runs[j] = "open" /\ Len(attempts) < MaxAttempts /\ Room
    /\ attempts' = Append(attempts, [job |-> j, at |-> "scheduled", anchor |-> FALSE])
    /\ UNCHANGED <<jobs, runs, anchored, answers, claims, conflicts, page, editVars>>

\* The last attempt failed or timed out.
GiveUp(j) ==
    /\ runs[j] = "open"
    /\ runs' = [runs EXCEPT ![j] = "failing"]
    /\ UNCHANGED <<jobs, attempts, anchored, answers, claims, conflicts, page, editVars>>

Failable(j) == jobs[j] # "SUCCEEDED"

\* m5_compile_fail, or the run that ends without it
FailCompile(j) ==
    /\ runs[j] = "failing"
    /\ \/ Failable(j) /\ jobs' = [jobs EXCEPT ![j] = "FAILED"]
       \/ UNCHANGED jobs
    /\ runs' = [runs EXCEPT ![j] = "failed"]
    /\ UNCHANGED <<attempts, anchored, answers, claims, conflicts, page, editVars>>

-----------------------------------------------------------------------------
(* The activity *)

Leave(a) == attempts' = [attempts EXCEPT ![a].at = "done", ![a].anchor = FALSE]

\* The attempt's result reaches the run, or comes too late.
Report(j) ==
    \/ UNCHANGED runs
    \/ runs[j] = "open" /\ runs' = [runs EXCEPT ![j] = "succeeded"]

AlreadyDone(a) ==
    LET j == attempts[a].job IN
    /\ attempts[a].at # "done" /\ jobs[j] = "SUCCEEDED"
    /\ Leave(a) /\ Report(j)
    /\ UNCHANGED <<jobs, anchored, answers, claims, conflicts, page, editVars>>

\* The first transaction, and the segments with the anchors VALID now.
StartCompile(a) ==
    LET j == attempts[a].job IN
    /\ attempts[a].at = "scheduled" /\ jobs[j] # "SUCCEEDED"
    /\ jobs' = [jobs EXCEPT ![j] = "RUNNING"]
    /\ attempts' = [attempts EXCEPT ![a].at = "thinking", ![a].anchor = j \in anchored]
    /\ UNCHANGED <<runs, anchored, answers, claims, conflicts, page, editVars>>

\* mutation: looks at the last claim only
Prior_Last(known, s) == {k \in DOMAIN known : k = Len(known) /\ known[k].says # s}
\* Of the claims that say something else, the last.  The code goes by created_at, which a
\* compilation sets before it waits for the entity's row: where two overlapped, it may take
\* another one, which says something else as well.
Prior(known, s) ==
    LET other == {k \in DOMAIN known : known[k].says # s}
    IN {k \in other : \A l \in other : l <= k}

ClaimStatus(anchor) == IF anchor THEN "CANDIDATE" ELSE "NEEDS_EVIDENCE"

\* The claims known and the conflicts raised, with one more statement.
WithClaim(j, anchor, s, known) ==
    LET same == {k \in DOMAIN known.claims :
                     known.claims[k].job = j /\ known.claims[k].says = s}
        new == [job |-> j, says |-> s, status |-> ClaimStatus(anchor),
                evidence |-> anchor /\ j \in anchored]
        all == IF same = {} THEN Append(known.claims, new) ELSE known.claims
        right == IF same = {} THEN Len(all) ELSE CHOOSE k \in same : TRUE
    IN [claims |-> all,
        conflicts |-> known.conflicts \cup {<<k, right>> : k \in Prior(known.claims, s)}]

\* The claims and the conflicts, when the statements of an answer are added in their order.
Told(j, anchor, answer) ==
    LET known[i \in 0..Len(answer)] ==
            IF i = 0 THEN [claims |-> claims, conflicts |-> conflicts]
            ELSE WithClaim(j, anchor, answer[i], known[i - 1])
    IN known[Len(answer)]

Protected(versions) == IF versions = << >> THEN NoText ELSE Last(versions).protected

\* Properties of the page that the compilation does not set are kept, too.
BaseOf(versions) == IF versions = << >> THEN 0 ELSE Last(versions).base

Known(versions, version) == \E k \in DOMAIN versions : Content(versions[k]) = Content(version)

\* _upsert_compiled_page: content the page has had before is not written again.
CompiledPage(s) ==
    LET new == [generated |-> s, protected |-> Protected(page), base |-> BaseOf(page),
                by |-> "compile", read |-> Len(page)]
    IN IF Known(page, new) THEN page ELSE Append(page, new)

Unfinished(j) == jobs[j] # "SUCCEEDED"

\* The second transaction
PersistCompile(a, answer) ==
    LET j == attempts[a].job
        known == Told(j, attempts[a].anchor, answer)
    IN
    /\ attempts[a].at = "thinking" /\ Unfinished(j)
    /\ answers' = Append(answers, j)
    /\ claims' = known.claims /\ conflicts' = known.conflicts
    /\ page' = CompiledPage(Head(answer))
    /\ jobs' = [jobs EXCEPT ![j] = "SUCCEEDED"]
    /\ Leave(a) /\ Report(j)
    /\ UNCHANGED <<anchored, editVars>>

\* The model refuses, a constraint is violated, the process dies ...
AttemptFails(a) ==
    /\ attempts[a].at # "done"
    /\ Leave(a)
    /\ UNCHANGED <<jobs, runs, anchored, answers, claims, conflicts, page, editVars>>

-----------------------------------------------------------------------------
(* The editor *)

ReadPage(text) ==
    /\ page # << >> /\ Room
    /\ edits' = edits \cup {[read |-> Len(page), text |-> text]}
    /\ edited' = edited + 1
    /\ UNCHANGED <<compileVars, page>>

\* mutation: the edit is applied to whatever the page has become
Fresh_Any(e) == TRUE
Fresh(e) == e.read = Len(page)

\* The generated section stays.
Edited(e, base) ==
    [generated |-> Last(page).generated, protected |-> e.text, base |-> base,
     by |-> "edit", read |-> e.read]

\* A stale edit is refused, and so is one that would repeat a version of the page.
Editable(e, base) == Fresh(e) /\ ~Known(page, Edited(e, base))

\* edit_wiki_page
EditPage(e) ==
    /\ e \in edits
    /\ page' = IF Editable(e, BaseOf(page)) THEN Append(page, Edited(e, BaseOf(page))) ELSE page
    /\ edits' = edits \ {e}
    /\ UNCHANGED <<compileVars, edited>>

-----------------------------------------------------------------------------
Next ==
    \/ \E j \in Jobs :
           \/ CreateCompileJob(j) \/ StartRun(j) \/ MarkCompileStarted(j)
           \/ InvalidateSource(j)
           \/ Schedule(j) \/ GiveUp(j) \/ FailCompile(j)
    \/ \E a \in DOMAIN attempts :
           \/ AlreadyDone(a) \/ StartCompile(a) \/ AttemptFails(a)
           \/ \E answer \in Answers : PersistCompile(a, answer)
    \/ \E text \in Texts : ReadPage(text)
    \/ \E e \in edits : EditPage(e)

Spec == Init /\ [][Next]_vars

-----------------------------------------------------------------------------
(* Properties *)

\* However its attempts overlap, the answer to a job is persisted once, and a job that
\* SUCCEEDED has one (the two transactions of execute_compile).
CompiledOnce ==
    \A j \in Jobs :
        LET times == Cardinality({k \in DOMAIN answers : answers[k] = j})
        IN times <= 1 /\ (jobs[j] = "SUCCEEDED" => times = 1)

\* A claim that contradicts one of an earlier job or of its own is set against it, however
\* many claims agree with it in between and however the jobs interleave
\* (_persist_compile_output).
DisagreementIsRaised ==
    \A k \in DOMAIN claims :
        (\E l \in 1..(k - 1) : claims[l].says # claims[k].says)
            => \E l \in 1..(k - 1) :
                   <<l, k>> \in conflicts /\ claims[l].says # claims[k].says

\* Every edit was made on the version it follows: no version an author has not seen is
\* passed over, though compilations write to the page meanwhile (edit_wiki_page).
EditsAreChained ==
    \A k \in DOMAIN page : page[k].by = "edit" => page[k].read = k - 1

\* Jobs, answers and the versions of the page fit together.
CompileRowsFit == TypeOK /\ CompiledOnce /\ EditsAreChained
=============================================================================
