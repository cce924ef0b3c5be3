--------------------------- MODULE SchemaRegistry ---------------------------
(***************************************************************************)
(* One SchemaDefinition: its SchemaVersions, and the installations of      *)
(* Domain Packs of the registry that compose new ones.                     *)
(*                                                                         *)
(* An installation is executed by an activity that may be attempted again  *)
(* while an attempt still runs; an attempt holds its installation's row    *)
(* but reads the rest of the database unlocked, before others commit.      *)
(* Validation, publication and deprecation read a version in one           *)
(* transaction and change it in another.                                   *)
(*                                                                         *)
(* A declaration stands for a type, relation, property ...; its content is *)
(* data.  What it makes the code refuse is the choice of Refused.          *)
(***************************************************************************)
EXTENDS PackRegistry

CONSTANTS
    Declares,      \* what each declares
    Names,         \* semantic versions that users ask for
    Locals,        \* local declarations they write
    Compositions,  \* packs they compose with them by hand
    MaxInstalls,   \* bound: installations
    MaxVersions,   \* bound: schema versions
    MaxAttempts,   \* bound: attempts of the installations' activities
    MaxRequests    \* bound: what users ask for, of the registry too

ASSUME DeclaresAssumption == DOMAIN Declares = PackVersions
ASSUME CompositionsAssumption == Compositions \subseteq SUBSET PackVersions
ASSUME InstallBounds ==
    /\ MaxInstalls \in Nat /\ MaxVersions \in Nat
    /\ MaxAttempts \in Nat /\ MaxRequests \in Nat

VARIABLES
    versions,   \* schema_versions, in the order they were created
    published,  \* the versions published, in the order of published_at
    requests,   \* validations, publications and deprecations that have read a version
    installs,   \* domain_pack_installations, in the order they were created
    runs,       \* Temporal: the run of each installation
    attempts,   \* activity attempts scheduled so far
    waiting,    \* attempts that have not yet locked their installation
    reads       \* what the attempt that holds an installation's row has read

schemaVars  == <<versions, published, requests>>
installVars == <<installs, runs, attempts, waiting, reads>>
allVars == <<registryVars, schemaVars, installVars>>

-----------------------------------------------------------------------------
Ids      == 1..MaxInstalls
Content  == UNION ({Declares[p] : p \in PackVersions} \cup Locals)
Named    == [name : Names \cup {"disable"}, disables : {0} \cup Ids]
Versions == [name : Named, local : SUBSET Content, packs : SUBSET PackVersions,
             content : SUBSET Content, breaking : BOOLEAN, status : {"DRAFT", "TESTING", "PUBLISHED", "DEPRECATED"},
             etag : Nat]
Requests == [kind : {"validate", "publish", "deprecate"}, v : Nat, etag : Nat,
             base : SUBSET Content]
Installs == [operation : {"INSTALL", "UPGRADE", "DISABLE", "ROLLBACK"}, pack : PackVersions,
             previous : {0} \cup Ids, name : Named, candidate : Nat,
             status : {"PLANNED", "INSTALLING", "ACTIVE", "FAILED", "ROLLED_BACK", "DISABLED"}]
RunStates == {"none", "open", "failing", "succeeded"}
Reads    == [packs : SUBSET PackVersions, local : SUBSET Content, base : SUBSET Content,
             replaced : SUBSET Ids]

NoRead == [packs |-> {}, local |-> {}, base |-> {}, replaced |-> {0}]

InstallTypeOK ==
    /\ RegistryTypeOK
    /\ versions \in Seq(Versions) /\ published \in Seq(Nat)
    /\ requests \subseteq Requests
    /\ installs \in Seq(Installs)
    /\ runs \in [Ids -> RunStates] /\ attempts \in 0..MaxAttempts /\ waiting \in [Ids -> Nat]
    /\ reads \in [Ids -> Reads \cup {NoRead}]

InstallInit ==
    /\ RegistryInit
    /\ versions = << >> /\ published = << >> /\ requests = {}
    /\ installs = << >>
    /\ runs = [i \in Ids |-> "none"]
    /\ attempts = 0 /\ waiting = [i \in Ids |-> 0]
    /\ reads = [i \in Ids |-> NoRead]

-----------------------------------------------------------------------------
(* Schema versions *)

\* The published version a comparison is made with: the latest still PUBLISHED.
Live == {k \in DOMAIN published : versions[published[k]].status = "PUBLISHED"}
Baseline ==
    IF Live = {} THEN {}
    ELSE versions[published[CHOOSE k \in Live : \A j \in Live : j <= k]].content

\* analyze_compatibility: something declared is gone or has changed.
Breaking(base, content) == ~(base \subseteq content)

\* An etag counts the requests that changed a version, its creation included.
Room ==
    LET changes[v \in 0..Len(versions)] == IF v = 0 THEN 0 ELSE changes[v - 1] + versions[v].etag
        open == {r \in requests : r.etag = versions[r.v].etag}
    IN  RegistryRequests + Len(installs) + changes[Len(versions)] + Cardinality(open) < MaxRequests

Free(name) == \A v \in DOMAIN versions : versions[v].name # name

Composed(local, packs) == local \cup UNION {Declares[p] : p \in packs}

Draft(name, local, packs, breaking) ==
    [name |-> name, local |-> local, packs |-> packs, content |-> Composed(local, packs),
     breaking |-> breaking, status |-> "DRAFT", etag |-> 1]

AddVersion(version) == versions' = Append(versions, version)

Asked(name) == [name |-> name, disables |-> 0]

CreateDraft(name, local, packs, breaking) ==
    /\ Len(versions) < MaxVersions /\ Free(Asked(name))
    /\ AddVersion(Draft(Asked(name), local, packs, breaking))
    /\ UNCHANGED <<registryVars, published, requests, installVars>>

\* The definition comes into being with its first version.
CreateSchema(name, local) ==
    versions = << >> /\ CreateDraft(name, local, {}, FALSE)

CreateSchemaVersion(name, local) ==
    versions # << >> /\ CreateDraft(name, local, {}, FALSE)

ComposeSchema(name, local, roots) ==
    /\ versions # << >>
    /\ \A p, q \in roots : PackOf[p] = PackOf[q] => p = q
    /\ \E packs \in Resolved(roots) :
           CreateDraft(name, local, packs, Breaking(Baseline, Composed(local, packs)))

\* If-Match names a version that the client has read.  One older than what is read here
\* fails for good; one that is still to come, which a client could guess, is left out.
Request(kind, v) ==
    [kind |-> kind, v |-> v, etag |-> versions[v].etag, base |-> Baseline]

\* A member of requests stands for any number of equal ones.
Ask(r) ==
    /\ r \notin requests
    /\ requests' = requests \cup {r}
    /\ UNCHANGED <<registryVars, versions, published, installVars>>

ReadForValidate(v) == v \in DOMAIN versions /\ Ask(Request("validate", v))

ReadForPublish(v) ==
    /\ v \in DOMAIN versions
    /\ versions[v].status = "TESTING" /\ ~versions[v].breaking
    /\ Ask(Request("publish", v))

ReadForDeprecate(v) ==
    /\ v \in DOMAIN versions /\ versions[v].status = "PUBLISHED"
    /\ Ask(Request("deprecate", v))

Revise(v, status, breaking) ==
    versions' = [versions EXCEPT ![v].status = status, ![v].breaking = breaking,
                   ![v].etag = @ + 1]

ValidateSchema(r) ==
    LET v == versions[r.v] IN
    /\ r \in requests /\ r.kind = "validate"
    /\ IF v.status = "DRAFT" THEN Revise(r.v, "TESTING", Breaking(r.base, v.content))
                             ELSE UNCHANGED versions
    /\ requests' \in {requests, requests \ {r}}
    /\ UNCHANGED <<registryVars, published, installVars>>

\* mutation: the row is updated whatever became of it since it was read
Unchanged_Any(r) == TRUE
Unchanged(r) == versions[r.v].etag = r.etag

PublishSchema(r) ==
    /\ r \in requests /\ r.kind = "publish"
    /\ IF Unchanged(r) THEN /\ Revise(r.v, "PUBLISHED", versions[r.v].breaking)
                            /\ published' = Append(published, r.v)
                       ELSE UNCHANGED <<versions, published>>
    /\ requests' \in {requests, requests \ {r}}
    /\ UNCHANGED <<registryVars, installVars>>

DeprecateSchema(r) ==
    /\ r \in requests /\ r.kind = "deprecate"
    /\ IF Unchanged(r) /\ versions[r.v].status = "PUBLISHED"
       THEN Revise(r.v, "DEPRECATED", versions[r.v].breaking) ELSE UNCHANGED versions
    /\ requests' \in {requests, requests \ {r}}
    /\ UNCHANGED <<registryVars, published, installVars>>

-----------------------------------------------------------------------------
(* Installations: the routes *)

Installed == {i \in DOMAIN installs : installs[i].status = "ACTIVE"}

\* Installations name a schema that exists and a pack version that is trusted, those that
\* disable or roll back included.
CreateInstallation(operation, pack, previous, name) ==
    /\ versions # << >> /\ Trusted(pack)
    /\ Len(installs) < MaxInstalls
    /\ installs' = Append(installs,
           [operation |-> operation, pack |-> pack, previous |-> previous, name |-> name,
            candidate |-> 0, status |-> "PLANNED"])
    /\ UNCHANGED <<registryVars, schemaVars, runs, waiting, reads, attempts>>

Install(operation, pack, name) ==
    /\ operation \in {"INSTALL", "UPGRADE"}
    /\ CreateInstallation(operation, pack, 0, Asked(name))

\* disable and rollback name an installation of any status.
Control(i, operation) ==
    /\ i \in DOMAIN installs
    /\ CreateInstallation(operation, installs[i].pack, i,
           IF operation = "DISABLE" THEN [name |-> "disable", disables |-> i]
                                    ELSE installs[i].name)

\* gateway.start; a repeated request finds the run that exists.
StartInstall(i) ==
    /\ i \in DOMAIN installs /\ runs[i] = "none"
    /\ runs' = [runs EXCEPT ![i] = "open"]
    /\ UNCHANGED <<registryVars, schemaVars, installs, waiting, reads, attempts>>

\* mutation: the row is marked whatever the run has made of it
Unstarted_Any(i) == TRUE
Unstarted(i) == installs[i].status = "PLANNED"

MarkStarted(i) ==
    /\ i \in DOMAIN installs /\ runs[i] # "none" /\ Unstarted(i)
    /\ installs' = [installs EXCEPT ![i].status = "INSTALLING"]
    /\ UNCHANGED <<registryVars, schemaVars, runs, waiting, reads, attempts>>

-----------------------------------------------------------------------------
(* Installations: the workflow and its activities *)

Schedule(i) ==
    /\ runs[i] = "open" /\ attempts < MaxAttempts
    /\ attempts' = attempts + 1
    /\ waiting' = [waiting EXCEPT ![i] = @ + 1]
    /\ UNCHANGED <<registryVars, schemaVars, installs, runs, reads>>

\* The last attempt timed out, or an error used up the attempts.
GiveUp(i) ==
    /\ runs[i] = "open"
    /\ runs' = [runs EXCEPT ![i] = "failing"]
    /\ UNCHANGED <<registryVars, schemaVars, installs, waiting, reads, attempts>>

\* The attempt's report reaches the run, or is lost.
Report(i, at) ==
    \/ UNCHANGED runs
    \/ runs[i] = "open" /\ runs' = [runs EXCEPT ![i] = at]

Executable == {"PLANNED", "INSTALLING"}

Locked(i) == reads[i] # NoRead

Begins(i) == i \in DOMAIN installs /\ waiting[i] > 0 /\ ~Locked(i)
Leaves(i) == waiting' = [waiting EXCEPT ![i] = @ - 1]

Concluded(i) == installs[i].status \notin Executable

\* An attempt finds the work done, or the installation in no state to be executed.
AlreadyDone(i) ==
    /\ Begins(i) /\ Concluded(i)
    /\ Report(i, IF installs[i].status = "ACTIVE" THEN "succeeded" ELSE "failing")
    /\ Leaves(i)
    /\ UNCHANGED <<registryVars, schemaVars, installs, reads, attempts>>

\* Packs cannot be resolved, or their declarations conflict.
Refused(i) ==
    /\ Begins(i) /\ ~Concluded(i)
    /\ Report(i, "failing")
    /\ Leaves(i)
    /\ UNCHANGED <<registryVars, schemaVars, installs, reads, attempts>>

LocalDeclarations == IF versions = << >> THEN {} ELSE versions[Len(versions)].local

SamePack(i) == {k \in Installed : PackOf[installs[k].pack] = PackOf[installs[i].pack]}

\* The packs to compose: the active ones, with this installation's in place of its own.
Wanted(i) ==
    {installs[k].pack : k \in Installed \ SamePack(i)}
        \cup (IF installs[i].operation = "DISABLE" THEN {} ELSE {installs[i].pack})

ReadForExecute(i) ==
    /\ Begins(i) /\ ~Concluded(i) /\ installs[i].operation # "ROLLBACK"
    /\ \E packs \in Resolved(Wanted(i)) :
           reads' = [reads EXCEPT ![i] = [packs |-> packs, local |-> LocalDeclarations,
                       base |-> Baseline, replaced |-> SamePack(i)]]
    /\ UNCHANGED <<registryVars, schemaVars, installs, runs, waiting, attempts>>

StatusAfter(i) == IF installs[i].operation = "DISABLE" THEN "DISABLED" ELSE "ACTIVE"

Replaced(i) ==
    IF installs[i].operation \in {"UPGRADE", "DISABLE"} THEN reads[i].replaced ELSE {}

ExecuteInstall(i) ==
    LET r == reads[i] IN
    /\ Locked(i)
    /\ Free(installs[i].name) /\ Len(versions) < MaxVersions
    /\ AddVersion(Draft(installs[i].name, r.local, r.packs,
                        Breaking(r.base, Composed(r.local, r.packs))))
    /\ installs' = [k \in DOMAIN installs |->
           IF k = i THEN [installs[k] EXCEPT !.status = StatusAfter(i),
                                             !.candidate = Len(versions) + 1]
           ELSE IF k \in Replaced(i) /\ installs[k].status = "ACTIVE"
           THEN [installs[k] EXCEPT !.status = "DISABLED"] ELSE installs[k]]
    /\ reads' = [reads EXCEPT ![i] = NoRead]
    /\ Report(i, "succeeded")
    /\ Leaves(i)
    /\ UNCHANGED <<registryVars, published, requests, attempts>>

\* The semantic version is taken, or the process dies: the transaction is undone.
UndoExecute(i) ==
    /\ Locked(i)
    /\ reads' = [reads EXCEPT ![i] = NoRead]
    /\ Leaves(i)
    /\ UNCHANGED <<registryVars, schemaVars, installs, runs, attempts>>

\* mutation: any installation of the space can be restored
Restorable_Any(k) == TRUE
Restorable(k) == installs[k].candidate # 0

\* _restore_installation_pointer
RestorePointer(i) ==
    LET target == installs[i].previous IN
    /\ Begins(i) /\ ~Concluded(i) /\ installs[i].operation = "ROLLBACK"
    /\ Restorable(target) /\ ~Locked(target)
    /\ installs' = [k \in DOMAIN installs |->
           CASE k = i -> [installs[k] EXCEPT !.status = "ROLLED_BACK",
                                             !.candidate = installs[target].candidate]
             [] k = target -> [installs[k] EXCEPT !.status = "ACTIVE"]
             [] OTHER -> IF installs[k].status = "ACTIVE"
                         THEN [installs[k] EXCEPT !.status = "DISABLED"] ELSE installs[k]]
    /\ Report(i, "succeeded")
    /\ Leaves(i)
    /\ UNCHANGED <<registryVars, schemaVars, reads, attempts>>

\* mutation: a failure is recorded over whatever the attempts have done
Failable_Any(i) == TRUE
Failable(i) == installs[i].status \in Executable

\* m4_pack_fail, which may be attempted more than once, and finds its work done.
FailInstall(i) ==
    /\ runs[i] = "failing" /\ ~Locked(i) /\ Failable(i)
    /\ installs' = [installs EXCEPT ![i].status = "FAILED"]
    /\ UNCHANGED <<registryVars, schemaVars, runs, waiting, reads, attempts>>

-----------------------------------------------------------------------------
UserNext ==
    \/ AskRegistry /\ UNCHANGED <<schemaVars, installVars>>
    \/ \E name \in Names, local \in Locals :
           \/ CreateSchema(name, local) \/ CreateSchemaVersion(name, local)
           \/ \E roots \in Compositions : ComposeSchema(name, local, roots)
    \/ \E v \in DOMAIN versions : ReadForValidate(v) \/ ReadForPublish(v) \/ ReadForDeprecate(v)
    \/ \E operation \in {"INSTALL", "UPGRADE"}, pack \in PackVersions, name \in Names :
           Install(operation, pack, name)
    \/ \E i \in DOMAIN installs : Control(i, "DISABLE") \/ Control(i, "ROLLBACK")

InstallNext ==
    \/ Room /\ UserNext
    \/ \E p \in PackVersions : RegisterPack(p) /\ UNCHANGED <<schemaVars, installVars>>
    \/ \E r \in requests : ValidateSchema(r) \/ PublishSchema(r) \/ DeprecateSchema(r)
    \/ \E i \in DOMAIN installs :
           \/ StartInstall(i) \/ MarkStarted(i)
           \/ Schedule(i) \/ GiveUp(i)
           \/ AlreadyDone(i) \/ Refused(i) \/ ReadForExecute(i)
           \/ ExecuteInstall(i) \/ UndoExecute(i) \/ RestorePointer(i)
           \/ FailInstall(i)

InstallSpec == InstallInit /\ [][InstallNext]_allVars

-----------------------------------------------------------------------------
(* Properties *)

Effective == {"ACTIVE", "DISABLED", "ROLLED_BACK"}

\* An installation says it took effect exactly when a schema version composed for it
\* exists: no failure, late mark or rollback separates the two (fail_pack_installation,
\* _restore_installation_pointer).
EffectHasCandidate ==
    \A i \in DOMAIN installs :
        (installs[i].status \in Effective) <=> installs[i].candidate \in DOMAIN versions

\* What a version is composed of is complete and has one version of each pack, however
\* packs are registered and revoked around it (_resolve_pack_graph).
CompositionsAreClosed == \A v \in DOMAIN versions : Satisfied(versions[v].packs)

\* Installations, versions and packs fit together.
InstallRowsFit == InstallTypeOK /\ EffectHasCandidate /\ CompositionsAreClosed

\* What an installation has become is never taken back to the beginning, nor its
\* candidate exchanged (mark_installation_started and attempts that come late).
EffectIsKept ==
    [][\A i \in DOMAIN installs :
          /\ installs[i].candidate # 0 => installs'[i].candidate = installs[i].candidate
          /\ (installs[i].status \in Effective \cup {"FAILED"})
                => installs'[i].status \notin {"PLANNED", "INSTALLING"}
          /\ installs[i].status = "FAILED" => installs'[i].status = "FAILED"]_allVars

\* A version is published once, from TESTING, with no breaking verdict; DEPRECATED is
\* the end of it (publish_schema and deprecate_schema act on what they read).
PublishedOnce ==
    [][\A v \in DOMAIN versions :
          /\ versions'[v].status = "PUBLISHED" /\ versions[v].status # "PUBLISHED"
                => versions[v].status = "TESTING" /\ ~versions[v].breaking
          /\ versions[v].status = "DEPRECATED" => versions'[v] = versions[v]
          /\ versions'[v].content = versions[v].content]_allVars
=============================================================================
