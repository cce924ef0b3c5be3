---------------------------- MODULE ConnectorSync ----------------------------
(***************************************************************************)
(* One sync run of a read-only connector, over the uploads of its space.   *)
(*                                                                         *)
(* An activity reads the external source, creates an upload session        *)
(* outside any batch, marks its content and completes it, each in a        *)
(* transaction of its own, under idempotency keys made of the run and the  *)
(* content's checksum.  The workflow then runs the parse of the registered *)
(* version as its child and has the run completed.  The source may change  *)
(* between two attempts, and an attempt that was given up runs on.         *)
(***************************************************************************)
EXTENDS SourceUpload

CONSTANTS
    MaxTries,   \* attempts of the activity
    Scenarios   \* bound: whether a behaviour has users' uploads or a sync run

ASSUME SyncAssumption ==
    /\ MaxTries \in Nat \ {0}
    /\ Scenarios \subseteq {"users", "sync"} /\ Scenarios # {} /\ None \notin SyncKeys

VARIABLES
    scenario,
    made,      \* idempotency_records of source_upload.create: the upload of each content
    run,       \* connector_sync_runs: status, and the version of its summary
    connector, \* connector_instances: status, and its watermark, a content
    flow,      \* Temporal: the run's workflow, and the upload its activity reported
    tries,     \* attempts scheduled
    attempts   \* those that still run

syncVars == <<scenario, made, run, connector, flow, tries, attempts>>
allVars  == <<vars, syncVars>>

-----------------------------------------------------------------------------
Connectors == [status : {"none", "ACTIVE"}, watermark : SyncKeys \cup {None}]
RunRows  == [status : {"none", "CREATED", "RUNNING", "FAILED", "SUCCEEDED"},
             version : Uploads \cup {None}]
Flows    == [at : {"none", "reading", "parsing", "completing", "succeeded", "failed"},
             upload : Uploads \cup {None}, content : SyncKeys \cup {None}]
Attempts == [n : Nat, at : {"begun", "read", "created", "marked", "registered", "refused"},
             content : SyncKeys \cup {None}]

SyncTypeOK ==
    /\ scenario \in Scenarios
    /\ made \in [SyncKeys -> Uploads \cup {None}]
    /\ run \in RunRows /\ connector \in Connectors
    /\ flow \in Flows /\ tries \in 0..MaxTries /\ attempts \subseteq Attempts

SyncInit ==
    /\ Init
    /\ scenario \in Scenarios
    /\ made = [c \in SyncKeys |-> None]
    /\ run = [status |-> "none", version |-> None] 
    /\ connector = [status |-> "none", watermark |-> None]
    /\ flow = [at |-> "none", upload |-> None, content |-> None]
    /\ tries = 0 /\ attempts = {}

-----------------------------------------------------------------------------
(* The routes *)

CreateConnectorInstance ==
    /\ scenario = "sync" /\ connector.status = "none"
    /\ connector' = [connector EXCEPT !.status = "ACTIVE"]
    /\ UNCHANGED <<vars, scenario, made, run, flow, tries, attempts>>

CreateSyncRun ==
    /\ connector.status = "ACTIVE" /\ run.status = "none"
    /\ run' = [run EXCEPT !.status = "CREATED"]
    /\ UNCHANGED <<vars, scenario, made, connector, flow, tries, attempts>>

StartSync ==
    /\ run.status # "none" /\ flow.at = "none"
    /\ flow' = [flow EXCEPT !.at = "reading"]
    /\ UNCHANGED <<vars, scenario, made, run, connector, tries, attempts>>

MarkSyncStarted ==
    /\ flow.at # "none" /\ run.status = "CREATED"
    /\ run' = [run EXCEPT !.status = "RUNNING"]
    /\ UNCHANGED <<vars, scenario, made, connector, flow, tries, attempts>>

-----------------------------------------------------------------------------
(* m8_connector_read_register_raw *)

\* The first attempt, or the one before has failed or is thought to be lost.
ScheduleSync ==
    /\ flow.at = "reading" /\ tries < MaxTries
    /\ tries' = tries + 1
    /\ attempts' = attempts \cup {[n |-> tries + 1, at |-> "begun", content |-> None]}
    /\ UNCHANGED <<vars, scenario, made, run, connector, flow>>

Goes(a, at) == attempts' = (attempts \ {a}) \cup {[a EXCEPT !.at = at]}
Leaves(a)   == attempts' = attempts \ {a}

ReadSource(a) ==
    /\ a.at = "begun"
    /\ \E c \in SyncKeys : attempts' = (attempts \ {a}) \cup {[a EXCEPT !.at = "read", !.content = c]}
    /\ UNCHANGED <<vars, scenario, made, run, connector, flow, tries>>

Unmade(c) == made[c] = None

\* The session of this content is created, or found again by its key.
CreateSyncUpload(a) ==
    /\ a.at = "read"
    /\ \/ /\ Unmade(a.content)
          /\ \E u \in Uploads : /\ CreateSession(u, u, None)
                                /\ made' = [made EXCEPT ![a.content] = u]
          /\ UNCHANGED <<item, batch, overlapped>>
       \/ ~Unmade(a.content) /\ UNCHANGED <<vars, made>>
    /\ Goes(a, "created")
    /\ UNCHANGED <<scenario, run, connector, flow, tries>>

\* A session that was completed takes no bytes: of an upload that is done already, a later
\* attempt is refused here.
MarkSyncContent(a) ==
    LET u == made[a.content] IN
    /\ a.at = "created" /\ SessionFree(u)
    /\ session' = Marked(u)
    /\ Goes(a, IF session[u].status \in Open THEN "marked" ELSE "refused")
    /\ UNCHANGED <<document, item, batch, version, parse, record, requests, txns, overlapped>>
    /\ UNCHANGED <<scenario, made, run, connector, flow, tries>>

RegisterSync(a) ==
    LET u == made[a.content] IN
    /\ a.at = "marked" /\ record[a.content] = None
    /\ Register(u)
    /\ record' = [record EXCEPT ![a.content] = u]
    /\ Goes(a, "registered")
    /\ UNCHANGED <<requests, scenario, made, run, connector, flow, tries>>

\* Another attempt has registered the content, or the session is over.
NotRegistered(a) ==
    LET u == made[a.content] IN
    /\ a.at = "marked" /\ SessionFree(u)
    /\ \/ record[a.content] = u /\ Goes(a, "registered")
       \/ record[a.content] = None /\ ~Registrable(u) /\ Goes(a, "refused")
    /\ UNCHANGED <<vars, scenario, made, run, connector, flow, tries>>

\* What was registered is reported to the workflow, or the report comes too late.
ReportSync(a) ==
    /\ a.at = "registered"
    /\ \/ flow.at = "reading"
          /\ flow' = [at |-> "parsing", upload |-> made[a.content], content |-> a.content]
       \/ UNCHANGED flow
    /\ Leaves(a)
    /\ UNCHANGED <<vars, scenario, made, run, connector, tries>>

\* The source cannot be read, which is tried again unless it is not allowed, or the upload
\* was refused, which is not: either way the run is marked, whatever became of it.
FailAttempt(a) ==
    /\ a.at \in {"begun", "refused"}
    /\ run' = [status |-> "FAILED", version |-> None]
    /\ \/ flow.at = "reading" /\ flow' = [flow EXCEPT !.at = "failed"]
       \/ UNCHANGED flow
    /\ Leaves(a)
    /\ UNCHANGED <<vars, scenario, made, connector, tries>>

Die(a) ==
    /\ Leaves(a)
    /\ UNCHANGED <<vars, scenario, made, run, connector, flow, tries>>

-----------------------------------------------------------------------------
(* ConnectorSyncV2Workflow *)

\* Attempts, the child or the completion are exhausted: the row is left as it is.
GiveUpSync ==
    /\ flow.at \in {"reading", "parsing", "completing"}
    /\ flow' = [flow EXCEPT !.at = "failed"]
    /\ UNCHANGED <<vars, scenario, made, run, connector, tries, attempts>>

\* mutation: the child is started and not waited for
ChildOver_Started == TRUE
ChildOver == parse[flow.upload] = "ended"

ParseSync ==
    /\ flow.at = "parsing" /\ ChildOver
    /\ flow' = [flow EXCEPT !.at = "completing"]
    /\ UNCHANGED <<vars, scenario, made, run, connector, tries, attempts>>

\* complete_connector_sync_run; its report may be lost.
CompleteSync ==
    /\ flow.at = "completing"
    /\ run' = [status |-> "SUCCEEDED", version |-> flow.upload]
    /\ connector' = [connector EXCEPT !.watermark = flow.content]
    /\ \/ flow' = [flow EXCEPT !.at = "succeeded"]
       \/ UNCHANGED flow
    /\ UNCHANGED <<vars, scenario, made, tries, attempts>>

-----------------------------------------------------------------------------
\* Parses end as they do for users' uploads, as a child of the sync or cancelled without it.
SyncNext ==
    \/ CreateConnectorInstance \/ CreateSyncRun \/ StartSync \/ MarkSyncStarted \/ ScheduleSync
    \/ \E a \in attempts :
        \/ ReadSource(a) \/ CreateSyncUpload(a) \/ MarkSyncContent(a)
        \/ RegisterSync(a) \/ NotRegistered(a) \/ ReportSync(a) \/ FailAttempt(a) \/ Die(a)
    \/ GiveUpSync \/ ParseSync \/ CompleteSync

\* The session of a sync is nobody's to fill.
Users == (scenario = "users" /\ Fill) \/ Proceed

AllNext == SyncNext \/ (Users /\ UNCHANGED syncVars)

SyncSpec == SyncInit /\ [][AllNext]_allVars

-----------------------------------------------------------------------------
\* A run that says SUCCEEDED, and the connector's watermark, speak of content that was
\* registered and whose parse is over, though attempts overlap, content changes between
\* them and late ones fail (read_connector_and_register_raw, complete_connector_sync_run).
SyncIsTrue ==
    /\ run.status = "SUCCEEDED" => run.version # None /\ parse[run.version] = "ended"
    /\ connector.watermark # None =>
           LET u == record[connector.watermark] IN u # None /\ parse[u] = "ended"

\* A content is registered once in a run, in the session that was made for it.
ContentOnce ==
    /\ \A c \in SyncKeys : record[c] \in {None, made[c]}
    /\ Cardinality({u \in Uploads : session[u].status # "none" /\ ~InBatch(u)})
           <= Cardinality({c \in SyncKeys : made[c] # None})

\* The rows of uploads and of the sync run fit together.
SyncRowsFit == UploadRowsFit /\ SyncTypeOK /\ SyncIsTrue /\ ContentOnce
=============================================================================
