------------------------------ MODULE SourceUpload ------------------------------
(***************************************************************************)
(* Controlled uploads into an import batch.  An upload session mints the   *)
(* id of the version it will register and, unless the payload names an     *)
(* existing source, of the document too.  Content and completion requests  *)
(* read the session, talk to the object store and come back to it later;   *)
(* a reader that finds a session out of time expires it; a request at      *)
(* fault terminates it.  Completion is idempotent by key.  A session need  *)
(* not belong to the batch.                                                *)
(*                                                                         *)
(* A transaction that ends an item counts the items of the batch before it *)
(* commits, so those that overlap do not see each other: it is two steps   *)
(* here, and holds its row locks in between.  Bytes are the announced ones *)
(* or not; the parse of a version is one step that ends it.                *)
(***************************************************************************)
EXTENDS Integers, FiniteSets

CONSTANTS
    Uploads,      \* sessions, and the versions and documents they mint
    First,        \* a version, with its document, that exists already
    Keys,         \* idempotency keys of completions by users
    SyncKeys,     \* those of completions by a connector
    MaxRequests,  \* bound: requests and transactions in flight
    None

ASSUME UploadAssumption ==
    /\ First \notin Uploads /\ None \notin Uploads \cup {First}
    /\ MaxRequests \in Nat
    /\ Keys \cap SyncKeys = {}

VARIABLES
    document,     \* source_documents: status, by the version that minted the id
    session,      \* source_upload_sessions
    item, batch,  \* source_import_batch_items, and the batch's status
    version,      \* source_versions, as far as uploads touch them
    parse,        \* whether the version's first parse job is live
    record,       \* idempotency_records of source_upload.complete: upload by key
    requests,     \* requests that have read and will come back
    txns,         \* transactions that have counted the items of the batch
    overlapped    \* history: two transactions on the batch overlapped

rows == <<document, session, item, batch, version, parse, record>>
vars == <<rows, requests, txns, overlapped>>

-----------------------------------------------------------------------------
Sources   == Uploads \cup {First}
Open      == {"INITIATED", "UPLOADING"}
Sessions  == [status : Open \cup {"none", "COMPLETED", "ABORTED", "EXPIRED"},
              of : Sources \cup {None}, supersedes : Sources \cup {None}]
InProgress == {"UPLOADING", "PROCESSING"}
ItemEnds  == {"SUCCEEDED", "PARTIAL", "FAILED", "CANCELED"}
Items     == {"none"} \cup InProgress \cup ItemEnds
Batches   == {"CREATED"} \cup InProgress \cup ItemEnds
Documents == {"none", "ACTIVE", "ARCHIVED"}
Requests  == [kind : {"content", "complete", "expire", "terminate"}, of : Uploads,
              key : Keys \cup {None}, saw : Uploads \cup {None},
              to : ItemEnds \cup {None}]
Txns      == [kind : {"expire", "terminate", "parse"}, of : Uploads,
              to : ItemEnds, seen : [Uploads -> Items]]

TypeOK ==
    /\ document \in [Sources -> Documents]
    /\ session \in [Uploads -> Sessions]
    /\ item \in [Uploads -> Items] /\ batch \in Batches
    /\ version \in [Sources -> {"none", "current", "SUPERSEDED"}]
    /\ parse \in [Uploads -> {"none", "live", "ended"}]
    /\ record \in [Keys \cup SyncKeys -> Uploads \cup {None}]
    /\ requests \subseteq Requests /\ txns \subseteq Txns
    /\ overlapped \in BOOLEAN

Init ==
    /\ document = [d \in Sources |-> IF d = First THEN "ACTIVE" ELSE "none"]
    /\ session = [u \in Uploads |-> [status |-> "none", of |-> None, supersedes |-> None]]
    /\ item = [u \in Uploads |-> "none"] /\ batch = "CREATED"
    /\ version = [v \in Sources |-> IF v = First THEN "current" ELSE "none"]
    /\ parse = [u \in Uploads |-> "none"]
    /\ record = [k \in Keys \cup SyncKeys |-> None]
    /\ requests = {} /\ txns = {} /\ overlapped = FALSE

-----------------------------------------------------------------------------
(* The batch *)

Among(items, statuses) == \E u \in Uploads : items[u] \in statuses

\* The status of a batch with these items.
StatusOf(items) ==
    LET good == Among(items, {"SUCCEEDED", "PARTIAL"})
        bad  == Among(items, {"FAILED", "CANCELED"})
    IN  IF Among(items, InProgress) THEN "PROCESSING"
        ELSE IF (good /\ bad) \/ Among(items, {"PARTIAL"}) THEN "PARTIAL"
        ELSE IF good THEN "SUCCEEDED"
        ELSE IF Among(items, {"CANCELED"}) /\ ~Among(items, {"FAILED"}) THEN "CANCELED"
        ELSE "FAILED"

InBatch(u) == item[u] # "none"

\* The items with that of u at this status, if it has one.
WithItem(u, status) == IF InBatch(u) THEN [item EXCEPT ![u] = status] ELSE item

-----------------------------------------------------------------------------
(* Locks and requests *)

\* expire and terminate hold the session's row lock, parse the version's.
SessionFree(u) == \A t \in txns : t.of = u => t.kind = "parse"
VersionFree(u) == \A t \in txns : t.of = u => t.kind # "parse"

Room == Cardinality(requests) + Cardinality(txns) < MaxRequests

Request(kind, u, k, saw, to) ==
    [kind |-> kind, of |-> u, key |-> k, saw |-> saw, to |-> to]

Arrive(r) ==
    /\ Room
    /\ requests' = requests \cup {r}
    /\ UNCHANGED <<rows, txns, overlapped>>

\* A request at fault (a status below 500) goes on to terminate its upload.
Fault(r) ==
    requests' = (requests \ {r}) \cup {Request("terminate", r.of, None, None, "FAILED")}

-----------------------------------------------------------------------------
(* Uploading *)

\* d: the document of the payload, a new one (u itself) or one that exists;
\* p: the version the payload says it supersedes.
CreateSession(u, d, p) ==
    /\ session[u].status = "none"
    /\ IF d = u THEN p = None ELSE document[d] = "ACTIVE"
    /\ p # None => version[p] = "current" /\ d = (IF p = First THEN First ELSE session[p].of)
    /\ session' = [session EXCEPT ![u] = [status |-> "INITIATED", of |-> d, supersedes |-> p]]
    /\ UNCHANGED <<document, version, parse, record, requests, txns>>

CreateUpload(u, d, p) ==
    /\ batch # "CANCELED"
    /\ CreateSession(u, d, p)
    /\ item' = [item EXCEPT ![u] = "UPLOADING"]
    /\ batch' = "UPLOADING"
    /\ overlapped' = (overlapped \/ txns # {})

\* A content request reads the session without a lock, and its body.
ReadForContent(u) ==
    session[u].status \in Open /\ Arrive(Request("content", u, None, None, None))

Marked(u) ==
    IF session[u].status = "INITIATED" THEN [session EXCEPT ![u].status = "UPLOADING"] ELSE session

\* The bytes are stored if absent and the session is marked, or refused.
MarkContentUploaded(r) ==
    /\ r \in requests /\ r.kind = "content" /\ SessionFree(r.of)
    /\ session' = Marked(r.of)
    /\ requests' = requests \ {r}
    /\ UNCHANGED <<document, item, batch, version, parse, record, txns, overlapped>>

\* The bytes, or what a completion declares or finds stored, are not those announced.
Mismatch(r) ==
    /\ r \in requests /\ r.kind \in {"content", "complete"}
    /\ Fault(r)
    /\ UNCHANGED <<rows, txns, overlapped>>

\* get_source_upload finds the session out of time, by a read without a lock.
ReadExpired(u) ==
    session[u].status \in Open /\ Arrive(Request("expire", u, None, None, "FAILED"))

Abort(u) ==
    session[u].status # "none" /\ Arrive(Request("terminate", u, None, None, "CANCELED"))

\* A termination finds the session already over.
NothingToTerminate(r) ==
    /\ r \in requests /\ r.kind = "terminate" /\ SessionFree(r.of)
    /\ session[r.of].status \notin Open
    /\ requests' = requests \ {r}
    /\ UNCHANGED <<rows, txns, overlapped>>

Terminable(r) == r.kind = "terminate" => session[r.of].status \in Open

\* The session's row is locked and the items are counted ...
BeginEnd(r) ==
    /\ r \in requests /\ r.kind \in {"expire", "terminate"}
    /\ SessionFree(r.of) /\ Terminable(r)
    /\ requests' = requests \ {r}
    /\ txns' = txns \cup {[kind |-> r.kind, of |-> r.of, to |-> r.to, seen |-> item]}
    /\ overlapped' = (overlapped \/ (InBatch(r.of) /\ txns # {}))
    /\ UNCHANGED rows

\* ... and the transaction commits.  An expiry sets EXPIRED whatever it finds.
Ended_NoItem(t) == t.seen
Ended(t) == IF t.seen[t.of] # "none" /\ (t.kind = "parse" \/ t.seen[t.of] = "UPLOADING")
            THEN [t.seen EXCEPT ![t.of] = t.to] ELSE t.seen

CommitEnd(t) ==
    /\ t \in txns /\ t.kind # "parse"
    /\ session' = [session EXCEPT ![t.of].status =
                     IF t.kind = "expire" THEN "EXPIRED" ELSE "ABORTED"]
    /\ item' = IF item[t.of] = "UPLOADING" THEN [item EXCEPT ![t.of] = t.to] ELSE item
    /\ batch' = IF InBatch(t.of) THEN StatusOf(Ended(t)) ELSE batch
    /\ txns' = txns \ {t}
    /\ UNCHANGED <<document, version, parse, record, requests, overlapped>>

-----------------------------------------------------------------------------
(* Completion *)

\* The completion reads the stored object, then the record of its key.
ReadForComplete(u, k) ==
    session[u].status # "none" /\ Arrive(Request("complete", u, k, record[k], None))

\* What register_raw_and_parse_job requires.
Registrable(u) ==
    LET s == session[u] IN
    /\ s.status = "UPLOADING"
    /\ document[s.of] # "ARCHIVED"
    /\ s.supersedes # None => version[s.supersedes] = "current"

\* The version and its parse job come into being.
Register(u) ==
    LET s == session[u] IN
    /\ SessionFree(u) /\ Registrable(u)
    /\ document' = [document EXCEPT ![s.of] = "ACTIVE"]
    /\ version' = [v \in Sources |->
                     CASE v = u -> "current" [] v = s.supersedes -> "SUPERSEDED"
                       [] OTHER -> version[v]]
    /\ parse' = [parse EXCEPT ![u] = "live"]
    /\ session' = [session EXCEPT ![u].status = "COMPLETED"]
    /\ item' = WithItem(u, "PROCESSING")
    /\ batch' = IF InBatch(u) THEN "PROCESSING" ELSE batch
    /\ overlapped' = (overlapped \/ (InBatch(u) /\ txns # {}))
    /\ UNCHANGED txns

RegisterRaw(r) ==
    /\ r \in requests /\ r.kind = "complete" /\ r.saw = None
    /\ record[r.key] = None /\ Register(r.of)
    /\ record' = [record EXCEPT ![r.key] = r.of]
    /\ requests' = requests \ {r}

\* The key was recorded for this upload: its answer is given again.
ReplayComplete(r) ==
    /\ r \in requests /\ r.kind = "complete" /\ r.saw = r.of
    /\ requests' = requests \ {r}
    /\ UNCHANGED <<rows, txns, overlapped>>

\* The session, the document, the predecessor or the key stands in the way.
RefuseComplete(r) ==
    /\ r \in requests /\ r.kind = "complete" /\ r.saw # r.of
    /\ SessionFree(r.of) /\ (r.saw = None /\ record[r.key] = None => ~Registrable(r.of))
    /\ Fault(r)
    /\ UNCHANGED <<rows, txns, overlapped>>

-----------------------------------------------------------------------------
(* What happens to registered versions *)

\* The first parse job ends, or is cancelled; its transaction counts, ...
BeginParseEnd(u, to) ==
    /\ parse[u] = "live" /\ VersionFree(u) /\ Room
    /\ txns' = txns \cup {[kind |-> "parse", of |-> u, to |-> to, seen |-> item]}
    /\ overlapped' = (overlapped \/ (InBatch(u) /\ txns # {}))
    /\ UNCHANGED <<rows, requests>>

\* ... and commits.
CommitParseEnd(t) ==
    /\ t \in txns /\ t.kind = "parse"
    /\ parse' = [parse EXCEPT ![t.of] = "ended"]
    /\ item' = WithItem(t.of, t.to)
    /\ batch' = IF InBatch(t.of) THEN StatusOf(Ended(t)) ELSE batch
    /\ txns' = txns \ {t}
    /\ UNCHANGED <<document, session, version, record, requests, overlapped>>

ArchiveSource(d) ==
    /\ document[d] = "ACTIVE"
    /\ document' = [document EXCEPT ![d] = "ARCHIVED"]
    /\ UNCHANGED <<session, item, batch, version, parse, record, requests, txns, overlapped>>

-----------------------------------------------------------------------------
\* Requests of a client that has a session to fill.
Fill ==
    \E u \in Uploads :
        \/ \E d \in Sources, p \in Sources \cup {None} : CreateUpload(u, d, p)
        \/ ReadForContent(u)
        \/ \E k \in Keys : ReadForComplete(u, k)

\* What becomes of any session.
Proceed ==
    \/ \E u \in Uploads :
        \/ ReadExpired(u) \/ Abort(u)
        \/ \E to \in ItemEnds : BeginParseEnd(u, to)
    \/ \E r \in requests :
        \/ MarkContentUploaded(r) \/ Mismatch(r) \/ NothingToTerminate(r) \/ BeginEnd(r)
        \/ RegisterRaw(r) \/ ReplayComplete(r) \/ RefuseComplete(r)
    \/ \E t \in txns : CommitEnd(t) \/ CommitParseEnd(t)
    \/ \E d \in Sources : ArchiveSource(d)

Next == Fill \/ Proceed

Spec == Init /\ [][Next]_vars

-----------------------------------------------------------------------------
(* Invariants *)

\* Aborting and completing exclude each other, though a termination may be
\* decided on an older reading of the session: no aborted upload has a version.
AbortedIsNotRegistered ==
    \A u \in Uploads : session[u].status = "ABORTED" => version[u] = "none"

\* A completion and the record of its key are one: whatever number of
\* completions with equal and different keys ran at the same time, each
\* registered version has one record, and each record its version.
OneRecordPerCompletion ==
    \A u \in Uploads : Cardinality({k \in Keys \cup SyncKeys : record[k] = u}) =
                         IF version[u] = "none" THEN 0 ELSE 1

\* A version is superseded by exactly one other, also when two uploads were
\* created to replace it while it was current.
OneReplacement ==
    \A p \in Sources :
        Cardinality({u \in Uploads : version[u] # "none" /\ session[u].supersedes = p}) =
            IF version[p] = "SUPERSEDED" THEN 1 ELSE 0

\* Sessions, versions and the records of completions fit together.
UploadRowsFit == TypeOK /\ AbortedIsNotRegistered /\ OneRecordPerCompletion /\ OneReplacement

\* A batch tells the truth about its items as long as no two transactions on
\* it overlapped: every path that ends an item refreshes the batch.
BatchIsTrue ==
    ~overlapped /\ txns = {} /\ batch # "CREATED" =>
        IF Among(item, InProgress) THEN batch \in InProgress ELSE batch = StatusOf(item)

=============================================================================
