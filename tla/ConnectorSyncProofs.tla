------------------------- MODULE ConnectorSyncProofs -------------------------
(***************************************************************************)
(* Theorems about uploads, their batch, and a connector's sync run.        *)
(*                                                                         *)
(* The invariant has two halves.  UInv is about uploads alone and is kept  *)
(* by every step of theirs, whoever takes it; SInv is about the sync run,  *)
(* and the steps of users' uploads leave it alone because they never end a *)
(* session's existence, never move it into or out of the batch, and never  *)
(* write a record under a connector's key (Around).                        *)
(***************************************************************************)
EXTENDS ConnectorSync, FiniteSetTheorems, TLAPS

USE UploadAssumption, SyncAssumption

AllKeys == Keys \cup SyncKeys

\* Requests and transactions are about sessions that exist; a termination was decided
\* under the lock, and so was the end of a parse.
Welcome(r) ==
    /\ r \in Requests
    /\ session[r.of].status # "none"
    /\ r.kind = "complete" => r.key \in Keys
    /\ r.kind \in {"expire", "terminate"} => r.to \in ItemEnds

Meant ==
    /\ \A r \in requests : Welcome(r)
    /\ \A t \in txns :
           /\ session[t.of].status # "none"
           /\ t.kind = "terminate" => session[t.of].status \in Open
           /\ t.kind = "parse" => parse[t.of] = "live"

\* A row lock has one holder.
OneHolder ==
    \A t, s \in txns : t.of = s.of /\ (t.kind = "parse" <=> s.kind = "parse") => t = s

\* A version comes into being with its parse, by the completion of its session.
Born ==
    \A u \in Uploads :
        /\ parse[u] = "none" <=> version[u] = "none"
        /\ version[u] # "none" => session[u].status \in {"COMPLETED", "EXPIRED"}
        /\ session[u].status = "none" => item[u] = "none"

\* Each version has one record, each record a version.
Recorded ==
    /\ \A k, l \in AllKeys : record[k] = record[l] /\ record[k] # None => k = l
    /\ \A u \in Uploads : version[u] # "none" <=> \E k \in AllKeys : record[k] = u

Succeeds(u, p) == version[u] # "none" /\ session[u].supersedes = p
Replaced ==
    \A p \in Sources :
        /\ version[p] = "SUPERSEDED" <=> \E u \in Uploads : Succeeds(u, p)
        /\ \A u, v \in Uploads : Succeeds(u, p) /\ Succeeds(v, p) => u = v

Told == IF Among(item, InProgress) THEN batch \in InProgress ELSE batch = StatusOf(item)

\* While nothing overlaps, one transaction at most is about the batch, what it counted is
\* what there is, and the batch is as the items say.
BatchTold ==
    ~overlapped =>
        /\ \A t \in txns : InBatch(t.of) =>
               t.seen = item /\ \A s \in txns : InBatch(s.of) => s = t
        /\ batch # "CREATED" => Told

UInv == TypeOK /\ Meant /\ OneHolder /\ Born /\ Recorded /\ Replaced /\ BatchTold

\* Each session outside the batch was made for a content, and its record is of that content.
MadeFits ==
    /\ \A c \in SyncKeys : made[c] # None => session[made[c]].status # "none" /\ ~InBatch(made[c])
    /\ \A u \in Uploads : session[u].status # "none" /\ ~InBatch(u) => \E c \in SyncKeys : made[c] = u
    /\ \A c \in SyncKeys : record[c] \in {None, made[c]}
    /\ IsFiniteSet({c \in SyncKeys : made[c] # None})

\* An attempt has done what its place says.
AttemptsFit ==
    \A a \in attempts :
        /\ a.at \notin {"begun", "refused"} => a.content \in SyncKeys
        /\ a.at \in {"created", "marked", "registered"} => made[a.content] # None
        /\ a.at = "registered" => record[a.content] = made[a.content]

\* What the workflow was told is recorded; past the child, its parse is over.
FlowFits ==
    /\ flow.at \in {"parsing", "completing", "succeeded"} =>
           flow.content \in SyncKeys /\ flow.upload # None /\ record[flow.content] = flow.upload
    /\ flow.at \in {"completing", "succeeded"} => parse[flow.upload] = "ended"

SInv == SyncTypeOK /\ MadeFits /\ AttemptsFit /\ FlowFits /\ SyncIsTrue

-----------------------------------------------------------------------------
(* Steps of uploads, by what they change *)

\* Requests come and go.
LEMMA Asking ==
  ASSUME UInv, NEW r, Welcome(r), requests' \subseteq requests \cup {r},
         UNCHANGED <<rows, txns, overlapped>>
  PROVE  UInv'
<1>1. TypeOK'
  BY DEF UInv, TypeOK, Meant, Welcome, rows
<1>2. Meant'
  BY DEF UInv, Meant, Welcome, rows
<1>3. OneHolder' /\ Born' /\ Recorded' /\ Replaced' /\ BatchTold'
  BY DEF UInv, OneHolder, Born, Recorded, Replaced, Succeeds, BatchTold, Told, InBatch, Among, StatusOf, rows
<1>4. QED
  BY <1>1, <1>2, <1>3 DEF UInv

LEMMA Answered ==
  ASSUME UInv, requests' \subseteq requests, UNCHANGED <<rows, txns, overlapped>>
  PROVE  UInv'
<1>1. TypeOK'
  BY DEF UInv, TypeOK, rows
<1>2. Meant'
  BY DEF UInv, Meant, Welcome, rows
<1>3. OneHolder' /\ Born' /\ Recorded' /\ Replaced' /\ BatchTold'
  BY DEF UInv, OneHolder, Born, Recorded, Replaced, Succeeds, BatchTold, Told, InBatch, Among, StatusOf, rows
<1>4. QED
  BY <1>1, <1>2, <1>3 DEF UInv

\* A session comes into being, without an item or with one.
LEMMA Creating ==
  ASSUME UInv, NEW u \in Uploads, NEW d \in Sources, NEW p \in Sources \cup {None},
         CreateSession(u, d, p),
         \/ UNCHANGED <<item, batch, overlapped>>
         \/ /\ item' = [item EXCEPT ![u] = "UPLOADING"] /\ batch' = "UPLOADING"
            /\ overlapped' = (overlapped \/ txns # {})
  PROVE  UInv'
<1>1. session[u].status = "none" /\ version[u] = "none" /\ item[u] = "none"
  BY DEF UInv, Born, CreateSession
<1>2. TypeOK'
  <2>1. [status |-> "INITIATED", of |-> d, supersedes |-> p] \in Sessions
    BY DEF Sessions, Open
  <2>2. session' \in [Uploads -> Sessions]
    BY <2>1 DEF UInv, TypeOK, CreateSession
  <2>3. item' \in [Uploads -> Items] /\ batch' \in Batches /\ overlapped' \in BOOLEAN
    BY DEF UInv, TypeOK, Items, Batches, InProgress
  <2>4. QED
    BY <2>2, <2>3 DEF UInv, TypeOK, CreateSession
<1>3. /\ \A v \in Uploads : v # u => session'[v] = session[v] /\ item'[v] = item[v]
      /\ session'[u].status = "INITIATED"
      /\ UNCHANGED <<version, parse, record, requests, txns>>
  BY DEF UInv, TypeOK, CreateSession
<1>4. Meant'
  <2>1. \A r \in requests : r.of \in Uploads /\ r.of # u
    BY <1>1 DEF UInv, Meant, Welcome, Requests
  <2>2. \A t \in txns : t.of \in Uploads /\ t.of # u
    BY <1>1 DEF UInv, Meant, TypeOK, Txns
  <2>3. QED
    BY <1>3, <2>1, <2>2 DEF UInv, Meant, Welcome
<1>5. OneHolder' /\ Recorded'
  BY <1>3 DEF UInv, OneHolder, Recorded
<1>6. Born'
  BY <1>1, <1>3 DEF UInv, Born
<1>7. Replaced'
  BY <1>1, <1>3 DEF UInv, Replaced, Succeeds
<1>8. BatchTold'
  <2>1. CASE UNCHANGED <<item, batch, overlapped>>
    BY <2>1, <1>3 DEF UInv, BatchTold, Told, InBatch, Among, StatusOf
  <2>2. CASE /\ item' = [item EXCEPT ![u] = "UPLOADING"] /\ batch' = "UPLOADING"
             /\ overlapped' = (overlapped \/ txns # {})
    <3>1. Among(item, InProgress)'
      BY <2>2 DEF UInv, TypeOK, Among, InProgress
    <3>2. Told'
      BY <2>2, <3>1 DEF Told, InProgress
    <3>3. QED
      BY <2>2, <3>2, <1>3 DEF BatchTold
  <2>3. QED
    BY <2>1, <2>2
<1>9. QED
  BY <1>2, <1>4, <1>5, <1>6, <1>7, <1>8 DEF UInv

\* The bytes are there.
LEMMA Marking ==
  ASSUME UInv, NEW u \in Uploads, session[u].status # "none", session' = Marked(u),
         requests' \subseteq requests,
         UNCHANGED <<document, item, batch, version, parse, record, txns, overlapped>>
  PROVE  UInv'
<1>1. /\ session' \in [Uploads -> Sessions]
      /\ \A v \in Uploads : /\ session'[v].supersedes = session[v].supersedes
                            /\ \/ session'[v].status = session[v].status
                               \/ /\ session[v].status = "INITIATED"
                                  /\ session'[v].status = "UPLOADING"
  BY DEF UInv, TypeOK, Marked, Sessions, Open
<1>2. TypeOK'
  BY <1>1 DEF UInv, TypeOK
<1>3. Meant'
  <2>1. /\ \A r \in requests : r.of \in Uploads
        /\ \A t \in txns : t.of \in Uploads
    BY DEF UInv, Meant, Welcome, Requests, TypeOK, Txns
  <2>2. QED
    BY <1>1, <2>1 DEF UInv, Meant, Welcome, Open
<1>4. OneHolder' /\ Recorded'
  BY DEF UInv, OneHolder, Recorded
<1>5. Born'
  BY <1>1 DEF UInv, Born
<1>6. Replaced'
  BY <1>1 DEF UInv, Replaced, Succeeds
<1>7. BatchTold'
  BY DEF UInv, BatchTold, Told, InBatch, Among, StatusOf
<1>8. QED
  BY <1>2, <1>3, <1>4, <1>5, <1>6, <1>7 DEF UInv

\* A transaction locks its row and counts.
LEMMA Beginning ==
  ASSUME UInv, NEW t \in Txns, txns' = txns \cup {t}, t.seen = item,
         session[t.of].status # "none",
         t.kind = "terminate" => session[t.of].status \in Open,
         t.kind = "parse" => parse[t.of] = "live" /\ VersionFree(t.of),
         t.kind # "parse" => SessionFree(t.of),
         requests' \subseteq requests, UNCHANGED rows,
         overlapped' = (overlapped \/ (InBatch(t.of) /\ txns # {}))
  PROVE  UInv'
<1>1. TypeOK'
  BY DEF UInv, TypeOK, rows
<1>2. Meant'
  BY DEF UInv, Meant, Welcome, rows
<1>3. OneHolder'
  BY DEF UInv, OneHolder, VersionFree, SessionFree
<1>4. Born' /\ Recorded' /\ Replaced'
  BY DEF UInv, Born, Recorded, Replaced, Succeeds, rows
<1>5. BatchTold'
  BY DEF UInv, BatchTold, Told, InBatch, Among, StatusOf, rows
<1>6. QED
  BY <1>1, <1>2, <1>3, <1>4, <1>5 DEF UInv

\* The status of a batch, if something of it is in progress
LEMMA StatusFits ==
  ASSUME NEW items \in [Uploads -> Items]
  PROVE  /\ StatusOf(items) \in Batches \ {"CREATED"}
         /\ Among(items, InProgress) => StatusOf(items) = "PROCESSING"
  BY DEF StatusOf, Batches, InProgress, ItemEnds

\* A transaction commits: the item of its upload may end, and the batch is as it counted.
LEMMA Counted ==
  ASSUME UInv, NEW t \in txns, txns' = txns \ {t}, UNCHANGED overlapped,
         item' \in [Uploads -> Items],
         ~InBatch(t.of) => item' = item,
         t.seen = item => Ended(t) = item',
         \A u \in Uploads : item[u] = "none" <=> item'[u] = "none",
         batch' = IF InBatch(t.of) THEN StatusOf(Ended(t)) ELSE batch
  PROVE  batch' \in Batches /\ BatchTold'
<1>1. Ended(t) \in [Uploads -> Items] /\ t.of \in Uploads
  BY DEF UInv, TypeOK, Txns, Ended, Items
<1>2. batch' \in Batches
  BY <1>1, StatusFits DEF UInv, TypeOK
<1>3. ASSUME ~overlapped'
      PROVE  /\ \A s \in txns' : InBatch(s.of)' =>
                    s.seen = item' /\ \A x \in txns' : InBatch(x.of)' => x = s
             /\ batch' # "CREATED" => Told'
  <2>1. CASE InBatch(t.of)
    <3>1. item' = Ended(t) /\ \A s \in txns : InBatch(s.of) => s = t
      BY <1>3, <2>1 DEF UInv, BatchTold
    <3>2. \A s \in txns' : ~InBatch(s.of)'
      BY <3>1 DEF InBatch, UInv, TypeOK, Txns
    <3>3. batch' = StatusOf(item')
      BY <3>1, <2>1
    <3>4. Among(item, InProgress)' => batch' \in InProgress
      BY <3>3, StatusFits DEF Among, InProgress
    <3>5. Told'
      BY <3>3, <3>4 DEF Told, StatusOf
    <3>6. QED
      BY <3>2, <3>5
  <2>2. CASE ~InBatch(t.of)
    BY <1>3, <2>2 DEF UInv, BatchTold, InBatch, Told, Among, StatusOf
  <2>3. QED
    BY <2>1, <2>2
<1>4. QED
  BY <1>2, <1>3 DEF BatchTold

\* The transaction of an expiry or a termination commits.
LEMMA Ending ==
  ASSUME UInv, NEW t \in txns, CommitEnd(t)
  PROVE  UInv'
<1>1. /\ t.of \in Uploads /\ t.to \in ItemEnds /\ t.kind \in {"expire", "terminate"}
      /\ session[t.of].status # "none"
      /\ t.kind = "terminate" => session[t.of].status \in Open
  BY DEF UInv, TypeOK, Txns, Meant, CommitEnd
<1>2. UNCHANGED <<document, version, parse, record, requests, overlapped>> /\ txns' = txns \ {t}
  BY DEF CommitEnd
<1>3. /\ session' \in [Uploads -> Sessions]
      /\ \A v \in Uploads : session'[v].supersedes = session[v].supersedes
      /\ \A v \in Uploads : v # t.of => session'[v] = session[v]
      /\ session'[t.of].status = IF t.kind = "expire" THEN "EXPIRED" ELSE "ABORTED"
  BY <1>1 DEF UInv, TypeOK, CommitEnd, Sessions
<1>4. item' \in [Uploads -> Items]
  BY <1>1 DEF UInv, TypeOK, CommitEnd, Items
<1>5. \A v \in Uploads : item[v] = "none" <=> item'[v] = "none"
  BY <1>1 DEF UInv, TypeOK, CommitEnd, ItemEnds
<1>6. ~InBatch(t.of) => item' = item
  BY DEF CommitEnd, InBatch
<1>7. t.seen = item => Ended(t) = item'
  BY <1>1 DEF CommitEnd, Ended
<1>8. batch' = IF InBatch(t.of) THEN StatusOf(Ended(t)) ELSE batch
  BY DEF CommitEnd
<1>9. batch' \in Batches /\ BatchTold'
  BY <1>2, <1>4, <1>5, <1>6, <1>7, <1>8, Counted
<1>10. TypeOK'
  BY <1>2, <1>3, <1>4, <1>9 DEF UInv, TypeOK
<1>11. Meant'
  <2>1. \A r \in requests : r.of \in Uploads
    BY DEF UInv, Meant, Welcome, Requests
  <2>2. \A s \in txns : s.of \in Uploads /\ (s.kind = "terminate" /\ s # t => s.of # t.of)
    BY <1>1 DEF UInv, OneHolder, TypeOK, Txns
  <2>3. \A r \in requests' : Welcome(r)'
    BY <1>2, <1>3, <2>1 DEF UInv, Meant, Welcome
  <2>4. QED
    BY <1>2, <1>3, <2>2, <2>3 DEF UInv, Meant
<1>12. OneHolder' /\ Recorded'
  BY <1>2 DEF UInv, OneHolder, Recorded
<1>13. Born'
  BY <1>1, <1>2, <1>3, <1>5 DEF UInv, Born, Open
<1>14. Replaced'
  BY <1>2, <1>3 DEF UInv, Replaced, Succeeds
<1>15. QED
  BY <1>9, <1>10, <1>11, <1>12, <1>13, <1>14 DEF UInv

\* The transaction that ends a parse commits.
LEMMA ParseEnding ==
  ASSUME UInv, NEW t \in txns, CommitParseEnd(t)
  PROVE  UInv'
<1>1. /\ t.of \in Uploads /\ t.to \in ItemEnds /\ t.kind = "parse" /\ parse[t.of] = "live"
  BY DEF UInv, TypeOK, Txns, Meant, CommitParseEnd
<1>2. UNCHANGED <<document, session, version, record, requests, overlapped>> /\ txns' = txns \ {t}
  BY DEF CommitParseEnd
<1>3. /\ parse' \in [Uploads -> {"none", "live", "ended"}]
      /\ parse'[t.of] = "ended" /\ \A v \in Uploads : v # t.of => parse'[v] = parse[v]
  BY <1>1 DEF UInv, TypeOK, CommitParseEnd
<1>4. item' \in [Uploads -> Items]
  BY <1>1 DEF UInv, TypeOK, CommitParseEnd, WithItem, Items
<1>5. \A v \in Uploads : item[v] = "none" <=> item'[v] = "none"
  BY <1>1 DEF UInv, TypeOK, CommitParseEnd, WithItem, InBatch, ItemEnds
<1>6. ~InBatch(t.of) => item' = item
  BY DEF CommitParseEnd, WithItem
<1>7. t.seen = item => Ended(t) = item'
  BY <1>1 DEF CommitParseEnd, Ended, WithItem, InBatch
<1>8. batch' = IF InBatch(t.of) THEN StatusOf(Ended(t)) ELSE batch
  BY DEF CommitParseEnd
<1>9. batch' \in Batches /\ BatchTold'
  BY <1>2, <1>4, <1>5, <1>6, <1>7, <1>8, Counted
<1>10. TypeOK'
  BY <1>2, <1>3, <1>4, <1>9 DEF UInv, TypeOK
<1>11. Meant'
  <2>1. \A s \in txns : s.of \in Uploads /\ (s.kind = "parse" /\ s # t => s.of # t.of)
    BY <1>1 DEF UInv, OneHolder, TypeOK, Txns
  <2>2. QED
    BY <1>2, <1>3, <2>1 DEF UInv, Meant, Welcome
<1>12. OneHolder' /\ Recorded' /\ Replaced'
  BY <1>2 DEF UInv, OneHolder, Recorded, Replaced, Succeeds
<1>13. Born'
  BY <1>1, <1>2, <1>3, <1>5 DEF UInv, Born
<1>14. QED
  BY <1>9, <1>10, <1>11, <1>12, <1>13 DEF UInv

\* A version comes into being, with the record of its completion.
LEMMA Registering ==
  ASSUME UInv, NEW u \in Uploads, NEW k \in AllKeys, record[k] = None, Register(u),
         record' = [record EXCEPT ![k] = u], requests' \subseteq requests
  PROVE  UInv'
<1>. PICK s \in Sessions : s = session[u]
  BY DEF UInv, TypeOK
<1>1. /\ s.status = "UPLOADING" /\ version[u] = "none" /\ parse[u] = "none"
      /\ s.supersedes # None => s.supersedes \in Sources /\ s.supersedes # u
                                /\ version[s.supersedes] = "current"
  BY DEF Register, Registrable, UInv, Born, Sessions
<1>2. /\ parse' = [parse EXCEPT ![u] = "live"] /\ txns' = txns
      /\ version' \in [Sources -> {"none", "current", "SUPERSEDED"}]
      /\ version'[u] = "current"
      /\ s.supersedes # None => version'[s.supersedes] = "SUPERSEDED"
      /\ \A p \in Sources \ {u, s.supersedes} : version'[p] = version[p]
  BY <1>1 DEF UInv, TypeOK, Register, Sources
<1>3. /\ session' \in [Uploads -> Sessions]
      /\ \A v \in Uploads : session'[v].supersedes = session[v].supersedes
      /\ \A v \in Uploads : v # u => session'[v] = session[v]
      /\ session'[u].status = "COMPLETED"
  BY DEF UInv, TypeOK, Register, Sessions
<1>4. /\ item' \in [Uploads -> Items] /\ (~InBatch(u) => item' = item)
      /\ \A v \in Uploads : item[v] = "none" <=> item'[v] = "none"
      /\ InBatch(u) => item'[u] = "PROCESSING"
  BY DEF UInv, TypeOK, Register, WithItem, InBatch, Items, InProgress
<1>5. batch' = (IF InBatch(u) THEN "PROCESSING" ELSE batch)
      /\ overlapped' = (overlapped \/ (InBatch(u) /\ txns # {}))
  BY DEF Register
<1>6. TypeOK'
  <2>1. document' \in [Sources -> Documents]
    BY DEF UInv, TypeOK, Register, Documents
  <2>2. record' \in [AllKeys -> Uploads \cup {None}]
    BY DEF UInv, TypeOK, AllKeys
  <2>3. parse' \in [Uploads -> {"none", "live", "ended"}] /\ batch' \in Batches /\ overlapped' \in BOOLEAN
    BY <1>2, <1>5 DEF UInv, TypeOK, Batches, InProgress
  <2>4. QED
    BY <2>1, <2>2, <2>3, <1>2, <1>3, <1>4 DEF UInv, TypeOK, AllKeys
<1>7. \A t \in txns : t.of \in Uploads /\ (t.of = u => t.kind = "parse") /\ (t.kind = "parse" => t.of # u)
  BY <1>1 DEF UInv, TypeOK, Txns, Meant, Register, SessionFree
<1>8. Meant'
  <2>1. \A r \in requests : r.of \in Uploads
    BY DEF UInv, Meant, Welcome, Requests
  <2>2. \A r \in requests' : Welcome(r)'
    BY <1>3, <2>1 DEF UInv, Meant, Welcome
  <2>3. \A t \in txns : t.of # u
    BY <1>7
  <2>4. QED
    BY <1>2, <1>3, <1>7, <2>2, <2>3 DEF UInv, Meant, TypeOK
<1>9. OneHolder'
  BY <1>2 DEF UInv, OneHolder
<1>10. Born'
  <2>1. \A v \in Uploads : v # u => (version'[v] = "none" <=> version[v] = "none") /\ parse'[v] = parse[v]
    BY <1>1, <1>2 DEF UInv, TypeOK, Sources
  <2>2. QED
    BY <2>1, <1>2, <1>3, <1>4 DEF UInv, Born, TypeOK
<1>11. Recorded'
  <2>1. \A v \in Uploads : v # u => (version'[v] = "none" <=> version[v] = "none")
    BY <1>1, <1>2 DEF UInv, TypeOK, Sources
  <2>2. \A l \in AllKeys : record[l] # u
    BY <1>1 DEF UInv, Recorded
  <2>3. record'[k] = u /\ \A l \in AllKeys : l # k => record'[l] = record[l]
    BY DEF UInv, TypeOK, AllKeys
  <2>4. QED
    BY <1>2, <2>1, <2>2, <2>3 DEF UInv, Recorded
<1>12. Replaced'
  <2>1. \A v \in Uploads, p \in Sources : v # u => (Succeeds(v, p)' <=> Succeeds(v, p))
    BY <1>1, <1>2, <1>3 DEF UInv, TypeOK, Sources, Succeeds
  <2>2. \A p \in Sources : Succeeds(u, p)' <=> p = s.supersedes
    BY <1>2, <1>3 DEF Succeeds
  <2>3. \A p \in Sources : ~Succeeds(u, p)
    BY <1>1 DEF Succeeds
  <2>4. None \notin Sources
    BY DEF Sources
  <2>5. \A p \in Sources : p # s.supersedes => (version'[p] = "SUPERSEDED" <=> version[p] = "SUPERSEDED")
    BY <1>1, <1>2 DEF Sources
  <2>6. QED
    BY <1>1, <1>2, <2>1, <2>2, <2>3, <2>4, <2>5 DEF UInv, Replaced
<1>13. BatchTold'
  <2>1. CASE InBatch(u)
    <3>1. Among(item, InProgress)'
      BY <1>4, <2>1 DEF Among, InProgress
    <3>2. Told'
      BY <3>1, <1>5, <2>1 DEF Told, InProgress
    <3>3. QED
      BY <1>2, <1>5, <2>1, <3>2 DEF BatchTold
  <2>2. CASE ~InBatch(u)
    <3>1. item' = item /\ batch' = batch /\ txns' = txns /\ (~overlapped' => ~overlapped)
      BY <2>2, <1>2, <1>4, <1>5
    <3>2. QED
      BY <3>1 DEF UInv, BatchTold, Told, InBatch, Among, StatusOf
  <2>3. QED
    BY <2>1, <2>2
<1>14. QED
  BY <1>6, <1>8, <1>9, <1>10, <1>11, <1>12, <1>13 DEF UInv

LEMMA Archiving ==
  ASSUME UInv, NEW d \in Sources, ArchiveSource(d)
  PROVE  UInv'
<1>1. TypeOK'
  BY DEF UInv, TypeOK, ArchiveSource, Documents
<1>2. QED
  BY <1>1 DEF ArchiveSource, UInv, Meant, Welcome, OneHolder, Born, Recorded, Replaced, Succeeds,
              BatchTold, Told, InBatch, Among, StatusOf

-----------------------------------------------------------------------------
(* What steps of uploads leave alone *)

Around ==
    /\ \A u \in Uploads :
           /\ session[u].status # "none" => session'[u].status # "none" /\ InBatch(u)' = InBatch(u)
           /\ session[u].status = "none" /\ session'[u].status # "none" => InBatch(u)'
           /\ parse[u] = "ended" => parse'[u] = "ended"
    /\ \A c \in SyncKeys : record'[c] = record[c]

\* The sync run does not notice.
LEMMA Unmoved ==
  ASSUME SInv, UInv, UInv', UNCHANGED syncVars, Around
  PROVE  SInv'
<1>1. SyncTypeOK' /\ AttemptsFit'
  <2>1. SyncTypeOK'
    BY DEF SInv, SyncTypeOK, syncVars
  <2>2. \A a \in attempts : a.at = "registered" => a.content \in SyncKeys
    BY DEF SInv, AttemptsFit
  <2>3. AttemptsFit'
    BY <2>2 DEF SInv, AttemptsFit, syncVars, Around
  <2>4. QED
    BY <2>1, <2>3
<1>2. MadeFits'
  <2>1. made' = made /\ \A c \in SyncKeys : made[c] \in Uploads \cup {None}
    BY DEF SInv, SyncTypeOK, syncVars
  <2>2. \A c \in SyncKeys : made[c] # None => session'[made[c]].status # "none" /\ ~InBatch(made[c])'
    BY <2>1 DEF SInv, MadeFits, Around, InBatch
  <2>3. \A u \in Uploads : session'[u].status # "none" /\ ~InBatch(u)' => \E c \in SyncKeys : made[c] = u
    BY DEF SInv, MadeFits, Around
  <2>4. \A c \in SyncKeys : record'[c] \in {None, made[c]}
    BY DEF SInv, MadeFits, Around
  <2>5. QED
    BY <2>1, <2>2, <2>3, <2>4 DEF SInv, MadeFits, InBatch
<1>3. FlowFits'
  BY DEF SInv, FlowFits, SyncTypeOK, Flows, syncVars, Around
<1>4. SyncIsTrue'
  <2>1. run' = run /\ connector' = connector /\ connector.watermark \in SyncKeys \cup {None}
        /\ run.version \in Uploads \cup {None}
    BY DEF SInv, SyncTypeOK, syncVars, RunRows, Connectors
  <2>2. \A c \in SyncKeys : record[c] \in Uploads \cup {None}
    BY DEF UInv, TypeOK
  <2>3. QED
    BY <2>1, <2>2 DEF SInv, SyncIsTrue, Around
<1>5. QED
  BY <1>1, <1>2, <1>3, <1>4 DEF SInv

\* Every step of users' uploads is one of the steps above, and leaves the sync alone.
LEMMA UsersStep ==
  ASSUME UInv, Users
  PROVE  UInv' /\ Around
<1>0. /\ \A r \in requests : Welcome(r) /\ r.of \in Uploads
      /\ \A t \in txns : t.of \in Uploads
      /\ requests \subseteq Requests
  BY DEF UInv, Meant, Welcome, Requests, TypeOK, Txns
<1>. DEFINE Still == UNCHANGED <<session, item, parse, record>>
<1>S. Still => Around
  BY DEF Around, InBatch
<1>1. ASSUME NEW r, Welcome(r), requests' \subseteq requests \cup {r}, UNCHANGED <<rows, txns, overlapped>>
      PROVE  UInv' /\ Around
  BY <1>1, <1>S, Asking DEF rows
<1>2. ASSUME NEW u \in Uploads, NEW d \in Sources, NEW p \in Sources \cup {None}, CreateUpload(u, d, p)
      PROVE  UInv' /\ Around
  <2>1. UInv'
    BY <1>2, Creating DEF CreateUpload
  <2>2. session[u].status = "none" /\ session' = [session EXCEPT ![u] = [status |-> "INITIATED", of |-> d, supersedes |-> p]]
        /\ item' = [item EXCEPT ![u] = "UPLOADING"] /\ UNCHANGED <<parse, record>>
    BY <1>2 DEF CreateUpload, CreateSession
  <2>3. Around
    BY <2>2 DEF Around, InBatch, UInv, TypeOK
  <2>4. QED
    BY <2>1, <2>3
<1>3. ASSUME NEW u \in Uploads, ReadForContent(u)
      PROVE  UInv' /\ Around
  <2>1. Welcome(Request("content", u, None, None, None))
    BY <1>3 DEF ReadForContent, Welcome, Request, Requests, Open
  <2>2. QED
    BY <2>1, <1>1, <1>3 DEF ReadForContent, Arrive
<1>4. ASSUME NEW u \in Uploads, NEW k \in Keys, ReadForComplete(u, k)
      PROVE  UInv' /\ Around
  <2>1. record[k] \in Uploads \cup {None}
    BY DEF UInv, TypeOK
  <2>2. Welcome(Request("complete", u, k, record[k], None))
    BY <1>4, <2>1 DEF ReadForComplete, Welcome, Request, Requests
  <2>3. QED
    BY <2>2, <1>1, <1>4 DEF ReadForComplete, Arrive
<1>5. ASSUME NEW u \in Uploads, ReadExpired(u)
      PROVE  UInv' /\ Around
  <2>1. Welcome(Request("expire", u, None, None, "FAILED"))
    BY <1>5 DEF ReadExpired, Welcome, Request, Requests, Open, ItemEnds
  <2>2. QED
    BY <2>1, <1>1, <1>5 DEF ReadExpired, Arrive
<1>6. ASSUME NEW u \in Uploads, Abort(u)
      PROVE  UInv' /\ Around
  <2>1. Welcome(Request("terminate", u, None, None, "CANCELED"))
    BY <1>6 DEF Abort, Welcome, Request, Requests, ItemEnds
  <2>2. QED
    BY <2>1, <1>1, <1>6 DEF Abort, Arrive
<1>7. ASSUME NEW r \in requests, Fault(r), UNCHANGED <<rows, txns, overlapped>>
      PROVE  UInv' /\ Around
  <2>1. Welcome(Request("terminate", r.of, None, None, "FAILED"))
    BY <1>0 DEF Welcome, Request, Requests, ItemEnds
  <2>2. QED
    BY <2>1, <1>1, <1>7 DEF Fault
<1>8. ASSUME NEW r \in requests, requests' = requests \ {r}, UNCHANGED <<rows, txns, overlapped>>
      PROVE  UInv' /\ Around
  BY <1>8, <1>S, Answered DEF rows
<1>9. ASSUME NEW u \in Uploads, NEW to \in ItemEnds, BeginParseEnd(u, to)
      PROVE  UInv' /\ Around
  <2>. DEFINE t == [kind |-> "parse", of |-> u, to |-> to, seen |-> item]
  <2>1. t \in Txns /\ t.kind = "parse" /\ t.of = u /\ t.seen = item
    BY DEF UInv, TypeOK, Txns
  <2>2. session[u].status # "none" /\ parse[u] = "live" /\ VersionFree(u)
    BY <1>9 DEF BeginParseEnd, UInv, Born
  <2>3. txns' = txns \cup {t} /\ overlapped' = (overlapped \/ (InBatch(u) /\ txns # {}))
        /\ UNCHANGED rows /\ requests' = requests
    BY <1>9 DEF BeginParseEnd
  <2>. HIDE DEF t
  <2>4. UInv'
    BY <2>1, <2>2, <2>3, Beginning
  <2>5. QED
    BY <2>3, <2>4, <1>S DEF rows
<1>10. ASSUME NEW r \in requests, MarkContentUploaded(r)
       PROVE  UInv' /\ Around
  <2>1. session[r.of].status # "none" /\ session' = Marked(r.of) /\ requests' \subseteq requests
        /\ UNCHANGED <<document, item, batch, version, parse, record, txns, overlapped>>
    BY <1>0, <1>10 DEF MarkContentUploaded, Welcome
  <2>2. UInv'
    BY <1>0, <2>1, Marking
  <2>3. Around
    BY <1>0, <2>1 DEF Around, InBatch, Marked, UInv, TypeOK, Sessions
  <2>4. QED
    BY <2>2, <2>3
<1>11. ASSUME NEW r \in requests, BeginEnd(r)
       PROVE  UInv' /\ Around
  <2>. DEFINE t == [kind |-> r.kind, of |-> r.of, to |-> r.to, seen |-> item]
  <2>1. t \in Txns /\ t.kind = r.kind /\ t.of = r.of /\ t.seen = item
    BY <1>0, <1>11 DEF UInv, TypeOK, Txns, BeginEnd, Welcome
  <2>2. /\ session[r.of].status # "none" /\ r.kind # "parse" /\ SessionFree(r.of)
        /\ r.kind = "terminate" => session[r.of].status \in Open
    BY <1>0, <1>11 DEF BeginEnd, Welcome, Terminable
  <2>3. txns' = txns \cup {t} /\ overlapped' = (overlapped \/ (InBatch(r.of) /\ txns # {}))
        /\ UNCHANGED rows /\ requests' \subseteq requests
    BY <1>11 DEF BeginEnd
  <2>. HIDE DEF t
  <2>4. UInv'
    BY <2>1, <2>2, <2>3, Beginning
  <2>5. QED
    BY <2>3, <2>4, <1>S DEF rows
<1>12. ASSUME NEW r \in requests, RegisterRaw(r)
       PROVE  UInv' /\ Around
  <2>1. r.key \in Keys /\ record[r.key] = None /\ Register(r.of)
        /\ record' = [record EXCEPT ![r.key] = r.of] /\ requests' \subseteq requests
    BY <1>0, <1>12 DEF RegisterRaw, Welcome
  <2>2. UInv'
    BY <1>0, <2>1, Registering DEF AllKeys
  <2>3. \A c \in SyncKeys : record'[c] = record[c]
    BY <2>1 DEF UInv, TypeOK
  <2>4. session' = [session EXCEPT ![r.of].status = "COMPLETED"] /\ session[r.of].status = "UPLOADING"
        /\ parse' = [parse EXCEPT ![r.of] = "live"] /\ item' = WithItem(r.of, "PROCESSING")
    BY <2>1 DEF Register, Registrable
  <2>5. parse[r.of] # "ended"
    BY <1>0, <2>4 DEF UInv, Born
  <2>6. Around
    BY <1>0, <2>3, <2>4, <2>5 DEF Around, InBatch, WithItem, UInv, TypeOK, Sessions
  <2>7. QED
    BY <2>2, <2>6
<1>13. ASSUME NEW t \in txns, CommitEnd(t)
       PROVE  UInv' /\ Around
  <2>1. UInv'
    BY <1>13, Ending
  <2>2. t.to # "none"
    BY DEF UInv, TypeOK, Txns, ItemEnds
  <2>3. Around
    BY <1>0, <1>13, <2>2 DEF Around, CommitEnd, InBatch, UInv, TypeOK, Sessions, Meant
  <2>4. QED
    BY <2>1, <2>3
<1>14. ASSUME NEW t \in txns, CommitParseEnd(t)
       PROVE  UInv' /\ Around
  <2>1. UInv'
    BY <1>14, ParseEnding
  <2>2. t.to # "none"
    BY DEF UInv, TypeOK, Txns, ItemEnds
  <2>3. Around
    BY <1>0, <1>14, <2>2 DEF Around, CommitParseEnd, WithItem, InBatch, UInv, TypeOK
  <2>4. QED
    BY <2>1, <2>3
<1>15. ASSUME NEW d \in Sources, ArchiveSource(d)
       PROVE  UInv' /\ Around
  BY <1>15, <1>S, Archiving DEF ArchiveSource
<1>16. Fill => UInv' /\ Around
  BY <1>2, <1>3, <1>4 DEF Fill
<1>17. ASSUME NEW r \in requests,
              \/ MarkContentUploaded(r) \/ Mismatch(r) \/ NothingToTerminate(r) \/ BeginEnd(r)
              \/ RegisterRaw(r) \/ ReplayComplete(r) \/ RefuseComplete(r)
       PROVE  UInv' /\ Around
  <2>1. CASE Mismatch(r) \/ RefuseComplete(r)
    BY <2>1, <1>7 DEF Mismatch, RefuseComplete
  <2>2. CASE NothingToTerminate(r) \/ ReplayComplete(r)
    BY <2>2, <1>8 DEF NothingToTerminate, ReplayComplete
  <2>3. QED
    BY <1>17, <2>1, <2>2, <1>10, <1>11, <1>12
<1>18. Proceed => UInv' /\ Around
  BY <1>5, <1>6, <1>9, <1>13, <1>14, <1>15, <1>17 DEF Proceed
<1>19. QED
  BY <1>16, <1>18 DEF Users

-----------------------------------------------------------------------------
(* The sync run *)

LEMMA UploadsStay ==
  ASSUME UInv, UNCHANGED vars
  PROVE  UInv'
  BY Answered DEF vars

\* An attempt moves on, or goes, and nothing else changes but what the workflow or the rows say.
LEMMA AttemptMoves ==
  ASSUME AttemptsFit, SyncTypeOK, UNCHANGED <<made, record>>, NEW b \in Attempts,
         attempts' \subseteq attempts \cup {b},
         /\ b.at \notin {"begun", "refused"} => b.content \in SyncKeys
         /\ b.at \in {"created", "marked", "registered"} => made[b.content] # None
         /\ b.at = "registered" => record[b.content] = made[b.content]
  PROVE  AttemptsFit' /\ attempts' \subseteq Attempts
  BY DEF AttemptsFit, SyncTypeOK

\* The session of a content is created, with its record.
LEMMA SessionMade ==
  ASSUME UInv, SInv, NEW a \in attempts, NEW u \in Uploads, a.at = "read", Unmade(a.content),
         CreateSession(u, u, None), made' = [made EXCEPT ![a.content] = u],
         UNCHANGED <<item, batch, overlapped>>, Goes(a, "created"),
         UNCHANGED <<scenario, run, connector, flow, tries>>
  PROVE  UInv' /\ SInv'
<1>. PICK c \in SyncKeys : c = a.content
  BY DEF SInv, AttemptsFit
<1>1. UInv'
  BY Creating DEF Sources
<1>2. /\ made[c] = None /\ made'[c] = u /\ \A b \in SyncKeys : b # c => made'[b] = made[b]
      /\ made' \in [SyncKeys -> Uploads \cup {None}]
  BY DEF SInv, SyncTypeOK, Unmade
<1>3. /\ session[u].status = "none" /\ item[u] = "none" /\ session'[u].status = "INITIATED"
      /\ \A v \in Uploads : v # u => session'[v] = session[v]
      /\ UNCHANGED <<item, parse, record>>
  BY DEF UInv, TypeOK, Born, CreateSession
<1>4. a \in Attempts /\ [a EXCEPT !.at = "created"] \in Attempts
  BY DEF SInv, SyncTypeOK, Attempts
<1>5. SyncTypeOK'
  BY <1>2, <1>4 DEF SInv, SyncTypeOK, Goes
<1>6. MadeFits'
  <2>1. \A b \in SyncKeys : made'[b] # None => session'[made'[b]].status # "none" /\ item'[made'[b]] = "none"
    BY <1>2, <1>3 DEF SInv, MadeFits, InBatch, SyncTypeOK
  <2>2. ASSUME NEW v \in Uploads, session'[v].status # "none", item'[v] = "none"
        PROVE  \E b \in SyncKeys : made'[b] = v
    <3>1. CASE v = u
      BY <3>1, <1>2
    <3>2. CASE v # u
      <4>1. PICK b \in SyncKeys : made[b] = v
        BY <2>2, <3>2, <1>3 DEF SInv, MadeFits, InBatch
      <4>2. b # c
        BY <4>1, <1>2
      <4>3. QED
        BY <4>1, <4>2, <1>2
    <3>3. QED
      BY <3>1, <3>2
  <2>3. \A b \in SyncKeys : record'[b] \in {None, made'[b]}
    BY <1>2, <1>3 DEF SInv, MadeFits
  <2>4. IsFiniteSet({b \in SyncKeys : made'[b] # None})
    <3>1. {b \in SyncKeys : made'[b] # None} = {b \in SyncKeys : made[b] # None} \cup {c}
      BY <1>2
    <3>2. IsFiniteSet({b \in SyncKeys : made[b] # None} \cup {c})
      BY FS_AddElement DEF SInv, MadeFits
    <3>3. QED
      BY <3>1, <3>2
  <2>5. QED
    BY <2>1, <2>2, <2>3, <2>4 DEF MadeFits, InBatch
<1>7. AttemptsFit'
  <2>1. \A b \in attempts : b.at # "begun" /\ b.at # "refused" => b.content \in SyncKeys
    BY DEF SInv, AttemptsFit
  <2>2. \A b \in attempts : b.at \in {"created", "marked", "registered"} => made'[b.content] = made[b.content]
    BY <1>2, <2>1 DEF SInv, AttemptsFit
  <2>3. \A b \in attempts : b.at \in {"created", "marked", "registered"} => made'[b.content] # None
    BY <2>2 DEF SInv, AttemptsFit
  <2>4. \A b \in attempts : b.at = "registered" => record'[b.content] = made'[b.content]
    BY <2>2, <1>3 DEF SInv, AttemptsFit
  <2>5. \A b \in attempts' : b \in attempts \/ (b.at = "created" /\ b.content = c)
    BY <1>4 DEF Goes, Attempts
  <2>6. QED
    BY <2>1, <2>3, <2>4, <2>5, <1>2 DEF AttemptsFit
<1>8. FlowFits' /\ SyncIsTrue'
  BY <1>3 DEF SInv, FlowFits, SyncIsTrue
<1>9. QED
  BY <1>1, <1>5, <1>6, <1>7, <1>8 DEF SInv

LEMMA CreateSyncUploadStep ==
  ASSUME UInv, SInv, NEW a \in attempts, CreateSyncUpload(a)
  PROVE  UInv' /\ SInv'
<1>. PICK c \in SyncKeys : c = a.content
  BY DEF SInv, AttemptsFit, CreateSyncUpload
<1>1. CASE ~Unmade(a.content) /\ UNCHANGED <<vars, made>>
  <2>1. a \in Attempts /\ [a EXCEPT !.at = "created"] \in Attempts
    BY DEF SInv, SyncTypeOK, Attempts
  <2>2. /\ UNCHANGED <<made, record>> /\ made[c] # None
        /\ attempts' \subseteq attempts \cup {[a EXCEPT !.at = "created"]}
    BY <1>1 DEF CreateSyncUpload, Goes, Unmade, vars, rows
  <2>3. [a EXCEPT !.at = "created"].at = "created" /\ [a EXCEPT !.at = "created"].content = c
    BY <2>1 DEF Attempts
  <2>4. AttemptsFit' /\ attempts' \subseteq Attempts
    BY <2>1, <2>2, <2>3, AttemptMoves DEF SInv
  <2>5. QED
    BY <1>1, <2>4, UploadsStay DEF SInv, SyncTypeOK, MadeFits, FlowFits, SyncIsTrue, InBatch, CreateSyncUpload, vars, rows
<1>2. CASE /\ Unmade(a.content)
           /\ \E u \in Uploads : CreateSession(u, u, None) /\ made' = [made EXCEPT ![a.content] = u]
           /\ UNCHANGED <<item, batch, overlapped>>
  BY <1>2, SessionMade DEF CreateSyncUpload
<1>3. QED
  BY <1>1, <1>2 DEF CreateSyncUpload

LEMMA MarkSyncContentStep ==
  ASSUME UInv, SInv, NEW a \in attempts, MarkSyncContent(a)
  PROVE  UInv' /\ SInv'
<1>. PICK c \in SyncKeys : c = a.content
  BY DEF SInv, AttemptsFit, MarkSyncContent
<1>. PICK u \in Uploads : u = made[c]
  BY DEF SInv, AttemptsFit, SyncTypeOK, MarkSyncContent
<1>. PICK b : b = [a EXCEPT !.at = IF session[u].status \in Open THEN "marked" ELSE "refused"]
  OBVIOUS
<1>1. /\ session[u].status # "none" /\ session' = Marked(u)
      /\ UNCHANGED <<document, item, batch, version, parse, record, requests, txns, overlapped>>
      /\ UNCHANGED <<scenario, made, run, connector, flow, tries>>
      /\ attempts' = (attempts \ {a}) \cup {b}
  BY DEF SInv, MadeFits, MarkSyncContent, Goes
<1>2. UInv'
  BY <1>1, Marking
<1>3. \A v \in Uploads : session'[v].status = "none" <=> session[v].status = "none"
  BY <1>1 DEF UInv, TypeOK, Marked, Sessions
<1>4. b \in Attempts /\ b.content = c /\ b.at \in {"marked", "refused"}
  BY DEF SInv, SyncTypeOK, Attempts
<1>5. made[c] # None
  OBVIOUS
<1>6. AttemptsFit' /\ attempts' \subseteq Attempts
  BY <1>1, <1>4, <1>5, AttemptMoves DEF SInv
<1>7. SyncTypeOK' /\ FlowFits' /\ SyncIsTrue'
  BY <1>1, <1>6 DEF SInv, SyncTypeOK, FlowFits, SyncIsTrue
<1>8. MadeFits'
  BY <1>1, <1>3 DEF SInv, MadeFits, InBatch, SyncTypeOK
<1>9. QED
  BY <1>2, <1>6, <1>7, <1>8 DEF SInv

LEMMA RegisterSyncStep ==
  ASSUME UInv, SInv, NEW a \in attempts, RegisterSync(a)
  PROVE  UInv' /\ SInv'
<1>. PICK c \in SyncKeys : c = a.content
  BY DEF SInv, AttemptsFit, RegisterSync
<1>. PICK u \in Uploads : u = made[c]
  BY DEF SInv, AttemptsFit, SyncTypeOK, RegisterSync
<1>. PICK b : b = [a EXCEPT !.at = "registered"]
  OBVIOUS
<1>1. /\ record[c] = None /\ Register(u) /\ record' = [record EXCEPT ![c] = u]
      /\ UNCHANGED <<requests, scenario, made, run, connector, flow, tries>>
      /\ attempts' = (attempts \ {a}) \cup {b}
  BY DEF RegisterSync, Goes
<1>2. UInv'
  BY <1>1, Registering DEF AllKeys
<1>3. session' = [session EXCEPT ![u].status = "COMPLETED"] /\ session[u].status = "UPLOADING"
      /\ parse' = [parse EXCEPT ![u] = "live"] /\ item' = WithItem(u, "PROCESSING")
  BY <1>1 DEF Register, Registrable
<1>4. item[u] = "none" /\ item' = item
  BY <1>3 DEF SInv, MadeFits, InBatch, WithItem
<1>5. \A v \in Uploads : session'[v].status = "none" <=> session[v].status = "none"
  BY <1>3 DEF UInv, TypeOK, Sessions
<1>6. parse[u] = "none" /\ \A v \in Uploads : v # u => parse'[v] = parse[v]
  BY <1>3 DEF UInv, TypeOK, Born
<1>7. record'[c] = u /\ \A k \in SyncKeys : k # c => record'[k] = record[k]
  BY <1>1 DEF UInv, TypeOK
<1>8. b \in Attempts /\ b.content = c /\ b.at = "registered"
  BY DEF SInv, SyncTypeOK, Attempts
<1>9. SyncTypeOK'
  BY <1>1, <1>8 DEF SInv, SyncTypeOK
<1>10. MadeFits'
  BY <1>1, <1>4, <1>5, <1>7 DEF SInv, MadeFits, InBatch, SyncTypeOK
<1>11. AttemptsFit'
  <2>1. \A k \in SyncKeys : record[k] # None => record'[k] = record[k]
    BY <1>1, <1>7
  <2>2. \A k \in SyncKeys : made[k] # None => made[k] \in Uploads
    BY DEF SInv, SyncTypeOK
  <2>3. \A e \in attempts : e.at = "registered" => record'[e.content] = made[e.content]
    BY <2>1 DEF SInv, AttemptsFit
  <2>4. QED
    BY <1>1, <1>7, <1>8, <2>3 DEF SInv, AttemptsFit
<1>12. FlowFits'
  <2>1. \A k \in SyncKeys : record[k] # None => record'[k] = record[k]
    BY <1>1, <1>7
  <2>2. \A v \in Uploads : parse[v] = "ended" => parse'[v] = "ended"
    BY <1>6
  <2>3. flow.upload \in Uploads \cup {None}
    BY DEF SInv, SyncTypeOK, Flows
  <2>4. QED
    BY <1>1, <2>1, <2>2, <2>3 DEF SInv, FlowFits
<1>13. SyncIsTrue'
  <2>1. \A k \in SyncKeys : record[k] # None => record'[k] = record[k] /\ record[k] \in Uploads
    BY <1>1, <1>7 DEF UInv, TypeOK
  <2>2. \A v \in Uploads : parse[v] = "ended" => parse'[v] = "ended"
    BY <1>6
  <2>3. run.version \in Uploads \cup {None} /\ connector.watermark \in SyncKeys \cup {None}
    BY DEF SInv, SyncTypeOK, RunRows, Connectors
  <2>4. QED
    BY <1>1, <2>1, <2>2, <2>3 DEF SInv, SyncIsTrue
<1>14. QED
  BY <1>2, <1>9, <1>10, <1>11, <1>12, <1>13 DEF SInv

\* The steps that change neither an upload nor which session a content has: the routes ...
LEMMA RouteStep ==
  ASSUME SInv, UNCHANGED vars,
         CreateConnectorInstance \/ CreateSyncRun \/ StartSync \/ MarkSyncStarted
  PROVE  SInv'
<1>1. UNCHANGED <<item, session, record, parse, scenario, made, tries, attempts>>
  BY DEF vars, rows, CreateConnectorInstance, CreateSyncRun, StartSync, MarkSyncStarted
<1>2. MadeFits' /\ AttemptsFit'
  BY <1>1 DEF SInv, MadeFits, InBatch, AttemptsFit
<1>3. SyncTypeOK' /\ FlowFits' /\ SyncIsTrue'
  <2>1. CASE CreateConnectorInstance
    BY <1>1, <2>1 DEF SInv, SyncTypeOK, FlowFits, SyncIsTrue, CreateConnectorInstance, Connectors
  <2>2. CASE CreateSyncRun \/ MarkSyncStarted
    BY <1>1, <2>2 DEF SInv, SyncTypeOK, FlowFits, SyncIsTrue, CreateSyncRun, MarkSyncStarted, RunRows
  <2>3. CASE StartSync
    BY <1>1, <2>3 DEF SInv, SyncTypeOK, FlowFits, SyncIsTrue, StartSync, Flows
  <2>4. QED
    BY <2>1, <2>2, <2>3
<1>4. QED
  BY <1>2, <1>3 DEF SInv

\* ... the places of attempts ...
LEMMA AttemptStep ==
  ASSUME SInv, UNCHANGED vars,
         ScheduleSync \/ \E a \in attempts :
            ReadSource(a) \/ NotRegistered(a) \/ ReportSync(a) \/ FailAttempt(a) \/ Die(a)
  PROVE  SInv'
<1>1. UNCHANGED <<item, session, record, parse, scenario, made, connector>>
  BY DEF vars, rows, ScheduleSync, ReadSource, NotRegistered, ReportSync, FailAttempt, Die
<1>2. MadeFits'
  BY <1>1 DEF SInv, MadeFits, InBatch
<1>3. CASE ScheduleSync
  <2>. PICK b : b = [n |-> tries + 1, at |-> "begun", content |-> None]
    OBVIOUS
  <2>1. b \in Attempts /\ b.at = "begun" /\ tries' \in 0..MaxTries
    BY <1>3 DEF SInv, SyncTypeOK, Attempts, ScheduleSync
  <2>2. AttemptsFit' /\ attempts' \subseteq Attempts
    BY <1>1, <1>3, <2>1, AttemptMoves DEF SInv, ScheduleSync
  <2>3. QED
    BY <1>1, <1>2, <1>3, <2>1, <2>2 DEF SInv, SyncTypeOK, FlowFits, SyncIsTrue, ScheduleSync
<1>4. ASSUME NEW a \in attempts, ReadSource(a)
      PROVE  SInv'
  <2>. PICK c \in SyncKeys : attempts' = (attempts \ {a}) \cup {[a EXCEPT !.at = "read", !.content = c]}
    BY <1>4 DEF ReadSource
  <2>. PICK b : b = [a EXCEPT !.at = "read", !.content = c]
    OBVIOUS
  <2>1. b \in Attempts /\ b.at = "read" /\ b.content = c
    BY DEF SInv, SyncTypeOK, Attempts
  <2>2. AttemptsFit' /\ attempts' \subseteq Attempts
    BY <1>1, <2>1, AttemptMoves DEF SInv
  <2>3. QED
    BY <1>1, <1>2, <1>4, <2>2 DEF SInv, SyncTypeOK, FlowFits, SyncIsTrue, ReadSource
<1>5. ASSUME NEW a \in attempts, NotRegistered(a)
      PROVE  SInv'
  <2>. PICK c \in SyncKeys : c = a.content
    BY <1>5 DEF NotRegistered, SInv, AttemptsFit
  <2>1. PICK b : /\ b \in {[a EXCEPT !.at = "registered"], [a EXCEPT !.at = "refused"]}
                 /\ b.at = "registered" => record[c] = made[c]
                 /\ attempts' = (attempts \ {a}) \cup {b}
    <3>1. [a EXCEPT !.at = "refused"].at = "refused"
      BY DEF SInv, SyncTypeOK, Attempts
    <3>2. QED
      BY <1>5, <3>1 DEF NotRegistered, Goes
  <2>2. b \in Attempts /\ b.at \in {"registered", "refused"} /\ b.content = c /\ made[c] # None
    BY <1>5, <2>1 DEF SInv, SyncTypeOK, Attempts, AttemptsFit, NotRegistered
  <2>3. AttemptsFit' /\ attempts' \subseteq Attempts
    BY <1>1, <2>1, <2>2, AttemptMoves DEF SInv
  <2>4. QED
    BY <1>1, <1>2, <1>5, <2>3 DEF SInv, SyncTypeOK, FlowFits, SyncIsTrue, NotRegistered
<1>6. ASSUME NEW a \in attempts, Leaves(a)
      PROVE  AttemptsFit' /\ attempts' \subseteq Attempts
  BY <1>1, <1>6 DEF Leaves, SInv, AttemptsFit, SyncTypeOK
<1>7. ASSUME NEW a \in attempts, ReportSync(a)
      PROVE  SInv'
  <2>1. /\ a.content \in SyncKeys /\ made[a.content] \in Uploads /\ made[a.content] # None
        /\ record[a.content] = made[a.content]
    BY <1>7 DEF ReportSync, SInv, AttemptsFit, SyncTypeOK
  <2>2. flow' \in Flows /\ FlowFits'
    BY <1>1, <1>7, <2>1 DEF ReportSync, SInv, SyncTypeOK, FlowFits, Flows
  <2>3. QED
    BY <1>1, <1>2, <1>6, <1>7, <2>2 DEF SInv, SyncTypeOK, SyncIsTrue, ReportSync
<1>8. ASSUME NEW a \in attempts, FailAttempt(a)
      PROVE  SInv'
  <2>1. flow' \in Flows /\ FlowFits'
    BY <1>1, <1>8 DEF FailAttempt, SInv, SyncTypeOK, FlowFits, Flows
  <2>2. QED
    BY <1>1, <1>2, <1>6, <1>8, <2>1 DEF SInv, SyncTypeOK, SyncIsTrue, FailAttempt, RunRows
<1>9. ASSUME NEW a \in attempts, Die(a)
      PROVE  SInv'
  BY <1>1, <1>2, <1>6, <1>9 DEF SInv, SyncTypeOK, FlowFits, SyncIsTrue, Die
<1>10. QED
  BY <1>3, <1>4, <1>5, <1>7, <1>8, <1>9

\* ... and the workflow.
LEMMA FlowStep ==
  ASSUME UInv, SInv, UNCHANGED vars, GiveUpSync \/ ParseSync \/ CompleteSync
  PROVE  SInv'
<1>1. UNCHANGED <<item, session, record, parse, scenario, made, tries, attempts>>
  BY DEF vars, rows, GiveUpSync, ParseSync, CompleteSync
<1>2. MadeFits' /\ AttemptsFit'
  BY <1>1 DEF SInv, MadeFits, InBatch, AttemptsFit
<1>3. CASE GiveUpSync
  BY <1>1, <1>2, <1>3 DEF SInv, SyncTypeOK, FlowFits, SyncIsTrue, GiveUpSync, Flows
<1>4. CASE ParseSync
  BY <1>1, <1>2, <1>4 DEF SInv, SyncTypeOK, FlowFits, SyncIsTrue, ParseSync, ChildOver, Flows
<1>5. CASE CompleteSync
  <2>1. /\ flow.content \in SyncKeys /\ flow.upload \in Uploads /\ flow.upload # None
        /\ record[flow.content] = flow.upload /\ parse[flow.upload] = "ended"
    BY <1>5 DEF SInv, FlowFits, SyncTypeOK, Flows, CompleteSync
  <2>2. flow' \in Flows /\ FlowFits'
    BY <1>1, <1>5, <2>1 DEF SInv, SyncTypeOK, FlowFits, Flows, CompleteSync
  <2>3. run' \in RunRows /\ connector' \in Connectors /\ SyncIsTrue'
    BY <1>1, <1>5, <2>1 DEF SInv, SyncTypeOK, SyncIsTrue, RunRows, Connectors, CompleteSync
  <2>4. QED
    BY <1>1, <1>2, <1>5, <2>2, <2>3 DEF SInv, SyncTypeOK
<1>6. QED
  BY <1>3, <1>4, <1>5

-----------------------------------------------------------------------------
LEMMA InvInit == SyncInit => UInv /\ SInv
<1>. SUFFICES ASSUME SyncInit
              PROVE  UInv /\ SInv
  OBVIOUS
<1>1. TypeOK
  BY DEF SyncInit, Init, TypeOK, Documents, Sessions, Items, Batches
<1>2. Meant /\ OneHolder /\ Born /\ BatchTold
  BY DEF SyncInit, Init, Meant, OneHolder, Born, BatchTold, Sources
<1>3. Recorded /\ Replaced
  BY DEF SyncInit, Init, Recorded, Replaced, Succeeds, AllKeys, Sources
<1>4. SyncTypeOK /\ AttemptsFit /\ FlowFits /\ SyncIsTrue
  BY DEF SyncInit, SyncTypeOK, AttemptsFit, FlowFits, SyncIsTrue, RunRows, Connectors, Flows
<1>5. MadeFits
  <2>1. {c \in SyncKeys : made[c] # None} = {}
    BY DEF SyncInit
  <2>2. IsFiniteSet({c \in SyncKeys : made[c] # None})
    BY <2>1, FS_EmptySet
  <2>3. QED
    BY <2>2 DEF SyncInit, Init, MadeFits
<1>6. QED
  BY <1>1, <1>2, <1>3, <1>4, <1>5 DEF UInv, SInv

LEMMA InvNext ==
  ASSUME UInv, SInv, [AllNext]_allVars
  PROVE  UInv' /\ SInv'
<1>1. CASE UNCHANGED allVars
  BY <1>1, UploadsStay
     DEF allVars, syncVars, vars, rows, SInv, SyncTypeOK, MadeFits, InBatch, AttemptsFit, FlowFits, SyncIsTrue
<1>2. CASE Users /\ UNCHANGED syncVars
  BY <1>2, UsersStep, Unmoved
<1>3. CASE CreateConnectorInstance \/ CreateSyncRun \/ StartSync \/ MarkSyncStarted
  <2>1. UNCHANGED vars
    BY <1>3 DEF CreateConnectorInstance, CreateSyncRun, StartSync, MarkSyncStarted
  <2>2. QED
    BY <1>3, <2>1, RouteStep, UploadsStay
<1>4. CASE ScheduleSync
  BY <1>4, AttemptStep, UploadsStay DEF ScheduleSync
<1>5. CASE GiveUpSync \/ ParseSync \/ CompleteSync
  <2>1. UNCHANGED vars
    BY <1>5 DEF GiveUpSync, ParseSync, CompleteSync
  <2>2. QED
    BY <1>5, <2>1, FlowStep, UploadsStay
<1>6. ASSUME NEW a \in attempts,
             ReadSource(a) \/ NotRegistered(a) \/ ReportSync(a) \/ FailAttempt(a) \/ Die(a)
      PROVE  UInv' /\ SInv'
  <2>1. UNCHANGED vars
    BY <1>6 DEF ReadSource, NotRegistered, ReportSync, FailAttempt, Die
  <2>2. QED
    BY <1>6, <2>1, AttemptStep, UploadsStay
<1>7. QED
  BY <1>1, <1>2, <1>3, <1>4, <1>5, <1>6, CreateSyncUploadStep, MarkSyncContentStep, RegisterSyncStep
     DEF AllNext, SyncNext

LEMMA Invariance == SyncSpec => [](UInv /\ SInv)
  BY InvInit, InvNext, PTL DEF SyncSpec

-----------------------------------------------------------------------------
LEMMA RecordsCounted == UInv => OneRecordPerCompletion
<1>. SUFFICES ASSUME UInv, NEW u \in Uploads
              PROVE  Cardinality({k \in AllKeys : record[k] = u}) = IF version[u] = "none" THEN 0 ELSE 1
  BY DEF OneRecordPerCompletion, AllKeys
<1>1. u # None
  OBVIOUS
<1>2. CASE version[u] = "none"
  <2>1. {k \in AllKeys : record[k] = u} = {}
    BY <1>2 DEF UInv, Recorded
  <2>2. QED
    BY <1>2, <2>1, FS_EmptySet
<1>3. CASE version[u] # "none"
  <2>1. PICK k \in AllKeys : record[k] = u
    BY <1>3 DEF UInv, Recorded
  <2>2. {l \in AllKeys : record[l] = u} = {k}
    BY <1>1, <2>1 DEF UInv, Recorded
  <2>3. QED
    BY <1>3, <2>2, FS_Singleton
<1>4. QED
  BY <1>2, <1>3

LEMMA ReplacementsCounted == UInv => OneReplacement
<1>. SUFFICES ASSUME UInv, NEW p \in Sources
              PROVE  Cardinality({u \in Uploads : Succeeds(u, p)}) = IF version[p] = "SUPERSEDED" THEN 1 ELSE 0
  BY DEF OneReplacement, Succeeds
<1>1. CASE version[p] = "SUPERSEDED"
  <2>1. PICK u \in Uploads : Succeeds(u, p)
    BY <1>1 DEF UInv, Replaced
  <2>2. {v \in Uploads : Succeeds(v, p)} = {u}
    BY <2>1 DEF UInv, Replaced
  <2>3. QED
    BY <1>1, <2>2, FS_Singleton
<1>2. CASE version[p] # "SUPERSEDED"
  <2>1. {v \in Uploads : Succeeds(v, p)} = {}
    BY <1>2 DEF UInv, Replaced
  <2>2. QED
    BY <1>2, <2>1, FS_EmptySet
<1>3. QED
  BY <1>1, <1>2

LEMMA ContentsCounted == UInv /\ SInv => ContentOnce
<1>. SUFFICES ASSUME UInv, SInv
              PROVE  ContentOnce
  OBVIOUS
<1>. DEFINE S == {c \in SyncKeys : made[c] # None}
            T == {u \in Uploads : session[u].status # "none" /\ ~InBatch(u)}
            f == [c \in S |-> made[c]]
<1>1. f \in [S -> T]
  BY DEF SInv, MadeFits, SyncTypeOK
<1>2. \A u \in T : \E c \in S : f[c] = u
  <2>1. \A u \in T : u # None /\ \E c \in SyncKeys : made[c] = u
    BY DEF SInv, MadeFits
  <2>2. QED
    BY <2>1
<1>3. IsFiniteSet(S)
  BY DEF SInv, MadeFits
<1>. HIDE DEF S, T, f
<1>4. f \in Surjection(S, T)
  BY <1>1, <1>2 DEF Surjection
<1>5. Cardinality(T) <= Cardinality(S)
  BY <1>3, <1>4, FS_Surjection
<1>6. QED
  BY <1>5 DEF S, T, ContentOnce, SInv, MadeFits

\* register_raw_and_parse_job, terminate_upload, read_connector_and_register_raw and
\* complete_connector_sync_run: for any number of uploads, keys, contents, requests in flight and
\* attempts that overlap, a completion has one record, an aborted upload no version, a
\* version one replacement, and a successful run and the watermark speak of what was registered
\* and parsed.
THEOREM RowsFit == SyncSpec => []SyncRowsFit
<1>1. UInv => AbortedIsNotRegistered
  BY DEF UInv, Born, AbortedIsNotRegistered, TypeOK, Sources
<1>2. UInv /\ SInv => SyncRowsFit
  BY <1>1, RecordsCounted, ReplacementsCounted, ContentsCounted
     DEF SyncRowsFit, UploadRowsFit, UInv, SInv
<1>3. QED
  BY <1>2, Invariance, PTL

\* refresh_import_batch: for any number of items, a batch on which no two transactions
\* overlapped has the status its items give it.
THEOREM Batch == SyncSpec => []BatchIsTrue
<1>1. UInv => BatchIsTrue
  BY DEF UInv, BatchTold, Told, BatchIsTrue
<1>2. QED
  BY <1>1, Invariance, PTL
=============================================================================
