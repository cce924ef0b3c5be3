------------------------------ MODULE SpaceAccess ------------------------------
(***************************************************************************)
(* The platform services around one knowledge space: identities, the space,*)
(* its memberships, the governed objects of the tenant (model profiles,    *)
(* revisions of one prompt, one connector definition), and one managed     *)
(* object.                                                                 *)
(*                                                                         *)
(* A request reads its authority in a connection of its own, the space and *)
(* the membership first and the roles with one more statement.  Later it   *)
(* does its work in a transaction, which looks for the record of its       *)
(* idempotency key, changes one aggregate, writes the audit and outbox     *)
(* facts and inserts the record.  Nothing is locked in between, and        *)
(* READ COMMITTED lets transactions overlap.                               *)
(*                                                                         *)
(* Levels stand for classifications and clearances.  A request that is     *)
(* denied or refused changes nothing but the audit log of denials, which   *)
(* is left out; so are names, texts and settings that are only stored.     *)
(***************************************************************************)
EXTENDS Integers, Sequences, SequencesExt

CONSTANTS
    Users,        \* the identities that may come to exist, of people and of services
    Services,     \* those of services
    Admin,        \* the first administrator, whom bootstrap_local_development inserts
    Provisioned,  \* the identities there are from the start
    Clearance,    \* of each identity
    Levels,       \* classifications
    TenantPolicies, \* the tenant roles an identity may be created with
    Policies,     \* what a membership may be granted: roles and clearance
    Contents,     \* what may be uploaded
    Infected,     \* the contents the scanner objects to
    Keys,         \* idempotency keys
    MaxRequests,  \* bound: requests let in
    MaxOpen,      \* bound: requests in progress at a time
    None

\* "consumer" stands for every role that gives nothing the operations here ask for.
Roles == {"platform_admin", "tenant_admin", "space_admin", "knowledge_engineer", "consumer",
          "service"}
\* What grant_member does not refuse
SpaceRoles == Roles \ {"platform_admin", "tenant_admin"}

ASSUME AccessAssumption ==
    /\ Admin \in Provisioned /\ Provisioned \subseteq Users
    /\ None \notin Users \cup Contents /\ Services \subseteq Users
    /\ Levels \subseteq Nat /\ (\E l \in Levels : \A k \in Levels : l <= k)
    /\ Clearance \in [Users -> Levels]
    /\ TenantPolicies \subseteq SUBSET Roles
    /\ Policies \subseteq [roles : SUBSET SpaceRoles, clearance : Levels]
    /\ MaxRequests \in Nat /\ MaxOpen \in Nat

VARIABLES
    users,     \* user_identities and service_identities: those provisioned
    assigned,  \* tenant_role_assignments: the tenant roles of each identity
    space,     \* knowledge_spaces: the row
    members,   \* space_members with their roles, in the order of insertion
    governed,  \* how many model_profiles, prompt_versions and connector_definitions
    upload,    \* object_upload_sessions: status and classification
    stored,    \* object storage: the contents under keys of the session
    object,    \* managed_objects: the row
    records,   \* idempotency_records: actor, operation and key
    facts,     \* the audit and outbox rows of what succeeded
    requests,  \* those in progress
    asked      \* how many requests were let in

objectVars == <<upload, stored, object>>
platform == <<users, assigned, space, members, governed, objectVars, records, facts>>
vars == <<platform, requests, asked>>

-----------------------------------------------------------------------------
InTenant == {"user.create", "service.create", "space.create", "profile.create",
              "prompt.create", "definition.create"}
InSpace  == {"space.update", "space.archive", "membership.grant", "membership.revoke",
             "upload.create", "content"}
Spaces   == [status : {"none", "ACTIVE", "ARCHIVED"}, level : Levels, version : Nat]
Rows     == [subject : Users, status : {"ACTIVE", "REVOKED"}, roles : SUBSET SpaceRoles,
             clearance : Levels, version : Nat]
Governed == {"profile", "prompt", "definition"}
Orders   == [op : InTenant \cup InSpace, subject : Users \cup {None}, roles : SUBSET Roles,
             level : Levels, version : Nat, content : Contents \cup {None}]
Sessions == [status : {"none", "INITIATED", "EXPIRED", "COMPLETED"}, level : Levels]
Objects  == [content : Contents, clean : BOOLEAN]
Scopes   == [by : Users, op : InTenant \cup InSpace, subject : Users \cup {None}, key : Keys]
ASSUME NoneAssumption == None \notin Scopes
Facts    == [about : {"user", "space", "member", "upload", "object"} \cup Governed, id : Users \cup Nat,
             version : Nat, by : Users, scope : Scopes \cup {None},
             status : {"ACTIVE", "ARCHIVED", "REVOKED", "DRAFT", "INITIATED", "CLEAN", "INFECTED"},
             roles : SUBSET SpaceRoles]
\* "reading": the space and the membership are read; "allowed"; "looked": what the
\* transaction reads without a lock is read; "late": the session was read out of time;
\* "scanned": the content is stored and scanned
Requests == [at : {"reading", "allowed", "looked", "late", "scanned"}, by : Users,
             key : Keys \cup {None}, what : Orders, row : Nat, revision : Nat]

Least == CHOOSE l \in Levels : \A k \in Levels : l <= k

ServiceRoles == {"service"}
AdminRoles   == {"tenant_admin", "platform_admin"}

\* Tenant roles an identity may hold at the start; of those who do not exist there are none.
HeldAtFirst(u) ==
    CASE u = Admin -> {AdminRoles}
      [] u \notin Provisioned -> {{}}
      [] u \in Services -> {ServiceRoles}
      [] OTHER -> TenantPolicies

\* bootstrap_local_development, and what was provisioned since
Init ==
    /\ users = Provisioned
    /\ assigned \in [Users -> TenantPolicies \cup {AdminRoles, ServiceRoles, {}}]
    /\ \A u \in Users : assigned[u] \in HeldAtFirst(u)
    /\ space = [status |-> "none", level |-> Least, version |-> 0]
    /\ members = << >> /\ governed = [k \in Governed |-> 0]
    /\ upload = [status |-> "none", level |-> Least] /\ stored = {} /\ object = None
    /\ records = {} /\ facts = {} /\ requests = << >> /\ asked = 0

-----------------------------------------------------------------------------
(* Authority *)

\* The membership row that decides: the subject's latest by version, 0 if there is none.
RowsOf(u) == {i \in DOMAIN members : members[i].subject = u}
RowOf(u) ==
    IF RowsOf(u) = {} THEN 0
    ELSE CHOOSE i \in RowsOf(u) : \A k \in RowsOf(u) : members[k].version <= members[i].version
Active(i) == i # 0 /\ members[i].status = "ACTIVE"

\* The actions of ROLE_ACTIONS that the operations here ask for.
Actions(role) ==
    CASE role = "platform_admin" -> {"identity.manage", "space.create", "governance.manage"}
      [] role = "tenant_admin" ->
             {"identity.manage", "space.create", "space.edit", "space.archive", "member.grant",
              "member.revoke", "governance.manage", "object.upload"}
      [] role = "space_admin" ->
             {"space.edit", "space.archive", "member.grant", "member.revoke",
              "governance.manage", "object.upload"}
      [] role = "knowledge_engineer" -> {"object.upload"}
      [] OTHER -> {}

ActionOf(op) ==
    CASE op = "user.create"   -> "identity.manage"
      [] op = "service.create" -> "identity.manage"
      [] op \in {"profile.create", "prompt.create", "definition.create"} -> "governance.manage"
      [] op = "space.create"  -> "space.create"
      [] op = "space.update"  -> "space.edit"
      [] op = "space.archive" -> "space.archive"
      [] op = "membership.grant"  -> "member.grant"
      [] op = "membership.revoke" -> "member.revoke"
      [] OTHER -> "object.upload"

\* tenant_override: these need no membership of the space.
Override(u) == assigned[u] \cap {"platform_admin", "tenant_admin"} # {}
Granted(op, roles) == \E role \in roles : ActionOf(op) \in Actions(role)

\* What of authorize get_space_facts settles before it reads the roles.
Admissible(u, op, level) ==
    LET i == RowOf(u) IN
    /\ space.status = "ACTIVE"
    /\ level <= Clearance[u]
    /\ Active(i) => level <= members[i].clearance
    /\ Override(u) \/ Active(i)

\* mutation: the roles of all members of the space are read
RolesRead_Everyone(i) == IF i = 0 THEN {} ELSE UNION {members[k].roles : k \in DOMAIN members}
\* The roles of the row that was found, 0 if no active one was, as they are by now.
RolesRead(i) == IF i = 0 THEN {} ELSE members[i].roles

-----------------------------------------------------------------------------
(* A request up to its transaction *)

\* Bounds: requests open at a time, and asked in all.
Room == Len(requests) < MaxOpen /\ asked < MaxRequests

Ask(u, key, what, at, row) ==
    /\ asked' = asked + 1
    /\ requests' = Append(requests, [at |-> at, by |-> u, key |-> key, what |-> what,
                                     row |-> row, revision |-> 0])
    /\ UNCHANGED platform

\* authorize_tenant decides on what resolve_principal has read.
AskTenant(u, key, what) ==
    /\ what.op \in InTenant /\ Granted(what.op, assigned[u])
    /\ Ask(u, key, what, "allowed", 0)

Classification(what) ==
    IF what.op = "upload.create" THEN what.level
    ELSE IF what.op = "content" THEN upload.level ELSE space.level

AskSpace(u, key, what) ==
    /\ what.op \in InSpace
    /\ Admissible(u, what.op, Classification(what))
    /\ Ask(u, key, what, "reading", IF Active(RowOf(u)) THEN RowOf(u) ELSE 0)

\* upload_object_content reads the session before its authority.
AskContent(u, what) ==
    /\ upload.status = "INITIATED"
    /\ AskSpace(u, None, what)

\* get_upload_session finds the session out of time: nobody is asked for authority.
FindLate(u, what) ==
    /\ upload.status = "INITIATED"
    /\ Ask(u, None, what, "late", 0)

Move(i, r) == requests' = [requests EXCEPT ![i] = r] /\ UNCHANGED asked
Finish(i)  == requests' = RemoveAt(requests, i) /\ UNCHANGED asked

Authorize(i) ==
    LET r == requests[i] IN
    /\ r.at = "reading"
    /\ Granted(r.what.op, assigned[r.by] \cup RolesRead(r.row))
    /\ Move(i, [r EXCEPT !.at = "allowed", !.row = 0])
    /\ UNCHANGED platform

\* Denied, answered from the record of its key, refused by a rule or a constraint, or cut
\* off: the transaction is undone.
End(i) ==
    /\ Finish(i)
    /\ UNCHANGED platform

-----------------------------------------------------------------------------
(* The transaction *)

Scope(r) == [by |-> r.by, op |-> r.what.op, key |-> r.key,
             subject |-> IF r.what.op \in {"membership.grant", "membership.revoke"}
                         THEN r.what.subject ELSE None]

\* mutation: the unique constraint of the records is missing
Unrecorded_Any(r) == TRUE
Unrecorded(r) == Scope(r) \notin records

Executing(i, at, op) ==
    requests[i].at = at /\ requests[i].what.op = op /\ Unrecorded(requests[i])

\* What a transaction reads without a lock: that a subject has no membership, or the
\* revision a prompt will have.
Look(i) ==
    LET r == requests[i] IN
    /\ \/ Executing(i, "allowed", "membership.grant")
          /\ r.what.subject \in users /\ RowOf(r.what.subject) = 0
          /\ Move(i, [r EXCEPT !.at = "looked"])
       \/ Executing(i, "allowed", "prompt.create")
          /\ Move(i, [r EXCEPT !.at = "looked", !.revision = governed["prompt"] + 1])
    /\ UNCHANGED platform

Fact(r, about, id, version, status, roles) ==
    [about |-> about, id |-> id, version |-> version, by |-> r.by, status |-> status,
     roles |-> roles, scope |-> IF r.what.op = "content" THEN None ELSE Scope(r)]

\* What ends every transaction: one fact, and the record of the key.
Commit(i, about, id, version, status, roles) ==
    /\ records' = records \cup {Scope(requests[i])}
    /\ facts' = facts \cup {Fact(requests[i], about, id, version, status, roles)}
    /\ Finish(i)

\* create_user and create_service_identity: the identity and its tenant roles, of which no
\* fact tells and which nothing takes away
Provision(i, op) ==
    LET w == requests[i].what
        u == w.subject
    IN
    /\ Executing(i, "allowed", op) /\ u \notin users
    /\ users' = users \cup {u}
    /\ assigned' = [assigned EXCEPT ![u] = @ \cup w.roles]
    /\ Commit(i, "user", u, 1, "ACTIVE", {})
    /\ UNCHANGED <<space, members, governed, objectVars>>

CreateUser(i)            == Provision(i, "user.create")
CreateServiceIdentity(i) == Provision(i, "service.create")

\* create_space and _grant_creator_membership, which leaves no fact of its own
CreateSpace(i) ==
    LET r == requests[i] IN
    /\ Executing(i, "allowed", "space.create") /\ space.status = "none"
    /\ space' = [status |-> "ACTIVE", level |-> r.what.level, version |-> 1]
    /\ members' = IF r.by \in Services THEN members
                  ELSE Append(members, [subject |-> r.by, status |-> "ACTIVE",
                                        roles |-> {"space_admin"},
                                        clearance |-> Clearance[r.by], version |-> 1])
    /\ Commit(i, "space", 0, 1, "ACTIVE", {})
    /\ UNCHANGED <<users, assigned, governed, objectVars>>

\* A client names the version of the space it has read.
Editable(w) == space.status = "ACTIVE" /\ space.version = w.version

UpdateSpace(i) ==
    LET w == requests[i].what IN
    /\ Executing(i, "allowed", "space.update") /\ Editable(w)
    /\ space' = [space EXCEPT !.level = w.level, !.version = @ + 1]
    /\ Commit(i, "space", 0, space'.version, space'.status, {})
    /\ UNCHANGED <<users, assigned, members, governed, objectVars>>

\* Archiving the archived space changes nothing and is said again.
ArchiveSpace(i) ==
    /\ Executing(i, "allowed", "space.archive") /\ space.version = requests[i].what.version
    /\ space' = IF space.status = "ARCHIVED" THEN space
                ELSE [space EXCEPT !.status = "ARCHIVED", !.version = @ + 1]
    /\ Commit(i, "space", 0, space'.version, space'.status, {})
    /\ UNCHANGED <<users, assigned, members, governed, objectVars>>

\* _membership_facts
Tell(i, id) ==
    LET m == members'[id] IN Commit(i, "member", id, m.version, m.status, m.roles)

\* uq_space_members_user_active
OneActive(rows) ==
    \A k, l \in DOMAIN rows :
        rows[k].subject = rows[l].subject /\ rows[k].status = "ACTIVE" /\ rows[l].status = "ACTIVE"
            => k = l

\* A membership is inserted where none was found, whatever has happened since.
InsertMember(i) ==
    LET w == requests[i].what IN
    /\ Executing(i, "looked", "membership.grant")
    /\ members' = Append(members, [subject |-> w.subject, status |-> "ACTIVE", roles |-> w.roles,
                                   clearance |-> w.level, version |-> 1])
    /\ OneActive(members')
    /\ Tell(i, Len(members'))
    /\ UNCHANGED <<users, assigned, space, governed, objectVars>>

Renewed(m, w) == [m EXCEPT !.status = "ACTIVE", !.roles = w.roles, !.clearance = w.level,
                           !.version = @ + 1]

UpdateMember(i) ==
    LET w == requests[i].what
        id == RowOf(w.subject)
    IN
    /\ Executing(i, "allowed", "membership.grant") /\ id # 0
    /\ members' = [members EXCEPT ![id] = Renewed(@, w)]
    /\ OneActive(members')
    /\ Tell(i, id)
    /\ UNCHANGED <<users, assigned, space, governed, objectVars>>

\* Revoking what is revoked changes nothing and is said again.
Revoked(m) == IF m.status = "REVOKED" THEN m
              ELSE [m EXCEPT !.status = "REVOKED", !.version = @ + 1]

RevokeMember(i) ==
    LET id == RowOf(requests[i].what.subject) IN
    /\ Executing(i, "allowed", "membership.revoke") /\ id # 0
    /\ members' = [members EXCEPT ![id] = Revoked(@)]
    /\ Tell(i, id)
    /\ UNCHANGED <<users, assigned, space, governed, objectVars>>

CreateGoverned(i, at, op, kind, id, version) ==
    /\ Executing(i, at, op)
    /\ governed' = [governed EXCEPT ![kind] = @ + 1]
    /\ Commit(i, kind, id, version, "DRAFT", {})
    /\ UNCHANGED <<users, assigned, space, members, objectVars>>

\* Profiles may be alike.
CreateModelProfile(i) ==
    CreateGoverned(i, "allowed", "profile.create", "profile", governed["profile"] + 1, 1)

\* A prompt's revisions are unique, ...
CreatePrompt(i) ==
    /\ requests[i].revision = governed["prompt"] + 1
    /\ CreateGoverned(i, "looked", "prompt.create", "prompt", 0, requests[i].revision)

\* ... and so is the type of a connector definition.
CreateConnectorDefinition(i) ==
    /\ governed["definition"] = 0
    /\ CreateGoverned(i, "allowed", "definition.create", "definition", 0, 1)

-----------------------------------------------------------------------------
(* The managed object *)

CreateUpload(i) ==
    /\ Executing(i, "allowed", "upload.create") /\ upload.status = "none"
    /\ upload' = [status |-> "INITIATED", level |-> requests[i].what.level]
    /\ Commit(i, "upload", 0, 1, "INITIATED", {})
    /\ UNCHANGED <<users, assigned, space, members, governed, stored, object>>

\* get_upload_session writes by id alone.
ExpireUpload(i) ==
    /\ requests[i].at = "late"
    /\ upload' = [upload EXCEPT !.status = "EXPIRED"]
    /\ Finish(i)
    /\ UNCHANGED <<users, assigned, space, members, governed, stored, object, records, facts>>

\* put_if_absent under a key made of the session and the checksum, then the scan
StoreContent(i) ==
    LET r == requests[i] IN
    /\ r.at = "allowed" /\ r.what.op = "content"
    /\ stored' = stored \cup {r.what.content}
    /\ Move(i, [r EXCEPT !.at = "scanned"])
    /\ UNCHANGED <<users, assigned, space, members, governed, upload, object, records, facts>>

\* mutation: the session's status is not looked at again under the lock
Writable_Any == TRUE
Writable == upload.status = "INITIATED"

CompleteUpload(i) ==
    LET c == requests[i].what.content
        clean == c \notin Infected
    IN
    /\ requests[i].at = "scanned" /\ Writable
    /\ upload' = [upload EXCEPT !.status = "COMPLETED"]
    /\ object' = [content |-> c, clean |-> clean]
    /\ facts' = facts \cup {Fact(requests[i], "object", 0, 1,
                                 IF clean THEN "CLEAN" ELSE "INFECTED", {})}
    /\ Finish(i)
    /\ UNCHANGED <<users, assigned, space, members, governed, stored, records>>

-----------------------------------------------------------------------------
CreateOf(kind) ==
    CASE kind = "profile" -> "profile.create"
      [] kind = "prompt"  -> "prompt.create"
      [] OTHER -> "definition.create"

Blank == [op |-> "content", subject |-> None, roles |-> {}, level |-> Least, version |-> 0,
          content |-> None]

Arrive(u) ==
    /\ u \in users /\ Room
    /\ \/ \E key \in Keys :
           \/ \E s \in Users \ Services, p \in TenantPolicies :
                  AskTenant(u, key, [Blank EXCEPT !.op = "user.create", !.subject = s, !.roles = p])
           \/ \E s \in Services :
                  AskTenant(u, key, [Blank EXCEPT !.op = "service.create", !.subject = s,
                                                  !.roles = ServiceRoles])
           \/ \E l \in Levels : AskTenant(u, key, [Blank EXCEPT !.op = "space.create", !.level = l])
           \/ \E kind \in Governed : AskTenant(u, key, [Blank EXCEPT !.op = CreateOf(kind)])
           \/ \E l \in Levels : AskSpace(u, key, [Blank EXCEPT !.op = "space.update", !.level = l,
                                                               !.version = space.version])
           \/ AskSpace(u, key, [Blank EXCEPT !.op = "space.archive", !.version = space.version])
           \/ \E s \in users, p \in Policies :
                  AskSpace(u, key, [Blank EXCEPT !.op = "membership.grant", !.subject = s,
                                                 !.roles = p.roles, !.level = p.clearance])
           \/ \E s \in users : AskSpace(u, key, [Blank EXCEPT !.op = "membership.revoke", !.subject = s])
           \/ \E l \in Levels : AskSpace(u, key, [Blank EXCEPT !.op = "upload.create", !.level = l])
       \/ \E c \in Contents : AskContent(u, [Blank EXCEPT !.content = c])
       \/ FindLate(u, Blank)

Serve(i) ==
    \/ Authorize(i) \/ End(i) \/ Look(i)
    \/ CreateUser(i) \/ CreateServiceIdentity(i) \/ CreateSpace(i) \/ UpdateSpace(i) \/ ArchiveSpace(i)
    \/ InsertMember(i) \/ UpdateMember(i) \/ RevokeMember(i)
    \/ CreateModelProfile(i) \/ CreatePrompt(i) \/ CreateConnectorDefinition(i)
    \/ CreateUpload(i) \/ ExpireUpload(i) \/ StoreContent(i) \/ CompleteUpload(i)

Next == (\E u \in Users : Arrive(u)) \/ (\E i \in DOMAIN requests : Serve(i))

Spec == Init /\ [][Next]_vars

-----------------------------------------------------------------------------
TypeOK ==
    /\ Admin \in users /\ users \subseteq Users
    /\ assigned \in [Users -> SUBSET Roles]
    /\ space \in Spaces
    /\ members \in Seq(Rows)
    /\ governed \in [Governed -> Nat]
    /\ upload \in Sessions /\ stored \subseteq Contents /\ object \in Objects \cup {None}
    /\ records \subseteq Scopes
    /\ facts \subseteq Facts
    /\ requests \in Seq(Requests) /\ asked \in Nat

\* A key that was answered has exactly one effect behind it, and every effect its record.
OneEffectPerKey ==
    /\ records = {f.scope : f \in facts} \ {None}
    /\ \A f, g \in facts : f.scope = g.scope /\ f.scope # None => f = g

Said(about, id) == {f \in facts : f.about = about /\ f.id = id}

\* Two facts of one aggregate with versions that give the same version say the same of it.
VersionsAreSettled ==
    \A f, g \in facts :
        f.about = g.about /\ f.about # "object" /\ f.id = g.id /\ f.version = g.version
            => f.status = g.status /\ f.roles = g.roles

\* The facts, read by version, end where the rows stand.  The creator's membership is the
\* one row that may have no fact.
FactsAreTheRows ==
    /\ \A f \in Said("space", 0) :
           /\ f.version <= space.version
           /\ f.version = space.version => f.status = space.status
    /\ \A i \in DOMAIN members :
           /\ i = 1 \/ \E f \in Said("member", i) : f.version = members[i].version
           /\ \A f \in Said("member", i) :
                  /\ f.version <= members[i].version
                  /\ f.version = members[i].version
                         => f.status = members[i].status /\ f.roles = members[i].roles

\* What the outbox and the audit log tell of the platform is what it did: types, one
\* effect for each idempotency key (_idempotent), and for each version of an aggregate one
\* story, the last of which is the row.
FactsAreTrue == TypeOK /\ OneEffectPerKey /\ VersionsAreSettled /\ FactsAreTheRows

\* An administrator of the tenant who may administer each of its spaces ...
OverAll(u) == Override(u) /\ assigned[u] \cap {"tenant_admin", "space_admin"} # {}
\* ... an identity that created the space ...
Founds(f) == f.about = "space" /\ f.scope.op = "space.create"
Founder(u) == \E g \in facts : Founds(g) /\ g.by = u
\* ... and one that somebody else let into it, as an administrator of the space or with
\* that role in the tenant.
Invited(u) ==
    \E g \in facts : /\ g.about = "member" /\ g.id \in DOMAIN members
                     /\ members[g.id].subject = u /\ g.status = "ACTIVE" /\ g.by # u
                     /\ "space_admin" \in g.roles \cup assigned[u]

\* Identities and the space come from administrators of the tenant, and whoever changes the
\* space or a membership administers all spaces, created this one, or was let in by somebody
\* else before: authority over a space always comes from somebody who had it, however
\* requests, grants and revocations overlap (authorize, get_space_facts, grant_member).
ChainOfAuthority ==
    [][\A f \in facts' \ facts :
           /\ f.about = "user" \/ Founds(f) => Override(f.by)
           /\ f.about \in {"space", "member"} /\ ~Founds(f)
                  => OverAll(f.by) \/ Founder(f.by) \/ Invited(f.by)]_vars

\* Nothing that was allowed before changes an archived space, and of two uploads into one
\* session one registers its object, which is what is in the store and stays
\* (archive_space, complete_upload).
SettledStays ==
    [][/\ (space.status = "ARCHIVED") => (space' = space)
       /\ (object # None) => (object' = object)
       /\ (object' # None) => (object'.content \in stored)]_vars
=============================================================================
