-------------------------- MODULE SpaceAccessProofs --------------------------
(***************************************************************************)
(* Theorems about SpaceAccess, for any identities, policies, contents,     *)
(* keys and number of requests.                                            *)
(***************************************************************************)
EXTENDS SpaceAccess, SequenceTheorems, TLAPS

\* Whoever has a membership of the space was let in, in one of three ways, ...
LetIn(u) ==
    \/ OverAll(u) \/ Founder(u)
    \/ \E g \in facts : /\ g.about = "member" /\ g.id \in DOMAIN members
                       /\ members[g.id].subject = u /\ g.status = "ACTIVE" /\ g.by # u

\* ... and whoever may administer it has the authority to do so.
Warranted(u) == OverAll(u) \/ Founder(u) \/ Invited(u)

\* What a request asks for is well-formed; what it has scanned is in the store.
Meant(r) ==
    /\ r.what.op # "content" => r.key \in Keys
    /\ r.what.op \in {"user.create", "service.create", "membership.grant", "membership.revoke"}
           => r.what.subject \in Users
    /\ r.what.op = "membership.grant" => r.what.roles \in SUBSET SpaceRoles
    /\ r.what.op = "content" /\ r.at # "late" => r.what.content \in Contents
    /\ r.at = "scanned" => r.what.op = "content" /\ r.what.content \in stored

\* It has the authority it was given, or has read the row that may give it.
OfSpace == {"space.update", "space.archive", "membership.grant", "membership.revoke"}
ByTenant == {"user.create", "service.create", "space.create"}
Authorised(r) ==
    /\ r.row # 0 => r.row \in DOMAIN members /\ members[r.row].subject = r.by
    /\ r.at = "reading" => r.row # 0 \/ Override(r.by)
    /\ r.what.op \in ByTenant => Override(r.by)
    /\ r.at \in {"allowed", "looked"} /\ r.what.op \in OfSpace => Warranted(r.by)

Fine(r) == Meant(r) /\ Authorised(r)
AllFine == \A i \in DOMAIN requests : Fine(requests[i])

\* Whose row it is was let in; and if the row makes an administrator, by right.
Entitled ==
    \A k \in DOMAIN members :
        /\ LetIn(members[k].subject)
        /\ "space_admin" \in members[k].roles => Warranted(members[k].subject)

\* The session that registered an object is not open again, and the object is in the store.
ObjectClosed ==
    object # None => upload.status \notin {"none", "INITIATED"} /\ object.content \in stored

\* A subject's rows have a latest one by version, which RowOf can choose.
HasLatest ==
    \A u \in Users :
        RowsOf(u) # {} => \E i \in RowsOf(u) : \A k \in RowsOf(u) : members[k].version <= members[i].version

\* The inductive invariant
IInv == TypeOK /\ AllFine /\ Entitled /\ ObjectClosed /\ HasLatest

-----------------------------------------------------------------------------
LEMMA LeastIsLevel == Least \in Levels
  BY AccessAssumption DEF Least

LEMMA InvInit == Init => IInv
<1> SUFFICES ASSUME Init PROVE IInv
  OBVIOUS
<1>1. TypeOK
  <2>1. AdminRoles \in SUBSET Roles /\ ServiceRoles \in SUBSET Roles /\ {} \in SUBSET Roles
    BY DEF AdminRoles, ServiceRoles, Roles
  <2>2. TenantPolicies \cup {AdminRoles, ServiceRoles, {}} \subseteq SUBSET Roles
    BY <2>1, AccessAssumption, Zenon
  <2>3. assigned \in [Users -> TenantPolicies \cup {AdminRoles, ServiceRoles, {}}]
    BY DEF Init
  <2>4. assigned \in [Users -> SUBSET Roles]
    <3> DEFINE P == TenantPolicies \cup {AdminRoles, ServiceRoles, {}}
               Q == SUBSET Roles
    <3>1. assigned \in [Users -> P] /\ P \subseteq Q
      BY <2>2, <2>3
    <3> HIDE DEF P, Q
    <3>2. assigned \in [Users -> Q]
      BY <3>1
    <3>3. QED
      BY <3>2 DEF Q
  <2>5. Admin \in users /\ users \subseteq Users
    BY AccessAssumption DEF Init
  <2>6. /\ space \in Spaces /\ upload \in Sessions
        /\ members \in Seq(Rows) /\ requests \in Seq(Requests)
    BY LeastIsLevel DEF Init, Spaces, Sessions
  <2>7. governed \in [Governed -> Nat]
    BY DEF Init
  <2>8. /\ stored \subseteq Contents /\ object \in Objects \cup {None}
        /\ records \subseteq Scopes /\ facts \subseteq Facts /\ asked \in Nat
    BY DEF Init
  <2>9. QED
    BY <2>4, <2>5, <2>6, <2>7, <2>8 DEF TypeOK
<1>2. AllFine /\ Entitled /\ ObjectClosed /\ HasLatest
  BY DEF Init, AllFine, Entitled, ObjectClosed, HasLatest, RowsOf
<1>3. QED
  BY <1>1, <1>2 DEF IInv

-----------------------------------------------------------------------------
(* What a step does to the requests *)

LEMMA Finishes ==
    ASSUME TypeOK, NEW i \in DOMAIN requests, Finish(i)
    PROVE  /\ requests' \in Seq(Requests) /\ asked' = asked
           /\ \A j \in DOMAIN requests' : \E k \in DOMAIN requests : requests'[j] = requests[k]
<1> DEFINE n == Len(requests)
           p == SubSeq(requests, 1, i - 1)
           q == SubSeq(requests, i + 1, n)
<1>1. requests \in Seq(Requests) /\ n \in Nat /\ i \in 1..n /\ DOMAIN requests = 1..n
  BY DEF TypeOK
<1>2. requests' = p \o q
  BY DEF Finish, RemoveAt
<1>3. p \in Seq(Requests) /\ Len(p) = i - 1 /\ \A j \in 1..(i - 1) : p[j] = requests[j]
  <2>1. \A j \in 1..(i - 1) : requests[j] \in Requests
    BY <1>1
  <2>2. QED
    BY <1>1, <2>1, SubSeqProperties
<1>4. q \in Seq(Requests) /\ Len(q) = n - i /\ \A j \in 1..(n - i) : q[j] = requests[i + j]
  <2>1. \A j \in (i + 1)..n : requests[j] \in Requests
    BY <1>1
  <2>2. QED
    BY <1>1, <2>1, SubSeqProperties
<1> HIDE DEF n, p, q
<1>5. /\ p \o q \in Seq(Requests) /\ Len(p \o q) = n - 1
      /\ \A j \in 1..(n - 1) : (p \o q)[j] = IF j <= i - 1 THEN p[j] ELSE q[j - (i - 1)]
  <2>1. /\ p \o q \in Seq(Requests) /\ Len(p \o q) = Len(p) + Len(q)
        /\ \A j \in 1..(Len(p) + Len(q)) :
               (p \o q)[j] = IF j <= Len(p) THEN p[j] ELSE q[j - Len(p)]
    BY <1>3, <1>4, ConcatProperties, Zenon
  <2>2. Len(p) + Len(q) = n - 1
    BY <1>1, <1>3, <1>4
  <2>3. QED
    BY <1>3, <2>1, <2>2
<1>6. ASSUME NEW j \in DOMAIN requests'
      PROVE  \E k \in DOMAIN requests : requests'[j] = requests[k]
  <2>1. j \in 1..(n - 1)
    BY <1>1, <1>2, <1>5
  <2>2. CASE j <= i - 1
    <3>1. j \in 1..(i - 1) /\ j \in 1..n
      BY <1>1, <2>1, <2>2
    <3>2. requests'[j] = p[j]
      BY <1>2, <1>5, <2>1, <2>2
    <3>3. QED
      BY <1>1, <1>3, <3>1, <3>2
  <2>3. CASE j > i - 1
    <3>1. j - (i - 1) \in 1..(n - i) /\ i + (j - (i - 1)) \in 1..n
      BY <1>1, <2>1, <2>3
    <3>2. ~(j <= i - 1)
      BY <1>1, <2>1, <2>3
    <3>4. requests'[j] = q[j - (i - 1)]
      BY <1>2, <1>5, <2>1, <3>2
    <3>3. QED
      BY <1>1, <1>4, <3>1, <3>4
  <2>4. QED
    BY <1>1, <2>1, <2>2, <2>3
<1>7. QED
  BY <1>2, <1>5, <1>6 DEF Finish

LEMMA Moves ==
    ASSUME TypeOK, NEW i \in DOMAIN requests, NEW e \in Requests, Move(i, e)
    PROVE  /\ requests' \in Seq(Requests) /\ asked' = asked
           /\ \A j \in DOMAIN requests' :
                  requests'[j] = e \/ \E k \in DOMAIN requests : requests'[j] = requests[k]
  BY DEF TypeOK, Move

LEMMA Arrives ==
    ASSUME TypeOK, NEW e \in Requests, requests' = Append(requests, e)
    PROVE  /\ requests' \in Seq(Requests)
           /\ \A j \in DOMAIN requests' :
                  requests'[j] = e \/ \E k \in DOMAIN requests : requests'[j] = requests[k]
  BY DEF TypeOK

\* What a step adds to the facts and the rows warrants what they warranted before.
Grows ==
    /\ stored \subseteq stored' /\ facts \subseteq facts'
    /\ DOMAIN members \subseteq DOMAIN members'
    /\ \A k \in DOMAIN members : members'[k].subject = members[k].subject
    /\ \A u \in Users : assigned[u] \subseteq assigned'[u]

LEMMA StaysWarranted ==
    ASSUME Grows, NEW u \in Users
    PROVE  /\ Override(u) => Override(u)'
           /\ LetIn(u) => LetIn(u)'
           /\ Warranted(u) => Warranted(u)'
<1>1. /\ Override(u) => Override(u)'
      /\ OverAll(u) => OverAll(u)'
  BY DEF Grows, Override, OverAll
<1>2. Founder(u) => Founder(u)'
  BY DEF Grows, Founder, Founds
<1>3. Invited(u) => Invited(u)'
  BY DEF Grows, Invited
<1>4. LetIn(u) => LetIn(u)'
  BY <1>1, <1>2 DEF Grows, LetIn
<1>5. QED
  BY <1>1, <1>2, <1>3, <1>4 DEF Warranted

\* An administrator of spaces by tenant role is one of this space as soon as he is let in.
LEMMA WarrantedByTenant ==
    ASSUME NEW u, LetIn(u), "space_admin" \in assigned[u]
    PROVE  Warranted(u)
  BY DEF LetIn, Warranted, Invited

LEMMA WarrantedIsLetIn ==
    ASSUME NEW u, Warranted(u)
    PROVE  LetIn(u)
  BY DEF LetIn, Warranted, Invited

LEMMA StaysFine ==
    ASSUME Grows, NEW r \in Requests, Fine(r)
    PROVE  Fine(r)'
<1>1. Meant(r)'
  BY DEF Grows, Fine, Meant
<1>2. Authorised(r)'
  <2>1. r.by \in Users
    BY DEF Requests
  <2>2. QED
    BY <2>1, StaysWarranted DEF Grows, Fine, Authorised
<1>3. QED
  BY <1>1, <1>2 DEF Fine

\* The requests after a step: those before, and some that are fine.
LEMMA StillFine ==
    ASSUME IInv, Grows, NEW S, \A e \in S : Fine(e)',
           \A j \in DOMAIN requests' :
               requests'[j] \in S \/ \E k \in DOMAIN requests : requests'[j] = requests[k]
    PROVE  AllFine'
<1> SUFFICES ASSUME NEW j \in DOMAIN requests', NEW r, r = requests'[j] PROVE Fine(r)'
  BY DEF AllFine
<1>1. CASE r \in S
  BY <1>1
<1>2. ASSUME NEW k \in DOMAIN requests, r = requests[k] PROVE Fine(r)'
  <2>1. requests[k] \in Requests /\ Fine(requests[k])
    BY <1>2 DEF IInv, TypeOK, AllFine
  <2>2. QED
    BY <1>2, <2>1, StaysFine
<1>3. QED
  BY <1>1, <1>2

-----------------------------------------------------------------------------
(* What a step does to the memberships *)

LEMMA RowFacts ==
    ASSUME IInv, NEW u \in Users
    PROVE  \/ RowOf(u) = 0 /\ RowsOf(u) = {}
           \/ /\ RowOf(u) \in DOMAIN members /\ members[RowOf(u)].subject = u
              /\ \A k \in RowsOf(u) : members[k].version <= members[RowOf(u)].version
<1>1. CASE RowsOf(u) = {}
  BY <1>1 DEF RowOf
<1>2. CASE RowsOf(u) # {}
  <2>1. \E i \in RowsOf(u) : \A k \in RowsOf(u) : members[k].version <= members[i].version
    BY <1>2 DEF IInv, HasLatest
  <2>2. /\ RowOf(u) \in RowsOf(u)
        /\ \A k \in RowsOf(u) : members[k].version <= members[RowOf(u)].version
    BY <1>2, <2>1 DEF RowOf
  <2>3. QED
    BY <2>2 DEF RowsOf
<1>3. QED
  BY <1>1, <1>2

LEMMA Inserts ==
    ASSUME IInv, NEW m \in Rows, members' = Append(members, m)
    PROVE  /\ members' \in Seq(Rows) /\ DOMAIN members \subseteq DOMAIN members'
           /\ Len(members') \in DOMAIN members' /\ members'[Len(members')] = m
           /\ \A k \in DOMAIN members : members'[k] = members[k]
           /\ \A k \in DOMAIN members' : k \in DOMAIN members \/ k = Len(members')
           /\ HasLatest'
<1> DEFINE n == Len(members) + 1
<1>1. members \in Seq(Rows)
  BY DEF IInv, TypeOK
<1>2. /\ members' \in Seq(Rows) /\ Len(members') = n /\ members'[n] = m
      /\ DOMAIN members = 1..Len(members) /\ DOMAIN members' = 1..n /\ Len(members) \in Nat
      /\ \A k \in DOMAIN members : members'[k] = members[k]
  BY <1>1
<1>3. \A k \in DOMAIN members' : members'[k] \in Rows /\ members'[k].version \in Nat
  <2>1. \A k \in DOMAIN members' : members'[k] \in Rows
    BY <1>2
  <2>2. \A r \in Rows : r.version \in Nat
    BY DEF Rows
  <2>3. QED
    BY <2>1, <2>2
<1> HIDE DEF n
<1>4. n \in DOMAIN members' /\ \A k \in DOMAIN members' : k \in DOMAIN members \/ k = n
  BY <1>2 DEF n
<1>5. HasLatest'
  <2> SUFFICES ASSUME NEW u \in Users, RowsOf(u)' # {}
               PROVE  \E i \in RowsOf(u)' : \A k \in RowsOf(u)' : members'[k].version <= members'[i].version
    BY DEF HasLatest
  <2>1. \A k : k \in RowsOf(u)' <=> k \in RowsOf(u) \/ (k = n /\ m.subject = u)
    BY <1>2, <1>4 DEF RowsOf, n
  <2>2. CASE RowsOf(u) = {}
    <3>1. RowsOf(u)' = {n}
      BY <2>1, <2>2
    <3>2. members'[n].version <= members'[n].version
      BY <1>3, <1>4
    <3>3. QED
      BY <3>1, <3>2
  <2>3. CASE RowsOf(u) # {}
    <3>1. PICK i \in RowsOf(u) : \A k \in RowsOf(u) : members[k].version <= members[i].version
      BY <2>3 DEF IInv, HasLatest
    <3>2. \A k \in RowsOf(u) : k \in DOMAIN members /\ members'[k] = members[k]
      BY <1>2 DEF RowsOf
    <3>3. /\ members[i].version \in Nat /\ m.version \in Nat
          /\ \A k \in RowsOf(u) : members[k].version \in Nat
      BY <1>2, <1>3, <1>4, <3>2
    <3>4. CASE m.subject = u /\ m.version > members[i].version
      <4>1. n \in RowsOf(u)'
        BY <2>1, <3>4
      <4>2. ASSUME NEW k \in RowsOf(u)' PROVE members'[k].version <= members'[n].version
        BY <1>2, <2>1, <3>1, <3>2, <3>3, <3>4 DEF n
      <4>3. QED
        BY <4>1, <4>2
    <3>5. CASE m.subject # u \/ m.version <= members[i].version
      <4>1. i \in RowsOf(u)' /\ members'[i] = members[i]
        BY <2>1, <3>2
      <4>2. ASSUME NEW k \in RowsOf(u)' PROVE members'[k].version <= members'[i].version
        BY <1>2, <2>1, <3>1, <3>2, <3>5, <4>1 DEF n
      <4>3. QED
        BY <4>1, <4>2
    <3>6. m.version > members[i].version \/ m.version <= members[i].version
      BY <3>3
    <3>7. QED
      BY <3>4, <3>5, <3>6, Zenon
  <2>4. QED
    BY <2>2, <2>3
<1>6. QED
  BY <1>2, <1>4, <1>5

LEMMA Changes ==
    ASSUME IInv, NEW u \in Users, NEW i \in DOMAIN members, i = RowOf(u), NEW e \in Rows,
           e.subject = u, e.version >= members[i].version, members' = [members EXCEPT ![i] = e]
    PROVE  /\ members' \in Seq(Rows) /\ DOMAIN members' = DOMAIN members
           /\ members'[i] = e /\ members[i].subject = u
           /\ \A k \in DOMAIN members : k # i => members'[k] = members[k]
           /\ HasLatest'
<1>1. members \in Seq(Rows) /\ i # 0
  BY DEF IInv, TypeOK
<1>2. /\ members' \in Seq(Rows) /\ DOMAIN members' = DOMAIN members /\ members'[i] = e
      /\ \A k \in DOMAIN members : k # i => members'[k] = members[k]
  BY <1>1
<1>3. members[i].subject = u /\ \A k \in RowsOf(u) : members[k].version <= members[i].version
  BY <1>1, RowFacts
<1>4. HasLatest'
  <2> SUFFICES ASSUME NEW v \in Users, RowsOf(v)' # {}
               PROVE  \E j \in RowsOf(v)' : \A k \in RowsOf(v)' : members'[k].version <= members'[j].version
    BY DEF HasLatest
  <2>1. RowsOf(v)' = RowsOf(v)
    BY <1>2, <1>3 DEF RowsOf
  <2>2. CASE v = u
    <3>1. i \in RowsOf(v)'
      BY <1>2, <2>1, <1>3, <2>2 DEF RowsOf
    <3>2. /\ \A r \in Rows : r.version \in Nat
          /\ \A k \in DOMAIN members : members[k] \in Rows
      <4>1. \A r \in Rows : r.version \in Nat
        BY DEF Rows
      <4>2. QED
        BY <1>1, <4>1
    <3>3. ASSUME NEW k \in RowsOf(v) PROVE members'[k].version <= members'[i].version
      <4>1. k \in DOMAIN members
        BY DEF RowsOf
      <4>2. members[k].version \in Nat /\ members[i].version \in Nat /\ e.version \in Nat
        BY <3>2, <4>1
      <4>3. members[k].version <= members[i].version
        BY <1>3, <2>2
      <4>4. CASE k = i
        BY <1>2, <4>2, <4>4
      <4>5. CASE k # i
        BY <1>2, <4>1, <4>2, <4>3, <4>5
      <4>6. QED
        BY <4>4, <4>5
    <3>4. QED
      BY <2>1, <3>1, <3>3
  <2>3. CASE v # u
    <3>1. \A k \in RowsOf(v) : members'[k] = members[k]
      BY <1>2, <1>3, <2>3 DEF RowsOf
    <3>2. \E j \in RowsOf(v) : \A k \in RowsOf(v) : members[k].version <= members[j].version
      BY <2>1 DEF IInv, HasLatest
    <3>3. QED
      BY <2>1, <3>1, <3>2
  <2>4. QED
    BY <2>2, <2>3
<1>5. QED
  BY <1>2, <1>3, <1>4

\* The rows after a step: those before with their roles, and one that is as it should be.
LEMMA StillEntitled ==
    ASSUME IInv, Grows, members' \in Seq(Rows), NEW w,
           \A k \in DOMAIN members' :
               \/ k \in DOMAIN members /\ members'[k].roles = members[k].roles
               \/ /\ members'[k].subject = w /\ LetIn(w)'
                  /\ "space_admin" \in members'[k].roles => Warranted(w)'
    PROVE  Entitled'
<1> SUFFICES ASSUME NEW k \in DOMAIN members', NEW u, u = members'[k].subject
             PROVE  LetIn(u)' /\ ("space_admin" \in members'[k].roles => Warranted(u)')
  BY DEF Entitled
<1>1. CASE k \in DOMAIN members /\ members'[k].roles = members[k].roles
  <2>1. u = members[k].subject /\ u \in Users
    <3>1. members[k] \in Rows /\ u = members[k].subject
      BY <1>1 DEF Grows, IInv, TypeOK
    <3>2. QED
      BY <3>1 DEF Rows
  <2>2. LetIn(u) /\ ("space_admin" \in members[k].roles => Warranted(u))
    BY <1>1, <2>1 DEF IInv, Entitled
  <2>3. QED
    BY <1>1, <2>1, <2>2, StaysWarranted
<1>2. QED
  BY <1>1

-----------------------------------------------------------------------------
(* Steps that change requests only *)

LEMMA RequestsOnly ==
    ASSUME IInv, UNCHANGED platform, requests' \in Seq(Requests), asked' \in Nat,
           NEW S, \A e \in S : Fine(e)',
           \A j \in DOMAIN requests' :
               requests'[j] \in S \/ \E k \in DOMAIN requests : requests'[j] = requests[k]
    PROVE  IInv'
<1>1. Grows
  BY DEF Grows, platform, objectVars
<1>2. TypeOK'
  BY DEF IInv, TypeOK, platform, objectVars
<1>3. AllFine'
  BY <1>1, StillFine
<1>4. Entitled' /\ ObjectClosed' /\ HasLatest'
  BY DEF IInv, Entitled, ObjectClosed, HasLatest, Warranted, LetIn, OverAll, Override, Founder, Founds,
         Invited, RowsOf, platform, objectVars
<1>5. QED
  BY <1>2, <1>3, <1>4 DEF IInv

LEMMA Asks ==
    ASSUME IInv, NEW u \in Users, NEW key \in Keys \cup {None}, NEW what \in Orders,
           NEW at \in {"reading", "allowed", "late"}, NEW row \in Nat, Ask(u, key, what, at, row),
           what.op # "content" => key \in Keys,
           what.op \in {"user.create", "service.create", "membership.grant", "membership.revoke"}
               => what.subject \in Users,
           what.op = "membership.grant" => what.roles \in SUBSET SpaceRoles,
           what.op = "content" /\ at # "late" => what.content \in Contents,
           row # 0 => row \in DOMAIN members /\ members[row].subject = u,
           at = "reading" => row # 0 \/ Override(u),
           what.op \in ByTenant => Override(u),
           at = "allowed" => what.op \notin OfSpace
    PROVE  IInv'
<1>1. PICK e : e = [at |-> at, by |-> u, key |-> key, what |-> what, row |-> row, revision |-> 0]
  OBVIOUS
<1>2. e \in Requests
  BY <1>1 DEF Requests
<1>3. requests' = Append(requests, e) /\ asked' = asked + 1 /\ UNCHANGED platform
  BY <1>1 DEF Ask
<1>4. Fine(e)
  BY <1>1 DEF Fine, Meant, Authorised
<1>5. Grows
  BY <1>3 DEF Grows, platform, objectVars
<1>6. Fine(e)'
  BY <1>2, <1>4, <1>5, StaysFine
<1> DEFINE S == {e}
<1>7. /\ requests' \in Seq(Requests)
      /\ \A j \in DOMAIN requests' :
             requests'[j] \in S \/ \E k \in DOMAIN requests : requests'[j] = requests[k]
  BY <1>2, <1>3, Arrives DEF IInv
<1>8. asked' \in Nat
  BY <1>3 DEF IInv, TypeOK
<1>9. \A x \in S : Fine(x)'
  BY <1>6
<1> HIDE DEF S
<1>10. QED
  BY <1>3, <1>7, <1>8, <1>9, RequestsOnly

LEMMA BlankFacts ==
    /\ Blank \in Orders /\ Blank.op = "content"
    /\ DOMAIN Blank = {"op", "subject", "roles", "level", "version", "content"}
  BY LeastIsLevel DEF Blank, Orders, InSpace

LEMMA AsksTenant ==
    ASSUME IInv, NEW u \in Users, NEW key \in Keys, NEW what \in Orders, AskTenant(u, key, what),
           what.op \in {"user.create", "service.create"} => what.subject \in Users
    PROVE  IInv'
<1>1. what.op \in InTenant /\ Granted(what.op, assigned[u]) /\ Ask(u, key, what, "allowed", 0)
  BY DEF AskTenant
<1>2. what.op # "content" /\ what.op \notin OfSpace
      /\ what.op \notin {"membership.grant", "membership.revoke"}
  BY <1>1 DEF InTenant, OfSpace
<1>3. ASSUME what.op \in ByTenant PROVE Override(u)
  <2>1. ActionOf(what.op) \in {"identity.manage", "space.create"}
    BY <1>3 DEF ByTenant, ActionOf
  <2>2. PICK role \in assigned[u] : ActionOf(what.op) \in Actions(role)
    BY <1>1 DEF Granted
  <2>3. role \in {"platform_admin", "tenant_admin"}
    BY <2>1, <2>2 DEF Actions
  <2>4. QED
    BY <2>2, <2>3 DEF Override
<1>4. QED
  BY <1>1, <1>2, <1>3, Asks

LEMMA AsksSpace ==
    ASSUME IInv, NEW u \in Users, NEW key \in Keys \cup {None}, NEW what \in Orders,
           AskSpace(u, key, what), what.op # "content" => key \in Keys,
           what.op \in {"membership.grant", "membership.revoke"} => what.subject \in Users,
           what.op = "membership.grant" => what.roles \in SUBSET SpaceRoles,
           what.op = "content" => what.content \in Contents
    PROVE  IInv'
<1> DEFINE row == IF Active(RowOf(u)) THEN RowOf(u) ELSE 0
<1>1. what.op \in InSpace /\ Ask(u, key, what, "reading", row)
  BY DEF AskSpace
<1>2. row \in Nat /\ (row # 0 => row \in DOMAIN members /\ members[row].subject = u)
  BY RowFacts DEF Active, IInv, TypeOK
<1>5. row # 0 \/ Override(u)
  BY DEF AskSpace, Admissible, Active
<1>3. what.op \notin {"user.create", "service.create", "space.create"}
  BY <1>1 DEF InSpace
<1> HIDE DEF row
<1>4. QED
  BY <1>1, <1>2, <1>3, <1>5, Asks DEF ByTenant

LEMMA ArriveInv ==
    ASSUME IInv, NEW u \in Users, Arrive(u)
    PROVE  IInv'
<1> USE BlankFacts DEF Orders
<1>1. ASSUME NEW key \in Keys, NEW s \in Users, NEW op \in {"user.create", "service.create"},
             NEW p \in SUBSET Roles,
             AskTenant(u, key, [Blank EXCEPT !.op = op, !.subject = s, !.roles = p])
      PROVE  IInv'
  <2> DEFINE what == [Blank EXCEPT !.op = op, !.subject = s, !.roles = p]
  <2>1. what \in Orders /\ what.subject = s
    BY DEF InTenant
  <2> HIDE DEF what
  <2>2. QED
    BY <1>1, <2>1, AsksTenant DEF what
<1>2. ASSUME NEW key \in Keys, NEW l \in Levels,
             AskTenant(u, key, [Blank EXCEPT !.op = "space.create", !.level = l])
      PROVE  IInv'
  <2> DEFINE what == [Blank EXCEPT !.op = "space.create", !.level = l]
  <2>1. what \in Orders /\ what.op = "space.create"
    BY DEF InTenant
  <2> HIDE DEF what
  <2>2. QED
    BY <1>2, <2>1, AsksTenant DEF what
<1>3. ASSUME NEW key \in Keys, NEW kind \in Governed,
             AskTenant(u, key, [Blank EXCEPT !.op = CreateOf(kind)])
      PROVE  IInv'
  <2> DEFINE what == [Blank EXCEPT !.op = CreateOf(kind)]
  <2>1. CreateOf(kind) \in {"profile.create", "prompt.create", "definition.create"}
    BY DEF CreateOf
  <2>2. what \in Orders /\ what.op \notin {"user.create", "service.create"}
    BY <2>1 DEF InTenant
  <2> HIDE DEF what
  <2>3. QED
    BY <1>3, <2>2, AsksTenant DEF what
<1>4. ASSUME NEW key \in Keys, NEW l \in Levels,
             AskSpace(u, key, [Blank EXCEPT !.op = "space.update", !.level = l,
                                            !.version = space.version])
      PROVE  IInv'
  <2> DEFINE what == [Blank EXCEPT !.op = "space.update", !.level = l, !.version = space.version]
  <2>1. what \in Orders /\ what.op = "space.update"
    BY DEF InSpace, IInv, TypeOK, Spaces
  <2> HIDE DEF what
  <2>2. QED
    BY <1>4, <2>1, AsksSpace DEF what
<1>5. ASSUME NEW key \in Keys,
             AskSpace(u, key, [Blank EXCEPT !.op = "space.archive", !.version = space.version])
      PROVE  IInv'
  <2> DEFINE what == [Blank EXCEPT !.op = "space.archive", !.version = space.version]
  <2>1. what \in Orders /\ what.op = "space.archive"
    BY DEF InSpace, IInv, TypeOK, Spaces
  <2> HIDE DEF what
  <2>2. QED
    BY <1>5, <2>1, AsksSpace DEF what
<1>6. ASSUME NEW key \in Keys, NEW s \in users, NEW p \in Policies,
             AskSpace(u, key, [Blank EXCEPT !.op = "membership.grant", !.subject = s,
                                            !.roles = p.roles, !.level = p.clearance])
      PROVE  IInv'
  <2> DEFINE what == [Blank EXCEPT !.op = "membership.grant", !.subject = s,
                                   !.roles = p.roles, !.level = p.clearance]
  <2>1. /\ p.roles \in SUBSET SpaceRoles /\ p.roles \in SUBSET Roles
        /\ p.clearance \in Levels /\ s \in Users
    BY AccessAssumption DEF SpaceRoles, IInv, TypeOK
  <2>2. what \in Orders /\ what.op = "membership.grant" /\ what.subject = s /\ what.roles = p.roles
    BY <2>1 DEF InSpace
  <2> HIDE DEF what
  <2>3. QED
    BY <1>6, <2>1, <2>2, AsksSpace DEF what
<1>7. ASSUME NEW key \in Keys, NEW s \in users,
             AskSpace(u, key, [Blank EXCEPT !.op = "membership.revoke", !.subject = s])
      PROVE  IInv'
  <2> DEFINE what == [Blank EXCEPT !.op = "membership.revoke", !.subject = s]
  <2>1. s \in Users
    BY DEF IInv, TypeOK
  <2>2. what \in Orders /\ what.op = "membership.revoke" /\ what.subject = s
    BY <2>1 DEF InSpace
  <2> HIDE DEF what
  <2>3. QED
    BY <1>7, <2>1, <2>2, AsksSpace DEF what
<1>8. ASSUME NEW key \in Keys, NEW l \in Levels,
             AskSpace(u, key, [Blank EXCEPT !.op = "upload.create", !.level = l])
      PROVE  IInv'
  <2> DEFINE what == [Blank EXCEPT !.op = "upload.create", !.level = l]
  <2>1. what \in Orders /\ what.op = "upload.create"
    BY DEF InSpace
  <2> HIDE DEF what
  <2>2. QED
    BY <1>8, <2>1, AsksSpace DEF what
<1>9. ASSUME NEW c \in Contents, AskContent(u, [Blank EXCEPT !.content = c]) PROVE IInv'
  <2> DEFINE what == [Blank EXCEPT !.content = c]
  <2>1. what \in Orders /\ what.op = "content" /\ what.content = c
    OBVIOUS
  <2> HIDE DEF what
  <2>2. QED
    BY <1>9, <2>1, AsksSpace DEF what, AskContent
<1>10. ASSUME FindLate(u, Blank) PROVE IInv'
  BY <1>10, Asks DEF FindLate, OfSpace, ByTenant
<1>11. ServiceRoles \in SUBSET Roles /\ TenantPolicies \subseteq SUBSET Roles /\ Services \subseteq Users
  BY AccessAssumption DEF ServiceRoles, Roles
<1>12. QED
  BY <1>1, <1>2, <1>3, <1>4, <1>5, <1>6, <1>7, <1>8, <1>9, <1>10, <1>11 DEF Arrive

-----------------------------------------------------------------------------
(* What a step may tell and settle *)

\* A new fact about an identity, the space or a membership is its request's, which was
\* allowed.
Told(i) ==
    \A f \in facts' \ facts :
        f.about \in {"user", "space", "member"} =>
            /\ f.by = requests[i].by
            /\ f.about = "user" \/ Founds(f) => requests[i].what.op \in ByTenant
            /\ f.about # "user" /\ ~Founds(f)
                   => requests[i].at \in {"allowed", "looked"} /\ requests[i].what.op \in OfSpace

Settled ==
    /\ (space.status = "ARCHIVED") => (space' = space)
    /\ (object # None) => (object' = object)
    /\ (object' # None) => (object'.content \in stored)

LEMMA RequestFacts ==
    ASSUME IInv, NEW i \in DOMAIN requests, NEW r, r = requests[i]
    PROVE  /\ r \in Requests /\ Meant(r) /\ Authorised(r)
           /\ r.by \in Users /\ r.what \in Orders /\ r.key \in Keys \cup {None}
           /\ r.what.op \in InTenant \cup InSpace /\ r.what.subject \in Users \cup {None}
           /\ r.what.roles \in SUBSET Roles /\ r.what.level \in Levels /\ r.row \in Nat
<1>1. r \in Requests /\ Fine(r)
  BY DEF IInv, TypeOK, AllFine
<1>2. r.by \in Users /\ r.what \in Orders /\ r.key \in Keys \cup {None} /\ r.row \in Nat
  BY <1>1 DEF Requests
<1>3. /\ r.what.op \in InTenant \cup InSpace /\ r.what.subject \in Users \cup {None}
      /\ r.what.roles \in SUBSET Roles /\ r.what.level \in Levels
  BY <1>2 DEF Orders
<1>4. QED
  BY <1>1, <1>2, <1>3 DEF Fine

Abouts   == {"user", "space", "member", "upload", "object"} \cup Governed
Statuses == {"ACTIVE", "ARCHIVED", "REVOKED", "DRAFT", "INITIATED", "CLEAN", "INFECTED"}

LEMMA Names ==
    /\ {"user", "space", "member", "upload", "object"} \cup Governed \subseteq Abouts
    /\ {"ACTIVE", "ARCHIVED", "REVOKED", "DRAFT", "INITIATED", "CLEAN", "INFECTED"} \subseteq Statuses
    /\ "user" \in Abouts /\ "space" \in Abouts /\ "member" \in Abouts /\ "upload" \in Abouts
    /\ "ACTIVE" \in Statuses /\ "ARCHIVED" \in Statuses /\ "DRAFT" \in Statuses
    /\ "INITIATED" \in Statuses
  BY DEF Abouts, Statuses

LEMMA Commits ==
    ASSUME IInv, NEW i \in DOMAIN requests, requests[i].what.op # "content",
           NEW about \in Abouts,
           NEW id \in Users \cup Nat, NEW version \in Nat,
           NEW status \in Statuses,
           NEW roles \in SUBSET SpaceRoles, Commit(i, about, id, version, status, roles)
    PROVE  /\ records' \subseteq Scopes /\ facts' \subseteq Facts /\ facts \subseteq facts' /\ Finish(i)
           /\ \A f \in facts' \ facts : /\ f.about = about /\ f.by = requests[i].by
                                        /\ f.scope.op = requests[i].what.op
           /\ \E f \in facts' : /\ f.about = about /\ f.id = id /\ f.by = requests[i].by
                                /\ f.scope.op = requests[i].what.op
                                /\ f.status = status /\ f.roles = roles
<1>1. PICK r : r = requests[i]
  OBVIOUS
<1>2. /\ r.by \in Users /\ r.key \in Keys /\ r.what.op \in InTenant \cup InSpace
      /\ r.what.subject \in Users \cup {None}
  BY <1>1, RequestFacts DEF Meant
<1>3. Scope(r) \in Scopes /\ Scope(r).op = r.what.op
  BY <1>2 DEF Scope, Scopes
<1>4. PICK f : f = Fact(r, about, id, version, status, roles)
  OBVIOUS
<1>5. /\ f \in Facts /\ f.about = about /\ f.id = id /\ f.by = r.by /\ f.status = status
      /\ f.roles = roles /\ f.scope.op = r.what.op
  BY <1>1, <1>2, <1>3, <1>4 DEF Fact, Facts, Abouts, Statuses
<1>6. records' = records \cup {Scope(r)} /\ facts' = facts \cup {f} /\ Finish(i)
  BY <1>1, <1>4 DEF Commit
<1>7. records \subseteq Scopes /\ facts \subseteq Facts
  BY DEF IInv, TypeOK
<1>8. QED
  BY <1>1, <1>3, <1>5, <1>6, <1>7

\* What is left to show of a step that ends a request.
LEMMA Ends ==
    ASSUME IInv, NEW i \in DOMAIN requests, Finish(i), Grows,
           Admin \in users', users' \subseteq Users, assigned' \in [Users -> SUBSET Roles],
           space' \in Spaces, members' \in Seq(Rows),
           governed' \in [Governed -> Nat], upload' \in Sessions, stored' \subseteq Contents,
           object' \in Objects \cup {None}, records' \subseteq Scopes, facts' \subseteq Facts,
           Entitled', ObjectClosed', HasLatest'
    PROVE  IInv'
<1> DEFINE S == {}
<1>1. /\ requests' \in Seq(Requests) /\ asked' = asked
      /\ \A j \in DOMAIN requests' : \E k \in DOMAIN requests : requests'[j] = requests[k]
  BY Finishes DEF IInv
<1>2. /\ \A e \in S : Fine(e)'
      /\ \A j \in DOMAIN requests' :
             requests'[j] \in S \/ \E k \in DOMAIN requests : requests'[j] = requests[k]
  BY <1>1
<1> HIDE DEF S
<1>3. AllFine'
  BY <1>2, StillFine
<1>4. asked' \in Nat
  BY <1>1 DEF IInv, TypeOK
<1>5. TypeOK'
  BY <1>1, <1>4 DEF TypeOK
<1>6. QED
  BY <1>3, <1>5 DEF IInv

LEMMA SameMembers ==
    ASSUME IInv, Grows, members' = members
    PROVE  members' \in Seq(Rows) /\ Entitled' /\ HasLatest'
<1>1. members' \in Seq(Rows)
  BY DEF IInv, TypeOK
<1>2. HasLatest'
  BY DEF IInv, HasLatest, RowsOf
<1>3. QED
  BY <1>1, <1>2, StillEntitled

\* Transactions that touch neither the members nor the managed object
LEMMA Plain ==
    ASSUME IInv, NEW i \in DOMAIN requests, requests[i].what.op # "content",
           NEW about \in Abouts,
           NEW id \in Users \cup Nat, NEW version \in Nat,
           NEW status \in Statuses,
           Commit(i, about, id, version, status, {}),
           UNCHANGED <<members, objectVars>>, users \subseteq users', users' \subseteq Users,
           assigned' \in [Users -> SUBSET Roles], \A u \in Users : assigned[u] \subseteq assigned'[u],
           space' \in Spaces, governed' \in [Governed -> Nat],
           space.status = "ARCHIVED" => space' = space,
           about = "user" => requests[i].what.op \in ByTenant,
           about \in {"space", "member"} => /\ requests[i].at \in {"allowed", "looked"}
                                            /\ requests[i].what.op \in OfSpace
    PROVE  IInv' /\ Told(i) /\ Settled
<1>1. {} \in SUBSET SpaceRoles
  OBVIOUS
<1>2. /\ records' \subseteq Scopes /\ facts' \subseteq Facts /\ facts \subseteq facts' /\ Finish(i)
      /\ \A f \in facts' \ facts : /\ f.about = about /\ f.by = requests[i].by
                                   /\ f.scope.op = requests[i].what.op
  BY <1>1, Commits
<1>3. members' = members /\ upload' = upload /\ stored' = stored /\ object' = object
  BY DEF objectVars
<1>4. Grows
  BY <1>2, <1>3 DEF Grows
<1>5. members' \in Seq(Rows) /\ Entitled' /\ HasLatest'
  BY <1>3, <1>4, SameMembers
<1>6. ObjectClosed' /\ Settled
  BY <1>3 DEF IInv, ObjectClosed, Settled
<1>7. /\ Admin \in users' /\ upload' \in Sessions /\ stored' \subseteq Contents
      /\ object' \in Objects \cup {None}
  BY <1>3 DEF IInv, TypeOK
<1>8. IInv'
  BY <1>2, <1>4, <1>5, <1>6, <1>7, Ends
<1>9. Told(i)
  BY <1>2 DEF Told, Founds, OfSpace, ByTenant
<1>10. QED
  BY <1>6, <1>8, <1>9

\* Whoever a request appoints is let in by somebody else, or has authority himself.
LEMMA Appoints ==
    ASSUME IInv, Grows, members' \in Seq(Rows), NEW i \in DOMAIN requests,
           requests[i].at \in {"allowed", "looked"}, requests[i].what.op \in OfSpace,
           NEW k \in DOMAIN members', members'[k].status = "ACTIVE",
           NEW f \in facts', f.about = "member", f.id = k, f.by = requests[i].by,
           f.status = "ACTIVE", f.roles = members'[k].roles,
           \A j \in DOMAIN members' :
               j # k => j \in DOMAIN members /\ members'[j].roles = members[j].roles
    PROVE  Entitled'
<1>1. PICK u : u = members'[k].subject
  OBVIOUS
<1>2. LetIn(u)' /\ ("space_admin" \in members'[k].roles => Warranted(u)')
  <2>1. CASE f.by # u
    <3>1. LetIn(u)'
      BY <1>1, <2>1 DEF LetIn
    <3>2. "space_admin" \in members'[k].roles => Invited(u)'
      BY <1>1, <2>1 DEF Invited
    <3>3. QED
      BY <3>1, <3>2 DEF Warranted
  <2>2. CASE f.by = u
    <3>1. PICK r : r = requests[i]
      OBVIOUS
    <3>2. Authorised(r) /\ r.by \in Users
      BY <3>1, RequestFacts
    <3>3. Warranted(u) /\ u \in Users
      BY <2>2, <3>1, <3>2 DEF Authorised
    <3>4. Warranted(u)' /\ LetIn(u)'
      BY <3>3, WarrantedIsLetIn, StaysWarranted
    <3>5. QED
      BY <3>4
  <2>3. QED
    BY <2>1, <2>2
<1>3. QED
  BY <1>1, <1>2, StillEntitled

-----------------------------------------------------------------------------
(* One lemma for each step of a request *)

LEMMA AuthorizeStep ==
    ASSUME IInv, NEW i \in DOMAIN requests, Authorize(i)
    PROVE  IInv' /\ Told(i) /\ Settled
<1>1. PICK r : r = requests[i]
  OBVIOUS
<1>2. PICK e : e = [r EXCEPT !.at = "allowed", !.row = 0]
  OBVIOUS
<1>3. /\ r.at = "reading" /\ Granted(r.what.op, assigned[r.by] \cup RolesRead(r.row))
      /\ Move(i, e) /\ UNCHANGED platform
  BY <1>1, <1>2 DEF Authorize
<1>4. /\ r \in Requests /\ Meant(r) /\ Authorised(r) /\ r.by \in Users
  BY <1>1, RequestFacts
<1>5. /\ e \in Requests /\ e.by = r.by /\ e.what = r.what /\ e.key = r.key /\ e.at = "allowed"
      /\ e.row = 0
  BY <1>2, <1>4 DEF Requests
<1>6. ASSUME r.what.op \in OfSpace PROVE Warranted(r.by)
  <2>1. PICK role \in assigned[r.by] \cup RolesRead(r.row) : ActionOf(r.what.op) \in Actions(role)
    BY <1>3 DEF Granted
  <2>2. ActionOf(r.what.op) \in {"space.edit", "space.archive", "member.grant", "member.revoke"}
    BY <1>6 DEF OfSpace, ActionOf
  <2>3. role \in {"tenant_admin", "space_admin"}
    BY <2>1, <2>2 DEF Actions
  <2>4. r.row # 0 => members[r.row] \in Rows /\ LetIn(r.by)
                     /\ ("space_admin" \in members[r.row].roles => Warranted(r.by))
    BY <1>4 DEF Authorised, IInv, TypeOK, Entitled
  <2>5. CASE role \in assigned[r.by]
    <3>1. CASE role = "tenant_admin" \/ Override(r.by)
      <4>1. OverAll(r.by)
        BY <2>3, <2>5, <3>1 DEF OverAll, Override
      <4>2. QED
        BY <4>1 DEF Warranted
    <3>2. CASE role = "space_admin" /\ r.row # 0
      BY <2>4, <2>5, <3>2, WarrantedByTenant
    <3>3. r.row # 0 \/ Override(r.by)
      BY <1>3, <1>4 DEF Authorised
    <3>4. QED
      BY <2>3, <3>1, <3>2, <3>3
  <2>6. CASE role \in RolesRead(r.row)
    <3>1. r.row # 0 /\ role \in members[r.row].roles
      BY <2>6 DEF RolesRead
    <3>2. role \in SpaceRoles
      BY <2>4, <3>1 DEF Rows
    <3>3. role = "space_admin"
      BY <2>3, <3>2 DEF SpaceRoles
    <3>4. QED
      BY <2>4, <3>1, <3>3
  <2>7. QED
    BY <2>1, <2>5, <2>6
<1>7. Fine(e)
  BY <1>3, <1>4, <1>5, <1>6 DEF Fine, Meant, Authorised
<1>8. Grows
  BY <1>3 DEF Grows, platform, objectVars
<1> DEFINE S == {e}
<1>9. \A x \in S : Fine(x)'
  BY <1>5, <1>7, <1>8, StaysFine
<1>10. /\ requests' \in Seq(Requests) /\ asked' \in Nat
       /\ \A j \in DOMAIN requests' :
              requests'[j] \in S \/ \E k \in DOMAIN requests : requests'[j] = requests[k]
  <2>1. TypeOK
    BY DEF IInv
  <2>2. QED
    BY <1>3, <1>5, <2>1, Moves DEF TypeOK
<1> HIDE DEF S
<1>11. IInv'
  BY <1>3, <1>9, <1>10, RequestsOnly
<1>12. Told(i) /\ Settled
  BY <1>3 DEF Told, Settled, platform, objectVars, IInv, ObjectClosed
<1>13. QED
  BY <1>11, <1>12

LEMMA EndStep ==
    ASSUME IInv, NEW i \in DOMAIN requests, End(i)
    PROVE  IInv' /\ Told(i) /\ Settled
<1>1. Finish(i) /\ UNCHANGED platform
  BY DEF End
<1> DEFINE S == {}
<1>2. /\ requests' \in Seq(Requests) /\ asked' \in Nat
      /\ \A j \in DOMAIN requests' :
              requests'[j] \in S \/ \E k \in DOMAIN requests : requests'[j] = requests[k]
  <2>1. TypeOK
    BY DEF IInv
  <2>2. QED
    BY <1>1, <2>1, Finishes DEF TypeOK
<1>3. \A x \in S : Fine(x)'
  OBVIOUS
<1> HIDE DEF S
<1>4. IInv'
  BY <1>1, <1>2, <1>3, RequestsOnly
<1>5. Told(i) /\ Settled
  BY <1>1 DEF Told, Settled, platform, objectVars, IInv, ObjectClosed
<1>6. QED
  BY <1>4, <1>5

LEMMA LookStep ==
    ASSUME IInv, NEW i \in DOMAIN requests, Look(i)
    PROVE  IInv' /\ Told(i) /\ Settled
<1>1. PICK r : r = requests[i]
  OBVIOUS
<1>2. r.at = "allowed" /\ r.what.op \in {"membership.grant", "prompt.create"} /\ UNCHANGED platform
  BY <1>1 DEF Look, Executing
<1>3. \E n \in Nat : Move(i, [r EXCEPT !.at = "looked", !.revision = n])
  <2>1. CASE Move(i, [r EXCEPT !.at = "looked"])
    <3>1. r \in Requests
      BY <1>1, RequestFacts
    <3>2. r.revision \in Nat /\ [r EXCEPT !.at = "looked"]
                                    = [r EXCEPT !.at = "looked", !.revision = r.revision]
      BY <3>1 DEF Requests
    <3>3. QED
      BY <2>1, <3>2
  <2>2. CASE Move(i, [r EXCEPT !.at = "looked", !.revision = governed["prompt"] + 1])
    <3>1. governed["prompt"] + 1 \in Nat
      BY DEF IInv, TypeOK, Governed
    <3>2. QED
      BY <2>2, <3>1
  <2>3. QED
    BY <1>1, <2>1, <2>2 DEF Look
<1>4. PICK n \in Nat : Move(i, [r EXCEPT !.at = "looked", !.revision = n])
  BY <1>3
<1>5. PICK e : e = [r EXCEPT !.at = "looked", !.revision = n]
  OBVIOUS
<1>6. r \in Requests /\ Meant(r) /\ Authorised(r)
  BY <1>1, RequestFacts
<1>7. /\ e \in Requests /\ e.by = r.by /\ e.what = r.what /\ e.key = r.key /\ e.at = "looked"
      /\ e.row = r.row
  BY <1>5, <1>6 DEF Requests
<1>8. Fine(e)
  BY <1>2, <1>6, <1>7 DEF Fine, Meant, Authorised
<1>9. Grows
  BY <1>2 DEF Grows, platform, objectVars
<1> DEFINE S == {e}
<1>10. \A x \in S : Fine(x)'
  BY <1>7, <1>8, <1>9, StaysFine
<1>11. /\ requests' \in Seq(Requests) /\ asked' \in Nat
       /\ \A j \in DOMAIN requests' :
              requests'[j] \in S \/ \E k \in DOMAIN requests : requests'[j] = requests[k]
  <2>1. TypeOK /\ Move(i, e)
    BY <1>4, <1>5 DEF IInv
  <2>2. QED
    BY <1>7, <2>1, Moves DEF TypeOK
<1> HIDE DEF S
<1>12. IInv'
  BY <1>2, <1>10, <1>11, RequestsOnly
<1>13. Told(i) /\ Settled
  BY <1>2 DEF Told, Settled, platform, objectVars, IInv, ObjectClosed
<1>14. QED
  BY <1>12, <1>13

LEMMA ProvisionStep ==
    ASSUME IInv, NEW i \in DOMAIN requests, NEW op \in {"user.create", "service.create"}, Provision(i, op)
    PROVE  IInv' /\ Told(i) /\ Settled
<1>1. PICK r : r = requests[i]
  OBVIOUS
<1>2. PICK u : u = r.what.subject
  OBVIOUS
<1>3. /\ r.what.op = op /\ users' = users \cup {u} /\ Commit(i, "user", u, 1, "ACTIVE", {})
      /\ assigned' = [assigned EXCEPT ![u] = assigned[u] \cup r.what.roles]
      /\ UNCHANGED <<space, members, governed, objectVars>>
  BY <1>1, <1>2 DEF Provision, Executing
<1>4. u \in Users /\ r.what.op # "content" /\ r.what.op \in ByTenant /\ r.what.roles \in SUBSET Roles
  BY <1>1, <1>2, <1>3, RequestFacts DEF Meant, ByTenant
<1>5. /\ users \subseteq users' /\ users' \subseteq Users /\ space' \in Spaces
      /\ governed' \in [Governed -> Nat]
  BY <1>3, <1>4 DEF IInv, TypeOK
<1>6. u \in Users \cup Nat /\ 1 \in Nat
  BY <1>4
<1>8. assigned' \in [Users -> SUBSET Roles] /\ \A v \in Users : assigned[v] \subseteq assigned'[v]
  BY <1>3, <1>4 DEF IInv, TypeOK
<1>7. QED
  BY <1>1, <1>3, <1>4, <1>5, <1>6, <1>8, Names, Plain

LEMMA UpdateSpaceStep ==
    ASSUME IInv, NEW i \in DOMAIN requests, UpdateSpace(i)
    PROVE  IInv' /\ Told(i) /\ Settled
<1>1. PICK r : r = requests[i]
  OBVIOUS
<1>2. PICK s : s = [space EXCEPT !.level = r.what.level, !.version = space.version + 1]
  OBVIOUS
<1>3. /\ r.at = "allowed" /\ r.what.op = "space.update" /\ space.status = "ACTIVE"
      /\ space' = s /\ Commit(i, "space", 0, s.version, s.status, {})
      /\ UNCHANGED <<users, assigned, members, governed, objectVars>>
  BY <1>1, <1>2 DEF UpdateSpace, Executing, Editable, Commit
<1>4. r.what.level \in Levels /\ space \in Spaces
  BY <1>1, RequestFacts DEF IInv, TypeOK
<1>5. s \in Spaces /\ s.version \in Nat /\ s.status = "ACTIVE"
  <2>1. space.version + 1 \in Nat
    BY <1>4 DEF Spaces
  <2>2. s = [status |-> space.status, level |-> r.what.level, version |-> space.version + 1]
    BY <1>2, <1>4 DEF Spaces
  <2>3. s \in Spaces
    BY <1>3, <1>4, <2>1, <2>2 DEF Spaces
  <2>4. QED
    BY <1>3, <2>1, <2>2, <2>3
<1>6. /\ users \subseteq users' /\ users' \subseteq Users /\ governed' \in [Governed -> Nat]
      /\ assigned' = assigned /\ assigned' \in [Users -> SUBSET Roles]
  BY <1>3 DEF IInv, TypeOK
<1>7. QED
  BY <1>1, <1>3, <1>5, <1>6, Names, Plain DEF OfSpace

LEMMA ArchiveSpaceStep ==
    ASSUME IInv, NEW i \in DOMAIN requests, ArchiveSpace(i)
    PROVE  IInv' /\ Told(i) /\ Settled
<1>1. PICK s : s = IF space.status = "ARCHIVED" THEN space
                   ELSE [space EXCEPT !.status = "ARCHIVED", !.version = space.version + 1]
  OBVIOUS
<1>2. /\ requests[i].at = "allowed" /\ requests[i].what.op = "space.archive"
      /\ space' = s /\ Commit(i, "space", 0, s.version, s.status, {})
      /\ UNCHANGED <<users, assigned, members, governed, objectVars>>
  BY <1>1 DEF ArchiveSpace, Executing, Commit
<1>3. s \in Spaces /\ s.version \in Nat /\ s.status = "ARCHIVED"
  <2>1. space \in Spaces
    BY DEF IInv, TypeOK
  <2>2. space.version \in Nat /\ space.version + 1 \in Nat /\ space.level \in Levels
    BY <2>1 DEF Spaces
  <2>3. CASE space.status = "ARCHIVED"
    BY <1>1, <2>1, <2>2, <2>3
  <2>4. CASE space.status # "ARCHIVED"
    <3>1. s = [status |-> "ARCHIVED", level |-> space.level, version |-> space.version + 1]
      BY <1>1, <2>1, <2>4 DEF Spaces
    <3>2. s \in Spaces
      BY <2>2, <3>1 DEF Spaces
    <3>3. QED
      BY <2>2, <3>1, <3>2
  <2>5. QED
    BY <2>3, <2>4
<1>4. /\ users \subseteq users' /\ users' \subseteq Users /\ governed' \in [Governed -> Nat]
      /\ assigned' = assigned /\ assigned' \in [Users -> SUBSET Roles]
  BY <1>2 DEF IInv, TypeOK
<1>5. space.status = "ARCHIVED" => space' = space
  BY <1>1, <1>2
<1>6. QED
  BY <1>2, <1>3, <1>4, <1>5, Names, Plain DEF OfSpace

LEMMA CreateGovernedStep ==
    ASSUME IInv, NEW i \in DOMAIN requests, NEW at, NEW op, NEW kind \in Governed, NEW id \in Nat,
           NEW version \in Nat, op # "content", CreateGoverned(i, at, op, kind, id, version)
    PROVE  IInv' /\ Told(i) /\ Settled
<1>1. /\ requests[i].what.op = op /\ governed' = [governed EXCEPT ![kind] = governed[kind] + 1]
      /\ Commit(i, kind, id, version, "DRAFT", {})
      /\ UNCHANGED <<users, assigned, space, members, objectVars>>
  BY DEF CreateGoverned, Executing
<1>2. /\ users \subseteq users' /\ users' \subseteq Users /\ space' \in Spaces
      /\ governed' \in [Governed -> Nat] /\ assigned' = assigned /\ assigned' \in [Users -> SUBSET Roles]
  BY <1>1 DEF IInv, TypeOK
<1>3. kind \notin {"user", "space", "member"}
  BY DEF Governed
<1>4. QED
  BY <1>1, <1>2, <1>3, Names, Plain

LEMMA GovernedSteps ==
    ASSUME IInv, NEW i \in DOMAIN requests,
           CreateModelProfile(i) \/ CreatePrompt(i) \/ CreateConnectorDefinition(i)
    PROVE  IInv' /\ Told(i) /\ Settled
<1>1. governed["profile"] + 1 \in Nat /\ governed["prompt"] + 1 \in Nat
  BY DEF IInv, TypeOK, Governed
<1>2. {"profile", "prompt", "definition"} \subseteq Governed
  BY DEF Governed
<1>3. CASE CreateModelProfile(i)
  <2>1. PICK n \in Nat : n = governed["profile"] + 1
    BY <1>1
  <2>2. CreateGoverned(i, "allowed", "profile.create", "profile", n, 1)
    BY <1>3, <2>1 DEF CreateModelProfile
  <2>3. QED
    BY <1>2, <2>2, CreateGovernedStep
<1>4. CASE CreatePrompt(i)
  <2>1. PICK n \in Nat : n = requests[i].revision
    BY <1>1, <1>4 DEF CreatePrompt
  <2>2. CreateGoverned(i, "looked", "prompt.create", "prompt", 0, n)
    BY <1>4, <2>1 DEF CreatePrompt
  <2>3. QED
    BY <1>2, <2>2, CreateGovernedStep
<1>5. CASE CreateConnectorDefinition(i)
  BY <1>2, <1>5, CreateGovernedStep DEF CreateConnectorDefinition
<1>6. QED
  BY <1>3, <1>4, <1>5

LEMMA CreateSpaceStep ==
    ASSUME IInv, NEW i \in DOMAIN requests, CreateSpace(i)
    PROVE  IInv' /\ Told(i) /\ Settled
<1>1. PICK r : r = requests[i]
  OBVIOUS
<1>2. PICK m : m = [subject |-> r.by, status |-> "ACTIVE", roles |-> {"space_admin"},
                    clearance |-> Clearance[r.by], version |-> 1]
  OBVIOUS
<1>3. /\ r.at = "allowed" /\ r.what.op = "space.create" /\ space.status = "none"
      /\ space' = [status |-> "ACTIVE", level |-> r.what.level, version |-> 1]
      /\ members' = (IF r.by \in Services THEN members ELSE Append(members, m))
      /\ Commit(i, "space", 0, 1, "ACTIVE", {})
      /\ UNCHANGED <<users, assigned, governed, objectVars>>
  BY <1>1, <1>2 DEF CreateSpace, Executing
<1>4. r.by \in Users /\ r.what.level \in Levels /\ Authorised(r)
  BY <1>1, RequestFacts
<1>5. m \in Rows /\ m.subject = r.by
  BY <1>2, <1>4, AccessAssumption DEF Rows, SpaceRoles, Roles
<1>6. /\ members' \in Seq(Rows) /\ DOMAIN members \subseteq DOMAIN members'
      /\ \A k \in DOMAIN members : members'[k] = members[k]
      /\ \A k \in DOMAIN members' : k \in DOMAIN members \/ members'[k].subject = r.by
      /\ HasLatest'
  <2>1. CASE r.by \in Services
    BY <1>3, <2>1 DEF IInv, TypeOK, HasLatest, RowsOf
  <2>2. CASE r.by \notin Services
    <3>1. members' = Append(members, m)
      BY <1>3, <2>2
    <3>2. QED
      BY <1>5, <3>1, Inserts
  <2>3. QED
    BY <2>1, <2>2
<1>7. /\ records' \subseteq Scopes /\ facts' \subseteq Facts /\ facts \subseteq facts' /\ Finish(i)
      /\ \A f \in facts' \ facts : /\ f.about = "space" /\ f.by = requests[i].by
                                   /\ f.scope.op = requests[i].what.op
      /\ \E f \in facts' : /\ f.about = "space" /\ f.by = requests[i].by
                           /\ f.scope.op = requests[i].what.op
  <2>1. requests[i].what.op # "content"
    BY <1>1, <1>3
  <2>2. /\ {} \in SUBSET SpaceRoles /\ 0 \in Users \cup Nat /\ 1 \in Nat
        /\ "space" \in Abouts /\ "ACTIVE" \in Statuses
    BY DEF Abouts, Statuses
  <2>3. Commit(i, "space", 0, 1, "ACTIVE", {})
    BY <1>3
  <2>4. QED
    BY <2>1, <2>2, <2>3, Commits
<1>8. upload' = upload /\ stored' = stored /\ object' = object /\ assigned' = assigned
  BY <1>3 DEF objectVars
<1>9. Grows
  BY <1>6, <1>7, <1>8 DEF Grows
<1>10. Founder(r.by)'
  BY <1>1, <1>3, <1>7 DEF Founder, Founds
<1>11. LetIn(r.by)' /\ Warranted(r.by)'
  BY <1>10 DEF LetIn, Warranted
<1>12. Entitled'
  BY <1>6, <1>9, <1>11, StillEntitled
<1>13. ObjectClosed' /\ Settled
  BY <1>3, <1>8 DEF IInv, ObjectClosed, Settled
<1>14. /\ Admin \in users' /\ users' \subseteq Users /\ upload' \in Sessions /\ stored' \subseteq Contents
       /\ object' \in Objects \cup {None} /\ governed' \in [Governed -> Nat]
       /\ assigned' \in [Users -> SUBSET Roles]
  BY <1>3, <1>8 DEF IInv, TypeOK
<1>15. space' \in Spaces
  BY <1>3, <1>4 DEF Spaces
<1>16. IInv'
  BY <1>6, <1>7, <1>9, <1>12, <1>13, <1>14, <1>15, Ends
<1>17. Told(i)
  BY <1>1, <1>3, <1>7 DEF Told, Founds, ByTenant
<1>18. QED
  BY <1>13, <1>16, <1>17

\* What is common to the three steps that write a membership.
LEMMA MemberStep ==
    ASSUME IInv, NEW i \in DOMAIN requests, requests[i].at \in {"allowed", "looked"},
           requests[i].what.op \in {"membership.grant", "membership.revoke"},
           NEW k \in DOMAIN members', k \in Nat, members' \in Seq(Rows), HasLatest',
           DOMAIN members \subseteq DOMAIN members',
           \A j \in DOMAIN members : members'[j].subject = members[j].subject,
           \A j \in DOMAIN members' :
               j # k => j \in DOMAIN members /\ members'[j].roles = members[j].roles,
           \/ members'[k].status = "ACTIVE"
           \/ k \in DOMAIN members /\ members'[k].roles = members[k].roles,
           Tell(i, k), UNCHANGED <<users, assigned, space, governed, objectVars>>
    PROVE  IInv' /\ Told(i) /\ Settled
<1>1. PICK m : m = members'[k]
  OBVIOUS
<1>2. Commit(i, "member", k, m.version, m.status, m.roles)
  BY <1>1 DEF Tell, Commit
<1>3. m \in Rows
  BY <1>1
<1>4. /\ m.version \in Nat /\ m.status \in {"ACTIVE", "REVOKED"} /\ m.roles \in SUBSET SpaceRoles
      /\ k \in Users \cup Nat
  BY <1>3 DEF Rows
<1>5. /\ records' \subseteq Scopes /\ facts' \subseteq Facts /\ facts \subseteq facts' /\ Finish(i)
      /\ \A f \in facts' \ facts : /\ f.about = "member" /\ f.by = requests[i].by
      /\ \E f \in facts' : /\ f.about = "member" /\ f.id = k /\ f.by = requests[i].by
                           /\ f.status = m.status /\ f.roles = m.roles
  <2>1. requests[i].what.op # "content"
    OBVIOUS
  <2>2. m.status \in Statuses /\ "member" \in Abouts
    BY <1>4 DEF Statuses, Abouts
  <2>3. QED
    BY <1>2, <1>4, <2>1, <2>2, Commits
<1>6. upload' = upload /\ stored' = stored /\ object' = object
  BY DEF objectVars
<1>7. Grows
  BY <1>5, <1>6 DEF Grows
<1>8. Entitled'
  <2>1. CASE m.status = "ACTIVE"
    <3>1. PICK f \in facts' : /\ f.about = "member" /\ f.id = k /\ f.by = requests[i].by
                              /\ f.status = m.status /\ f.roles = m.roles
      BY <1>5
    <3>2. requests[i].what.op \in OfSpace
      BY DEF OfSpace
    <3>3. members'[k].status = "ACTIVE" /\ f.status = "ACTIVE" /\ f.roles = members'[k].roles
      BY <1>1, <2>1, <3>1
    <3>4. QED
      BY <1>7, <3>1, <3>2, <3>3, Appoints
  <2>2. CASE m.status # "ACTIVE"
    BY <1>1, <1>7, <2>2, StillEntitled
  <2>3. QED
    BY <2>1, <2>2
<1>9. ObjectClosed' /\ Settled
  BY <1>6 DEF IInv, ObjectClosed, Settled
<1>10. /\ Admin \in users' /\ users' \subseteq Users /\ upload' \in Sessions /\ stored' \subseteq Contents
       /\ object' \in Objects \cup {None} /\ governed' \in [Governed -> Nat] /\ space' \in Spaces
       /\ assigned' \in [Users -> SUBSET Roles]
  BY <1>6 DEF IInv, TypeOK
<1>11. IInv'
  BY <1>5, <1>7, <1>8, <1>9, <1>10, Ends
<1>12. Told(i)
  BY <1>5 DEF Told, Founds, OfSpace
<1>13. QED
  BY <1>9, <1>11, <1>12

LEMMA InsertMemberStep ==
    ASSUME IInv, NEW i \in DOMAIN requests, InsertMember(i)
    PROVE  IInv' /\ Told(i) /\ Settled
<1>1. PICK r : r = requests[i]
  OBVIOUS
<1>2. PICK m : m = [subject |-> r.what.subject, status |-> "ACTIVE", roles |-> r.what.roles,
                    clearance |-> r.what.level, version |-> 1]
  OBVIOUS
<1>3. /\ r.at = "looked" /\ r.what.op = "membership.grant" /\ members' = Append(members, m)
      /\ Tell(i, Len(members')) /\ UNCHANGED <<users, assigned, space, governed, objectVars>>
  BY <1>1, <1>2 DEF InsertMember, Executing
<1>4. r.what.subject \in Users /\ r.what.roles \in SUBSET SpaceRoles /\ r.what.level \in Levels
  BY <1>1, <1>3, RequestFacts DEF Meant
<1>5. m \in Rows /\ m.status = "ACTIVE"
  BY <1>2, <1>4 DEF Rows
<1>6. /\ members' \in Seq(Rows) /\ DOMAIN members \subseteq DOMAIN members'
      /\ Len(members') \in DOMAIN members' /\ members'[Len(members')] = m
      /\ \A k \in DOMAIN members : members'[k] = members[k]
      /\ \A k \in DOMAIN members' : k \in DOMAIN members \/ k = Len(members')
      /\ HasLatest'
  BY <1>3, <1>5, Inserts
<1>7. PICK k : k = Len(members')
  OBVIOUS
<1>8. Tell(i, k)
  BY <1>3, <1>7 DEF Tell, Commit
<1>9. k \in Nat /\ k \in DOMAIN members' /\ members'[k].status = "ACTIVE"
  BY <1>5, <1>6, <1>7
<1>10. \A j \in DOMAIN members' : j # k => j \in DOMAIN members /\ members'[j].roles = members[j].roles
  BY <1>6, <1>7
<1>11. \A j \in DOMAIN members : members'[j].subject = members[j].subject
  BY <1>6
<1>12. /\ requests[i].at \in {"allowed", "looked"}
       /\ requests[i].what.op \in {"membership.grant", "membership.revoke"}
  BY <1>1, <1>3
<1>13. QED
  BY <1>3, <1>6, <1>8, <1>9, <1>10, <1>11, <1>12, MemberStep

LEMMA UpdateMemberStep ==
    ASSUME IInv, NEW i \in DOMAIN requests, UpdateMember(i)
    PROVE  IInv' /\ Told(i) /\ Settled
<1>1. PICK r, u, k : r = requests[i] /\ u = r.what.subject /\ k = RowOf(u)
  OBVIOUS
<1>2. PICK m : m = Renewed(members[k], r.what)
  OBVIOUS
<1>3. /\ r.at = "allowed" /\ r.what.op = "membership.grant" /\ k # 0
      /\ members' = [members EXCEPT ![k] = m]
      /\ Tell(i, k) /\ UNCHANGED <<users, assigned, space, governed, objectVars>>
  <2>1. /\ r.at = "allowed" /\ r.what.op = "membership.grant" /\ k # 0
        /\ UNCHANGED <<users, assigned, space, governed, objectVars>>
    BY <1>1 DEF UpdateMember, Executing
  <2>2. Tell(i, k)
    BY <1>1 DEF UpdateMember, Tell, Commit
  <2>3. members' = [members EXCEPT ![k] = Renewed(members[k], r.what)]
    BY <1>1 DEF UpdateMember
  <2>4. QED
    BY <1>2, <2>1, <2>2, <2>3
<1>4. u \in Users /\ r.what.roles \in SUBSET SpaceRoles /\ r.what.level \in Levels
  BY <1>1, <1>3, RequestFacts DEF Meant
<1>5. k \in DOMAIN members /\ members[k].subject = u /\ members[k] \in Rows /\ k \in Nat
  BY <1>1, <1>3, <1>4, RowFacts DEF IInv, TypeOK
<1>6. members[k].version \in Nat
  BY <1>5 DEF Rows
<1>7. m = [subject |-> u, status |-> "ACTIVE", roles |-> r.what.roles, clearance |-> r.what.level,
           version |-> members[k].version + 1]
  BY <1>2, <1>5 DEF Rows, Renewed
<1>8. m \in Rows /\ m.subject = u /\ m.version >= members[k].version /\ m.status = "ACTIVE"
  BY <1>4, <1>6, <1>7 DEF Rows
<1>9. /\ members' \in Seq(Rows) /\ DOMAIN members' = DOMAIN members /\ members'[k] = m
      /\ \A j \in DOMAIN members : j # k => members'[j] = members[j]
      /\ HasLatest'
  BY <1>1, <1>3, <1>4, <1>5, <1>8, Changes
<1>10. \A j \in DOMAIN members : members'[j].subject = members[j].subject
  BY <1>5, <1>8, <1>9
<1>11. \A j \in DOMAIN members' : j # k => j \in DOMAIN members /\ members'[j].roles = members[j].roles
  BY <1>9
<1>12. /\ requests[i].at \in {"allowed", "looked"}
       /\ requests[i].what.op \in {"membership.grant", "membership.revoke"}
  BY <1>1, <1>3
<1>13. k \in DOMAIN members' /\ members'[k].status = "ACTIVE" /\ DOMAIN members \subseteq DOMAIN members'
  BY <1>5, <1>8, <1>9
<1>14. QED
  BY <1>3, <1>5, <1>9, <1>10, <1>11, <1>12, <1>13, MemberStep

LEMMA RevokeMemberStep ==
    ASSUME IInv, NEW i \in DOMAIN requests, RevokeMember(i)
    PROVE  IInv' /\ Told(i) /\ Settled
<1>1. PICK r, u, k : r = requests[i] /\ u = r.what.subject /\ k = RowOf(u)
  OBVIOUS
<1>2. PICK m : m = Revoked(members[k])
  OBVIOUS
<1>3. /\ r.at = "allowed" /\ r.what.op = "membership.revoke" /\ k # 0
      /\ members' = [members EXCEPT ![k] = m]
      /\ Tell(i, k) /\ UNCHANGED <<users, assigned, space, governed, objectVars>>
  BY <1>1, <1>2 DEF RevokeMember, Executing, Tell, Commit
<1>4. u \in Users
  BY <1>1, <1>3, RequestFacts DEF Meant
<1>5. k \in DOMAIN members /\ members[k].subject = u /\ members[k] \in Rows /\ k \in Nat
  BY <1>1, <1>3, <1>4, RowFacts DEF IInv, TypeOK
<1>6. /\ m \in Rows /\ m.subject = u /\ m.version >= members[k].version
      /\ m.roles = members[k].roles
  <2>1. members[k].version \in Nat
    BY <1>5 DEF Rows
  <2>2. CASE members[k].status = "REVOKED"
    BY <1>2, <1>5, <2>1, <2>2 DEF Revoked
  <2>3. CASE members[k].status # "REVOKED"
    <3>1. m = [members[k] EXCEPT !.status = "REVOKED", !.version = members[k].version + 1]
      BY <1>2, <2>3 DEF Revoked
    <3>2. m = [subject |-> members[k].subject, status |-> "REVOKED", roles |-> members[k].roles,
               clearance |-> members[k].clearance, version |-> members[k].version + 1]
      BY <1>5, <3>1 DEF Rows
    <3>3. m \in Rows
      BY <1>5, <2>1, <3>2 DEF Rows
    <3>4. QED
      BY <1>5, <2>1, <3>2, <3>3
  <2>4. QED
    BY <2>2, <2>3
<1>7. /\ members' \in Seq(Rows) /\ DOMAIN members' = DOMAIN members /\ members'[k] = m
      /\ \A j \in DOMAIN members : j # k => members'[j] = members[j]
      /\ HasLatest'
  BY <1>1, <1>3, <1>4, <1>5, <1>6, Changes
<1>8. \A j \in DOMAIN members : members'[j].subject = members[j].subject
  BY <1>5, <1>6, <1>7
<1>9. \A j \in DOMAIN members' : j # k => j \in DOMAIN members /\ members'[j].roles = members[j].roles
  BY <1>7
<1>10. /\ requests[i].at \in {"allowed", "looked"}
       /\ requests[i].what.op \in {"membership.grant", "membership.revoke"}
  BY <1>1, <1>3
<1>11. /\ k \in DOMAIN members' /\ members'[k].roles = members[k].roles
       /\ DOMAIN members \subseteq DOMAIN members'
  BY <1>5, <1>6, <1>7
<1>12. QED
  BY <1>3, <1>5, <1>7, <1>8, <1>9, <1>10, <1>11, MemberStep

LEMMA CreateUploadStep ==
    ASSUME IInv, NEW i \in DOMAIN requests, CreateUpload(i)
    PROVE  IInv' /\ Told(i) /\ Settled
<1>1. /\ requests[i].what.op = "upload.create" /\ upload.status = "none"
      /\ upload' = [status |-> "INITIATED", level |-> requests[i].what.level]
      /\ Commit(i, "upload", 0, 1, "INITIATED", {})
      /\ UNCHANGED <<users, assigned, space, members, governed, stored, object>>
  BY DEF CreateUpload, Executing
<1>2. /\ records' \subseteq Scopes /\ facts' \subseteq Facts /\ facts \subseteq facts' /\ Finish(i)
      /\ \A f \in facts' \ facts : f.about = "upload" /\ f.by = requests[i].by
  <2>1. requests[i].what.op # "content"
    BY <1>1
  <2>2. /\ {} \in SUBSET SpaceRoles /\ 0 \in Users \cup Nat /\ 1 \in Nat
        /\ "upload" \in Abouts /\ "INITIATED" \in Statuses
    BY DEF Abouts, Statuses
  <2>3. Commit(i, "upload", 0, 1, "INITIATED", {})
    BY <1>1
  <2>4. QED
    BY <2>1, <2>2, <2>3, Commits
<1>3. Grows
  BY <1>1, <1>2 DEF Grows
<1>4. members' \in Seq(Rows) /\ Entitled' /\ HasLatest'
  BY <1>1, <1>3, SameMembers
<1>5. object = None /\ object' = None
  BY <1>1 DEF IInv, ObjectClosed
<1>6. ObjectClosed' /\ Settled
  BY <1>1, <1>5 DEF ObjectClosed, Settled
<1>7. requests[i].what.level \in Levels
  BY RequestFacts
<1>8. /\ Admin \in users' /\ users' \subseteq Users /\ stored' \subseteq Contents
      /\ object' \in Objects \cup {None} /\ governed' \in [Governed -> Nat] /\ space' \in Spaces
      /\ upload' \in Sessions /\ assigned' \in [Users -> SUBSET Roles]
  BY <1>1, <1>7 DEF IInv, TypeOK, Sessions
<1>9. IInv'
  BY <1>2, <1>3, <1>4, <1>6, <1>8, Ends
<1>10. QED
  BY <1>2, <1>6, <1>9 DEF Told

LEMMA ExpireUploadStep ==
    ASSUME IInv, NEW i \in DOMAIN requests, ExpireUpload(i)
    PROVE  IInv' /\ Told(i) /\ Settled
<1>1. /\ upload' = [upload EXCEPT !.status = "EXPIRED"] /\ Finish(i)
      /\ UNCHANGED <<users, assigned, space, members, governed, stored, object, records, facts>>
  BY DEF ExpireUpload
<1>2. Grows
  BY <1>1 DEF Grows
<1>3. members' \in Seq(Rows) /\ Entitled' /\ HasLatest'
  BY <1>1, <1>2, SameMembers
<1>4. upload' \in Sessions /\ upload'.status = "EXPIRED"
  BY <1>1 DEF IInv, TypeOK, Sessions
<1>5. ObjectClosed' /\ Settled
  BY <1>1, <1>4 DEF IInv, ObjectClosed, Settled
<1>6. /\ Admin \in users' /\ users' \subseteq Users /\ stored' \subseteq Contents
      /\ object' \in Objects \cup {None} /\ governed' \in [Governed -> Nat] /\ space' \in Spaces
      /\ records' \subseteq Scopes /\ facts' \subseteq Facts /\ assigned' \in [Users -> SUBSET Roles]
  BY <1>1 DEF IInv, TypeOK
<1>7. IInv'
  BY <1>1, <1>2, <1>3, <1>4, <1>5, <1>6, Ends
<1>8. QED
  BY <1>1, <1>5, <1>7 DEF Told

LEMMA StoreContentStep ==
    ASSUME IInv, NEW i \in DOMAIN requests, StoreContent(i)
    PROVE  IInv' /\ Told(i) /\ Settled
<1>1. PICK r : r = requests[i]
  OBVIOUS
<1>2. PICK e : e = [r EXCEPT !.at = "scanned"]
  OBVIOUS
<1>3. /\ r.at = "allowed" /\ r.what.op = "content" /\ stored' = stored \cup {r.what.content}
      /\ Move(i, e)
      /\ UNCHANGED <<users, assigned, space, members, governed, upload, object, records, facts>>
  BY <1>1, <1>2 DEF StoreContent
<1>4. r \in Requests /\ Meant(r) /\ Authorised(r)
  BY <1>1, RequestFacts
<1>5. /\ e \in Requests /\ e.by = r.by /\ e.what = r.what /\ e.key = r.key /\ e.at = "scanned"
      /\ e.row = r.row
  BY <1>2, <1>4 DEF Requests
<1>6. r.what.content \in Contents
  BY <1>3, <1>4 DEF Meant
<1>7. Grows
  BY <1>3 DEF Grows
<1> DEFINE S == {e}
<1>8. \A x \in S : Fine(x)'
  <2>1. Meant(e)'
    BY <1>3, <1>5, <1>6 DEF Meant
  <2>2. Authorised(e)'
    <3>1. r.by \in Users
      BY <1>4 DEF Requests
    <3>2. QED
      BY <1>3, <1>4, <1>5, <1>7, <3>1, StaysWarranted DEF Authorised, Grows
  <2>3. QED
    BY <2>1, <2>2 DEF Fine
<1>9. /\ requests' \in Seq(Requests) /\ asked' \in Nat
      /\ \A j \in DOMAIN requests' :
             requests'[j] \in S \/ \E k \in DOMAIN requests : requests'[j] = requests[k]
  <2>1. TypeOK
    BY DEF IInv
  <2>2. QED
    BY <1>3, <1>5, <2>1, Moves DEF TypeOK
<1> HIDE DEF S
<1>10. AllFine'
  BY <1>7, <1>8, <1>9, StillFine
<1>11. Entitled' /\ HasLatest'
  BY <1>3, <1>7, SameMembers
<1>12. TypeOK'
  BY <1>3, <1>6, <1>9 DEF IInv, TypeOK
<1>13. ObjectClosed' /\ Settled
  BY <1>3 DEF IInv, ObjectClosed, Settled
<1>14. QED
  BY <1>3, <1>10, <1>11, <1>12, <1>13 DEF IInv, Told

LEMMA CompleteUploadStep ==
    ASSUME IInv, NEW i \in DOMAIN requests, CompleteUpload(i)
    PROVE  IInv' /\ Told(i) /\ Settled
<1>1. PICK r, c : r = requests[i] /\ c = r.what.content
  OBVIOUS
<1>2. PICK f : f = Fact(r, "object", 0, 1, IF c \notin Infected THEN "CLEAN" ELSE "INFECTED", {})
  OBVIOUS
<1>3. /\ r.at = "scanned" /\ upload.status = "INITIATED"
      /\ upload' = [upload EXCEPT !.status = "COMPLETED"]
      /\ object' = [content |-> c, clean |-> c \notin Infected]
      /\ facts' = facts \cup {f} /\ Finish(i)
      /\ UNCHANGED <<users, assigned, space, members, governed, stored, records>>
  BY <1>1, <1>2 DEF CompleteUpload, Writable
<1>4. /\ r.by \in Users /\ r.what.op = "content" /\ c \in stored /\ r.what.roles \in SUBSET Roles
  BY <1>1, <1>3, RequestFacts DEF Meant
<1>5. f \in Facts /\ f.about = "object"
  BY <1>2, <1>4 DEF Fact, Facts
<1>6. Grows
  BY <1>3 DEF Grows
<1>7. members' \in Seq(Rows) /\ Entitled' /\ HasLatest'
  BY <1>3, <1>6, SameMembers
<1>8. upload' \in Sessions /\ upload'.status = "COMPLETED"
  BY <1>3 DEF IInv, TypeOK, Sessions
<1>9. object = None /\ object'.content = c
  BY <1>3 DEF IInv, ObjectClosed
<1>10. ObjectClosed' /\ Settled
  BY <1>3, <1>4, <1>8, <1>9 DEF ObjectClosed, Settled
<1>11. object' \in Objects \cup {None}
  <2>1. (c \notin Infected) \in BOOLEAN /\ c \in Contents
    BY <1>4 DEF IInv, TypeOK
  <2>2. QED
    BY <1>3, <2>1 DEF Objects
<1>12. /\ Admin \in users' /\ users' \subseteq Users /\ stored' \subseteq Contents
       /\ governed' \in [Governed -> Nat] /\ space' \in Spaces
       /\ records' \subseteq Scopes /\ facts' \subseteq Facts /\ assigned' \in [Users -> SUBSET Roles]
  BY <1>3, <1>5 DEF IInv, TypeOK
<1>13. IInv'
  BY <1>3, <1>6, <1>7, <1>8, <1>10, <1>11, <1>12, Ends
<1>14. QED
  BY <1>3, <1>5, <1>10, <1>13 DEF Told

LEMMA ServeInv ==
    ASSUME IInv, NEW i \in DOMAIN requests, Serve(i)
    PROVE  IInv' /\ Told(i) /\ Settled
<1>1. CASE Authorize(i) \/ End(i) \/ Look(i)
  BY <1>1, AuthorizeStep, EndStep, LookStep
<1>2. CASE CreateUser(i) \/ CreateServiceIdentity(i)
  BY <1>2, ProvisionStep DEF CreateUser, CreateServiceIdentity
<1>3. CASE CreateSpace(i) \/ UpdateSpace(i) \/ ArchiveSpace(i)
  BY <1>3, CreateSpaceStep, UpdateSpaceStep, ArchiveSpaceStep
<1>4. CASE InsertMember(i) \/ UpdateMember(i) \/ RevokeMember(i)
  BY <1>4, InsertMemberStep, UpdateMemberStep, RevokeMemberStep
<1>5. CASE CreateModelProfile(i) \/ CreatePrompt(i) \/ CreateConnectorDefinition(i)
  BY <1>5, GovernedSteps
<1>6. CASE CreateUpload(i) \/ ExpireUpload(i) \/ StoreContent(i) \/ CompleteUpload(i)
  BY <1>6, CreateUploadStep, ExpireUploadStep, StoreContentStep, CompleteUploadStep
<1>7. QED
  BY <1>1, <1>2, <1>3, <1>4, <1>5, <1>6 DEF Serve

LEMMA ArriveTells ==
    ASSUME IInv, NEW u \in Users, Arrive(u)
    PROVE  UNCHANGED platform
  BY DEF Arrive, AskTenant, AskSpace, AskContent, FindLate, Ask

LEMMA InvNext == IInv /\ [Next]_vars => IInv'
<1> SUFFICES ASSUME IInv, [Next]_vars PROVE IInv'
  OBVIOUS
<1>1. CASE UNCHANGED vars
  <2>1. PICK S : S = {}
    OBVIOUS
  <2>2. /\ UNCHANGED platform /\ requests' \in Seq(Requests) /\ asked' \in Nat
        /\ requests' = requests /\ \A e \in S : Fine(e)'
    BY <1>1, <2>1 DEF vars, IInv, TypeOK
  <2>3. \A j \in DOMAIN requests' :
            requests'[j] \in S \/ \E k \in DOMAIN requests : requests'[j] = requests[k]
    BY <2>2
  <2>4. QED
    BY <2>2, <2>3, RequestsOnly
<1>2. CASE Next
  BY <1>2, ArriveInv, ServeInv DEF Next
<1>3. QED
  BY <1>1, <1>2

LEMMA Invariance == Spec => []IInv
  BY InvInit, InvNext, PTL DEF Spec

-----------------------------------------------------------------------------
\* authorize, create_user, create_space, grant_member, revoke_member, update_space and
\* archive_space: for any tenant roles, policies and overlapping requests, identities and the
\* space come from administrators of the tenant, and whoever changes the space or a membership
\* administers all spaces, created this one or was let in by somebody else before.
THEOREM Chain == Spec => ChainOfAuthority
<1>1. IInv /\ [Next]_vars
          => [\A f \in facts' \ facts :
                 /\ f.about = "user" \/ Founds(f) => Override(f.by)
                 /\ f.about \in {"space", "member"} /\ ~Founds(f)
                        => OverAll(f.by) \/ Founder(f.by) \/ Invited(f.by)]_vars
  <2> SUFFICES ASSUME IInv, Next, NEW f \in facts' \ facts, f.about \in {"user", "space", "member"}
               PROVE  /\ f.about = "user" \/ Founds(f) => Override(f.by)
                      /\ f.about \in {"space", "member"} /\ ~Founds(f) => Warranted(f.by)
    BY DEF Warranted, Founds
  <2>1. ASSUME NEW u \in Users, Arrive(u) PROVE FALSE
    BY <2>1, ArriveTells DEF platform
  <2>2. PICK i \in DOMAIN requests : Serve(i)
    BY <2>1 DEF Next
  <2>3. PICK r : r = requests[i]
    OBVIOUS
  <2>4. /\ f.by = r.by /\ (f.about = "user" \/ Founds(f) => r.what.op \in ByTenant)
        /\ f.about # "user" /\ ~Founds(f) => r.at \in {"allowed", "looked"} /\ r.what.op \in OfSpace
    BY <2>2, <2>3, ServeInv DEF Told
  <2>5. Authorised(r)
    BY <2>3, RequestFacts
  <2>6. QED
    BY <2>4, <2>5 DEF Authorised
<1>2. QED
  BY <1>1, Invariance, PTL DEF Spec, ChainOfAuthority

\* archive_space and complete_upload: for any overlap of requests an archived space stays
\* as it is, and a session registers one object, which is in the store.
THEOREM Settlement == Spec => SettledStays
<1>1. IInv /\ [Next]_vars
          => [/\ (space.status = "ARCHIVED") => (space' = space)
              /\ (object # None) => (object' = object)
              /\ (object' # None) => (object'.content \in stored)]_vars
  <2> SUFFICES ASSUME IInv, Next PROVE Settled
    BY DEF Settled
  <2>1. ASSUME NEW u \in Users, Arrive(u) PROVE Settled
    BY <2>1, ArriveTells DEF platform, objectVars, Settled, IInv, ObjectClosed
  <2>2. QED
    BY <2>1, ServeInv DEF Next
<1>2. QED
  BY <1>1, Invariance, PTL DEF Spec, SettledStays

-----------------------------------------------------------------------------
(* What is told is true *)

\* What a fact says of an aggregate that never changes
Said1(about) ==
    CASE about = "user" -> "ACTIVE" [] about = "upload" -> "INITIATED" [] OTHER -> "DRAFT"

Story ==
    \A f \in facts :
        /\ f.about = "space" => f.id = 0 /\ f.roles = {}
        /\ f.about = "member" => f.id \in DOMAIN members
        /\ f.about \notin {"space", "member", "object"} => f.status = Said1(f.about) /\ f.roles = {}

\* Without the space there is nothing of the space, and no request changes it.
Beginning == space.status = "none" => space.version = 0 /\ DOMAIN members = {}
Founded ==
    \A j \in DOMAIN requests : requests[j].what.op \in OfSpace => space.status # "none"

\* The inductive invariant of the facts, on top of IInv
TInv ==
    OneEffectPerKey /\ VersionsAreSettled /\ FactsAreTheRows /\ Story /\ Beginning /\ Founded

LEMMA TruthInit == Init => TInv
  BY DEF Init, TInv, OneEffectPerKey, VersionsAreSettled, FactsAreTheRows, Said, Story, Beginning,
         Founded

LEMMA KeepsFounded ==
    ASSUME IInv, Founded, NEW i \in DOMAIN requests,
           \/ Finish(i)
           \/ \E e \in Requests : e.what = requests[i].what /\ Move(i, e),
           space.status # "none" => space'.status # "none"
    PROVE  Founded'
<1>1. ASSUME NEW j \in DOMAIN requests'
      PROVE  \E k \in DOMAIN requests : requests'[j].what = requests[k].what
  <2>1. TypeOK
    BY DEF IInv
  <2>2. CASE Finish(i)
    BY <2>1, <2>2, Finishes
  <2>3. ASSUME NEW e \in Requests, e.what = requests[i].what, Move(i, e)
        PROVE  \E k \in DOMAIN requests : requests'[j].what = requests[k].what
    <3>1. requests'[j] = e \/ \E k \in DOMAIN requests : requests'[j] = requests[k]
      BY <2>1, <2>3, Moves
    <3>2. QED
      BY <2>3, <3>1
  <2>4. QED
    BY <2>2, <2>3
<1>2. QED
  BY <1>1 DEF Founded

LEMMA Quiet ==
    ASSUME TInv, UNCHANGED <<space, members, records, facts>>, Founded'
    PROVE  TInv'
<1>1. OneEffectPerKey' /\ VersionsAreSettled'
  BY DEF TInv, OneEffectPerKey, VersionsAreSettled
<1>2. FactsAreTheRows'
  BY DEF TInv, FactsAreTheRows, Said
<1>3. Story' /\ Beginning'
  BY DEF TInv, Story, Beginning
<1>4. QED
  BY <1>1, <1>2, <1>3 DEF TInv

\* A transaction leaves one new fact, under a key that had none.
LEMMA TellsOnce ==
    ASSUME IInv, TInv, NEW i \in DOMAIN requests, requests[i].what.op # "content",
           Unrecorded(requests[i]), NEW about, NEW id, NEW version, NEW status, NEW roles,
           Commit(i, about, id, version, status, roles)
    PROVE  /\ OneEffectPerKey' /\ Finish(i)
           /\ \E f : /\ facts' = facts \cup {f} /\ f.about = about /\ f.id = id
                     /\ f.version = version /\ f.status = status /\ f.roles = roles
<1>1. PICK r, s, f : r = requests[i] /\ s = Scope(r) /\ f = Fact(r, about, id, version, status, roles)
  OBVIOUS
<1>2. /\ f.about = about /\ f.id = id /\ f.version = version /\ f.status = status
      /\ f.roles = roles /\ f.scope = s
  BY <1>1 DEF Fact
<1>3. records' = records \cup {s} /\ facts' = facts \cup {f} /\ Finish(i) /\ s \notin records
  BY <1>1 DEF Commit, Unrecorded
<1>4. s # None
  <2>1. /\ r.by \in Users /\ r.key \in Keys /\ r.what.op \in InTenant \cup InSpace
        /\ r.what.subject \in Users \cup {None}
    BY <1>1, RequestFacts DEF Meant
  <2>2. s \in Scopes
    BY <1>1, <2>1 DEF Scope, Scopes
  <2>3. QED
    BY <2>2, NoneAssumption
<1>5. records = {g.scope : g \in facts} \ {None}
  BY DEF TInv, OneEffectPerKey
<1>6. records' = {g.scope : g \in facts'} \ {None}
  BY <1>2, <1>3, <1>4, <1>5
<1>7. \A g \in facts : g.scope # s
  BY <1>3, <1>4, <1>5
<1>8. \A g, h \in facts' : g.scope = h.scope /\ g.scope # None => g = h
  BY <1>2, <1>3, <1>7 DEF TInv, OneEffectPerKey
<1>9. QED
  BY <1>2, <1>3, <1>6, <1>8 DEF OneEffectPerKey

LEMMA AddsFact ==
    ASSUME TInv, NEW f, facts' = facts \cup {f},
           \A g \in facts :
               g.about = f.about /\ f.about # "object" /\ g.id = f.id /\ g.version = f.version
                   => g.status = f.status /\ g.roles = f.roles
    PROVE  VersionsAreSettled'
  BY DEF TInv, VersionsAreSettled

\* Facts about what never changes, and about the object
LEMMA PlainTruth ==
    ASSUME IInv, TInv, NEW f, facts' = facts \cup {f}, f.about \notin {"space", "member"},
           f.about # "object" => f.status = Said1(f.about) /\ f.roles = {},
           UNCHANGED <<space, members>>, OneEffectPerKey', Founded'
    PROVE  TInv'
<1>1. Story'
  BY DEF TInv, Story
<1>2. VersionsAreSettled'
  <2>1. \A g \in facts :
            g.about = f.about /\ f.about # "object" /\ g.id = f.id /\ g.version = f.version
                => g.status = f.status /\ g.roles = f.roles
    BY DEF TInv, Story
  <2>2. QED
    BY <2>1, AddsFact
<1>3. FactsAreTheRows'
  BY DEF TInv, FactsAreTheRows, Said
<1>4. Beginning'
  BY DEF TInv, Beginning
<1>5. QED
  BY <1>1, <1>2, <1>3, <1>4 DEF TInv

\* Facts about the space: a new version, or once more what it is
LEMMA SpaceTruth ==
    ASSUME IInv, TInv, NEW f, facts' = facts \cup {f}, f.about = "space", f.id = 0, f.roles = {},
           f.version = space'.version, f.status = space'.status, space'.status # "none",
           space'.version \in Nat, space' = space \/ space'.version > space.version,
           members' = members \/ (DOMAIN members = {} /\ DOMAIN members' = {1}),
           OneEffectPerKey', Founded'
    PROVE  TInv'
<1>1. \A g \in facts : g.about = "space" => g.id = 0 /\ g.roles = {} /\ g.version \in Nat
  BY DEF IInv, TInv, TypeOK, Facts, Story
<1>2. \A g \in Said("space", 0) :
          g.version <= space.version /\ (g.version = space.version => g.status = space.status)
  BY DEF TInv, FactsAreTheRows
<1>3. space.version \in Nat
  BY DEF IInv, TypeOK, Spaces
<1>4. \A g \in facts : g.about = "space" /\ g.version = f.version => g.status = f.status
  BY <1>1, <1>2, <1>3 DEF Said
<1>5. VersionsAreSettled'
  <2>1. \A g \in facts :
            g.about = f.about /\ f.about # "object" /\ g.id = f.id /\ g.version = f.version
                => g.status = f.status /\ g.roles = f.roles
    BY <1>1, <1>4
  <2>2. QED
    BY <2>1, AddsFact
<1>6. Story' /\ Beginning'
  BY DEF TInv, Story, Beginning
<1>7. ASSUME NEW g \in Said("space", 0)'
      PROVE  g.version <= space'.version /\ (g.version = space'.version => g.status = space'.status)
  <2>1. CASE g = f
    BY <2>1
  <2>2. CASE g \in Said("space", 0)
    BY <1>1, <1>2, <1>3, <2>2 DEF Said
  <2>3. QED
    BY <1>7, <2>1, <2>2 DEF Said
<1>8. ASSUME NEW k \in DOMAIN members'
      PROVE  /\ k = 1 \/ \E g \in Said("member", k)' : g.version = members'[k].version
             /\ \A g \in Said("member", k)' :
                    /\ g.version <= members'[k].version
                    /\ g.version = members'[k].version
                           => g.status = members'[k].status /\ g.roles = members'[k].roles
  <2>1. Said("member", k)' = Said("member", k)
    BY DEF Said
  <2>2. CASE members' = members
    BY <2>1, <2>2 DEF TInv, FactsAreTheRows
  <2>3. CASE DOMAIN members = {} /\ DOMAIN members' = {1}
    BY <2>1, <2>3 DEF TInv, Story, Said
  <2>4. QED
    BY <2>2, <2>3
<1>9. FactsAreTheRows'
  BY <1>7, <1>8 DEF FactsAreTheRows
<1>10. QED
  BY <1>5, <1>6, <1>9 DEF TInv

\* Facts about a membership: a new version of its row, or once more what it is
LEMMA MemberTruth ==
    ASSUME IInv, TInv, NEW f, NEW k \in DOMAIN members', facts' = facts \cup {f},
           f.about = "member", f.id = k, f.version = members'[k].version,
           f.status = members'[k].status, f.roles = members'[k].roles,
           members'[k].version \in Nat, DOMAIN members \subseteq DOMAIN members',
           \A j \in DOMAIN members' : j # k => j \in DOMAIN members /\ members'[j] = members[j],
           \/ k \notin DOMAIN members
           \/ members[k].version \in Nat
              /\ (members'[k] = members[k] \/ members'[k].version > members[k].version),
           space' = space, space.status # "none", OneEffectPerKey', Founded'
    PROVE  TInv'
<1>1. \A g \in facts : g.about = "member" => g.id \in DOMAIN members /\ g.version \in Nat
  BY DEF IInv, TInv, TypeOK, Facts, Story
<1>2. \A j \in DOMAIN members : \A g \in Said("member", j) :
          /\ g.version <= members[j].version
          /\ g.version = members[j].version => g.status = members[j].status /\ g.roles = members[j].roles
  BY DEF TInv, FactsAreTheRows
<1>3. \A g \in facts : g.about = "member" /\ g.id = k =>
          /\ g.version <= f.version
          /\ g.version = f.version => g.status = f.status /\ g.roles = f.roles
  BY <1>1, <1>2 DEF Said
<1>4. VersionsAreSettled'
  BY <1>3, AddsFact
<1>5. Story' /\ Beginning'
  BY DEF TInv, Story, Beginning
<1>6. ASSUME NEW j \in DOMAIN members'
      PROVE  /\ j = 1 \/ \E g \in Said("member", j)' : g.version = members'[j].version
             /\ \A g \in Said("member", j)' :
                    /\ g.version <= members'[j].version
                    /\ g.version = members'[j].version
                           => g.status = members'[j].status /\ g.roles = members'[j].roles
  <2>1. CASE j = k
    <3>1. f \in Said("member", j)' /\ f.version <= f.version
      BY <2>1 DEF Said
    <3>2. \A g \in Said("member", j)' : g = f \/ (g \in facts /\ g.about = "member" /\ g.id = k)
      BY <2>1 DEF Said
    <3>3. QED
      BY <1>3, <2>1, <3>1, <3>2
  <2>2. CASE j # k
    <3>1. Said("member", j)' = Said("member", j)
      BY <2>2 DEF Said
    <3>2. j \in DOMAIN members /\ members'[j] = members[j]
      BY <2>2
    <3>3. j = 1 \/ \E g \in Said("member", j) : g.version = members[j].version
      BY <3>2 DEF TInv, FactsAreTheRows
    <3>4. QED
      BY <1>2, <3>1, <3>2, <3>3
  <2>3. QED
    BY <2>1, <2>2
<1>7. \A g \in Said("space", 0)' :
          g.version <= space'.version /\ (g.version = space'.version => g.status = space'.status)
  BY DEF TInv, FactsAreTheRows, Said
<1>8. FactsAreTheRows'
  BY <1>6, <1>7 DEF FactsAreTheRows
<1>9. QED
  BY <1>4, <1>5, <1>8 DEF TInv

-----------------------------------------------------------------------------
(* The truth of the facts through each step *)

LEMMA ArriveTruth ==
    ASSUME IInv, TInv, NEW u \in Users, Arrive(u)
    PROVE  TInv'
<1>1. IInv' /\ UNCHANGED platform
  BY ArriveInv, ArriveTells
<1>2. \E key, what, at, row :
          Ask(u, key, what, at, row) /\ (what.op \in OfSpace => space.status = "ACTIVE")
  <2>1. \A key, what : AskTenant(u, key, what) =>
            Ask(u, key, what, "allowed", 0) /\ what.op \notin OfSpace
    BY DEF AskTenant, InTenant, OfSpace
  <2>2. \A key, what : AskSpace(u, key, what) =>
            \E row : Ask(u, key, what, "reading", row) /\ space.status = "ACTIVE"
    BY DEF AskSpace, Admissible
  <2>3. FindLate(u, Blank) => Ask(u, None, Blank, "late", 0) /\ Blank.op \notin OfSpace
    BY BlankFacts DEF FindLate, OfSpace
  <2>4. \/ \E key, what : AskTenant(u, key, what)
        \/ \E key, what : AskSpace(u, key, what)
        \/ FindLate(u, Blank)
    BY DEF Arrive, AskContent
  <2>5. QED
    BY <2>1, <2>2, <2>3, <2>4
<1>3. PICK key, what, at, row :
          Ask(u, key, what, at, row) /\ (what.op \in OfSpace => space.status = "ACTIVE")
  BY <1>2
<1>4. PICK e : e = [at |-> at, by |-> u, key |-> key, what |-> what, row |-> row, revision |-> 0]
  OBVIOUS
<1>5. requests' = Append(requests, e) /\ requests \in Seq(Requests)
  BY <1>3, <1>4 DEF Ask, IInv, TypeOK
<1>6. \A j \in DOMAIN requests' : requests'[j] = e \/ (j \in DOMAIN requests /\ requests'[j] = requests[j])
  BY <1>5
<1>7. Founded'
  <2>1. space' = space /\ e.what = what
    BY <1>1, <1>4 DEF platform
  <2>2. QED
    BY <1>3, <1>6, <2>1 DEF TInv, Founded
<1>8. QED
  BY <1>1, <1>7, Quiet DEF platform

LEMMA QuietSteps ==
    ASSUME IInv, TInv, NEW i \in DOMAIN requests,
           Authorize(i) \/ End(i) \/ Look(i) \/ ExpireUpload(i) \/ StoreContent(i)
    PROVE  TInv'
<1>1. PICK r : r = requests[i] /\ r \in Requests
  BY RequestFacts
<1>2. UNCHANGED <<space, members, records, facts>>
  BY DEF Authorize, End, Look, ExpireUpload, StoreContent, platform
<1>3. Founded'
  <2>1. Finish(i) \/ \E e \in Requests : e.what = requests[i].what /\ Move(i, e)
    <3>1. CASE Authorize(i)
      <4>1. PICK e : e = [r EXCEPT !.at = "allowed", !.row = 0]
        OBVIOUS
      <4>2. e \in Requests /\ e.what = r.what
        BY <1>1, <4>1 DEF Requests
      <4>3. Move(i, e)
        BY <1>1, <3>1, <4>1 DEF Authorize
      <4>4. QED
        BY <1>1, <4>2, <4>3
    <3>2. CASE End(i) \/ ExpireUpload(i)
      BY <3>2 DEF End, ExpireUpload
    <3>3. CASE Look(i)
      <4>1. CASE Move(i, [r EXCEPT !.at = "looked"])
        <5>1. PICK e : e = [r EXCEPT !.at = "looked"]
          OBVIOUS
        <5>2. e \in Requests /\ e.what = r.what
          BY <1>1, <5>1 DEF Requests
        <5>3. QED
          BY <1>1, <4>1, <5>1, <5>2
      <4>2. CASE Move(i, [r EXCEPT !.at = "looked", !.revision = governed["prompt"] + 1])
        <5>1. PICK n \in Nat : n = governed["prompt"] + 1
          BY DEF IInv, TypeOK, Governed
        <5>2. PICK e : e = [r EXCEPT !.at = "looked", !.revision = n]
          OBVIOUS
        <5>3. e \in Requests /\ e.what = r.what
          BY <1>1, <5>2 DEF Requests
        <5>4. QED
          BY <1>1, <4>2, <5>1, <5>2, <5>3
      <4>3. QED
        BY <1>1, <3>3, <4>1, <4>2 DEF Look
    <3>4. CASE StoreContent(i)
      <4>1. PICK e : e = [r EXCEPT !.at = "scanned"]
        OBVIOUS
      <4>2. e \in Requests /\ e.what = r.what
        BY <1>1, <4>1 DEF Requests
      <4>3. Move(i, e)
        BY <1>1, <3>4, <4>1 DEF StoreContent
      <4>4. QED
        BY <1>1, <4>2, <4>3
    <3>5. QED
      BY <3>1, <3>2, <3>3, <3>4
  <2>2. space' = space
    BY <1>2
  <2>3. QED
    BY <2>1, <2>2, KeepsFounded DEF TInv
<1>4. QED
  BY <1>2, <1>3, Quiet

\* Transactions about what never changes
LEMMA FixedTruth ==
    ASSUME IInv, TInv, NEW i \in DOMAIN requests, requests[i].what.op # "content",
           Unrecorded(requests[i]), NEW about \in {"user", "upload"} \cup Governed, NEW id, NEW version,
           Commit(i, about, id, version, Said1(about), {}), UNCHANGED <<space, members>>
    PROVE  TInv'
<1>1. PICK status, roles : status = Said1(about) /\ roles = {}
  OBVIOUS
<1>2. Commit(i, about, id, version, status, roles)
  BY <1>1
<1>3. /\ OneEffectPerKey' /\ Finish(i)
      /\ \E f : /\ facts' = facts \cup {f} /\ f.about = about /\ f.id = id
                /\ f.version = version /\ f.status = status /\ f.roles = roles
  BY <1>2, TellsOnce
<1>4. Founded'
  BY <1>3, KeepsFounded DEF TInv
<1>5. PICK f : /\ facts' = facts \cup {f} /\ f.about = about
               /\ f.status = Said1(about) /\ f.roles = {}
  BY <1>1, <1>3
<1>6. about \notin {"space", "member", "object"}
  BY DEF Governed
<1>7. QED
  BY <1>3, <1>4, <1>5, <1>6, PlainTruth

LEMMA FixedSteps ==
    ASSUME IInv, TInv, NEW i \in DOMAIN requests,
           \/ CreateUser(i) \/ CreateServiceIdentity(i) \/ CreateUpload(i)
           \/ CreateModelProfile(i) \/ CreatePrompt(i) \/ CreateConnectorDefinition(i)
    PROVE  TInv'
<1>1. ASSUME NEW op \in {"user.create", "service.create"}, Provision(i, op) PROVE TInv'
  <2>1. PICK u : u = requests[i].what.subject
    OBVIOUS
  <2>2. /\ requests[i].what.op # "content" /\ Unrecorded(requests[i])
        /\ Commit(i, "user", u, 1, Said1("user"), {}) /\ UNCHANGED <<space, members>>
    BY <1>1, <2>1 DEF Provision, Executing, Said1
  <2>3. QED
    BY <2>2, FixedTruth
<1>2. CASE CreateUpload(i)
  <2>1. /\ requests[i].what.op # "content" /\ Unrecorded(requests[i])
        /\ Commit(i, "upload", 0, 1, Said1("upload"), {}) /\ UNCHANGED <<space, members>>
    BY <1>2 DEF CreateUpload, Executing, Said1
  <2>2. QED
    BY <2>1, FixedTruth
<1>3. ASSUME NEW at, NEW op, NEW kind \in Governed, NEW id, NEW version, op # "content",
             CreateGoverned(i, at, op, kind, id, version)
      PROVE  TInv'
  <2>1. Said1(kind) = "DRAFT"
    BY DEF Said1, Governed
  <2>2. /\ requests[i].what.op # "content" /\ Unrecorded(requests[i])
        /\ Commit(i, kind, id, version, Said1(kind), {}) /\ UNCHANGED <<space, members>>
    BY <1>3, <2>1 DEF CreateGoverned, Executing
  <2>3. QED
    BY <2>2, FixedTruth
<1>4. {"profile", "prompt", "definition"} \subseteq Governed
  BY DEF Governed
<1>5. CASE CreateModelProfile(i)
  <2>1. PICK n : n = governed["profile"] + 1
    OBVIOUS
  <2>2. CreateGoverned(i, "allowed", "profile.create", "profile", n, 1)
    BY <1>5, <2>1 DEF CreateModelProfile
  <2>3. QED
    BY <1>3, <1>4, <2>2
<1>6. CASE CreatePrompt(i)
  <2>1. PICK n : n = requests[i].revision
    OBVIOUS
  <2>2. CreateGoverned(i, "looked", "prompt.create", "prompt", 0, n)
    BY <1>6, <2>1 DEF CreatePrompt
  <2>3. QED
    BY <1>3, <1>4, <2>2
<1>7. CASE CreateConnectorDefinition(i)
  BY <1>3, <1>4, <1>7 DEF CreateConnectorDefinition
<1>8. QED
  BY <1>1, <1>2, <1>5, <1>6, <1>7 DEF CreateUser, CreateServiceIdentity

LEMMA SpaceSteps ==
    ASSUME IInv, TInv, NEW i \in DOMAIN requests,
           CreateSpace(i) \/ UpdateSpace(i) \/ ArchiveSpace(i)
    PROVE  TInv'
<1>1. PICK v, s : v = space'.version /\ s = space'.status
  OBVIOUS
<1>2. space \in Spaces /\ space.version \in Nat
  BY DEF IInv, TypeOK, Spaces
<1>3. /\ requests[i].what.op # "content" /\ Unrecorded(requests[i])
      /\ Commit(i, "space", 0, v, s, {})
  <2>1. CASE CreateSpace(i)
    BY <1>1, <2>1 DEF CreateSpace, Executing, Commit
  <2>2. CASE UpdateSpace(i)
    BY <1>1, <2>2 DEF UpdateSpace, Executing, Commit
  <2>3. CASE ArchiveSpace(i)
    BY <1>1, <2>3 DEF ArchiveSpace, Executing, Commit
  <2>4. QED
    BY <2>1, <2>2, <2>3
<1>4. /\ s # "none" /\ v \in Nat /\ (space' = space \/ v > space.version)
      /\ (members' = members \/ (DOMAIN members = {} /\ DOMAIN members' = {1}))
  <2>1. CASE CreateSpace(i)
    <3>1. /\ space.status = "none" /\ s = "ACTIVE" /\ v = 1
          /\ members' = members \/ \E m : members' = Append(members, m)
      BY <1>1, <2>1 DEF CreateSpace
    <3>2. space.version = 0 /\ DOMAIN members = {}
      BY <3>1 DEF TInv, Beginning
    <3>3. Len(members) = 0 /\ members \in Seq(Rows)
      BY <3>2 DEF IInv, TypeOK
    <3>4. members' = members \/ DOMAIN members' = {1}
      BY <3>1, <3>3
    <3>5. QED
      BY <3>1, <3>2, <3>4
  <2>2. CASE UpdateSpace(i)
    <3>1. /\ space.status = "ACTIVE" /\ members' = members
          /\ space'.status = space.status /\ space'.version = space.version + 1
      BY <1>2, <2>2 DEF UpdateSpace, Editable, Spaces
    <3>2. QED
      BY <1>1, <1>2, <3>1
  <2>3. CASE ArchiveSpace(i)
    <3>1. members' = members
      BY <2>3 DEF ArchiveSpace
    <3>2. CASE space.status = "ARCHIVED"
      BY <1>1, <1>2, <2>3, <3>1, <3>2 DEF ArchiveSpace
    <3>3. CASE space.status # "ARCHIVED"
      <4>1. space'.status = "ARCHIVED" /\ space'.version = space.version + 1
        BY <1>2, <2>3, <3>3 DEF ArchiveSpace, Spaces
      <4>2. QED
        BY <1>1, <1>2, <3>1, <4>1
    <3>4. QED
      BY <3>2, <3>3
  <2>4. QED
    BY <2>1, <2>2, <2>3
<1>5. PICK roles : roles = {}
  OBVIOUS
<1>6. /\ OneEffectPerKey' /\ Finish(i)
      /\ \E f : /\ facts' = facts \cup {f} /\ f.about = "space" /\ f.id = 0
                /\ f.version = v /\ f.status = s /\ f.roles = roles
  BY <1>3, <1>5, TellsOnce
<1>7. PICK f : /\ facts' = facts \cup {f} /\ f.about = "space" /\ f.id = 0
               /\ f.version = v /\ f.status = s /\ f.roles = {}
  BY <1>5, <1>6
<1>8. Founded'
  BY <1>1, <1>4, <1>6, KeepsFounded DEF TInv
<1>9. QED
  BY <1>1, <1>4, <1>6, <1>7, <1>8, SpaceTruth

LEMMA MemberSteps ==
    ASSUME IInv, TInv, NEW i \in DOMAIN requests,
           InsertMember(i) \/ UpdateMember(i) \/ RevokeMember(i)
    PROVE  TInv'
<1>1. PICK r, w, u : r = requests[i] /\ w = r.what /\ u = w.subject
  OBVIOUS
<1>2. /\ w.op \in {"membership.grant", "membership.revoke"} /\ Unrecorded(r)
      /\ space' = space
  BY <1>1 DEF InsertMember, UpdateMember, RevokeMember, Executing
<1>3. /\ u \in Users /\ w.level \in Levels /\ space.status # "none"
      /\ w.op = "membership.grant" => w.roles \in SUBSET SpaceRoles
  BY <1>1, <1>2, RequestFacts DEF Meant, TInv, Founded, OfSpace
<1>4. members \in Seq(Rows) /\ \A m \in Rows : m.version \in Nat
  BY DEF IInv, TypeOK, Rows
<1>5. \E k \in DOMAIN members' :
          /\ Tell(i, k) /\ members'[k].version \in Nat /\ DOMAIN members \subseteq DOMAIN members'
          /\ \A j \in DOMAIN members' : j # k => j \in DOMAIN members /\ members'[j] = members[j]
          /\ \/ k \notin DOMAIN members
             \/ members[k].version \in Nat
                /\ (members'[k] = members[k] \/ members'[k].version > members[k].version)
  <2>1. CASE InsertMember(i)
    <3>1. PICK m : m = [subject |-> u, status |-> "ACTIVE", roles |-> w.roles,
                        clearance |-> w.level, version |-> 1]
      OBVIOUS
    <3>3. members' = Append(members, m) /\ Tell(i, Len(members')) /\ w.op = "membership.grant"
      BY <1>1, <2>1, <3>1 DEF InsertMember, Executing
    <3>2. m \in Rows
      BY <1>3, <3>1, <3>3 DEF Rows
    <3>4. /\ Len(members') \in DOMAIN members' /\ members'[Len(members')] = m
          /\ DOMAIN members \subseteq DOMAIN members' /\ Len(members') \notin DOMAIN members
          /\ \A j \in DOMAIN members' :
                 j # Len(members') => j \in DOMAIN members /\ members'[j] = members[j]
      BY <1>4, <3>2, <3>3
    <3>5. PICK k \in DOMAIN members' : k = Len(members')
      BY <3>4
    <3>6. Tell(i, k)
      BY <3>3, <3>5 DEF Tell, Commit
    <3>7. m.version \in Nat
      BY <1>4, <3>2
    <3>8. QED
      BY <3>4, <3>5, <3>6, <3>7
  <2>2. ASSUME NEW k, NEW m, k = RowOf(u), k # 0, members' = [members EXCEPT ![k] = m], Tell(i, k),
               \A x \in Rows : x = members[k] => m = x \/ m.version = x.version + 1
        PROVE  \E l \in DOMAIN members' :
                   /\ Tell(i, l) /\ members'[l].version \in Nat /\ DOMAIN members \subseteq DOMAIN members'
                   /\ \A j \in DOMAIN members' : j # l => j \in DOMAIN members /\ members'[j] = members[j]
                   /\ \/ l \notin DOMAIN members
                      \/ members[l].version \in Nat
                         /\ (members'[l] = members[l] \/ members'[l].version > members[l].version)
    <3>1. k \in DOMAIN members /\ members[k] \in Rows
      BY <1>3, <1>4, <2>2, RowFacts
    <3>2. members[k].version \in Nat /\ (m = members[k] \/ m.version = members[k].version + 1)
      BY <1>4, <2>2, <3>1
    <3>3. /\ DOMAIN members' = DOMAIN members /\ members'[k] = m
          /\ \A j \in DOMAIN members' : j # k => members'[j] = members[j]
      BY <1>4, <2>2, <3>1
    <3>4. m.version \in Nat /\ (m = members[k] \/ m.version > members[k].version)
      BY <3>2
    <3>5. QED
      BY <2>2, <3>1, <3>2, <3>3, <3>4
  <2>3. CASE UpdateMember(i)
    <3>1. PICK k, m : k = RowOf(u) /\ m = Renewed(members[k], w)
      OBVIOUS
    <3>2. k # 0 /\ members' = [members EXCEPT ![k] = m]
      <4>1. members' = [members EXCEPT ![k] = Renewed(members[k], w)] /\ k # 0
        BY <1>1, <2>3, <3>1 DEF UpdateMember
      <4>2. QED
        BY <3>1, <4>1
    <3>3. Tell(i, k)
      BY <1>1, <2>3, <3>1 DEF UpdateMember, Tell, Commit
    <3>4. \A x \in Rows : x = members[k] => m.version = x.version + 1
      BY <3>1 DEF Renewed, Rows
    <3>5. QED
      BY <2>2, <3>1, <3>2, <3>3, <3>4
  <2>4. CASE RevokeMember(i)
    <3>1. PICK k, m : k = RowOf(u) /\ m = Revoked(members[k])
      OBVIOUS
    <3>2. k # 0 /\ members' = [members EXCEPT ![k] = m] /\ Tell(i, k)
      BY <1>1, <2>4, <3>1 DEF RevokeMember, Tell, Commit
    <3>3. \A x \in Rows : x = members[k] => m = x \/ m.version = x.version + 1
      BY <3>1 DEF Revoked, Rows
    <3>4. QED
      BY <2>2, <3>1, <3>2, <3>3
  <2>5. QED
    BY <2>1, <2>3, <2>4
<1>6. PICK k \in DOMAIN members' :
          /\ Tell(i, k) /\ members'[k].version \in Nat /\ DOMAIN members \subseteq DOMAIN members'
          /\ \A j \in DOMAIN members' : j # k => j \in DOMAIN members /\ members'[j] = members[j]
          /\ \/ k \notin DOMAIN members
             \/ members[k].version \in Nat
                /\ (members'[k] = members[k] \/ members'[k].version > members[k].version)
  BY <1>5
<1>7. PICK m : m = members'[k]
  OBVIOUS
<1>8. PICK v, s, a : v = m.version /\ s = m.status /\ a = m.roles
  OBVIOUS
<1>9. Commit(i, "member", k, v, s, a)
  BY <1>6, <1>7, <1>8 DEF Tell, Commit
<1>10. requests[i].what.op # "content" /\ Unrecorded(requests[i])
  BY <1>1, <1>2
<1>11. /\ OneEffectPerKey' /\ Finish(i)
       /\ \E f : /\ facts' = facts \cup {f} /\ f.about = "member" /\ f.id = k
                 /\ f.version = v /\ f.status = s /\ f.roles = a
  BY <1>9, <1>10, TellsOnce
<1>12. Founded'
  BY <1>2, <1>11, KeepsFounded DEF TInv
<1>13. PICK f : /\ facts' = facts \cup {f} /\ f.about = "member" /\ f.id = k
                /\ f.version = members'[k].version /\ f.status = members'[k].status
                /\ f.roles = members'[k].roles
  BY <1>7, <1>8, <1>11
<1>14. QED
  BY <1>2, <1>3, <1>6, <1>11, <1>12, <1>13, MemberTruth

LEMMA CompleteTruth ==
    ASSUME IInv, TInv, NEW i \in DOMAIN requests, CompleteUpload(i)
    PROVE  TInv'
<1>1. PICK r, c : r = requests[i] /\ c = r.what.content
  OBVIOUS
<1>2. PICK f : f = Fact(r, "object", 0, 1, IF c \notin Infected THEN "CLEAN" ELSE "INFECTED", {})
  OBVIOUS
<1>3. /\ r.at = "scanned" /\ facts' = facts \cup {f} /\ Finish(i)
      /\ UNCHANGED <<space, members, records>>
  BY <1>1, <1>2 DEF CompleteUpload
<1>4. r.what.op = "content"
  BY <1>1, <1>3, RequestFacts DEF Meant
<1>5. f.about = "object" /\ f.scope = None
  BY <1>2, <1>4 DEF Fact
<1>6. OneEffectPerKey'
  <2>1. records' = {g.scope : g \in facts'} \ {None}
    BY <1>3, <1>5 DEF TInv, OneEffectPerKey
  <2>2. \A g, h \in facts' : g.scope = h.scope /\ g.scope # None => g = h
    BY <1>3, <1>5 DEF TInv, OneEffectPerKey
  <2>3. QED
    BY <2>1, <2>2 DEF OneEffectPerKey
<1>7. Founded'
  BY <1>3, KeepsFounded DEF TInv
<1>8. QED
  BY <1>3, <1>5, <1>6, <1>7, PlainTruth

LEMMA TruthNext == IInv /\ TInv /\ [Next]_vars => TInv'
<1> SUFFICES ASSUME IInv, TInv, [Next]_vars PROVE TInv'
  OBVIOUS
<1>1. CASE UNCHANGED vars
  <2>1. Founded'
    BY <1>1 DEF vars, platform, TInv, Founded
  <2>2. QED
    BY <1>1, <2>1, Quiet DEF vars, platform
<1>2. ASSUME NEW u \in Users, Arrive(u) PROVE TInv'
  BY <1>2, ArriveTruth
<1>3. ASSUME NEW i \in DOMAIN requests, Serve(i) PROVE TInv'
  BY <1>3, QuietSteps, FixedSteps, SpaceSteps, MemberSteps, CompleteTruth DEF Serve
<1>4. QED
  BY <1>1, <1>2, <1>3 DEF Next

\* _idempotent, _audit, _outbox and the commands between them: for any users, requests and
\* keys, a key has one effect, an aggregate's version has one story, and the last story
\* told of the space or a membership is its row.
THEOREM Truth == Spec => []FactsAreTrue
<1>1. IInv /\ TInv => FactsAreTrue
  BY DEF IInv, TInv, FactsAreTrue
<1>2. Spec => []TInv
  BY TruthInit, TruthNext, Invariance, PTL DEF Spec
<1>3. QED
  BY <1>1, <1>2, Invariance, PTL
=============================================================================
