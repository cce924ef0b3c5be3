---------------------------- MODULE PackRegistry ----------------------------
(***************************************************************************)
(* The registry of Domain Packs of one tenant: trust keys, signed pack     *)
(* versions, revocations, and the resolution of a set of packs with what   *)
(* they depend on.                                                         *)
(*                                                                         *)
(* Registration looks at trust keys and revocations before its             *)
(* transaction, which does not look again.  That a signature is right, a   *)
(* namespace owned and a declaration well-formed is data: what fails it is *)
(* not registered and changes nothing.                                     *)
(***************************************************************************)
EXTENDS Integers, Sequences, FiniteSets

CONSTANTS
    Packs,         \* the identities of Domain Packs
    Place,         \* the place of each in the order of their keys
    PackVersions,  \* pack versions, each with one content checksum
    PackOf,        \* the pack of each
    Rank,          \* the place of each in the order of semantic versions
    Needs,         \* of each: the packs it depends on, in order, with the versions in range
    Signer,        \* the key that signed each
    SigningKeys,
    Root,          \* the platform's key, which signs revocation lists
    Registered     \* the pack versions registered to begin with

VersionsOf(k) == {p \in PackVersions : PackOf[p] = k}

Dependency == [pack : Packs, range : SUBSET PackVersions]

ASSUME PackAssumption ==
    /\ IsFiniteSet(Packs) /\ IsFiniteSet(PackVersions)
    /\ Place \in [Packs -> Nat] /\ \A k, l \in Packs : Place[k] = Place[l] => k = l
    /\ PackOf \in [PackVersions -> Packs] /\ Rank \in [PackVersions -> Nat]
    /\ Needs \in [PackVersions -> Seq(Dependency)]
    /\ \A p \in PackVersions : \A i, j \in DOMAIN Needs[p] :
           /\ Needs[p][i].range \subseteq VersionsOf(Needs[p][i].pack)
           /\ i < j => Place[Needs[p][i].pack] < Place[Needs[p][j].pack]
    /\ Signer \in [PackVersions -> SigningKeys] /\ Root \in SigningKeys
    /\ Registered \subseteq PackVersions

VARIABLES
    keys,        \* domain_pack_trust_keys: the status of each
    verified,    \* registrations that have passed their checks
    registered,  \* domain_pack_versions, all of them PUBLISHED
    revoked      \* domain_pack_revocations: pack versions and signing keys

registryVars == <<keys, verified, registered, revoked>>

-----------------------------------------------------------------------------
KeyStatuses == {"none", "ACTIVE", "REVOKED"}

RegistryTypeOK ==
    /\ keys \in [SigningKeys -> KeyStatuses]
    /\ verified \subseteq PackVersions /\ registered \subseteq PackVersions
    /\ revoked \subseteq PackVersions \cup SigningKeys

TrustedFirst == {Root} \cup {Signer[p] : p \in Registered}

RegistryInit ==
    /\ keys = [k \in SigningKeys |-> IF k \in TrustedFirst THEN "ACTIVE" ELSE "none"]
    /\ verified = {} /\ registered = Registered /\ revoked = {}

\* What was asked of the registry, which a module that uses it bounds.
RegistryRequests ==
    Cardinality((registered \cup verified) \ Registered) + Cardinality(revoked)
        + Cardinality({k \in SigningKeys : keys[k] # "none"} \ TrustedFirst)

RegisterTrustKey(k) ==
    /\ keys[k] = "none"
    /\ keys' = [keys EXCEPT ![k] = "ACTIVE"]
    /\ UNCHANGED <<verified, registered, revoked>>

NotRevoked(p) == {p, Signer[p]} \cap revoked = {}

Verifiable(p) == keys[Signer[p]] = "ACTIVE" /\ NotRevoked(p)

\* register_domain_pack up to its transaction.  A member of verified stands for any
\* number of equal requests.
VerifyPack(p) ==
    /\ p \notin verified /\ Verifiable(p)
    /\ verified' = verified \cup {p}
    /\ UNCHANGED <<keys, registered, revoked>>

\* The versions of a pack are unique.
RegisterPack(p) ==
    /\ p \in verified \ registered
    /\ registered' = registered \cup {p}
    /\ UNCHANGED <<keys, verified, revoked>>

\* A revocation list is signed by the platform's key.
RevocationsTrusted == keys[Root] = "ACTIVE"

\* An artifact has to be registered to be revoked, a key does not.
Revocable(x) == x \in registered \cup SigningKeys

ImportRevocation(x) ==
    /\ RevocationsTrusted /\ Revocable(x)
    /\ revoked' = revoked \cup {x}
    /\ keys' = [k \in SigningKeys |->
                   IF k = x /\ keys[k] # "none" THEN "REVOKED" ELSE keys[k]]
    /\ UNCHANGED <<verified, registered>>

AskRegistry ==
    \/ \E k \in SigningKeys : RegisterTrustKey(k)
    \/ \E p \in PackVersions : VerifyPack(p)
    \/ \E x \in PackVersions \cup SigningKeys : ImportRevocation(x)

-----------------------------------------------------------------------------
(* _resolve_pack_graph: depth first, in the order of the packs' keys.  The
   calls still to make are a sequence of demands: of a pack, the versions a
   choice is made from, those in range, and the packs whose dependency it is. *)

Trusted(p) == p \in registered /\ NotRevoked(p)

Newest(S) == CHOOSE p \in S : \A q \in S : Rank[q] <= Rank[p]

Demand(k, choice, range, above) == [pack |-> k, choice |-> choice, range |-> range, above |-> above]

Dependencies(p, above) ==
    [i \in DOMAIN Needs[p] |->
        Demand(Needs[p][i].pack, Needs[p][i].range, Needs[p][i].range, above \cup {PackOf[p]})]

\* One version of each pack wanted: the rows that want several come in no order.
Roots(S) ==
    {roots \in [1..Cardinality({PackOf[p] : p \in S}) -> S] :
        \A i, j \in DOMAIN roots : i < j => Place[PackOf[roots[i]]] < Place[PackOf[roots[j]]]}

\* A root is wanted exactly, but any version of its pack is in range.
Start(roots) ==
    [demands  |-> [i \in DOMAIN roots |->
                      Demand(PackOf[roots[i]], {roots[i]}, VersionsOf(PackOf[roots[i]]), {})],
     resolved |-> {}]

\* The call for the first of the demands: none when it raises a conflict.
Resolve(s) ==
    LET d    == Head(s.demands)
        rest == Tail(s.demands)
        met  == {p \in s.resolved : PackOf[p] = d.pack}
        free == {p \in d.choice : Trusted(p)}
    IN
    IF s.demands = << >> THEN {s}
    ELSE IF d.pack \in d.above THEN {}
    ELSE IF met # {} THEN {r \in {[demands |-> rest, resolved |-> s.resolved]} : met \subseteq d.range}
    ELSE {[demands |-> Dependencies(p, d.above) \o rest, resolved |-> s.resolved \cup {p}] :
             p \in {q \in free : q = Newest(free)}}

Call(states) == UNION {Resolve(s) : s \in states}

\* Each pack version is resolved once and brings at most a demand for each pack.
MaxCalls == Cardinality(Packs) * (Cardinality(PackVersions) + 1)

\* The sets of pack versions that the roots come to.
Resolved(S) ==
    LET calls[n \in 0..MaxCalls] ==
            IF n = 0 THEN {Start(roots) : roots \in Roots(S)}
            ELSE Call(calls[n - 1])
    IN  {s.resolved : s \in {t \in calls[MaxCalls] : t.demands = << >>}}

\* One version of each pack, and for every dependency a version in its range.
Satisfied(S) ==
    /\ \A p, q \in S : PackOf[p] = PackOf[q] => p = q
    /\ \A p \in S : \A i \in DOMAIN Needs[p] : S \cap Needs[p][i].range # {}
=============================================================================
