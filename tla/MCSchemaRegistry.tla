-------------------------- MODULE MCSchemaRegistry --------------------------
(* SchemaRegistry with a pack that depends on another, which has two versions. *)
EXTENDS SchemaRegistry, TLC

CONSTANTS drive, pump1, pump2, root, vendor, flow, head, speed

MCPlace    == ("drive" :> 1) @@ ("pump" :> 2)
MCPackOf   == (drive :> "drive") @@ (pump1 :> "pump") @@ (pump2 :> "pump")
MCRank     == (drive :> 1) @@ (pump1 :> 1) @@ (pump2 :> 2)
MCNeeds    == [p \in PackVersions |-> IF p = drive THEN <<[pack |-> "pump", range |-> {pump1, pump2}]>>
                                          ELSE << >>]
MCSigner   == [p \in PackVersions |-> IF p = pump2 THEN vendor ELSE root]
MCDeclares == (drive :> {speed}) @@ (pump1 :> {flow}) @@ (pump2 :> {head})

Symmetric == Permutations(Names)
=============================================================================
