---------------------------- MODULE ReleaseLedger ----------------------------
(***************************************************************************)
(* What the release component promises to the readers of one knowledge     *)
(* space, with nothing of how it gets there: a ledger of releases that     *)
(* only grows, each of them approved once and published once under a       *)
(* version of its own, and for every channel the release it serves.        *)
(***************************************************************************)
EXTENDS Naturals, Sequences

CONSTANTS Candidates, Versions, Actors, Channels

VARIABLES
    ledger,     \* the releases, in order of publication
    approved,   \* the approvals on the record
    serving     \* the release each channel serves; 0 is none

ledgerVars == <<ledger, approved, serving>>

Init ==
    /\ ledger = << >>
    /\ approved = {}
    /\ serving = [ch \in Channels |-> 0]

\* A candidate is approved once, by one publisher for one channel.
Approve(c, a, ch) ==
    /\ \A p \in approved : p.cand # c
    /\ approved' = approved \cup {[cand |-> c, actor |-> a, channel |-> ch]}
    /\ UNCHANGED <<ledger, serving>>

\* An approved candidate enters the ledger once, in the approver's name, and
\* its channel serves it in the same step.
Publish(p, v) ==
    /\ \A i \in DOMAIN ledger : ledger[i].cand # p.cand /\ ledger[i].version # v
    /\ ledger' = Append(ledger, [cand |-> p.cand, version |-> v, actor |-> p.actor])
    /\ serving' = [serving EXCEPT ![p.channel] = Len(ledger) + 1]
    /\ UNCHANGED approved

\* A channel is switched to any release of the ledger.
Serve(ch, r) ==
    /\ serving' = [serving EXCEPT ![ch] = r]
    /\ UNCHANGED <<ledger, approved>>

Next ==
    \/ \E c \in Candidates, a \in Actors, ch \in Channels : Approve(c, a, ch)
    \/ \E p \in approved, v \in Versions : Publish(p, v)
    \/ \E ch \in Channels, r \in DOMAIN ledger : Serve(ch, r)

Spec == Init /\ [][Next]_ledgerVars
=============================================================================
