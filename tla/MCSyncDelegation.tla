-------------------------- MODULE MCSyncDelegation --------------------------
(***************************************************************************)
(* Small instances of SyncDelegation for TLC.  One lamport of the model    *)
(* stands for MIN_ACTIVE_STAKE; rent is 1 and min_delegation 2, so that a  *)
(* new stake account takes 3 (2 by the library's count), a decrease below  *)
(* 4 is not worth splitting off and one below 3 is refused, and the        *)
(* reserve must hold 6 before anything is planned.                         *)
(***************************************************************************)
EXTENDS SyncDelegation

CONSTANTS v1, v2, v3

\* Every order of the given votes, every combination of the given targets.
SchemesOver(votes, targets) ==
    {s \in [1 .. Cardinality(votes) -> [vote : votes, target : targets]] :
        \A i, j \in DOMAIN s : s[i].vote = s[j].vote => i = j}

Activating(n)   == [stake |-> n, activation |-> 1, deactivation |-> Never]
Deactivating(n) == [stake |-> n, activation |-> 0, deactivation |-> 1]

Ledgers(stakes, transients, reserves) ==
    [stake : [Validators -> stakes], tsa : [Validators -> transients], reserve : reserves]

AllActive == {[v \in Validators |-> "Active"]}

\* Two validators, everything the planner distinguishes; the third has what it should have.
PairSchemes == SchemesOver({v1, v2}, {0, 8, Remainder})
PairLedgers ==
    {l \in Ledgers({2, 8, 13}, {NoTsa, Activating(6), Deactivating(3)}, {5, 9, 14}) :
        l.stake[v3] = 8 /\ l.tsa[v3] = NoTsa}

\* Three validators and chunks of two: seeds, and rent spent over several chunks.
TripleSchemes == SchemesOver({v1, v2, v3}, {6, Remainder})
TripleLedgers == Ledgers({2, 12}, {NoTsa, Deactivating(1)}, {12})

Sync(s)           == [kind |-> "sync", scheme |-> s, amt |-> 0]
One(kind, v, amt) == [kind |-> kind, scheme |-> <<[vote |-> v, target |-> 0]>>, amt |-> amt]

PlanRequests ==
    {Sync(s) : s \in PairSchemes \cup TripleSchemes}
    \cup {One(kind, v1, amt) : kind \in {"increase", "decrease"}, amt \in {6, All}}
PlanLedgers == PairLedgers \cup TripleLedgers

\* A pool other users work on, one instruction per transaction.
To(v, target)  == [vote |-> v, target |-> target]
SharedRequests == {Sync(<<To(v1, 3), To(v2, 3)>>), Sync(<<To(v2, Remainder), To(v1, 3)>>),
                   One("increase", v1, 1)}
SharedLedgers  == {l \in Ledgers({2, 12}, {NoTsa, Activating(2)}, {9}) : l.tsa[v2] = NoTsa}
SharedStatuses ==
    {[v \in Validators |-> IF v = v1 THEN s ELSE "Active"] :
        s \in {"Active", "DeactivatingAll", "DeactivatingTransient", Absent}}

=============================================================================
