----------------------------- MODULE UpdatePool -----------------------------
(***************************************************************************)
(* `update_pool`, the epoch crank behind `splsp update` and the other      *)
(* commands that must bring a pool up to date first.  It fetches the pool  *)
(* and the clock, then the validator list, and from then on works on those *)
(* copies: the list is updated slice by slice, by position, slices that    *)
(* were up to date when fetched are skipped, and a final transaction       *)
(* updates the pool's balance and drops the removed entries.               *)
(*                                                                         *)
(* Anyone may crank, so several processes run this code at once, on a list *)
(* that the pool's owners change and that the crank itself shortens.       *)
(*                                                                         *)
(* Code:     update.rs, subcmd/update.rs.                                  *)
(* External: the stake pool program and the pool's owners.                 *)
(***************************************************************************)
EXTENDS Integers, Sequences, FiniteSets, Selection

CONSTANTS
    Cranks,        \* processes running the update
    Options,       \* values of --ctrl and --no-merge each of them may be given
    Votes,         \* vote accounts that are or may become validators
    InitialLists,  \* validator lists the model starts with
    ChunkSize,     \* MAX_VALIDATORS_TO_UPDATE_PER_TX
    MaxEpoch,      \* bound: epochs that are modelled
    MaxChanges,    \* bound: validators the owners add or remove
    MaxLosses      \* bound: transactions lost and processes killed

EntryStatuses == {"Active", "Deactivating", "ReadyForRemoval"}
Entry == [vote : Votes, last_update_epoch : 0 .. MaxEpoch, status : EntryStatuses]

\* A transaction: a slice of the list from a position on, or the final one.
SliceTx == [by : Cranks, start : Nat, votes : Seq(Votes), noMerge : BOOLEAN]
FinalTx == [by : Cranks, start : {-1}, votes : {<<>>}, noMerge : BOOLEAN]
IsFinal(t) == t.start = -1

ASSUME UpdateConstants ==
    /\ ChunkSize \in Nat \ {0}
    /\ MaxEpoch \in Nat \ {0} /\ {MaxChanges, MaxLosses} \subseteq Nat
    /\ Options \in [Cranks -> SUBSET [ctrl : {"IfNeeded", "ForcePool", "ForceAll"},
                                      noMerge : BOOLEAN]]
    /\ InitialLists \subseteq Seq(Entry)
    \* The program lists no validator twice, and the model starts in epoch 1.
    /\ \A l \in InitialLists : \A i, j \in DOMAIN l :
          (l[i].vote = l[j].vote => i = j) /\ l[i].last_update_epoch <= 1

VARIABLES
    (* the chain *)
    epoch, poolEpoch,  \* the clock; last_update_epoch of the pool
    list,              \* the validator list
    pending,           \* transactions sent and not settled
    changes, losses,   \* counters behind the bounds
    (* the cranks *)
    pc, ctrl, noMerge,
    seen,              \* epoch, pool epoch and list as fetched
    chunk,             \* number of slices already dealt with
    (* history *)
    undisturbed        \* nobody else has touched the pool since the fetch

chain  == <<epoch, poolEpoch, list, pending, changes, losses>>
cranks == <<pc, ctrl, noMerge, seen, chunk>>
vars   == <<chain, cranks, undisturbed>>

-----------------------------------------------------------------------------
(* Helpers of update_pool.                                                 *)

\* Mutant: an update of the previous epoch will do.
IsUpdatedRecently(c) == seen[c].poolEpoch + 1 >= seen[c].epoch

IsUpdatedForCurrEpoch(c) == seen[c].poolEpoch >= seen[c].epoch

\* slice::chunks: the positions of the k-th slice of the fetched list.
SliceStart(c) == chunk[c] * ChunkSize
SliceEnd(c)   == IF SliceStart(c) + ChunkSize < Len(seen[c].list)
                 THEN SliceStart(c) + ChunkSize ELSE Len(seen[c].list)
Slice(c)      == SubSeq(seen[c].list, SliceStart(c) + 1, SliceEnd(c))

\* Mutant: any instead of all.
SliceTouched(c) ==
    \E i \in DOMAIN Slice(c) : Slice(c)[i].last_update_epoch >= seen[c].epoch

SliceUpToDate(c) ==
    \A i \in DOMAIN Slice(c) : Slice(c)[i].last_update_epoch >= seen[c].epoch

\* Mutant: off by one, an empty slice after the last one.
HasSliceOrEmpty(c) == SliceStart(c) <= Len(seen[c].list)

HasSlice(c) == SliceStart(c) < Len(seen[c].list)

VotesOf(s) == [i \in DOMAIN s |-> s[i].vote]

-----------------------------------------------------------------------------
(* The cranks.                                                             *)

Alive == {"fetch_list", "slices", "confirm_slice", "final", "confirm_final"}

Keep(c, phase) == pc' = [pc EXCEPT ![c] = phase]

NothingSeen == [epoch |-> 0, poolEpoch |-> 0, list |-> <<>>]

\* The process is gone, and what it knew with it.
End(c, how) ==
    /\ pc' = [pc EXCEPT ![c] = how]
    /\ ctrl' = [ctrl EXCEPT ![c] = "IfNeeded"] /\ noMerge' = [noMerge EXCEPT ![c] = FALSE]
    /\ seen' = [seen EXCEPT ![c] = NothingSeen] /\ chunk' = [chunk EXCEPT ![c] = 0]

\* The first RPC call: pool and clock, one consistent pair.
FetchPool(c) ==
    /\ pc[c] \notin Alive
    /\ \A t \in pending : t.by # c
    /\ \E o \in Options[c] :
          ctrl' = [ctrl EXCEPT ![c] = o.ctrl] /\ noMerge' = [noMerge EXCEPT ![c] = o.noMerge]
    /\ seen' = [seen EXCEPT ![c] = [epoch |-> epoch, poolEpoch |-> poolEpoch, list |-> <<>>]]
    /\ chunk' = [chunk EXCEPT ![c] = 0]
    /\ undisturbed' = [undisturbed EXCEPT ![c] = TRUE]
    /\ Keep(c, "fetch_list")
    /\ UNCHANGED chain

\* The second call: the validator list.  Then decide what has to be done.
FetchList(c) ==
    /\ pc[c] = "fetch_list"
    /\ IF IsUpdatedForCurrEpoch(c) /\ ctrl[c] = "IfNeeded" THEN End(c, "done")
       ELSE /\ seen' = [seen EXCEPT ![c].list = list]
            /\ Keep(c, IF ~IsUpdatedForCurrEpoch(c) \/ ctrl[c] = "ForceAll"
                       THEN "slices" ELSE "final")
            /\ UNCHANGED <<ctrl, noMerge, chunk>>
    /\ UNCHANGED <<chain, undisturbed>>

SkipSlice(c) ==
    /\ pc[c] = "slices" /\ HasSlice(c)
    /\ SliceUpToDate(c) /\ ctrl[c] # "ForceAll"
    /\ chunk' = [chunk EXCEPT ![c] = @ + 1]
    /\ UNCHANGED <<chain, pc, ctrl, noMerge, seen, undisturbed>>

SendSlice(c) ==
    /\ pc[c] = "slices" /\ HasSlice(c)
    /\ ~SliceUpToDate(c) \/ ctrl[c] = "ForceAll"
    /\ pending' = pending \cup
         {[by |-> c, start |-> SliceStart(c), votes |-> VotesOf(Slice(c)),
           noMerge |-> noMerge[c]]}
    /\ Keep(c, "confirm_slice")
    /\ UNCHANGED <<epoch, poolEpoch, list, changes, losses, ctrl, noMerge, seen, chunk,
                   undisturbed>>

SendFinal(c) ==
    /\ \/ pc[c] = "final"
       \/ pc[c] = "slices" /\ ~HasSlice(c)
    /\ pending' = pending \cup {[by |-> c, start |-> -1, votes |-> <<>>, noMerge |-> noMerge[c]]}
    /\ Keep(c, "confirm_final")
    /\ UNCHANGED <<epoch, poolEpoch, list, changes, losses, ctrl, noMerge, seen, chunk,
                   undisturbed>>

\* The process is killed, or gives up on a transaction that may yet be included.
Crash(c) ==
    /\ pc[c] \in Alive /\ losses < MaxLosses
    /\ losses' = losses + 1
    /\ End(c, "dead")
    /\ UNCHANGED <<epoch, poolEpoch, list, pending, changes, undisturbed>>

-----------------------------------------------------------------------------
(* The chain and the pool's owners.                                        *)

\* The sender learns the fate of its transaction if it is still waiting.
Learn(t, confirmed) ==
    LET c == t.by
    IN  CASE pc[c] \notin {"confirm_slice", "confirm_final"} -> UNCHANGED cranks
          [] pc[c] = "confirm_slice" /\ confirmed ->
               /\ Keep(c, "slices") /\ chunk' = [chunk EXCEPT ![c] = @ + 1]
               /\ UNCHANGED <<ctrl, noMerge, seen>>
          [] OTHER -> End(c, IF confirmed THEN "done" ELSE "failed")

\* Everyone but the sender sees the pool change.
DisturbOthers(c) == undisturbed' = [d \in Cranks |-> undisturbed[d] /\ d = c]

\* An entry is updated when the slice names it at its position; a removed validator is
\* ready to go once an update merges what is left of its stake.
Updated(e, merge) ==
    [e EXCEPT !.last_update_epoch = epoch,
              !.status = IF @ = "Deactivating" /\ merge /\ e.last_update_epoch < epoch
                         THEN "ReadyForRemoval" ELSE @]

LandSlice(t) ==
    /\ ~IsFinal(t)
    /\ pending' = pending \ {t}
    /\ list' = [i \in DOMAIN list |->
                  IF i - t.start \in DOMAIN t.votes /\ t.votes[i - t.start] = list[i].vote
                  THEN Updated(list[i], ~t.noMerge) ELSE list[i]]
    /\ Learn(t, TRUE) /\ DisturbOthers(t.by)
    /\ UNCHANGED <<epoch, poolEpoch, changes, losses>>

ListUpToDate == \A i \in DOMAIN list : list[i].last_update_epoch = epoch

Staying == {e \in Entry : e.status # "ReadyForRemoval"}

LandFinal(t) ==
    /\ IsFinal(t) /\ ListUpToDate
    /\ pending' = pending \ {t}
    /\ poolEpoch' = epoch
    /\ list' = Select(list, Staying)
    /\ Learn(t, TRUE) /\ DisturbOthers(t.by)
    /\ UNCHANGED <<epoch, changes, losses>>

\* The balance of a pool whose list is out of date cannot be updated.
RejectFinal(t) ==
    /\ IsFinal(t) /\ ~ListUpToDate
    /\ pending' = pending \ {t}
    /\ Learn(t, FALSE)
    /\ UNCHANGED <<epoch, poolEpoch, list, changes, losses, undisturbed>>

Lose(t) ==
    /\ losses < MaxLosses
    /\ losses' = losses + 1
    /\ pending' = pending \ {t}
    /\ Learn(t, FALSE)
    /\ undisturbed' = [undisturbed EXCEPT ![t.by] = FALSE]
    /\ UNCHANGED <<epoch, poolEpoch, list, changes>>

AdvanceEpoch ==
    /\ epoch < MaxEpoch
    /\ epoch' = epoch + 1
    /\ undisturbed' = [c \in Cranks |-> FALSE]
    /\ UNCHANGED <<poolEpoch, list, pending, changes, losses, cranks>>

OwnerStep ==
    /\ poolEpoch = epoch /\ changes < MaxChanges
    /\ changes' = changes + 1
    /\ undisturbed' = [c \in Cranks |-> FALSE]
    /\ UNCHANGED <<epoch, poolEpoch, pending, losses, cranks>>

AddValidator(v) ==
    /\ \A i \in DOMAIN list : list[i].vote # v
    /\ list' = Append(list, [vote |-> v, last_update_epoch |-> epoch, status |-> "Active"])
    /\ OwnerStep

RemoveValidator(i) ==
    /\ list[i].status = "Active"
    /\ list' = [list EXCEPT ![i].status = "Deactivating"]
    /\ OwnerStep

-----------------------------------------------------------------------------

Init ==
    /\ epoch = 1 /\ poolEpoch \in {0, 1}
    /\ list \in InitialLists
    /\ poolEpoch = 1 => ListUpToDate
    /\ pending = {} /\ changes = 0 /\ losses = 0
    /\ pc = [c \in Cranks |-> "idle"]
    /\ ctrl = [c \in Cranks |-> "IfNeeded"] /\ noMerge = [c \in Cranks |-> FALSE]
    /\ seen = [c \in Cranks |-> NothingSeen]
    /\ chunk = [c \in Cranks |-> 0]
    /\ undisturbed = [c \in Cranks |-> FALSE]

Step(c) == FetchPool(c) \/ FetchList(c) \/ SkipSlice(c) \/ SendSlice(c) \/ SendFinal(c)
Settle  == \E t \in pending : LandSlice(t) \/ LandFinal(t) \/ RejectFinal(t) \/ Lose(t)
Owners  == \/ \E v \in Votes : AddValidator(v)
           \/ \E i \in DOMAIN list : RemoveValidator(i)

Next == \/ \E c \in Cranks : Step(c) \/ Crash(c)
        \/ Settle \/ Owners \/ AdvanceEpoch

\* A process that runs keeps running, a transaction is settled, and somebody cranks the
\* pool as long as it is out of date.
Fairness ==
    /\ \A c \in Cranks : WF_vars(pc[c] \in Alive /\ Step(c))
    /\ \A c \in Cranks : WF_vars(poolEpoch < epoch /\ FetchPool(c))
    /\ WF_vars(Settle)

Spec == Init /\ [][Next]_vars /\ Fairness

-----------------------------------------------------------------------------
(* Properties.                                                             *)

\* Every variable has its type, and the loop over the slices stays within the list.
TypeOK ==
    /\ epoch \in 1 .. MaxEpoch /\ poolEpoch \in 0 .. MaxEpoch
    /\ list \in Seq(Entry)
    /\ pending \subseteq SliceTx \cup FinalTx
    /\ changes \in 0 .. MaxChanges /\ losses \in 0 .. MaxLosses
    /\ pc \in [Cranks -> Alive \cup {"idle", "done", "failed", "dead"}]
    /\ ctrl \in [Cranks -> {"IfNeeded", "ForcePool", "ForceAll"}]
    /\ noMerge \in [Cranks -> BOOLEAN]
    /\ seen \in [Cranks -> [epoch : 0 .. MaxEpoch, poolEpoch : 0 .. MaxEpoch,
                            list : Seq(Entry)]]
    /\ chunk \in [Cranks -> Nat]
    /\ \A c \in Cranks : SliceStart(c) < Len(seen[c].list) + ChunkSize
    /\ undisturbed \in [Cranks -> BOOLEAN]

\* An update that nobody disturbs succeeds: the slices it sends and the ones it skips add up
\* to the whole list, so the final transaction is accepted and the pool is up to date.
UndisturbedUpdateSucceeds ==
    \A c \in Cranks : undisturbed[c] =>
        /\ pc[c] # "failed"
        /\ pc[c] = "done" => poolEpoch = epoch /\ ListUpToDate

\* "ignores entries already updated for this epoch": what a crank skips has been updated for
\* the epoch that the crank read and works in, in the list as it is by then and not only in
\* the copy that was fetched.
SkipsOnlyUpdated ==
    [][\A c \in Cranks : SkipSlice(c) =>
          \A i \in DOMAIN Slice(c), j \in DOMAIN list :
             list[j].vote = Slice(c)[i].vote
             => list[j].last_update_epoch >= seen[c].epoch]_vars

\* As long as somebody cranks a pool that is out of date it ends up updated, although the
\* cranks work on stale copies, shift each other's positions and die half-way.
EventuallyUpdated == <>[](poolEpoch = epoch)

=============================================================================
