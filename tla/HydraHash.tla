------------------------------ MODULE HydraHash ------------------------------
(***************************************************************************)
(* The compact hash table of HydraDB/hash.c: buckets of a few slots, each  *)
(* pointing to an item of a pool that the clients read with one-sided RDMA *)
(* reads. Items are never changed in place: an update flags the old item,  *)
(* fills the next unused one and points the slot to it. Only the flag      *)
(* tells a reader that still has the old address that the item is stale.   *)
(*                                                                         *)
(* The steps of an update that a reader can tell apart are two: the flag   *)
(* is set, and the new item is published. The pool is fresh memory of the  *)
(* operating system, all zeros. An item's data stands for its text.        *)
(***************************************************************************)
EXTENDS Integers, FiniteSets

CONSTANTS
    NumBuckets,     \* MAX_POOL
    NumSlots,       \* slots of a bucket (7)
    NumLoaded,      \* keys that hash_table_initialize inserts
    PoolSize,       \* items allocated and registered by setup_buffers
    Keys,           \* the keys of the calls
    Values,         \* the data of the calls
    MaxItems        \* bound: items ever used

ASSUME BucketsAssumption == NumBuckets \in Nat \ {0} /\ NumSlots \in Nat \ {0}
ASSUME KeysAssumption == Keys \subseteq Nat /\ Values \subseteq Nat
ASSUME LoadedAssumption ==
    /\ NumLoaded \in Nat
    /\ NumLoaded <= NumBuckets * NumSlots
    /\ 0 .. NumLoaded - 1 \subseteq Keys
    /\ 0 \in Values
ASSUME BoundAssumption == MaxItems \in Nat /\ NumLoaded <= MaxItems /\ PoolSize \in Nat

VARIABLES
    slot,           \* compact_hash
    item,           \* buckets, the pool
    index_,         \* the next unused item
    update,         \* the update in progress, or NoUpdate
    crashed,        \* whether the server has dereferenced a null pointer
    dict            \* history: the data of each key, by the calls made

vars == <<slot, item, index_, update, crashed, dict>>
-----------------------------------------------------------------------------
Bucket == 0 .. NumBuckets - 1
Slot == 0 .. NumSlots - 1
Addr == 0 .. MaxItems - 1
Null == -1
Missing == -1
NoUpdate == [key |-> Missing, data |-> Missing, at |-> Null]

\* calc_hash
Home(k) == k % NumBuckets

Item == [key : Nat, flag : {0, 1}, data : Nat]
Unused == [key |-> 0, flag |-> 0, data |-> 0]

\* hashtable_create empties the slots; hash_table_initialize then inserts the
\* keys from 0 up, so that key k gets the k-th item of the pool.
Init ==
    /\ slot = [b \in Bucket |-> [s \in Slot |->
                LET k == b + s * NumBuckets
                IN  IF k < NumLoaded THEN [addr |-> k, busy |-> 1]
                                     ELSE [addr |-> Null, busy |-> 0]]]
    /\ item = [a \in Addr |-> IF a < NumLoaded
                              THEN [key |-> a, flag |-> 0, data |-> 0]
                              ELSE Unused]
    /\ index_ = NumLoaded
    /\ update = NoUpdate
    /\ crashed = FALSE
    /\ dict = [k \in Keys |-> IF k < NumLoaded THEN 0 ELSE Missing]
-----------------------------------------------------------------------------
\* The slots of k's bucket whose item has key k, busy or not.
Holders(k) ==
    {s \in Slot : slot[Home(k)][s].addr # Null /\ item[slot[Home(k)][s].addr].key = k}

\* hashtable_search returns the first of them, unless the scan dereferences
\* the null address of a slot that was never used.
FindsAt(k, s) ==
    /\ s \in Holders(k)
    /\ \A t \in Slot : t < s => t \notin Holders(k) /\ slot[Home(k)][t].addr # Null

Found(k) == \E s \in Slot : FindsAt(k, s)

\* A request for a key that is not in the table: hashtable_search reads the
\* key of a null item, or update_hash_key uses the null result.
SearchMissing(k) ==
    /\ ~crashed /\ update = NoUpdate
    /\ ~Found(k)
    /\ crashed' = TRUE
    /\ UNCHANGED <<slot, item, index_, update, dict>>

\* The slot of a deleted key still holds its item: any slot will do.
TakesAnySlot(b, s) == TRUE

\* find_free_slot
IsFirstFree(b, s) ==
    /\ slot[b][s].busy = 0
    /\ \A t \in Slot : t < s => slot[b][t].busy = 1

\* hashtable_insert; the caller inserts keys that are not in the table.
Insert(k, v) ==
    /\ ~crashed /\ update = NoUpdate
    /\ dict[k] = Missing
    /\ index_ < MaxItems
    /\ \E s \in Slot :
        /\ IsFirstFree(Home(k), s)
        /\ slot' = [slot EXCEPT ![Home(k)][s] = [addr |-> index_, busy |-> 1]]
    /\ item' = [item EXCEPT ![index_] = [key |-> k, flag |-> 0, data |-> v]]
    /\ index_' = index_ + 1
    /\ dict' = [dict EXCEPT ![k] = v]
    /\ UNCHANGED <<update, crashed>>

\* The old item keeps its flag.
RetireUnmarked(k, v) ==
    /\ ~crashed /\ update = NoUpdate
    /\ index_ < MaxItems
    /\ \E s \in Slot :
        /\ FindsAt(k, s)
        /\ update' = [key |-> k, data |-> v, at |-> s]
    /\ UNCHANGED <<slot, item, index_, crashed, dict>>

\* update_hash_key sets the flag of the item that is about to be replaced.
Retire(k, v) ==
    /\ ~crashed /\ update = NoUpdate
    /\ index_ < MaxItems
    /\ \E s \in Slot :
        /\ FindsAt(k, s)
        /\ item' = [item EXCEPT ![slot[Home(k)][s].addr].flag = 1]
        /\ update' = [key |-> k, data |-> v, at |-> s]
    /\ UNCHANGED <<slot, index_, crashed, dict>>

\* The next update gets the same item.
PublishWithoutAdvance ==
    /\ update # NoUpdate
    /\ slot' = [slot EXCEPT ![Home(update.key)][update.at].addr = index_]
    /\ item' = [item EXCEPT ![index_].key = update.key, ![index_].data = update.data]
    /\ dict' = [dict EXCEPT ![update.key] = update.data]
    /\ update' = NoUpdate
    /\ UNCHANGED <<index_, crashed>>

\* The pool is used from its start again once it is exhausted.
PublishIntoLoaded ==
    /\ update # NoUpdate
    /\ slot' = [slot EXCEPT ![Home(update.key)][update.at].addr = index_ % NumLoaded]
    /\ item' = [item EXCEPT ![index_ % NumLoaded] =
                    [key |-> update.key, flag |-> 0, data |-> update.data]]
    /\ index_' = index_ + 1
    /\ dict' = [dict EXCEPT ![update.key] = update.data]
    /\ update' = NoUpdate
    /\ UNCHANGED crashed

\* It then fills the next item, whose flag it leaves as it is, and points the
\* slot that the search returned to it.
Publish ==
    /\ update # NoUpdate
    /\ slot' = [slot EXCEPT ![Home(update.key)][update.at].addr = index_]
    /\ item' = [item EXCEPT ![index_].key = update.key, ![index_].data = update.data]
    /\ index_' = index_ + 1
    /\ dict' = [dict EXCEPT ![update.key] = update.data]
    /\ update' = NoUpdate
    /\ UNCHANGED crashed

\* hashtable_delete frees the slots of the key and clears the key of their
\* items; the slots keep the addresses.
Delete(k) ==
    /\ ~crashed /\ update = NoUpdate
    /\ slot' = [slot EXCEPT ![Home(k)] =
                [s \in Slot |-> IF s \in Holders(k) THEN [@[s] EXCEPT !.busy = 0] ELSE @[s]]]
    /\ item' = [a \in Addr |-> IF \E s \in Holders(k) : slot[Home(k)][s].addr = a
                               THEN [item[a] EXCEPT !.key = 0] ELSE item[a]]
    /\ dict' = [dict EXCEPT ![k] = Missing]
    /\ UNCHANGED <<index_, update, crashed>>

Next ==
    \/ \E k \in Keys, v \in Values : Insert(k, v) \/ Retire(k, v)
    \/ Publish
    \/ \E k \in Keys : Delete(k) \/ SearchMissing(k)

Spec == Init /\ [][Next]_vars
-----------------------------------------------------------------------------
TypeOK ==
    /\ slot \in [Bucket -> [Slot -> [addr : Addr \cup {Null}, busy : {0, 1}]]]
    /\ item \in [Addr -> Item]
    /\ index_ \in 0 .. MaxItems
    /\ update \in [key : Keys, data : Values, at : Slot] \cup {NoUpdate}
    /\ crashed \in BOOLEAN
    /\ dict \in [Keys -> Values \cup {Missing}]

\* No two slots share an item, and no slot points past the items handed out:
\* filling the next item never changes the data of another key.
ItemsAreOwned ==
    \A b, c \in Bucket, s, t \in Slot :
        slot[b][s].addr # Null =>
            /\ slot[b][s].addr < index_
            /\ slot[b][s].addr = slot[c][t].addr => b = c /\ s = t

\* For keys other than 0 the table is the map that the calls describe: a
\* search finds what was last written, and only keys that were not deleted.
TableIsMap ==
    update = NoUpdate => \A k \in Keys \ {0} :
        IF dict[k] = Missing
        THEN ~Found(k)
        ELSE \E s \in Slot : FindsAt(k, s) /\ item[slot[Home(k)][s].addr].data = dict[k]

\* "free previous memory address pass to groomer" (update_hash_key): the pool
\* that is registered for the clients suffices, however many updates there are.
PoolSuffices == index_ <= PoolSize
=============================================================================
