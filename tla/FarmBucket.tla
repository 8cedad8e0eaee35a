------------------------------ MODULE FarmBucket ------------------------------
(***************************************************************************)
(* One bucket of the FaRM hopscotch table, which the server updates in     *)
(* place (hopscotch_update) while the NIC serves one-sided reads of it     *)
(* (the GETs of run_client). The server raises the lock, bumps the version *)
(* in the header, stores the data, bumps the one-byte c_ver and drops the  *)
(* lock. The fields are not volatile, so between the two compare-and-swaps *)
(* the optimised build may emit the three stores in any order.             *)
(*                                                                         *)
(* run_client holds, commented out, the test that tells a whole bucket     *)
(* from one caught in the middle of an update; Accepted is that test. The  *)
(* data of a bucket is represented by the number of the write that stored  *)
(* it: the insertion is write 1.                                           *)
(***************************************************************************)
EXTENDS Integers, Sequences

CONSTANTS
    CVer,           \* number of values of c_ver (256)
    MaxWrites       \* bound: writes of the bucket

ASSUME CVerAssumption == CVer \in Nat \ {0, 1}
ASSUME WritesAssumption == MaxWrites \in Nat

VARIABLES
    lineAtomic,     \* whether the NIC fetches a bucket (64 bytes) in one piece
    bucket,         \* the fields of the bucket
    pending,        \* fields that the update in progress has still to store
    fetched,        \* the fields that the read in progress, or the last one, has
    rpc,            \* number of fields fetched; 0 when no read is in progress
    upto            \* history: writes begun when the read took its last field

bucketVars == <<lineAtomic, bucket, pending, fetched, rpc, upto>>
-----------------------------------------------------------------------------
Fields == {"header_version", "data", "lock", "c_ver"}

\* The fields in the order of their addresses, in which a NIC that does not
\* fetch the whole line at once goes through them.
Layout == <<"header_version", "data", "lock", "c_ver">>

Stores == {"header_version", "data", "c_ver"}

\* hopscotch_insert leaves both versions at 1 and the lock down.
Inserted == [header_version |-> 1, data |-> 1, lock |-> 0, c_ver |-> 1]

BucketInit ==
    /\ lineAtomic \in BOOLEAN
    /\ bucket = Inserted
    /\ pending = {}
    /\ fetched = Inserted
    /\ rpc = 0
    /\ upto = 1

Updating == bucket.lock = 1

\* The number of the write in progress, or of the last one.
Write == bucket.data + (IF "data" \in pending THEN 1 ELSE 0)
-----------------------------------------------------------------------------
(* The server: hopscotch_update, once it has found the key *)

RaiseLock ==
    /\ ~Updating
    /\ Write < MaxWrites
    /\ bucket' = [bucket EXCEPT !.lock = 1]
    /\ pending' = Stores
    /\ UNCHANGED <<lineAtomic, fetched, rpc, upto>>

\* header_version++; data = nval; c_ver++, in the order the build chose.
Store(f) ==
    /\ f \in pending
    /\ bucket' = [bucket EXCEPT ![f] = IF f = "c_ver" THEN (@ + 1) % CVer ELSE @ + 1]
    /\ pending' = pending \ {f}
    /\ UNCHANGED <<lineAtomic, fetched, rpc, upto>>

\* The lock is dropped before the fields are stored.
DropLockEarly ==
    /\ Updating
    /\ pending # Stores
    /\ bucket' = [bucket EXCEPT !.lock = 0]
    /\ UNCHANGED <<lineAtomic, pending, fetched, rpc, upto>>

DropLock ==
    /\ Updating
    /\ pending = {}
    /\ bucket' = [bucket EXCEPT !.lock = 0]
    /\ UNCHANGED <<lineAtomic, pending, fetched, rpc, upto>>
-----------------------------------------------------------------------------
(* The NIC, for a client's RDMA read of the bucket *)

FetchLine ==
    /\ lineAtomic
    /\ fetched' = bucket
    /\ rpc' = 0
    /\ upto' = Write
    /\ UNCHANGED <<lineAtomic, bucket, pending>>

FetchField ==
    /\ ~lineAtomic
    /\ fetched' = [fetched EXCEPT ![Layout[rpc + 1]] = bucket[Layout[rpc + 1]]]
    /\ rpc' = (rpc + 1) % Len(Layout)
    /\ upto' = Write
    /\ UNCHANGED <<lineAtomic, bucket, pending>>

BucketNext ==
    \/ RaiseLock
    \/ \E f \in Stores : Store(f)
    \/ DropLock
    \/ FetchLine
    \/ FetchField

BucketSpec == BucketInit /\ [][BucketNext]_bucketVars
-----------------------------------------------------------------------------
\* The test of the bucket in run_client: (!lock) && (header_version == c_ver).
Accepted(b) == b.lock = 0 /\ b.header_version = b.c_ver

BucketTypeOK ==
    /\ lineAtomic \in BOOLEAN
    /\ bucket \in [header_version : Nat, data : Nat, lock : {0, 1}, c_ver : 0 .. CVer - 1]
    /\ pending \subseteq Stores
    /\ fetched \in [header_version : Nat, data : Nat, lock : {0, 1}, c_ver : 0 .. CVer - 1]
    /\ rpc \in 0 .. Len(Layout) - 1
    /\ upto \in Nat

\* When the NIC fetches whole lines, a read that is accepted returned the data
\* that the header version counts: the fields come from one and the same write.
AcceptedIsWhole ==
    (lineAtomic /\ rpc = 0 /\ Accepted(fetched)) => fetched.data = fetched.header_version

\* Even field by field, the data of an accepted read is at most one write
\* behind its header version and never ahead of it, unless so many writes were
\* begun during the read that c_ver came round to the same value.
AcceptedIsRecent ==
    (rpc = 0 /\ Accepted(fetched) /\ upto - fetched.header_version < CVer)
        => fetched.data \in {fetched.header_version - 1, fetched.header_version}

=============================================================================
