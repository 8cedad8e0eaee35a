------------------------------ MODULE Hopscotch ------------------------------
(***************************************************************************)
(* The hopscotch table of FaRM/hopscotch.c, as one thread uses it: lookup, *)
(* update, insertion with displacement, removal and resizing.              *)
(*                                                                         *)
(* hopscotch_init fills the table with bytes 0xff, so a free bucket has    *)
(* key -1 and, unlike the usual table, a hop bitmap with every bit set.    *)
(* Each round of the displacement loop of hopscotch_insert is a step. The  *)
(* bitmap is the set of its one bits; bits from HopBits up are never       *)
(* cleared and stand for all the higher ones.                              *)
(*                                                                         *)
(* hopscotch_lookup, _update and _remove look past the end of the table    *)
(* for a key whose home is near it; the model has no key there.            *)
(***************************************************************************)
EXTENDS Integers, FiniteSets, FiniteSetsExt

CONSTANTS
    Size,           \* 1 << exponent buckets
    HopSize,        \* HOPSCOTCH_HOPINFO_SIZE
    HopBits,        \* bits of hopinfo in the model
    CVer,           \* number of values of c_ver
    Keys,           \* the keys that are stored
    Values,         \* the data that are stored
    MaxVersion      \* bound: header_version

ASSUME SizeAssumption == Size \in Nat \ {0} /\ HopSize \in 1 .. Size
ASSUME BitsAssumption == HopBits \in Nat /\ HopBits > HopSize
ASSUME KeysAssumption == Keys \subseteq Nat /\ Values \subseteq Nat \ {0}
\* c_ver starts at its largest value and is 1 after an insertion.
ASSUME VersionAssumption == CVer \in Nat \ {0, 1} /\ MaxVersion \in Nat \ {0}

VARIABLES
    buckets,        \* ht->buckets
    insert,         \* the insertion in progress, or NoInsert
    dict,           \* history: the data of each key by the calls that succeeded
    displaced       \* history: whether an insertion ever moved a key

vars == <<buckets, insert, dict, displaced>>
-----------------------------------------------------------------------------
Index == 0 .. Size - 1
Hops == 0 .. HopSize - 1
Bits == 0 .. HopBits - 1
Free == -1
Absent == 0                 \* what a lookup returns for a key it does not find
NoInsert == [key |-> Free, data |-> Free, at |-> Free]

\* _jenkins_hash is the key modulo the initial number of buckets.
Home(k) == k % Size

\* memset(buckets, -1): all ones in every field.
Blank == [key |-> Free, data |-> -1, header_version |-> -1, c_ver |-> CVer - 1,
          lock |-> -1, hopinfo |-> Bits]

Init ==
    /\ buckets = [i \in Index |-> Blank]
    /\ insert = NoInsert
    /\ dict = [k \in Keys |-> Absent]
    /\ displaced = FALSE
-----------------------------------------------------------------------------
\* The offsets from k's home at which the scan of the neighbourhood finds k.
Offsets(k) ==
    {o \in buckets[Home(k)].hopinfo \cap Hops :
        Home(k) + o \in Index /\ buckets[Home(k) + o].key = k}

Found(k) == Offsets(k) # {}
Place(k) == Home(k) + Min(Offsets(k))

\* hopscotch_lookup
Lookup(k) == IF Found(k) THEN buckets[Place(k)].data ELSE Absent

Updated(old, v) ==
    [old EXCEPT !.header_version = @ + 1, !.data = v, !.c_ver = (@ + 1) % CVer, !.lock = 0]

Update(k, v) ==
    /\ insert = NoInsert
    /\ Found(k) => buckets[Place(k)].header_version < MaxVersion
    /\ IF Found(k)
       THEN /\ buckets' = [buckets EXCEPT ![Place(k)] = Updated(@, v)]
            /\ dict' = [dict EXCEPT ![k] = v]
       ELSE UNCHANGED <<buckets, dict>>
    /\ UNCHANGED <<insert, displaced>>

\* The bit is looked up in the bucket that holds the key, not in its home.
RemoveForgetsBit(k) ==
    /\ insert = NoInsert
    /\ IF Found(k)
       THEN /\ buckets' = [buckets EXCEPT
                    ![Place(k)].key = Free,
                    ![Place(k)].hopinfo = @ \ {Min(Offsets(k))},
                    ![Place(k)].data = -1]
            /\ dict' = [dict EXCEPT ![k] = Absent]
       ELSE UNCHANGED <<buckets, dict>>
    /\ UNCHANGED <<insert, displaced>>

Remove(k) ==
    /\ insert = NoInsert
    /\ IF Found(k)
       THEN /\ buckets' = [buckets EXCEPT
                    ![Home(k)].hopinfo = @ \ {Min(Offsets(k))},
                    ![Place(k)].key = Free,
                    ![Place(k)].data = -1]
            /\ dict' = [dict EXCEPT ![k] = Absent]
       ELSE UNCHANGED <<buckets, dict>>
    /\ UNCHANGED <<insert, displaced>>
-----------------------------------------------------------------------------
(* hopscotch_insert *)

\* The buckets that linear probing for k in table t finds free.
FreeFor(k, t) == {i \in Index : i >= Home(k) /\ t[i].key = Free}

\* The caller inserts keys that are not in the table: the code does not look.
\* Without a free bucket the call returns -1 and changes nothing.
StartInsert(k, v) ==
    /\ insert = NoInsert
    /\ dict[k] = Absent
    /\ FreeFor(k, buckets) # {}
    /\ insert' = [key |-> k, data |-> v, at |-> Min(FreeFor(k, buckets))]
    /\ UNCHANGED <<buckets, dict, displaced>>

TooFar == insert.at - Home(insert.key) >= HopSize

\* How far back a home can be whose first key may move up to the free bucket.
Movable ==
    {j \in 1 .. HopSize - 1 :
        LET hop == buckets[insert.at - j].hopinfo IN hop # {} /\ Min(hop) < j}

\* The key in the home itself moves, and the freed bucket is another one's.
DisplaceCopiesHome ==
    LET i == insert.at
        j == Min(Movable)
        off == Min(buckets[i - j].hopinfo)
    IN  /\ buckets' = [buckets EXCEPT
                ![i] = [buckets[i - j] EXCEPT !.hopinfo = buckets[i].hopinfo],
                ![i - j].hopinfo = (@ \ {off}) \cup {j}]
        /\ insert' = [insert EXCEPT !.at = i - j + off]

\* The first key of the home j back moves to the free bucket and frees its own.
DisplaceFrom ==
    LET i == insert.at
        j == Min(Movable)
        off == Min(buckets[i - j].hopinfo)
    IN  /\ buckets' = [buckets EXCEPT
                ![i] = [buckets[i - j + off] EXCEPT !.hopinfo = buckets[i].hopinfo],
                ![i - j].hopinfo = (@ \ {off}) \cup {j}]
        /\ insert' = [insert EXCEPT !.at = i - j + off]

Displace ==
    /\ insert # NoInsert
    /\ TooFar
    /\ Movable # {}
    /\ DisplaceFrom
    /\ displaced' = TRUE
    /\ UNCHANGED dict

\* No key can move: the insertion fails, whatever it has moved already.
GiveUp ==
    /\ insert # NoInsert
    /\ TooFar
    /\ Movable = {}
    /\ insert' = NoInsert
    /\ UNCHANGED <<buckets, dict, displaced>>

Written(old, new) ==
    [old EXCEPT !.header_version = 1, !.lock = 0, !.c_ver = 1, !.key = new.key,
                !.data = new.data]

FinishInsert ==
    /\ insert # NoInsert
    /\ ~TooFar
    /\ LET home == Home(insert.key)
           off == insert.at - home
           filled == [buckets EXCEPT ![insert.at] = Written(@, insert)]
       IN  buckets' = [filled EXCEPT ![home].hopinfo = @ \cup {off}]
    /\ dict' = [dict EXCEPT ![insert.key] = insert.data]
    /\ insert' = NoInsert
    /\ UNCHANGED displaced
-----------------------------------------------------------------------------
\* hopscotch_resize fills the new table with zeros, in which no bucket is free
\* to linear probing, and inserts every bucket whose key is not zero: free
\* ones too, with key -1, whose hash lies beyond any table.
Zero == [i \in Index |-> [Blank EXCEPT !.key = 0, !.data = 0, !.hopinfo = {}]]
CanReinsert(key) == key # Free /\ FreeFor(key, Zero) # {}

\* Growing or shrinking: when an insertion fails the old table is put back, and
\* one always fails, so that no call ever changes the table.
Resize ==
    /\ insert = NoInsert
    /\ \E i \in Index : buckets[i].key # 0 /\ ~CanReinsert(buckets[i].key)
    /\ UNCHANGED vars

Next ==
    \/ \E k \in Keys, v \in Values : Update(k, v) \/ StartInsert(k, v)
    \/ \E k \in Keys : Remove(k)
    \/ Displace
    \/ GiveUp
    \/ FinishInsert
    \/ Resize

Spec == Init /\ [][Next]_vars
-----------------------------------------------------------------------------
TypeOK ==
    /\ buckets \in [Index -> [key : Keys \cup {Free}, data : Values \cup {-1},
                              header_version : -1 .. MaxVersion, c_ver : 0 .. CVer - 1,
                              lock : {-1, 0}, hopinfo : SUBSET Bits]]
    /\ insert \in [key : Keys, data : Values, at : Index] \cup {NoInsert}
    /\ dict \in [Keys -> Values \cup {Absent}]
    /\ displaced \in BOOLEAN

\* As long as no insertion has had to displace a key, the table is the map of
\* what the calls that succeeded put in it: a lookup returns the last data of
\* a key, and nothing for a key that was never inserted or was removed.
MapUntilDisplaced ==
    (insert = NoInsert /\ ~displaced) => \A k \in Keys : Lookup(k) = dict[k]

\* Displacement may put a key where lookups do not go, but it never drops one:
\* each key that was inserted and not removed is in some bucket with its data.
NothingIsDropped ==
    insert = NoInsert =>
        \A k \in Keys : dict[k] # Absent =>
            \E i \in Index : buckets[i].key = k /\ buckets[i].data = dict[k]

\* "Insert an entry to the hash table": a key that was inserted, and not
\* removed, is found.
InsertedIsFound ==
    insert = NoInsert => \A k \in Keys : dict[k] # Absent => Found(k)
=============================================================================
