------------------------------ MODULE PilafTable ------------------------------
(***************************************************************************)
(* The table of Pilaf/cucko.h as the server fills it: place puts a key in  *)
(* the first of three tables, carries the key it finds there to the next,  *)
(* and gives up after three. The three hash functions are one and the same *)
(* remainder; the tables lie MAXN - 1 buckets apart, so that the last      *)
(* bucket of one is the first of the next; and setup_buffers fills the     *)
(* buckets with bytes of 1, which place takes for a key. The branch of     *)
(* place for an empty bucket, one whose key is INT_MIN, is never taken.    *)
(*                                                                         *)
(* Meanwhile the clients READ the buckets, at an address of their own      *)
(* reckoning: a place is as many steps as it has displacements.            *)
(***************************************************************************)
EXTENDS Integers, FiniteSets

CONSTANTS
    MaxN,       \* MAXN: buckets of a table
    NumKeys,    \* NUM_KEYS: the keys that clients ask for are less
    FillKey     \* the int that a filled bucket's key reads as: 0x01010101

ASSUME SizeAssumption == MaxN \in Nat \ {0, 1}
ASSUME KeysAssumption == NumKeys \in Nat \ {0} /\ NumKeys < 2 * MaxN
\* 16843009 is above NUM_KEYS and no multiple of MAXN.
ASSUME FillAssumption == FillKey \in Nat /\ FillKey >= NumKeys /\ FillKey % MaxN # 0

VARIABLES
    hashtable,  \* the key of each bucket
    hand,       \* the arguments of the place that runs, if one does
    asked       \* history: the keys whose place has ended

vars == <<hashtable, hand, asked>>
-----------------------------------------------------------------------------
ver == 3
Limit == 3                  \* n, as the server calls place
Keys == 0 .. NumKeys - 1
Fill == -1                  \* the key of a filled bucket: eight bytes of 1
Buckets == 0 .. ver * MaxN - 1
Idle == [key |-> Fill, tableID |-> 0, cnt |-> 0, first |-> Fill]

\* Mutant: the tables lie MaxN - 2 apart.
AtClose(tableID, key) == tableID * (MaxN - 2) + (key % MaxN)

\* i*(MAXN-1) + hash(i+1, key)
At(tableID, key) == tableID * (MaxN - 1) + (key % MaxN)
Positions(key) == {At(i, key) : i \in 0 .. ver - 1}

\* What int dis = hashtable[...].key makes of a key.
AsInt(key) == IF key = Fill THEN FillKey ELSE key

IsIdle == hand = Idle
InTable(key) == \E b \in Positions(key) : hashtable[b] = key

Init ==
    /\ hashtable = [b \in Buckets |-> Fill]
    /\ hand = Idle
    /\ asked = {}

\* A request that the server takes: place(key, 1, 0, 0, 3).
Serve(key) ==
    /\ IsIdle
    /\ hand' = [key |-> key, tableID |-> 0, cnt |-> 0, first |-> key]
    /\ UNCHANGED <<hashtable, asked>>

\* Mutant: only the position in the table at hand is looked at.
AlreadyThereHere == hashtable[At(hand.tableID, hand.key)] = hand.key

AlreadyThere == InTable(hand.key)

Return == hand' = Idle /\ asked' = asked \cup {hand.first}

\* The key is at one of its positions.
Present ==
    /\ ~IsIdle /\ hand.cnt < Limit
    /\ AlreadyThere
    /\ Return
    /\ UNCHANGED hashtable

\* "Cycle present": the key in hand is left out.
Unpositioned ==
    /\ ~IsIdle /\ hand.cnt = Limit
    /\ Return
    /\ UNCHANGED hashtable

\* Mutant: the displaced key stays with the table it came from.
DisplaceInPlace ==
    /\ ~IsIdle /\ hand.cnt < Limit
    /\ ~AlreadyThere
    /\ LET b == At(hand.tableID, hand.key)
       IN  /\ hashtable' = [hashtable EXCEPT ![b] = hand.key]
           /\ hand' = [hand EXCEPT !.key = AsInt(hashtable[b]), !.cnt = @ + 1]
    /\ UNCHANGED asked

\* The key takes the bucket, and the key that was there goes to the next table.
Displace ==
    /\ ~IsIdle /\ hand.cnt < Limit
    /\ ~AlreadyThere
    /\ LET b == At(hand.tableID, hand.key)
       IN  /\ hashtable' = [hashtable EXCEPT ![b] = hand.key]
           /\ hand' = [hand EXCEPT !.key = AsInt(hashtable[b]),
                                   !.tableID = (@ + 1) % ver, !.cnt = @ + 1]
    /\ UNCHANGED asked

Next == (\E key \in Keys : Serve(key)) \/ Present \/ Unpositioned \/ Displace

Spec == Init /\ [][Next]_vars
-----------------------------------------------------------------------------
TypeOK ==
    /\ hashtable \in [Buckets -> Keys \cup {Fill, FillKey}]
    /\ hand \in [key : Keys \cup {Fill, FillKey}, tableID : 0 .. ver - 1, cnt : 0 .. Limit,
                 first : Keys \cup {Fill}]
    /\ asked \subseteq Keys

\* With fewer keys than twice the buckets of a table, giving up after three
\* displacements loses no key: what was placed once is found again, and in one
\* bucket only, although each two tables share one.
PlacedIsFound ==
    IsIdle => \A k \in asked :
        /\ InTable(k)
        /\ Cardinality({b \in Buckets : hashtable[b] = k}) = 1

\* The bucket that a client READs for a key, without hashing it: buf + key.
ReadAt(key) == key

\* The keys that may come to key's home bucket: those of its remainder, and
\* for the last bucket of the first table those of the next table's first.
Rivals(key) ==
    {k \in Keys \ {key} : \/ k % MaxN = key % MaxN
                          \/ key % MaxN = MaxN - 1 /\ k % MaxN = 0}

\* A key none of whose rivals was asked for is where clients READ it from, at
\* every moment, whatever else the server places.
LoneStaysHome ==
    \A k \in asked :
        k < MaxN /\ Rivals(k) \cap (asked \cup {hand.first}) = {} => hashtable[ReadAt(k)] = k
=============================================================================
