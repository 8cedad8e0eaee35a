--------------------------- MODULE PilafTableProofs ---------------------------
(***************************************************************************)
(* Theorems about PilafTable, for tables of any size and any number of     *)
(* keys. The invariant follows the chain of displacements: a key in hand   *)
(* comes from a request, the table it goes to is the number of keys that   *)
(* were displaced before, and only a rival can come to a key's home.       *)
(***************************************************************************)
EXTENDS PilafTable, FiniteSetTheorems, TLAPS

Handled == Keys \cup {Fill, FillKey}

\* The keys that have been put into a bucket by a request of their own.
Entered == IF hand.cnt > 0 THEN asked \cup {hand.first} ELSE asked

\* A key whose home no other requested key shares.
Lone(k) == k < MaxN /\ Rivals(k) \cap (asked \cup {hand.first}) = {}

\* The place that runs: its table follows from the number of displacements,
\* and its key is the request's own until the first of them.
HandInv ==
    ~IsIdle =>
        /\ hand.first \in Keys
        /\ hand.cnt = 0 => hand.key = hand.first
        /\ hand.cnt < Limit => hand.tableID = hand.cnt
        /\ hand.key # Fill

\* Keys come into buckets, and back into the hand, by requests only.
OriginInv ==
    /\ \A b \in Buckets : hashtable[b] \in Keys => hashtable[b] \in Entered
    /\ hand.cnt > 0 /\ hand.key \in Keys => hand.key \in Entered

HomeInv == \A k \in Entered : Lone(k) => hashtable[k] = k

IInv == TypeOK /\ HandInv /\ OriginInv /\ HomeInv

USE SizeAssumption, KeysAssumption, FillAssumption

\* A remainder is one of 0 to MaxN - 1, and a key below MaxN its own.
LEMMA Remainder ==
    ASSUME NEW key \in Nat
    PROVE  /\ key % MaxN \in 0 .. MaxN - 1
           /\ key < MaxN => key % MaxN = key
  BY SMT

\* The three positions of a key are buckets, and which ones they are.
LEMMA Place ==
    ASSUME NEW key \in Nat
    PROVE  /\ At(0, key) = key % MaxN
           /\ At(1, key) = MaxN - 1 + (key % MaxN)
           /\ At(2, key) = 2 * MaxN - 2 + (key % MaxN)
           /\ \A t \in 0 .. 2 : At(t, key) \in Buckets
<1>1. key % MaxN \in 0 .. MaxN - 1
  BY Remainder
<1> DEFINE r == key % MaxN
<1>2. /\ At(0, key) = 0 * (MaxN - 1) + r
      /\ At(1, key) = 1 * (MaxN - 1) + r
      /\ At(2, key) = 2 * (MaxN - 1) + r
  BY DEF At
<1>3. r \in 0 .. MaxN - 1
  BY <1>1
<1> HIDE DEF r
<1>4. At(0, key) = r /\ At(1, key) = MaxN - 1 + r /\ At(2, key) = 2 * MaxN - 2 + r
  BY <1>2, <1>3
<1>5. \A t \in 0 .. 2 : At(t, key) \in Buckets
  BY <1>3, <1>4 DEF Buckets, ver
<1> QED
  BY <1>4, <1>5 DEF r

\* Every key of a request is placed at home first.
LEMMA HomeIsRead ==
    ASSUME NEW k \in Keys, k < MaxN
    PROVE  At(0, k) = k /\ k \in Buckets /\ k \in Positions(k)
<1>1. k \in Nat
  BY DEF Keys
<1>2. At(0, k) = k
  BY <1>1, Remainder, Place
<1> QED
  BY <1>1, <1>2, Place DEF Positions, ver

LEMMA InitEstablishes == Init => IInv
<1> SUFFICES ASSUME Init PROVE IInv
  OBVIOUS
<1>1. hand = [key |-> Fill, tableID |-> 0, cnt |-> 0, first |-> Fill]
  BY DEF Init, Idle
<1>2. Fill \notin Keys
  BY DEF Fill, Keys
<1>3. TypeOK
  BY <1>1 DEF Init, TypeOK, Limit, ver
<1>4. HandInv /\ HomeInv
  BY <1>1 DEF Init, HandInv, HomeInv, IsIdle, Idle, Entered
<1>5. OriginInv
  BY <1>1, <1>2 DEF Init, OriginInv
<1> QED
  BY <1>3, <1>4, <1>5 DEF IInv

\* A request that is taken can only make other keys less lone.
LEMMA ServeKeeps ==
    ASSUME IInv, NEW key \in Keys, Serve(key)
    PROVE  IInv'
<1>1. /\ hand.cnt = 0 /\ hand.first = Fill
      /\ hand' = [key |-> key, tableID |-> 0, cnt |-> 0, first |-> key]
      /\ UNCHANGED <<hashtable, asked>>
  BY DEF Serve, IsIdle, Idle
<1>2. Entered = asked /\ Entered' = asked
  BY <1>1 DEF Entered
<1>3. key # Fill /\ Fill \notin Keys
  BY DEF Fill, Keys
<1>4. TypeOK'
  BY <1>1 DEF IInv, TypeOK, Limit, ver
<1>5. HandInv'
  BY <1>1, <1>3 DEF HandInv, Limit
<1>6. OriginInv'
  BY <1>1, <1>2 DEF IInv, OriginInv
<1>7. HomeInv'
  <2> SUFFICES ASSUME NEW k \in asked, Lone(k)' PROVE hashtable[k] = k
    BY <1>1, <1>2 DEF HomeInv
  <2>1. Rivals(k) \subseteq Keys
    BY DEF Rivals
  <2>2. Lone(k)
    BY <1>1, <1>3, <2>1 DEF Lone, Rivals
  <2> QED
    BY <1>2, <2>2 DEF IInv, HomeInv
<1> QED
  BY <1>4, <1>5, <1>6, <1>7 DEF IInv

\* When a place ends, its key is among those asked for, and is at home if lone.
LEMMA ReturnKeeps ==
    ASSUME IInv, Present \/ Unpositioned
    PROVE  IInv'
<1>1. /\ ~IsIdle /\ UNCHANGED hashtable
      /\ hand' = [key |-> Fill, tableID |-> 0, cnt |-> 0, first |-> Fill]
      /\ asked' = asked \cup {hand.first}
  BY DEF Present, Unpositioned, Return, Idle
<1>2. hand.first \in Keys /\ Fill \notin Keys
  BY <1>1 DEF IInv, HandInv, Fill, Keys
<1>3. Entered' = asked \cup {hand.first} /\ Entered \subseteq Entered'
  BY <1>1 DEF Entered
<1>4. TypeOK'
  BY <1>1, <1>2 DEF IInv, TypeOK, Limit, ver
<1>5. HandInv'
  BY <1>1 DEF HandInv, IsIdle, Idle
<1>6. OriginInv'
  BY <1>1, <1>2, <1>3 DEF IInv, OriginInv
<1>7. HomeInv'
  <2> SUFFICES ASSUME NEW k \in asked \cup {hand.first}, Lone(k)' PROVE hashtable[k] = k
    BY <1>1, <1>3 DEF HomeInv
  <2>1. Lone(k)
    BY <1>1 DEF Lone, Rivals
  <2>2. CASE k \in Entered
    BY <2>1, <2>2 DEF IInv, HomeInv
  <2>3. CASE k \notin Entered
    <3>1. k = hand.first /\ ~(hand.cnt > 0)
      BY <2>3 DEF Entered
    <3>2. hand.cnt = 0 /\ hand.key = k
      BY <1>1, <3>1 DEF IInv, TypeOK, HandInv
    <3>3. InTable(k)
      BY <3>2 DEF Present, Unpositioned, AlreadyThere, Limit
    <3>4. PICK b \in Positions(k) : hashtable[b] = k
      BY <3>3 DEF InTable
    <3>5. b \in Buckets
      <4>1. k \in Nat
        BY <1>2, <3>1 DEF Keys
      <4> QED
        BY <3>4, <4>1, Place DEF Positions, ver
    <3> QED
      BY <1>2, <2>3, <3>1, <3>4, <3>5 DEF IInv, OriginInv
  <2> QED
    BY <2>2, <2>3
<1> QED
  BY <1>4, <1>5, <1>6, <1>7 DEF IInv

\* The key in hand comes to the home of a key in a bucket only if the two are
\* rivals: by its own request in the first table, and over the shared bucket
\* from the second.
LEMMA OnlyRivalsCome ==
    ASSUME IInv, Displace, NEW k \in Entered, Lone(k)
    PROVE  At(hand.tableID, hand.key) # k
<1>1. /\ ~IsIdle /\ hand.cnt < Limit /\ hand.cnt \in Nat
      /\ hand.tableID = hand.cnt /\ hand.first \in Keys
      /\ hand.key \in Keys \cup {FillKey} /\ hand.key \in Nat
  BY DEF Displace, IInv, TypeOK, HandInv, Limit, Keys
<1>2. k \in Keys /\ k < MaxN /\ k \in Nat
  BY <1>1 DEF IInv, TypeOK, Entered, Lone, Keys
<1>3. hashtable[k] = k
  BY DEF IInv, HomeInv
<1>4. hand.key # k
  BY <1>2, <1>3, HomeIsRead DEF Displace, AlreadyThere, InTable
<1>5. hand.key \notin Rivals(k)
  <2>1. CASE hand.key \in Keys
    <3>1. hand.key \in asked \cup {hand.first}
      BY <1>1, <2>1 DEF IInv, HandInv, OriginInv, Entered
    <3> QED
      BY <3>1 DEF Lone
  <2>2. CASE hand.key \notin Keys
    BY <2>2 DEF Rivals
  <2> QED
    BY <2>1, <2>2
<1>6. k % MaxN = k /\ hand.key % MaxN \in 0 .. MaxN - 1
  BY <1>1, <1>2, Remainder
<1>7. hand.cnt = 0 \/ hand.cnt = 1 \/ hand.cnt = 2
  BY <1>1 DEF Limit
<1>8. CASE hand.cnt = 0
  <2>1. hand.key \in Keys
    BY <1>1, <1>8 DEF IInv, HandInv
  <2> QED
    BY <1>1, <1>4, <1>5, <1>6, <1>8, <2>1, Place DEF Rivals
<1>9. CASE hand.cnt = 1
  <2> SUFFICES ASSUME At(1, hand.key) = k PROVE FALSE
    BY <1>1, <1>9
  <2>1. k = MaxN - 1 /\ hand.key % MaxN = 0
    BY <1>1, <1>2, <1>6, Place
  <2>2. hand.key \in Keys
    BY <1>1, <2>1
  <2> QED
    BY <1>4, <1>5, <1>6, <2>1, <2>2 DEF Rivals
<1>10. CASE hand.cnt = 2
  <2>1. At(2, hand.key) = 2 * MaxN - 2 + (hand.key % MaxN)
    BY <1>1, Place
  <2> DEFINE r == hand.key % MaxN
             a == At(2, hand.key)
  <2>2. r \in 0 .. MaxN - 1 /\ a = 2 * MaxN - 2 + r
    BY <1>6, <2>1
  <2> HIDE DEF r, a
  <2>3. a # k
    BY <1>2, <2>2
  <2> QED
    BY <1>1, <1>10, <2>3 DEF a
<1> QED
  BY <1>7, <1>8, <1>9, <1>10

LEMMA DisplaceKeeps ==
    ASSUME IInv, Displace
    PROVE  IInv'
<1> DEFINE b == At(hand.tableID, hand.key)
           x == hashtable[b]
<1>1. /\ ~IsIdle /\ hand.cnt < Limit /\ hand.cnt \in Nat
      /\ hand.tableID = hand.cnt /\ hand.first \in Keys
      /\ hand.key \in Keys \cup {FillKey} /\ hand.key \in Nat
  BY DEF Displace, IInv, TypeOK, HandInv, Limit, Keys
<1>2. hand.cnt = 0 \/ hand.cnt = 1 \/ hand.cnt = 2
  BY <1>1 DEF Limit
<1>3. b \in Buckets
  BY <1>1, <1>2, Place
<1>4. /\ hashtable' = [hashtable EXCEPT ![b] = hand.key]
      /\ hand' = [hand EXCEPT !.key = AsInt(x), !.tableID = (@ + 1) % ver, !.cnt = @ + 1]
      /\ UNCHANGED asked
  BY DEF Displace
<1>5. x \in Handled /\ AsInt(x) \in Keys \cup {FillKey}
  BY <1>3 DEF IInv, TypeOK, Handled, AsInt
<1>6. /\ hand'.key = AsInt(x) /\ hand'.first = hand.first
      /\ hand'.cnt = hand.cnt + 1 /\ hand'.tableID = (hand.cnt + 1) % 3
  BY <1>1, <1>4 DEF IInv, TypeOK, ver
<1>7. /\ hand'.tableID \in 0 .. 2 /\ hand'.cnt \in 1 .. 3
      /\ hand'.cnt < 3 => hand'.tableID = hand'.cnt
  BY <1>2, <1>6
<1>8. Entered' = asked \cup {hand.first} /\ Entered \subseteq Entered'
  BY <1>4, <1>6, <1>7 DEF Entered
<1>9. TypeOK'
  <2>1. hashtable' \in [Buckets -> Keys \cup {Fill, FillKey}]
    BY <1>1, <1>4 DEF IInv, TypeOK
  <2>2. hand' \in [key : Keys \cup {Fill, FillKey}, tableID : 0 .. 2, cnt : 0 .. 3,
                   first : Keys \cup {Fill}]
    <3>1. hand' = [key |-> hand'.key, tableID |-> hand'.tableID,
                   cnt |-> hand'.cnt, first |-> hand'.first]
      BY <1>4 DEF IInv, TypeOK
    <3>2. /\ hand'.key \in Keys \cup {Fill, FillKey} /\ hand'.first \in Keys \cup {Fill}
          /\ hand'.tableID \in 0 .. 2 /\ hand'.cnt \in 0 .. 3
      BY <1>1, <1>5, <1>6, <1>7
    <3> QED
      BY <3>1, <3>2
  <2> QED
    BY <1>4, <2>1, <2>2 DEF IInv, TypeOK, ver, Limit
<1>10. HandInv'
  <2>1. Fill \notin Keys /\ FillKey # Fill
    BY DEF Fill, Keys
  <2> QED
    BY <1>1, <1>5, <1>6, <1>7, <2>1 DEF HandInv, Limit
<1>11. hand.key \in Keys => hand.key \in Entered'
  BY <1>1, <1>8 DEF IInv, HandInv, OriginInv
<1>12. OriginInv'
  <2>1. ASSUME NEW c \in Buckets, hashtable'[c] \in Keys PROVE hashtable'[c] \in Entered'
    <3>1. CASE c = b
      BY <1>3, <1>4, <1>11, <2>1, <3>1 DEF IInv, TypeOK
    <3>2. CASE c # b
      BY <1>3, <1>4, <1>8, <2>1, <3>2 DEF IInv, TypeOK, OriginInv
    <3> QED
      BY <3>1, <3>2
  <2>2. ASSUME hand'.key \in Keys PROVE hand'.key \in Entered'
    <3>1. hand'.key = x
      BY <1>6, <2>2 DEF AsInt, Keys
    <3> QED
      BY <1>3, <1>8, <2>2, <3>1 DEF IInv, OriginInv
  <2> QED
    BY <2>1, <2>2 DEF OriginInv
<1>13. HomeInv'
  <2> SUFFICES ASSUME NEW k \in Entered', Lone(k)' PROVE hashtable'[k] = k
    BY DEF HomeInv
  <2>1. Lone(k)
    BY <1>4, <1>6 DEF Lone, Rivals
  <2>2. k \in Keys /\ k < MaxN
    BY <1>1, <1>8, <2>1 DEF IInv, TypeOK, Lone
  <2>3. At(0, k) = k /\ k \in Buckets
    BY <2>2, HomeIsRead
  <2>4. CASE k \in Entered
    <3>1. hashtable[k] = k /\ b # k
      BY <2>1, <2>4, OnlyRivalsCome DEF IInv, HomeInv
    <3> QED
      BY <1>3, <1>4, <2>3, <3>1 DEF IInv, TypeOK
  <2>5. CASE k \notin Entered
    <3>1. k = hand.first /\ hand.cnt = 0 /\ hand.key = k
      BY <1>1, <1>2, <1>8, <2>5 DEF Entered, IInv, HandInv
    <3>2. b = k
      BY <1>1, <2>3, <3>1
    <3> QED
      BY <1>3, <1>4, <3>1, <3>2 DEF IInv, TypeOK
  <2> QED
    BY <2>4, <2>5
<1> QED
  BY <1>9, <1>10, <1>12, <1>13 DEF IInv

\* Every step keeps the invariant.
LEMMA NextKeeps == IInv /\ [Next]_vars => IInv'
<1> SUFFICES ASSUME IInv, [Next]_vars PROVE IInv'
  OBVIOUS
<1>1. CASE \E key \in Keys : Serve(key)
  BY <1>1, ServeKeeps
<1>2. CASE Present \/ Unpositioned
  BY <1>2, ReturnKeeps
<1>3. CASE Displace
  BY <1>3, DisplaceKeeps
<1>4. CASE UNCHANGED vars
  BY <1>4 DEF vars, IInv, TypeOK, HandInv, IsIdle, OriginInv, HomeInv, Entered, Lone
<1> QED
  BY <1>1, <1>2, <1>3, <1>4 DEF Next

\* The inductive invariant holds at every moment, for tables of any size.
THEOREM Invariance == Spec => []IInv
<1> QED
  BY InitEstablishes, NextKeeps, PTL DEF Spec

\* The types: no displacement leaves the array, whatever the size of a table.
THEOREM TypeCorrect == Spec => []TypeOK
<1>1. IInv => TypeOK
  BY DEF IInv
<1> QED
  BY <1>1, Invariance, PTL

\* Clients find a key that no other requested key comes near in the bucket
\* whose index it is, at every moment of whatever else is placed.
THEOREM LoneIsRead == Spec => []LoneStaysHome
<1>1. IInv => LoneStaysHome
  <2> SUFFICES ASSUME IInv, NEW k \in asked, Lone(k) PROVE hashtable[ReadAt(k)] = k
    BY DEF LoneStaysHome, Lone
  <2>1. k \in Entered
    BY DEF Entered
  <2> QED
    BY <2>1 DEF IInv, HomeInv, ReadAt
<1> QED
  BY <1>1, Invariance, PTL

-----------------------------------------------------------------------------
(* No key that was asked for is lost. *)

Rem(k) == k % MaxN

\* Where a key comes to rest. No remainder has more than two keys, so the third
\* table is for the filling; and the last remainder's only key goes to the third
\* table when a key of the first remainder takes the bucket that two tables share.
Seats(k) ==
    IF k = FillKey
    THEN {At(1, k)} \cup (IF Rem(k) = MaxN - 1 THEN {} ELSE {At(2, k)})
    ELSE {At(0, k), At(IF Rem(k) = MaxN - 1 THEN 2 ELSE 1, k)}

\* In k's home is a key that can have driven k from it.
Covered(k) ==
    LET y == hashtable[At(0, k)]
    IN  y \in Keys /\ Rem(y) = (IF Rem(k) = MaxN - 1 THEN 0 ELSE Rem(k))

IsIn(k) == \E b \in Buckets : hashtable[b] = k

SeatInv == \A b \in Buckets : hashtable[b] # Fill => b \in Seats(hashtable[b])

OnceInv == \A b, c \in Buckets : hashtable[b] # Fill /\ hashtable[b] = hashtable[c] => b = c

CoverInv ==
    \A b \in Buckets :
        hashtable[b] \in Keys /\ b # At(0, hashtable[b]) => Covered(hashtable[b])

\* The filling enters the second table with the first key of all, and from then
\* on is in a bucket whenever a place begins or ends.
FillInv ==
    \/ IsIn(FillKey)
    \/ hand.cnt = 0 /\ \A b \in Buckets : hashtable[b] = Fill
    \/ /\ hand.cnt = 1 /\ hand.key = FillKey
       /\ \A b \in Buckets : b # At(0, hand.first) => hashtable[b] = Fill
    \/ hand.cnt = 2 /\ hand.key = FillKey /\ Rem(FillKey) # MaxN - 1

\* A displaced key is on its way to a seat of its own; none is left after three.
ChainInv ==
    hand.cnt > 0 /\ hand.key \in Keys =>
        /\ hand.cnt = (IF Rem(hand.key) = MaxN - 1 THEN 2 ELSE 1)
        /\ ~IsIn(hand.key)
        /\ Covered(hand.key)

KeptInv == \A k \in Entered : IsIn(k) \/ (hand.cnt > 0 /\ hand.key = k)

PlaceInv == SeatInv /\ OnceInv /\ CoverInv /\ FillInv /\ ChainInv /\ KeptInv

\* Positions by remainder; the filling's is not zero.
LEMMA Remainders ==
    ASSUME NEW k \in Keys \cup {FillKey}
    PROVE  /\ k \in Nat /\ Rem(k) \in 0 .. MaxN - 1
           /\ At(0, k) = Rem(k)
           /\ At(1, k) = MaxN - 1 + Rem(k)
           /\ At(2, k) = 2 * MaxN - 2 + Rem(k)
           /\ \A t \in 0 .. 2 : At(t, k) \in Buckets
           /\ k = FillKey => Rem(k) # 0
<1>1. k \in Nat
  BY DEF Keys
<1> QED
  BY <1>1, Remainder, Place DEF Rem

\* A remainder has two keys at most, and the last one has one.
LEMMA TwoOfARemainder ==
    /\ \A x, y, z \in Keys :
          Rem(x) = Rem(y) /\ Rem(y) = Rem(z) => x = y \/ y = z \/ x = z
    /\ \A x, y \in Keys : Rem(x) = MaxN - 1 /\ Rem(y) = MaxN - 1 => x = y
<1>1. ASSUME NEW k \in Keys
      PROVE  /\ k = Rem(k) \/ k = Rem(k) + MaxN
             /\ Rem(k) = MaxN - 1 => k = MaxN - 1
  <2>1. k \in Nat /\ k < 2 * MaxN - 1
    BY DEF Keys
  <2>2. CASE k < MaxN
    BY <2>1, <2>2, Remainder DEF Rem
  <2>3. CASE k >= MaxN
    <3> DEFINE m == k - MaxN
    <3>1. m \in Nat /\ m < MaxN - 1 /\ k = m + MaxN
      BY <2>1, <2>3
    <3>2. m % MaxN = m
      BY <3>1, Remainder
    <3>3. k % MaxN = m % MaxN
      BY <3>1, SMT
    <3> QED
      BY <3>1, <3>2, <3>3 DEF Rem
  <2> QED
    BY <2>1, <2>2, <2>3
<1>2. \A k \in Keys : Rem(k) \in 0 .. MaxN - 1 /\ k \in Nat
  BY Remainders
<1> QED
  BY <1>1, <1>2

\* The seats of a key, by its remainder.
LEMMA SeatsOf ==
    ASSUME NEW k \in Keys \cup {FillKey}, NEW b \in Seats(k)
    PROVE  /\ b \in Positions(k) /\ b \in Buckets
           /\ k \in Keys => \/ b = Rem(k)
                            \/ Rem(k) # MaxN - 1 /\ b = MaxN - 1 + Rem(k)
                            \/ Rem(k) = MaxN - 1 /\ b = 3 * MaxN - 3
           /\ k = FillKey => \/ b = MaxN - 1 + Rem(k)
                             \/ Rem(k) # MaxN - 1 /\ b = 2 * MaxN - 2 + Rem(k)
<1>1. FillKey \notin Keys
  BY DEF Keys
<1>2. b = At(0, k) \/ b = At(1, k) \/ b = At(2, k)
  BY DEF Seats
<1>3. b \in Positions(k) /\ b \in Buckets
  BY <1>2, Remainders DEF Positions, ver
<1>4. k \in Keys => \/ b = Rem(k)
                    \/ Rem(k) # MaxN - 1 /\ b = MaxN - 1 + Rem(k)
                    \/ Rem(k) = MaxN - 1 /\ b = 3 * MaxN - 3
  BY <1>1, Remainders DEF Seats
<1>5. k = FillKey => \/ b = MaxN - 1 + Rem(k)
                     \/ Rem(k) # MaxN - 1 /\ b = 2 * MaxN - 2 + Rem(k)
  BY Remainders DEF Seats
<1> QED
  BY <1>3, <1>4, <1>5

\* A key in a bucket is at one of the positions that place looks at.
LEMMA InIsInTable ==
    ASSUME TypeOK, SeatInv, NEW k \in Keys \cup {FillKey}
    PROVE  IsIn(k) <=> InTable(k)
<1>1. k # Fill
  BY DEF Fill, Keys
<1>2. Positions(k) \subseteq Buckets
  BY Remainders DEF Positions, ver
<1>3. ASSUME NEW b \in Buckets, hashtable[b] = k PROVE b \in Positions(k)
  BY <1>1, <1>3, SeatsOf DEF SeatInv
<1> QED
  BY <1>2, <1>3 DEF IsIn, InTable

LEMMA InitPlaces == Init => PlaceInv
<1> SUFFICES ASSUME Init PROVE PlaceInv
  OBVIOUS
<1>1. /\ \A b \in Buckets : hashtable[b] = Fill
      /\ hand.cnt = 0 /\ asked = {} /\ Fill \notin Keys
  BY DEF Init, Idle, Fill, Keys
<1>2. SeatInv /\ OnceInv /\ CoverInv /\ FillInv
  BY <1>1 DEF SeatInv, OnceInv, CoverInv, FillInv
<1>3. ChainInv /\ KeptInv
  BY <1>1 DEF ChainInv, KeptInv, Entered
<1> QED
  BY <1>2, <1>3 DEF PlaceInv

\* Taking a request, and standing still, move no key.
LEMMA ServePlaces ==
    ASSUME IInv, PlaceInv, NEW key \in Keys, Serve(key)
    PROVE  PlaceInv'
<1>1. /\ hand.cnt = 0 /\ hand'.cnt = 0
      /\ UNCHANGED <<hashtable, asked>>
  BY DEF Serve, IsIdle, Idle
<1>2. Entered = asked /\ Entered' = asked
  BY <1>1 DEF Entered
<1>3. (SeatInv /\ OnceInv /\ CoverInv)'
  BY <1>1 DEF PlaceInv, SeatInv, OnceInv, CoverInv, Covered, Seats, At, Rem
<1>4. FillInv'
  BY <1>1 DEF PlaceInv, FillInv, IsIn
<1>5. ChainInv'
  BY <1>1 DEF ChainInv
<1>6. KeptInv'
  BY <1>1, <1>2 DEF PlaceInv, KeptInv, IsIn
<1> QED
  BY <1>3, <1>4, <1>5, <1>6 DEF PlaceInv

LEMMA StutterPlaces ==
    ASSUME PlaceInv, UNCHANGED vars
    PROVE  PlaceInv'
<1>1. UNCHANGED <<hashtable, hand, asked>>
  BY DEF vars
<1>2. (SeatInv /\ OnceInv /\ CoverInv)'
  BY <1>1 DEF PlaceInv, SeatInv, OnceInv, CoverInv, Covered, Seats, At, Rem
<1>3. FillInv' /\ KeptInv'
  BY <1>1 DEF PlaceInv, FillInv, KeptInv, IsIn, Entered
<1>4. ChainInv'
  BY <1>1 DEF PlaceInv, ChainInv, Covered, IsIn, At, Rem
<1> QED
  BY <1>2, <1>3, <1>4 DEF PlaceInv

\* A place ends because its key is in the table, or after three displacements
\* with the filling in hand: either way no key is left out.
LEMMA ReturnPlaces ==
    ASSUME IInv, PlaceInv, Present \/ Unpositioned
    PROVE  PlaceInv'
<1>1. /\ ~IsIdle /\ UNCHANGED hashtable
      /\ hand'.cnt = 0
      /\ asked' = asked \cup {hand.first}
  BY DEF Present, Unpositioned, Return, Idle
<1>2. /\ TypeOK /\ hand.first \in Keys /\ Fill \notin Keys
      /\ hand.key \in Keys \cup {FillKey}
      /\ hand.cnt = 0 => hand.key = hand.first
  BY <1>1 DEF IInv, TypeOK, HandInv, Fill, Keys
<1>3. SeatInv /\ OnceInv /\ CoverInv /\ FillInv /\ ChainInv /\ KeptInv
  BY DEF PlaceInv
<1>4. Present => IsIn(hand.key)
  BY <1>2, <1>3, InIsInTable DEF Present, AlreadyThere
<1>5. Unpositioned => hand.cnt = 3 /\ hand.key \notin Keys
  BY <1>3 DEF Unpositioned, Limit, ChainInv
<1>6. (SeatInv /\ OnceInv /\ CoverInv)'
  BY <1>1, <1>3 DEF SeatInv, OnceInv, CoverInv, Covered, Seats, At, Rem
<1>7. FillInv'
  <2>1. CASE Present
    <3>1. PICK b \in Buckets : hashtable[b] = hand.key
      BY <1>4, <2>1 DEF IsIn
    <3>2. hand.key # Fill
      BY <1>2 DEF Fill
    <3>3. IsIn(FillKey)
      BY <1>3, <1>4, <2>1, <3>1, <3>2 DEF FillInv
    <3> QED
      BY <1>1, <3>3 DEF FillInv, IsIn
  <2>2. CASE Unpositioned
    <3>1. IsIn(FillKey)
      BY <1>3, <1>5, <2>2 DEF FillInv
    <3> QED
      BY <1>1, <3>1 DEF FillInv, IsIn
  <2> QED
    BY <2>1, <2>2
<1>8. ChainInv'
  BY <1>1 DEF ChainInv
<1>9. KeptInv'
  <2> SUFFICES ASSUME NEW k \in asked \cup {hand.first} PROVE IsIn(k)
    BY <1>1 DEF KeptInv, IsIn, Entered
  <2>1. k \in Keys
    BY <1>2 DEF TypeOK
  <2>2. CASE k \in Entered
    BY <1>3, <1>4, <1>5, <2>1, <2>2 DEF KeptInv
  <2>3. CASE k \notin Entered
    <3>1. k = hand.first /\ hand.cnt = 0
      BY <1>2, <2>3 DEF Entered, TypeOK, Limit
    <3> QED
      BY <1>2, <1>4, <1>5, <3>1
  <2> QED
    BY <2>2, <2>3
<1> QED
  BY <1>6, <1>7, <1>8, <1>9 DEF PlaceInv

\* The bucket that a displacement takes is a seat of the key in hand, which is
\* in no bucket yet.
LEMMA HandIsSeated ==
    ASSUME IInv, PlaceInv, Displace
    PROVE  /\ hand.tableID = hand.cnt /\ hand.cnt \in 0 .. 2
           /\ hand.key \in Keys \cup {FillKey} /\ hand.first \in Keys
           /\ hand.cnt = 0 => hand.key = hand.first
           /\ ~IsIn(hand.key)
           /\ At(hand.cnt, hand.key) \in Seats(hand.key)
           /\ At(hand.cnt, hand.key) \in Buckets
<1>1. /\ ~IsIdle /\ hand.cnt < Limit /\ hand.cnt \in 0 .. 2
      /\ hand.tableID = hand.cnt /\ hand.first \in Keys
      /\ hand.key \in Keys \cup {FillKey}
      /\ hand.cnt = 0 => hand.key = hand.first
  BY DEF Displace, IInv, TypeOK, HandInv, Limit
<1>2. ~IsIn(hand.key)
  BY <1>1, InIsInTable DEF Displace, AlreadyThere, IInv, PlaceInv
<1>3. FillKey \notin Keys
  BY DEF Keys
<1>4. At(hand.cnt, hand.key) \in Seats(hand.key)
  <2>1. CASE hand.key \in Keys
    <3>1. hand.cnt > 0 => hand.cnt = (IF Rem(hand.key) = MaxN - 1 THEN 2 ELSE 1)
      BY <2>1 DEF PlaceInv, ChainInv
    <3>2. hand.cnt = 0 \/ hand.cnt = (IF Rem(hand.key) = MaxN - 1 THEN 2 ELSE 1)
      BY <1>1, <3>1
    <3> QED
      BY <1>3, <2>1, <3>2 DEF Seats
  <2>2. CASE hand.key = FillKey
    <3>1. hand.cnt # 0
      BY <1>1, <1>3, <2>2
    <3>2. \/ hand.cnt = 1
          \/ hand.cnt = 2 /\ Rem(FillKey) # MaxN - 1
      <4>1. ~IsIn(FillKey)
        BY <1>2, <2>2 DEF IsIn
      <4>2. FillInv
        BY DEF PlaceInv
      <4> QED
        BY <3>1, <4>1, <4>2 DEF FillInv
    <3> QED
      BY <2>2, <3>2 DEF Seats
  <2> QED
    BY <1>1, <2>1, <2>2
<1> QED
  BY <1>1, <1>2, <1>4, SeatsOf

\* What a displacement changes.
LEMMA DisplaceParts ==
    ASSUME IInv, PlaceInv, Displace,
           NEW b, b = At(hand.cnt, hand.key), NEW h, h = hand.key
    PROVE  /\ b \in Buckets /\ hashtable[b] \in Keys \cup {Fill, FillKey}
           /\ \A c \in Buckets : hashtable'[c] = IF c = b THEN h ELSE hashtable[c]
           /\ hand'.key = AsInt(hashtable[b]) /\ hand'.first = hand.first
           /\ hand'.cnt = hand.cnt + 1
           /\ asked' = asked
<1>1. b \in Buckets /\ hand.tableID = hand.cnt
  BY HandIsSeated
<1>2. /\ hashtable' = [hashtable EXCEPT ![b] = h]
      /\ hand' = [hand EXCEPT !.key = AsInt(hashtable[b]), !.tableID = (@ + 1) % ver, !.cnt = @ + 1]
      /\ asked' = asked
  BY <1>1 DEF Displace
<1>3. hashtable \in [Buckets -> Keys \cup {Fill, FillKey}]
  BY DEF IInv, TypeOK
<1> QED
  BY <1>1, <1>2, <1>3 DEF IInv, TypeOK

\* A client's key that is displaced goes to a seat of its own: from the first
\* table a key follows one of its remainder to the second table, or goes back to
\* the shared bucket that the last remainder's key has taken; from the second
\* only that key is displaced, by one of the first remainder; from the third none.
LEMMA DisplacedGoesOn ==
    ASSUME IInv, PlaceInv, Displace,
           NEW b, b = At(hand.cnt, hand.key), NEW h, h = hand.key,
           NEW x, x = hashtable[b], x \in Keys
    PROVE  /\ hand.cnt + 1 = (IF Rem(x) = MaxN - 1 THEN 2 ELSE 1)
           /\ Covered(x)'
<1>1. /\ hand.cnt \in 0 .. 2 /\ h \in Keys \cup {FillKey} /\ ~IsIn(h)
      /\ hand.first \in Keys
      /\ hand.cnt = 0 => h = hand.first
      /\ b \in Buckets
  BY HandIsSeated
<1>2. \A c \in Buckets : hashtable'[c] = IF c = b THEN h ELSE hashtable[c]
  BY DisplaceParts
<1>3. SeatInv /\ OnceInv /\ CoverInv /\ FillInv /\ ChainInv
  BY DEF PlaceInv
<1>4. x # h /\ x # Fill /\ FillKey \notin Keys
  BY <1>1 DEF IsIn, Fill, Keys
<1>5. \/ b = Rem(x)
      \/ Rem(x) # MaxN - 1 /\ b = MaxN - 1 + Rem(x)
      \/ Rem(x) = MaxN - 1 /\ b = 3 * MaxN - 3
  <2>1. b \in Seats(x)
    BY <1>1, <1>3, <1>4 DEF SeatInv
  <2> QED
    BY <2>1, SeatsOf
<1>6. /\ Rem(x) \in 0 .. MaxN - 1 /\ At(0, x) = Rem(x) /\ At(0, x) \in Buckets
      /\ Rem(h) \in 0 .. MaxN - 1 /\ At(0, h) = Rem(h) /\ At(0, h) \in Buckets
      /\ h = FillKey => Rem(h) # 0
  BY <1>1, Remainders
<1>7. hand.cnt = 0 \/ hand.cnt = 1 \/ hand.cnt = 2
  BY <1>1
<1>8. CASE hand.cnt = 0
  <2>1. h \in Keys /\ b = Rem(h)
    BY <1>1, <1>8, Remainders
  <2>2. CASE b = Rem(x)
    <3>1. Rem(x) # MaxN - 1
      BY <1>4, <2>1, <2>2, TwoOfARemainder
    <3>2. hashtable'[At(0, x)] = h
      BY <1>1, <1>2, <1>6, <2>2
    <3>3. Covered(x)'
      BY <2>1, <2>2, <3>1, <3>2 DEF Covered, At, Rem
    <3> QED
      BY <1>8, <3>1, <3>3
  <2>3. CASE b # Rem(x)
    <3>1. Rem(x) = 0 /\ Rem(x) # MaxN - 1
      BY <1>5, <1>6, <2>1, <2>3
    <3>2. Covered(x)
      BY <1>1, <1>3, <1>6, <2>3 DEF CoverInv
    <3>3. hashtable'[At(0, x)] = hashtable[At(0, x)]
      BY <1>2, <1>6, <2>3
    <3>4. Covered(x)'
      BY <3>2, <3>3 DEF Covered, At, Rem
    <3> QED
      BY <1>8, <3>1, <3>4
  <2> QED
    BY <2>2, <2>3
<1>9. CASE hand.cnt = 1
  <2>1. b = MaxN - 1 + Rem(h)
    BY <1>1, <1>9, Remainders
  <2>2. h \in Keys
    <3> SUFFICES ASSUME h = FillKey PROVE FALSE
      BY <1>1
    <3>1. \A c \in Buckets : c # At(0, hand.first) => hashtable[c] = Fill
      BY <1>1, <1>3, <1>9 DEF FillInv
    <3>2. At(0, hand.first) \in 0 .. MaxN - 1
      <4> DEFINE f == hand.first
      <4>1. f \in Keys \cup {FillKey}
        BY <1>1
      <4> HIDE DEF f
      <4>2. At(0, f) = Rem(f) /\ Rem(f) \in 0 .. MaxN - 1
        BY <4>1, Remainders
      <4> QED
        BY <4>2 DEF f
    <3>3. b # At(0, hand.first)
      BY <1>6, <2>1, <3>2
    <3> QED
      BY <1>1, <1>4, <3>1, <3>3
  <2>3. Rem(h) # MaxN - 1 /\ Covered(h)
    BY <1>3, <1>9, <2>2 DEF ChainInv
  <2> DEFINE y == hashtable[At(0, h)]
  <2>4. y \in Keys /\ Rem(y) = Rem(h)
    BY <2>3 DEF Covered
  <2>5. y # h
    BY <1>1, <1>6 DEF IsIn
  <2>6. Rem(x) # Rem(h)
    <3> SUFFICES ASSUME Rem(x) = Rem(h) PROVE FALSE
      OBVIOUS
    <3>1. x = y
      BY <1>4, <2>2, <2>4, <2>5, TwoOfARemainder
    <3>2. b = At(0, h)
      BY <1>1, <1>3, <1>4, <1>6, <3>1 DEF OnceInv
    <3> QED
      BY <1>6, <2>1, <3>2
  <2>7. Rem(x) = MaxN - 1 /\ Rem(h) = 0 /\ b = Rem(x)
    BY <1>5, <1>6, <2>1, <2>3, <2>6
  <2>8. hashtable'[At(0, x)] = h
    BY <1>1, <1>2, <1>6, <2>7
  <2>9. Covered(x)'
    BY <2>2, <2>7, <2>8 DEF Covered, At, Rem
  <2> QED
    BY <1>9, <2>7, <2>9
<1>10. CASE hand.cnt = 2
  <2>1. b = 2 * MaxN - 2 + Rem(h)
    BY <1>1, <1>10, Remainders
  <2>2. CASE h = FillKey
    <3>1. Rem(h) # 0 /\ Rem(h) # MaxN - 1
      BY <1>1, <1>3, <1>6, <1>10, <2>2 DEF FillInv
    <3> QED
      BY <1>5, <1>6, <2>1, <3>1
  <2>3. CASE h \in Keys
    <3>1. Rem(h) = MaxN - 1
      BY <1>3, <1>10, <2>3 DEF ChainInv
    <3>2. Rem(x) = MaxN - 1
      BY <1>5, <1>6, <2>1, <3>1
    <3> QED
      BY <1>4, <2>3, <3>1, <3>2, TwoOfARemainder
  <2> QED
    BY <1>1, <2>2, <2>3
<1> QED
  BY <1>7, <1>8, <1>9, <1>10

LEMMA DisplacePlaces ==
    ASSUME IInv, PlaceInv, Displace
    PROVE  PlaceInv'
<1> SUFFICES ASSUME NEW b, b = At(hand.cnt, hand.key), NEW h, h = hand.key,
                    NEW x, x = hashtable[b]
             PROVE  PlaceInv'
  OBVIOUS
<1>1. /\ hand.cnt \in 0 .. 2 /\ h \in Keys \cup {FillKey}
      /\ ~IsIn(h) /\ b \in Seats(h) /\ b \in Buckets
      /\ hand.first \in Keys
      /\ hand.cnt = 0 => h = hand.first
  BY HandIsSeated
<1>2. /\ \A c \in Buckets : hashtable'[c] = IF c = b THEN h ELSE hashtable[c]
      /\ hand'.key = AsInt(x) /\ hand'.first = hand.first
      /\ hand'.cnt = hand.cnt + 1
      /\ asked' = asked
      /\ x \in Keys \cup {Fill, FillKey}
  BY DisplaceParts
<1>3. SeatInv /\ OnceInv /\ CoverInv /\ FillInv /\ ChainInv /\ KeptInv
  BY DEF PlaceInv
<1>4. x # h /\ h # Fill /\ Fill \notin Keys /\ FillKey \notin Keys /\ FillKey # Fill
  BY <1>1 DEF IsIn, Fill, Keys
<1>5. \A c \in Buckets : hashtable[c] # h
  BY <1>1 DEF IsIn
<1>6. x \in Keys => /\ hand.cnt + 1 = (IF Rem(x) = MaxN - 1 THEN 2 ELSE 1)
                    /\ Covered(x)'
  BY DisplacedGoesOn
<1>7. /\ Rem(h) \in 0 .. MaxN - 1
      /\ At(0, h) = Rem(h) /\ At(0, h) \in Buckets
      /\ h = FillKey => Rem(h) # 0
  BY <1>1, Remainders
<1>8. /\ hand.cnt = 0 => b = Rem(h)
      /\ hand.cnt = 1 => b = MaxN - 1 + Rem(h)
      /\ hand.cnt = 2 => b = 2 * MaxN - 2 + Rem(h)
  BY <1>1, Remainders
\* The key in hand takes a seat of its own, and is in no other bucket.
<1>9. SeatInv'
  <2> SUFFICES ASSUME NEW c \in Buckets, hashtable'[c] # Fill
               PROVE  c \in Seats(hashtable'[c])
    BY DEF SeatInv, Seats, At, Rem
  <2> QED
    BY <1>1, <1>2, <1>3 DEF SeatInv
<1>10. OnceInv'
  BY <1>1, <1>2, <1>3, <1>5 DEF OnceInv
\* A key that covers another is replaced only by one that does the same.
<1>11. CoverInv'
  <2> SUFFICES ASSUME NEW c \in Buckets, NEW y \in Keys, hashtable'[c] = y, c # At(0, y)
               PROVE  Covered(y)'
    BY DEF CoverInv, Covered, At, Rem
  <2>1. Rem(y) \in 0 .. MaxN - 1 /\ At(0, y) = Rem(y) /\ At(0, y) \in Buckets
    BY Remainders
  <2>2. CASE c = b
    <3>1. y = h
      BY <1>2, <2>2
    <3>2. hand.cnt > 0
      BY <1>1, <1>7, <1>8, <2>2, <3>1
    <3>3. Covered(y)
      BY <1>3, <3>1, <3>2 DEF ChainInv
    <3>4. hashtable'[At(0, y)] = hashtable[At(0, y)]
      BY <1>2, <2>1, <2>2
    <3> QED
      BY <3>3, <3>4 DEF Covered, At, Rem
  <2>3. CASE c # b
    <3>1. hashtable[c] = y
      BY <1>2, <2>3
    <3>2. Covered(y)
      BY <1>3, <3>1 DEF CoverInv
    <3>3. CASE b # At(0, y)
      <4>1. hashtable'[At(0, y)] = hashtable[At(0, y)]
        BY <1>2, <2>1, <3>3
      <4> QED
        BY <3>2, <4>1 DEF Covered, At, Rem
    <3>4. CASE b = At(0, y)
      <4>1. h \in Keys /\ Rem(h) = (IF Rem(y) = MaxN - 1 THEN 0 ELSE Rem(y))
        <5>1. CASE hand.cnt = 0
          <6>1. h \in Keys /\ Rem(h) = Rem(y) /\ h # y
            BY <1>1, <1>5, <1>8, <2>1, <3>1, <3>4, <5>1
          <6>2. Rem(y) # MaxN - 1
            BY <6>1, TwoOfARemainder
          <6> QED
            BY <6>1, <6>2
        <5>2. CASE hand.cnt = 1
          <6>1. Rem(h) = 0 /\ Rem(y) = MaxN - 1
            BY <1>7, <1>8, <2>1, <3>4, <5>2
          <6> QED
            BY <1>1, <1>7, <6>1
        <5>3. CASE hand.cnt = 2
          BY <1>7, <1>8, <2>1, <3>4, <5>3
        <5> QED
          BY <1>1, <5>1, <5>2, <5>3
      <4>2. hashtable'[At(0, y)] = h
        BY <1>2, <2>1, <3>4
      <4> QED
        BY <4>1, <4>2 DEF Covered, At, Rem
    <3> QED
      BY <3>3, <3>4
  <2> QED
    BY <2>2, <2>3
<1>12. FillInv'
  <2>1. CASE h = FillKey
    <3>1. IsIn(FillKey)'
      BY <1>1, <1>2, <2>1 DEF IsIn
    <3> QED
      BY <3>1 DEF FillInv
  <2>2. CASE h # FillKey /\ IsIn(FillKey)
    <3>1. PICK c \in Buckets : hashtable[c] = FillKey
      BY <2>2 DEF IsIn
    <3>2. CASE c # b
      <4>1. IsIn(FillKey)'
        BY <1>2, <3>1, <3>2 DEF IsIn
      <4> QED
        BY <4>1 DEF FillInv
    <3>3. CASE c = b
      <4>1. hand'.key = FillKey
        BY <1>2, <1>4, <3>1, <3>3 DEF AsInt
      <4>2. Rem(FillKey) \in 1 .. MaxN - 1
        BY Remainders
      <4>3. \/ b = MaxN - 1 + Rem(FillKey)
            \/ Rem(FillKey) # MaxN - 1 /\ b = 2 * MaxN - 2 + Rem(FillKey)
        <5>1. b \in Seats(FillKey)
          BY <1>1, <1>3, <1>4, <3>1, <3>3 DEF SeatInv
        <5> QED
          BY <5>1, SeatsOf
      <4>4. hand.cnt = 2 => Rem(h) = MaxN - 1
        BY <1>1, <1>3, <2>2 DEF ChainInv
      <4>5. hand.cnt = 1 => Rem(h) # MaxN - 1
        BY <1>1, <1>3, <2>2 DEF ChainInv
      <4>6. hand.cnt = 1
        BY <1>1, <1>7, <1>8, <4>2, <4>3, <4>4
      <4>7. Rem(FillKey) # MaxN - 1
        BY <1>7, <1>8, <4>2, <4>3, <4>5, <4>6
      <4>8. hand'.cnt = 2
        BY <1>2, <4>6
      <4> QED
        BY <4>1, <4>7, <4>8 DEF FillInv
    <3> QED
      BY <3>2, <3>3
  <2>3. CASE h # FillKey /\ ~IsIn(FillKey)
    <3>1. hand.cnt = 0 /\ \A c \in Buckets : hashtable[c] = Fill
      BY <1>3, <2>3 DEF FillInv
    <3>2. hand'.cnt = 1 /\ hand'.key = FillKey
      BY <1>1, <1>2, <3>1 DEF AsInt
    <3>3. At(0, hand'.first) = b
      BY <1>1, <1>2, <3>1
    <3> QED
      BY <1>2, <3>1, <3>2, <3>3 DEF FillInv, At
  <2> QED
    BY <2>1, <2>2, <2>3
<1>13. ChainInv'
  <2> SUFFICES ASSUME hand'.key \in Keys PROVE ChainInv'
    BY DEF ChainInv
  <2>1. x \in Keys /\ hand'.key = x
    BY <1>2, <1>4 DEF AsInt
  <2>2. ~IsIn(x)'
    BY <1>1, <1>2, <1>3, <1>4, <2>1 DEF IsIn, OnceInv
  <2> QED
    BY <1>2, <1>6, <2>1, <2>2 DEF ChainInv, IsIn, Covered, At, Rem
<1>14. KeptInv'
  <2>1. hand'.cnt > 0
    BY <1>1, <1>2
  <2> SUFFICES ASSUME NEW k \in asked \cup {hand.first}, hand'.key # k
               PROVE  \E c \in Buckets : hashtable'[c] = k
    BY <1>2, <2>1 DEF KeptInv, IsIn, Entered
  <2>2. CASE k = h
    BY <1>1, <1>2, <2>2
  <2>3. CASE k # h
    <3>1. k \in Entered
      BY <1>1, <2>3 DEF Entered
    <3>2. PICK c \in Buckets : hashtable[c] = k
      BY <1>3, <2>3, <3>1 DEF KeptInv, IsIn
    <3>3. k # Fill
      BY <1>1, <1>4 DEF IInv, TypeOK
    <3>4. c # b
      BY <1>2, <3>2, <3>3 DEF AsInt
    <3> QED
      BY <1>2, <3>2, <3>4
  <2> QED
    BY <2>2, <2>3
<1> QED
  BY <1>9, <1>10, <1>11, <1>12, <1>13, <1>14 DEF PlaceInv

\* Every step keeps what is said of places.
LEMMA NextPlaces == IInv /\ PlaceInv /\ [Next]_vars => PlaceInv'
<1> SUFFICES ASSUME IInv, PlaceInv, [Next]_vars PROVE PlaceInv'
  OBVIOUS
<1>1. CASE \E key \in Keys : Serve(key)
  BY <1>1, ServePlaces
<1>2. CASE Present \/ Unpositioned
  BY <1>2, ReturnPlaces
<1>3. CASE Displace
  BY <1>3, DisplacePlaces
<1>4. CASE UNCHANGED vars
  BY <1>4, StutterPlaces
<1> QED
  BY <1>1, <1>2, <1>3, <1>4 DEF Next

\* What is between the tables and the hand at every moment of a place: each
\* request's key is in a bucket of its own or in hand.
THEOREM PlacesFollow == Spec => []PlaceInv
<1>1. Init => PlaceInv
  BY InitPlaces
<1>2. IInv /\ PlaceInv /\ [Next]_vars => PlaceInv'
  BY NextPlaces
<1> QED
  BY <1>1, <1>2, Invariance, PTL DEF Spec

\* Although place gives up after three displacements, every key that was asked
\* for is found by its positions, and in one bucket, for tables of any size.
THEOREM NoKeyIsLost == Spec => []PlacedIsFound
<1>1. IInv /\ PlaceInv => PlacedIsFound
  <2> SUFFICES ASSUME IInv, PlaceInv, IsIdle, NEW k \in asked
               PROVE  InTable(k) /\ Cardinality({b \in Buckets : hashtable[b] = k}) = 1
    BY DEF PlacedIsFound
  <2>1. hand.cnt = 0 /\ k \in Entered
    BY DEF IsIdle, Idle, Entered
  <2>2. k \in Keys /\ k # Fill
    BY DEF IInv, TypeOK, Keys, Fill
  <2>3. IsIn(k)
    BY <2>1 DEF PlaceInv, KeptInv
  <2>4. InTable(k)
    BY <2>2, <2>3, InIsInTable DEF IInv, PlaceInv
  <2>5. PICK c \in Buckets : hashtable[c] = k
    BY <2>3 DEF IsIn
  <2>6. {b \in Buckets : hashtable[b] = k} = {c}
    BY <2>2, <2>5 DEF PlaceInv, OnceInv
  <2> QED
    BY <2>4, <2>6, FS_Singleton
<1> QED
  BY <1>1, Invariance, PlacesFollow, PTL
=============================================================================
