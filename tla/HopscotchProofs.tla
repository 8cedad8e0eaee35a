---------------------------- MODULE HopscotchProofs ----------------------------
(***************************************************************************)
(* Theorems about Hopscotch, for tables and neighbourhoods of any size and *)
(* any keys. While nothing was displaced, each key in the table is where   *)
(* its home's bitmap says it is; and displaced or not, the only bucket     *)
(* whose contents an insertion may overwrite is the one it has in hand.    *)
(***************************************************************************)
EXTENDS Hopscotch, FiniteSetTheorems, WellFoundedInduction, TLAPS

\* The bucket in hand lies behind the home of the key to be inserted.
HandInv == insert # NoInsert => insert.at >= Home(insert.key)

\* Each key of the map is in a bucket other than the one in hand.
KeptInv ==
    \A k \in Keys : dict[k] # Absent =>
        \E i \in Index : /\ i # insert.at
                         /\ buckets[i].key = k
                         /\ buckets[i].data = dict[k]

\* The key of a bucket is one of the map, and a scan from its home finds it.
IsPlaced(i) ==
    LET k == buckets[i].key
    IN  k # Free =>
            /\ dict[k] = buckets[i].data
            /\ i - Home(k) \in Hops
            /\ i - Home(k) \in buckets[Home(k)].hopinfo

\* Before the first displacement: keys are placed and in one bucket each, and
\* the bucket in hand is free.
PlainInv ==
    ~displaced =>
        /\ \A i \in Index : IsPlaced(i)
        /\ \A i, j \in Index :
              buckets[i].key # Free /\ buckets[i].key = buckets[j].key => i = j
        /\ insert # NoInsert => buckets[insert.at].key = Free /\ dict[insert.key] = Absent

IInv == TypeOK /\ HandInv /\ KeptInv /\ PlainInv

USE SizeAssumption, BitsAssumption, KeysAssumption, VersionAssumption

\* The least element of a set of natural numbers is one of its elements: among
\* the intervals from 0 to the elements one has none of the others within.
LEMMA MinIsMember ==
    ASSUME NEW S, S \subseteq Nat, S # {}
    PROVE  Min(S) \in S
<1> DEFINE T == {0 .. x : x \in S}
<1>1. T \subseteq FiniteSubsetsOf(Nat) /\ T # {}
  <2> SUFFICES ASSUME NEW x \in S PROVE 0 .. x \in FiniteSubsetsOf(Nat)
    OBVIOUS
  <2>1. x \in Nat
    OBVIOUS
  <2>2. IsFiniteSet(0 .. x) /\ 0 .. x \in SUBSET Nat
    BY <2>1, FS_Interval
  <2> QED
    BY <2>2 DEF FiniteSubsetsOf
<1>2. PICK I \in T : \A J \in T : ~ (<<J, I>> \in StrictSubsetOrdering(Nat))
  BY <1>1, FS_StrictSubsetOrderingWellFounded, WFMin
<1>3. PICK x \in S : I = 0 .. x
  BY <1>2
<1>4. ASSUME NEW y \in S PROVE x <= y
  <2> SUFFICES ASSUME y < x PROVE FALSE
    OBVIOUS
  <2>1. 0 .. y \in SUBSET Nat /\ I \in SUBSET Nat
    BY <1>3
  <2>2. 0 .. y \subseteq I /\ x \in I /\ x \notin 0 .. y
    BY <1>3
  <2>3. <<0 .. y, I>> \in StrictSubsetOrdering(Nat)
    BY <2>1, <2>2 DEF StrictSubsetOrdering
  <2> QED
    BY <1>2, <2>3
<1> QED
  BY <1>4 DEF Min

\* A key's home is a bucket.
LEMMA HomeIsIndex ==
    ASSUME NEW k \in Keys
    PROVE  Home(k) \in Index
<1>1. k \in Nat
  OBVIOUS
<1>2. k % Size \in 0 .. Size - 1
  BY <1>1, SMT
<1> QED
  BY <1>2 DEF Home, Index

\* What the scan of a neighbourhood finds is the key, at one of its offsets.
LEMMA PlaceHoldsKey ==
    ASSUME NEW k \in Keys, Found(k)
    PROVE  /\ Min(Offsets(k)) \in Offsets(k)
           /\ Place(k) \in Index
           /\ buckets[Place(k)].key = k
<1>1. Offsets(k) \subseteq Nat
  BY DEF Offsets, Hops
<1>2. Min(Offsets(k)) \in Offsets(k)
  BY <1>1, MinIsMember DEF Found
<1> QED
  BY <1>2 DEF Offsets, Place

\* The types of what the steps read, in the form in which the proofs use them.
LEMMA Parts ==
    ASSUME TypeOK, NEW i \in Index
    PROVE  /\ buckets[i].key \in Keys \cup {Free}
           /\ buckets[i].data \in Values \cup {-1}
           /\ buckets[i].header_version \in -1 .. MaxVersion
           /\ buckets[i].c_ver \in 0 .. CVer - 1
           /\ buckets[i].lock \in {-1, 0}
           /\ buckets[i].hopinfo \in SUBSET Bits
  BY DEF TypeOK

LEMMA HandParts ==
    ASSUME TypeOK, insert # NoInsert
    PROVE  /\ insert.key \in Keys /\ insert.data \in Values /\ insert.at \in Index
           /\ insert = [key |-> insert.key, data |-> insert.data, at |-> insert.at]
  BY DEF TypeOK

LEMMA InitEstablishes == Init => IInv
<1> SUFFICES ASSUME Init PROVE IInv
  OBVIOUS
<1>1. TypeOK
  <2>1. Blank \in [key : Keys \cup {Free}, data : Values \cup {-1},
                   header_version : -1 .. MaxVersion, c_ver : 0 .. CVer - 1,
                   lock : {-1, 0}, hopinfo : SUBSET Bits]
    BY DEF Blank
  <2> QED
    BY <2>1 DEF Init, TypeOK
<1>2. HandInv /\ KeptInv
  BY DEF Init, HandInv, KeptInv
<1>3. PlainInv
  <2>1. \A i \in Index : buckets[i].key = Free
    BY DEF Init, Blank
  <2> QED
    BY <2>1 DEF Init, PlainInv, IsPlaced
<1> QED
  BY <1>1, <1>2, <1>3 DEF IInv

LEMMA StutterKeeps ==
    ASSUME IInv, UNCHANGED vars
    PROVE  IInv'
  BY DEF IInv, vars, TypeOK, HandInv, KeptInv, PlainInv, IsPlaced, Home

\* A key in a bucket is a key of the map as long as nothing was displaced.
LEMMA PlacedIsPresent ==
    ASSUME TypeOK, NEW i \in Index, IsPlaced(i), buckets[i].key # Free
    PROVE  /\ buckets[i].key \in Keys
           /\ dict[buckets[i].key] # Absent
<1>1. /\ buckets[i].key \in Keys
      /\ buckets[i].data \in Values \cup {-1}
  BY Parts
<1>2. dict[buckets[i].key] \in Values \cup {Absent}
  BY <1>1 DEF TypeOK
<1>3. dict[buckets[i].key] = buckets[i].data
  BY DEF IsPlaced
<1>4. -1 # Absent /\ 0 \notin Values
  BY DEF Absent
<1> QED
  BY <1>1, <1>2, <1>3, <1>4 DEF Absent

\* An update changes the data of one bucket, and of its key in the map.
LEMMA UpdateKeeps ==
    ASSUME IInv, NEW k \in Keys, NEW v \in Values, Update(k, v)
    PROVE  IInv'
<1>1. TypeOK /\ HandInv /\ KeptInv /\ PlainInv
  BY DEF IInv
<1>2. CASE ~Found(k)
  BY <1>2, StutterKeeps DEF Update, vars
<1>3. CASE Found(k)
  <2> DEFINE p == Place(k)
             r == Updated(buckets[p], v)
  <2>1. p \in Index /\ buckets[p].key = k
    BY <1>3, PlaceHoldsKey
  <2>2. /\ insert = NoInsert /\ insert' = insert /\ displaced' = displaced
        /\ dict' = [dict EXCEPT ![k] = v]
        /\ buckets[p].header_version < MaxVersion
    BY <1>3 DEF Update
  <2>10. buckets' = [buckets EXCEPT ![p] = r]
    BY <1>3 DEF Update
  <2>3. /\ r.key = k /\ r.data = v /\ r.hopinfo = buckets[p].hopinfo
        /\ r \in [key : Keys \cup {Free}, data : Values \cup {-1},
                  header_version : -1 .. MaxVersion, c_ver : 0 .. CVer - 1,
                  lock : {-1, 0}, hopinfo : SUBSET Bits]
    <3>1. buckets[p] \in [key : Keys \cup {Free}, data : Values \cup {-1},
                  header_version : -1 .. MaxVersion, c_ver : 0 .. CVer - 1,
                  lock : {-1, 0}, hopinfo : SUBSET Bits]
      BY <1>1, <2>1 DEF TypeOK
    <3>2. buckets[p].header_version + 1 \in -1 .. MaxVersion
      BY <2>2, <3>1
    <3>3. (buckets[p].c_ver + 1) % CVer \in 0 .. CVer - 1
      BY <3>1, SMT
    <3> QED
      BY <2>1, <3>1, <3>2, <3>3 DEF Updated
  <2> HIDE DEF p, r
  <2>4. \A i \in Index : buckets'[i] = IF i = p THEN r ELSE buckets[i]
    BY <1>1, <2>1, <2>10 DEF TypeOK
  <2>5. \A q \in Keys : dict'[q] = IF q = k THEN v ELSE dict[q]
    BY <1>1, <2>2 DEF TypeOK
  <2>6. TypeOK'
    BY <1>1, <2>1, <2>2, <2>10, <2>3 DEF TypeOK
  <2>7. HandInv'
    BY <2>2 DEF HandInv
  <2>8. KeptInv'
    <3> SUFFICES ASSUME NEW q \in Keys, dict'[q] # Absent
                 PROVE  \E i \in Index : /\ i # insert'.at
                                         /\ buckets'[i].key = q
                                         /\ buckets'[i].data = dict'[q]
      BY DEF KeptInv
    <3>1. CASE q = k
      <4>1. p # insert'.at
        BY <2>1, <2>2 DEF NoInsert, Free, Index
      <4> QED
        BY <2>1, <2>3, <2>4, <2>5, <3>1, <4>1
    <3>2. CASE q # k
      <4>1. PICK i \in Index : /\ i # insert.at
                               /\ buckets[i].key = q
                               /\ buckets[i].data = dict[q]
        BY <1>1, <2>5, <3>2 DEF KeptInv
      <4>2. buckets'[i] = buckets[i]
        BY <2>1, <2>4, <3>2, <4>1
      <4> QED
        BY <2>2, <2>5, <3>2, <4>1, <4>2
    <3> QED
      BY <3>1, <3>2
  <2>9. PlainInv'
    <3> SUFFICES ASSUME ~displaced PROVE PlainInv'
      BY <2>2 DEF PlainInv
    <3>1. \A i \in Index : buckets'[i].key = buckets[i].key /\ buckets'[i].hopinfo = buckets[i].hopinfo
      BY <2>1, <2>3, <2>4
    <3>2. ASSUME NEW i \in Index PROVE IsPlaced(i)'
      <4>1. CASE i = p
        BY <1>1, <2>1, <2>3, <2>4, <2>5, <3>1, <4>1, HomeIsIndex DEF PlainInv, IsPlaced, Home
      <4>2. CASE i # p
        <5>1. buckets[i].key # Free => buckets[i].key \in Keys /\ buckets[i].key # k
          BY <1>1, <2>1, <4>2, Parts DEF PlainInv
        <5>2. buckets'[i] = buckets[i]
          BY <2>4, <4>2
        <5>3. buckets[i].key # Free => Home(buckets[i].key) \in Index
          BY <5>1, HomeIsIndex
        <5>4. buckets[i].key # Free => dict'[buckets[i].key] = dict[buckets[i].key]
          BY <2>5, <5>1
        <5> QED
          BY <1>1, <3>1, <5>2, <5>3, <5>4 DEF PlainInv, IsPlaced, Home
      <4> QED
        BY <4>1, <4>2
    <3> QED
      BY <1>1, <2>2, <3>1, <3>2 DEF PlainInv
  <2> QED
    BY <2>6, <2>7, <2>8, <2>9 DEF IInv
<1> QED
  BY <1>2, <1>3

\* A removal frees one bucket, and one bit, which belongs to it alone.
LEMMA RemoveKeeps ==
    ASSUME IInv, NEW k \in Keys, Remove(k)
    PROVE  IInv'
<1>1. TypeOK /\ HandInv /\ KeptInv /\ PlainInv
  BY DEF IInv
<1>2. CASE ~Found(k)
  BY <1>2, StutterKeeps DEF Remove, vars
<1>3. CASE Found(k)
  <2> DEFINE h == Home(k)
             o == Min(Offsets(k))
             p == Place(k)
  <2>1. /\ p \in Index /\ h \in Index /\ o \in Nat /\ p = h + o
        /\ buckets[p].key = k
    BY <1>3, PlaceHoldsKey, HomeIsIndex DEF Place, Offsets, Hops
  <2>2. /\ insert = NoInsert /\ insert' = insert /\ displaced' = displaced
        /\ buckets' = [buckets EXCEPT ![h].hopinfo = @ \ {o}, ![p].key = Free,
                                      ![p].data = -1]
        /\ dict' = [dict EXCEPT ![k] = Absent]
    BY <1>3 DEF Remove
  <2> HIDE DEF h, o, p
  <2>3. /\ \A i \in Index : buckets'[i].key = IF i = p THEN Free ELSE buckets[i].key
        /\ \A i \in Index : buckets'[i].data = IF i = p THEN -1 ELSE buckets[i].data
        /\ \A i \in Index : buckets'[i].hopinfo =
               IF i = h THEN buckets[i].hopinfo \ {o} ELSE buckets[i].hopinfo
        /\ buckets' \in [Index -> [key : Keys \cup {Free}, data : Values \cup {-1},
                  header_version : -1 .. MaxVersion, c_ver : 0 .. CVer - 1,
                  lock : {-1, 0}, hopinfo : SUBSET Bits]]
    <3> DEFINE B == [key : Keys \cup {Free}, data : Values \cup {-1},
                  header_version : -1 .. MaxVersion, c_ver : 0 .. CVer - 1,
                  lock : {-1, 0}, hopinfo : SUBSET Bits]
               b1 == [buckets EXCEPT ![h].hopinfo = @ \ {o}]
               b2 == [b1 EXCEPT ![p].key = Free]
    <3>1. buckets \in [Index -> B] /\ \A i \in Index : buckets[i].hopinfo \in SUBSET Bits
      BY <1>1 DEF TypeOK
    <3>2. /\ b1 \in [Index -> B]
          /\ \A i \in Index :
                /\ b1[i].key = buckets[i].key /\ b1[i].data = buckets[i].data
                /\ b1[i].hopinfo = IF i = h THEN buckets[i].hopinfo \ {o} ELSE buckets[i].hopinfo
      BY <2>1, <3>1
    <3>3. buckets' = [b2 EXCEPT ![p].data = -1]
      BY <2>2
    <3> HIDE DEF b1
    <3>4. /\ b2 \in [Index -> B]
          /\ \A i \in Index :
                /\ b2[i].key = IF i = p THEN Free ELSE b1[i].key
                /\ b2[i].data = b1[i].data /\ b2[i].hopinfo = b1[i].hopinfo
      BY <2>1, <3>2
    <3> HIDE DEF b2
    <3>5. /\ buckets' \in [Index -> B]
          /\ \A i \in Index :
                /\ buckets'[i].data = IF i = p THEN -1 ELSE b2[i].data
                /\ buckets'[i].key = b2[i].key /\ buckets'[i].hopinfo = b2[i].hopinfo
      BY <2>1, <3>3, <3>4
    <3> QED
      BY <3>2, <3>4, <3>5
  <2>4. \A q \in Keys : dict'[q] = IF q = k THEN Absent ELSE dict[q]
    BY <1>1, <2>2 DEF TypeOK
  <2>5. TypeOK'
    <3>1. dict' \in [Keys -> Values \cup {Absent}]
      BY <1>1, <2>2 DEF TypeOK
    <3> QED
      BY <1>1, <2>2, <2>3, <3>1 DEF TypeOK
  <2>6. HandInv'
    BY <2>2 DEF HandInv
  <2>7. KeptInv'
    BY <1>1, <2>1, <2>2, <2>3, <2>4 DEF KeptInv
  <2>8. PlainInv'
    <3> SUFFICES ASSUME ~displaced PROVE PlainInv'
      BY <2>2 DEF PlainInv
    <3>1. ASSUME NEW i \in Index PROVE IsPlaced(i)'
      <4> SUFFICES ASSUME i # p, buckets[i].key # Free PROVE IsPlaced(i)'
        BY <2>3 DEF IsPlaced
      <4> DEFINE q == buckets[i].key
      <4>1. q \in Keys /\ q # k
        BY <1>1, <2>1, Parts DEF PlainInv
      <4>2. /\ buckets'[i].key = q /\ buckets'[i].data = buckets[i].data
            /\ dict'[q] = dict[q]
        BY <2>3, <2>4, <4>1
      <4>3. /\ dict[q] = buckets[i].data
            /\ i - Home(q) \in Hops
            /\ i - Home(q) \in buckets[Home(q)].hopinfo
        BY <1>1 DEF PlainInv, IsPlaced
      <4>4. Home(q) = h => i - Home(q) # o
        BY <2>1 DEF Index
      <4>5. i - Home(q) \in buckets'[Home(q)].hopinfo
        BY <2>3, <4>1, <4>3, <4>4, HomeIsIndex
      <4>6. Home(buckets'[i].key) = Home(q)
        BY <4>2
      <4> HIDE DEF q
      <4> QED
        BY <4>2, <4>3, <4>5, <4>6 DEF IsPlaced, Home
    <3> QED
      BY <1>1, <2>2, <2>3, <3>1 DEF PlainInv
  <2> QED
    BY <2>5, <2>6, <2>7, <2>8 DEF IInv
<1> QED
  BY <1>2, <1>3

\* What an insertion starts with: a free bucket at or behind the key's home.
LEMMA StartInsertKeeps ==
    ASSUME IInv, NEW k \in Keys, NEW v \in Values, StartInsert(k, v)
    PROVE  IInv'
<1>1. TypeOK /\ HandInv /\ KeptInv /\ PlainInv
  BY DEF IInv
<1> DEFINE at == Min(FreeFor(k, buckets))
<1>2. /\ FreeFor(k, buckets) # {} /\ dict[k] = Absent
      /\ insert = NoInsert
      /\ insert' = [key |-> k, data |-> v, at |-> at]
      /\ UNCHANGED <<buckets, dict, displaced>>
  BY DEF StartInsert
<1>3. at \in FreeFor(k, buckets)
  <2>1. FreeFor(k, buckets) \subseteq Nat
    BY DEF FreeFor, Index
  <2> QED
    BY <1>2, <2>1, MinIsMember
<1> HIDE DEF at
<1>4. at \in Index /\ at >= Home(k) /\ buckets[at].key = Free
  BY <1>3 DEF FreeFor
<1>5. TypeOK'
  BY <1>1, <1>2, <1>4 DEF TypeOK
<1>6. HandInv'
  BY <1>2, <1>4 DEF HandInv, Home
<1>7. KeptInv'
  <2> SUFFICES ASSUME NEW q \in Keys, dict[q] # Absent
               PROVE  \E i \in Index : /\ i # at
                                       /\ buckets[i].key = q
                                       /\ buckets[i].data = dict[q]
    BY <1>2 DEF KeptInv
  <2>1. PICK i \in Index : buckets[i].key = q /\ buckets[i].data = dict[q]
    BY <1>1 DEF KeptInv
  <2>2. q # Free
    BY DEF Free
  <2> QED
    BY <1>4, <2>1, <2>2
<1>8. PlainInv'
  BY <1>1, <1>2, <1>4 DEF PlainInv, IsPlaced, Home
<1> QED
  BY <1>5, <1>6, <1>7, <1>8 DEF IInv

\* A displacement copies a key to the bucket in hand, and takes the bucket it
\* was in, which lies behind the home of the key to be inserted, for that one.
LEMMA DisplaceKeeps ==
    ASSUME IInv, Displace
    PROVE  IInv'
<1>1. TypeOK /\ HandInv /\ KeptInv /\ PlainInv
  BY DEF IInv
<1> DEFINE i == insert.at
           j == Min(Movable)
           off == Min(buckets[i - j].hopinfo)
           src == i - j + off
<1>2. /\ insert # NoInsert /\ TooFar /\ Movable # {}
      /\ buckets' = [buckets EXCEPT
                ![i] = [buckets[src] EXCEPT !.hopinfo = buckets[i].hopinfo],
                ![i - j].hopinfo = (@ \ {off}) \cup {j}]
      /\ insert' = [insert EXCEPT !.at = src]
      /\ displaced' = TRUE /\ dict' = dict
  BY DEF Displace, DisplaceFrom
<1>3. j \in Movable
  <2>1. Movable \subseteq Nat
    BY DEF Movable
  <2> QED
    BY <1>2, <2>1, MinIsMember
<1>4. /\ j \in 1 .. HopSize - 1
      /\ buckets[i - j].hopinfo # {} /\ off < j
  BY <1>3 DEF Movable
<1>5. /\ insert.key \in Keys /\ insert.data \in Values /\ i \in Index
      /\ insert = [key |-> insert.key, data |-> insert.data, at |-> i]
  BY <1>1, <1>2, HandParts
<1> DEFINE home == Home(insert.key)
<1>6. home \in Index /\ i - home >= HopSize
  BY <1>2, <1>5, HomeIsIndex DEF TooFar
<1> HIDE DEF i, j, off, src, home
<1>7. i - j \in Index
  BY <1>4, <1>5, <1>6 DEF Index
<1>8. off \in Nat
  <2>1. buckets[i - j].hopinfo \in SUBSET Bits
    BY <1>1, <1>7, Parts
  <2>2. buckets[i - j].hopinfo \subseteq Nat
    BY <2>1 DEF Bits
  <2> QED
    BY <1>4, <2>2, MinIsMember DEF off
<1>9. src \in Index /\ src < i /\ src >= home
  BY <1>4, <1>5, <1>6, <1>7, <1>8 DEF Index, src
<1> DEFINE B == [key : Keys \cup {Free}, data : Values \cup {-1},
                 header_version : -1 .. MaxVersion, c_ver : 0 .. CVer - 1,
                 lock : {-1, 0}, hopinfo : SUBSET Bits]
           r == [buckets[src] EXCEPT !.hopinfo = buckets[i].hopinfo]
           b1 == [buckets EXCEPT ![i] = r]
<1>10. buckets \in [Index -> B] /\ buckets[src] \in B
  BY <1>1, <1>9 DEF TypeOK
<1>11. r \in B /\ r.key = buckets[src].key /\ r.data = buckets[src].data
  BY <1>1, <1>5, <1>10, Parts
<1>12. /\ b1 \in [Index -> B]
       /\ \A n \in Index :
            /\ b1[n].key = IF n = i THEN buckets[src].key ELSE buckets[n].key
            /\ b1[n].data = IF n = i THEN buckets[src].data ELSE buckets[n].data
  <2> HIDE DEF r
  <2> QED
    BY <1>5, <1>10, <1>11
<1>13. /\ buckets' \in [Index -> B]
       /\ \A n \in Index : buckets'[n].key = b1[n].key /\ buckets'[n].data = b1[n].data
  <2>1. buckets' = [b1 EXCEPT ![i - j].hopinfo = (@ \ {off}) \cup {j}]
    BY <1>2
  <2> HIDE DEF b1
  <2>2. b1[i - j].hopinfo \in SUBSET Bits
    BY <1>7, <1>12
  <2>3. (b1[i - j].hopinfo \ {off}) \cup {j} \in SUBSET Bits
    BY <1>4, <2>2 DEF Bits
  <2> QED
    BY <1>7, <1>12, <2>1, <2>3
<1> HIDE DEF b1
<1>14. insert' = [key |-> insert.key, data |-> insert.data, at |-> src]
  BY <1>2, <1>5
<1>15. TypeOK'
  BY <1>1, <1>2, <1>5, <1>9, <1>13, <1>14 DEF TypeOK
<1>16. HandInv'
  BY <1>9, <1>14 DEF HandInv, home, Home
<1>17. KeptInv'
  <2> SUFFICES ASSUME NEW q \in Keys, dict[q] # Absent
               PROVE  \E n \in Index : /\ n # src
                                       /\ buckets'[n].key = q
                                       /\ buckets'[n].data = dict[q]
    BY <1>2, <1>14 DEF KeptInv
  <2>1. PICK n \in Index : n # i /\ buckets[n].key = q /\ buckets[n].data = dict[q]
    BY <1>1 DEF KeptInv, i
  <2>2. CASE n = src
    BY <1>5, <1>9, <1>12, <1>13, <2>1, <2>2
  <2>3. CASE n # src
    BY <1>12, <1>13, <2>1, <2>3
  <2> QED
    BY <2>2, <2>3
<1>18. PlainInv'
  BY <1>2 DEF PlainInv
<1> QED
  BY <1>15, <1>16, <1>17, <1>18 DEF IInv

\* An insertion that fails leaves what it has displaced.
LEMMA GiveUpKeeps ==
    ASSUME IInv, GiveUp
    PROVE  IInv'
<1>1. TypeOK /\ HandInv /\ KeptInv /\ PlainInv
  BY DEF IInv
<1>2. insert' = NoInsert /\ UNCHANGED <<buckets, dict, displaced>>
  BY DEF GiveUp
<1>3. TypeOK' /\ HandInv'
  BY <1>1, <1>2 DEF TypeOK, HandInv
<1>4. KeptInv'
  <2>1. insert'.at \notin Index
    BY <1>2 DEF NoInsert, Free, Index
  <2> QED
    BY <1>1, <1>2, <2>1 DEF KeptInv
<1>5. PlainInv'
  BY <1>1, <1>2 DEF PlainInv, IsPlaced, Home
<1> QED
  BY <1>3, <1>4, <1>5 DEF IInv

\* The key is written into the bucket in hand, and its home's bit is set.
LEMMA FinishInsertKeeps ==
    ASSUME IInv, FinishInsert
    PROVE  IInv'
<1>1. TypeOK /\ HandInv /\ KeptInv /\ PlainInv
  BY DEF IInv
<1> DEFINE at == insert.at
           k == insert.key
           v == insert.data
           home == Home(k)
           off == at - home
           r == Written(buckets[at], insert)
           filled == [buckets EXCEPT ![at] = r]
<1>2. /\ insert # NoInsert /\ ~TooFar
      /\ buckets' = [filled EXCEPT ![home].hopinfo = @ \cup {off}]
      /\ dict' = [dict EXCEPT ![k] = v]
      /\ insert' = NoInsert /\ displaced' = displaced
  BY DEF FinishInsert
<1>3. k \in Keys /\ v \in Values /\ at \in Index
  BY <1>1, <1>2, HandParts
<1>4. home \in Index
  BY <1>3, HomeIsIndex
<1>5. off < HopSize /\ at >= home
  BY <1>1, <1>2, <1>3, <1>4 DEF TooFar, HandInv, Index
<1>6. off \in Hops /\ off \in Bits /\ at - home = off
  BY <1>3, <1>4, <1>5 DEF Hops, Bits, Index
<1> DEFINE B == [key : Keys \cup {Free}, data : Values \cup {-1},
                 header_version : -1 .. MaxVersion, c_ver : 0 .. CVer - 1,
                 lock : {-1, 0}, hopinfo : SUBSET Bits]
<1>7. buckets \in [Index -> B] /\ buckets[at] \in B
  BY <1>1, <1>3 DEF TypeOK
<1>8. r \in B /\ r.key = k /\ r.data = v /\ r.hopinfo = buckets[at].hopinfo
  <2>1. 1 \in -1 .. MaxVersion /\ 1 \in 0 .. CVer - 1 /\ 0 \in {-1, 0}
    OBVIOUS
  <2>2. r = [buckets[at] EXCEPT !.header_version = 1, !.lock = 0, !.c_ver = 1,
                                !.key = k, !.data = v]
    BY DEF Written
  <2> HIDE DEF r, at, k, v
  <2> QED
    BY <1>3, <1>7, <2>1, <2>2
<1>9. /\ filled \in [Index -> B]
      /\ \A n \in Index :
            /\ filled[n].key = IF n = at THEN k ELSE buckets[n].key
            /\ filled[n].data = IF n = at THEN v ELSE buckets[n].data
            /\ filled[n].hopinfo = buckets[n].hopinfo
  <2> HIDE DEF r, at, k, v
  <2> QED
    BY <1>3, <1>7, <1>8
<1> HIDE DEF filled, r, at, k, v, home, off
<1>10. /\ buckets' \in [Index -> B]
       /\ \A n \in Index :
            /\ buckets'[n].key = filled[n].key /\ buckets'[n].data = filled[n].data
            /\ buckets'[n].hopinfo = IF n = home THEN filled[n].hopinfo \cup {off}
                                                 ELSE filled[n].hopinfo
  <2>1. filled[home].hopinfo \in SUBSET Bits
    BY <1>4, <1>9
  <2>2. filled[home].hopinfo \cup {off} \in SUBSET Bits
    BY <1>6, <2>1
  <2>3. buckets' \in [Index -> B]
    BY <1>2, <1>4, <1>9, <2>2
  <2>4. ASSUME NEW n \in Index
        PROVE  /\ buckets'[n].key = filled[n].key /\ buckets'[n].data = filled[n].data
               /\ buckets'[n].hopinfo = IF n = home THEN filled[n].hopinfo \cup {off}
                                                    ELSE filled[n].hopinfo
    <3>1. filled[n] \in B
      BY <1>9
    <3>2. CASE n = home
      <4>1. buckets'[n] = [filled[n] EXCEPT !.hopinfo = @ \cup {off}]
        BY <1>2, <1>4, <1>9, <3>2
      <4> QED
        BY <3>1, <3>2, <4>1
    <3>3. CASE n # home
      BY <1>2, <1>4, <1>9, <3>3
    <3> QED
      BY <3>2, <3>3
  <2> QED
    BY <2>3, <2>4
<1>11. \A q \in Keys : dict'[q] = IF q = k THEN v ELSE dict[q]
  BY <1>1, <1>2 DEF TypeOK
<1>12. TypeOK'
  <2>1. dict' \in [Keys -> Values \cup {Absent}]
    BY <1>1, <1>2, <1>3 DEF TypeOK
  <2> QED
    BY <1>1, <1>2, <1>10, <2>1 DEF TypeOK
<1>13. HandInv'
  BY <1>2 DEF HandInv
<1>14. KeptInv'
  <2> SUFFICES ASSUME NEW q \in Keys, dict'[q] # Absent
               PROVE  \E n \in Index : /\ n # insert'.at
                                       /\ buckets'[n].key = q
                                       /\ buckets'[n].data = dict'[q]
    BY DEF KeptInv
  <2>1. insert'.at \notin Index
    BY <1>2 DEF NoInsert, Free, Index
  <2>2. CASE q = k
    BY <1>3, <1>9, <1>10, <1>11, <2>1, <2>2
  <2>3. CASE q # k
    <3>1. dict'[q] = dict[q]
      BY <1>11, <2>3
    <3>2. PICK n \in Index : n # at /\ buckets[n].key = q /\ buckets[n].data = dict[q]
      BY <1>1, <3>1 DEF KeptInv, at
    <3> QED
      BY <1>9, <1>10, <2>1, <3>1, <3>2
  <2> QED
    BY <2>2, <2>3
<1>15. PlainInv'
  <2> SUFFICES ASSUME ~displaced PROVE PlainInv'
    BY <1>2 DEF PlainInv
  <2>1. /\ \A n \in Index : IsPlaced(n)
        /\ \A n, m \in Index :
              buckets[n].key # Free /\ buckets[n].key = buckets[m].key => n = m
        /\ dict[k] = Absent
    BY <1>1, <1>2 DEF PlainInv, k
  <2>2. \A n \in Index : n # at => buckets'[n].key = buckets[n].key /\ buckets'[n].key # k
    <3> SUFFICES ASSUME NEW n \in Index, n # at
                 PROVE  buckets'[n].key = buckets[n].key /\ buckets[n].key # k
      OBVIOUS
    <3>1. k # Free
      BY <1>3 DEF Free
    <3>2. buckets[n].key # Free => dict[buckets[n].key] # Absent
      BY <1>1, <2>1, PlacedIsPresent
    <3> QED
      BY <1>9, <1>10, <2>1, <3>1, <3>2
  <2>3. buckets'[at].key = k
    BY <1>3, <1>9, <1>10
  <2>4. ASSUME NEW n \in Index PROVE IsPlaced(n)'
    <3>1. CASE n = at
      <4>1. buckets'[at].data = v /\ dict'[k] = v
        BY <1>3, <1>9, <1>10, <1>11
      <4>2. off \in buckets'[home].hopinfo
        BY <1>4, <1>10
      <4>3. home = Home(k) /\ Home(k) = k % Size
        BY DEF home, Home
      <4> QED
        BY <1>6, <2>3, <3>1, <4>1, <4>2, <4>3 DEF IsPlaced, Home
    <3>2. CASE n # at
      <4> SUFFICES ASSUME buckets[n].key # Free PROVE IsPlaced(n)'
        BY <2>2, <3>2 DEF IsPlaced
      <4> DEFINE q == buckets[n].key
      <4>1. q \in Keys /\ q # k /\ buckets'[n].key = q
        BY <1>1, <2>2, <3>2, Parts
      <4>2. buckets'[n].data = buckets[n].data /\ dict'[q] = dict[q]
        BY <1>9, <1>10, <1>11, <3>2, <4>1
      <4>3. /\ dict[q] = buckets[n].data
            /\ n - Home(q) \in Hops
            /\ n - Home(q) \in buckets[Home(q)].hopinfo
        BY <2>1 DEF IsPlaced
      <4>4. n - Home(q) \in buckets'[Home(q)].hopinfo
        BY <1>9, <1>10, <4>1, <4>3, HomeIsIndex
      <4> HIDE DEF q
      <4> QED
        BY <4>1, <4>2, <4>3, <4>4 DEF IsPlaced, Home
    <3> QED
      BY <3>1, <3>2
  <2>5. \A n, m \in Index :
            buckets'[n].key # Free /\ buckets'[n].key = buckets'[m].key => n = m
    BY <2>1, <2>2, <2>3
  <2> QED
    BY <1>2, <2>4, <2>5 DEF PlainInv
<1> QED
  BY <1>12, <1>13, <1>14, <1>15 DEF IInv

LEMMA StepKeeps == IInv /\ [Next]_vars => IInv'
<1> SUFFICES ASSUME IInv, [Next]_vars PROVE IInv'
  OBVIOUS
<1>1. ASSUME NEW k \in Keys, NEW v \in Values, Update(k, v) \/ StartInsert(k, v)
      PROVE  IInv'
  BY <1>1, UpdateKeeps, StartInsertKeeps
<1>2. ASSUME NEW k \in Keys, Remove(k) PROVE IInv'
  BY <1>2, RemoveKeeps
<1>3. CASE Displace \/ GiveUp \/ FinishInsert
  BY <1>3, DisplaceKeeps, GiveUpKeeps, FinishInsertKeeps
<1>4. CASE Resize \/ UNCHANGED vars
  BY <1>4, StutterKeeps DEF Resize
<1> QED
  BY <1>1, <1>2, <1>3, <1>4 DEF Next

\* The inductive invariant of the table: IInv holds of every state that calls
\* of hopscotch_insert, _update, _remove and _resize can reach.
THEOREM Invariance == Spec => []IInv
<1>1. Init => IInv
  BY InitEstablishes
<1>2. IInv /\ [Next]_vars => IInv'
  BY StepKeeps
<1> QED
  BY <1>1, <1>2, PTL DEF Spec

\* Types: no displacement of hopscotch_insert leaves the table or the bitmap,
\* whatever the sizes of the table and of the neighbourhood.
THEOREM TypeCorrect == Spec => []TypeOK
<1>1. IInv => TypeOK
  BY DEF IInv
<1> QED
  BY <1>1, Invariance, PTL

\* Displacement may put a key where hopscotch_lookup does not go, but a key
\* that was inserted and not removed is in some bucket with its last data.
THEOREM KeysAreNotDropped == Spec => []NothingIsDropped
<1>1. IInv => NothingIsDropped
  BY DEF IInv, KeptInv, NothingIsDropped
<1> QED
  BY <1>1, Invariance, PTL

\* Until an insertion displaces a key, hopscotch_lookup returns what the calls
\* that succeeded say: the last data, or nothing for a key that is not there.
THEOREM LookupFindsLast == Spec => []MapUntilDisplaced
<1>1. ASSUME IInv, insert = NoInsert, ~displaced, NEW k \in Keys
      PROVE  Lookup(k) = dict[k]
  <2>1. /\ TypeOK /\ KeptInv
        /\ \A i \in Index : IsPlaced(i)
        /\ \A i, j \in Index :
              buckets[i].key # Free /\ buckets[i].key = buckets[j].key => i = j
    BY <1>1 DEF IInv, PlainInv
  <2>2. k # Free
    BY DEF Free
  <2>3. CASE Found(k)
    <3>1. Place(k) \in Index /\ buckets[Place(k)].key = k
      BY <2>3, PlaceHoldsKey
    <3>2. dict[k] = buckets[Place(k)].data
      BY <2>1, <2>2, <3>1 DEF IsPlaced
    <3> QED
      BY <2>3, <3>2 DEF Lookup
  <2>4. CASE ~Found(k)
    <3>1. ASSUME dict[k] # Absent PROVE FALSE
      <4>1. PICK i \in Index : buckets[i].key = k
        BY <2>1, <3>1 DEF KeptInv
      <4>2. /\ i - Home(k) \in Hops
            /\ i - Home(k) \in buckets[Home(k)].hopinfo
        BY <2>1, <2>2, <4>1 DEF IsPlaced
      <4>3. i \in Int /\ Home(k) \in Int
        BY HomeIsIndex DEF Index
      <4>4. Home(k) + (i - Home(k)) = i
        BY <4>3
      <4>5. i - Home(k) \in Offsets(k)
        BY <4>1, <4>2, <4>4 DEF Offsets
      <4> QED
        BY <2>4, <4>5 DEF Found
    <3> QED
      BY <2>4, <3>1 DEF Lookup
  <2> QED
    BY <2>3, <2>4
<1>2. IInv => MapUntilDisplaced
  BY <1>1 DEF MapUntilDisplaced
<1> QED
  BY <1>2, Invariance, PTL
=============================================================================
