--------------------------- MODULE HydraHashProofs ---------------------------
(***************************************************************************)
(* Theorems about HydraHash, for any numbers of buckets and slots, any     *)
(* keys and any number of updates: a key other than 0 is in one slot of    *)
(* its bucket, which no unused slot precedes, and each slot has an item of *)
(* its own, so that filling the next item of the pool changes no other     *)
(* key.                                                                    *)
(***************************************************************************)
EXTENDS HydraHash, TLAPS

\* Used slots come first, and a slot that was freed points to a cleared item.
SlotInv ==
    \A b \in Bucket, s \in Slot :
        /\ slot[b][s].busy = 1 => slot[b][s].addr # Null
        /\ slot[b][s].addr = Null => \A t \in Slot : s < t => slot[b][t].addr = Null
        /\ slot[b][s].busy = 0 /\ slot[b][s].addr # Null => item[slot[b][s].addr].key = 0

\* An update has an item left, and goes to the slot where its key is found.
UpdateInv ==
    update # NoUpdate => index_ < MaxItems /\ update.at \in Holders(update.key)

\* A key of the map is in one slot, with the data of the map.
HoldersInv ==
    \A k \in Keys \ {0} :
        /\ dict[k] = Missing => Holders(k) = {}
        /\ dict[k] # Missing =>
            \E s \in Slot : Holders(k) = {s} /\ item[slot[Home(k)][s].addr].data = dict[k]

IInv == TypeOK /\ ItemsAreOwned /\ SlotInv /\ UpdateInv /\ HoldersInv

-----------------------------------------------------------------------------
USE BucketsAssumption, KeysAssumption, LoadedAssumption, BoundAssumption

\* Slots and items, one by one.
LEMMA Parts ==
    ASSUME TypeOK
    PROVE  /\ \A b \in Bucket, s \in Slot :
                /\ slot[b][s] \in [addr : Addr \cup {Null}, busy : {0, 1}]
                /\ slot[b][s].addr \in Addr \cup {Null} /\ slot[b][s].busy \in {0, 1}
           /\ \A a \in Addr : item[a] \in Item /\ item[a].key \in Nat /\ item[a].data \in Nat
           /\ Null \notin Addr /\ Missing \notin Values /\ index_ \in Nat
<1>1. ASSUME NEW b \in Bucket, NEW s \in Slot
      PROVE  slot[b][s] \in [addr : Addr \cup {Null}, busy : {0, 1}]
  BY DEF TypeOK
<1>2. ASSUME NEW a \in Addr PROVE item[a] \in Item
  BY DEF TypeOK
<1>3. Null \notin Addr /\ Missing \notin Values
  BY DEF Null, Addr, Missing
<1>4. index_ \in Nat
  BY DEF TypeOK
<1> QED
  BY <1>1, <1>2, <1>3, <1>4 DEF Item

\* calc_hash gives a bucket.
LEMMA Homes == \A k \in Nat : Home(k) \in Bucket
  BY DEF Home, Bucket

\* A key comes to a slot with the next item of the pool: the slot is the key's
\* own or nobody's, and no unused slot precedes it.
LEMMA ComingKeeps ==
    ASSUME IInv, NEW k \in Keys, NEW v \in Values, NEW s \in Slot, index_ < MaxItems,
           slot'[Home(k)][s].addr = index_,
           slot'[Home(k)][s].busy = 1 \/ k = 0,
           \A c \in Bucket, t \in Slot : c # Home(k) \/ t # s => slot'[c][t] = slot[c][t],
           item'[index_].key = k, item'[index_].data = v,
           \A a \in Addr \ {index_} : item'[a] = item[a],
           index_' = index_ + 1, dict' = [dict EXCEPT ![k] = v], update' = NoUpdate,
           \A t \in Slot : t < s => slot[Home(k)][t].addr # Null,
           \A j \in Keys \ {0, k} : Home(j) = Home(k) => s \notin Holders(j),
           k # 0 => Holders(k) \subseteq {s}
    PROVE  ItemsAreOwned' /\ SlotInv' /\ UpdateInv' /\ HoldersInv'
<1>1. TypeOK /\ ItemsAreOwned /\ SlotInv /\ HoldersInv
  BY DEF IInv
<1>2. /\ \A c \in Bucket, t \in Slot : slot[c][t].addr \in Addr \cup {Null}
      /\ Null \notin Addr /\ index_ \in Addr /\ index_ \in Nat /\ k \in Nat
  BY <1>1, Parts DEF Addr
<1>3. Home(k) \in Bucket
  BY <1>2, Homes
<1>4. \A c \in Bucket, t \in Slot :
        slot[c][t].addr # Null => slot[c][t].addr < index_ /\ slot[c][t].addr # index_
                                  /\ item'[slot[c][t].addr] = item[slot[c][t].addr]
  <2>1. ASSUME NEW c \in Bucket, NEW t \in Slot, slot[c][t].addr # Null
        PROVE  slot[c][t].addr < index_ /\ slot[c][t].addr \in Addr
    BY <1>1, <1>2, <2>1 DEF ItemsAreOwned
  <2>2. \A a \in Addr : a < index_ => a # index_
    BY <1>2
  <2> QED
    BY <2>1, <2>2
<1>5. ItemsAreOwned'
  <2>1. ASSUME NEW c \in Bucket, NEW t \in Slot, slot'[c][t].addr # Null
        PROVE  slot'[c][t].addr < index_ + 1
               /\ (slot'[c][t].addr = index_ => c = Home(k) /\ t = s)
    <3>1. CASE c = Home(k) /\ t = s
      BY <1>2, <3>1
    <3>2. CASE c # Home(k) \/ t # s
      <4>1. slot'[c][t] = slot[c][t] /\ slot[c][t].addr < index_ /\ slot[c][t].addr # index_
            /\ slot[c][t].addr \in Addr
        BY <1>2, <1>4, <2>1, <3>2
      <4> QED
        BY <1>2, <4>1 DEF Addr
    <3> QED
      BY <3>1, <3>2
  <2>2. ASSUME NEW c \in Bucket, NEW t \in Slot, NEW d \in Bucket, NEW u \in Slot,
               slot'[c][t].addr # Null, slot'[c][t].addr = slot'[d][u].addr
        PROVE  c = d /\ t = u
    <3>1. CASE slot'[c][t].addr = index_
      <4>1. c = Home(k) /\ t = s
        BY <2>1, <2>2, <3>1
      <4>2. d = Home(k) /\ u = s
        <5>1. slot'[d][u].addr # Null /\ slot'[d][u].addr = index_
          BY <2>2, <3>1
        <5> QED
          BY <2>1, <5>1
      <4> QED
        BY <4>1, <4>2
    <3>2. CASE slot'[c][t].addr # index_
      <4>1. slot'[c][t] = slot[c][t] /\ slot'[d][u] = slot[d][u]
        BY <2>2, <3>2
      <4> QED
        BY <1>1, <2>2, <4>1 DEF ItemsAreOwned
    <3> QED
      BY <3>1, <3>2
  <2> QED
    BY <2>1, <2>2 DEF ItemsAreOwned
<1>6. SlotInv'
  <2>1. ASSUME NEW c \in Bucket, NEW t \in Slot, ~(c = Home(k) /\ t = s)
        PROVE  /\ slot'[c][t].busy = 1 => slot'[c][t].addr # Null
               /\ slot'[c][t].addr = Null => \A u \in Slot : t < u => slot'[c][u].addr = Null
               /\ slot'[c][t].busy = 0 /\ slot'[c][t].addr # Null
                    => item'[slot'[c][t].addr].key = 0
    <3>1. slot'[c][t] = slot[c][t]
      BY <2>1
    <3>2. ASSUME slot[c][t].addr = Null, NEW u \in Slot, t < u PROVE slot'[c][u].addr = Null
      <4>1. slot[c][u].addr = Null /\ ~(c = Home(k) /\ u = s)
        BY <1>1, <3>2 DEF SlotInv
      <4> QED
        BY <4>1
    <3> QED
      BY <1>1, <1>4, <3>1, <3>2 DEF SlotInv
  <2>2. slot'[Home(k)][s].addr # Null
    BY <1>2
  <2>3. slot'[Home(k)][s].busy = 0 => item'[slot'[Home(k)][s].addr].key = 0
    OBVIOUS
  <2> QED
    BY <2>1, <2>2, <2>3 DEF SlotInv
<1>7. ASSUME NEW j \in Keys, j # k, j # 0
      PROVE  Holders(j)' = Holders(j)
  <2>1. Home(j) \in Bucket
    BY Homes
  <2>2. ASSUME NEW t \in Slot PROVE t \in Holders(j)' <=> t \in Holders(j)
    <3>1. CASE Home(j) = Home(k) /\ t = s
      BY <1>7, <3>1 DEF Holders
    <3>2. CASE ~(Home(j) = Home(k) /\ t = s)
      <4>1. slot'[Home(j)][t] = slot[Home(j)][t]
        BY <2>1, <3>2
      <4> QED
        BY <1>4, <2>1, <4>1 DEF Holders
    <3> QED
      BY <3>1, <3>2
  <2> QED
    BY <2>2 DEF Holders
<1>8. k # 0 => Holders(k)' = {s}
  <2>1. s \in Holders(k)'
    BY <1>2 DEF Holders
  <2>2. ASSUME k # 0, NEW t \in Slot, t # s PROVE t \notin Holders(k)'
    <3>1. slot'[Home(k)][t] = slot[Home(k)][t] /\ t \notin Holders(k)
      BY <1>3, <2>2
    <3> QED
      BY <1>3, <1>4, <3>1 DEF Holders
  <2> QED
    BY <2>1, <2>2 DEF Holders
<1>9. HoldersInv'
  <2>0. dict \in [Keys -> Values \cup {Missing}] /\ Missing \notin Values
    BY <1>1, Parts DEF TypeOK
  <2>1. ASSUME NEW j \in Keys \ {0}, j # k
        PROVE  /\ dict'[j] = Missing => Holders(j)' = {}
               /\ dict'[j] # Missing =>
                    \E t \in Slot : Holders(j)' = {t}
                                    /\ item'[slot'[Home(j)][t].addr].data = dict'[j]
    <3>1. dict'[j] = dict[j] /\ Holders(j)' = Holders(j) /\ Home(j) \in Bucket
      BY <1>7, <2>0, <2>1, Homes
    <3>2. ASSUME dict[j] # Missing
          PROVE  \E t \in Slot : Holders(j) = {t} /\ item'[slot'[Home(j)][t].addr].data = dict[j]
      <4>1. PICK t \in Slot : Holders(j) = {t} /\ item[slot[Home(j)][t].addr].data = dict[j]
        BY <1>1, <3>2 DEF HoldersInv
      <4>2. slot[Home(j)][t].addr # Null /\ (Home(j) = Home(k) => t # s)
        <5>1. t \in Holders(j) /\ (Home(j) = Home(k) => s \notin Holders(j))
          BY <2>1, <4>1
        <5> QED
          BY <5>1 DEF Holders
      <4>3. slot'[Home(j)][t] = slot[Home(j)][t]
        BY <3>1, <4>1, <4>2
      <4>4. item'[slot[Home(j)][t].addr] = item[slot[Home(j)][t].addr]
        BY <1>4, <3>1, <4>2
      <4> QED
        BY <4>1, <4>3, <4>4
    <3> QED
      BY <1>1, <3>1, <3>2 DEF HoldersInv
  <2>2. ASSUME k # 0
        PROVE  /\ dict'[k] # Missing /\ Holders(k)' = {s}
               /\ item'[slot'[Home(k)][s].addr].data = dict'[k]
    BY <1>8, <2>0, <2>2
  <2> QED
    BY <2>1, <2>2 DEF HoldersInv
<1>10. UpdateInv'
  BY DEF UpdateInv
<1> QED
  BY <1>5, <1>6, <1>9, <1>10

LEMMA InsertKeeps ==
    ASSUME IInv, NEW k \in Keys, NEW v \in Values, Insert(k, v)
    PROVE  IInv'
<1>1. TypeOK /\ SlotInv /\ HoldersInv
  BY DEF IInv
<1>2. PICK s \in Slot :
        /\ IsFirstFree(Home(k), s)
        /\ slot' = [slot EXCEPT ![Home(k)][s] = [addr |-> index_, busy |-> 1]]
  BY DEF Insert
<1>3. /\ dict[k] = Missing /\ index_ < MaxItems /\ update' = update /\ update = NoUpdate
      /\ item' = [item EXCEPT ![index_] = [key |-> k, flag |-> 0, data |-> v]]
      /\ index_' = index_ + 1 /\ dict' = [dict EXCEPT ![k] = v] /\ crashed' = crashed
  BY DEF Insert
<1>4. k \in Nat /\ v \in Nat /\ Home(k) \in Bucket /\ index_ \in Addr /\ index_ + 1 \in 0 .. MaxItems
  BY <1>1, <1>3, Homes DEF TypeOK, Addr
<1>5. /\ slot' \in [Bucket -> [Slot -> [addr : Addr \cup {Null}, busy : {0, 1}]]]
      /\ slot'[Home(k)][s] = [addr |-> index_, busy |-> 1]
      /\ \A c \in Bucket, t \in Slot : c # Home(k) \/ t # s => slot'[c][t] = slot[c][t]
  <2>1. slot \in [Bucket -> [Slot -> [addr : Addr \cup {Null}, busy : {0, 1}]]]
    BY <1>1 DEF TypeOK
  <2>2. [addr |-> index_, busy |-> 1] \in [addr : Addr \cup {Null}, busy : {0, 1}]
    BY <1>4
  <2> QED
    BY <1>2, <1>4, <2>1, <2>2
<1>6. /\ item' \in [Addr -> Item] /\ item'[index_] = [key |-> k, flag |-> 0, data |-> v]
      /\ \A a \in Addr \ {index_} : item'[a] = item[a]
  <2>1. item \in [Addr -> Item] /\ [key |-> k, flag |-> 0, data |-> v] \in Item
    BY <1>1, <1>4 DEF TypeOK, Item
  <2> QED
    BY <1>3, <1>4, <2>1
<1>7. dict' \in [Keys -> Values \cup {Missing}]
  BY <1>1, <1>3 DEF TypeOK
<1>8. TypeOK'
  BY <1>1, <1>3, <1>4, <1>5, <1>6, <1>7 DEF TypeOK
<1>9. \A t \in Slot : t < s => slot[Home(k)][t].addr # Null
  BY <1>1, <1>2, <1>4 DEF IsFirstFree, SlotInv
<1>10. \A j \in Keys \ {0, k} : Home(j) = Home(k) => s \notin Holders(j)
  <2>1. slot[Home(k)][s].addr # Null => item[slot[Home(k)][s].addr].key = 0
    BY <1>1, <1>2, <1>4 DEF IsFirstFree, SlotInv
  <2> QED
    BY <2>1 DEF Holders
<1>11. k # 0 => Holders(k) \subseteq {s}
  BY <1>1, <1>3 DEF HoldersInv
<1>12. slot'[Home(k)][s].addr = index_ /\ slot'[Home(k)][s].busy = 1
       /\ item'[index_].key = k /\ item'[index_].data = v /\ update' = NoUpdate
  BY <1>3, <1>5, <1>6
<1> QED
  BY <1>3, <1>5, <1>6, <1>8, <1>9, <1>10, <1>11, <1>12, ComingKeeps DEF IInv

\* The flag of an item is neither its key nor its data.
LEMMA RetireKeeps ==
    ASSUME IInv, NEW k \in Keys, NEW v \in Values, Retire(k, v)
    PROVE  IInv'
<1>1. TypeOK /\ ItemsAreOwned /\ SlotInv /\ HoldersInv
  BY DEF IInv
<1>2. PICK s \in Slot :
        /\ FindsAt(k, s)
        /\ item' = [item EXCEPT ![slot[Home(k)][s].addr].flag = 1]
        /\ update' = [key |-> k, data |-> v, at |-> s]
  BY DEF Retire
<1>3. index_ < MaxItems /\ UNCHANGED <<slot, index_, crashed, dict>>
  BY DEF Retire
<1>4. Home(k) \in Bucket /\ slot[Home(k)][s].addr \in Addr
  BY <1>1, <1>2, Homes, Parts DEF FindsAt, Holders
<1>5. /\ item' \in [Addr -> Item]
      /\ \A a \in Addr : item'[a].key = item[a].key /\ item'[a].data = item[a].data
  <2>1. item \in [Addr -> Item] /\ item[slot[Home(k)][s].addr] \in Item
    BY <1>1, <1>4 DEF TypeOK
  <2> DEFINE stale == [item[slot[Home(k)][s].addr] EXCEPT !.flag = 1]
  <2>2. stale \in Item /\ stale.key = item[slot[Home(k)][s].addr].key
        /\ stale.data = item[slot[Home(k)][s].addr].data
    BY <2>1 DEF Item
  <2>3. item' = [item EXCEPT ![slot[Home(k)][s].addr] = stale]
    BY <1>2
  <2> HIDE DEF stale
  <2> QED
    BY <1>4, <2>1, <2>2, <2>3
<1>6. TypeOK'
  BY <1>1, <1>2, <1>3, <1>5 DEF TypeOK
<1>7. \A b \in Bucket, t \in Slot : slot[b][t].addr # Null => slot[b][t].addr \in Addr
  BY <1>1, Parts
<1>8. ASSUME NEW j \in Keys PROVE Holders(j)' = Holders(j)
  <2>1. Home(j) \in Bucket
    BY Homes
  <2> QED
    BY <1>3, <1>5, <1>7, <2>1 DEF Holders
<1>9. ItemsAreOwned'
  BY <1>1, <1>3 DEF ItemsAreOwned
<1>10. SlotInv'
  BY <1>1, <1>3, <1>5, <1>7 DEF SlotInv
<1>11. UpdateInv'
  <2>1. s \in Holders(k) /\ update'.key = k /\ update'.at = s
    BY <1>2 DEF FindsAt
  <2> QED
    BY <1>3, <1>8, <2>1 DEF UpdateInv
<1>12. HoldersInv'
  <2>1. ASSUME NEW j \in Keys \ {0}, dict[j] # Missing
        PROVE  \E t \in Slot : Holders(j) = {t} /\ item'[slot[Home(j)][t].addr].data = dict[j]
    <3>1. PICK t \in Slot : Holders(j) = {t} /\ item[slot[Home(j)][t].addr].data = dict[j]
      BY <1>1, <2>1 DEF HoldersInv
    <3>2. slot[Home(j)][t].addr # Null /\ Home(j) \in Bucket
      BY <3>1, Homes DEF Holders
    <3> QED
      BY <1>5, <1>7, <3>1, <3>2
  <2> QED
    BY <1>1, <1>3, <1>8, <2>1 DEF HoldersInv
<1> QED
  BY <1>6, <1>9, <1>10, <1>11, <1>12 DEF IInv

LEMMA PublishKeeps ==
    ASSUME IInv, Publish
    PROVE  IInv'
<1>1. TypeOK /\ SlotInv /\ HoldersInv /\ UpdateInv /\ update # NoUpdate
  BY DEF IInv, Publish
<1>0. PICK k \in Keys, v \in Values, s \in Slot : update = [key |-> k, data |-> v, at |-> s]
  BY <1>1 DEF TypeOK
<1>2. k \in Keys /\ v \in Values /\ s \in Slot /\ index_ < MaxItems /\ s \in Holders(k)
  BY <1>0, <1>1 DEF UpdateInv
<1>3. /\ slot' = [slot EXCEPT ![Home(k)][s].addr = index_]
      /\ item' = [item EXCEPT ![index_].key = k, ![index_].data = v]
      /\ index_' = index_ + 1 /\ dict' = [dict EXCEPT ![k] = v] /\ update' = NoUpdate
      /\ crashed' = crashed
  BY <1>0 DEF Publish
<1>4. k \in Nat /\ v \in Nat /\ Home(k) \in Bucket /\ index_ \in Addr /\ index_ + 1 \in 0 .. MaxItems
  BY <1>1, <1>2, Homes DEF TypeOK, Addr
<1>5. /\ slot' \in [Bucket -> [Slot -> [addr : Addr \cup {Null}, busy : {0, 1}]]]
      /\ slot'[Home(k)][s].addr = index_ /\ slot'[Home(k)][s].busy = slot[Home(k)][s].busy
      /\ \A c \in Bucket, t \in Slot : c # Home(k) \/ t # s => slot'[c][t] = slot[c][t]
  <2>1. slot \in [Bucket -> [Slot -> [addr : Addr \cup {Null}, busy : {0, 1}]]]
        /\ slot[Home(k)][s] \in [addr : Addr \cup {Null}, busy : {0, 1}]
    BY <1>1, <1>2, <1>4 DEF TypeOK
  <2> DEFINE moved == [slot[Home(k)][s] EXCEPT !.addr = index_]
  <2>2. moved \in [addr : Addr \cup {Null}, busy : {0, 1}]
        /\ moved.addr = index_ /\ moved.busy = slot[Home(k)][s].busy
    BY <1>4, <2>1
  <2>3. slot' = [slot EXCEPT ![Home(k)][s] = moved]
    BY <1>3
  <2> HIDE DEF moved
  <2> QED
    BY <1>2, <1>4, <2>1, <2>2, <2>3
<1>6. /\ item' \in [Addr -> Item] /\ item'[index_].key = k /\ item'[index_].data = v
      /\ \A a \in Addr \ {index_} : item'[a] = item[a]
  <2>1. item \in [Addr -> Item] /\ item[index_] \in Item
    BY <1>1, <1>4 DEF TypeOK
  <2> DEFINE filled == [item[index_] EXCEPT !.key = k, !.data = v]
  <2>2. filled \in Item /\ filled.key = k /\ filled.data = v
    BY <1>4, <2>1 DEF Item
  <2>3. item' = [item EXCEPT ![index_] = filled]
    BY <1>3, <1>4, <2>1
  <2> HIDE DEF filled
  <2> QED
    BY <1>4, <2>1, <2>2, <2>3
<1>7. dict' \in [Keys -> Values \cup {Missing}]
  BY <1>1, <1>2, <1>3 DEF TypeOK
<1>8. TypeOK'
  BY <1>1, <1>3, <1>4, <1>5, <1>6, <1>7 DEF TypeOK
<1>9. slot[Home(k)][s].addr # Null /\ item[slot[Home(k)][s].addr].key = k
  BY <1>2 DEF Holders
<1>10. \A t \in Slot : t < s => slot[Home(k)][t].addr # Null
  BY <1>1, <1>2, <1>4, <1>9 DEF SlotInv
<1>11. \A j \in Keys \ {0, k} : Home(j) = Home(k) => s \notin Holders(j)
  BY <1>9 DEF Holders
<1>12. k # 0 => Holders(k) \subseteq {s}
  BY <1>1, <1>2 DEF HoldersInv
<1>13. slot'[Home(k)][s].busy = 1 \/ k = 0
  <2>1. slot[Home(k)][s].busy \in {0, 1}
    BY <1>1, <1>2, <1>4, Parts
  <2> QED
    BY <1>1, <1>2, <1>4, <1>5, <1>9, <2>1 DEF SlotInv
<1>14. ItemsAreOwned' /\ SlotInv' /\ UpdateInv' /\ HoldersInv'
  <2>1. /\ slot'[Home(k)][s].addr = index_ /\ item'[index_].key = k /\ item'[index_].data = v
        /\ index_' = index_ + 1 /\ dict' = [dict EXCEPT ![k] = v] /\ update' = NoUpdate
        /\ index_ < MaxItems
    BY <1>2, <1>3, <1>5, <1>6
  <2>2. /\ \A c \in Bucket, t \in Slot : c # Home(k) \/ t # s => slot'[c][t] = slot[c][t]
        /\ \A a \in Addr \ {index_} : item'[a] = item[a]
    BY <1>5, <1>6
  <2> QED
    BY <2>1, <2>2, <1>10, <1>11, <1>12, <1>13, ComingKeeps
<1> QED
  BY <1>8, <1>14 DEF IInv

\* The items that lose their key are those of the key that is deleted.
LEMMA DeleteKeeps ==
    ASSUME IInv, NEW k \in Keys, Delete(k)
    PROVE  IInv'
<1>1. TypeOK /\ ItemsAreOwned /\ SlotInv /\ HoldersInv /\ update = NoUpdate
  BY DEF IInv, Delete
<1>2. /\ slot' = [slot EXCEPT ![Home(k)] =
            [s \in Slot |-> IF s \in Holders(k) THEN [@[s] EXCEPT !.busy = 0] ELSE @[s]]]
      /\ item' = [a \in Addr |-> IF \E s \in Holders(k) : slot[Home(k)][s].addr = a
                                 THEN [item[a] EXCEPT !.key = 0] ELSE item[a]]
      /\ dict' = [dict EXCEPT ![k] = Missing] /\ UNCHANGED <<index_, update, crashed>>
  BY DEF Delete
<1>3. /\ \A b \in Bucket, s \in Slot :
            /\ slot[b][s] \in [addr : Addr \cup {Null}, busy : {0, 1}]
            /\ slot[b][s].addr # Null => slot[b][s].addr \in Addr
      /\ Home(k) \in Bucket
  BY <1>1, Parts, Homes
<1>4. /\ slot' \in [Bucket -> [Slot -> [addr : Addr \cup {Null}, busy : {0, 1}]]]
      /\ \A b \in Bucket, s \in Slot :
            /\ slot'[b][s].addr = slot[b][s].addr
            /\ slot'[b][s].busy = IF b = Home(k) /\ s \in Holders(k) THEN 0 ELSE slot[b][s].busy
  <2> DEFINE freed == [s \in Slot |-> IF s \in Holders(k) THEN [slot[Home(k)][s] EXCEPT !.busy = 0]
                                      ELSE slot[Home(k)][s]]
  <2>1. slot' = [slot EXCEPT ![Home(k)] = freed]
    BY <1>2
  <2>2. \A s \in Slot :
            /\ freed[s] \in [addr : Addr \cup {Null}, busy : {0, 1}]
            /\ freed[s].addr = slot[Home(k)][s].addr
            /\ freed[s].busy = IF s \in Holders(k) THEN 0 ELSE slot[Home(k)][s].busy
    BY <1>3
  <2>3. freed \in [Slot -> [addr : Addr \cup {Null}, busy : {0, 1}]]
    BY <2>2
  <2>4. slot \in [Bucket -> [Slot -> [addr : Addr \cup {Null}, busy : {0, 1}]]]
    BY <1>1 DEF TypeOK
  <2> HIDE DEF freed
  <2> QED
    BY <1>3, <2>1, <2>2, <2>3, <2>4
<1>5. item' \in [Addr -> Item]
      /\ \A a \in Addr :
            /\ item'[a].data = item[a].data
            /\ item'[a].key = item[a].key \/ item'[a].key = 0
            /\ (\E s \in Holders(k) : slot[Home(k)][s].addr = a) => item'[a].key = 0
            /\ item[a].key # k => item'[a] = item[a]
  <2>1. ASSUME NEW a \in Addr
        PROVE  /\ item'[a] \in Item /\ item'[a].data = item[a].data
               /\ item'[a].key = item[a].key \/ item'[a].key = 0
               /\ (\E s \in Holders(k) : slot[Home(k)][s].addr = a) => item'[a].key = 0
               /\ item[a].key # k => item'[a] = item[a]
    <3>1. item[a] \in Item
      BY <1>1 DEF TypeOK
    <3>2. CASE \E s \in Holders(k) : slot[Home(k)][s].addr = a
      <4>1. item'[a] = [item[a] EXCEPT !.key = 0] /\ item[a].key = k
        BY <1>2, <3>2 DEF Holders
      <4> QED
        BY <3>1, <4>1 DEF Item
    <3>3. CASE ~ \E s \in Holders(k) : slot[Home(k)][s].addr = a
      <4>1. item'[a] = item[a]
        BY <1>2, <3>3
      <4> QED
        BY <3>1, <3>3, <4>1
    <3> QED
      BY <3>2, <3>3
  <2>2. item' = [a \in Addr |-> item'[a]]
    BY <1>2
  <2> QED
    BY <2>1, <2>2
<1>6. dict' \in [Keys -> Values \cup {Missing}]
  BY <1>1, <1>2 DEF TypeOK
<1>7. TypeOK'
  BY <1>1, <1>2, <1>4, <1>5, <1>6 DEF TypeOK
<1>8. ItemsAreOwned'
  BY <1>1, <1>2, <1>4 DEF ItemsAreOwned
<1>9. SlotInv'
  <2>1. ASSUME NEW b \in Bucket, NEW s \in Slot, slot'[b][s].busy = 0, slot[b][s].addr # Null
        PROVE  item'[slot[b][s].addr].key = 0
    <3>1. CASE b = Home(k) /\ s \in Holders(k)
      BY <1>3, <1>5, <2>1, <3>1
    <3>2. CASE ~(b = Home(k) /\ s \in Holders(k))
      <4>1. item[slot[b][s].addr].key = 0 /\ slot[b][s].addr \in Addr
        BY <1>1, <1>3, <1>4, <2>1, <3>2 DEF SlotInv
      <4> QED
        BY <1>5, <4>1
    <3> QED
      BY <3>1, <3>2
  <2>2. \A b \in Bucket, s \in Slot : slot'[b][s].busy = 1 => slot[b][s].busy = 1
    BY <1>4
  <2>3. \A b \in Bucket, s \in Slot :
            /\ slot'[b][s].busy = 1 => slot'[b][s].addr # Null
            /\ slot'[b][s].addr = Null => \A t \in Slot : s < t => slot'[b][t].addr = Null
    <3>1. \A b \in Bucket, s \in Slot : slot'[b][s].addr = slot[b][s].addr
      BY <1>4
    <3> QED
      BY <1>1, <2>2, <3>1 DEF SlotInv
  <2>4. \A b \in Bucket, s \in Slot :
            slot'[b][s].busy = 0 /\ slot'[b][s].addr # Null => item'[slot'[b][s].addr].key = 0
    BY <1>4, <2>1
  <2> QED
    BY <2>3, <2>4 DEF SlotInv
<1>10. UpdateInv'
  BY <1>1, <1>2 DEF UpdateInv
<1>11. ASSUME NEW j \in Keys \ {0}, j # k PROVE Holders(j)' = Holders(j)
  <2>1. Home(j) \in Bucket
    BY Homes
  <2>2. ASSUME NEW t \in Slot PROVE t \in Holders(j)' <=> t \in Holders(j)
    <3>1. slot'[Home(j)][t].addr = slot[Home(j)][t].addr
      BY <1>4, <2>1
    <3>2. ASSUME slot[Home(j)][t].addr # Null
          PROVE  item'[slot[Home(j)][t].addr].key = j <=> item[slot[Home(j)][t].addr].key = j
      <4>1. slot[Home(j)][t].addr \in Addr
        BY <1>3, <2>1, <3>2
      <4> QED
        BY <1>5, <1>11, <4>1
    <3> QED
      BY <3>1, <3>2 DEF Holders
  <2> QED
    BY <2>2 DEF Holders
<1>12. k # 0 => Holders(k)' = {}
  <2>1. ASSUME k # 0, NEW t \in Slot, t \in Holders(k)' PROVE FALSE
    <3>1. slot[Home(k)][t].addr # Null /\ item'[slot[Home(k)][t].addr].key = k
          /\ slot[Home(k)][t].addr \in Addr
      BY <1>3, <1>4, <2>1 DEF Holders
    <3>2. item[slot[Home(k)][t].addr].key = k
      BY <1>5, <2>1, <3>1
    <3>3. t \in Holders(k)
      BY <3>1, <3>2 DEF Holders
    <3> QED
      BY <1>5, <2>1, <3>1, <3>3
  <2> QED
    BY <2>1 DEF Holders
<1>13. HoldersInv'
  <2>1. ASSUME NEW j \in Keys \ {0}, j # k
        PROVE  /\ dict'[j] = Missing => Holders(j)' = {}
               /\ dict'[j] # Missing =>
                    \E t \in Slot : Holders(j)' = {t}
                                    /\ item'[slot'[Home(j)][t].addr].data = dict'[j]
    <3>1. dict'[j] = dict[j] /\ Holders(j)' = Holders(j) /\ Home(j) \in Bucket
      BY <1>1, <1>2, <1>11, <2>1, Homes DEF TypeOK
    <3>2. ASSUME dict[j] # Missing
          PROVE  \E t \in Slot : Holders(j) = {t} /\ item'[slot'[Home(j)][t].addr].data = dict[j]
      <4>1. PICK t \in Slot : Holders(j) = {t} /\ item[slot[Home(j)][t].addr].data = dict[j]
        BY <1>1, <3>2 DEF HoldersInv
      <4>2. slot[Home(j)][t].addr # Null
        BY <4>1 DEF Holders
      <4> QED
        BY <1>3, <1>4, <1>5, <3>1, <4>1, <4>2
    <3> QED
      BY <1>1, <3>1, <3>2 DEF HoldersInv
  <2>2. dict'[k] = Missing
    BY <1>1, <1>2 DEF TypeOK
  <2> QED
    BY <1>12, <2>1, <2>2 DEF HoldersInv
<1> QED
  BY <1>7, <1>8, <1>9, <1>10, <1>13 DEF IInv

-----------------------------------------------------------------------------
(* The table as it is loaded *)

\* Slot s of a bucket is before slot t by at least one round of the buckets.
LEMMA Rounds ==
    ASSUME NEW s \in Nat, NEW t \in Nat, s < t
    PROVE  /\ s * NumBuckets + NumBuckets <= t * NumBuckets
           /\ s * NumBuckets \in Nat /\ t * NumBuckets \in Nat
<1>1. (s + 1) * NumBuckets <= t * NumBuckets
  BY SMT
<1>2. (s + 1) * NumBuckets = s * NumBuckets + NumBuckets
  BY SMT
<1> QED
  BY <1>1, <1>2

\* A number of a key is its bucket and its slot, in one way only.
LEMMA OneWay ==
    ASSUME NEW b \in Bucket, NEW c \in Bucket, NEW s \in Nat, NEW t \in Nat,
           b + s * NumBuckets = c + t * NumBuckets
    PROVE  b = c /\ s = t
<1>1. CASE s < t
  <2>1. s * NumBuckets + NumBuckets <= t * NumBuckets
        /\ s * NumBuckets \in Nat /\ t * NumBuckets \in Nat
    BY <1>1, Rounds
  <2> QED
    BY <2>1 DEF Bucket
<1>2. CASE t < s
  <2>1. t * NumBuckets + NumBuckets <= s * NumBuckets
        /\ s * NumBuckets \in Nat /\ t * NumBuckets \in Nat
    BY <1>2, Rounds
  <2> QED
    BY <2>1 DEF Bucket
<1>3. CASE s = t
  <2>1. t * NumBuckets \in Nat
    BY SMT
  <2> QED
    BY <1>3, <2>1 DEF Bucket
<1> QED
  BY <1>1, <1>2, <1>3

\* Each loaded key has a slot in its bucket.
LEMMA Layout ==
    ASSUME NEW k \in 0 .. NumLoaded - 1
    PROVE  \E s \in Slot : k = Home(k) + s * NumBuckets
<1> DEFINE q == k \div NumBuckets
           r == k % NumBuckets
<1>1. q \in Nat /\ r \in Bucket /\ k = r + q * NumBuckets
  BY SMT DEF Bucket
<1>2. r = Home(k)
  BY DEF Home
<1> HIDE DEF q, r
<1>3. q \in Slot
  <2>1. ASSUME q >= NumSlots PROVE FALSE
    <3>1. q * NumBuckets >= NumSlots * NumBuckets
      BY <1>1, <2>1, SMT
    <3>2. NumSlots * NumBuckets = NumBuckets * NumSlots
      BY SMT
    <3>3. NumBuckets * NumSlots \in Nat /\ q * NumBuckets \in Nat
      BY <1>1, SMT
    <3>4. k >= NumBuckets * NumSlots
      BY <1>1, <3>1, <3>2, <3>3 DEF Bucket
    <3> QED
      BY <3>3, <3>4
  <2> QED
    BY <1>1, <2>1 DEF Slot
<1> QED
  BY <1>1, <1>2, <1>3

LEMMA InitEstablishes == Init => IInv
<1> SUFFICES ASSUME Init PROVE IInv
  OBVIOUS
<1> DEFINE num(b, s) == b + s * NumBuckets
<1>1. \A b \in Bucket, s \in Slot : num(b, s) \in Nat
  BY SMT DEF Bucket, Slot
<1>2. \A b, c \in Bucket, s, t \in Slot : num(b, s) = num(c, t) => b = c /\ s = t
  BY OneWay DEF Slot
<1>3. \A b \in Bucket, s, t \in Slot : s < t => num(b, s) < num(b, t)
  <2>1. ASSUME NEW b \in Bucket, NEW s \in Slot, NEW t \in Slot, s < t
        PROVE  num(b, s) < num(b, t)
    <3>1. s * NumBuckets + NumBuckets <= t * NumBuckets
          /\ s * NumBuckets \in Nat /\ t * NumBuckets \in Nat
      BY <2>1, Rounds DEF Slot
    <3> QED
      BY <3>1 DEF Bucket
  <2> QED
    BY <2>1
<1>4. \A k \in 0 .. NumLoaded - 1 : \E s \in Slot : k = num(Home(k), s)
  BY Layout
<1>5. slot = [b \in Bucket |-> [s \in Slot |->
                IF num(b, s) < NumLoaded THEN [addr |-> num(b, s), busy |-> 1]
                                         ELSE [addr |-> Null, busy |-> 0]]]
  BY DEF Init
<1> HIDE DEF num
<1>6. \A n \in Nat : n < NumLoaded => n \in Addr /\ n # Null /\ n \in 0 .. NumLoaded - 1
  BY DEF Addr, Null
<1>7. \A b \in Bucket, s \in Slot :
        /\ slot[b][s] \in [addr : Addr \cup {Null}, busy : {0, 1}]
        /\ num(b, s) < NumLoaded => slot[b][s].addr = num(b, s) /\ slot[b][s].busy = 1
        /\ ~(num(b, s) < NumLoaded) => slot[b][s].addr = Null /\ slot[b][s].busy = 0
  <2>1. ASSUME NEW b \in Bucket, NEW s \in Slot
        PROVE  slot[b][s] = IF num(b, s) < NumLoaded THEN [addr |-> num(b, s), busy |-> 1]
                                                     ELSE [addr |-> Null, busy |-> 0]
    BY <1>5, Zenon
  <2>2. ASSUME NEW b \in Bucket, NEW s \in Slot, num(b, s) < NumLoaded
        PROVE  /\ slot[b][s] \in [addr : Addr \cup {Null}, busy : {0, 1}]
               /\ slot[b][s].addr = num(b, s) /\ slot[b][s].busy = 1
    <3>1. slot[b][s] = [addr |-> num(b, s), busy |-> 1]
      BY <2>1, <2>2, Zenon
    <3>2. num(b, s) \in Addr
      BY <1>1, <1>6, <2>2
    <3> QED
      BY <3>1, <3>2
  <2>3. ASSUME NEW b \in Bucket, NEW s \in Slot, ~(num(b, s) < NumLoaded)
        PROVE  /\ slot[b][s] \in [addr : Addr \cup {Null}, busy : {0, 1}]
               /\ slot[b][s].addr = Null /\ slot[b][s].busy = 0
    <3>1. slot[b][s] = [addr |-> Null, busy |-> 0]
      BY <2>1, <2>3, Zenon
    <3> QED
      BY <3>1
  <2> QED
    BY <2>2, <2>3
<1>8. \A a \in Addr :
        /\ item[a] \in Item /\ item[a].data = 0
        /\ a < NumLoaded => item[a].key = a
  <2>1. ASSUME NEW a \in Addr
        PROVE  item[a] = IF a < NumLoaded THEN [key |-> a, flag |-> 0, data |-> 0]
                                          ELSE [key |-> 0, flag |-> 0, data |-> 0]
    BY Zenon DEF Init, Unused
  <2>2. ASSUME NEW a \in Addr, a < NumLoaded
        PROVE  item[a] \in Item /\ item[a].data = 0 /\ item[a].key = a
    <3>1. item[a] = [key |-> a, flag |-> 0, data |-> 0]
      BY <2>1, <2>2, Zenon
    <3>2. a \in Nat
      BY DEF Addr
    <3> QED
      BY <3>1, <3>2 DEF Item
  <2>3. ASSUME NEW a \in Addr, ~(a < NumLoaded)
        PROVE  item[a] \in Item /\ item[a].data = 0
    <3>1. item[a] = [key |-> 0, flag |-> 0, data |-> 0]
      BY <2>1, <2>3, Zenon
    <3> QED
      BY <3>1 DEF Item
  <2> QED
    BY <2>2, <2>3
<1>9. /\ index_ = NumLoaded /\ update = NoUpdate /\ crashed = FALSE
      /\ dict = [k \in Keys |-> IF k < NumLoaded THEN 0 ELSE Missing]
  BY DEF Init
<1>10. TypeOK
  <2>1. slot \in [Bucket -> [Slot -> [addr : Addr \cup {Null}, busy : {0, 1}]]]
    <3>1. \A b \in Bucket, s \in Slot : slot[b][s] \in [addr : Addr \cup {Null}, busy : {0, 1}]
      BY <1>7
    <3>2. slot = [b \in Bucket |-> [s \in Slot |-> slot[b][s]]]
      BY <1>5
    <3> QED
      BY <3>1, <3>2
  <2>2. item \in [Addr -> Item]
    <3>1. \A a \in Addr : item[a] \in Item
      BY <1>8
    <3>2. item = [a \in Addr |-> item[a]]
      BY DEF Init
    <3> QED
      BY <3>1, <3>2
  <2>3. index_ \in 0 .. MaxItems /\ dict \in [Keys -> Values \cup {Missing}]
    BY <1>9
  <2> QED
    BY <1>9, <2>1, <2>2, <2>3 DEF TypeOK
<1>11. ItemsAreOwned
  <2>1. ASSUME NEW b \in Bucket, NEW s \in Slot, slot[b][s].addr # Null
        PROVE  slot[b][s].addr = num(b, s) /\ num(b, s) < NumLoaded
    BY <1>7, <2>1
  <2> QED
    BY <1>2, <1>9, <2>1 DEF ItemsAreOwned
<1>12. SlotInv
  <2>1. ASSUME NEW b \in Bucket, NEW s \in Slot
        PROVE  /\ slot[b][s].busy = 1 <=> num(b, s) < NumLoaded
               /\ slot[b][s].addr = Null <=> ~(num(b, s) < NumLoaded)
    <3>1. CASE num(b, s) < NumLoaded
      BY <1>1, <1>7, <1>6, <3>1
    <3>2. CASE ~(num(b, s) < NumLoaded)
      BY <1>7, <3>2
    <3> QED
      BY <3>1, <3>2
  <2>2. ASSUME NEW b \in Bucket, NEW s \in Slot, NEW t \in Slot, s < t,
               ~(num(b, s) < NumLoaded)
        PROVE  ~(num(b, t) < NumLoaded)
    BY <1>1, <1>3, <2>2
  <2>3. \A b \in Bucket, s \in Slot : slot[b][s].busy = 0 => slot[b][s].addr = Null
    BY <2>1
  <2> QED
    BY <2>1, <2>2, <2>3 DEF SlotInv
<1>13. UpdateInv
  BY <1>9 DEF UpdateInv
<1>14. HoldersInv
  <2>1. ASSUME NEW k \in Keys \ {0}, NEW t \in Slot
        PROVE  t \in Holders(k) <=> k = num(Home(k), t) /\ k < NumLoaded
    <3>1. Home(k) \in Bucket
      BY Homes
    <3>2. CASE num(Home(k), t) < NumLoaded
      <4>1. slot[Home(k)][t].addr = num(Home(k), t) /\ num(Home(k), t) \in Addr
            /\ slot[Home(k)][t].addr # Null
        BY <1>1, <1>7, <1>6, <3>1, <3>2
      <4>2. item[slot[Home(k)][t].addr].key = num(Home(k), t)
        BY <1>8, <3>2, <4>1
      <4> QED
        BY <3>2, <4>1, <4>2 DEF Holders
    <3>3. CASE ~(num(Home(k), t) < NumLoaded)
      <4>1. slot[Home(k)][t].addr = Null
        BY <1>7, <3>1, <3>3
      <4> QED
        BY <3>3, <4>1 DEF Holders
    <3> QED
      BY <3>2, <3>3
  <2>2. ASSUME NEW k \in Keys \ {0}, k < NumLoaded
        PROVE  \E s \in Slot : Holders(k) = {s} /\ item[slot[Home(k)][s].addr].data = dict[k]
    <3>1. k \in Nat /\ Home(k) \in Bucket /\ dict[k] = 0
      BY <1>9, <2>2, Homes
    <3>2. PICK s \in Slot : k = num(Home(k), s)
      BY <1>4, <1>6, <2>2, <3>1
    <3>3. s \in Holders(k) /\ \A t \in Slot : t \in Holders(k) => t = s
      BY <1>2, <2>1, <2>2, <3>1, <3>2
    <3>4. Holders(k) = {s}
      BY <3>3 DEF Holders
    <3>5. slot[Home(k)][s].addr = k /\ k \in Addr
      BY <1>7, <1>6, <2>2, <3>1, <3>2
    <3>6. item[k].data = 0
      BY <1>8, <2>2, <3>5
    <3> QED
      BY <3>1, <3>4, <3>5, <3>6
  <2>3. ASSUME NEW k \in Keys \ {0}, ~(k < NumLoaded)
        PROVE  Holders(k) = {} /\ dict[k] = Missing
    <3>1. dict[k] = Missing
      BY <1>9, <2>3
    <3>2. \A t \in Slot : t \notin Holders(k)
      BY <2>1, <2>3
    <3> QED
      BY <3>1, <3>2 DEF Holders
  <2>4. \A k \in Keys : k < NumLoaded => dict[k] # Missing
    BY <1>9 DEF Missing
  <2> QED
    BY <2>2, <2>3, <2>4 DEF HoldersInv
<1> QED
  BY <1>10, <1>11, <1>12, <1>13, <1>14 DEF IInv

LEMMA NextKeeps == IInv /\ [Next]_vars => IInv'
<1> SUFFICES ASSUME IInv, [Next]_vars PROVE IInv'
  OBVIOUS
<1>1. ASSUME UNCHANGED <<slot, item, index_, update, dict>>, crashed' \in BOOLEAN
      PROVE  IInv'
  <2>1. TypeOK' /\ ItemsAreOwned' /\ SlotInv'
    BY <1>1 DEF IInv, TypeOK, ItemsAreOwned, SlotInv
  <2>2. \A k \in Keys : Holders(k)' = Holders(k)
    BY <1>1 DEF Holders
  <2>3. UpdateInv'
    BY <1>1, <2>2 DEF IInv, UpdateInv, Holders
  <2>4. HoldersInv'
    BY <1>1, <2>2 DEF IInv, HoldersInv
  <2> QED
    BY <2>1, <2>3, <2>4 DEF IInv
<1>2. ASSUME NEW k \in Keys, SearchMissing(k) PROVE IInv'
  BY <1>1, <1>2 DEF SearchMissing
<1>3. CASE UNCHANGED vars
  BY <1>1, <1>3 DEF vars, IInv, TypeOK
<1> QED
  BY <1>2, <1>3, InsertKeeps, RetireKeeps, PublishKeeps, DeleteKeeps DEF Next
-----------------------------------------------------------------------------
\* The inductive invariant holds at every moment of any sequence of calls.
THEOREM Invariance == Spec => []IInv
<1> QED
  BY InitEstablishes, NextKeeps, PTL DEF Spec

THEOREM TypeCorrect == Spec => []TypeOK
<1>1. IInv => TypeOK
  BY DEF IInv
<1> QED
  BY <1>1, Invariance, PTL

\* Filling the next item of the pool never changes the data of another key.
THEOREM NoItemIsShared == Spec => []ItemsAreOwned
<1>1. IInv => ItemsAreOwned
  BY DEF IInv
<1> QED
  BY <1>1, Invariance, PTL

\* For keys other than 0 a search finds what was last written, and a deleted key
\* is never found.
THEOREM SearchFindsLast == Spec => []TableIsMap
<1>1. IInv => TableIsMap
  <2> SUFFICES ASSUME IInv, NEW k \in Keys \ {0}
               PROVE  IF dict[k] = Missing
                      THEN ~Found(k)
                      ELSE \E s \in Slot : /\ FindsAt(k, s)
                                           /\ item[slot[Home(k)][s].addr].data = dict[k]
    BY DEF TableIsMap
  <2>1. CASE dict[k] = Missing
    BY <2>1 DEF IInv, HoldersInv, Found, FindsAt
  <2>2. CASE dict[k] # Missing
    <3>1. PICK s \in Slot : Holders(k) = {s} /\ item[slot[Home(k)][s].addr].data = dict[k]
      BY <2>2 DEF IInv, HoldersInv
    <3>2. Home(k) \in Bucket /\ s \in Holders(k) /\ slot[Home(k)][s].addr # Null
      BY <3>1, Homes DEF Holders
    <3>3. ASSUME NEW t \in Slot, t < s
          PROVE  t \notin Holders(k) /\ slot[Home(k)][t].addr # Null
      <4>1. t # s
        BY <3>3 DEF Slot
      <4>2. slot[Home(k)][t].addr # Null
        BY <3>2, <3>3 DEF IInv, SlotInv
      <4> QED
        BY <3>1, <4>1, <4>2
    <3> QED
      BY <2>2, <3>1, <3>2, <3>3 DEF FindsAt
  <2> QED
    BY <2>1, <2>2
<1> QED
  BY <1>1, Invariance, PTL
=============================================================================
