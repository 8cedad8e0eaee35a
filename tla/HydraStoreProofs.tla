--------------------------- MODULE HydraStoreProofs ---------------------------
(***************************************************************************)
(* Theorems about HydraStore, for any number of clients, any table and any *)
(* number of requests: what a one-sided read finds, which requests the     *)
(* server serves and as what, and what becomes of the answers.             *)
(*                                                                         *)
(* The loaded items never lose their keys, and the slot of a key points to *)
(* the item of its index until that item is flagged. A request is newer in *)
(* each place of its way to the server than in the places after it, so     *)
(* that it is served at most once; each service is acknowledged once.      *)
(***************************************************************************)
EXTENDS HydraStore, SequenceTheorems, TLAPS

Bucket == Table!Bucket
Slot == Table!Slot

\* The loaded items keep their keys; the slot of a key points to the item of
\* its index, or this item is flagged, as it is when the key was updated.
TableInv ==
    /\ NumLoaded <= index_
    /\ \A k \in Keys : item[k].key = k
    /\ \A b \in Bucket, s \in Slot : slot[b][s].addr < index_
    /\ \A k \in Keys, s \in Slot :
          item[k].flag = 0 /\ s \in Table!Holders(k) => slot[Table!Home(k)][s].addr = k
    /\ \A k \in Keys : Updated(k) => item[k].flag = 1

\* An update is in progress between the two steps of update_hash_key.
UpdateInv ==
    IF spc = "publish"
    THEN /\ update # Table!NoUpdate /\ update.key = kreg.key
         /\ index_ < MaxItems /\ item[kreg.key].flag = 1
    ELSE update = Table!NoUpdate

\* The requests of c end up as c has asked.
Meant(c, r) ==
    /\ r.seq \in 1 .. Len(asked[c])
    /\ asked[c][r.seq] = [req |-> r.req, key |-> r.key]

\* The number of the last request of c that was served.
Last(c) == IF served[c] = <<>> THEN 0 ELSE served[c][Len(served[c])].seq

Seen(c) == cur = c /\ spc \in {"kind", "other", "takePut", "takeGet"}
Taken(c) == cur = c /\ spc \in {"retire", "publish"}
Done(c) == cur = c /\ spc \in {"mark", "post", "clear"}
Waits(c) == (area[c].key # 0 \/ Seen(c)) /\ ~Done(c)

\* A request is newer on the wire than in the slot, there than in the
\* register, and there than all that were served.
OrderInv(c) ==
    /\ IF cpc[c] \in {"put", "get"} THEN asked[c] # <<>> ELSE wire[c] = NoReq
    /\ area[c].seq <= Len(asked[c])
    /\ wire[c] # NoReq => /\ Meant(c, wire[c]) /\ wire[c].seq = Len(asked[c])
                          /\ area[c].seq < Len(asked[c])
    /\ Len(served[c]) <= Last(c) /\ Last(c) <= area[c].seq
    /\ Taken(c) => Meant(c, kreg) /\ Last(c) < kreg.seq /\ kreg.seq <= area[c].seq
    /\ Waits(c) => Meant(c, area[c]) /\ Last(c) < area[c].seq

\* Each request that is served is acknowledged once, before the server goes on.
AckInv(c) ==
    /\ ack[c] => cur = c /\ spc \in {"clear", "poll"}
    /\ Len(served[c]) = IF ack[c] \/ (cur = c /\ spc \in {"mark", "post"})
                        THEN acked[c] + 1 ELSE acked[c]

\* What a read will find, and has found.
ReadInv(c) ==
    /\ read[c].after => item[read[c].key].flag = 1
    /\ read[c].landed => read[c].found = read[c].key
    /\ read[c].landed /\ read[c].after => read[c].flag = 1
    /\ read[c].quiet => /\ acked[c] = Len(asked[c]) /\ cpc[c] \notin {"put", "get"}
                        /\ read[c].landed => resp[c] = "item"

\* The kind of a request that nothing was written over does not change.
KindInv(c) ==
    ~raced[c] /\ cur = c =>
        /\ spc = "takePut" => area[c].req = Put
        /\ spc = "takeGet" => area[c].req = Get
        /\ spc \in {"retire", "publish"} => kreg.req = Put

IInv ==
    /\ TypeOK /\ TableInv /\ UpdateInv /\ PacedRequestsAreKept
    /\ \A c \in Clients : OrderInv(c) /\ AckInv(c) /\ ReadInv(c) /\ KindInv(c)

-----------------------------------------------------------------------------
\* What a request of c changes.
LEMMA PostRequestDoes ==
    ASSUME NEW c \in Clients, NEW kind \in {Put, Get}, NEW k \in AskedKeys,
           PostRequest(c, kind, k)
    PROVE  /\ wire' = [wire EXCEPT ![c] = [req |-> kind, key |-> k, seq |-> Len(asked[c]) + 1]]
           /\ asked' = [asked EXCEPT ![c] = Append(@, [req |-> kind, key |-> k])]
           /\ read' = [read EXCEPT ![c].quiet = FALSE]
           /\ UNCHANGED <<tableVars, cache, resp, area, serverVars, ack, acked, raced>>
  BY DEF PostRequest

\* calc_hash gives a bucket.
LEMMA Homes == \A k \in Nat : Table!Home(k) \in Bucket
  BY TableAssumption DEF Table!Home, Bucket, Table!Bucket

\* Advancing i stays among the slots.
LEMMA NextSlots == \A i \in Clients : NextSlot(i) \in Clients
  BY StoreAssumption DEF NextSlot, Clients

Served == [req : {Put, Get}, key : Keys, seq : Nat, as : {Put, Get}]

\* The keys that are asked for are loaded, and the items of the bound hold them.
LEMMA KeyFacts ==
    /\ \A k \in Keys : k \in Nat /\ k < NumLoaded /\ k \in Table!Addr
    /\ AskedKeys \subseteq Keys /\ 0 \in Keys
    /\ NumLoaded \in Nat /\ MaxItems \in Nat /\ NumLoaded <= MaxItems
<1>1. NumLoaded \in Nat /\ MaxItems \in Nat /\ NumLoaded <= MaxItems /\ 0 < NumLoaded
  BY StoreAssumption, TableAssumption
<1>2. Keys = 0 .. NumLoaded - 1 /\ AskedKeys \subseteq Keys
  BY StoreAssumption, TableAssumption
<1> QED
  BY <1>1, <1>2 DEF Table!Addr

\* Variables, one by one.
LEMMA Parts ==
    ASSUME TypeOK
    PROVE  /\ \A b \in Bucket, s \in Slot :
                /\ slot[b][s] \in [addr : Table!Addr \cup {Table!Null}, busy : {0, 1}]
                /\ slot[b][s].addr \in Table!Addr \cup {Table!Null}
           /\ \A a \in Table!Addr : /\ item[a] \in Table!Item
                                    /\ item[a].key \in Nat /\ item[a].flag \in {0, 1}
           /\ index_ \in Nat /\ cur \in Clients
           /\ \A c \in Clients :
                /\ asked[c] \in Seq(Asking) /\ Len(asked[c]) \in Nat
                /\ served[c] \in Seq(Served) /\ Len(served[c]) \in Nat
                /\ area[c] \in [req : 0 .. 2, key : Nat, seq : Nat]
                /\ area[c].seq \in Nat /\ area[c].key \in Nat
                /\ wire[c] \in Request \cup {NoReq}
                /\ acked[c] \in Nat /\ ack[c] \in BOOLEAN
                /\ read[c] \in [key : Keys, landed : BOOLEAN, found : Nat, flag : {0, 1},
                                after : BOOLEAN, quiet : BOOLEAN]
                /\ read[c].key \in Keys
           /\ kreg \in [req : 0 .. 2, key : Nat, seq : Nat]
           /\ kreg.seq \in Nat /\ kreg.key \in Nat
<1>1. ASSUME NEW b \in Bucket, NEW s \in Slot
      PROVE  slot[b][s] \in [addr : Table!Addr \cup {Table!Null}, busy : {0, 1}]
  BY DEF TypeOK, Table!TypeOK, Bucket, Slot
<1>2. ASSUME NEW a \in Table!Addr PROVE item[a] \in Table!Item
  BY DEF TypeOK, Table!TypeOK
<1>3. index_ \in Nat /\ cur \in Clients
  BY KeyFacts DEF TypeOK, Table!TypeOK
<1>4. ASSUME NEW c \in Clients
      PROVE  /\ asked[c] \in Seq(Asking) /\ served[c] \in Seq(Served)
             /\ area[c] \in [req : 0 .. 2, key : Nat, seq : Nat]
             /\ wire[c] \in Request \cup {NoReq}
             /\ acked[c] \in Nat /\ ack[c] \in BOOLEAN
             /\ read[c] \in [key : Keys, landed : BOOLEAN, found : Nat, flag : {0, 1},
                             after : BOOLEAN, quiet : BOOLEAN]
  BY DEF TypeOK, Served
<1>5. kreg \in [req : 0 .. 2, key : Nat, seq : Nat]
  BY DEF TypeOK
<1>6. ASSUME NEW c \in Clients
      PROVE  Len(asked[c]) \in Nat /\ Len(served[c]) \in Nat
  BY <1>4, LenProperties
<1> QED
  BY <1>1, <1>2, <1>3, <1>4, <1>5, <1>6 DEF Table!Item

\* The request that c has asked for as the n-th.
LEMMA MeantParts ==
    ASSUME TypeOK, NEW c \in Clients, NEW r, Meant(c, r)
    PROVE  /\ r.seq \in Nat \ {0} /\ r.seq <= Len(asked[c])
           /\ r.req \in {Put, Get} /\ r.key \in AskedKeys /\ r.key \in Keys
<1>1. asked[c] \in Seq(Asking) /\ Len(asked[c]) \in Nat
  BY Parts
<1>2. r.seq \in 1 .. Len(asked[c]) /\ asked[c][r.seq] = [req |-> r.req, key |-> r.key]
  BY DEF Meant
<1>3. asked[c][r.seq] \in Asking
  BY <1>1, <1>2, ElementOfSeq
<1>4. [req |-> r.req, key |-> r.key] \in [req : {Put, Get}, key : AskedKeys]
  BY <1>2, <1>3 DEF Asking
<1>5. r.req \in {Put, Get} /\ r.key \in AskedKeys
  BY <1>4
<1> QED
  BY <1>1, <1>2, <1>5, KeyFacts

\* The first entry after the loading is typed.
LEMMA TableInit == Init => Table!TypeOK
<1> SUFFICES ASSUME Table!Init PROVE Table!TypeOK
  BY DEF Init
<1>1. ASSUME NEW b \in Table!Bucket, NEW s \in Table!Slot
      PROVE  slot[b][s] \in [addr : Table!Addr \cup {Table!Null}, busy : {0, 1}]
  <2> DEFINE k == b + s * NumBuckets
  <2>1. slot[b][s] = IF k < NumLoaded THEN [addr |-> k, busy |-> 1]
                                      ELSE [addr |-> Table!Null, busy |-> 0]
    BY DEF Table!Init
  <2>2. k \in Nat
    <3>1. b \in Nat /\ s \in Nat /\ NumBuckets \in Nat
      BY TableAssumption DEF Table!Bucket, Table!Slot
    <3>2. s * NumBuckets \in Nat
      BY <3>1
    <3> QED
      BY <3>1, <3>2
  <2> HIDE DEF k
  <2>3. k < NumLoaded => k \in Table!Addr
    BY <2>2, KeyFacts DEF Table!Addr
  <2> QED
    BY <2>1, <2>3
<1>2. slot \in [Table!Bucket -> [Table!Slot -> [addr : Table!Addr \cup {Table!Null}, busy : {0, 1}]]]
  BY <1>1 DEF Table!Init
<1>3. item \in [Table!Addr -> Table!Item]
  BY KeyFacts DEF Table!Init, Table!Item, Table!Unused, Table!Addr
<1>4. index_ \in 0 .. MaxItems /\ update = Table!NoUpdate /\ crashed \in BOOLEAN
  <2>1. index_ = NumLoaded /\ update = Table!NoUpdate /\ crashed = FALSE
    BY DEF Table!Init
  <2>2. NumLoaded \in 0 .. MaxItems
    BY KeyFacts
  <2> QED
    BY <2>1, <2>2
<1>5. dict \in [Keys -> Values \cup {Table!Missing}]
  BY TableAssumption DEF Table!Init
<1> QED
  BY <1>2, <1>3, <1>4, <1>5 DEF Table!TypeOK

\* The initial state satisfies the inductive invariant.
LEMMA InitInv == Init => IInv
<1> SUFFICES ASSUME Init PROVE IInv OBVIOUS
<1>1. \A c \in Clients :
        /\ served[c] = <<>> /\ asked[c] = <<>> /\ wire[c] = NoReq /\ area[c] = Empty
        /\ read[c] = NoRead /\ ack[c] = FALSE /\ acked[c] = 0
  BY DEF Init
<1>2. \A c \in Clients : Len(served[c]) = 0 /\ Len(asked[c]) = 0
  BY <1>1
<1>3. TypeOK
  <2>1. 0 \in Clients
    BY StoreAssumption DEF Clients
  <2>2. NoRead \in [key : Keys, landed : BOOLEAN, found : Nat, flag : {0, 1},
                    after : BOOLEAN, quiet : BOOLEAN]
    BY KeyFacts DEF NoRead
  <2>3. Empty \in [req : 0 .. 2, key : Nat, seq : Nat]
    BY DEF Empty
  <2>4. cache \in [Clients -> SUBSET Keys]
    BY KeyFacts DEF Init
  <2> QED
    BY <2>1, <2>2, <2>3, <2>4, TableInit DEF Init, TypeOK
<1>4. TableInv
  <2>1. \A k \in Keys : item[k].key = k
    BY KeyFacts DEF Init, Table!Init
  <2>2. \A k \in Keys : ~Updated(k)
    BY <1>2 DEF Updated
  <2>3. ASSUME NEW b \in Bucket, NEW s \in Slot
        PROVE  /\ slot[b][s].addr < index_
               /\ slot[b][s].addr # Table!Null => item[slot[b][s].addr].key = slot[b][s].addr
    <3>1. \/ slot[b][s].addr = Table!Null
          \/ slot[b][s].addr \in Table!Addr /\ slot[b][s].addr < NumLoaded
      <4>1. slot[b][s].addr \in Table!Addr \cup {Table!Null}
        BY <1>3, Parts
      <4>2. slot[b][s] = IF b + s * NumBuckets < NumLoaded
                         THEN [addr |-> b + s * NumBuckets, busy |-> 1]
                         ELSE [addr |-> Table!Null, busy |-> 0]
        BY DEF Init, Table!Init, Bucket, Slot
      <4> QED
        BY <4>1, <4>2
    <3>2. index_ = NumLoaded /\ Table!Null < index_ /\ NumLoaded \in Nat
      BY KeyFacts DEF Init, Table!Init, Table!Null
    <3>3. \A a \in Table!Addr : a < NumLoaded => item[a].key = a
      BY DEF Init, Table!Init
    <3> QED
      BY <3>1, <3>2, <3>3
  <2>4. ASSUME NEW k \in Keys, NEW s \in Slot, s \in Table!Holders(k)
        PROVE  slot[Table!Home(k)][s].addr = k
    <3>1. Table!Home(k) \in Bucket
      BY KeyFacts, Homes
    <3>2. slot[Table!Home(k)][s].addr # Table!Null /\ item[slot[Table!Home(k)][s].addr].key = k
      BY <2>4 DEF Table!Holders
    <3> QED
      BY <2>3, <3>1, <3>2
  <2>5. NumLoaded <= index_
    BY KeyFacts DEF Init, Table!Init
  <2> QED
    BY <2>1, <2>2, <2>3, <2>4, <2>5 DEF TableInv
<1>5. UpdateInv
  BY DEF Init, Table!Init, UpdateInv
<1>6. PacedRequestsAreKept
  BY <1>2 DEF PacedRequestsAreKept
<1>7. ASSUME NEW c \in Clients PROVE OrderInv(c)
  BY <1>1, <1>2, <1>7 DEF OrderInv, Init, Empty, Last, Waits, Seen, Taken
<1>8. ASSUME NEW c \in Clients PROVE AckInv(c)
  BY <1>1, <1>2, <1>8 DEF AckInv, Init
<1>9. ASSUME NEW c \in Clients PROVE ReadInv(c) /\ KindInv(c)
  BY <1>1, <1>9 DEF ReadInv, KindInv, Init, NoRead
<1> QED
  BY <1>3, <1>4, <1>5, <1>6, <1>7, <1>8, <1>9 DEF IInv

-----------------------------------------------------------------------------
(* Types *)

\* The server's first three looks, its mark, and its going on.
LEMMA LookTypes ==
    ASSUME TypeOK,
           \/ ServerScan \/ ServerTestsPut \/ ServerTestsGet \/ ServerTakesPut
           \/ ServerMark \/ ServerPost \/ ServerClear \/ ServerPoll
    PROVE  TypeOK'
<1> USE DEF tableVars, clientVars, AtSlot
<1>1. cur \in Clients /\ NextSlot(cur) \in Clients
      /\ area[cur] \in [req : 0 .. 2, key : Nat, seq : Nat]
  BY Parts, NextSlots
<1>2. CASE ServerScan
  BY <1>1, <1>2 DEF ServerScan, TypeOK, Table!TypeOK
<1>3. CASE ServerTestsPut
  BY <1>3 DEF ServerTestsPut, TypeOK, Table!TypeOK
<1>4. CASE ServerTestsGet
  BY <1>1, <1>4 DEF ServerTestsGet, TypeOK, Table!TypeOK
<1>5. CASE ServerTakesPut
  BY <1>1, <1>5 DEF ServerTakesPut, TypeOK, Table!TypeOK
<1>6. CASE ServerMark
  <2>1. area' \in [Clients -> [req : 0 .. 2, key : Nat, seq : Nat]]
    BY <1>1, <1>6 DEF ServerMark, TypeOK
  <2> QED
    BY <1>6, <2>1 DEF ServerMark, TypeOK, Table!TypeOK
<1>7. CASE ServerPost
  BY <1>1, <1>7 DEF ServerPost, TypeOK, Table!TypeOK
<1>8. CASE ServerClear
  <2>1. area' \in [Clients -> [req : 0 .. 2, key : Nat, seq : Nat]]
    BY <1>1, <1>8 DEF ServerClear, TypeOK
  <2> QED
    BY <1>8, <2>1 DEF ServerClear, TypeOK, Table!TypeOK
<1>9. CASE ServerPoll
  BY <1>1, <1>9 DEF ServerPoll, TypeOK, Table!TypeOK
<1> QED
  BY <1>2, <1>3, <1>4, <1>5, <1>6, <1>7, <1>8, <1>9

\* The steps that serve a request, and the first step of an update.
LEMMA ServeTypes ==
    ASSUME IInv, ServerRetires \/ ServerPublishes \/ ServerTakesGet
    PROVE  TypeOK'
<1> USE DEF clientVars, AtSlot
<1>0. TypeOK /\ OrderInv(cur) /\ UpdateInv /\ cur \in Clients
      /\ area[cur] \in [req : 0 .. 2, key : Nat, seq : Nat] /\ served[cur] \in Seq(Served)
  <2>1. TypeOK /\ UpdateInv
    BY DEF IInv
  <2>2. cur \in Clients
    BY <2>1, Parts
  <2> QED
    BY <2>1, <2>2, Parts DEF IInv
<1>1. CASE ServerRetires
  <2>1. kreg.key \in Keys /\ kreg.key \in Nat
    BY <1>0, <1>1, MeantParts, KeyFacts DEF OrderInv, Taken, ServerRetires
  <2>2. PICK s \in Table!Slot :
          /\ Table!FindsAt(kreg.key, s)
          /\ item' = [item EXCEPT ![slot[Table!Home(kreg.key)][s].addr].flag = 1]
          /\ update' = [key |-> kreg.key, data |-> 1, at |-> s]
    BY <1>1 DEF ServerRetires, Table!Retire
  <2>3. UNCHANGED <<slot, index_, crashed, dict>>
    BY <1>1 DEF ServerRetires, Table!Retire
  <2>4. item' \in [Table!Addr -> Table!Item]
    <3>1. item \in [Table!Addr -> Table!Item]
      BY <1>0 DEF TypeOK, Table!TypeOK
    <3> QED
      BY <2>2, <3>1 DEF Table!Item
  <2>5. update' \in [key : Keys, data : Values, at : Table!Slot]
    BY <2>1, <2>2, TableAssumption
  <2>6. Table!TypeOK'
    BY <1>0, <2>3, <2>4, <2>5 DEF TypeOK, Table!TypeOK
  <2> QED
    BY <1>0, <1>1, <2>6 DEF ServerRetires, TypeOK
<1>2. CASE ServerPublishes
  <2>1. kreg.key \in Keys /\ kreg.seq \in Nat /\ kreg.req \in {Put, Get}
    BY <1>0, <1>2, MeantParts DEF OrderInv, Taken, ServerPublishes
  <2>2. update \in [key : Keys, data : Values, at : Table!Slot] /\ index_ < MaxItems
    BY <1>0, <1>2 DEF UpdateInv, TypeOK, Table!TypeOK, ServerPublishes
  <2>0. PICK k \in Keys, v \in Values, s \in Table!Slot :
            update.key = k /\ update.data = v /\ update.at = s
    BY <2>2
  <2>3. index_ \in Table!Addr /\ index_ + 1 \in 0 .. MaxItems /\ v \in Nat /\ k \in Nat
    <3>1. index_ \in Nat /\ MaxItems \in Nat
      BY <1>0, Parts, KeyFacts
    <3>2. v \in Nat /\ k \in Nat
      BY TableAssumption, KeyFacts
    <3> QED
      BY <2>2, <3>1, <3>2 DEF Table!Addr
  <2>4. slot' \in [Table!Bucket -> [Table!Slot ->
                    [addr : Table!Addr \cup {Table!Null}, busy : {0, 1}]]]
    <3>1. slot \in [Table!Bucket -> [Table!Slot ->
                    [addr : Table!Addr \cup {Table!Null}, busy : {0, 1}]]]
      BY <1>0 DEF TypeOK, Table!TypeOK
    <3>2. slot' = [slot EXCEPT ![Table!Home(k)][s].addr = index_]
      BY <1>2, <2>0 DEF ServerPublishes, Table!Publish
    <3>3. ASSUME NEW b \in Table!Bucket, NEW t \in Table!Slot
          PROVE  slot'[b][t] \in [addr : Table!Addr \cup {Table!Null}, busy : {0, 1}]
      <4>1. slot[b][t] \in [addr : Table!Addr \cup {Table!Null}, busy : {0, 1}]
        BY <3>1
      <4>2. slot'[b][t] = slot[b][t] \/ slot'[b][t] = [slot[b][t] EXCEPT !.addr = index_]
        BY <3>1, <3>2
      <4> QED
        BY <2>3, <4>1, <4>2
    <3>4. slot' = [b \in Table!Bucket |-> [t \in Table!Slot |-> slot'[b][t]]]
      BY <3>1, <3>2
    <3> QED
      BY <3>3, <3>4
  <2>5. item' \in [Table!Addr -> Table!Item]
    <3>1. item \in [Table!Addr -> Table!Item]
      BY <1>0 DEF TypeOK, Table!TypeOK
    <3>2. item' = [item EXCEPT ![index_].key = k, ![index_].data = v]
      BY <1>2, <2>0 DEF ServerPublishes, Table!Publish
    <3> QED
      BY <2>3, <3>1, <3>2 DEF Table!Item
  <2>6. Table!TypeOK'
    <3>1. dict' \in [Keys -> Values \cup {Table!Missing}]
      BY <1>0, <1>2, <2>0 DEF TypeOK, Table!TypeOK, ServerPublishes, Table!Publish
    <3>2. index_' = index_ + 1 /\ update' = Table!NoUpdate /\ crashed' = crashed
      BY <1>2 DEF ServerPublishes, Table!Publish
    <3> QED
      BY <1>0, <2>3, <2>4, <2>5, <3>1, <3>2 DEF TypeOK, Table!TypeOK
  <2>7. served' \in [Clients -> Seq(Served)]
    <3> DEFINE r == [req |-> kreg.req, key |-> kreg.key, seq |-> kreg.seq, as |-> Put]
    <3>1. r \in Served
      BY <2>1 DEF Served
    <3>2. served' = [served EXCEPT ![cur] = Append(@, r)]
      BY <1>2 DEF ServerPublishes, Serves
    <3> HIDE DEF r
    <3>3. Append(served[cur], r) \in Seq(Served)
      BY <1>0, <3>1, AppendProperties
    <3>4. served \in [Clients -> Seq(Served)]
      BY <1>0 DEF TypeOK, Served
    <3> QED
      BY <3>2, <3>3, <3>4
  <2> QED
    BY <1>0, <1>2, <2>6, <2>7 DEF ServerPublishes, TypeOK, Served
<1>3. CASE ServerTakesGet
  <2>1. area[cur].key \in Keys /\ area[cur].seq \in Nat /\ area[cur].req \in {Put, Get}
    <3>1. Meant(cur, area[cur])
      BY <1>0, <1>3 DEF OrderInv, Waits, Seen, Done, ServerTakesGet
    <3> QED
      BY <1>0, <3>1, MeantParts
  <2>2. served' \in [Clients -> Seq(Served)]
    <3> DEFINE r == [req |-> area[cur].req, key |-> area[cur].key,
                     seq |-> area[cur].seq, as |-> Get]
    <3>1. r \in Served
      BY <2>1 DEF Served
    <3>2. served' = [served EXCEPT ![cur] = Append(@, r)]
      BY <1>3 DEF ServerTakesGet
    <3> HIDE DEF r
    <3>3. Append(served[cur], r) \in Seq(Served)
      BY <1>0, <3>1, AppendProperties
    <3>4. served \in [Clients -> Seq(Served)]
      BY <1>0 DEF TypeOK, Served
    <3> QED
      BY <3>2, <3>3, <3>4
  <2> QED
    BY <1>0, <1>3, <2>2 DEF ServerTakesGet, TypeOK, Served, tableVars, Table!TypeOK
<1> QED
  BY <1>1, <1>2, <1>3

\* A request of c is one more in its list, and on its wire.
LEMMA AskedGrows ==
    ASSUME TypeOK, NEW c \in Clients, NEW kind \in {Put, Get}, NEW k \in AskedKeys,
           PostRequest(c, kind, k)
    PROVE  /\ [req |-> kind, key |-> k] \in Asking
           /\ asked'[c] \in Seq(Asking) /\ Len(asked'[c]) = Len(asked[c]) + 1
           /\ \A i \in 1 .. Len(asked[c]) : asked'[c][i] = asked[c][i]
           /\ asked'[c][Len(asked[c]) + 1] = [req |-> kind, key |-> k]
           /\ \A d \in Clients : d # c => asked'[d] = asked[d]
           /\ asked' \in [Clients -> Seq(Asking)]
<1> DEFINE r == [req |-> kind, key |-> k]
<1>1. r \in Asking
  BY DEF Asking
<1>2. asked' = [asked EXCEPT ![c] = Append(@, r)]
  BY PostRequestDoes
<1>3. asked[c] \in Seq(Asking) /\ asked \in [Clients -> Seq(Asking)]
  BY Parts DEF TypeOK
<1> HIDE DEF r
<1>4. asked'[c] = Append(asked[c], r) /\ \A d \in Clients : d # c => asked'[d] = asked[d]
  BY <1>2, <1>3
<1>5. /\ Append(asked[c], r) \in Seq(Asking)
      /\ Len(Append(asked[c], r)) = Len(asked[c]) + 1
      /\ \A i \in 1 .. Len(asked[c]) : Append(asked[c], r)[i] = asked[c][i]
      /\ Append(asked[c], r)[Len(asked[c]) + 1] = r
  BY <1>1, <1>3, AppendProperties
<1>6. asked' \in [Clients -> Seq(Asking)]
  BY <1>2, <1>3, <1>4, <1>5
<1> QED
  BY <1>1, <1>4, <1>5, <1>6 DEF r

LEMMA WireTakes ==
    ASSUME TypeOK, NEW c \in Clients, NEW kind \in {Put, Get}, NEW k \in AskedKeys,
           PostRequest(c, kind, k)
    PROVE  /\ wire' \in [Clients -> Request \cup {NoReq}]
           /\ wire'[c] \in Request
           /\ wire'[c] = [req |-> kind, key |-> k, seq |-> Len(asked[c]) + 1]
           /\ \A d \in Clients : d # c => wire'[d] = wire[d]
<1> DEFINE r == [req |-> kind, key |-> k, seq |-> Len(asked[c]) + 1]
<1>1. r \in Request
  <2>1. Len(asked[c]) + 1 \in Nat \ {0}
    BY Parts
  <2> QED
    BY <2>1 DEF Request
<1>2. wire' = [wire EXCEPT ![c] = r]
  BY DEF PostRequest
<1>3. wire \in [Clients -> Request \cup {NoReq}]
  BY DEF TypeOK
<1> HIDE DEF r
<1>4. /\ wire' \in [Clients -> Request \cup {NoReq}] /\ wire'[c] = r
      /\ \A d \in Clients : d # c => wire'[d] = wire[d]
  BY <1>1, <1>2, <1>3
<1> QED
  BY <1>1, <1>4 DEF r

\* The read that c has done no longer counts as quiet.
LEMMA ReadIsOld ==
    ASSUME TypeOK, NEW c \in Clients, NEW kind \in {Put, Get}, NEW k \in AskedKeys,
           PostRequest(c, kind, k)
    PROVE  /\ read' \in [Clients -> [key : Keys, landed : BOOLEAN, found : Nat, flag : {0, 1},
                                     after : BOOLEAN, quiet : BOOLEAN]]
           /\ read'[c].quiet = FALSE
           /\ read'[c].key = read[c].key /\ read'[c].landed = read[c].landed
           /\ read'[c].found = read[c].found /\ read'[c].flag = read[c].flag
           /\ read'[c].after = read[c].after
           /\ \A d \in Clients : d # c => read'[d] = read[d]
<1> DEFINE r == [read[c] EXCEPT !.quiet = FALSE]
<1>1. /\ r \in [key : Keys, landed : BOOLEAN, found : Nat, flag : {0, 1},
                after : BOOLEAN, quiet : BOOLEAN]
      /\ r.quiet = FALSE
      /\ r.key = read[c].key /\ r.landed = read[c].landed
      /\ r.found = read[c].found /\ r.flag = read[c].flag /\ r.after = read[c].after
  BY Parts
<1>2. read \in [Clients -> [key : Keys, landed : BOOLEAN, found : Nat, flag : {0, 1},
                            after : BOOLEAN, quiet : BOOLEAN]]
  BY DEF TypeOK
<1>3. read' = [read EXCEPT ![c] = r]
  BY <1>2, PostRequestDoes
<1> HIDE DEF r
<1>4. read'[c] = r /\ \A d \in Clients : d # c => read'[d] = read[d]
  BY <1>2, <1>3
<1> QED
  BY <1>1, <1>2, <1>3, <1>4

\* The steps of the clients.
LEMMA ClientTypes ==
    ASSUME IInv, NEW c \in Clients, Client(c)
    PROVE  TypeOK'
<1> USE DEF serverVars
<1>0. TypeOK /\ OrderInv(c)
  BY DEF IInv
<1>1. ASSUME NEW k \in AskedKeys, PostPut(c, k) \/ PostGet(c, k) PROVE TypeOK'
  <2>1. PICK kind \in {Put, Get} : PostRequest(c, kind, k)
    BY <1>1 DEF PostPut, PostGet
  <2>2. asked' \in [Clients -> Seq(Asking)]
    BY <1>0, <2>1, AskedGrows
  <2>3. wire' \in [Clients -> Request \cup {NoReq}]
    BY <1>0, <2>1, WireTakes
  <2>4. read' \in [Clients -> [key : Keys, landed : BOOLEAN, found : Nat, flag : {0, 1},
                               after : BOOLEAN, quiet : BOOLEAN]]
    BY <1>0, <2>1, ReadIsOld
  <2>5. cpc' \in [Clients -> {"ready", "put", "get", "reading", "finished"}]
    BY <1>0, <1>1 DEF PostPut, PostGet, TypeOK
  <2>6. UNCHANGED <<tableVars, cache, resp, area, serverVars, ack, acked, raced>>
    BY <2>1, PostRequestDoes
  <2>7. Table!TypeOK'
    BY <1>0, <2>6 DEF TypeOK, Table!TypeOK, tableVars
  <2> QED
    BY <1>0, <2>2, <2>3, <2>4, <2>5, <2>6, <2>7 DEF TypeOK
<1>2. ASSUME NEW k \in Keys, PostRead(c, k),
             resp' \in [Clients -> {"zero", "item", "ack"}]
      PROVE  TypeOK'
  <2>1. Updated(k) \in BOOLEAN /\ (acked[c] = Len(asked[c])) \in BOOLEAN
    BY DEF Updated
  <2> DEFINE r == [NoRead EXCEPT !.key = k, !.landed = FALSE, !.after = Updated(k),
                                 !.quiet = (acked[c] = Len(asked[c]))]
  <2>2. r \in [key : Keys, landed : BOOLEAN, found : Nat, flag : {0, 1},
               after : BOOLEAN, quiet : BOOLEAN]
    BY <2>1 DEF NoRead
  <2>3. read' = [read EXCEPT ![c] = r]
    BY <1>2 DEF PostRead
  <2> HIDE DEF r
  <2>4. read' \in [Clients -> [key : Keys, landed : BOOLEAN, found : Nat, flag : {0, 1},
                               after : BOOLEAN, quiet : BOOLEAN]]
    BY <1>0, <2>2, <2>3 DEF TypeOK
  <2>5. Table!TypeOK'
    BY <1>0, <1>2 DEF PostRead, TypeOK, Table!TypeOK, tableVars
  <2> QED
    BY <1>0, <1>2, <2>4, <2>5 DEF PostRead, TypeOK
<1>3. ASSUME NEW k \in AskedKeys, ReadCached(c, k) PROVE TypeOK'
  BY <1>0, <1>2, <1>3, KeyFacts DEF ReadCached, TypeOK
<1>4. CASE GetCompletes(c)
  <2>0. asked[c] \in Seq(Asking) /\ Len(asked[c]) \in Nat
    BY <1>0, Parts
  <2>1. resp' \in [Clients -> {"zero", "item", "ack"}]
    BY <1>0, <1>4 DEF GetCompletes, TypeOK
  <2>2. asked[c] # <<>>
    BY <1>0, <1>4 DEF GetCompletes, OrderInv
  <2>3. asked[c][Len(asked[c])] \in Asking
    BY <2>0, <2>2, EmptySeq, ElementOfSeq
  <2>4. asked[c][Len(asked[c])].key \in Keys
    BY <2>3, KeyFacts DEF Asking
  <2> QED
    BY <1>2, <1>4, <2>1, <2>4 DEF GetCompletes
<1>5. CASE PutCompletes(c) \/ ReadCompletes(c) \/ Finish(c)
  <2>1. Table!TypeOK'
    BY <1>0, <1>5 DEF PutCompletes, ReadCompletes, Finish, TypeOK, Table!TypeOK, tableVars
  <2>2. cache' \in [Clients -> SUBSET Keys]
    <3>1. cache \in [Clients -> SUBSET Keys]
      BY <1>0 DEF TypeOK
    <3>2. cache' = cache \/ cache' = [cache EXCEPT ![c] = @ \cup {read[c].key}]
      BY <1>5 DEF PutCompletes, ReadCompletes, Finish
    <3>3. read[c].key \in Keys
      BY <1>0, Parts
    <3>4. cache[c] \cup {read[c].key} \in SUBSET Keys
      BY <3>1, <3>3
    <3> QED
      BY <3>1, <3>2, <3>4
  <2> QED
    BY <1>0, <1>5, <2>1, <2>2 DEF PutCompletes, ReadCompletes, Finish, TypeOK
<1> QED
  BY <1>1, <1>3, <1>4, <1>5 DEF Client

\* Requests, items and acknowledgements that land.
LEMMA NetworkTypes ==
    ASSUME TypeOK, NEW c \in Clients, Network(c)
    PROVE  TypeOK'
<1> USE DEF clientVars, serverVars
<1>0. Table!TypeOK'
  BY DEF Network, DeliverRequest, DeliverItem, DeliverAck, TypeOK, Table!TypeOK, tableVars
<1>1. CASE DeliverRequest(c)
  <2>1. wire[c] \in Request /\ wire[c] \in [req : 0 .. 2, key : Nat, seq : Nat]
    <3>1. wire[c] \in Request
      BY <1>1, Parts DEF DeliverRequest
    <3> QED
      BY <3>1, KeyFacts DEF Request, Put, Get
  <2>2. area' \in [Clients -> [req : 0 .. 2, key : Nat, seq : Nat]]
    BY <1>1, <2>1 DEF DeliverRequest, TypeOK
  <2>3. wire' \in [Clients -> Request \cup {NoReq}]
    BY <1>1 DEF DeliverRequest, TypeOK
  <2>4. raced' \in [Clients -> BOOLEAN]
    BY <1>1 DEF DeliverRequest, TypeOK
  <2> QED
    BY <1>0, <1>1, <2>2, <2>3, <2>4 DEF DeliverRequest, TypeOK
<1>2. CASE DeliverItem(c)
  <2>1. item[read[c].key].key \in Nat /\ item[read[c].key].flag \in {0, 1}
    BY Parts, KeyFacts
  <2>2. read' \in [Clients -> [key : Keys, landed : BOOLEAN, found : Nat, flag : {0, 1},
                               after : BOOLEAN, quiet : BOOLEAN]]
    <3> DEFINE r == [read[c] EXCEPT !.landed = TRUE, !.found = item[read[c].key].key,
                                    !.flag = item[read[c].key].flag]
    <3>1. read' = [read EXCEPT ![c] = r]
      <4>1. read \in [Clients -> [key : Keys, landed : BOOLEAN, found : Nat, flag : {0, 1},
                                  after : BOOLEAN, quiet : BOOLEAN]]
        BY DEF TypeOK
      <4> QED
        BY <1>2, <4>1 DEF DeliverItem
    <3>2. r \in [key : Keys, landed : BOOLEAN, found : Nat, flag : {0, 1},
                 after : BOOLEAN, quiet : BOOLEAN]
      BY <2>1, Parts
    <3> HIDE DEF r
    <3> QED
      BY <3>1, <3>2 DEF TypeOK
  <2> QED
    BY <1>0, <1>2, <2>2 DEF DeliverItem, TypeOK
<1>3. CASE DeliverAck(c)
  <2>1. acked' \in [Clients -> Nat]
    <3>1. acked \in [Clients -> Nat]
      BY DEF TypeOK
    <3>2. acked[c] + 1 \in Nat
      BY <3>1
    <3> QED
      BY <1>3, <3>1, <3>2 DEF DeliverAck
  <2> QED
    BY <1>0, <1>3, <2>1 DEF DeliverAck, TypeOK
<1> QED
  BY <1>1, <1>2, <1>3 DEF Network

LEMMA TypeNext == IInv /\ Next => TypeOK'
<1> SUFFICES ASSUME IInv, Next PROVE TypeOK' OBVIOUS
<1>1. TypeOK
  BY DEF IInv
<1> QED
  BY <1>1, LookTypes, ServeTypes, ClientTypes, NetworkTypes DEF Next, Server

-----------------------------------------------------------------------------
(* What the server serves *)

\* One more request of the client at hand is served.
ServesOne(r) == served' = [served EXCEPT ![cur] = Append(@, r)]

LEMMA ServedGrows ==
    ASSUME TypeOK, NEW r \in Served, ServesOne(r)
    PROVE  /\ Len(served'[cur]) = Len(served[cur]) + 1 /\ served'[cur] # <<>>
           /\ served'[cur] \in Seq(Served)
           /\ \A i \in 1 .. Len(served[cur]) : served'[cur][i] = served[cur][i]
           /\ served'[cur][Len(served[cur]) + 1] = r
           /\ \A d \in Clients : d # cur => served'[d] = served[d]
<1>1. cur \in Clients /\ served[cur] \in Seq(Served) /\ served \in [Clients -> Seq(Served)]
  BY Parts DEF TypeOK, Served
<1>2. served'[cur] = Append(served[cur], r) /\ \A d \in Clients : d # cur => served'[d] = served[d]
  BY <1>1 DEF ServesOne
<1>3. /\ Append(served[cur], r) \in Seq(Served) /\ Append(served[cur], r) # <<>>
      /\ Len(Append(served[cur], r)) = Len(served[cur]) + 1
      /\ \A i \in 1 .. Len(served[cur]) : Append(served[cur], r)[i] = served[cur][i]
      /\ Append(served[cur], r)[Len(served[cur]) + 1] = r
  BY <1>1, AppendProperties
<1> QED
  BY <1>2, <1>3

\* The last step of an update serves what the server has in k.
LEMMA PublishServes ==
    ASSUME IInv, ServerPublishes
    PROVE  \E r \in Served : /\ ServesOne(r) /\ r.as = Put
                             /\ r.req = kreg.req /\ r.key = kreg.key /\ r.seq = kreg.seq
<1>1. TypeOK /\ cur \in Clients
  BY Parts DEF IInv
<1>2. Meant(cur, kreg)
  BY <1>1 DEF IInv, OrderInv, Taken, ServerPublishes
<1> DEFINE r == [req |-> kreg.req, key |-> kreg.key, seq |-> kreg.seq, as |-> Put]
<1>3. r \in Served
  BY <1>1, <1>2, MeantParts DEF Served
<1>4. ServesOne(r)
  BY DEF ServesOne, Serves, ServerPublishes
<1>5. r.as = Put /\ r.req = kreg.req /\ r.key = kreg.key /\ r.seq = kreg.seq
  OBVIOUS
<1> HIDE DEF r
<1> QED
  BY <1>3, <1>4, <1>5

\* A GET is served at once, as what is in the slot.
LEMMA GetServes ==
    ASSUME IInv, ServerTakesGet
    PROVE  \E r \in Served : /\ ServesOne(r) /\ r.as = Get /\ r.req = area[cur].req
                             /\ r.key = area[cur].key /\ r.seq = area[cur].seq
<1>1. TypeOK /\ cur \in Clients
  BY Parts DEF IInv
<1>2. Meant(cur, area[cur])
  BY <1>1 DEF IInv, OrderInv, Waits, Seen, Done, ServerTakesGet
<1> DEFINE r == [req |-> area[cur].req, key |-> area[cur].key, seq |-> area[cur].seq, as |-> Get]
<1>3. r \in Served
  BY <1>1, <1>2, MeantParts DEF Served
<1>4. ServesOne(r)
  BY DEF ServesOne, ServerTakesGet
<1>5. r.as = Get /\ r.req = area[cur].req /\ r.key = area[cur].key /\ r.seq = area[cur].seq
  OBVIOUS
<1> HIDE DEF r
<1> QED
  BY <1>3, <1>4, <1>5

\* Only a service as a PUT makes an update.
LEMMA UpdatedGrows ==
    ASSUME TypeOK, NEW r \in Served, ServesOne(r), NEW k \in Keys, Updated(k)'
    PROVE  Updated(k) \/ (k = r.key /\ r.as = Put)
<1>0. PICK c \in Clients : \E i \in 1 .. Len(served'[c]) :
        served'[c][i].key = k /\ served'[c][i].as = Put
  BY DEF Updated
<1>1. PICK i \in 1 .. Len(served'[c]) : served'[c][i].key = k /\ served'[c][i].as = Put
  BY <1>0
<1>2. CASE c # cur
  BY <1>1, <1>2, ServedGrows DEF Updated
<1>3. CASE c = cur
  <2>1. Len(served[cur]) \in Nat /\ Len(served'[cur]) = Len(served[cur]) + 1
    BY Parts, ServedGrows
  <2>2. CASE i \in 1 .. Len(served[cur])
    <3>1. served'[cur][i] = served[cur][i]
      BY <2>2, ServedGrows
    <3> QED
      BY <1>1, <1>3, <2>2, <3>1 DEF Updated
  <2>3. CASE i = Len(served[cur]) + 1
    <3>1. served'[cur][i] = r
      BY <2>3, ServedGrows
    <3> QED
      BY <1>1, <1>3, <3>1
  <2> QED
    BY <1>3, <2>1, <2>2, <2>3
<1> QED
  BY <1>2, <1>3
-----------------------------------------------------------------------------
(* The table *)

\* Keys of items are as they were, and flags only rise.
LEMMA RetireKeeps ==
    ASSUME IInv, ServerRetires
    PROVE  TableInv' /\ UpdateInv'
<1>1. TypeOK /\ TableInv /\ UpdateInv /\ cur \in Clients
  BY Parts DEF IInv
<1>2. kreg.key \in Keys /\ kreg.key \in Nat /\ kreg.key \in Table!Addr
  <2>1. Meant(cur, kreg)
    BY <1>1 DEF IInv, OrderInv, Taken, ServerRetires
  <2> QED
    BY <1>1, <2>1, MeantParts, KeyFacts
<1>3. PICK s \in Slot :
        /\ Table!FindsAt(kreg.key, s)
        /\ item' = [item EXCEPT ![slot[Table!Home(kreg.key)][s].addr].flag = 1]
        /\ update' = [key |-> kreg.key, data |-> 1, at |-> s]
  BY DEF ServerRetires, Table!Retire, Slot
<1>4. UNCHANGED <<slot, index_, served, kreg>> /\ index_ < MaxItems /\ spc' = "publish"
  BY DEF ServerRetires, Table!Retire
<1>5. \A a \in Table!Addr : /\ item'[a].key = item[a].key
                            /\ item[a].flag = 1 => item'[a].flag = 1
  <2>1. item \in [Table!Addr -> Table!Item]
    BY <1>1 DEF TypeOK, Table!TypeOK
  <2> QED
    BY <1>3, <2>1 DEF Table!Item
<1>6. item'[kreg.key].flag = 1
  <2>1. s \in Table!Holders(kreg.key)
    BY <1>3 DEF Table!FindsAt
  <2>2. CASE item[kreg.key].flag = 1
    BY <1>2, <1>5, <2>2
  <2>3. CASE item[kreg.key].flag = 0
    <3>1. slot[Table!Home(kreg.key)][s].addr = kreg.key
      BY <1>1, <1>2, <2>1, <2>3 DEF TableInv
    <3>2. item' = [item EXCEPT ![kreg.key].flag = 1]
      BY <1>3, <3>1
    <3>3. item \in [Table!Addr -> Table!Item]
      BY <1>1 DEF TypeOK, Table!TypeOK
    <3> QED
      BY <1>2, <3>2, <3>3 DEF Table!Item
  <2> QED
    BY <1>1, <1>2, <2>2, <2>3, Parts
<1>7. \A k \in Keys : item[k].flag # 0 => item'[k].flag = 1
  BY <1>1, <1>5, Parts, KeyFacts
<1>8. \A k \in Keys : Table!Holders(k)' = Table!Holders(k)
  <2>1. ASSUME NEW k \in Keys, NEW t \in Slot
        PROVE  slot[Table!Home(k)][t].addr # Table!Null =>
                 item'[slot[Table!Home(k)][t].addr].key = item[slot[Table!Home(k)][t].addr].key
    <3>1. slot[Table!Home(k)][t].addr \in Table!Addr \cup {Table!Null}
      BY <1>1, Homes, KeyFacts, Parts
    <3> QED
      BY <1>5, <3>1
  <2> QED
    BY <1>4, <2>1 DEF Table!Holders, Slot, Table!Home
<1>9. TableInv'
  <2>1. \A k \in Keys : item'[k].key = k
    BY <1>1, <1>5, KeyFacts DEF TableInv
  <2>2. ASSUME NEW k \in Keys, NEW t \in Slot, item'[k].flag = 0, t \in Table!Holders(k)'
        PROVE  slot'[Table!Home(k)][t].addr = k
    <3>1. item[k].flag = 0 /\ t \in Table!Holders(k)
      BY <1>7, <1>8, <2>2
    <3> QED
      BY <1>1, <1>4, <3>1 DEF TableInv
  <2>3. ASSUME NEW k \in Keys, Updated(k)' PROVE item'[k].flag = 1
    <3>1. Updated(k)
      BY <1>4, <2>3 DEF Updated
    <3>2. item[k].flag = 1
      BY <1>1, <3>1 DEF TableInv
    <3> QED
      BY <1>7, <3>2
  <2> QED
    BY <1>1, <1>4, <2>1, <2>2, <2>3 DEF TableInv, Table!Home
<1>10. UpdateInv'
  <2>1. update' # Table!NoUpdate /\ update'.key = kreg.key
    <3>1. kreg.key # Table!Missing
      BY <1>2 DEF Table!Missing
    <3> QED
      BY <1>3, <3>1 DEF Table!NoUpdate
  <2> QED
    BY <1>4, <1>6, <2>1 DEF UpdateInv
<1> QED
  BY <1>9, <1>10

\* The next item takes the key to a slot whose old item is flagged; the slots
\* of other keys point to items that are already in use.
LEMMA PublishKeeps ==
    ASSUME IInv, ServerPublishes
    PROVE  TableInv' /\ UpdateInv'
<1>1. TypeOK /\ TableInv /\ UpdateInv /\ cur \in Clients /\ spc = "publish"
  BY Parts DEF IInv, ServerPublishes
<1>2. PICK r \in Served : ServesOne(r) /\ r.as = Put /\ r.key = kreg.key
  BY PublishServes
<1>3. PICK j \in Keys, v \in Values, s \in Slot :
        /\ j = kreg.key
        /\ slot' = [slot EXCEPT ![Table!Home(j)][s].addr = index_]
        /\ item' = [item EXCEPT ![index_].key = j, ![index_].data = v]
  <2>1. update \in [key : Keys, data : Values, at : Slot] /\ update.key = kreg.key
    BY <1>1 DEF UpdateInv, TypeOK, Table!TypeOK, Slot
  <2>2. PICK j \in Keys, v \in Values, s \in Slot :
          update.key = j /\ update.data = v /\ update.at = s
    BY <2>1
  <2> QED
    BY <2>1, <2>2 DEF ServerPublishes, Table!Publish
<1>4. index_' = index_ + 1 /\ update' = Table!NoUpdate /\ spc' = "mark"
  BY DEF ServerPublishes, Table!Publish
<1>5. /\ index_ \in Nat /\ index_ < MaxItems /\ index_ \in Table!Addr
      /\ NumLoaded <= index_ /\ NumLoaded \in Nat /\ item[j].flag = 1
  <2>1. index_ \in Nat /\ index_ < MaxItems /\ item[j].flag = 1 /\ NumLoaded <= index_
    BY <1>1, <1>3, Parts DEF UpdateInv, TableInv
  <2> QED
    BY <2>1, KeyFacts DEF Table!Addr
<1>6. \A a \in Table!Addr : a # index_ => item'[a] = item[a]
  <2>1. item \in [Table!Addr -> Table!Item]
    BY <1>1 DEF TypeOK, Table!TypeOK
  <2> QED
    BY <1>3, <2>1
<1>7. item'[index_].key = j
  <2>1. item \in [Table!Addr -> Table!Item]
    BY <1>1 DEF TypeOK, Table!TypeOK
  <2> QED
    BY <1>3, <1>5, <2>1 DEF Table!Item
<1>8. \A k \in Keys : item'[k] = item[k] /\ k # index_
  BY <1>5, <1>6, KeyFacts
<1>9. ASSUME NEW b \in Bucket, NEW t \in Slot
      PROVE  IF b = Table!Home(j) /\ t = s THEN slot'[b][t].addr = index_
                                           ELSE slot'[b][t] = slot[b][t]
  <2>1. slot \in [Bucket -> [Slot -> [addr : Table!Addr \cup {Table!Null}, busy : {0, 1}]]]
    BY <1>1 DEF TypeOK, Table!TypeOK, Bucket, Slot
  <2>2. CASE b = Table!Home(j) /\ t = s
    <3>1. slot'[b][t] = [slot[b][t] EXCEPT !.addr = index_]
      BY <1>3, <2>1, <2>2
    <3> QED
      BY <2>1, <2>2, <3>1
  <2>3. CASE ~(b = Table!Home(j) /\ t = s)
    BY <1>3, <2>1, <2>3
  <2> QED
    BY <2>2, <2>3
<1>10. TableInv'
  <2>1. \A k \in Keys : item'[k].key = k
    BY <1>1, <1>8 DEF TableInv
  <2>2. ASSUME NEW b \in Bucket, NEW t \in Slot PROVE slot'[b][t].addr < index_'
    <3>1. slot[b][t].addr < index_ /\ slot[b][t].addr \in Table!Addr \cup {Table!Null}
      BY <1>1, Parts DEF TableInv
    <3>2. slot[b][t].addr < index_ + 1 /\ index_ < index_ + 1
      BY <1>5, <3>1 DEF Table!Addr, Table!Null
    <3>3. slot'[b][t].addr = index_ \/ slot'[b][t].addr = slot[b][t].addr
      BY <1>9
    <3> QED
      BY <1>4, <3>2, <3>3
  <2>3. ASSUME NEW k \in Keys, NEW t \in Slot, item'[k].flag = 0, t \in Table!Holders(k)'
        PROVE  slot'[Table!Home(k)][t].addr = k
    <3>1. k # j /\ item[k].flag = 0
      BY <1>5, <1>8, <2>3
    <3>2. Table!Home(k) \in Bucket
      BY Homes, KeyFacts
    <3>3. /\ slot'[Table!Home(k)][t].addr # Table!Null
          /\ item'[slot'[Table!Home(k)][t].addr].key = k
      BY <2>3 DEF Table!Holders, Table!Home
    <3>4. slot'[Table!Home(k)][t].addr # index_
      BY <1>7, <3>1, <3>3
    <3>5. slot'[Table!Home(k)][t] = slot[Table!Home(k)][t]
      BY <1>9, <3>2, <3>4
    <3>6. slot[Table!Home(k)][t].addr \in Table!Addr
      BY <1>1, <3>2, <3>3, <3>5, Parts
    <3>7. item[slot[Table!Home(k)][t].addr].key = k
      BY <1>6, <3>3, <3>4, <3>5, <3>6
    <3>8. t \in Table!Holders(k)
      BY <3>3, <3>5, <3>7 DEF Table!Holders, Slot
    <3> QED
      BY <1>1, <3>1, <3>5, <3>8 DEF TableInv
  <2>4. ASSUME NEW k \in Keys, Updated(k)' PROVE item'[k].flag = 1
    <3>1. Updated(k) \/ k = j
      BY <1>1, <1>2, <1>3, <2>4, UpdatedGrows
    <3> QED
      BY <1>1, <1>5, <1>8, <3>1 DEF TableInv
  <2>5. NumLoaded <= index_'
    BY <1>4, <1>5
  <2> QED
    BY <2>1, <2>2, <2>3, <2>4, <2>5 DEF TableInv, Table!Home
<1> QED
  BY <1>4, <1>10 DEF UpdateInv

\* What the invariant says of the table, after every step.
LEMMA TableNext == IInv /\ Next => TableInv' /\ UpdateInv'
<1> SUFFICES ASSUME IInv, Next PROVE TableInv' /\ UpdateInv' OBVIOUS
<1> USE DEF tableVars, clientVars, serverVars
<1>1. TypeOK /\ TableInv /\ UpdateInv
  BY DEF IInv
<1>2. ASSUME UNCHANGED <<slot, item, index_>>, \A k \in Keys : Updated(k)' => Updated(k)
      PROVE  TableInv'
  <2>1. \A k \in Keys : Table!Holders(k)' = Table!Holders(k)
    BY <1>2 DEF Table!Holders, Table!Home
  <2> QED
    BY <1>1, <1>2, <2>1 DEF TableInv, Table!Home
<1>3. ASSUME UNCHANGED <<tableVars, served>>,
             \/ UNCHANGED <<spc, kreg>>
             \/ spc # "publish" /\ spc' # "publish"
      PROVE  TableInv' /\ UpdateInv'
  <2>1. \A k \in Keys : Updated(k)' => Updated(k)
    BY <1>3 DEF Updated
  <2>2. UpdateInv'
    BY <1>1, <1>3 DEF UpdateInv
  <2> QED
    BY <1>2, <1>3, <2>1, <2>2
<1>4. CASE ServerTakesGet
  <2>1. PICK r \in Served : ServesOne(r) /\ r.as = Get
    BY <1>4, GetServes
  <2>2. \A k \in Keys : Updated(k)' => Updated(k)
    BY <1>1, <2>1, UpdatedGrows DEF Put, Get
  <2>3. UpdateInv'
    BY <1>1, <1>4 DEF ServerTakesGet, UpdateInv
  <2> QED
    BY <1>2, <1>4, <2>2, <2>3 DEF ServerTakesGet
<1>5. CASE ServerScan \/ ServerTestsPut \/ ServerTestsGet \/ ServerTakesPut
  BY <1>3, <1>5 DEF ServerScan, ServerTestsPut, ServerTestsGet, ServerTakesPut
<1>6. CASE ServerMark \/ ServerPost \/ ServerClear \/ ServerPoll
  BY <1>3, <1>6 DEF ServerMark, ServerPost, ServerClear, ServerPoll
<1>7. ASSUME NEW c \in Clients, Client(c) PROVE UNCHANGED <<tableVars, served, spc, kreg>>
  <2>1. ASSUME NEW k \in AskedKeys, PostPut(c, k) \/ PostGet(c, k)
        PROVE  UNCHANGED <<tableVars, served, spc, kreg>>
    BY <2>1, PostRequestDoes DEF PostPut, PostGet
  <2> QED
    BY <1>7, <2>1 DEF Client, PutCompletes, GetCompletes, ReadCompletes, ReadCached, Finish,
                      PostRead
<1>8. ASSUME NEW c \in Clients, Network(c) PROVE UNCHANGED <<tableVars, served, spc, kreg>>
  BY <1>8 DEF Network, DeliverRequest, DeliverItem, DeliverAck
<1>9. CASE Server
  BY <1>4, <1>5, <1>6, <1>9, RetireKeeps, PublishKeeps DEF Server
<1>10. ASSUME NEW c \in Clients, Client(c) \/ Network(c) PROVE TableInv' /\ UpdateInv'
  <2>1. UNCHANGED <<tableVars, served, spc, kreg>>
    BY <1>7, <1>8, <1>10
  <2> QED
    BY <1>3, <2>1
<1> QED
  BY <1>9, <1>10 DEF Next

-----------------------------------------------------------------------------
(* The way of a request *)

\* Last is the number of the last one served.
LEMMA LastGrows ==
    ASSUME TypeOK, NEW r \in Served, ServesOne(r)
    PROVE  /\ Last(cur)' = r.seq \/ cur' # cur
           /\ cur' = cur => Len(served'[cur]) = Len(served[cur]) + 1
           /\ \A d \in Clients : d # cur => served'[d] = served[d] /\ Last(d)' = Last(d)
<1>1. Len(served[cur]) \in Nat /\ Len(served'[cur]) = Len(served[cur]) + 1
      /\ served'[cur][Len(served[cur]) + 1] = r /\ served'[cur] # <<>>
  BY Parts, ServedGrows
<1> QED
  BY <1>1, ServedGrows DEF Last

\* The number of the last request served is a number.
LEMMA LastIsNat == ASSUME TypeOK, NEW c \in Clients PROVE Last(c) \in Nat
<1>1. served[c] \in Seq(Served)
  BY Parts
<1>2. CASE served[c] # <<>>
  <2>1. served[c][Len(served[c])] \in Served
    BY <1>1, <1>2, EmptySeq, ElementOfSeq
  <2> QED
    BY <1>2, <2>1 DEF Last, Served
<1> QED
  BY <1>2 DEF Last

\* A step of the server that moves no request leaves their order.
LEMMA LooksKeepOrder ==
    ASSUME UNCHANGED <<cpc, wire, area, asked, served, kreg>>,
           NEW d \in Clients, OrderInv(d),
           Taken(d)' => Taken(d), Waits(d)' => Waits(d)
    PROVE  OrderInv(d)'
<1>1. Last(d)' = Last(d)
  BY DEF Last
<1>2. Meant(d, wire[d])' = Meant(d, wire[d]) /\ Meant(d, area[d])' = Meant(d, area[d])
      /\ Meant(d, kreg)' = Meant(d, kreg)
  BY DEF Meant
<1> HIDE DEF Taken, Waits, Last, Meant
<1> QED
  BY <1>1, <1>2 DEF OrderInv

LEMMA LookOrder ==
    ASSUME IInv, NEW d \in Clients,
           \/ ServerScan \/ ServerTestsPut \/ ServerTestsGet
           \/ ServerRetires \/ ServerPost \/ ServerPoll
    PROVE  OrderInv(d)'
<1> USE DEF clientVars
<1>1. OrderInv(d)
  BY DEF IInv
<1>2. CASE ServerScan
  BY <1>1, <1>2, LooksKeepOrder DEF ServerScan, Taken, Waits, Seen, Done
<1>3. CASE ServerTestsPut
  BY <1>1, <1>3, LooksKeepOrder DEF ServerTestsPut, Taken, Waits, Seen, Done
<1>4. CASE ServerTestsGet
  BY <1>1, <1>4, LooksKeepOrder DEF ServerTestsGet, Taken, Waits, Seen, Done
<1>5. CASE ServerRetires
  BY <1>1, <1>5, LooksKeepOrder DEF ServerRetires, Taken, Waits, Seen, Done
<1>6. CASE ServerPost
  BY <1>1, <1>6, LooksKeepOrder DEF ServerPost, Taken, Waits, Seen, Done
<1>7. CASE ServerPoll
  BY <1>1, <1>7, LooksKeepOrder DEF ServerPoll, Taken, Waits, Seen, Done
<1> QED
  BY <1>2, <1>3, <1>4, <1>5, <1>6, <1>7

\* What the server writes into a slot leaves its number.
LEMMA MarkOrder ==
    ASSUME IInv, NEW d \in Clients, ServerMark \/ ServerClear
    PROVE  OrderInv(d)'
<1> USE DEF clientVars
<1>1. OrderInv(d) /\ TypeOK /\ cur \in Clients
  BY Parts DEF IInv
<1>2. /\ UNCHANGED <<cpc, wire, asked, served, kreg, cur>> /\ area'[d].seq = area[d].seq
      /\ d # cur => area'[d] = area[d]
      /\ ~Taken(d)' /\ (d = cur => ~Waits(d)')
  <2>1. area \in [Clients -> [req : 0 .. 2, key : Nat, seq : Nat]]
    BY <1>1 DEF TypeOK
  <2>2. CASE ServerMark
    BY <1>1, <2>1, <2>2 DEF ServerMark, Taken, Waits, Done
  <2>3. CASE ServerClear
    BY <1>1, <2>1, <2>3 DEF ServerClear, Taken, Waits, Seen
  <2> QED
    BY <2>2, <2>3
<1>3. Waits(d)' => Waits(d) /\ area'[d] = area[d]
  BY <1>2 DEF Waits, Seen, Done
<1>4. Last(d)' = Last(d) /\ Meant(d, wire[d])' = Meant(d, wire[d])
  BY <1>2 DEF Last, Meant
<1>5. area'[d] = area[d] => Meant(d, area[d])' = Meant(d, area[d])
  BY <1>2 DEF Meant
<1> HIDE DEF Taken, Waits, Last, Meant
<1> QED
  BY <1>1, <1>2, <1>3, <1>4, <1>5 DEF OrderInv

\* The server takes what is in the slot.
LEMMA TakeOrder ==
    ASSUME IInv, NEW d \in Clients, ServerTakesPut
    PROVE  OrderInv(d)'
<1> USE DEF clientVars
<1>1. OrderInv(d) /\ TypeOK /\ cur \in Clients
  BY Parts DEF IInv
<1>2. UNCHANGED <<cpc, wire, area, asked, served, cur>> /\ kreg' = area[cur] /\ spc' = "retire"
      /\ spc = "takePut"
  BY DEF ServerTakesPut
<1>3. Last(d)' = Last(d) /\ Meant(d, wire[d])' = Meant(d, wire[d])
      /\ Meant(d, area[d])' = Meant(d, area[d]) /\ (d = cur => Meant(d, kreg)' = Meant(d, area[d]))
  BY <1>2 DEF Last, Meant
<1>4. CASE d = cur
  <2>1. Waits(d) /\ Taken(d)'
    BY <1>2, <1>4 DEF Waits, Seen, Done, Taken
  <2> HIDE DEF Waits, Taken, Last, Meant
  <2>2. area[d].seq \in Nat
    BY <1>1, Parts
  <2> QED
    BY <1>1, <1>2, <1>3, <1>4, <2>1, <2>2 DEF OrderInv
<1>5. CASE d # cur
  <2>1. ~Taken(d)' /\ (Waits(d)' => Waits(d))
    BY <1>2, <1>5 DEF Waits, Seen, Done, Taken
  <2> HIDE DEF Waits, Taken, Last, Meant
  <2> QED
    BY <1>1, <1>2, <1>3, <2>1 DEF OrderInv
<1> QED
  BY <1>4, <1>5

\* What is served is newer than all that were served before.
LEMMA ServeOrder ==
    ASSUME IInv, NEW d \in Clients, ServerPublishes \/ ServerTakesGet
    PROVE  OrderInv(d)'
<1> USE DEF clientVars
<1>1. OrderInv(d) /\ OrderInv(cur) /\ TypeOK /\ cur \in Clients
  BY Parts DEF IInv
<1>2. UNCHANGED <<cpc, wire, area, asked, cur>> /\ spc' = "mark"
  BY DEF ServerPublishes, ServerTakesGet
<1>3. PICK r \in Served : ServesOne(r) /\ Last(cur) < r.seq /\ r.seq <= area[cur].seq
  <2>1. CASE ServerPublishes
    <3>1. Taken(cur)
      BY <2>1 DEF Taken, ServerPublishes
    <3> QED
      BY <1>1, <2>1, <3>1, PublishServes DEF OrderInv
  <2>2. CASE ServerTakesGet
    <3>1. Waits(cur)
      BY <2>2 DEF Waits, Seen, Done, ServerTakesGet
    <3>2. area[cur].seq \in Nat
      BY <1>1, Parts
    <3> QED
      BY <1>1, <2>2, <3>1, <3>2, GetServes DEF OrderInv
  <2> QED
    BY <2>1, <2>2
<1>4. ~Taken(d)' /\ (d = cur => ~Waits(d)')
  BY <1>2 DEF Taken, Waits, Done
<1>5. Meant(d, wire[d])' = Meant(d, wire[d]) /\ Meant(d, area[d])' = Meant(d, area[d])
  BY <1>2 DEF Meant
<1>6. CASE d = cur
  <2>1. /\ Last(cur)' = r.seq /\ Len(served'[cur]) = Len(served[cur]) + 1 /\ Last(cur) \in Nat
        /\ r.seq \in Nat /\ Len(served[cur]) \in Nat
    BY <1>1, <1>2, <1>3, LastGrows, LastIsNat, Parts DEF Served
  <2>2. Len(served'[cur]) <= Last(cur)'
    <3>1. Len(served[cur]) <= Last(cur)
      BY <1>1 DEF OrderInv
    <3> QED
      BY <1>3, <2>1, <3>1
  <2> HIDE DEF Taken, Waits, Last, Meant
  <2> QED
    BY <1>1, <1>2, <1>3, <1>4, <1>5, <1>6, <2>1, <2>2 DEF OrderInv
<1>7. CASE d # cur
  <2>1. served'[d] = served[d] /\ Last(d)' = Last(d)
    BY <1>1, <1>3, <1>7, LastGrows
  <2>2. Waits(d)' => Waits(d)
    BY <1>2, <1>7 DEF Waits, Seen, Done
  <2> HIDE DEF Taken, Waits, Last, Meant
  <2> QED
    BY <1>1, <1>2, <1>4, <1>5, <2>1, <2>2 DEF OrderInv
<1> QED
  BY <1>6, <1>7

\* The request just posted is the newest of its client.
LEMMA PostOrder ==
    ASSUME IInv, NEW d \in Clients, NEW c \in Clients, NEW k \in AskedKeys,
           PostPut(c, k) \/ PostGet(c, k)
    PROVE  OrderInv(d)'
<1>1. OrderInv(d) /\ TypeOK
  BY DEF IInv
<1>2. PICK kind \in {Put, Get} : PostRequest(c, kind, k)
  BY DEF PostPut, PostGet
<1>3. UNCHANGED <<area, served, spc, cur, kreg>>
  BY <1>2, PostRequestDoes DEF serverVars
<1>4. Last(d)' = Last(d) /\ Taken(d)' = Taken(d) /\ Waits(d)' = Waits(d)
  BY <1>3 DEF Last, Taken, Waits, Seen, Done
<1>5. CASE d # c
  <2>1. wire'[d] = wire[d] /\ asked'[d] = asked[d] /\ cpc'[d] = cpc[d]
    <3>1. cpc'[d] = cpc[d]
      BY <1>1, <1>5 DEF PostPut, PostGet, TypeOK
    <3> QED
      BY <1>1, <1>2, <1>5, <3>1, WireTakes, AskedGrows
  <2>2. Meant(d, wire[d])' = Meant(d, wire[d]) /\ Meant(d, area[d])' = Meant(d, area[d])
        /\ Meant(d, kreg)' = Meant(d, kreg)
    BY <1>3, <2>1 DEF Meant
  <2> HIDE DEF Taken, Waits, Last, Meant
  <2> QED
    BY <1>1, <1>3, <1>4, <2>1, <2>2 DEF OrderInv
<1>6. CASE d = c
  <2>1. Len(asked[d]) \in Nat /\ area[d].seq \in Nat /\ kreg.seq \in Nat
    BY <1>1, Parts
  <2>2. /\ asked'[d] \in Seq(Asking) /\ Len(asked'[d]) = Len(asked[d]) + 1
        /\ \A i \in 1 .. Len(asked[d]) : asked'[d][i] = asked[d][i]
        /\ asked'[d][Len(asked[d]) + 1] = [req |-> kind, key |-> k]
    BY <1>1, <1>2, <1>6, AskedGrows
  <2>3. wire'[d] = [req |-> kind, key |-> k, seq |-> Len(asked[d]) + 1]
    BY <1>1, <1>2, <1>6, WireTakes
  <2>4. cpc'[d] \in {"put", "get"}
    BY <1>1, <1>6 DEF PostPut, PostGet, TypeOK
  <2>5. asked'[d] # <<>>
    BY <2>1, <2>2, EmptySeq
  <2>6. Meant(d, wire[d])' /\ wire'[d].seq = Len(asked'[d])
    <3>1. wire'[d].req = kind /\ wire'[d].key = k /\ wire'[d].seq = Len(asked[d]) + 1
      BY <2>3
    <3>2. wire'[d].seq \in 1 .. Len(asked'[d])
      BY <2>1, <2>2, <3>1
    <3> QED
      BY <2>2, <3>1, <3>2 DEF Meant
  <2>7. /\ Meant(d, area[d]) => Meant(d, area[d])'
        /\ Meant(d, kreg) => Meant(d, kreg)'
    BY <1>3, <2>1, <2>2 DEF Meant
  <2>8. area'[d].seq < Len(asked'[d])
    BY <1>1, <1>3, <2>1, <2>2 DEF OrderInv
  <2>9. /\ Len(served'[d]) <= Last(d)' /\ Last(d)' <= area'[d].seq
        /\ Taken(d)' => Last(d)' < kreg'.seq /\ kreg'.seq <= area'[d].seq /\ Meant(d, kreg)
        /\ Waits(d)' => Last(d)' < area'[d].seq /\ Meant(d, area[d])
    <3> HIDE DEF Taken, Waits, Last, Meant
    <3> QED
      BY <1>1, <1>3, <1>4 DEF OrderInv
  <2>10. area'[d].seq <= Len(asked'[d])
    BY <1>3, <2>1, <2>2, <2>8
  <2> HIDE DEF Taken, Waits, Last, Meant
  <2> QED
    BY <2>4, <2>5, <2>6, <2>7, <2>8, <2>9, <2>10 DEF OrderInv
<1> QED
  BY <1>5, <1>6

\* The request on the wire is newer than the one that it replaces.
LEMMA DeliverOrder ==
    ASSUME IInv, NEW d \in Clients, NEW c \in Clients, DeliverRequest(c)
    PROVE  OrderInv(d)'
<1> USE DEF tableVars, serverVars
<1>1. OrderInv(d) /\ TypeOK
  BY DEF IInv
<1>2. UNCHANGED <<cpc, asked, served, spc, cur, kreg>>
  BY DEF DeliverRequest
<1>3. Last(d)' = Last(d) /\ Taken(d)' = Taken(d) /\ Meant(d, kreg)' = Meant(d, kreg)
  BY <1>2 DEF Last, Taken, Meant
<1>4. CASE d # c
  <2>1. wire'[d] = wire[d] /\ area'[d] = area[d]
    BY <1>1, <1>4 DEF DeliverRequest, TypeOK
  <2>2. Meant(d, wire[d])' = Meant(d, wire[d]) /\ Meant(d, area[d])' = Meant(d, area[d])
        /\ Waits(d)' = Waits(d)
    BY <1>2, <2>1 DEF Meant, Waits, Seen, Done
  <2> HIDE DEF Taken, Waits, Last, Meant
  <2> QED
    BY <1>1, <1>2, <1>3, <2>1, <2>2 DEF OrderInv
<1>5. CASE d = c
  <2>1. wire[d] # NoReq /\ wire'[d] = NoReq /\ area'[d] = wire[d]
    BY <1>1, <1>5 DEF DeliverRequest, TypeOK
  <2>2. Meant(d, wire[d]) /\ wire[d].seq = Len(asked[d]) /\ area[d].seq < Len(asked[d])
    BY <1>1, <2>1 DEF OrderInv
  <2>3. Meant(d, area[d])'
    BY <1>2, <2>1, <2>2 DEF Meant
  <2>4. area'[d].seq = Len(asked[d]) /\ Len(asked[d]) \in Nat /\ area[d].seq \in Nat
        /\ Last(d) \in Nat /\ kreg.seq \in Nat
    BY <1>1, <2>1, <2>2, Parts, LastIsNat
  <2> HIDE DEF Taken, Waits, Last, Meant
  <2>5. /\ Len(served'[d]) <= Last(d)' /\ Last(d)' <= area'[d].seq /\ Last(d)' < area'[d].seq
        /\ Taken(d)' => Last(d)' < kreg'.seq /\ kreg'.seq <= area'[d].seq /\ Meant(d, kreg)'
    BY <1>1, <1>2, <1>3, <2>2, <2>4 DEF OrderInv
  <2> QED
    BY <1>1, <1>2, <2>1, <2>3, <2>4, <2>5 DEF OrderInv
<1> QED
  BY <1>4, <1>5

\* The other steps of the clients and the network leave requests alone.
LEMMA OtherOrder ==
    ASSUME IInv, NEW d \in Clients, NEW c \in Clients,
           \/ PutCompletes(c) \/ GetCompletes(c) \/ ReadCompletes(c) \/ Finish(c)
           \/ DeliverItem(c) \/ DeliverAck(c) \/ \E k \in AskedKeys : ReadCached(c, k)
    PROVE  OrderInv(d)'
<1>1. OrderInv(d) /\ OrderInv(c) /\ TypeOK
  BY DEF IInv
<1>2. UNCHANGED <<wire, asked, area, served, spc, cur, kreg>>
  BY DEF PutCompletes, GetCompletes, ReadCompletes, Finish, DeliverItem, DeliverAck, ReadCached,
         PostRead, serverVars, clientVars
<1>3. Last(d)' = Last(d) /\ Taken(d)' = Taken(d) /\ Waits(d)' = Waits(d)
      /\ Meant(d, kreg)' = Meant(d, kreg) /\ Meant(d, wire[d])' = Meant(d, wire[d])
      /\ Meant(d, area[d])' = Meant(d, area[d])
  BY <1>2 DEF Last, Taken, Waits, Seen, Done, Meant
<1>4. cpc'[d] = cpc[d] \/ (cpc'[d] \notin {"put", "get"} /\ wire[d] = NoReq)
  <2>1. CASE DeliverItem(c) \/ DeliverAck(c)
    BY <2>1 DEF DeliverItem, DeliverAck, clientVars
  <2>2. CASE PutCompletes(c) \/ GetCompletes(c)
    BY <1>1, <2>2 DEF PutCompletes, GetCompletes, PostRead, TypeOK
  <2>3. CASE ReadCompletes(c) \/ Finish(c) \/ \E k \in AskedKeys : ReadCached(c, k)
    <3>1. wire[c] = NoReq
      BY <1>1, <2>3 DEF ReadCompletes, Finish, ReadCached, OrderInv
    <3> QED
      BY <1>1, <2>3, <3>1 DEF ReadCompletes, Finish, ReadCached, PostRead, TypeOK
  <2> QED
    BY <2>1, <2>2, <2>3
<1> HIDE DEF Taken, Waits, Last, Meant
<1> QED
  BY <1>1, <1>2, <1>3, <1>4 DEF OrderInv

LEMMA OrderNext == ASSUME IInv, Next, NEW d \in Clients PROVE OrderInv(d)'
<1>1. CASE Server
  BY <1>1, LookOrder, MarkOrder, TakeOrder, ServeOrder DEF Server
<1>2. ASSUME NEW c \in Clients, Client(c) PROVE OrderInv(d)'
  BY <1>2, PostOrder, OtherOrder DEF Client
<1>3. ASSUME NEW c \in Clients, Network(c) PROVE OrderInv(d)'
  BY <1>3, DeliverOrder, OtherOrder DEF Network
<1> QED
  BY <1>1, <1>2, <1>3 DEF Next

-----------------------------------------------------------------------------
(* Answers and reads *)

\* What the clients' steps leave alone.
LEMMA ClientLeaves ==
    ASSUME NEW c \in Clients, Client(c)
    PROVE  UNCHANGED <<tableVars, area, serverVars, ack, acked, raced>>
<1>1. ASSUME NEW k \in AskedKeys, PostPut(c, k) \/ PostGet(c, k)
      PROVE  UNCHANGED <<tableVars, area, serverVars, ack, acked, raced>>
  BY <1>1, PostRequestDoes DEF PostPut, PostGet
<1> QED
  BY <1>1 DEF Client, PutCompletes, GetCompletes, ReadCompletes, ReadCached, Finish, PostRead

\* Each service is answered once.
LEMMA AckNext == ASSUME IInv, Next, NEW d \in Clients PROVE AckInv(d)'
<1>1. AckInv(d) /\ AckInv(cur) /\ TypeOK /\ cur \in Clients
  BY Parts DEF IInv
<1>0. Len(served[d]) \in Nat /\ acked[d] \in Nat
  BY <1>1, Parts
<1>2. CASE ServerScan \/ ServerTestsPut \/ ServerTestsGet \/ ServerTakesPut \/ ServerRetires
  BY <1>1, <1>2 DEF ServerScan, ServerTestsPut, ServerTestsGet, ServerTakesPut, ServerRetires,
                    AckInv, clientVars
<1>3. CASE ServerMark \/ ServerClear \/ ServerPoll
  BY <1>1, <1>3 DEF ServerMark, ServerClear, ServerPoll, AckInv, clientVars
<1>4. CASE ServerPost
  <2>1. ack'[cur] = TRUE /\ \A c \in Clients : c # cur => ack'[c] = ack[c]
    BY <1>1, <1>4 DEF ServerPost, TypeOK
  <2>2. spc = "post" /\ spc' = "clear" /\ UNCHANGED <<cur, served, acked>>
    BY <1>4 DEF ServerPost, clientVars
  <2>3. CASE d = cur
    BY <1>1, <2>1, <2>2, <2>3 DEF AckInv
  <2>4. CASE d # cur
    BY <1>1, <2>1, <2>2, <2>4 DEF AckInv
  <2> QED
    BY <2>3, <2>4
<1>5. CASE ServerPublishes \/ ServerTakesGet
  <2>1. PICK r \in Served : ServesOne(r)
    BY <1>5, PublishServes, GetServes
  <2>2. spc \notin {"mark", "post", "clear", "poll"} /\ spc' = "mark" /\ UNCHANGED <<cur, ack, acked>>
    BY <1>5 DEF ServerPublishes, ServerTakesGet, clientVars
  <2>3. CASE d = cur
    <3>1. Len(served'[d]) = Len(served[d]) + 1
      BY <1>1, <2>1, <2>3, ServedGrows
    <3>2. ~ack[d] /\ Len(served[d]) = acked[d]
      BY <1>1, <2>2, <2>3 DEF AckInv
    <3> QED
      BY <2>2, <2>3, <3>1, <3>2 DEF AckInv
  <2>4. CASE d # cur
    <3>1. served'[d] = served[d]
      BY <1>1, <2>1, <2>4, ServedGrows
    <3> QED
      BY <1>1, <2>2, <2>4, <3>1 DEF AckInv
  <2> QED
    BY <2>3, <2>4
<1>6. ASSUME NEW c \in Clients, Client(c) PROVE AckInv(d)'
  <2>1. UNCHANGED <<served, spc, cur, ack, acked>>
    BY <1>6, ClientLeaves DEF serverVars
  <2> QED
    BY <1>1, <2>1 DEF AckInv
<1>7. ASSUME NEW c \in Clients, DeliverRequest(c) \/ DeliverItem(c) PROVE AckInv(d)'
  BY <1>1, <1>7 DEF DeliverRequest, DeliverItem, AckInv, serverVars
<1>8. ASSUME NEW c \in Clients, DeliverAck(c) PROVE AckInv(d)'
  <2>1. UNCHANGED <<served, spc, cur>> /\ ack[c]
    BY <1>8 DEF DeliverAck, serverVars
  <2>2. CASE d = c
    <3>1. ack'[d] = FALSE /\ acked'[d] = acked[d] + 1
      BY <1>1, <1>8, <2>2 DEF DeliverAck, TypeOK
    <3>2. spc \in {"clear", "poll"} /\ Len(served[d]) = acked[d] + 1
      BY <1>1, <2>1, <2>2 DEF AckInv
    <3> QED
      BY <2>1, <3>1, <3>2 DEF AckInv
  <2>3. CASE d # c
    <3>1. ack'[d] = ack[d] /\ acked'[d] = acked[d]
      BY <1>1, <1>8, <2>3 DEF DeliverAck, TypeOK
    <3> QED
      BY <1>1, <2>1, <3>1 DEF AckInv
  <2> QED
    BY <2>2, <2>3
<1>9. CASE Server
  BY <1>2, <1>3, <1>4, <1>5, <1>9 DEF Server
<1> QED
  BY <1>6, <1>7, <1>8, <1>9 DEF Next, Network

\* No client has more answers than it has made requests; while one is on its
\* way it has fewer.
LEMMA AnswersAreFew ==
    ASSUME IInv, NEW c \in Clients
    PROVE  ack[c] => acked[c] # Len(asked[c])
<1>1. TypeOK /\ AckInv(c) /\ OrderInv(c)
  BY DEF IInv
<1>2. /\ Len(served[c]) \in Nat /\ acked[c] \in Nat /\ Len(asked[c]) \in Nat
      /\ area[c].seq \in Nat /\ Last(c) \in Nat
  BY <1>1, Parts, LastIsNat
<1>3. Len(served[c]) <= Last(c) /\ Last(c) <= area[c].seq /\ area[c].seq <= Len(asked[c])
  BY <1>1 DEF OrderInv
<1>4. ack[c] => Len(served[c]) = acked[c] + 1
  BY <1>1 DEF AckInv
<1> QED
  BY <1>2, <1>3, <1>4

\* The flag of a loaded item stays set.
LEMMA FlagsStay ==
    ASSUME IInv, Next, NEW k \in Keys, item[k].flag = 1
    PROVE  item'[k].flag = 1
<1>1. TypeOK /\ TableInv /\ k \in Table!Addr /\ item \in [Table!Addr -> Table!Item]
  BY KeyFacts DEF IInv, TypeOK, Table!TypeOK
<1>2. CASE ServerRetires
  <2>1. PICK s \in Slot :
          item' = [item EXCEPT ![slot[Table!Home(kreg.key)][s].addr].flag = 1]
    BY <1>2 DEF ServerRetires, Table!Retire, Slot
  <2> QED
    BY <1>1, <2>1 DEF Table!Item
<1>3. CASE ServerPublishes
  <2>1. k # index_
    BY <1>1, KeyFacts, Parts DEF TableInv
  <2>2. item' = [item EXCEPT ![index_].key = update.key, ![index_].data = update.data]
    BY <1>3 DEF ServerPublishes, Table!Publish
  <2> QED
    BY <1>1, <2>1, <2>2
<1>4. CASE Server /\ ~ServerRetires /\ ~ServerPublishes
  BY <1>4 DEF Server, ServerScan, ServerTestsPut, ServerTestsGet, ServerTakesPut, ServerTakesGet,
              ServerMark, ServerPost, ServerClear, ServerPoll, tableVars
<1>5. ASSUME NEW c \in Clients, Client(c) \/ Network(c) PROVE UNCHANGED item
  <2>1. CASE Client(c)
    BY <2>1, ClientLeaves DEF tableVars
  <2>2. CASE Network(c)
    BY <2>2 DEF Network, DeliverRequest, DeliverItem, DeliverAck, tableVars
  <2> QED
    BY <1>5, <2>1, <2>2
<1> QED
  BY <1>2, <1>3, <1>4, <1>5 DEF Next

\* What a read starts as.
LEMMA ReadStarts ==
    ASSUME TypeOK, NEW c \in Clients, NEW k \in Keys, PostRead(c, k)
    PROVE  /\ read'[c].key = k /\ read'[c].landed = FALSE
           /\ read'[c].after = Updated(k)
           /\ read'[c].quiet = (acked[c] = Len(asked[c]))
           /\ \A d \in Clients : d # c => read'[d] = read[d] /\ cpc'[d] = cpc[d]
           /\ cpc'[c] = "reading"
           /\ UNCHANGED <<acked, asked, item>>
<1> DEFINE r == [NoRead EXCEPT !.key = k, !.landed = FALSE, !.after = Updated(k),
                               !.quiet = (acked[c] = Len(asked[c]))]
<1>1. r.key = k /\ r.landed = FALSE /\ r.after = Updated(k) /\ r.quiet = (acked[c] = Len(asked[c]))
  BY DEF NoRead
<1>2. read' = [read EXCEPT ![c] = r]
  BY DEF PostRead
<1> HIDE DEF r
<1>3. read'[c] = r /\ \A d \in Clients : d # c => read'[d] = read[d]
  BY <1>2 DEF TypeOK
<1>4. cpc'[c] = "reading" /\ \A d \in Clients : d # c => cpc'[d] = cpc[d]
  BY DEF PostRead, TypeOK
<1>5. UNCHANGED <<acked, asked, item>>
  BY DEF PostRead, tableVars
<1> QED
  BY <1>1, <1>3, <1>4, <1>5

\* A read that nothing touches keeps what it says.
LEMMA ReadStays ==
    ASSUME IInv, Next, NEW d \in Clients,
           read'[d] = read[d], acked'[d] = acked[d], asked'[d] = asked[d], resp'[d] = resp[d],
           cpc'[d] = cpc[d] \/ cpc'[d] \notin {"put", "get"}
    PROVE  ReadInv(d)'
<1>1. ReadInv(d) /\ TypeOK /\ read[d].key \in Keys
  BY Parts DEF IInv
<1>2. item[read[d].key].flag = 1 => item'[read[d].key].flag = 1
  BY <1>1, FlagsStay
<1> QED
  BY <1>1, <1>2 DEF ReadInv

\* A client asks: its last read is no longer quiet.
LEMMA PostReadInv ==
    ASSUME IInv, Next, NEW d \in Clients, NEW c \in Clients, NEW k \in AskedKeys,
           PostPut(c, k) \/ PostGet(c, k)
    PROVE  ReadInv(d)'
<1>1. ReadInv(d) /\ TypeOK
  BY DEF IInv
<1>2. PICK kind \in {Put, Get} : PostRequest(c, kind, k)
  BY DEF PostPut, PostGet
<1>3. UNCHANGED <<item, acked, resp>>
  BY <1>2, PostRequestDoes DEF tableVars
<1>4. CASE d # c
  <2>1. read'[d] = read[d] /\ asked'[d] = asked[d]
    BY <1>1, <1>2, <1>4, ReadIsOld, AskedGrows
  <2>2. cpc'[d] = cpc[d]
    BY <1>1, <1>4 DEF PostPut, PostGet, TypeOK
  <2> QED
    BY <1>3, <2>1, <2>2, ReadStays
<1>5. CASE d = c
  <2>1. /\ read'[d].quiet = FALSE
        /\ read'[d].key = read[d].key /\ read'[d].landed = read[d].landed
        /\ read'[d].found = read[d].found /\ read'[d].flag = read[d].flag
        /\ read'[d].after = read[d].after
    BY <1>1, <1>2, <1>5, ReadIsOld
  <2> QED
    BY <1>1, <1>3, <2>1 DEF ReadInv
<1> QED
  BY <1>4, <1>5

\* A read is posted after an update of its key: the item is flagged.
LEMMA StartReadInv ==
    ASSUME IInv, Next, NEW d \in Clients, NEW c \in Clients, NEW k \in Keys, PostRead(c, k),
           d # c => resp'[d] = resp[d]
    PROVE  ReadInv(d)'
<1>1. ReadInv(d) /\ TypeOK /\ TableInv
  BY DEF IInv
<1>2. CASE d # c
  BY <1>1, <1>2, ReadStarts, ReadStays
<1>3. CASE d = c
  <2>1. /\ read'[d].key = k /\ read'[d].landed = FALSE /\ read'[d].after = Updated(k)
        /\ read'[d].quiet = (acked[d] = Len(asked[d])) /\ cpc'[d] = "reading"
        /\ UNCHANGED <<acked, asked, item>>
    BY <1>1, <1>3, ReadStarts
  <2>2. Updated(k) => item'[k].flag = 1
    BY <1>1, <2>1 DEF TableInv
  <2> QED
    BY <2>1, <2>2 DEF ReadInv
<1> QED
  BY <1>2, <1>3

\* What a client has read, and reads.
LEMMA ReadNext == ASSUME IInv, Next, NEW d \in Clients PROVE ReadInv(d)'
<1>1. ReadInv(d) /\ TypeOK
  BY DEF IInv
<1>2. CASE Server
  <2>1. UNCHANGED <<read, acked, asked, resp, cpc>>
    BY <1>2 DEF Server, ServerScan, ServerTestsPut, ServerTestsGet, ServerTakesPut, ServerRetires,
                ServerPublishes, ServerTakesGet, ServerMark, ServerPost, ServerClear, ServerPoll,
                clientVars
  <2> QED
    BY <2>1, ReadStays
<1>3. ASSUME NEW c \in Clients, PutCompletes(c) PROVE ReadInv(d)'
  <2>1. UNCHANGED <<read, acked, asked, item>>
    BY <1>3 DEF PutCompletes, tableVars
  <2>2. CASE d # c
    <3>1. resp'[d] = resp[d] /\ cpc'[d] = cpc[d]
      BY <1>1, <1>3, <2>2 DEF PutCompletes, TypeOK
    <3> QED
      BY <2>1, <3>1, ReadStays
  <2>3. CASE d = c
    <3>1. ~read[d].quiet
      BY <1>1, <1>3, <2>3 DEF PutCompletes, ReadInv
    <3> QED
      BY <1>1, <2>1, <3>1 DEF ReadInv
  <2> QED
    BY <2>2, <2>3
<1>4. ASSUME NEW c \in Clients, GetCompletes(c) PROVE ReadInv(d)'
  <2>1. OrderInv(c) /\ asked[c] \in Seq(Asking)
    BY <1>1, Parts DEF IInv
  <2>2. asked[c] # <<>>
    BY <1>4, <2>1 DEF OrderInv, GetCompletes
  <2>3. asked[c][Len(asked[c])] \in Asking
    BY <2>1, <2>2, EmptySeq, ElementOfSeq
  <2>4. asked[c][Len(asked[c])].key \in Keys
    BY <2>3, KeyFacts DEF Asking
  <2>5. d # c => resp'[d] = resp[d]
    BY <1>1, <1>4 DEF GetCompletes, TypeOK
  <2> QED
    BY <1>4, <2>4, <2>5, StartReadInv DEF GetCompletes
<1>5. ASSUME NEW c \in Clients, NEW k \in AskedKeys, ReadCached(c, k) PROVE ReadInv(d)'
  BY <1>5, StartReadInv, KeyFacts DEF ReadCached
<1>6. ASSUME NEW c \in Clients, ReadCompletes(c) \/ Finish(c) PROVE ReadInv(d)'
  <2>1. UNCHANGED <<read, acked, asked, resp>>
    BY <1>6 DEF ReadCompletes, Finish
  <2>2. cpc'[d] = cpc[d] \/ cpc'[d] \notin {"put", "get"}
    BY <1>1, <1>6 DEF ReadCompletes, Finish, TypeOK
  <2> QED
    BY <2>1, <2>2, ReadStays
<1>7. ASSUME NEW c \in Clients, DeliverRequest(c) PROVE ReadInv(d)'
  BY <1>7, ReadStays DEF DeliverRequest
<1>8. ASSUME NEW c \in Clients, DeliverItem(c) PROVE ReadInv(d)'
  <2>1. UNCHANGED <<acked, asked, cpc, item>>
    BY <1>8 DEF DeliverItem, tableVars
  <2>2. CASE d # c
    <3>1. read'[d] = read[d] /\ resp'[d] = resp[d]
      BY <1>1, <1>8, <2>2 DEF DeliverItem, TypeOK
    <3> QED
      BY <2>1, <3>1, ReadStays
  <2>3. CASE d = c
    <3> DEFINE r == [read[d] EXCEPT !.landed = TRUE, !.found = item[read[d].key].key,
                                    !.flag = item[read[d].key].flag]
    <3>1. read' = [read EXCEPT ![d] = r] /\ read \in [Clients ->
            [key : Keys, landed : BOOLEAN, found : Nat, flag : {0, 1},
             after : BOOLEAN, quiet : BOOLEAN]]
      <4>1. read \in [Clients -> [key : Keys, landed : BOOLEAN, found : Nat, flag : {0, 1},
                                  after : BOOLEAN, quiet : BOOLEAN]]
        BY <1>1 DEF TypeOK
      <4> QED
        BY <1>8, <2>3, <4>1 DEF DeliverItem
    <3>2. /\ r.key = read[d].key /\ r.after = read[d].after /\ r.quiet = read[d].quiet
          /\ r.landed = TRUE /\ r.found = item[read[d].key].key
          /\ r.flag = item[read[d].key].flag
      BY <1>1, Parts
    <3> HIDE DEF r
    <3>3. read'[d] = r
      BY <3>1
    <3>4. resp'[d] = "item"
      BY <1>1, <1>8, <2>3 DEF DeliverItem, TypeOK
    <3>5. item[read[d].key].key = read[d].key
      BY <1>1, Parts DEF IInv, TableInv
    <3> QED
      BY <1>1, <2>1, <3>2, <3>3, <3>4, <3>5 DEF ReadInv
  <2> QED
    BY <2>2, <2>3
<1>9. ASSUME NEW c \in Clients, DeliverAck(c) PROVE ReadInv(d)'
  <2>1. UNCHANGED <<read, asked, cpc, item>>
    BY <1>9 DEF DeliverAck, tableVars, clientVars
  <2>2. CASE d # c
    <3>1. acked'[d] = acked[d] /\ resp'[d] = resp[d]
      BY <1>1, <1>9, <2>2 DEF DeliverAck, TypeOK
    <3> QED
      BY <2>1, <3>1, ReadStays
  <2>3. CASE d = c
    <3>1. ~read[d].quiet
      BY <1>1, <1>9, <2>3, AnswersAreFew DEF DeliverAck, ReadInv
    <3> QED
      BY <1>1, <2>1, <3>1 DEF ReadInv
  <2> QED
    BY <2>2, <2>3
<1>10. ASSUME NEW c \in Clients, Client(c) PROVE ReadInv(d)'
  BY <1>3, <1>4, <1>5, <1>6, <1>10, PostReadInv DEF Client
<1>11. ASSUME NEW c \in Clients, Network(c) PROVE ReadInv(d)'
  BY <1>7, <1>8, <1>9, <1>11 DEF Network
<1> QED
  BY <1>2, <1>10, <1>11 DEF Next

-----------------------------------------------------------------------------
(* Requests that met only free slots *)

\* The kind that the server acts on is the kind of the request.
LEMMA KindNext == ASSUME IInv, Next, NEW d \in Clients PROVE KindInv(d)'
<1>1. KindInv(d) /\ TypeOK /\ cur \in Clients
  BY Parts DEF IInv
<1>2. CASE ServerScan \/ ServerTestsPut \/ ServerTestsGet \/ ServerTakesPut \/ ServerRetires
  BY <1>1, <1>2 DEF ServerScan, ServerTestsPut, ServerTestsGet, ServerTakesPut, ServerRetires,
                    KindInv, clientVars, IsPut, IsGet
<1>3. CASE ServerPublishes \/ ServerTakesGet \/ ServerMark \/ ServerPost \/ ServerClear \/ ServerPoll
  <2>1. spc' \notin {"takePut", "takeGet", "retire", "publish"}
    BY <1>3 DEF ServerPublishes, ServerTakesGet, ServerMark, ServerPost, ServerClear, ServerPoll
  <2> QED
    BY <2>1 DEF KindInv
<1>4. ASSUME NEW c \in Clients, Client(c) PROVE KindInv(d)'
  <2>1. UNCHANGED <<area, spc, cur, kreg, raced>>
    BY <1>4, ClientLeaves DEF serverVars
  <2> QED
    BY <1>1, <2>1 DEF KindInv
<1>5. ASSUME NEW c \in Clients, DeliverItem(c) \/ DeliverAck(c) PROVE KindInv(d)'
  BY <1>1, <1>5 DEF DeliverItem, DeliverAck, KindInv, serverVars
<1>6. ASSUME NEW c \in Clients, DeliverRequest(c) PROVE KindInv(d)'
  <2>1. UNCHANGED <<spc, cur, kreg>>
    BY <1>6 DEF DeliverRequest, serverVars
  <2>2. CASE d = c
    <3>1. ~raced'[d] => ~raced[d] /\ ~(cur = d /\ spc \in AtSlot)
      BY <1>1, <1>6, <2>2 DEF DeliverRequest, TypeOK
    <3> QED
      BY <2>1, <3>1 DEF KindInv, AtSlot
  <2>3. CASE d # c
    <3>1. area'[d] = area[d] /\ raced'[d] = raced[d]
      BY <1>1, <1>6, <2>3 DEF DeliverRequest, TypeOK
    <3> QED
      BY <1>1, <2>1, <3>1 DEF KindInv
  <2> QED
    BY <2>2, <2>3
<1>7. CASE Server
  BY <1>2, <1>3, <1>7 DEF Server
<1> QED
  BY <1>4, <1>5, <1>6, <1>7 DEF Next, Network

\* PacedRequestsAreKept of one client.
IsServed(c, n) == \E i \in 1 .. Len(served[c]) : served[c][i].seq = n
AsAsked(c) == \A i \in 1 .. Len(served[c]) : served[c][i].as = served[c][i].req
Kept(c) == \A n \in 1 .. Len(asked[c]) :
              wire[c].seq # n /\ asked[c][n].key # 0 => IsServed(c, n) \/ n \in Pending(c)

LEMMA PacedIsKept ==
    PacedRequestsAreKept <=> \A c \in Clients : ~raced[c] => AsAsked(c) /\ Kept(c)
  BY DEF PacedRequestsAreKept, AsAsked, Kept, IsServed

\* A step that serves nothing keeps what is pending.
LEMMA PendingStays ==
    ASSUME IInv, NEW d \in Clients,
           UNCHANGED <<wire, asked, served, raced>>, Pending(d) \subseteq Pending(d)'
    PROVE  ~raced'[d] => AsAsked(d)' /\ Kept(d)'
<1>1. ~raced[d] => AsAsked(d) /\ Kept(d)
  BY PacedIsKept DEF IInv
<1>2. AsAsked(d)' = AsAsked(d) /\ \A n \in Nat : IsServed(d, n)' = IsServed(d, n)
  BY DEF AsAsked, IsServed
<1>3. Kept(d) => Kept(d)'
  BY <1>2 DEF Kept
<1> QED
  BY <1>1, <1>2, <1>3

\* The server's steps that serve nothing.
LEMMA LookKeeps ==
    ASSUME IInv, NEW d \in Clients, Server, ~ServerPublishes, ~ServerTakesGet
    PROVE  ~raced'[d] => AsAsked(d)' /\ Kept(d)'
<1> USE DEF clientVars
<1>0. TypeOK /\ cur \in Clients
  BY Parts DEF IInv
<1>1. CASE ServerScan \/ ServerTestsPut \/ ServerTestsGet
  <2>1. Pending(d) \subseteq Pending(d)' /\ UNCHANGED <<wire, asked, served, raced>>
    BY <1>1 DEF ServerScan, ServerTestsPut, ServerTestsGet, Pending
  <2> QED
    BY <2>1, PendingStays
<1>2. CASE ServerTakesPut
  <2>1. UNCHANGED <<wire, asked, served, raced, area, cur>> /\ spc = "takePut" /\ spc' = "retire"
        /\ kreg' = area[cur]
    BY <1>2 DEF ServerTakesPut
  <2>2. Pending(d) \subseteq Pending(d)'
    BY <2>1 DEF Pending
  <2> QED
    BY <2>1, <2>2, PendingStays
<1>3. CASE ServerRetires \/ ServerPost \/ ServerPoll
  <2>1. Pending(d) \subseteq Pending(d)' /\ UNCHANGED <<wire, asked, served, raced>>
    BY <1>3 DEF ServerRetires, ServerPost, ServerPoll, Pending
  <2> QED
    BY <2>1, PendingStays
<1>4. CASE ServerMark \/ ServerClear
  <2>1. UNCHANGED <<wire, asked, served, raced, cur>> /\ (d # cur => area'[d] = area[d])
        /\ spc \in {"mark", "clear"} /\ spc' \in {"post", "poll"}
    BY <1>0, <1>4 DEF ServerMark, ServerClear, TypeOK
  <2>2. Pending(d) \subseteq Pending(d)'
    BY <2>1 DEF Pending
  <2> QED
    BY <2>1, <2>2, PendingStays
<1> QED
  BY <1>1, <1>2, <1>3, <1>4 DEF Server

\* A service of the request that was pending, as what it is.
LEMMA ServeKeeps ==
    ASSUME IInv, NEW d \in Clients, ServerPublishes \/ ServerTakesGet
    PROVE  ~raced'[d] => AsAsked(d)' /\ Kept(d)'
<1>1. TypeOK /\ cur \in Clients /\ KindInv(d) /\ (~raced[d] => AsAsked(d) /\ Kept(d))
  BY Parts, PacedIsKept DEF IInv
<1>2. UNCHANGED <<wire, asked, raced, cur, area>> /\ spc' = "mark"
  BY DEF ServerPublishes, ServerTakesGet, clientVars
<1>3. PICK r \in Served : /\ ServesOne(r)
                          /\ Pending(cur) \subseteq {r.seq}
                          /\ d = cur /\ ~raced[d] => r.as = r.req
  <2>1. CASE ServerPublishes
    <3>1. spc = "publish"
      BY <2>1 DEF ServerPublishes
    <3>2. PICK r \in Served : ServesOne(r) /\ r.as = Put /\ r.req = kreg.req /\ r.seq = kreg.seq
      BY <2>1, PublishServes
    <3>3. Pending(cur) \subseteq {r.seq}
      BY <3>1, <3>2 DEF Pending
    <3>4. d = cur /\ ~raced[d] => r.as = r.req
      BY <1>1, <3>1, <3>2 DEF KindInv
    <3> QED
      BY <3>2, <3>3, <3>4
  <2>2. CASE ServerTakesGet
    <3>1. spc = "takeGet"
      BY <2>2 DEF ServerTakesGet
    <3>2. PICK r \in Served :
            ServesOne(r) /\ r.as = Get /\ r.req = area[cur].req /\ r.seq = area[cur].seq
      BY <2>2, GetServes
    <3>3. Pending(cur) \subseteq {r.seq}
      BY <3>1, <3>2 DEF Pending
    <3>4. d = cur /\ ~raced[d] => r.as = r.req
      BY <1>1, <3>1, <3>2 DEF KindInv
    <3> QED
      BY <3>2, <3>3, <3>4
  <2> QED
    BY <2>1, <2>2
<1>4. CASE d # cur
  <2>1. served'[d] = served[d]
    BY <1>1, <1>3, <1>4, ServedGrows
  <2>2. Pending(d)' = Pending(d)
    BY <1>2, <1>4 DEF Pending
  <2> QED
    BY <1>1, <1>2, <2>1, <2>2 DEF AsAsked, Kept, IsServed
<1>5. CASE d = cur
  <2>1. /\ Len(served[d]) \in Nat /\ Len(served'[d]) = Len(served[d]) + 1
        /\ \A i \in 1 .. Len(served[d]) : served'[d][i] = served[d][i]
        /\ served'[d][Len(served[d]) + 1] = r
    BY <1>1, <1>3, <1>5, ServedGrows, Parts
  <2>2. \A i \in 1 .. Len(served'[d]) : i \in 1 .. Len(served[d]) \/ i = Len(served[d]) + 1
    BY <2>1
  <2>3. ~raced[d] => AsAsked(d)'
    BY <1>1, <1>3, <1>5, <2>1, <2>2 DEF AsAsked
  <2>4. \A n \in Nat : IsServed(d, n) => IsServed(d, n)'
    BY <2>1 DEF IsServed
  <2>5. IsServed(d, r.seq)'
    <3>1. Len(served[d]) + 1 \in 1 .. Len(served'[d])
      BY <2>1
    <3> QED
      BY <2>1, <3>1 DEF IsServed
  <2>6. \A n \in Pending(d) : IsServed(d, n)'
    BY <1>3, <1>5, <2>5
  <2>7. Kept(d) => Kept(d)'
    BY <1>2, <2>4, <2>6 DEF Kept
  <2> QED
    BY <1>1, <1>2, <2>3, <2>7
<1> QED
  BY <1>4, <1>5

\* A new request is on the wire; the last one has left it.
LEMMA PostKeeps ==
    ASSUME IInv, NEW d \in Clients, NEW c \in Clients, NEW k \in AskedKeys,
           PostPut(c, k) \/ PostGet(c, k)
    PROVE  ~raced'[d] => AsAsked(d)' /\ Kept(d)'
<1>1. TypeOK /\ OrderInv(d) /\ (~raced[d] => AsAsked(d) /\ Kept(d))
  BY PacedIsKept DEF IInv
<1>2. PICK kind \in {Put, Get} : PostRequest(c, kind, k)
  BY DEF PostPut, PostGet
<1>3. UNCHANGED <<area, served, spc, cur, kreg, raced>>
  BY <1>2, PostRequestDoes DEF serverVars
<1>4. Pending(d)' = Pending(d) /\ AsAsked(d)' = AsAsked(d)
      /\ \A n \in Nat : IsServed(d, n)' = IsServed(d, n)
  BY <1>3 DEF Pending, AsAsked, IsServed
<1>5. CASE d # c
  <2>1. wire'[d] = wire[d] /\ asked'[d] = asked[d]
    BY <1>1, <1>2, <1>5, WireTakes, AskedGrows
  <2> QED
    BY <1>1, <1>3, <1>4, <2>1 DEF Kept
<1>6. CASE d = c
  <2>1. /\ Len(asked[d]) \in Nat /\ Len(asked'[d]) = Len(asked[d]) + 1
        /\ \A i \in 1 .. Len(asked[d]) : asked'[d][i] = asked[d][i]
    BY <1>1, <1>2, <1>6, AskedGrows, Parts
  <2>0. wire'[d] = [req |-> kind, key |-> k, seq |-> Len(asked[d]) + 1]
    BY <1>1, <1>2, <1>6, WireTakes
  <2>2. wire[d].seq = -1
    <3>1. cpc[d] = "ready"
      BY <1>6 DEF PostPut, PostGet
    <3> QED
      BY <1>1, <3>1 DEF OrderInv, NoReq
  <2>3. wire'[d].seq = Len(asked[d]) + 1
    BY <2>0
  <2>4. ASSUME Kept(d), NEW n \in 1 .. Len(asked'[d]), wire'[d].seq # n, asked'[d][n].key # 0
        PROVE  IsServed(d, n)' \/ n \in Pending(d)'
    <3>1. n \in 1 .. Len(asked[d]) /\ n \in Nat
      BY <2>1, <2>3, <2>4
    <3>2. wire[d].seq # n /\ asked[d][n].key # 0
      BY <2>1, <2>2, <2>4, <3>1
    <3> QED
      BY <1>4, <2>4, <3>1, <3>2 DEF Kept
  <2> HIDE DEF AsAsked, IsServed, Pending
  <2>5. Kept(d) => Kept(d)'
    BY <2>4 DEF Kept
  <2> QED
    BY <1>1, <1>3, <1>4, <2>5
<1> QED
  BY <1>5, <1>6

\* A request that lands in a free slot is pending, or is for key 0.
LEMMA DeliverKeeps ==
    ASSUME IInv, NEW d \in Clients, NEW c \in Clients, DeliverRequest(c)
    PROVE  ~raced'[d] => AsAsked(d)' /\ Kept(d)'
<1> USE DEF tableVars, serverVars
<1>1. TypeOK /\ OrderInv(d) /\ (~raced[d] => AsAsked(d) /\ Kept(d))
  BY PacedIsKept DEF IInv
<1>2. UNCHANGED <<asked, served, spc, cur, kreg>>
  BY DEF DeliverRequest
<1>3. AsAsked(d)' = AsAsked(d) /\ \A n \in Nat : IsServed(d, n)' = IsServed(d, n)
  BY <1>2 DEF AsAsked, IsServed
<1>4. CASE d # c
  <2>1. wire'[d] = wire[d] /\ area'[d] = area[d] /\ raced'[d] = raced[d]
    BY <1>1, <1>4 DEF DeliverRequest, TypeOK
  <2>2. Pending(d)' = Pending(d)
    BY <1>2, <2>1 DEF Pending
  <2> QED
    BY <1>1, <1>2, <1>3, <2>1, <2>2 DEF Kept
<1>5. CASE d = c
  <2>1. /\ wire[d] # NoReq /\ wire'[d] = NoReq /\ area'[d] = wire[d]
        /\ ~raced'[d] => ~raced[d] /\ area[d].key = 0 /\ ~(cur = d /\ spc \in AtSlot)
    BY <1>1, <1>5 DEF DeliverRequest, TypeOK
  <2>2. Meant(d, wire[d]) /\ wire[d].seq = Len(asked[d])
    BY <1>1, <2>1 DEF OrderInv
  <2>3. ASSUME ~raced'[d] PROVE Pending(d) = {}
                                /\ (wire[d].key # 0 => wire[d].seq \in Pending(d)')
    BY <1>2, <2>1, <2>3 DEF Pending, AtSlot
  <2>4. ASSUME ~raced'[d], NEW n \in 1 .. Len(asked'[d]), asked'[d][n].key # 0
        PROVE  IsServed(d, n)' \/ n \in Pending(d)'
    <3>1. n \in 1 .. Len(asked[d]) /\ n \in Nat /\ asked[d][n].key # 0
      BY <1>1, <1>2, <2>4, Parts
    <3>2. CASE wire[d].seq = n
      <4>1. asked[d][n].key = wire[d].key
        BY <2>2, <3>2 DEF Meant
      <4> QED
        BY <2>3, <2>4, <3>1, <3>2, <4>1
    <3>3. CASE wire[d].seq # n
      <4>1. IsServed(d, n)
        BY <1>1, <2>1, <2>3, <2>4, <3>1, <3>3 DEF Kept
      <4> QED
        BY <1>3, <3>1, <4>1
    <3> QED
      BY <3>2, <3>3
  <2> HIDE DEF AsAsked, IsServed, Pending
  <2>5. ~raced'[d] => Kept(d)'
    BY <2>4 DEF Kept
  <2> QED
    BY <1>1, <1>3, <2>1, <2>5
<1> QED
  BY <1>4, <1>5

LEMMA PacedNext == ASSUME IInv, Next PROVE PacedRequestsAreKept'
<1>1. SUFFICES ASSUME NEW d \in Clients PROVE ~raced'[d] => AsAsked(d)' /\ Kept(d)'
  BY DEF PacedRequestsAreKept, AsAsked, Kept, IsServed
<1>2. CASE Server
  BY <1>2, LookKeeps, ServeKeeps
<1>3. ASSUME NEW c \in Clients,
             \/ PutCompletes(c) \/ GetCompletes(c) \/ ReadCompletes(c) \/ Finish(c)
             \/ DeliverItem(c) \/ DeliverAck(c) \/ \E k \in AskedKeys : ReadCached(c, k)
      PROVE  ~raced'[d] => AsAsked(d)' /\ Kept(d)'
  <2>1. UNCHANGED <<wire, asked, area, served, spc, cur, kreg, raced>>
    BY <1>3 DEF PutCompletes, GetCompletes, ReadCompletes, Finish, DeliverItem, DeliverAck,
                ReadCached, PostRead, serverVars, clientVars
  <2>2. Pending(d)' = Pending(d)
    BY <2>1 DEF Pending
  <2> QED
    BY <2>1, <2>2, PendingStays
<1>4. ASSUME NEW c \in Clients, Client(c) \/ Network(c)
      PROVE  ~raced'[d] => AsAsked(d)' /\ Kept(d)'
  BY <1>3, <1>4, PostKeeps, DeliverKeeps DEF Client, Network
<1> QED
  BY <1>2, <1>4 DEF Next
-----------------------------------------------------------------------------
\* Every step of the store keeps the inductive invariant.
LEMMA NextInv == IInv /\ [Next]_vars => IInv'
<1> SUFFICES ASSUME IInv, [Next]_vars PROVE IInv' OBVIOUS
<1>1. CASE Next
  <2>1. TypeOK' /\ TableInv' /\ UpdateInv' /\ PacedRequestsAreKept'
    BY <1>1, TypeNext, TableNext, PacedNext
  <2>2. ASSUME NEW d \in Clients PROVE OrderInv(d)' /\ AckInv(d)' /\ ReadInv(d)' /\ KindInv(d)'
    BY <1>1, OrderNext, AckNext, ReadNext, KindNext
  <2> QED
    BY <2>1, <2>2 DEF IInv
<1>2. CASE UNCHANGED vars
  <2> USE <1>2 DEF vars, tableVars, clientVars, serverVars
  <2>1. TypeOK'
    BY DEF IInv, TypeOK, Table!TypeOK
  <2>2. TableInv' /\ UpdateInv'
    BY DEF IInv, TableInv, UpdateInv, Updated, Table!Holders, Table!Home
  <2>3. PacedRequestsAreKept'
    BY DEF IInv, PacedRequestsAreKept, Pending
  <2>4. ASSUME NEW d \in Clients PROVE OrderInv(d)' /\ AckInv(d)' /\ ReadInv(d)' /\ KindInv(d)'
    <3>1. OrderInv(d) /\ AckInv(d) /\ ReadInv(d) /\ KindInv(d)
      BY DEF IInv
    <3>2. OrderInv(d)'
      BY <3>1 DEF OrderInv, Meant, Last, Taken, Waits, Seen, Done
    <3> QED
      BY <3>1, <3>2 DEF AckInv, ReadInv, KindInv
  <2> QED
    BY <2>1, <2>2, <2>3, <2>4 DEF IInv
<1> QED
  BY <1>1, <1>2

\* The invariant that the theorems below rest on holds in every execution of
\* HydraDB's run_client and run_server.
THEOREM Invariance == Spec => []IInv
<1> QED BY InitInv, NextInv, PTL DEF Spec

\* Every variable keeps its type.
THEOREM TypeCorrect == Spec => []TypeOK
<1>1. IInv => TypeOK  BY DEF IInv
<1> QED BY <1>1, Invariance, PTL

\* What a client finds at the index of a key, when it reads there without
\* asking the server, is an item of the key, whatever updates there were.
THEOREM IndexFindsKey == Spec => []LocationsStay
<1>1. IInv => LocationsStay  BY DEF IInv, ReadInv, LocationsStay
<1> QED BY <1>1, Invariance, PTL

\* A read after an update of the key finds the flag that update_hash_key set.
THEOREM StaleIsFlagged == Spec => []UpdatedIsFlagged
<1>1. IInv => UpdatedIsFlagged  BY DEF IInv, ReadInv, UpdatedIsFlagged
<1> QED BY <1>1, Invariance, PTL

\* No late acknowledgement of run_server lands on an item that a client with
\* all its answers has read.
THEOREM QuietReadIsKept == Spec => []QuietReadStays
<1>1. IInv => QuietReadStays  BY DEF IInv, ReadInv, QuietReadStays
<1> QED BY <1>1, Invariance, PTL

\* run_server loses no request of a client that writes only into a free slot,
\* and serves each as the PUT or GET that it is.
THEOREM PacedAreServed == Spec => []PacedRequestsAreKept
<1>1. IInv => PacedRequestsAreKept  BY DEF IInv
<1> QED BY <1>1, Invariance, PTL

-----------------------------------------------------------------------------
(* The log of requests *)

\* A service of the n-th request of c adds it to the log, as it was asked.
LEMMA LogGrows ==
    ASSUME IInv, NEW r \in Served, ServesOne(r), cur \in Clients,
           Meant(cur, r), Last(cur) < r.seq, UNCHANGED asked
    PROVE  Log!Apply(cur, r.seq)
<1> DEFINE e == [key |-> asked[cur][r.seq], seq |-> r.seq]
<1>1. TypeOK
  BY DEF IInv
<1>2. /\ Len(served[cur]) \in Nat /\ Len(served'[cur]) = Len(served[cur]) + 1
      /\ \A i \in 1 .. Len(served[cur]) : served'[cur][i] = served[cur][i]
      /\ served'[cur][Len(served[cur]) + 1] = r
      /\ \A d \in Clients : d # cur => served'[d] = served[d]
  BY <1>1, ServedGrows, Parts
<1>3. e = [key |-> [req |-> r.req, key |-> r.key], seq |-> r.seq]
  BY DEF Meant
<1> DEFINE f(s, i) == [key |-> [req |-> s[i].req, key |-> s[i].key], seq |-> s[i].seq]
<1>4. /\ Answered[cur] = [i \in 1 .. Len(served[cur]) |-> f(served[cur], i)]
      /\ Answered'[cur] = [i \in 1 .. Len(served'[cur]) |-> f(served'[cur], i)]
  BY DEF Answered
<1>5. \A d \in Clients : d # cur => Answered'[d] = Answered[d]
  BY <1>2 DEF Answered
<1>6. /\ \A i \in 1 .. Len(served[cur]) : f(served'[cur], i) = f(served[cur], i)
      /\ f(served'[cur], Len(served[cur]) + 1) = e
  BY <1>2, <1>3
<1> HIDE DEF f, e
<1>7. Answered[cur] \in Seq({f(served[cur], i) : i \in 1 .. Len(served[cur])})
      /\ Len(Answered[cur]) = Len(served[cur])
  BY <1>2, <1>4
<1>8. Answered'[cur] = Append(Answered[cur], e)
  <2>1. Append(Answered[cur], e) =
          [i \in 1 .. Len(served[cur]) + 1 |-> IF i <= Len(served[cur]) THEN Answered[cur][i] ELSE e]
    BY <1>7
  <2>2. \A i \in 1 .. Len(served[cur]) + 1 :
          f(served'[cur], i) = IF i <= Len(served[cur]) THEN Answered[cur][i] ELSE e
    <3>1. ASSUME NEW i \in 1 .. Len(served[cur]) + 1, i <= Len(served[cur])
          PROVE  f(served'[cur], i) = Answered[cur][i]
      BY <1>2, <1>4, <1>6, <3>1
    <3>2. ASSUME NEW i \in 1 .. Len(served[cur]) + 1, ~(i <= Len(served[cur]))
          PROVE  f(served'[cur], i) = e
      <4>1. i = Len(served[cur]) + 1
        BY <1>2, <3>2
      <4> QED
        BY <1>6, <4>1
    <3> QED
      BY <3>1, <3>2
  <2> QED
    BY <1>2, <1>4, <2>1, <2>2
<1>9. Answered' = [Answered EXCEPT ![cur] = Append(@, e)]
  BY <1>5, <1>8 DEF Answered
<1>10. Log!LastApplied(cur) = Last(cur)
  <2>1. served[cur] \in Seq(Served)
    BY <1>1, Parts
  <2>2. CASE served[cur] = <<>>
    <3>1. Len(Answered[cur]) = 0
      BY <1>7, <2>2
    <3>2. Answered[cur] = <<>>
      BY <1>7, <3>1, EmptySeq
    <3> QED
      BY <2>2, <3>2 DEF Log!LastApplied, Last
  <2>3. CASE served[cur] # <<>>
    <3>1. Len(served[cur]) \in 1 .. Len(served[cur]) /\ Len(served[cur]) # 0
      BY <2>1, <2>3, EmptySeq
    <3>2. Answered[cur] # <<>>
      BY <1>7, <3>1
    <3>3. Answered[cur][Len(Answered[cur])] = f(served[cur], Len(served[cur]))
      BY <1>4, <1>7, <3>1
    <3>4. f(served[cur], Len(served[cur])).seq = served[cur][Len(served[cur])].seq
      BY DEF f
    <3> QED
      BY <2>3, <3>2, <3>3, <3>4 DEF Log!LastApplied, Last
  <2> QED
    BY <2>2, <2>3
<1>11. r.seq \in Log!LastApplied(cur) + 1 .. Len(asked[cur])
  <2>1. Last(cur) \in Nat /\ r.seq \in 1 .. Len(asked[cur]) /\ Len(asked[cur]) \in Nat
    BY <1>1, LastIsNat, Parts DEF Meant
  <2> QED
    BY <1>10, <2>1
<1> QED
  BY <1>9, <1>11 DEF Log!Apply, e

\* A request asked and a request served are steps of the log; no other step
\* changes it.
LEMMA StepRefines == IInv /\ [Next]_vars => [Log!LogNext]_(Log!logVars)
<1> SUFFICES ASSUME IInv, [Next]_vars PROVE [Log!LogNext]_(Log!logVars) OBVIOUS
<1> USE DEF Log!logVars
<1>1. TypeOK /\ cur \in Clients /\ OrderInv(cur)
  <2>1. TypeOK /\ cur \in Clients
    BY Parts DEF IInv
  <2> QED
    BY <2>1 DEF IInv
<1>2. ASSUME UNCHANGED <<asked, served>> PROVE UNCHANGED <<asked, Answered>>
  BY <1>2 DEF Answered
<1>3. CASE ServerPublishes \/ ServerTakesGet
  <2>1. UNCHANGED asked
    BY <1>3 DEF ServerPublishes, ServerTakesGet, clientVars
  <2>2. PICK r \in Served : ServesOne(r) /\ Meant(cur, r) /\ Last(cur) < r.seq
    <3>1. CASE ServerPublishes
      <4>1. Meant(cur, kreg) /\ Last(cur) < kreg.seq
        BY <1>1, <3>1 DEF OrderInv, Taken, ServerPublishes
      <4>2. PICK r \in Served : /\ ServesOne(r) /\ r.req = kreg.req /\ r.key = kreg.key
                                /\ r.seq = kreg.seq
        BY <3>1, PublishServes
      <4> QED
        BY <4>1, <4>2 DEF Meant
    <3>2. CASE ServerTakesGet
      <4>1. Meant(cur, area[cur]) /\ Last(cur) < area[cur].seq
        BY <1>1, <3>2 DEF OrderInv, Waits, Seen, Done, ServerTakesGet
      <4>2. PICK r \in Served : /\ ServesOne(r) /\ r.req = area[cur].req
                                /\ r.key = area[cur].key /\ r.seq = area[cur].seq
        BY <3>2, GetServes
      <4> QED
        BY <4>1, <4>2 DEF Meant
    <3> QED
      BY <1>3, <3>1, <3>2
  <2>3. Log!Apply(cur, r.seq) /\ r.seq \in 1 .. Len(asked[cur])
    BY <1>1, <2>1, <2>2, LogGrows DEF Meant
  <2> QED
    BY <1>1, <2>3 DEF Log!LogNext
<1>4. ASSUME Server, ~ServerPublishes, ~ServerTakesGet PROVE UNCHANGED <<asked, served>>
  BY <1>4 DEF Server, ServerScan, ServerTestsPut, ServerTestsGet, ServerTakesPut, ServerRetires,
              ServerMark, ServerPost, ServerClear, ServerPoll, clientVars
<1>5. ASSUME NEW c \in Clients, NEW k \in AskedKeys, PostPut(c, k) \/ PostGet(c, k)
      PROVE  Log!LogNext
  <2>1. PICK kind \in {Put, Get} : PostRequest(c, kind, k)
    BY <1>5 DEF PostPut, PostGet
  <2> DEFINE q == [req |-> kind, key |-> k]
  <2>2. q \in Asking
    BY DEF Asking
  <2>3. asked' = [asked EXCEPT ![c] = Append(@, q)] /\ UNCHANGED served
    BY <2>1, PostRequestDoes DEF serverVars
  <2> HIDE DEF q
  <2>4. Log!Ask(c, q)
    BY <2>3 DEF Log!Ask, Answered
  <2> QED
    BY <2>2, <2>4 DEF Log!LogNext
<1>6. ASSUME NEW c \in Clients,
             \/ PutCompletes(c) \/ GetCompletes(c) \/ ReadCompletes(c) \/ Finish(c)
             \/ Network(c) \/ \E k \in AskedKeys : ReadCached(c, k)
      PROVE  UNCHANGED <<asked, served>>
  BY <1>6 DEF PutCompletes, GetCompletes, ReadCompletes, Finish, Network, DeliverRequest,
              DeliverItem, DeliverAck, ReadCached, PostRead, serverVars, clientVars
<1>7. CASE UNCHANGED vars
  BY <1>2, <1>7 DEF vars, clientVars, serverVars
<1>8. CASE Server
  BY <1>2, <1>3, <1>4, <1>8
<1>9. ASSUME NEW c \in Clients, Client(c) \/ Network(c) PROVE [Log!LogNext]_(Log!logVars)
  BY <1>2, <1>5, <1>6, <1>9 DEF Client
<1> QED
  BY <1>7, <1>8, <1>9 DEF Next

\* Clients and server of HydraDB implement the log of PutLog, for requests of
\* both kinds: whatever lands between the server's looks at a slot, it serves
\* each request at most once, in order and for its key.
THEOREM StoreImplementsLog == Spec => ImplementsLog
<1>1. Init => Log!LogInit
  <2>1. Init => served = [c \in Clients |-> <<>>] /\ asked = [c \in Clients |-> <<>>]
    BY DEF Init
  <2>2. ASSUME Init PROVE Answered = [c \in Clients |-> <<>>]
    <3>1. \A c \in Clients : Len(served[c]) = 0
      BY <2>1, <2>2
    <3> QED
      BY <3>1 DEF Answered
  <2> QED
    BY <2>1, <2>2 DEF Log!LogInit
<1> QED BY <1>1, Invariance, StepRefines, PTL DEF Spec, ImplementsLog, Log!LogSpec
=============================================================================
