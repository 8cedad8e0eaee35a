------------------------------ MODULE FarmProofs ------------------------------
(***************************************************************************)
(* Proofs about the two ways in which a client of FaRM reaches a server.   *)
(*                                                                         *)
(* Requests (FarmChannel), for any number of clients, any keys and any     *)
(* accept order: the server applies the requests of a client at most once, *)
(* in program order and as they were posted, and so implements PutLog.     *)
(* The argument is IInv of FarmChannel: wherever a request waits, it is    *)
(* newer than all that were applied.                                       *)
(*                                                                         *)
(* One-sided reads (FarmBucket), for any number of values of c_ver and any *)
(* number of writes. The stores of an update come in any order, so the     *)
(* fields are related to the number of the write: ReadsInv says which of   *)
(* the stores each field has seen, and what a read that goes through the   *)
(* fields has learnt at each of them.                                      *)
(***************************************************************************)
EXTENDS FarmChannel, FarmBucket, SequenceTheorems, TLAPS

-----------------------------------------------------------------------------
\* Advancing i stays among the slots.
LEMMA NextSlotType == \A i \in Clients : NextSlot(i) \in Clients
  BY ClientsAssumption DEF NextSlot, Clients

\* The initial state satisfies the inductive invariant.
LEMMA InitInv == Init => IInv
<1> SUFFICES ASSUME Init PROVE IInv OBVIOUS
<1> USE DEF Init, Empty, NoReq, NoAck, Clients
<1>1. 0 \in Clients  BY ClientsAssumption
<1>2. TypeOK  BY <1>1, ClientsAssumption DEF TypeOK, Serving, AcceptOrders, Request
<1>3. WireIsNewest /\ SlotIsNewer /\ RegisterIsNewer
  BY DEF WireIsNewest, SlotIsNewer, RegisterIsNewer
<1>4. SlotsBounded /\ AppliedWasAsked /\ AppliedInOrder
  BY DEF SlotsBounded, AppliedWasAsked, AppliedInOrder
<1> QED BY <1>2, <1>3, <1>4 DEF IInv

\* Posting a request leaves the earlier ones of its client where they are.
LEMMA PostPutInv ==
  ASSUME IInv, NEW c \in Clients, NEW k \in Keys, PostPut(c, k)
  PROVE  IInv'
<1> USE DEF PostPut, serverVars
<1>1. TypeOK  BY DEF IInv
<1>2. asked[c] \in Seq(Keys) /\ Len(asked[c]) \in Nat  BY <1>1 DEF TypeOK
<1>0. PICK r \in Request : r = [key |-> k, seq |-> Len(asked[c]) + 1]
  <2>1. Len(asked[c]) + 1 \in Nat \ {0}  BY <1>2
  <2>2. [key |-> k, seq |-> Len(asked[c]) + 1] \in Request  BY <2>1 DEF Request
  <2> QED BY <2>2
<1>3. /\ Append(asked[c], k) \in Seq(Keys)
      /\ Len(Append(asked[c], k)) = Len(asked[c]) + 1
      /\ \A i \in 1 .. Len(asked[c]) : Append(asked[c], k)[i] = asked[c][i]
      /\ Append(asked[c], k)[Len(asked[c]) + 1] = k
  BY <1>2, AppendProperties
<1>4. TypeOK'
  <2>1. wire' = [wire EXCEPT ![c] = r]  BY <1>0
  <2>2. asked' \in [Clients -> Seq(Keys)]  BY <1>1, <1>3 DEF TypeOK
  <2>3. wire' \in [Clients -> Request \cup {NoReq}]  BY <2>1, <1>1 DEF TypeOK
  <2>4. cpc' \in [Clients -> {"ready", "posted", "await", "reading", "finished"}]
    BY <1>1 DEF TypeOK
  <2> QED BY <2>2, <2>3, <2>4, <1>1 DEF TypeOK
<1>5. asked'[c] = Append(asked[c], k) /\ \A d \in Clients : d # c => asked'[d] = asked[d]
  BY <1>1 DEF TypeOK
<1>6. ASSUME NEW d \in Clients
      PROVE  Len(asked[d]) \in Nat /\ Len(asked'[d]) >= Len(asked[d])
             /\ \A i \in 1 .. Len(asked[d]) : asked'[d][i] = asked[d][i]
  <2>1. CASE d = c  BY <2>1, <1>2, <1>3, <1>5
  <2>2. CASE d # c
    <3>1. Len(asked[d]) \in Nat  BY <1>1 DEF TypeOK
    <3> QED BY <2>2, <3>1, <1>5
  <2> QED BY <2>1, <2>2
<1>7. ASSUME NEW d \in Clients, NEW q, Newer(d, q) PROVE Newer(d, q)'
  BY <1>7, <1>6 DEF Newer
<1>8. Newer(c, r)'
  <2>1. \A i \in 1 .. Len(applied[c]) : applied[c][i].seq \in 1 .. Len(asked[c])
    BY DEF IInv, AppliedWasAsked
  <2>2. \A i \in 1 .. Len(applied[c]) : applied[c][i].seq < r.seq
    BY <2>1, <1>0, <1>2
  <2> QED BY <2>2, <1>0, <1>2, <1>3, <1>5 DEF Newer
<1>9. \A d \in Clients : slot[d].seq <= Len(asked[d]) /\ slot[d].seq \in Nat
  BY <1>1 DEF IInv, SlotsBounded, TypeOK
<1>10. WireIsNewest'
  <2> SUFFICES ASSUME NEW d \in Clients, wire'[d] # NoReq
               PROVE  /\ Newer(d, wire[d])'
                      /\ slot'[d].seq < wire'[d].seq
                      /\ (cur' = d /\ spc' = "update") => kreg'.seq < wire'[d].seq
    BY DEF WireIsNewest
  <2>1. CASE d = c
    <3>1. wire'[d] = r  BY <2>1, <1>0, <1>1 DEF TypeOK
    <3>2. (cur = c /\ spc = "update") => kreg.seq \in 1 .. Len(asked[c])
      BY DEF IInv, RegisterIsNewer, Newer
    <3> QED BY <2>1, <3>1, <3>2, <1>0, <1>2, <1>8, <1>9
  <2>2. CASE d # c
    <3>1. wire'[d] = wire[d]  BY <2>2, <1>1 DEF TypeOK
    <3> QED BY <2>2, <3>1, <1>7 DEF IInv, WireIsNewest
  <2> QED BY <2>1, <2>2
<1>11. SlotIsNewer'  BY <1>7 DEF IInv, SlotIsNewer
<1>12. RegisterIsNewer'  BY <1>7, <1>1 DEF IInv, RegisterIsNewer, TypeOK
<1>13. SlotsBounded'  BY <1>6, <1>9 DEF SlotsBounded
<1>14. AppliedWasAsked'  BY <1>6 DEF IInv, AppliedWasAsked
<1>15. AppliedInOrder'  BY DEF IInv, AppliedInOrder
<1> QED BY <1>4, <1>10, <1>11, <1>12, <1>13, <1>14, <1>15 DEF IInv

\* Where the request lands in its slot it stays newer than what was applied.
LEMMA DeliverPutInv ==
  ASSUME IInv, NEW c \in Clients, DeliverPut(c)
  PROVE  IInv'
<1> USE DEF DeliverPut, serverVars
<1>1. TypeOK  BY DEF IInv
<1>2. /\ wire[c] # NoReq /\ wire[c] \in Request
      /\ slot'[c] = wire[c] /\ wire'[c] = NoReq
      /\ \A d \in Clients : d # c => slot'[d] = slot[d] /\ wire'[d] = wire[d]
  BY <1>1 DEF TypeOK
<1>3. wire[c].seq \in Nat \ {0} /\ wire[c].key \in Nat
  BY <1>2, KeysAssumption DEF Request
<1>4. TypeOK'
  BY <1>1, <1>2, <1>3, KeysAssumption DEF TypeOK, Request, Serving
<1>5. Newer(c, wire[c])  BY <1>2 DEF IInv, WireIsNewest
<1>6. WireIsNewest'  BY <1>2 DEF IInv, WireIsNewest, Newer
<1>7. SlotIsNewer'  BY <1>2, <1>3, <1>5 DEF IInv, SlotIsNewer, Newer
<1>8. RegisterIsNewer'  BY <1>1, <1>2, <1>3 DEF IInv, RegisterIsNewer, Newer, TypeOK
<1>9. SlotsBounded'  BY <1>2, <1>5 DEF IInv, SlotsBounded, Newer
<1>10. AppliedWasAsked' /\ AppliedInOrder'  BY DEF IInv, AppliedWasAsked, AppliedInOrder
<1> QED BY <1>4, <1>6, <1>7, <1>8, <1>9, <1>10 DEF IInv

\* The steps of the clients and the network that touch no request.
LEMMA OtherClientInv ==
  ASSUME IInv, NEW c \in Clients,
         \/ PutCompletes(c) \/ AwaitAck(c) \/ \E k \in GetKeys : PostGet(c, k)
         \/ GetCompletes(c) \/ Finish(c) \/ DeliverBuckets(c) \/ DeliverAck(c)
  PROVE  IInv'
<1> USE DEF serverVars, clientVars
<1>1. TypeOK  BY DEF IInv
<1>2. UNCHANGED <<conn, wire, slot, spc, cur, kreg, asked, applied>>
  BY DEF PutCompletes, AwaitAck, PostGet, GetCompletes, Finish, DeliverBuckets, DeliverAck
<1>3. TypeOK'
  <2>1. CASE PutCompletes(c) \/ GetCompletes(c) \/ Finish(c)
    BY <2>1, <1>1 DEF TypeOK, PutCompletes, GetCompletes, Finish
  <2>2. CASE AwaitAck(c)  BY <2>2, <1>1 DEF TypeOK, AwaitAck
  <2>3. ASSUME NEW k \in GetKeys, PostGet(c, k) PROVE TypeOK'
    <3>1. k \in Nat  BY KeysAssumption
    <3> QED BY <2>3, <3>1, <1>1 DEF TypeOK, PostGet
  <2>4. CASE DeliverBuckets(c)
    <3>1. read[c] \in [key : Nat, landed : BOOLEAN]  BY <1>1 DEF TypeOK
    <3>2. read'[c] = [read[c] EXCEPT !.landed = TRUE]  BY <2>4, <1>1 DEF DeliverBuckets, TypeOK
    <3>3. read' \in [Clients -> [key : Nat, landed : BOOLEAN]]
      BY <2>4, <1>1 DEF DeliverBuckets, TypeOK
    <3>4. resp' \in [Clients -> Nat]  BY <2>4, <3>1, <1>1 DEF DeliverBuckets, TypeOK
    <3> QED BY <2>4, <3>3, <3>4, <1>1 DEF TypeOK, DeliverBuckets
  <2>5. CASE DeliverAck(c)
    <3>1. ack[c] \in Nat /\ conn[c] \in Clients  BY <2>5, <1>1 DEF DeliverAck, TypeOK
    <3>2. acked \in [Clients -> Nat]  BY <1>1 DEF TypeOK
    <3>3. resp' \in [Clients -> Nat]  BY <2>5, <3>1, <1>1 DEF TypeOK, DeliverAck
    <3>5. acked' \in [Clients -> Nat]  BY <2>5, <3>1, <3>2 DEF DeliverAck
    <3>4. ack' \in [Clients -> Nat \cup {NoAck}]  BY <2>5, <1>1 DEF TypeOK, DeliverAck
    <3> QED BY <2>5, <3>3, <3>4, <3>5, <1>1 DEF TypeOK, DeliverAck
  <2> QED BY <2>1, <2>2, <2>3, <2>4, <2>5
<1>4. /\ WireIsNewest' /\ SlotIsNewer' /\ RegisterIsNewer' /\ SlotsBounded'
      /\ AppliedWasAsked' /\ AppliedInOrder'
  BY <1>2 DEF IInv, WireIsNewest, SlotIsNewer, RegisterIsNewer, SlotsBounded, Newer,
              AppliedWasAsked, AppliedInOrder
<1> QED BY <1>3, <1>4 DEF IInv

\* Scanning a slot and reading it: what the server copies into k is newer.
LEMMA ServerScanInv ==
  ASSUME IInv, ServerScan
  PROVE  IInv'
<1> USE DEF ServerScan, clientVars
<1>1. TypeOK  BY DEF IInv
<1>2. cur \in Clients /\ NextSlot(cur) \in Clients /\ cur' \in Clients
  BY <1>1, NextSlotType DEF TypeOK
<1>3. /\ spc = "scan" /\ spc' \in {"scan", "read"}
      /\ spc' = "read" => cur' = cur /\ slot[cur].key # 0
      /\ UNCHANGED <<wire, slot, kreg, asked, applied>>
  OBVIOUS
<1>4. TypeOK'  BY <1>1, <1>2 DEF TypeOK
<1>5. WireIsNewest'  BY <1>3 DEF IInv, WireIsNewest, Newer
<1>6. SlotIsNewer'  BY <1>3 DEF IInv, SlotIsNewer, Newer, Serving
<1>7. RegisterIsNewer'  BY <1>2, <1>3 DEF IInv, RegisterIsNewer, SlotIsNewer, Serving
<1>8. SlotsBounded' /\ AppliedWasAsked' /\ AppliedInOrder'
  BY <1>3 DEF IInv, SlotsBounded, AppliedWasAsked, AppliedInOrder
<1> QED BY <1>4, <1>5, <1>6, <1>7, <1>8 DEF IInv

\* The second access to the slot: what it finds is not older than what the
\* first one found.
LEMMA ServerReadInv ==
  ASSUME IInv, ServerRead
  PROVE  IInv'
<1> USE DEF ServerRead, clientVars
<1>1. TypeOK /\ cur \in Clients  BY DEF IInv, TypeOK
<1>2. Newer(cur, slot[cur])
  BY <1>1 DEF IInv, RegisterIsNewer, SlotIsNewer, Serving
<1>3. TypeOK'  BY <1>1 DEF TypeOK, Serving
<1>4. WireIsNewest'  BY DEF IInv, WireIsNewest, Newer
<1>5. SlotIsNewer'  BY DEF IInv, SlotIsNewer, Newer, Serving
<1>6. RegisterIsNewer'  BY <1>2 DEF RegisterIsNewer, Newer
<1>7. SlotsBounded' /\ AppliedWasAsked' /\ AppliedInOrder'
  BY DEF IInv, SlotsBounded, AppliedWasAsked, AppliedInOrder
<1> QED BY <1>3, <1>4, <1>5, <1>6, <1>7 DEF IInv

\* Applying k: it goes after all that were applied, and before what the wire
\* carries; the slot it came from is in service until it is emptied.
LEMMA ServerUpdateInv ==
  ASSUME IInv, ServerUpdate
  PROVE  IInv'
<1> USE DEF ServerUpdate, clientVars
<1>1. TypeOK /\ cur \in Clients  BY DEF IInv, TypeOK
<1>2. Newer(cur, kreg)  BY DEF IInv, RegisterIsNewer
<1>3. asked[cur] \in Seq(Keys) /\ applied[cur] \in Seq(Request)  BY <1>1 DEF TypeOK
<1>4. kreg \in Request
  <2>1. kreg \in [key : Nat, seq : Nat]  BY <1>1 DEF TypeOK
  <2>2. kreg.seq \in 1 .. Len(asked[cur]) /\ kreg.key = asked[cur][kreg.seq]
    BY <1>2 DEF Newer
  <2>3. kreg.key \in Keys /\ kreg.seq \in Nat \ {0}  BY <2>2, <1>3
  <2> QED BY <2>1, <2>3 DEF Request
<1>5. CASE kreg.key \notin Loaded
  <2>1. UNCHANGED <<wire, slot, cur, kreg, asked, applied>> /\ spc = "update" /\ spc' = "mark"
    BY <1>5
  <2>2. TypeOK'  BY <1>1, <1>5 DEF TypeOK, Serving
  <2>3. WireIsNewest' /\ SlotIsNewer' /\ RegisterIsNewer'
    BY <2>1 DEF IInv, WireIsNewest, SlotIsNewer, RegisterIsNewer, Newer, Serving
  <2>4. SlotsBounded' /\ AppliedWasAsked' /\ AppliedInOrder'
    BY <2>1 DEF IInv, SlotsBounded, AppliedWasAsked, AppliedInOrder
  <2> QED BY <2>2, <2>3, <2>4 DEF IInv
<1>6. CASE kreg.key \in Loaded
  <2>1. /\ applied' = [applied EXCEPT ![cur] = Append(@, kreg)]
        /\ UNCHANGED <<wire, slot, cur, kreg, asked>> /\ spc = "update" /\ spc' = "mark"
    BY <1>6
  <2>2. /\ Append(applied[cur], kreg) \in Seq(Request)
        /\ Len(Append(applied[cur], kreg)) = Len(applied[cur]) + 1
        /\ \A i \in 1 .. Len(applied[cur]) : Append(applied[cur], kreg)[i] = applied[cur][i]
        /\ Append(applied[cur], kreg)[Len(applied[cur]) + 1] = kreg
    BY <1>3, <1>4, AppendProperties
  <2>3. /\ applied'[cur] = Append(applied[cur], kreg)
        /\ \A d \in Clients : d # cur => applied'[d] = applied[d]
    BY <2>1, <1>1 DEF TypeOK
  <2>4. Len(applied[cur]) \in Nat  BY <1>3
  <2>5. TypeOK'
    <3>1. applied' \in [Clients -> Seq(Request)]  BY <2>1, <2>2, <1>1 DEF TypeOK
    <3> QED BY <3>1, <1>1, <2>1 DEF TypeOK, Serving
  <2>6. ASSUME NEW i \in 1 .. Len(applied'[cur])
        PROVE  \/ i \in 1 .. Len(applied[cur]) /\ applied'[cur][i] = applied[cur][i]
               \/ i = Len(applied[cur]) + 1 /\ applied'[cur][i] = kreg
    BY <2>2, <2>3, <2>4
  <2>7. ASSUME NEW d \in Clients, NEW q, Newer(d, q), d = cur => kreg.seq < q.seq
        PROVE  Newer(d, q)'
    <3>1. CASE d = cur
      <4>1. \A i \in 1 .. Len(applied'[cur]) : applied'[cur][i].seq < q.seq
        BY <2>6, <2>7, <3>1 DEF Newer
      <4> QED BY <4>1, <2>7, <3>1, <2>1 DEF Newer
    <3>2. CASE d # cur
      BY <2>3, <2>7, <3>2, <2>1 DEF Newer
    <3> QED BY <3>1, <3>2
  <2>8. WireIsNewest'  BY <2>1, <2>7 DEF IInv, WireIsNewest
  <2>9. SlotIsNewer'  BY <2>1, <2>7 DEF IInv, SlotIsNewer, Serving
  <2>10. RegisterIsNewer' /\ SlotsBounded'
    BY <2>1 DEF IInv, RegisterIsNewer, SlotsBounded
  <2>11. AppliedWasAsked'
    <3> SUFFICES ASSUME NEW d \in Clients, NEW i \in 1 .. Len(applied'[d])
                 PROVE  /\ applied'[d][i].seq \in 1 .. Len(asked[d])
                        /\ applied'[d][i].key = asked[d][applied'[d][i].seq]
      BY <2>1 DEF AppliedWasAsked
    <3>1. CASE d = cur
      BY <2>6, <3>1, <1>2 DEF IInv, AppliedWasAsked, Newer
    <3>2. CASE d # cur
      BY <2>3, <3>2 DEF IInv, AppliedWasAsked
    <3> QED BY <3>1, <3>2
  <2>12. AppliedInOrder'
    <3> SUFFICES ASSUME NEW d \in Clients, NEW i \in 1 .. Len(applied'[d]),
                        NEW j \in 1 .. Len(applied'[d]), i < j
                 PROVE  applied'[d][i].seq < applied'[d][j].seq
      BY DEF AppliedInOrder
    <3>1. CASE d = cur
      <4>1. i \in 1 .. Len(applied[cur]) /\ applied'[cur][i] = applied[cur][i]
        BY <2>2, <2>3, <2>4, <3>1
      <4>2. CASE j \in 1 .. Len(applied[cur]) /\ applied'[cur][j] = applied[cur][j]
        BY <4>1, <4>2, <3>1 DEF IInv, AppliedInOrder
      <4>3. CASE applied'[cur][j] = kreg
        BY <4>1, <4>3, <3>1, <1>2 DEF Newer
      <4> QED BY <4>2, <4>3, <2>6, <3>1
    <3>2. CASE d # cur
      BY <2>3, <3>2 DEF IInv, AppliedInOrder
    <3> QED BY <3>1, <3>2
  <2> QED BY <2>5, <2>8, <2>9, <2>10, <2>11, <2>12 DEF IInv
<1> QED BY <1>5, <1>6

\* The mark, the acknowledgement and the emptying of the slot.
LEMMA ServerAckInv ==
  ASSUME IInv, ServerMark \/ ServerPost
  PROVE  IInv'
<1> USE DEF clientVars
<1>1. TypeOK /\ cur \in Clients  BY DEF IInv, TypeOK
<1>2. CASE ServerMark
  <2>1. /\ slot' = [slot EXCEPT ![cur].key = 1] /\ spc = "mark" /\ spc' = "post"
        /\ UNCHANGED <<conn, cpc, wire, read, resp, cur, kreg, asked, applied, ack, acked, raced>>
    BY <1>2 DEF ServerMark
  <2>2. slot[cur] \in [key : Nat, seq : Nat]  BY <1>1 DEF TypeOK
  <2>3. /\ slot' \in [Clients -> [key : Nat, seq : Nat]]
        /\ \A d \in Clients : slot'[d].seq = slot[d].seq
        /\ \A d \in Clients : d # cur => slot'[d] = slot[d]
    BY <1>1, <2>1, <2>2 DEF TypeOK
  <2>4. TypeOK'  BY <1>1, <2>1, <2>3 DEF TypeOK, Serving
  <2>5. WireIsNewest'  BY <2>1, <2>3 DEF IInv, WireIsNewest, Newer
  <2>6. SlotIsNewer'  BY <2>1, <2>3 DEF IInv, SlotIsNewer, Newer, Serving
  <2>7. RegisterIsNewer' /\ SlotsBounded' /\ AppliedWasAsked' /\ AppliedInOrder'
    BY <2>1, <2>3 DEF IInv, RegisterIsNewer, SlotsBounded, AppliedWasAsked, AppliedInOrder
  <2> QED BY <2>4, <2>5, <2>6, <2>7 DEF IInv
<1>3. CASE ServerPost
  <2>1. /\ ack' = [ack EXCEPT ![cur] = slot[0].key] /\ spc = "post" /\ spc' = "clear"
        /\ UNCHANGED <<conn, cpc, wire, read, resp, slot, cur, kreg, asked, applied, acked, raced>>
    BY <1>3 DEF ServerPost
  <2>2. slot[0].key \in Nat
    <3>1. 0 \in Clients  BY ClientsAssumption DEF Clients
    <3> QED BY <3>1, <1>1 DEF TypeOK
  <2>3. ack' \in [Clients -> Nat \cup {NoAck}]  BY <1>1, <2>1, <2>2 DEF TypeOK
  <2>4. TypeOK'  BY <1>1, <2>1, <2>3 DEF TypeOK, Serving
  <2>5. WireIsNewest' /\ SlotIsNewer' /\ RegisterIsNewer'
    BY <2>1 DEF IInv, WireIsNewest, SlotIsNewer, RegisterIsNewer, Newer, Serving
  <2>6. SlotsBounded' /\ AppliedWasAsked' /\ AppliedInOrder'
    BY <2>1 DEF IInv, SlotsBounded, AppliedWasAsked, AppliedInOrder
  <2> QED BY <2>4, <2>5, <2>6 DEF IInv
<1> QED BY <1>2, <1>3

\* Emptying the slot loses what is in it, and so keeps every bound on it.
LEMMA ServerClearInv ==
  ASSUME IInv, ServerClear
  PROVE  IInv'
<1> USE DEF ServerClear, clientVars
<1>1. TypeOK /\ cur \in Clients  BY DEF IInv, TypeOK
<1>2. Empty \in [key : Nat, seq : Nat] /\ Empty.seq = 0 /\ Empty.key = 0  BY DEF Empty
<1>3. slot'[cur] = Empty /\ \A d \in Clients : d # cur => slot'[d] = slot[d]
  BY <1>1 DEF TypeOK
<1>4. TypeOK'  BY <1>1, <1>2 DEF TypeOK, Serving
<1>5. WireIsNewest'
  BY <1>2, <1>3 DEF IInv, WireIsNewest, Newer
<1>6. SlotIsNewer'  BY <1>2, <1>3 DEF IInv, SlotIsNewer, Newer, Serving
<1>7. RegisterIsNewer' /\ AppliedWasAsked' /\ AppliedInOrder'
  BY DEF IInv, RegisterIsNewer, AppliedWasAsked, AppliedInOrder
<1>8. SlotsBounded'
  <2>1. \A d \in Clients : Len(asked[d]) \in Nat  BY <1>1 DEF TypeOK
  <2> QED BY <1>2, <1>3, <2>1 DEF IInv, SlotsBounded
<1> QED BY <1>4, <1>5, <1>6, <1>7, <1>8 DEF IInv

\* Going on to the next slot: the one left behind is empty or holds a request
\* that came during its service.
LEMMA ServerPollInv ==
  ASSUME IInv, ServerPoll
  PROVE  IInv'
<1> USE DEF ServerPoll, clientVars
<1>1. TypeOK /\ cur \in Clients  BY DEF IInv, TypeOK
<1>2. TypeOK'  BY <1>1, NextSlotType DEF TypeOK
<1>3. WireIsNewest' /\ SlotIsNewer' /\ RegisterIsNewer'
  BY DEF IInv, WireIsNewest, SlotIsNewer, RegisterIsNewer, Newer, Serving
<1>4. SlotsBounded' /\ AppliedWasAsked' /\ AppliedInOrder'
  BY DEF IInv, SlotsBounded, AppliedWasAsked, AppliedInOrder
<1> QED BY <1>2, <1>3, <1>4 DEF IInv

\* Every step of the channel keeps the inductive invariant.
LEMMA NextInv == IInv /\ [Next]_vars => IInv'
<1> SUFFICES ASSUME IInv, [Next]_vars PROVE IInv' OBVIOUS
<1>1. CASE Server
  BY <1>1, ServerScanInv, ServerReadInv, ServerUpdateInv, ServerAckInv, ServerClearInv,
     ServerPollInv DEF Server
<1>2. ASSUME NEW c \in Clients, Client(c) \/ Network(c) PROVE IInv'
  BY <1>2, PostPutInv, DeliverPutInv, OtherClientInv DEF Client, Network
<1>3. CASE UNCHANGED vars
  BY <1>3 DEF vars, IInv, TypeOK, WireIsNewest, SlotIsNewer, RegisterIsNewer, Newer,
              SlotsBounded, AppliedWasAsked, AppliedInOrder
<1> QED BY <1>1, <1>2, <1>3 DEF Next

\* The invariant that the proofs below rest on holds in every execution of
\* run_client and run_server.
THEOREM Invariance == Spec => []IInv
<1> QED BY InitInv, NextInv, PTL DEF Spec

\* Every variable keeps its type.
THEOREM TypeCorrect == Spec => []TypeOK
<1>1. IInv => TypeOK  BY DEF IInv
<1> QED BY <1>1, Invariance, PTL

\* Whatever a slot goes through between the writes of the NIC and those of
\* run_server, the server applies only requests its client posted, with the
\* key they were posted with.
THEOREM OnlyAskedIsApplied == Spec => []AppliedWasAsked
<1>1. IInv => AppliedWasAsked  BY DEF IInv
<1> QED BY <1>1, Invariance, PTL

\* run_server applies the PUTs of a client at most once and in program order.
THEOREM AppliedOnceInOrder == Spec => []AppliedInOrder
<1>1. IInv => AppliedInOrder  BY DEF IInv
<1> QED BY <1>1, Invariance, PTL
-----------------------------------------------------------------------------
\* A step of the server that applies k is a step of the log; so is a PUT; no
\* other step changes the log.
LEMMA StepRefines == IInv /\ [Next]_vars => [Log!LogNext]_(Log!logVars)
<1> SUFFICES ASSUME IInv, [Next]_vars PROVE [Log!LogNext]_(Log!logVars) OBVIOUS
<1> USE DEF Log!logVars
<1>1. TypeOK /\ cur \in Clients  BY DEF IInv, TypeOK
<1>2. ASSUME NEW c \in Clients, NEW k \in Keys, PostPut(c, k)
      PROVE  Log!LogNext
  BY <1>2 DEF PostPut, serverVars, Log!LogNext, Log!Ask
<1>3. CASE ServerUpdate
  <2>1. Newer(cur, kreg)  BY <1>3 DEF ServerUpdate, IInv, RegisterIsNewer
  <2>2. CASE kreg.key \notin Loaded
    BY <1>3, <2>2 DEF ServerUpdate, clientVars
  <2>3. CASE kreg.key \in Loaded
    <3>1. UNCHANGED asked /\ applied' = [applied EXCEPT ![cur] = Append(@, kreg)]
      BY <1>3, <2>3 DEF ServerUpdate, clientVars
    <3>2. applied[cur] \in Seq(Request) /\ kreg \in [key : Nat, seq : Nat]
      BY <1>1 DEF TypeOK
    <3>3. kreg = [key |-> asked[cur][kreg.seq], seq |-> kreg.seq]
      BY <2>1, <3>2 DEF Newer
    <3>4. kreg.seq \in Log!LastApplied(cur) + 1 .. Len(asked[cur])
      <4>1. asked[cur] \in Seq(Keys)  BY <1>1 DEF TypeOK
      <4>2. CASE applied[cur] = <<>>
        BY <2>1, <4>2 DEF Newer, Log!LastApplied
      <4>3. CASE applied[cur] # <<>>
        <5>1. Len(applied[cur]) \in 1 .. Len(applied[cur])  BY <3>2, <4>3, EmptySeq
        <5>2. applied[cur][Len(applied[cur])] \in Request  BY <3>2, <5>1
        <5>3. applied[cur][Len(applied[cur])].seq \in Nat  BY <5>2 DEF Request
        <5> QED BY <2>1, <4>1, <4>3, <5>1, <5>3, <3>2 DEF Newer, Log!LastApplied
      <4> QED BY <4>2, <4>3
    <3>5. Log!Apply(cur, kreg.seq)  BY <3>1, <3>3, <3>4 DEF Log!Apply
    <3>6. kreg.seq \in 1 .. Len(asked[cur])  BY <2>1 DEF Newer
    <3> QED BY <3>5, <3>6, <1>1 DEF Log!LogNext
  <2> QED BY <2>2, <2>3
<1>4. CASE ServerScan \/ ServerRead \/ ServerMark \/ ServerPost \/ ServerClear \/ ServerPoll
  BY <1>4 DEF ServerScan, ServerRead, ServerMark, ServerPost, ServerClear, ServerPoll, clientVars
<1>5. ASSUME NEW c \in Clients,
             \/ PutCompletes(c) \/ AwaitAck(c) \/ \E k \in GetKeys : PostGet(c, k)
             \/ GetCompletes(c) \/ Finish(c) \/ Network(c)
      PROVE  UNCHANGED <<asked, applied>>
  BY <1>5 DEF PutCompletes, AwaitAck, PostGet, GetCompletes, Finish, Network, DeliverPut,
              DeliverBuckets, DeliverAck, serverVars, clientVars
<1>6. CASE UNCHANGED vars  BY <1>6 DEF vars
<1> QED BY <1>2, <1>3, <1>4, <1>5, <1>6 DEF Next, Server, Client

\* The request slots of run_server implement the log of PUTs of PutLog.
THEOREM ChannelImplementsLog == Spec => ImplementsLog
<1>1. Init => Log!LogInit  BY DEF Init, Log!LogInit
<1> QED BY <1>1, Invariance, StepRefines, PTL DEF Spec, ImplementsLog, Log!LogSpec

-----------------------------------------------------------------------------
(* No request is lost in a free slot *)

\* A client posts a request only when its last one has left the wire.
WireIsFree == \A c \in Clients : cpc[c] # "posted" => wire[c] = NoReq

\* PacedPutsAreKept of one client.
IsApplied(c, n) == \E i \in 1 .. Len(applied[c]) : applied[c][i].seq = n
Kept(c) ==
    ~raced[c] => \A n \in 1 .. Len(asked[c]) :
        wire[c].seq # n /\ asked[c][n] \in Loaded \ {0} => IsApplied(c, n) \/ n \in Pending(c)

LEMMA PacedIsKept == PacedPutsAreKept <=> \A c \in Clients : Kept(c)
  BY DEF PacedPutsAreKept, Kept, IsApplied

\* A step that applies nothing keeps what is pending.
LEMMA PendingStays ==
  ASSUME NEW d \in Clients, Kept(d), UNCHANGED <<wire, asked, applied, raced>>,
         Pending(d) \subseteq Pending(d)'
  PROVE  Kept(d)'
<1>1. \A n \in Nat : IsApplied(d, n)' = IsApplied(d, n)  BY DEF IsApplied
<1> QED BY <1>1 DEF Kept

\* Only the application of a request takes it from what is pending.
LEMMA ServerKeeps ==
  ASSUME IInv, NEW d \in Clients, Kept(d), Server
  PROVE  Kept(d)'
<1> USE DEF clientVars
<1>1. TypeOK /\ cur \in Clients  BY DEF IInv, TypeOK
<1>2. CASE ServerScan \/ ServerPost \/ ServerPoll
  <2>1. Pending(d) \subseteq Pending(d)' /\ UNCHANGED <<wire, asked, applied, raced>>
    BY <1>2 DEF ServerScan, ServerPost, ServerPoll, Pending, Serving
  <2> QED BY <2>1, PendingStays
<1>3. CASE ServerRead
  <2>1. UNCHANGED <<wire, asked, applied, raced, slot, cur>> /\ spc = "read" /\ spc' = "update"
        /\ kreg' = slot[cur]
    BY <1>3 DEF ServerRead
  <2>2. Pending(d) \subseteq Pending(d)'  BY <2>1 DEF Pending, Serving
  <2> QED BY <2>1, <2>2, PendingStays
<1>4. CASE ServerMark \/ ServerClear
  <2>1. UNCHANGED <<wire, asked, applied, raced, cur>> /\ (d # cur => slot'[d] = slot[d])
        /\ spc \in {"mark", "clear"} /\ spc' \in {"post", "poll"}
    BY <1>1, <1>4 DEF ServerMark, ServerClear, TypeOK
  <2>2. Pending(d) \subseteq Pending(d)'  BY <2>1 DEF Pending, Serving
  <2> QED BY <2>1, <2>2, PendingStays
<1>5. CASE ServerUpdate
  <2>1. UNCHANGED <<wire, asked, raced, slot, cur, kreg>> /\ spc = "update" /\ spc' = "mark"
        /\ applied' = IF kreg.key \in Loaded THEN [applied EXCEPT ![cur] = Append(@, kreg)]
                                             ELSE applied
    BY <1>5 DEF ServerUpdate
  <2>2. CASE d # cur
    <3>1. applied'[d] = applied[d]  BY <1>1, <2>1, <2>2 DEF TypeOK
    <3>2. Pending(d)' = Pending(d)  BY <2>1, <2>2 DEF Pending, Serving
    <3>3. \A n \in Nat : IsApplied(d, n)' = IsApplied(d, n)  BY <3>1 DEF IsApplied
    <3> QED BY <2>1, <3>2, <3>3 DEF Kept
  <2>3. CASE d = cur
    <3>1. Pending(d) = {kreg.seq}  BY <2>1, <2>3 DEF Pending
    <3>2. Newer(d, kreg)  BY <2>1, <2>3 DEF IInv, RegisterIsNewer
    <3>3. applied[d] \in Seq(Request) /\ Len(applied[d]) \in Nat  BY <1>1 DEF TypeOK
    <3>4. \A n \in Nat : IsApplied(d, n) => IsApplied(d, n)'
      <4>1. CASE kreg.key \notin Loaded  BY <2>1, <4>1 DEF IsApplied
      <4>2. CASE kreg.key \in Loaded
        <5>1. applied'[d] = Append(applied[d], kreg)  BY <1>1, <2>1, <2>3, <4>2 DEF TypeOK
        <5>2. /\ Len(applied'[d]) = Len(applied[d]) + 1
              /\ \A i \in 1 .. Len(applied[d]) : applied'[d][i] = applied[d][i]
          BY <3>3, <5>1
        <5> QED BY <3>3, <5>2 DEF IsApplied
      <4> QED BY <4>1, <4>2
    <3>5. asked[d][kreg.seq] \in Loaded => IsApplied(d, kreg.seq)'
      <4> SUFFICES ASSUME asked[d][kreg.seq] \in Loaded PROVE IsApplied(d, kreg.seq)' OBVIOUS
      <4>1. kreg.key \in Loaded  BY <3>2 DEF Newer
      <4>2. applied'[d] = Append(applied[d], kreg)  BY <1>1, <2>1, <2>3, <4>1 DEF TypeOK
      <4>3. Len(applied'[d]) = Len(applied[d]) + 1 /\ applied'[d][Len(applied[d]) + 1] = kreg
        BY <3>3, <4>2
      <4>4. Len(applied[d]) + 1 \in 1 .. Len(applied'[d])  BY <3>3, <4>3
      <4> QED BY <2>1, <4>3, <4>4 DEF IsApplied
    <3> HIDE DEF IsApplied, Pending
    <3> QED BY <2>1, <3>1, <3>4, <3>5 DEF Kept
  <2> QED BY <2>2, <2>3
<1> QED BY <1>2, <1>3, <1>4, <1>5 DEF Server

\* A request is on the wire, then in its slot.
LEMMA PathKeeps ==
  ASSUME IInv, WireIsFree, NEW d \in Clients, Kept(d), NEW c \in Clients,
         DeliverPut(c) \/ \E k \in Keys : PostPut(c, k)
  PROVE  Kept(d)'
<1> USE DEF serverVars
<1>1. TypeOK  BY DEF IInv
<1>2. UNCHANGED <<applied, spc, cur, kreg>>  BY DEF DeliverPut, PostPut
<1>3. \A n \in Nat : IsApplied(d, n)' = IsApplied(d, n)  BY <1>2 DEF IsApplied
<1>4. CASE d # c
  <2>1. UNCHANGED <<wire[d], slot[d], raced[d], asked[d]>>
    BY <1>1, <1>4 DEF DeliverPut, PostPut, TypeOK
  <2>2. Pending(d)' = Pending(d)  BY <1>2, <2>1 DEF Pending
  <2> QED BY <1>3, <2>1, <2>2 DEF Kept
<1>5. CASE d = c /\ DeliverPut(c)
  <2>1. /\ wire[d] # NoReq /\ slot'[d] = wire[d] /\ asked' = asked
        /\ ~raced'[d] => ~raced[d] /\ slot[d].key = 0 /\ ~(cur = d /\ spc \in Serving \cup {"read"})
    BY <1>1, <1>5 DEF DeliverPut, TypeOK
  <2>2. Newer(d, wire[d])  BY <2>1 DEF IInv, WireIsNewest
  <2>3. asked[d] \in Seq(Keys) /\ Len(asked[d]) \in Nat  BY <1>1 DEF TypeOK
  <2>4. ASSUME ~raced'[d] PROVE Pending(d) = {}
                                /\ (wire[d].key # 0 => wire[d].seq \in Pending(d)')
    BY <1>2, <2>1, <2>4 DEF Pending, Serving
  <2>5. ASSUME ~raced'[d], NEW n \in 1 .. Len(asked'[d]), asked'[d][n] \in Loaded \ {0}
        PROVE  IsApplied(d, n)' \/ n \in Pending(d)'
    <3>1. CASE wire[d].seq = n
      <4>1. wire[d].key = asked[d][n]  BY <2>2, <3>1 DEF Newer
      <4> QED BY <2>1, <2>4, <2>5, <3>1, <4>1
    <3>2. CASE wire[d].seq # n
      <4>1. n \in 1 .. Len(asked[d]) /\ n \in Nat  BY <2>1, <2>3, <2>5
      <4>2. IsApplied(d, n)  BY <2>1, <2>4, <2>5, <3>2, <4>1 DEF Kept
      <4> QED BY <1>3, <4>1, <4>2
    <3> QED BY <3>1, <3>2
  <2> HIDE DEF IsApplied, Pending
  <2> QED BY <2>5 DEF Kept
<1>6. ASSUME d = c, NEW k \in Keys, PostPut(c, k) PROVE Kept(d)'
  <2>1. asked'[d] = Append(asked[d], k) /\ UNCHANGED <<slot, raced>> /\ cpc[d] = "ready"
    BY <1>1, <1>6 DEF PostPut, TypeOK
  <2>2. asked[d] \in Seq(Keys) /\ Len(asked[d]) \in Nat  BY <1>1 DEF TypeOK
  <2>3. /\ Len(asked'[d]) = Len(asked[d]) + 1
        /\ \A i \in 1 .. Len(asked[d]) : asked'[d][i] = asked[d][i]
    BY <2>1, <2>2
  <2>4. wire'[d].seq = Len(asked[d]) + 1
    <3> DEFINE r == [key |-> k, seq |-> Len(asked[d]) + 1]
    <3>1. wire' = [wire EXCEPT ![d] = r]  BY <1>6 DEF PostPut
    <3>2. r.seq = Len(asked[d]) + 1  OBVIOUS
    <3> HIDE DEF r
    <3> QED BY <1>1, <3>1, <3>2 DEF TypeOK
  <2>5. wire[d].seq = -1  BY <2>1 DEF WireIsFree, NoReq
  <2>6. Pending(d)' = Pending(d)  BY <1>2, <2>1 DEF Pending
  <2>7. ASSUME ~raced'[d], NEW n \in 1 .. Len(asked'[d]), wire'[d].seq # n,
               asked'[d][n] \in Loaded \ {0}
        PROVE  IsApplied(d, n)' \/ n \in Pending(d)'
    <3>1. n \in 1 .. Len(asked[d]) /\ n \in Nat  BY <2>2, <2>3, <2>4, <2>7
    <3>2. wire[d].seq # n /\ asked[d][n] \in Loaded \ {0}  BY <2>3, <2>5, <2>7, <3>1
    <3>3. IsApplied(d, n) \/ n \in Pending(d)  BY <2>1, <2>7, <3>1, <3>2 DEF Kept
    <3> QED BY <1>3, <2>6, <3>1, <3>3
  <2> HIDE DEF IsApplied, Pending
  <2> QED BY <2>7 DEF Kept
<1> QED BY <1>4, <1>5, <1>6

\* The steps that touch no request, and whether the wire is free.
LEMMA KeptNext ==
  IInv /\ WireIsFree /\ PacedPutsAreKept /\ [Next]_vars => WireIsFree' /\ PacedPutsAreKept'
<1> SUFFICES ASSUME IInv, WireIsFree, PacedPutsAreKept, [Next]_vars
             PROVE  WireIsFree' /\ PacedPutsAreKept'
  OBVIOUS
<1>1. TypeOK /\ \A d \in Clients : Kept(d)  BY PacedIsKept DEF IInv
<1>2. WireIsFree'
  <2> SUFFICES ASSUME NEW d \in Clients PROVE cpc'[d] # "posted" => wire'[d] = NoReq
    BY DEF WireIsFree
  <2>1. CASE Server
    BY <2>1 DEF Server, ServerScan, ServerRead, ServerUpdate, ServerMark, ServerPost, ServerClear,
                ServerPoll, clientVars, WireIsFree
  <2>2. ASSUME NEW c \in Clients, Client(c)
        PROVE  cpc'[d] # "posted" => wire'[d] = NoReq
    BY <1>1, <2>2 DEF Client, PostPut, PutCompletes, AwaitAck, PostGet, GetCompletes, Finish,
                      TypeOK, WireIsFree
  <2>3. ASSUME NEW c \in Clients, Network(c)
        PROVE  cpc'[d] # "posted" => wire'[d] = NoReq
    BY <1>1, <2>3 DEF Network, DeliverPut, DeliverBuckets, DeliverAck, clientVars, TypeOK,
                      WireIsFree
  <2>4. CASE UNCHANGED vars  BY <2>4 DEF vars, WireIsFree
  <2> QED BY <2>1, <2>2, <2>3, <2>4 DEF Next
<1>3. ASSUME NEW d \in Clients PROVE Kept(d)'
  <2>1. ASSUME NEW c \in Clients,
               \/ PutCompletes(c) \/ AwaitAck(c) \/ \E k \in GetKeys : PostGet(c, k)
               \/ GetCompletes(c) \/ Finish(c) \/ DeliverBuckets(c) \/ DeliverAck(c)
        PROVE  Kept(d)'
    <3>1. UNCHANGED <<wire, slot, spc, cur, kreg, asked, applied, raced>>
      BY <2>1 DEF PutCompletes, AwaitAck, PostGet, GetCompletes, Finish, DeliverBuckets,
                  DeliverAck, serverVars, clientVars
    <3>2. Pending(d)' = Pending(d)  BY <3>1 DEF Pending
    <3> QED BY <1>1, <3>1, <3>2, PendingStays
  <2>2. CASE UNCHANGED vars
    <3>1. Pending(d)' = Pending(d)  BY <2>2 DEF vars, Pending
    <3> QED BY <1>1, <2>2, <3>1, PendingStays DEF vars
  <2>3. CASE Server  BY <1>1, <2>3, ServerKeeps
  <2>4. ASSUME NEW c \in Clients, Client(c) \/ Network(c) PROVE Kept(d)'
    BY <1>1, <2>1, <2>4, PathKeeps DEF Client, Network
  <2> QED BY <2>2, <2>3, <2>4 DEF Next
<1>4. PacedPutsAreKept'  BY <1>3 DEF PacedPutsAreKept, Kept, IsApplied
<1> QED BY <1>2, <1>4

\* run_server loses no PUT of a loaded key other than 0 of a client whose
\* requests land in free slots: what has landed is applied or still to be.
THEOREM PacedAreApplied == Spec => []PacedPutsAreKept
<1>1. Init => WireIsFree /\ PacedPutsAreKept
  <2> SUFFICES ASSUME Init PROVE WireIsFree /\ PacedPutsAreKept OBVIOUS
  <2>1. \A c \in Clients : Len(asked[c]) = 0 /\ wire[c] = NoReq  BY DEF Init
  <2> QED BY <2>1 DEF WireIsFree, PacedPutsAreKept
<1> QED BY <1>1, Invariance, KeptNext, PTL DEF Spec
-----------------------------------------------------------------------------
(* The bucket *)

\* The number of the write that stored field f last.
StoredBy(f) == Write - (IF f \in pending THEN 1 ELSE 0)

\* What the server has stored so far of the write in progress.
BucketInv ==
    /\ ~Updating => pending = {}
    /\ bucket.header_version = StoredBy("header_version")
    /\ bucket.c_ver = StoredBy("c_ver") % CVer

\* The insertion was write 1.
WrittenInv == bucket.data >= 1

\* A line that was fetched in one piece between two updates is of one write.
LineInv == lineAtomic => (rpc = 0 /\ (fetched.lock = 0 => fetched.data = fetched.header_version))

\* What the fields that a read has gone through say of the fields to come. The
\* lock is fetched after the data: once it is down, the c_ver to come is of a
\* write that is not older than the data.
FieldInv ==
    /\ rpc >= 1 => fetched.header_version <= Write
    /\ rpc >= 2 => fetched.data \in fetched.header_version - 1 .. Write
    /\ (rpc = 3 /\ fetched.lock = 0) => fetched.data <= StoredBy("c_ver")

\* What a read of four fields has learnt, if it found the lock down.
FetchedInv ==
    (rpc = 0 /\ fetched.lock = 0) =>
        /\ fetched.header_version - 1 <= fetched.data
        /\ \E v \in fetched.data .. upto : fetched.c_ver = v % CVer

ReadsInv == BucketTypeOK /\ BucketInv /\ WrittenInv /\ LineInv /\ FieldInv /\ FetchedInv
-----------------------------------------------------------------------------
USE CVerAssumption, WritesAssumption

\* A remainder is what is left of a number over some multiple of CVer.
LEMMA Remainder ==
    ASSUME NEW n \in Nat, NEW q \in Nat, NEW r \in 0 .. CVer - 1, n = q * CVer + r
    PROVE  n % CVer = r
<1> DEFINE d == n \div CVer
           m == n % CVer
<1>1. d \in Nat /\ m \in 0 .. CVer - 1 /\ n = d * CVer + m
  BY SMT
<1> HIDE DEF d, m
<1>2. CASE q < d
  <2>1. d * CVer >= (q + 1) * CVer
    BY <1>1, <1>2, SMT
  <2>2. (q + 1) * CVer = q * CVer + CVer
    BY SMT
  <2> QED
    BY <1>1, <2>1, <2>2, SMT
<1>3. CASE q > d
  <2>1. q * CVer >= (d + 1) * CVer
    BY <1>1, <1>3, SMT
  <2>2. (d + 1) * CVer = d * CVer + CVer
    BY <1>1, SMT
  <2> QED
    BY <1>1, <2>1, <2>2, SMT
<1>4. CASE q = d
  BY <1>1, <1>4 DEF m
<1> QED
  BY <1>1, <1>2, <1>3, <1>4

\* The one-byte counter counts modulo CVer.
LEMMA Modulus ==
    ASSUME NEW n \in Nat
    PROVE  /\ n % CVer \in 0 .. CVer - 1
           /\ ((n % CVer) + 1) % CVer = (n + 1) % CVer
<1>1. PICK q \in Nat, r \in 0 .. CVer - 1 : n = q * CVer + r /\ n % CVer = r
  <2>1. n \div CVer \in Nat /\ n % CVer \in 0 .. CVer - 1 /\ n = (n \div CVer) * CVer + (n % CVer)
    BY SMT
  <2> QED
    BY <2>1
<1>2. CASE r + 1 < CVer
  <2>1. r + 1 \in 0 .. CVer - 1 /\ r + 1 \in Nat
    BY <1>2
  <2>2. n + 1 = q * CVer + (r + 1) /\ r + 1 = 0 * CVer + (r + 1)
    BY <1>1
  <2>3. n + 1 \in Nat /\ q \in Nat /\ 0 \in Nat
    OBVIOUS
  <2>4. \A a, b \in Nat : a = b * CVer + (r + 1) => a % CVer = r + 1
    BY <2>1, Remainder
  <2>5. (n + 1) % CVer = r + 1
    BY <2>2, <2>3, <2>4
  <2>6. (r + 1) % CVer = r + 1
    BY <2>1, <2>2, <2>4
  <2> QED
    BY <1>1, <2>5, <2>6
<1>3. CASE r + 1 = CVer
  <2>1. n + 1 = (q + 1) * CVer + 0 /\ r + 1 = 1 * CVer + 0
    BY <1>1, <1>3
  <2>2. 0 \in 0 .. CVer - 1 /\ n + 1 \in Nat /\ q + 1 \in Nat /\ r + 1 \in Nat
    OBVIOUS
  <2>3. \A a, b \in Nat : a = b * CVer + 0 => a % CVer = 0
    BY <2>2, Remainder
  <2>4. (n + 1) % CVer = 0
    BY <2>1, <2>2, <2>3
  <2>5. (r + 1) % CVer = 0
    BY <2>1, <2>2, <2>3
  <2> QED
    BY <1>1, <2>4, <2>5
<1> QED
  BY <1>1, <1>2, <1>3

\* Two numbers that are less than CVer apart differ in c_ver.
LEMMA NoWrap ==
    ASSUME NEW h \in Nat, NEW v \in Nat, h = v % CVer, h - 1 <= v, v < h + CVer
    PROVE  v = h
  BY SMT

\* The fields of a bucket and the order in which they are fetched.
LEMMA FieldsOfLayout ==
    /\ Len(Layout) = 4
    /\ Layout[1] = "header_version" /\ Layout[2] = "data"
    /\ Layout[3] = "lock" /\ Layout[4] = "c_ver"
  BY DEF Layout

LEMMA InsertedEstablishes == BucketInit => ReadsInv
<1> SUFFICES ASSUME BucketInit PROVE ReadsInv
  OBVIOUS
<1> USE DEF BucketInit, Inserted
<1>1. BucketTypeOK
  BY FieldsOfLayout DEF BucketTypeOK, Stores
<1>2. 1 % CVer = 1
  BY SMT
<1>3. BucketInv
  BY <1>2 DEF BucketInv, StoredBy, Write, Updating
<1>4. WrittenInv /\ LineInv /\ FieldInv
  BY DEF WrittenInv, LineInv, FieldInv
<1>5. FetchedInv
  BY <1>2 DEF FetchedInv
<1> QED
  BY <1>1, <1>3, <1>4, <1>5 DEF ReadsInv

\* The numbers that the invariant speaks of.
LEMMA Numbers ==
    ASSUME BucketTypeOK
    PROVE  /\ Write \in Nat
           /\ \A f \in Stores : StoredBy(f) \in Int
           /\ bucket.data \in Nat
  BY DEF BucketTypeOK, Write, StoredBy

\* With the lock goes the promise to store each of the fields once more.
LEMMA RaiseLockKeeps ==
    ASSUME ReadsInv, RaiseLock
    PROVE  ReadsInv'
<1>1. /\ BucketTypeOK /\ bucket.lock = 0 /\ pending = {}
      /\ bucket' = [bucket EXCEPT !.lock = 1] /\ pending' = Stores
      /\ UNCHANGED <<lineAtomic, fetched, rpc, upto>>
  BY DEF ReadsInv, RaiseLock, BucketInv, Updating, BucketTypeOK
<1>2. /\ bucket'.header_version = bucket.header_version /\ bucket'.data = bucket.data
      /\ bucket'.c_ver = bucket.c_ver /\ bucket'.lock = 1
  BY <1>1 DEF BucketTypeOK
<1>3. Write = bucket.data /\ Write' = bucket.data + 1 /\ bucket.data \in Nat
  BY <1>1, <1>2 DEF Write, Stores, BucketTypeOK
<1>4. \A f \in Stores : StoredBy(f) = bucket.data /\ StoredBy(f)' = bucket.data
  BY <1>1, <1>3 DEF StoredBy
<1>5. BucketTypeOK'
  BY <1>1 DEF BucketTypeOK
<1>6. BucketInv'
  BY <1>2, <1>4 DEF ReadsInv, BucketInv, Updating, Stores
<1>7. WrittenInv' /\ LineInv' /\ FetchedInv'
  BY <1>1, <1>2 DEF ReadsInv, WrittenInv, LineInv, FetchedInv
<1>8. FieldInv'
  BY <1>1, <1>3, <1>4 DEF ReadsInv, FieldInv, BucketTypeOK, Stores
<1> QED
  BY <1>5, <1>6, <1>7, <1>8 DEF ReadsInv

\* A field that is stored comes to the number of the write in progress, which
\* stays what it is.
LEMMA StoreKeeps ==
    ASSUME ReadsInv, NEW f \in Stores, Store(f)
    PROVE  ReadsInv'
<1>1. /\ BucketTypeOK /\ f \in pending
      /\ bucket' = [bucket EXCEPT ![f] = IF f = "c_ver" THEN (@ + 1) % CVer ELSE @ + 1]
      /\ pending' = pending \ {f}
      /\ UNCHANGED <<lineAtomic, fetched, rpc, upto>>
  BY DEF ReadsInv, Store
<1>2. bucket.lock = 1 /\ bucket'.lock = 1
  BY <1>1 DEF ReadsInv, BucketInv, Updating, BucketTypeOK, Stores
<1>3. /\ bucket'.header_version = bucket.header_version + (IF f = "header_version" THEN 1 ELSE 0)
      /\ bucket'.data = bucket.data + (IF f = "data" THEN 1 ELSE 0)
      /\ bucket'.c_ver = IF f = "c_ver" THEN (bucket.c_ver + 1) % CVer ELSE bucket.c_ver
  BY <1>1 DEF BucketTypeOK, Stores
<1>4. Write' = Write /\ Write \in Nat /\ bucket.data \in Nat
  BY <1>1, <1>3, Numbers DEF Write
<1>5. \A g \in Stores : /\ StoredBy(g) \in Int
                        /\ StoredBy(g)' = StoredBy(g) + (IF g = f THEN 1 ELSE 0)
  BY <1>1, <1>4 DEF StoredBy
<1>6. StoredBy("c_ver") \in Nat
  <2>1. CASE "data" \in pending
    BY <1>4, <2>1 DEF StoredBy, Write
  <2>2. CASE "data" \notin pending
    BY <1>1, <1>4, <2>2 DEF StoredBy, Write, ReadsInv, WrittenInv
  <2> QED
    BY <2>1, <2>2
<1>7. BucketTypeOK'
  <2>1. bucket'.c_ver \in 0 .. CVer - 1
    <3>1. CASE f = "c_ver"
      <4>1. bucket.c_ver + 1 \in Nat
        BY <1>1 DEF BucketTypeOK
      <4> QED
        BY <1>3, <3>1, <4>1, Modulus
    <3> QED
      BY <1>1, <1>3, <3>1 DEF BucketTypeOK
  <2>2. bucket' = [header_version |-> bucket'.header_version, data |-> bucket'.data,
                   lock |-> bucket'.lock, c_ver |-> bucket'.c_ver]
    BY <1>1 DEF BucketTypeOK
  <2>3. bucket'.header_version \in Nat /\ bucket'.data \in Nat
    BY <1>1, <1>3 DEF BucketTypeOK
  <2>4. bucket' \in [header_version : Nat, data : Nat, lock : {0, 1}, c_ver : 0 .. CVer - 1]
    BY <1>2, <2>1, <2>2, <2>3
  <2> QED
    BY <1>1, <2>4 DEF BucketTypeOK
<1>8. BucketInv'
  <2>1. bucket'.header_version = StoredBy("header_version")'
    BY <1>1, <1>3, <1>5 DEF ReadsInv, BucketInv, Stores, BucketTypeOK
  <2>2. bucket'.c_ver = StoredBy("c_ver")' % CVer
    <3>1. bucket.c_ver = StoredBy("c_ver") % CVer
      BY DEF ReadsInv, BucketInv
    <3>2. CASE f = "c_ver"
      <4>1. StoredBy("c_ver")' = StoredBy("c_ver") + 1
        BY <1>5, <3>2
      <4>2. bucket'.c_ver = ((StoredBy("c_ver") % CVer) + 1) % CVer
        BY <1>3, <3>1, <3>2
      <4> QED
        BY <1>6, <4>1, <4>2, Modulus
    <3>3. CASE f # "c_ver"
      <4>1. StoredBy("c_ver")' = StoredBy("c_ver")
        BY <1>5, <3>3 DEF Stores
      <4> QED
        BY <1>3, <3>1, <3>3, <4>1
    <3> QED
      BY <3>2, <3>3
  <2> QED
    BY <1>2, <2>1, <2>2 DEF BucketInv, Updating
<1>9. WrittenInv'
  BY <1>1, <1>3 DEF ReadsInv, WrittenInv, BucketTypeOK
<1>10. LineInv' /\ FetchedInv'
  BY <1>1 DEF ReadsInv, LineInv, FetchedInv
<1>11. FieldInv'
  <2>1. StoredBy("c_ver")' >= StoredBy("c_ver") /\ StoredBy("c_ver")' \in Int
    BY <1>5 DEF Stores
  <2> QED
    BY <1>1, <1>4, <1>6, <2>1 DEF ReadsInv, FieldInv, BucketTypeOK
<1> QED
  BY <1>7, <1>8, <1>9, <1>10, <1>11 DEF ReadsInv

\* The lock is dropped when each field has been stored.
LEMMA DropLockKeeps ==
    ASSUME ReadsInv, DropLock
    PROVE  ReadsInv'
<1>1. /\ BucketTypeOK /\ pending = {} /\ bucket' = [bucket EXCEPT !.lock = 0]
      /\ UNCHANGED <<lineAtomic, pending, fetched, rpc, upto>>
  BY DEF ReadsInv, DropLock
<1>2. /\ bucket'.header_version = bucket.header_version /\ bucket'.data = bucket.data
      /\ bucket'.c_ver = bucket.c_ver
  BY <1>1 DEF BucketTypeOK
<1>3. Write' = Write /\ \A f \in Stores : StoredBy(f)' = StoredBy(f)
  BY <1>1, <1>2 DEF Write, StoredBy
<1>4. BucketTypeOK'
  BY <1>1 DEF BucketTypeOK
<1>5. BucketInv' /\ WrittenInv'
  BY <1>1, <1>2, <1>3 DEF ReadsInv, BucketInv, WrittenInv, Stores
<1>6. LineInv' /\ FieldInv' /\ FetchedInv'
  BY <1>1, <1>3 DEF ReadsInv, LineInv, FieldInv, FetchedInv, Stores
<1> QED
  BY <1>4, <1>5, <1>6 DEF ReadsInv

\* A line that is fetched with its lock down has all its fields from one write.
LEMMA FetchLineKeeps ==
    ASSUME ReadsInv, FetchLine
    PROVE  ReadsInv'
<1>1. /\ BucketTypeOK /\ lineAtomic /\ fetched' = bucket /\ rpc' = 0 /\ upto' = Write
      /\ UNCHANGED <<lineAtomic, bucket, pending>>
  BY DEF ReadsInv, FetchLine
<1>2. Write \in Nat
  BY <1>1, Numbers
<1>3. Write' = Write /\ \A f \in Stores : StoredBy(f)' = StoredBy(f)
  BY <1>1 DEF Write, StoredBy
<1>4. BucketTypeOK'
  BY <1>1, <1>2, FieldsOfLayout DEF BucketTypeOK
<1>5. BucketInv' /\ WrittenInv'
  BY <1>1, <1>3 DEF ReadsInv, BucketInv, WrittenInv, Stores, Updating
<1>6. bucket.lock = 0 =>
        /\ pending = {} /\ bucket.data = Write /\ bucket.header_version = Write
        /\ bucket.c_ver = Write % CVer
  BY <1>1, <1>2 DEF ReadsInv, BucketInv, BucketTypeOK, Updating, Write, StoredBy
<1>7. LineInv' /\ FieldInv'
  BY <1>1, <1>6 DEF LineInv, FieldInv
<1>8. FetchedInv'
  BY <1>1, <1>2, <1>6 DEF FetchedInv
<1> QED
  BY <1>4, <1>5, <1>7, <1>8 DEF ReadsInv

\* The next field, and what it says of those fetched before it.
LEMMA FetchFieldKeeps ==
    ASSUME ReadsInv, FetchField
    PROVE  ReadsInv'
<1> DEFINE f == Layout[rpc + 1]
<1>1. /\ BucketTypeOK /\ ~lineAtomic /\ upto' = Write
      /\ fetched' = [fetched EXCEPT ![f] = bucket[f]] /\ rpc' = (rpc + 1) % 4
      /\ UNCHANGED <<lineAtomic, bucket, pending>>
  BY FieldsOfLayout DEF ReadsInv, FetchField
<1>2. rpc \in {0, 1, 2, 3}
  BY <1>1, FieldsOfLayout DEF BucketTypeOK
<1>3. /\ Write \in Nat /\ bucket.data \in Write - 1 .. Write
      /\ bucket.header_version \in Write - 1 .. Write
      /\ StoredBy("c_ver") \in Write - 1 .. Write
  <2>1. Write \in Nat /\ bucket.data \in Nat
    BY <1>1, Numbers
  <2>2. StoredBy("c_ver") \in Write - 1 .. Write /\ StoredBy("header_version") \in Write - 1 .. Write
    BY <2>1 DEF StoredBy
  <2>3. bucket.data \in Write - 1 .. Write
    BY <2>1 DEF Write
  <2> QED
    BY <2>1, <2>2, <2>3 DEF ReadsInv, BucketInv
<1>4. Write' = Write /\ \A g \in Stores : StoredBy(g)' = StoredBy(g)
  BY <1>1 DEF Write, StoredBy
<1>5. BucketInv' /\ WrittenInv'
  BY <1>1, <1>4 DEF ReadsInv, BucketInv, WrittenInv, Stores, Updating
<1>6. LineInv'
  BY <1>1 DEF LineInv
<1>7. BucketTypeOK'
  <2>1. fetched' \in [header_version : Nat, data : Nat, lock : {0, 1}, c_ver : 0 .. CVer - 1]
    BY <1>1, <1>2, FieldsOfLayout DEF BucketTypeOK
  <2>2. rpc' \in 0 .. Len(Layout) - 1
    BY <1>1, <1>2, FieldsOfLayout
  <2> QED
    BY <1>1, <1>3, <2>1, <2>2 DEF BucketTypeOK
<1>8. CASE rpc = 0
  <2>1. rpc' = 1 /\ fetched'.header_version = bucket.header_version
    BY <1>1, <1>8, FieldsOfLayout DEF BucketTypeOK
  <2>2. FieldInv' /\ FetchedInv'
    BY <1>3, <1>4, <2>1 DEF FieldInv, FetchedInv
  <2> QED
    BY <1>5, <1>6, <1>7, <2>2 DEF ReadsInv
<1>9. CASE rpc = 1
  <2>1. /\ rpc' = 2 /\ fetched'.header_version = fetched.header_version
        /\ fetched'.data = bucket.data /\ fetched.header_version \in Nat
    BY <1>1, <1>9, FieldsOfLayout DEF BucketTypeOK
  <2>2. fetched.header_version <= Write
    BY <1>9 DEF ReadsInv, FieldInv
  <2>3. FieldInv' /\ FetchedInv'
    BY <1>3, <1>4, <2>1, <2>2 DEF FieldInv, FetchedInv
  <2> QED
    BY <1>5, <1>6, <1>7, <2>3 DEF ReadsInv
<1>10. CASE rpc = 2
  <2>1. /\ rpc' = 3 /\ fetched'.header_version = fetched.header_version
        /\ fetched'.data = fetched.data /\ fetched'.lock = bucket.lock
    BY <1>1, <1>10, FieldsOfLayout DEF BucketTypeOK
  <2>2. bucket.lock = 0 => StoredBy("c_ver") = Write
    BY <1>1, <1>3 DEF ReadsInv, BucketInv, Updating, StoredBy
  <2>3. FieldInv' /\ FetchedInv'
    BY <1>3, <1>4, <1>10, <2>1, <2>2 DEF ReadsInv, FieldInv, FetchedInv, Stores
  <2> QED
    BY <1>5, <1>6, <1>7, <2>3 DEF ReadsInv
<1>11. CASE rpc = 3
  <2>1. /\ rpc' = 0 /\ fetched'.header_version = fetched.header_version
        /\ fetched'.data = fetched.data /\ fetched'.lock = fetched.lock
        /\ fetched'.c_ver = StoredBy("c_ver") % CVer
    BY <1>1, <1>11, FieldsOfLayout DEF BucketTypeOK, ReadsInv, BucketInv
  <2>2. /\ fetched.data \in fetched.header_version - 1 .. Write
        /\ fetched.data \in Nat /\ fetched.header_version \in Nat
    BY <1>1, <1>11 DEF ReadsInv, FieldInv, BucketTypeOK
  <2>3. fetched.lock = 0 => fetched.data <= StoredBy("c_ver")
    BY <1>11 DEF ReadsInv, FieldInv
  <2>4. FieldInv'
    BY <2>1 DEF FieldInv
  <2>5. FetchedInv'
    BY <1>1, <1>3, <2>1, <2>2, <2>3 DEF FetchedInv
  <2> QED
    BY <1>5, <1>6, <1>7, <2>4, <2>5 DEF ReadsInv
<1> QED
  BY <1>2, <1>8, <1>9, <1>10, <1>11

\* Every step of the server and of the NIC keeps the invariant.
LEMMA BucketStepKeeps == ReadsInv /\ [BucketNext]_bucketVars => ReadsInv'
<1> SUFFICES ASSUME ReadsInv, [BucketNext]_bucketVars PROVE ReadsInv'
  OBVIOUS
<1>1. CASE RaiseLock
  BY <1>1, RaiseLockKeeps
<1>2. CASE \E f \in Stores : Store(f)
  BY <1>2, StoreKeeps
<1>3. CASE DropLock
  BY <1>3, DropLockKeeps
<1>4. CASE FetchLine
  BY <1>4, FetchLineKeeps
<1>5. CASE FetchField
  BY <1>5, FetchFieldKeeps
<1>6. CASE UNCHANGED bucketVars
  <2>1. Write' = Write /\ \A g \in Stores : StoredBy(g)' = StoredBy(g)
    BY <1>6 DEF bucketVars, Write, StoredBy
  <2> QED
    BY <1>6, <2>1 DEF bucketVars, ReadsInv, BucketTypeOK, BucketInv, WrittenInv, LineInv, FieldInv, FetchedInv,
                      Updating, Stores
<1> QED
  BY <1>1, <1>2, <1>3, <1>4, <1>5, <1>6 DEF BucketNext
-----------------------------------------------------------------------------
\* The inductive invariant holds at every moment of any number of updates,
\* whatever the order of the stores of each.
THEOREM BucketInvariance == BucketSpec => []ReadsInv
<1> QED
  BY InsertedEstablishes, BucketStepKeeps, PTL DEF BucketSpec

\* A NIC that fetches whole lines returns the data that the header counts, if
\* the test of run_client accepts the bucket.
THEOREM WholeIfAccepted == BucketSpec => []AcceptedIsWhole
<1>1. ReadsInv => AcceptedIsWhole
  BY DEF ReadsInv, LineInv, AcceptedIsWhole, Accepted
<1> QED
  BY <1>1, BucketInvariance, PTL

\* A NIC that fetches field by field returns data that are at most one write
\* behind the header, and never ahead of it, if the test accepts the bucket and
\* fewer than CVer writes were begun meanwhile.
THEOREM RecentIfAccepted == BucketSpec => []AcceptedIsRecent
<1>1. ReadsInv => AcceptedIsRecent
  <2> SUFFICES ASSUME ReadsInv, rpc = 0, Accepted(fetched), upto - fetched.header_version < CVer
               PROVE  fetched.data \in {fetched.header_version - 1, fetched.header_version}
    BY DEF AcceptedIsRecent
  <2>1. fetched.header_version \in Nat /\ fetched.data \in Nat /\ upto \in Nat
    BY DEF ReadsInv, BucketTypeOK
  <2>2. fetched.lock = 0 /\ fetched.header_version = fetched.c_ver
    BY DEF Accepted
  <2>3. fetched.header_version - 1 <= fetched.data
    BY <2>2 DEF ReadsInv, FetchedInv
  <2>4. PICK v \in fetched.data .. upto : fetched.c_ver = v % CVer
    BY <2>2 DEF ReadsInv, FetchedInv
  <2>5. /\ v \in Nat /\ fetched.header_version = v % CVer
        /\ fetched.header_version - 1 <= v /\ v < fetched.header_version + CVer
    BY <2>1, <2>2, <2>3, <2>4
  <2>6. v = fetched.header_version
    BY <2>1, <2>5, NoWrap
  <2> QED
    BY <2>1, <2>3, <2>4, <2>6
<1> QED
  BY <1>1, BucketInvariance, PTL
=============================================================================
