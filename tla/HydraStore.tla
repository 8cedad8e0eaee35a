------------------------------ MODULE HydraStore ------------------------------
(***************************************************************************)
(* The client and the server of HydraDB/main.c on top of the table of      *)
(* HydraHash. A client RDMA-writes a request, PUT or GET, into its slot of *)
(* server_req_area; the server tests the key, then the kind, then reads    *)
(* the key again, each an access of its own to memory the NIC may write.   *)
(* A GET only tells the server to search: its data is then read, one       *)
(* sided, from the item whose index in the pool is the key. A client that  *)
(* has read a key once goes to the item directly unless it takes the lease *)
(* for running.                                                            *)
(*                                                                         *)
(* Clients are accepted in the order of their ids (FarmChannel has the     *)
(* other orders), and ask for loaded keys, as local_cache has room for     *)
(* these only. Requests carry a number, seq, that the code does not have.  *)
(***************************************************************************)
EXTENDS Integers, Sequences, FiniteSetsExt

CONSTANTS
    NumClients,     \* NUM_CLIENTS_PER_SERVER
    MaxAsk,         \* bound: requests of all clients together
    AskedKeys,      \* the keys of the distribution file
    NumBuckets, NumSlots, NumLoaded, PoolSize, Keys, Values, MaxItems  \* HydraHash

ASSUME StoreAssumption ==
    /\ NumClients \in Nat \ {0}
    /\ MaxAsk \in Nat
    /\ AskedKeys \subseteq Keys
ASSUME TableAssumption ==
    /\ NumBuckets \in Nat \ {0} /\ NumSlots \in Nat \ {0}
    /\ NumLoaded \in Nat \ {0} /\ NumLoaded <= NumBuckets * NumSlots
    /\ Keys = 0 .. NumLoaded - 1
    /\ {0, 1} \subseteq Values /\ Values \subseteq Nat
    /\ MaxItems = NumLoaded + MaxAsk /\ PoolSize \in Nat

VARIABLES
    slot, item, index_, update, crashed, dict,  \* HydraHash
    cpc,            \* where each client is in its loop
    wire,           \* wire[c]: the request write of c that the NICs carry, or NoReq
    cache,          \* local_cache: the keys whose entry holds the key
    read,           \* read[c]: the last one-sided read of c
    resp,           \* resp[c]: what client_resp_area of c starts with
    area,           \* server_req_area
    spc,            \* where the server is in its loop
    cur,            \* the i of run_server
    kreg,           \* the request whose key run_server has copied into k
    ack,            \* ack[c]: whether an acknowledgement to c is on its way
    asked,          \* history: the requests of each client
    served,         \* history: the requests of each client the server served
    acked,          \* history: number of acknowledgements each client received
    raced           \* history: whether a request of c ever met a slot in use

tableVars == <<slot, item, index_, update, crashed, dict>>
clientVars == <<cpc, wire, cache, read, asked>>
serverVars == <<spc, cur, kreg, served>>
vars == <<tableVars, clientVars, resp, area, serverVars, ack, acked, raced>>

Table == INSTANCE HydraHash
-----------------------------------------------------------------------------
Clients == 0 .. NumClients - 1

Put == 1
Get == 2
Asking == [req : {Put, Get}, key : AskedKeys]
Request == [req : {Put, Get}, key : AskedKeys, seq : Nat \ {0}]
Empty == [req |-> 0, key |-> 0, seq |-> 0]
NoReq == [req |-> -1, key |-> -1, seq |-> -1]
NoRead == [key |-> 0, landed |-> TRUE, found |-> 0, flag |-> 0,
           after |-> FALSE, quiet |-> FALSE]

\* From the first test of a slot to its clearing the server acts on the slot.
AtSlot == {"kind", "other", "takePut", "takeGet", "retire", "publish", "mark",
           "post", "clear"}

\* setup_buffers zeroes both areas and fills the table. The entries of
\* local_cache are zero, so that the one of key 0 holds its key from the start.
Init ==
    /\ Table!Init
    /\ cpc = [c \in Clients |-> "ready"]
    /\ wire = [c \in Clients |-> NoReq]
    /\ cache = [c \in Clients |-> {0}]
    /\ read = [c \in Clients |-> NoRead]
    /\ resp = [c \in Clients |-> "zero"]
    /\ area = [c \in Clients |-> Empty]
    /\ spc = "scan"
    /\ cur = 0
    /\ kreg = Empty
    /\ ack = [c \in Clients |-> FALSE]
    /\ asked = [c \in Clients |-> <<>>]
    /\ served = [c \in Clients |-> <<>>]
    /\ acked = [c \in Clients |-> 0]
    /\ raced = [c \in Clients |-> FALSE]
-----------------------------------------------------------------------------
(* The client: run_client *)

\* A request is written into the slot of the client; the key is taken now.
PostRequest(c, kind, k) ==
    /\ MapThenSumSet(LAMBDA d : Len(asked[d]), Clients) < MaxAsk
    /\ wire' = [wire EXCEPT ![c] = [req |-> kind, key |-> k, seq |-> Len(asked[c]) + 1]]
    /\ asked' = [asked EXCEPT ![c] = Append(@, [req |-> kind, key |-> k])]
    /\ read' = [read EXCEPT ![c].quiet = FALSE]
    /\ UNCHANGED <<tableVars, cache, resp, area, serverVars, ack, acked, raced>>

PostPut(c, k) ==
    /\ cpc[c] = "ready"
    /\ PostRequest(c, Put, k)
    /\ cpc' = [cpc EXCEPT ![c] = "put"]

\* poll_cq returns and client_resp_area[0] is cleared. The loop that should
\* wait for the acknowledgement tests the address of the area.
PutCompletes(c) ==
    /\ cpc[c] = "put"
    /\ wire[c] = NoReq
    /\ resp' = [resp EXCEPT ![c] = "zero"]
    /\ cpc' = [cpc EXCEPT ![c] = "ready"]
    /\ UNCHANGED <<tableVars, wire, cache, read, asked, area, serverVars, ack, acked, raced>>

\* The server is asked first for a key that is not cached, and also for one
\* whose lease exceeds the time since the entry was made (as the wall clock has
\* it). The entry of key 0 holds its key from the start, with no lease, and was
\* made in 1970: the server is never asked for it.
PostGet(c, k) ==
    /\ cpc[c] = "ready"
    /\ k # 0
    /\ PostRequest(c, Get, k)
    /\ cpc' = [cpc EXCEPT ![c] = "get"]

\* An update of k that the server has completed for some client.
Updated(k) == \E c \in Clients : \E i \in 1 .. Len(served[c]) :
                  served[c][i].key = k /\ served[c][i].as = Put

\* The item of index k is read: post_read.
PostRead(c, k) ==
    /\ cpc' = [cpc EXCEPT ![c] = "reading"]
    /\ read' = [read EXCEPT ![c] = [NoRead EXCEPT
                    !.key = k, !.landed = FALSE, !.after = Updated(k),
                    !.quiet = (acked[c] = Len(asked[c]))]]
    /\ UNCHANGED <<tableVars, wire, cache, asked, area, serverVars, ack, acked, raced>>

\* The write of the GET request has completed. Again nothing is waited for.
GetCompletes(c) ==
    /\ cpc[c] = "get"
    /\ wire[c] = NoReq
    /\ PostRead(c, asked[c][Len(asked[c])].key)
    /\ resp' = [resp EXCEPT ![c] = "zero"]

\* A cached key whose lease is over is read without asking the server.
ReadCached(c, k) ==
    /\ cpc[c] = "ready"
    /\ k \in cache[c]
    /\ PostRead(c, k)
    /\ UNCHANGED resp

\* poll_cq returns; a key that was asked for is entered in the cache.
ReadCompletes(c) ==
    /\ cpc[c] = "reading"
    /\ read[c].landed
    /\ cache' = [cache EXCEPT ![c] = @ \cup {read[c].key}]
    /\ cpc' = [cpc EXCEPT ![c] = "ready"]
    /\ UNCHANGED <<tableVars, wire, read, asked, resp, area, serverVars, ack, acked, raced>>

\* The second alarm clears execution_status: the client leaves its loop.
Finish(c) ==
    /\ cpc[c] = "ready"
    /\ cpc' = [cpc EXCEPT ![c] = "finished"]
    /\ UNCHANGED <<tableVars, wire, cache, read, asked, resp, area, serverVars, ack, acked, raced>>
-----------------------------------------------------------------------------
(* The network: reliable connections, one-sided writes and reads *)

\* A request lands in its slot whatever the server is doing with the slot.
DeliverRequest(c) ==
    /\ wire[c] # NoReq
    /\ area' = [area EXCEPT ![c] = wire[c]]
    /\ wire' = [wire EXCEPT ![c] = NoReq]
    /\ raced' = [raced EXCEPT ![c] =
                    @ \/ area[c].key # 0 \/ (cur = c /\ spc \in AtSlot)]
    /\ UNCHANGED <<tableVars, cpc, cache, read, asked, resp, serverVars, ack, acked>>

\* An item is in one cache line, and only its flag ever changes.
DeliverItem(c) ==
    /\ cpc[c] = "reading"
    /\ ~read[c].landed
    /\ read' = [read EXCEPT ![c].landed = TRUE,
                            ![c].found = item[read[c].key].key,
                            ![c].flag = item[read[c].key].flag]
    /\ resp' = [resp EXCEPT ![c] = "item"]
    /\ UNCHANGED <<tableVars, cpc, wire, cache, asked, area, serverVars, ack, acked, raced>>

\* An acknowledgement lands where items land.
DeliverAck(c) ==
    /\ ack[c]
    /\ ack' = [ack EXCEPT ![c] = FALSE]
    /\ acked' = [acked EXCEPT ![c] = @ + 1]
    /\ resp' = [resp EXCEPT ![c] = "ack"]
    /\ UNCHANGED <<tableVars, clientVars, area, serverVars, raced>>
-----------------------------------------------------------------------------
(* The server: run_server *)

\* Off by one in the wrap-around.
NextSlotSkipsLast(i) == IF NumClients = 1 THEN 0 ELSE (i + 1) % (NumClients - 1)

\* i = (i+1) % NUM_CLIENTS_PER_SERVER
NextSlot(i) == (i + 1) % NumClients

\* The kind is not tested.
AnyIsPut(r) == TRUE

IsPut(r) == r.req = Put
IsGet(r) == r.req = Get

\* if (server_req_area[i].key)
ServerScan ==
    /\ spc = "scan"
    /\ IF area[cur].key # 0
       THEN spc' = "kind" /\ UNCHANGED cur
       ELSE cur' = NextSlot(cur) /\ UNCHANGED spc
    /\ UNCHANGED <<tableVars, clientVars, resp, area, kreg, served, ack, acked, raced>>

\* if (server_req_area[i].req==1): the first look at the kind.
ServerTestsPut ==
    /\ spc = "kind"
    /\ spc' = IF IsPut(area[cur]) THEN "takePut" ELSE "other"
    /\ UNCHANGED <<tableVars, clientVars, resp, area, cur, kreg, served, ack, acked, raced>>

\* else if (server_req_area[i].req==2): the second. A PUT that has arrived in
\* between fits neither, and stays for the next round.
ServerTestsGet ==
    /\ spc = "other"
    /\ IF IsGet(area[cur])
       THEN spc' = "takeGet" /\ UNCHANGED cur
       ELSE spc' = "scan" /\ cur' = NextSlot(cur)
    /\ UNCHANGED <<tableVars, clientVars, resp, area, kreg, served, ack, acked, raced>>

\* k = server_req_area[i].key, after the kind was tested.
ServerTakesPut ==
    /\ spc = "takePut"
    /\ kreg' = area[cur]
    /\ spc' = "retire"
    /\ UNCHANGED <<tableVars, clientVars, resp, area, cur, served, ack, acked, raced>>

Serves(as) ==
    served' = [served EXCEPT ![cur] = Append(@,
                  [req |-> kreg.req, key |-> kreg.key, seq |-> kreg.seq, as |-> as])]

\* update_hash_key(compact_hash, k, item, 20), in its two steps.
ServerRetires ==
    /\ spc = "retire"
    /\ Table!Retire(kreg.key, 1)
    /\ spc' = "publish"
    /\ UNCHANGED <<clientVars, resp, area, cur, kreg, served, ack, acked, raced>>

ServerPublishes ==
    /\ spc = "publish"
    /\ Table!Publish
    /\ Serves(Put)
    /\ spc' = "mark"
    /\ UNCHANGED <<clientVars, resp, area, cur, kreg, ack, acked, raced>>

\* k is read for hashtable_search, whose result is thrown away.
ServerTakesGet ==
    /\ spc = "takeGet"
    /\ kreg' = area[cur]
    /\ served' = [served EXCEPT ![cur] = Append(@,
                     [req |-> area[cur].req, key |-> area[cur].key,
                      seq |-> area[cur].seq, as |-> Get])]
    /\ spc' = "mark"
    /\ UNCHANGED <<tableVars, clientVars, resp, area, cur, ack, acked, raced>>

\* server_req_area[i].key = 1
ServerMark ==
    /\ spc = "mark"
    /\ area' = [area EXCEPT ![cur].key = 1]
    /\ spc' = "post"
    /\ UNCHANGED <<tableVars, clientVars, resp, cur, kreg, served, ack, acked, raced>>

\* post_write to the response area of the client.
ServerPost ==
    /\ spc = "post"
    /\ ack' = [ack EXCEPT ![cur] = TRUE]
    /\ spc' = "clear"
    /\ UNCHANGED <<tableVars, clientVars, resp, area, cur, kreg, served, acked, raced>>

\* The slot is not emptied.
ServerKeepsSlot ==
    /\ spc = "clear"
    /\ spc' = "poll"
    /\ UNCHANGED <<tableVars, clientVars, resp, area, cur, kreg, served, ack, acked, raced>>

\* server_req_area[i].key = 0
ServerClear ==
    /\ spc = "clear"
    /\ area' = [area EXCEPT ![cur].key = 0]
    /\ spc' = "poll"
    /\ UNCHANGED <<tableVars, clientVars, resp, cur, kreg, served, ack, acked, raced>>

\* poll_cq returns when the acknowledgement write has completed.
ServerPoll ==
    /\ spc = "poll"
    /\ ~ack[cur]
    /\ spc' = "scan"
    /\ cur' = NextSlot(cur)
    /\ UNCHANGED <<tableVars, clientVars, resp, area, kreg, served, ack, acked, raced>>
-----------------------------------------------------------------------------
Client(c) ==
    \/ \E k \in AskedKeys : PostPut(c, k) \/ PostGet(c, k) \/ ReadCached(c, k)
    \/ PutCompletes(c)
    \/ GetCompletes(c)
    \/ ReadCompletes(c)
    \/ Finish(c)

Network(c) == DeliverRequest(c) \/ DeliverItem(c) \/ DeliverAck(c)

Server ==
    \/ ServerScan
    \/ ServerTestsPut
    \/ ServerTestsGet
    \/ ServerTakesPut
    \/ ServerRetires
    \/ ServerPublishes
    \/ ServerTakesGet
    \/ ServerMark
    \/ ServerPost
    \/ ServerClear
    \/ ServerPoll

Next == Server \/ \E c \in Clients : Client(c) \/ Network(c)

Spec == Init /\ [][Next]_vars

\* The server spins in its loop, and a reliable connection delivers what was
\* posted. Nothing is assumed of the clients.
Fairness ==
    /\ WF_vars(Server)
    /\ \A c \in Clients : WF_vars(DeliverRequest(c)) /\ WF_vars(DeliverAck(c))

FairSpec == Spec /\ Fairness
-----------------------------------------------------------------------------
TypeOK ==
    /\ Table!TypeOK
    /\ cpc \in [Clients -> {"ready", "put", "get", "reading", "finished"}]
    /\ wire \in [Clients -> Request \cup {NoReq}]
    /\ cache \in [Clients -> SUBSET Keys]
    /\ read \in [Clients -> [key : Keys, landed : BOOLEAN, found : Nat, flag : {0, 1},
                             after : BOOLEAN, quiet : BOOLEAN]]
    /\ resp \in [Clients -> {"zero", "item", "ack"}]
    /\ area \in [Clients -> [req : 0 .. 2, key : Nat, seq : Nat]]
    /\ spc \in AtSlot \cup {"scan", "poll"}
    /\ cur \in Clients
    /\ kreg \in [req : 0 .. 2, key : Nat, seq : Nat]
    /\ ack \in [Clients -> BOOLEAN]
    /\ asked \in [Clients -> Seq(Asking)]
    /\ served \in [Clients -> Seq([req : {Put, Get}, key : Keys, seq : Nat, as : {Put, Get}])]
    /\ acked \in [Clients -> Nat]
    /\ raced \in [Clients -> BOOLEAN]

\* The requests served, as what was asked for.
Answered == [c \in Clients |-> [i \in 1 .. Len(served[c]) |->
                [key |-> [req |-> served[c][i].req, key |-> served[c][i].key],
                 seq |-> served[c][i].seq]]]

Log == INSTANCE PutLog WITH Keys <- Asking, applied <- Answered
\* Whatever lands between the server's four looks at a slot, it serves each
\* request of a client at most once, in order, with the key of that request.
\* (Of which kind it takes it for is the next property.)
ImplementsLog == Log!LogSpec

\* What the server still owes client c.
Pending(c) ==
    IF cur = c /\ spc \in {"retire", "publish"} THEN {kreg.seq}
    ELSE IF area[c].key # 0 /\ ~(cur = c /\ spc \in {"mark", "post", "clear"})
    THEN {area[c].seq} ELSE {}

\* A client whose requests have only met free slots has them served as what
\* they are, and none is lost: a PUT is an update and a GET never is.
PacedRequestsAreKept ==
    \A c \in Clients : ~raced[c] =>
        /\ \A i \in 1 .. Len(served[c]) : served[c][i].as = served[c][i].req
        /\ \A n \in 1 .. Len(asked[c]) : (wire[c].seq # n /\ asked[c][n].key # 0) =>
              n \in {served[c][i].seq : i \in 1 .. Len(served[c])} \cup Pending(c)

\* A read goes by the key as an index, for ever: what it finds there is an
\* item of the key, however many updates have moved the key elsewhere.
LocationsStay == \A c \in Clients : read[c].landed => read[c].found = read[c].key

\* A read that was posted after an update of the key, by whichever client, had
\* been served returns an item that is flagged as replaced: a client that
\* looked at the flag would know that the item is stale.
UpdatedIsFlagged == \A c \in Clients : (read[c].landed /\ read[c].after) => read[c].flag = 1

\* Items and acknowledgements share client_resp_area. A client that has had
\* the answers to all its requests keeps the item that it reads next until it
\* asks again: no second answer to any of them overwrites it.
QuietReadStays ==
    \A c \in Clients : (read[c].landed /\ read[c].quiet) => resp[c] = "item"

\* No request stays in its slot: it is served, or the client writes another
\* one over it. The server may leave a slot whose kind has changed between
\* its two looks at it, but comes back.
SlotsAreServed ==
    \A c \in Clients : \A n \in 1 .. MaxAsk :
        (area[c].key # 0 /\ area[c].seq = n) ~> (area[c].key = 0 \/ area[c].seq > n)
=============================================================================
