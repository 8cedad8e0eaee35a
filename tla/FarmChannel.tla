----------------------------- MODULE FarmChannel -----------------------------
(***************************************************************************)
(* The request and acknowledgement path of FaRM/main.c, for one server and *)
(* its NUM_CLIENTS_PER_SERVER clients. A client RDMA-writes a request_s    *)
(* into the slot of server_req_area that its id selects; the server scans  *)
(* the slots, applies the request it finds to the hopscotch table, marks   *)
(* the slot, RDMA-writes an acknowledgement into the client's              *)
(* client_resp_area and empties the slot. The client's NIC also places the *)
(* buckets of a GET in client_resp_area.                                   *)
(*                                                                         *)
(* The slots and response areas are plain memory that a NIC writes at any  *)
(* moment, so every access of the server to a slot is a step of its own.   *)
(* Requests carry a number, seq, that the code does not have: it names the *)
(* request so that the properties can tell two PUTs of one key apart.      *)
(***************************************************************************)
EXTENDS Integers, Sequences

CONSTANTS
    NumClients,     \* NUM_CLIENTS_PER_SERVER
    Keys,           \* the keys of the distribution file a client draws from
    Loaded,         \* the keys the server inserted before it serves
    GetKeys,        \* the keys that GETs read
    MaxPut          \* bound: PUTs per client

ASSUME ClientsAssumption == NumClients \in Nat \ {0}
ASSUME KeysAssumption ==
    /\ Keys \subseteq Nat
    /\ Loaded \subseteq Keys
    /\ GetKeys \subseteq Loaded
ASSUME BoundAssumption == MaxPut \in Nat

VARIABLES
    conn,           \* conn[i]: the client whose connection the server accepted i-th
    cpc,            \* where each client is in its loop
    wire,           \* wire[c]: the request write of c that the NICs carry, or NoReq
    read,           \* read[c]: the last GET of c: its key, and whether it has landed
    resp,           \* resp[c]: first word of client_resp_area of c
    slot,           \* server_req_area
    spc,            \* where the server is in its loop
    cur,            \* the i of run_server
    kreg,           \* the request run_server has copied into k
    ack,            \* ack[i]: the acknowledgement write posted on QP i, or NoAck
    asked,          \* history: keys of the PUTs each client posted
    applied,        \* history: requests of each client applied to the table
    acked,          \* history: number of acknowledgements each client received
    raced           \* history: whether a request of c ever met a slot in use

clientVars == <<cpc, wire, read, asked>>
serverVars == <<spc, cur, kreg, applied>>
vars == <<conn, cpc, wire, read, resp, slot, spc, cur, kreg, ack, asked, applied,
          acked, raced>>
-----------------------------------------------------------------------------
Clients == 0 .. NumClients - 1

Request == [key : Keys, seq : Nat \ {0}]
Empty == [key |-> 0, seq |-> 0]             \* a slot the server may be sent a request in
NoReq == [key |-> -1, seq |-> -1]           \* nothing on the wire
NoAck == -1

\* The server's accesses to the slot between reading a request and freeing it.
Serving == {"update", "mark", "post", "clear"}

\* Clients are accepted in whatever order they reach the server's TCP socket.
AcceptOrders ==
    {f \in [Clients -> Clients] : \A i, j \in Clients : f[i] = f[j] => i = j}

\* setup_buffers zeroes both areas; the server's i starts at -1 and is
\* advanced to 0 before the first slot is looked at.
Init ==
    /\ conn \in AcceptOrders
    /\ cpc = [c \in Clients |-> "ready"]
    /\ wire = [c \in Clients |-> NoReq]
    /\ read = [c \in Clients |-> [key |-> 0, landed |-> TRUE]]
    /\ resp = [c \in Clients |-> 0]
    /\ slot = [c \in Clients |-> Empty]
    /\ spc = "scan"
    /\ cur = 0
    /\ kreg = Empty
    /\ ack = [i \in Clients |-> NoAck]
    /\ asked = [c \in Clients |-> <<>>]
    /\ applied = [c \in Clients |-> <<>>]
    /\ acked = [c \in Clients |-> 0]
    /\ raced = [c \in Clients |-> FALSE]
-----------------------------------------------------------------------------
(* The client: run_client *)

\* A new request is a PUT: the write is posted inline, so the key is taken now.
PostPut(c, k) ==
    /\ cpc[c] = "ready"
    /\ Len(asked[c]) < MaxPut
    /\ wire' = [wire EXCEPT ![c] = [key |-> k, seq |-> Len(asked[c]) + 1]]
    /\ asked' = [asked EXCEPT ![c] = Append(@, k)]
    /\ cpc' = [cpc EXCEPT ![c] = "posted"]
    /\ UNCHANGED <<conn, read, resp, slot, serverVars, ack, acked, raced>>

\* poll_cq returns: the write has completed, so the server's memory holds it.
PutCompletes(c) ==
    /\ cpc[c] = "posted"
    /\ wire[c] = NoReq
    /\ cpc' = [cpc EXCEPT ![c] = "await"]
    /\ UNCHANGED <<conn, wire, read, resp, slot, serverVars, ack, asked, acked, raced>>

\* client_resp_area[0] is cleared, and the loop that should wait for the
\* acknowledgement tests the address of the area, which is never null.
AwaitAck(c) ==
    /\ cpc[c] = "await"
    /\ resp' = [resp EXCEPT ![c] = 0]
    /\ cpc' = [cpc EXCEPT ![c] = "ready"]
    /\ UNCHANGED <<conn, wire, read, slot, serverVars, ack, asked, acked, raced>>

\* A new request is a GET: a read of the buckets that start at k's home.
PostGet(c, k) ==
    /\ cpc[c] = "ready"
    /\ read' = [read EXCEPT ![c] = [key |-> k, landed |-> FALSE]]
    /\ cpc' = [cpc EXCEPT ![c] = "reading"]
    /\ UNCHANGED <<conn, wire, resp, slot, serverVars, ack, asked, acked, raced>>

GetCompletes(c) ==
    /\ cpc[c] = "reading"
    /\ read[c].landed
    /\ cpc' = [cpc EXCEPT ![c] = "ready"]
    /\ UNCHANGED <<conn, wire, read, resp, slot, serverVars, ack, asked, acked, raced>>

\* The second alarm clears execution_status: the client leaves its loop.
Finish(c) ==
    /\ cpc[c] = "ready"
    /\ cpc' = [cpc EXCEPT ![c] = "finished"]
    /\ UNCHANGED <<conn, wire, read, resp, slot, serverVars, ack, asked, acked, raced>>
-----------------------------------------------------------------------------
(* The network: reliable connections, one-sided writes and reads *)

\* The request lands in the slot that the id of the client selects, whatever
\* that slot holds and whatever the server is doing with it.
DeliverPut(c) ==
    /\ wire[c] # NoReq
    /\ slot' = [slot EXCEPT ![c] = wire[c]]
    /\ wire' = [wire EXCEPT ![c] = NoReq]
    /\ raced' = [raced EXCEPT ![c] =
                    @ \/ slot[c].key # 0 \/ (cur = c /\ spc \in Serving \cup {"read"})]
    /\ UNCHANGED <<conn, cpc, read, resp, serverVars, ack, asked, acked>>

\* The buckets of a GET land: the first word of the first one is its key.
DeliverBuckets(c) ==
    /\ cpc[c] = "reading"
    /\ ~read[c].landed
    /\ resp' = [resp EXCEPT ![c] = read[c].key]
    /\ read' = [read EXCEPT ![c].landed = TRUE]
    /\ UNCHANGED <<conn, cpc, wire, slot, serverVars, ack, asked, acked, raced>>

\* The acknowledgement on QP i lands in the area of the i-th accepted client.
DeliverAck(i) ==
    /\ ack[i] # NoAck
    /\ resp' = [resp EXCEPT ![conn[i]] = ack[i]]
    /\ acked' = [acked EXCEPT ![conn[i]] = @ + 1]
    /\ ack' = [ack EXCEPT ![i] = NoAck]
    /\ UNCHANGED <<conn, clientVars, slot, serverVars, raced>>
-----------------------------------------------------------------------------
(* The server: run_server *)

\* Off by one in the wrap-around, and no wrap-around.
NextSlotSkipsLast(i) == IF NumClients = 1 THEN 0 ELSE (i + 1) % (NumClients - 1)
NextSlotNoWrap(i) == i + 1

\* i = (i+1) % NUM_CLIENTS_PER_SERVER
NextSlot(i) == (i + 1) % NumClients

\* if (server_req_area[i].key): a pending request, or on to the next slot.
ServerScan ==
    /\ spc = "scan"
    /\ IF slot[cur].key # 0
       THEN spc' = "read" /\ UNCHANGED cur
       ELSE cur' = NextSlot(cur) /\ UNCHANGED spc
    /\ UNCHANGED <<conn, clientVars, resp, slot, kreg, applied, ack, acked, raced>>

\* k = server_req_area[i].key: a second access to the slot.
ServerRead ==
    /\ spc = "read"
    /\ kreg' = slot[cur]
    /\ spc' = "update"
    /\ UNCHANGED <<conn, clientVars, resp, slot, cur, applied, ack, acked, raced>>

\* hopscotch_update(hhead, k, k): a key that is not in the table is reported
\* on the console and otherwise ignored.
ServerUpdate ==
    /\ spc = "update"
    /\ spc' = "mark"
    /\ applied' = IF kreg.key \in Loaded
                  THEN [applied EXCEPT ![cur] = Append(@, kreg)]
                  ELSE applied
    /\ UNCHANGED <<conn, clientVars, resp, slot, cur, kreg, ack, acked, raced>>

\* server_req_area[i].key = 1: the value that the acknowledgement should carry.
ServerMark ==
    /\ spc = "mark"
    /\ slot' = [slot EXCEPT ![cur].key = 1]
    /\ spc' = "post"
    /\ UNCHANGED <<conn, clientVars, resp, cur, kreg, applied, ack, acked, raced>>

\* post_write sends server_req_area, which is the first slot for every i.
ServerPost ==
    /\ spc = "post"
    /\ ack' = [ack EXCEPT ![cur] = slot[0].key]
    /\ spc' = "clear"
    /\ UNCHANGED <<conn, clientVars, resp, slot, cur, kreg, applied, acked, raced>>

\* The slot is not emptied.
ServerKeepsSlot ==
    /\ spc = "clear"
    /\ spc' = "poll"
    /\ UNCHANGED <<conn, clientVars, resp, slot, cur, kreg, applied, ack, acked, raced>>

\* The base pointer is used for the slot, as it is in the call above it.
ServerClearsFirstSlot ==
    /\ spc = "clear"
    /\ slot' = [slot EXCEPT ![0] = Empty]
    /\ spc' = "poll"
    /\ UNCHANGED <<conn, clientVars, resp, cur, kreg, applied, ack, acked, raced>>

\* server_req_area[i].key = 0: the slot is free for the next request.
ServerClear ==
    /\ spc = "clear"
    /\ slot' = [slot EXCEPT ![cur] = Empty]
    /\ spc' = "poll"
    /\ UNCHANGED <<conn, clientVars, resp, cur, kreg, applied, ack, acked, raced>>

\* poll_cq returns when the acknowledgement write has completed.
ServerPoll ==
    /\ spc = "poll"
    /\ ack[cur] = NoAck
    /\ spc' = "scan"
    /\ cur' = NextSlot(cur)
    /\ UNCHANGED <<conn, clientVars, resp, slot, kreg, applied, ack, acked, raced>>
-----------------------------------------------------------------------------
Client(c) ==
    \/ \E k \in Keys : PostPut(c, k)
    \/ PutCompletes(c)
    \/ AwaitAck(c)
    \/ \E k \in GetKeys : PostGet(c, k)
    \/ GetCompletes(c)
    \/ Finish(c)

Network(c) == DeliverPut(c) \/ DeliverBuckets(c) \/ DeliverAck(c)

Server ==
    \/ ServerScan
    \/ ServerRead
    \/ ServerUpdate
    \/ ServerMark
    \/ ServerPost
    \/ ServerClear
    \/ ServerPoll

Next == Server \/ \E c \in Clients : Client(c) \/ Network(c)

Spec == Init /\ [][Next]_vars

\* The server spins in its loop, and a reliable connection delivers what was
\* posted. Nothing is assumed of the clients.
Fairness ==
    /\ WF_vars(Server)
    /\ \A c \in Clients : WF_vars(DeliverPut(c)) /\ WF_vars(DeliverAck(c))

FairSpec == Spec /\ Fairness
-----------------------------------------------------------------------------
TypeOK ==
    /\ conn \in [Clients -> Clients]
    /\ cpc \in [Clients -> {"ready", "posted", "await", "reading", "finished"}]
    /\ wire \in [Clients -> Request \cup {NoReq}]
    /\ read \in [Clients -> [key : Nat, landed : BOOLEAN]]
    /\ resp \in [Clients -> Nat]
    /\ slot \in [Clients -> [key : Nat, seq : Nat]]
    /\ spc \in Serving \cup {"scan", "read", "poll"}
    /\ cur \in Clients
    /\ kreg \in [key : Nat, seq : Nat]
    /\ ack \in [Clients -> Nat \cup {NoAck}]
    /\ asked \in [Clients -> Seq(Keys)]
    /\ applied \in [Clients -> Seq(Request)]
    /\ acked \in [Clients -> Nat]
    /\ raced \in [Clients -> BOOLEAN]

\* Every request the server applies is one that the client of that slot
\* posted, with the key it was posted with: no reading of a slot ever takes
\* the server's own mark, a cleared word or another client's request for one.
AppliedWasAsked ==
    \A c \in Clients : \A i \in 1 .. Len(applied[c]) :
        /\ applied[c][i].seq \in 1 .. Len(asked[c])
        /\ applied[c][i].key = asked[c][applied[c][i].seq]

\* The server applies the PUTs of a client at most once and in program order,
\* although a slot is rewritten by the NIC while it is being served.
AppliedInOrder ==
    \A c \in Clients : \A i, j \in 1 .. Len(applied[c]) :
        i < j => applied[c][i].seq < applied[c][j].seq

\* What the server still owes client c: the request in its slot, or the one
\* it has read and not yet applied.
Pending(c) ==
    IF cur = c /\ spc = "update" THEN {kreg.seq}
    ELSE IF slot[c].key # 0 /\ ~(cur = c /\ spc \in Serving) THEN {slot[c].seq}
    ELSE {}

\* A request is lost only by meeting a slot in use: as long as none of c's
\* requests has landed on an unread request or on a slot being served, each
\* PUT of a loaded, non-zero key that has landed is applied or pending. This
\* is what a client that did wait for its acknowledgement would rely on.
PacedPutsAreKept ==
    \A c \in Clients : \A n \in 1 .. Len(asked[c]) :
        (~raced[c] /\ wire[c].seq # n /\ asked[c][n] \in Loaded \ {0}) =>
            n \in {applied[c][i].seq : i \in 1 .. Len(applied[c])} \cup Pending(c)

\* No slot is served for ever or passed over: a slot that holds a request is
\* emptied, or the client has written another one over it.
SlotsAreServed ==
    \A c \in Clients : \A n \in 1 .. MaxPut :
        (slot[c].key # 0 /\ slot[c].seq = n) ~> (slot[c].key = 0 \/ slot[c].seq > n)

\* As long as its requests meet free slots, each PUT of a client is applied.
PacedPutsAreApplied ==
    \A c \in Clients : \A n \in 1 .. MaxPut :
        (slot[c].seq = n /\ asked[c][n] \in Loaded \ {0})
            ~> (raced[c] \/ n \in {applied[c][i].seq : i \in 1 .. Len(applied[c])})

Log == INSTANCE PutLog
\* The slots implement the log: each step of the channel asks for a PUT,
\* applies one that was asked for later than all that were applied, or is
\* invisible to it.
ImplementsLog == Log!LogSpec
-----------------------------------------------------------------------------
(* Why AppliedInOrder holds: the inductive invariant *)

\* r is a request that client c posted, later than all that were applied.
Newer(c, r) ==
    /\ r.seq \in 1 .. Len(asked[c])
    /\ r.key = asked[c][r.seq]
    /\ \A i \in 1 .. Len(applied[c]) : applied[c][i].seq < r.seq

\* Where a request can be between its posting and its application, and what
\* each place implies for the places further down the path.
WireIsNewest ==
    \A c \in Clients : wire[c] # NoReq =>
        /\ Newer(c, wire[c])
        /\ slot[c].seq < wire[c].seq
        /\ (cur = c /\ spc = "update") => kreg.seq < wire[c].seq

SlotIsNewer ==
    \A c \in Clients : ~(cur = c /\ spc \in Serving) =>
        /\ slot[c].seq # 0 => Newer(c, slot[c])
        /\ slot[c].key # 0 => slot[c].seq # 0

RegisterIsNewer ==
    /\ spc = "read" => slot[cur].seq # 0
    /\ spc = "update" => Newer(cur, kreg)

SlotsBounded == \A c \in Clients : slot[c].seq <= Len(asked[c])

\* The slots never hold, under the server's hand, anything as old as what it
\* has applied: the conjunction is preserved by every step.
IInv ==
    /\ TypeOK
    /\ WireIsNewest
    /\ SlotIsNewer
    /\ RegisterIsNewer
    /\ SlotsBounded
    /\ AppliedWasAsked
    /\ AppliedInOrder
=============================================================================
