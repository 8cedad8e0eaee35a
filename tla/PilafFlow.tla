------------------------------ MODULE PilafFlow ------------------------------
(***************************************************************************)
(* The flow control of Pilaf/main.c, for one server and its clients: PUTs  *)
(* travel as SENDs over unreliable connections and are answered by SENDs,  *)
(* GETs are chains of two or three one-sided READs. Both sides count, by   *)
(* hand, the RECVs they have posted and the work requests they have asked  *)
(* a completion for (every other one), and spin in poll_cq until that      *)
(* completion comes: a count that is wrong by one spins for ever, fills a  *)
(* queue, or leaves a message without a RECV to land in.                   *)
(*                                                                         *)
(* A message that the network loses, or that finds no RECV, is gone. The   *)
(* key of the n-th PUT of client c is <<c, n>>.                            *)
(***************************************************************************)
EXTENDS Integers, Sequences

CONSTANTS
    NumClients,     \* NUM_CLIENTS_PER_SERVER
    QDepth,         \* Q_DEPTH: RECVs that a connection holds
    SDepth,         \* S_DEPTH: RECVs below which more are posted
    MaxRequests     \* bound: SENDs and READs that a client posts

ASSUME ClientsAssumption == NumClients \in Nat \ {0}
ASSUME DepthAssumption == SDepth \in Nat \ {0, 1} /\ QDepth \in Nat /\ SDepth < QDepth
ASSUME BoundAssumption == MaxRequests \in Nat

VARIABLES
    cpc,            \* where each client is in run_client
    ws_phase,       \* what each client waits for: the single slot of its window
    num_recvs,      \* the count of posted RECVs of each client
    num_sends, old_num_sends,       \* SENDs posted; the same when last polled for
    num_reads, old_num_reads,       \* READs posted; the same when last polled for
    landed,         \* whether client_resp_area->offset is no longer zero
    spc,            \* where the server is in run_server
    cn,             \* the client it is at
    tot_recvs,      \* its count of posted RECVs for each client
    tot_sends,      \* SENDs it has posted to each client
    left,           \* num_polls - i
    key,            \* lookup_place_cost
    posted,         \* posted[e][c]: RECVs in the receive queue at end e
    arrived,        \* arrived[e][c]: completions in RECV_cq at end e
    due,            \* due[q][c]: signalled work requests that are not complete
    cq,             \* cq[q][c]: completions in SEND_cq or READ_cq
    up, down,       \* SENDs in flight: up[c] the requests, down[c] their number
    request_area,   \* *server_request_area
    done,           \* history: PUTs of each client that were answered
    placed,         \* history: keys that the server has placed
    lost,           \* history: whether a message of c was lost
    crossed         \* history: whether a request landed on an unserved one of c

clientVars == <<cpc, ws_phase, num_recvs, num_sends, old_num_sends, num_reads,
                old_num_reads, landed, done>>
serverVars == <<spc, cn, tot_recvs, tot_sends, left, key, placed>>
nicVars == <<posted, arrived, due, cq, up, down, request_area, lost, crossed>>
vars == <<clientVars, serverVars, nicVars>>
-----------------------------------------------------------------------------
Clients == 0 .. NumClients - 1
Ends == {"client", "server"}
Signalled == {"client", "server", "read"}   \* SEND_cq of either end; READ_cq
Keys == Clients \X (Nat \ {0})
NoKey == <<-1, 0>>          \* the zeros that setup_buffers fills the area with

Even(n) == n % 2 = 0        \* (n & WINDOW_SIZE_) == 0, (n & WS_SERVER_) == 0
Fill(n) == QDepth - n       \* RECVs that post_recvs adds to a count of n

Init ==
    /\ cpc = [c \in Clients |-> "recvs"]
    /\ ws_phase = [c \in Clients |-> "none"]
    /\ num_recvs = [c \in Clients |-> 0]
    /\ num_sends = [c \in Clients |-> 0] /\ old_num_sends = [c \in Clients |-> 0]
    /\ num_reads = [c \in Clients |-> 0] /\ old_num_reads = [c \in Clients |-> 0]
    /\ landed = [c \in Clients |-> FALSE]
    /\ spc = "recvs"
    /\ cn = 0
    /\ tot_recvs = [c \in Clients |-> 0]
    /\ tot_sends = [c \in Clients |-> 0]
    /\ left = 0
    /\ key = NoKey
    /\ posted = [e \in Ends |-> [c \in Clients |-> 0]]
    /\ arrived = [e \in Ends |-> [c \in Clients |-> 0]]
    /\ due = [q \in Signalled |-> [c \in Clients |-> 0]]
    /\ cq = [q \in Signalled |-> [c \in Clients |-> 0]]
    /\ up = [c \in Clients |-> <<>>]
    /\ down = [c \in Clients |-> 0]
    /\ request_area = NoKey
    /\ done = [c \in Clients |-> 0]
    /\ placed = {}
    /\ lost = [c \in Clients |-> FALSE]
    /\ crossed = [c \in Clients |-> FALSE]
-----------------------------------------------------------------------------
(* The client: run_client *)

\* post_recvs(cb, Q_DEPTH, ...), before the loop.
ClientPostRecvs(c) ==
    /\ cpc[c] = "recvs"
    /\ posted' = [posted EXCEPT !["client"][c] = @ + QDepth]
    /\ cpc' = [cpc EXCEPT ![c] = "alert"]
    /\ UNCHANGED <<ws_phase, num_recvs, num_sends, old_num_sends, num_reads, old_num_reads,
                   landed, done, serverVars, arrived, due, cq, up, down, request_area,
                   lost, crossed>>

\* The count forgets the RECV that the alert used.
ClientIgnoresAlert(c) ==
    /\ cpc[c] = "alert"
    /\ arrived["client"][c] > 0
    /\ arrived' = [arrived EXCEPT !["client"][c] = @ - 1]
    /\ num_recvs' = [num_recvs EXCEPT ![c] = QDepth]
    /\ cpc' = [cpc EXCEPT ![c] = "loop"]
    /\ UNCHANGED <<ws_phase, num_sends, old_num_sends, num_reads, old_num_reads, landed,
                   done, serverVars, posted, due, cq, up, down, request_area, lost, crossed>>

\* Wait for the server's message, which uses one of the RECVs.
ClientAlerted(c) ==
    /\ cpc[c] = "alert"
    /\ arrived["client"][c] > 0
    /\ arrived' = [arrived EXCEPT !["client"][c] = @ - 1]
    /\ num_recvs' = [num_recvs EXCEPT ![c] = QDepth - 1]
    /\ cpc' = [cpc EXCEPT ![c] = "loop"]
    /\ UNCHANGED <<ws_phase, num_sends, old_num_sends, num_reads, old_num_reads, landed,
                   done, serverVars, posted, due, cq, up, down, request_area, lost, crossed>>

\* The head of the loop: more RECVs when few are left, in one batch.
ClientLoop(c) ==
    /\ cpc[c] = "loop"
    /\ IF num_recvs[c] < SDepth
       THEN /\ posted' = [posted EXCEPT !["client"][c] = @ + Fill(num_recvs[c])]
            /\ num_recvs' = [num_recvs EXCEPT ![c] = QDepth]
       ELSE UNCHANGED <<posted, num_recvs>>
    /\ cpc' = [cpc EXCEPT ![c] = "reads"]
    /\ UNCHANGED <<ws_phase, num_sends, old_num_sends, num_reads, old_num_reads, landed,
                   done, serverVars, arrived, due, cq, up, down, request_area, lost, crossed>>

\* The second alarm has cleared execution_status.
ClientFinish(c) ==
    /\ cpc[c] = "loop"
    /\ cpc' = [cpc EXCEPT ![c] = "finished"]
    /\ UNCHANGED <<ws_phase, num_recvs, num_sends, old_num_sends, num_reads, old_num_reads,
                   landed, done, serverVars, nicVars>>

\* The old count is not looked at.
MustPollAgain(n, old) == Even(n) /\ n # 0

\* Whether the next work request is signalled and the last signalled one has
\* still to be polled for.
MustPoll(n, old) == Even(n) /\ n # 0 /\ n # old

ClientReads(c) ==
    /\ cpc[c] = "reads"
    /\ IF MustPoll(num_reads[c], old_num_reads[c])
       THEN /\ cq["read"][c] > 0
            /\ cq' = [cq EXCEPT !["read"][c] = @ - 1]
            /\ old_num_reads' = [old_num_reads EXCEPT ![c] = num_reads[c]]
       ELSE UNCHANGED <<cq, old_num_reads>>
    /\ cpc' = [cpc EXCEPT ![c] = "sends"]
    /\ UNCHANGED <<ws_phase, num_recvs, num_sends, old_num_sends, num_reads, landed, done,
                   serverVars, posted, arrived, due, up, down, request_area, lost, crossed>>

ClientSends(c) ==
    /\ cpc[c] = "sends"
    /\ IF MustPoll(num_sends[c], old_num_sends[c])
       THEN /\ cq["client"][c] > 0
            /\ cq' = [cq EXCEPT !["client"][c] = @ - 1]
            /\ old_num_sends' = [old_num_sends EXCEPT ![c] = num_sends[c]]
       ELSE UNCHANGED <<cq, old_num_sends>>
    /\ cpc' = [cpc EXCEPT ![c] = "complete"]
    /\ UNCHANGED <<ws_phase, num_recvs, num_sends, num_reads, old_num_reads, landed, done,
                   serverVars, posted, arrived, due, up, down, request_area, lost, crossed>>

\* The previous phase was a PUT: its answer is a completion in RECV_cq.
ClientPutReturns(c) ==
    /\ cpc[c] = "complete"
    /\ ws_phase[c] = "SEND_1"
    /\ arrived["client"][c] > 0
    /\ arrived' = [arrived EXCEPT !["client"][c] = @ - 1]
    /\ num_recvs' = [num_recvs EXCEPT ![c] = @ - 1]
    /\ done' = [done EXCEPT ![c] = @ + 1]
    /\ ws_phase' = [ws_phase EXCEPT ![c] = "none"]
    /\ cpc' = [cpc EXCEPT ![c] = "issue"]
    /\ UNCHANGED <<num_sends, old_num_sends, num_reads, old_num_reads, landed, serverVars,
                   posted, due, cq, up, down, request_area, lost, crossed>>

\* The previous phase was a READ: the client spins until the bucket is there.
\* The last READ of a GET ends it; otherwise the next one is posted below.
ClientReadReturns(c) ==
    /\ cpc[c] = "complete"
    /\ ws_phase[c] \in {"READ_1", "READ_2", "READ_3"}
    /\ landed[c]
    /\ ws_phase' = [ws_phase EXCEPT ![c] = IF @ = "READ_3" THEN "none" ELSE @]
    /\ cpc' = [cpc EXCEPT ![c] = "issue"]
    /\ UNCHANGED <<num_recvs, num_sends, old_num_sends, num_reads, old_num_reads, landed,
                   done, serverVars, nicVars>>

\* There was no previous phase.
ClientNothingToComplete(c) ==
    /\ cpc[c] = "complete"
    /\ ws_phase[c] = "none"
    /\ cpc' = [cpc EXCEPT ![c] = "issue"]
    /\ UNCHANGED <<ws_phase, num_recvs, num_sends, old_num_sends, num_reads, old_num_reads,
                   landed, done, serverVars, nicVars>>

\* No work request is signalled.
SignalNever(q, c, signal) == UNCHANGED due

\* Every work request is signalled.
SignalAlways(q, c, signal) == due' = [due EXCEPT ![q][c] = @ + 1]

SignalIf(q, c, signal) == due' = [due EXCEPT ![q][c] = IF signal THEN @ + 1 ELSE @]

\* A new request is a PUT, posted inline; every other SEND is signalled.
ClientPut(c) ==
    /\ cpc[c] = "issue"
    /\ ws_phase[c] = "none"
    /\ num_sends[c] + num_reads[c] < MaxRequests
    /\ up' = [up EXCEPT ![c] = Append(@, <<c, num_sends[c] + 1>>)]
    /\ SignalIf("client", c, Even(num_sends[c]))
    /\ num_sends' = [num_sends EXCEPT ![c] = @ + 1]
    /\ ws_phase' = [ws_phase EXCEPT ![c] = "SEND_1"]
    /\ cpc' = [cpc EXCEPT ![c] = "loop"]
    /\ UNCHANGED <<num_recvs, old_num_sends, num_reads, old_num_reads, landed, done,
                   serverVars, posted, arrived, cq, down, request_area, lost, crossed>>

\* A new request is a GET of two or of three READs, or the next READ of one:
\* client_resp_area is cleared before the READ is posted.
ClientRead(c) ==
    /\ cpc[c] = "issue"
    /\ num_sends[c] + num_reads[c] < MaxRequests
    /\ \/ /\ ws_phase[c] = "none"
          /\ \E first \in {"READ_1", "READ_2"} : ws_phase' = [ws_phase EXCEPT ![c] = first]
       \/ /\ ws_phase[c] = "READ_1"
          /\ ws_phase' = [ws_phase EXCEPT ![c] = "READ_2"]
       \/ /\ ws_phase[c] = "READ_2"
          /\ ws_phase' = [ws_phase EXCEPT ![c] = "READ_3"]
    /\ landed' = [landed EXCEPT ![c] = FALSE]
    /\ SignalIf("read", c, Even(num_reads[c]))
    /\ num_reads' = [num_reads EXCEPT ![c] = @ + 1]
    /\ cpc' = [cpc EXCEPT ![c] = "loop"]
    /\ UNCHANGED <<num_recvs, num_sends, old_num_sends, old_num_reads, done, serverVars,
                   posted, arrived, cq, up, down, request_area, lost, crossed>>

Client(c) ==
    \/ ClientPostRecvs(c)
    \/ ClientAlerted(c)
    \/ ClientLoop(c)
    \/ ClientReads(c)
    \/ ClientSends(c)
    \/ ClientPutReturns(c)
    \/ ClientReadReturns(c)
    \/ ClientNothingToComplete(c)
    \/ ClientPut(c)
    \/ ClientRead(c)
-----------------------------------------------------------------------------
(* The server: run_server *)

\* cn = cn_lo + iter % NUM_CLIENTS_PER_SERVER, and the two loops over clients.
NextClient(i) == (i + 1) % NumClients

\* All RECVs are posted on the first connection.
ServerPostsToFirst ==
    /\ spc = "recvs"
    /\ posted' = [posted EXCEPT !["server"][0] = @ + QDepth]
    /\ tot_recvs' = [tot_recvs EXCEPT ![cn] = @ + QDepth]
    /\ cn' = NextClient(cn)
    /\ spc' = IF cn = NumClients - 1 THEN "alert" ELSE "recvs"
    /\ UNCHANGED <<clientVars, tot_sends, left, key, placed, arrived, due, cq, up, down,
                   request_area, lost, crossed>>

\* RECVs for all clients, one client after the other.
ServerPostRecvs ==
    /\ spc = "recvs"
    /\ posted' = [posted EXCEPT !["server"][cn] = @ + QDepth]
    /\ tot_recvs' = [tot_recvs EXCEPT ![cn] = @ + QDepth]
    /\ cn' = NextClient(cn)
    /\ spc' = IF cn = NumClients - 1 THEN "alert" ELSE "recvs"
    /\ UNCHANGED <<clientVars, tot_sends, left, key, placed, arrived, due, cq, up, down,
                   request_area, lost, crossed>>

\* After sleep(10), a signalled SEND to each client. Nothing tells the server
\* whether the client has posted its RECVs by then. The loop starts at iter 1.
ServerAlert ==
    /\ spc = "alert"
    /\ down' = [down EXCEPT ![cn] = @ + 1]
    /\ SignalIf("server", cn, TRUE)
    /\ tot_sends' = [tot_sends EXCEPT ![cn] = @ + 1]
    /\ IF cn = NumClients - 1
       THEN spc' = "poll" /\ cn' = NextClient(0)
       ELSE spc' = "alert" /\ cn' = NextClient(cn)
    /\ UNCHANGED <<clientVars, tot_recvs, left, key, placed, posted, arrived, cq, up,
                   request_area, lost, crossed>>

\* One poll of the client's RECV_cq, for up to Q_DEPTH completions.
ServerPoll ==
    /\ spc = "poll"
    /\ LET n == IF arrived["server"][cn] < QDepth THEN arrived["server"][cn] ELSE QDepth
       IN  IF n = 0
           THEN cn' = NextClient(cn) /\ UNCHANGED <<spc, tot_recvs, left, arrived>>
           ELSE /\ arrived' = [arrived EXCEPT !["server"][cn] = @ - n]
                /\ tot_recvs' = [tot_recvs EXCEPT ![cn] = @ - n]
                /\ left' = n
                /\ spc' = "refill"
                /\ UNCHANGED cn
    /\ UNCHANGED <<clientVars, tot_sends, key, placed, posted, due, cq, up, down,
                   request_area, lost, crossed>>

\* Batched posting of RECVs.
ServerRefill ==
    /\ spc = "refill"
    /\ IF tot_recvs[cn] < SDepth
       THEN /\ posted' = [posted EXCEPT !["server"][cn] = @ + Fill(tot_recvs[cn])]
            /\ tot_recvs' = [tot_recvs EXCEPT ![cn] = QDepth]
       ELSE UNCHANGED <<posted, tot_recvs>>
    /\ spc' = "serve"
    /\ UNCHANGED <<clientVars, cn, tot_sends, left, key, placed, arrived, due, cq, up, down,
                   request_area, lost, crossed>>

\* The key of an earlier request is still taken for this one's.
ServerKeepsKey ==
    /\ spc = "serve"
    /\ key' = IF key = NoKey THEN request_area ELSE key
    /\ spc' = IF Even(tot_sends[cn]) THEN "sendpoll" ELSE "reply"
    /\ UNCHANGED <<clientVars, cn, tot_recvs, tot_sends, left, placed, nicVars>>

\* The key is read from the one request area that all RECVs of all clients
\* land in.
ServerTakeKey ==
    /\ spc = "serve"
    /\ key' = request_area
    /\ spc' = IF Even(tot_sends[cn]) THEN "sendpoll" ELSE "reply"
    /\ UNCHANGED <<clientVars, cn, tot_recvs, tot_sends, left, placed, nicVars>>

\* poll_cq(cb->SEND_cq[cn], 1)
ServerSendPoll ==
    /\ spc = "sendpoll"
    /\ cq["server"][cn] > 0
    /\ cq' = [cq EXCEPT !["server"][cn] = @ - 1]
    /\ spc' = "reply"
    /\ UNCHANGED <<clientVars, cn, tot_recvs, tot_sends, left, key, placed, posted, arrived,
                   due, up, down, request_area, lost, crossed>>

\* Each completion of the batch is answered twice.
ServerRepliesTwice ==
    /\ spc = "reply"
    /\ placed' = placed \cup {key}
    /\ down' = [down EXCEPT ![cn] = @ + 2]
    /\ SignalIf("server", cn, Even(tot_sends[cn]))
    /\ tot_sends' = [tot_sends EXCEPT ![cn] = @ + 1]
    /\ left' = left - 1
    /\ IF left > 1
       THEN spc' = "serve" /\ UNCHANGED cn
       ELSE spc' = "poll" /\ cn' = NextClient(cn)
    /\ UNCHANGED <<clientVars, tot_recvs, key, posted, arrived, cq, up, request_area, lost,
                   crossed>>

\* place the key and answer, with a signalled SEND every other time.
ServerReply ==
    /\ spc = "reply"
    /\ placed' = placed \cup {key}
    /\ down' = [down EXCEPT ![cn] = @ + 1]
    /\ SignalIf("server", cn, Even(tot_sends[cn]))
    /\ tot_sends' = [tot_sends EXCEPT ![cn] = @ + 1]
    /\ left' = left - 1
    /\ IF left > 1
       THEN spc' = "serve" /\ UNCHANGED cn
       ELSE spc' = "poll" /\ cn' = NextClient(cn)
    /\ UNCHANGED <<clientVars, tot_recvs, key, posted, arrived, cq, up, request_area, lost,
                   crossed>>

Server ==
    \/ ServerPostRecvs
    \/ ServerAlert
    \/ ServerPoll
    \/ ServerRefill
    \/ ServerTakeKey
    \/ ServerSendPoll
    \/ ServerReply
-----------------------------------------------------------------------------
(* The NICs and the network *)

\* Requests of d that have landed and whose key has not been read.
Unserved(d) == arrived["server"][d] + (IF cn = d /\ spc \in {"refill", "serve"} THEN left ELSE 0)

\* A request takes a RECV of its connection and overwrites the request area;
\* without a RECV it is dropped.
DeliverRequest(c) ==
    /\ up[c] # <<>>
    /\ up' = [up EXCEPT ![c] = Tail(@)]
    /\ IF posted["server"][c] > 0
       THEN /\ posted' = [posted EXCEPT !["server"][c] = @ - 1]
            /\ arrived' = [arrived EXCEPT !["server"][c] = @ + 1]
            /\ request_area' = Head(up[c])
            /\ crossed' = [d \in Clients |-> crossed[d] \/ Unserved(d) > 0]
            /\ UNCHANGED lost
       ELSE /\ lost' = [lost EXCEPT ![c] = TRUE]
            /\ UNCHANGED <<posted, arrived, request_area, crossed>>
    /\ UNCHANGED <<clientVars, serverVars, due, cq, down>>

DeliverReply(c) ==
    /\ down[c] > 0
    /\ down' = [down EXCEPT ![c] = @ - 1]
    /\ IF posted["client"][c] > 0
       THEN /\ posted' = [posted EXCEPT !["client"][c] = @ - 1]
            /\ arrived' = [arrived EXCEPT !["client"][c] = @ + 1]
            /\ UNCHANGED lost
       ELSE /\ lost' = [lost EXCEPT ![c] = TRUE]
            /\ UNCHANGED <<posted, arrived>>
    /\ UNCHANGED <<clientVars, serverVars, due, cq, up, request_area, crossed>>

\* An unreliable connection may lose what it carries, in either direction.
Lose(c) ==
    /\ \/ up[c] # <<>> /\ up' = [up EXCEPT ![c] = Tail(@)] /\ UNCHANGED down
       \/ down[c] > 0 /\ down' = [down EXCEPT ![c] = @ - 1] /\ UNCHANGED up
    /\ lost' = [lost EXCEPT ![c] = TRUE]
    /\ UNCHANGED <<clientVars, serverVars, posted, arrived, due, cq, request_area, crossed>>

\* A signalled work request completes, on its sender's side, at any time.
Complete(q, c) ==
    /\ due[q][c] > 0
    /\ due' = [due EXCEPT ![q][c] = @ - 1]
    /\ cq' = [cq EXCEPT ![q][c] = @ + 1]
    /\ UNCHANGED <<clientVars, serverVars, posted, arrived, up, down, request_area, lost,
                   crossed>>

\* A READ brings a bucket, whose offset setup_buffers and place make non-zero.
ReadLands(c) ==
    /\ ws_phase[c] \in {"READ_1", "READ_2", "READ_3"}
    /\ ~landed[c]
    /\ landed' = [landed EXCEPT ![c] = TRUE]
    /\ UNCHANGED <<cpc, ws_phase, num_recvs, num_sends, old_num_sends, num_reads,
                   old_num_reads, done, serverVars, nicVars>>

Network(c) ==
    \/ DeliverRequest(c)
    \/ DeliverReply(c)
    \/ Lose(c)
    \/ \E q \in Signalled : Complete(q, c)
    \/ ReadLands(c)

Next == Server \/ \E c \in Clients : Client(c) \/ ClientFinish(c) \/ Network(c)

Spec == Init /\ [][Next]_vars

\* Server and clients spin in their loops, a READ completes, and a SEND
\* arrives unless it is lost. The alarm may never ring.
Fairness ==
    /\ WF_vars(Server)
    /\ \A c \in Clients :
        /\ WF_vars(Client(c))
        /\ WF_vars(DeliverRequest(c))
        /\ WF_vars(DeliverReply(c))
        /\ WF_vars(ReadLands(c))
        /\ \A q \in Signalled : WF_vars(Complete(q, c))

FairSpec == Spec /\ Fairness
-----------------------------------------------------------------------------
TypeOK ==
    /\ cpc \in [Clients -> {"recvs", "alert", "loop", "reads", "sends", "complete", "issue",
                            "finished"}]
    /\ ws_phase \in [Clients -> {"none", "SEND_1", "READ_1", "READ_2", "READ_3"}]
    /\ num_recvs \in [Clients -> 0 .. QDepth]
    /\ num_sends \in [Clients -> Nat] /\ old_num_sends \in [Clients -> Nat]
    /\ num_reads \in [Clients -> Nat] /\ old_num_reads \in [Clients -> Nat]
    /\ landed \in [Clients -> BOOLEAN]
    /\ spc \in {"recvs", "alert", "poll", "refill", "serve", "sendpoll", "reply"}
    /\ cn \in Clients
    /\ tot_recvs \in [Clients -> 0 .. QDepth]
    /\ tot_sends \in [Clients -> Nat]
    /\ left \in 0 .. QDepth
    /\ key \in Keys \cup {NoKey}
    /\ posted \in [Ends -> [Clients -> Nat]]
    /\ arrived \in [Ends -> [Clients -> Nat]]
    /\ due \in [Signalled -> [Clients -> Nat]]
    /\ cq \in [Signalled -> [Clients -> Nat]]
    /\ up \in [Clients -> Seq(Keys)]
    /\ down \in [Clients -> Nat]
    /\ request_area \in Keys \cup {NoKey}
    /\ done \in [Clients -> Nat]
    /\ placed \subseteq Keys
    /\ lost \in [Clients -> BOOLEAN]
    /\ crossed \in [Clients -> BOOLEAN]

\* No poll_cq spins for a completion that was never asked for: at each of the
\* three places that wait for one, a signalled work request is outstanding.
PollsAreFed ==
    /\ \A c \in Clients :
        /\ (cpc[c] = "reads" /\ MustPoll(num_reads[c], old_num_reads[c]))
            => due["read"][c] + cq["read"][c] > 0
        /\ (cpc[c] = "sends" /\ MustPoll(num_sends[c], old_num_sends[c]))
            => due["client"][c] + cq["client"][c] > 0
    /\ spc = "sendpoll" => due["server"][cn] + cq["server"][cn] > 0

\* And each completion is polled for before the next one is asked for, so that
\* no completion queue ever fills, however long the run.
CompletionsAreTaken == \A q \in Signalled, c \in Clients : due[q][c] + cq[q][c] <= 1

\* The receive queues never hold more RECVs than they have room for, and the
\* hand-kept counts never claim RECVs that are not there.
RecvsFit ==
    /\ \A e \in Ends, c \in Clients : posted[e][c] <= QDepth
    /\ \A c \in Clients :
        /\ posted["server"][c] + arrived["server"][c] >= tot_recvs[c]
        /\ cpc[c] \notin {"recvs", "alert"} =>
            posted["client"][c] + arrived["client"][c] >= num_recvs[c]

\* Once a client has heard the alert, no SEND in either direction meets a
\* receive queue without RECVs: what is lost from then on, the network lost.
RecvIsThere ==
    \A c \in Clients :
        /\ Len(up[c]) <= posted["server"][c]
        /\ cpc[c] # "recvs" => down[c] <= posted["client"][c]

\* The key of an answered PUT was placed, unless a request landed in the
\* request area between the landing of some PUT of the client and its serving.
UncrossedIsPlaced ==
    \A c \in Clients : ~crossed[c] => \A n \in 1 .. done[c] : <<c, n>> \in placed

\* A PUT of which no message is lost is answered, unless the client stops.
PutsReturn ==
    \A c \in Clients : \A n \in 1 .. MaxRequests :
        (num_sends[c] = n) ~> (done[c] >= n \/ lost[c] \/ cpc[c] = "finished")

\* Each wait of run_client and run_server for a send or read completion ends,
\* whatever messages are lost.
PollsReturn ==
    /\ \A c \in Clients : cpc[c] \in {"reads", "sends"} ~> cpc[c] = "complete"
    /\ spc = "sendpoll" ~> spc = "reply"

\* The SENDs of the clients are the calls; of the server's SENDs to a client,
\* all but the alert answer one.
Rpc == INSTANCE PilafRpc WITH
    called <- num_sends,
    served <- [c \in Clients |-> IF tot_sends[c] = 0 THEN 0 ELSE tot_sends[c] - 1],
    returned <- done

\* Each PUT is served at most once, and answered only after it was served,
\* whatever the network loses.
ImplementsRpc == Rpc!RpcSpec

=============================================================================
