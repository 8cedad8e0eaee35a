------------------------------ MODULE Connection ------------------------------
(***************************************************************************)
(* How the processes of the three stores find each other: main and conn.c  *)
(* of FaRM, HydraDB and Pilaf, up to the first request. A process creates  *)
(* its queue pairs, registers its memory, and then tells its peers over    *)
(* TCP what to write to and where to connect. A server serves the clients  *)
(* in the order in which they come; a client visits the servers in order,  *)
(* and connects its own queue pairs when it has seen them all.             *)
(*                                                                         *)
(* What a process does is a sequence of calls (a script). The operators    *)
(* FarmClientExch, PilafServerExch, ... are these sequences, function by   *)
(* function; the actions are what a call does. store, chosen once, says    *)
(* which program runs.                                                     *)
(***************************************************************************)
EXTENDS Naturals, SequencesExt

CONSTANTS
    NumClients,     \* NUM_CLIENTS
    NumServers,     \* NUM_SERVERS
    PerServer,      \* NUM_CLIENTS_PER_SERVER
    Stores          \* the programs to look at

ASSUME SizeAssumption ==
    /\ NumClients \in Nat \ {0} /\ NumServers \in Nat \ {0} /\ PerServer \in Nat \ {0}
    /\ NumClients = NumServers * PerServer
ASSUME StoresAssumption == Stores \subseteq {"FaRM", "HydraDB", "Pilaf"}

VARIABLES
    store,          \* the program
    pos,            \* how many calls of its script each process has made
    dead,           \* the processes that have exited, or were killed
    qp,             \* qp[q]: state of a queue pair and the one it is connected to
    areas,          \* the registered memory regions
    loaded,         \* the servers that have filled their table
    listening,      \* the servers that accept connections
    backlog,        \* backlog[s]: clients connected and not yet accepted
    accepted,       \* accepted[s]: the clients in the order of accepting
    link,           \* link[c][s]: what became of the client's connect()
    chan,           \* chan[<<p, q>>]: bytes from process p to process q
    held,           \* held[p][w][i]: what p has read as the w of its i-th peer
    recvs,          \* the queue pairs with RECVs posted
    heard, lost     \* the queue pairs where Pilaf's alert arrived; where it was dropped

netVars == <<listening, backlog, accepted, link, chan>>
vars == <<store, pos, dead, qp, areas, loaded, netVars, held, recvs, heard, lost>>
-----------------------------------------------------------------------------
Clients == 0 .. NumClients - 1
Servers == 0 .. NumServers - 1
Client(c) == <<"client", c>>
Server(s) == <<"server", s>>
ClientProcs == {Client(c) : c \in Clients}
ServerProcs == {Server(s) : s \in Servers}
Procs == ClientProcs \cup ServerProcs

\* num_conns: the indices of a process's connections.
Conns(p) == IF p \in ClientProcs THEN Servers ELSE Clients

\* A queue pair is named by its process, the connection and the transport; a
\* registered region by its process and the array.
Vias == {"rc", "uc"}
Places == {"req", "hash", "resp"}
Areas == Procs \X (Places \cup {"request"})
AllQPs == UNION {{p} \X Conns(p) \X Vias : p \in Procs}
None == <<>>

\* What a process sends under a name: a stag or the attributes of a queue pair.
Datum(p, i, w) == IF w \in Vias THEN <<p, i, w>> ELSE <<p, w>>
Data == AllQPs \cup Areas

Step(call, conn, what) == [call |-> call, conn |-> conn, what |-> what]
Read(i, w) == Step("read", i, w)
Write(i, w) == Step("write", i, w)

\* A loop of n rounds, F(i) the calls of round i: as many in each.
ForEach(n, F(_)) ==
    LET m == Len(F(0))
    IN  [k \in 1 .. n * m |-> F((k - 1) \div m)[((k - 1) % m) + 1]]
-----------------------------------------------------------------------------
(***************************************************************************)
(* FaRM and HydraDB. connect_ctx takes a queue pair to RTR and then to     *)
(* RTS. The two conn.c files are the same code.                            *)
(***************************************************************************)
FarmConnect(i) == <<Step("rtr", i, "rc"), Step("rts", i, "rc")>>
HydraConnect(i) == <<Step("rtr", i, "rc"), Step("rts", i, "rc")>>

\* One round of the loop of client_exch_dest.
FarmVisit(i) ==
    <<Step("connect", i, "go on"), Read(i, "req"), Read(i, "hash"), Write(i, "resp"),
      Write(i, "rc"), Read(i, "rc")>>
HydraVisit(i) ==
    <<Step("connect", i, "go on"), Read(i, "req"), Read(i, "hash"), Write(i, "resp"),
      Write(i, "rc"), Read(i, "rc")>>

\* Mutant: the client reads the server's attributes before it sends its own.
FarmClientReadsFirst ==
    ForEach(NumServers, LAMBDA i :
        <<Step("connect", i, "go on"), Read(i, "req"), Read(i, "hash"), Write(i, "resp"),
          Read(i, "rc"), Write(i, "rc")>>)

FarmClientExch == ForEach(NumServers, FarmVisit)
HydraClientExch == ForEach(NumServers, HydraVisit)

\* One round of the loop of server_exch_dest.
FarmServe(i) ==
    <<Step("accept", i, ""), Write(i, "req"), Write(i, "hash"), Read(i, "resp"),
      Read(i, "rc")>> \o FarmConnect(i) \o <<Write(i, "rc")>>
HydraServe(i) ==
    <<Step("accept", i, ""), Write(i, "req"), Write(i, "hash"), Read(i, "resp"),
      Read(i, "rc")>> \o HydraConnect(i) \o <<Write(i, "rc")>>

Serving(rounds) == <<Step("listen", 0, "")>> \o rounds \o <<Step("close", 0, "")>>

\* Mutant: the server's attributes are sent before its queue pair is connected.
FarmServerConnectsLate ==
    Serving(ForEach(NumClients, LAMBDA i :
        <<Step("accept", i, ""), Write(i, "req"), Write(i, "hash"), Read(i, "resp"),
          Read(i, "rc"), Write(i, "rc")>> \o FarmConnect(i)))

\* Mutant: the two stags are sent in the other order.
FarmServerSwapsStags ==
    Serving(ForEach(NumClients, LAMBDA i :
        <<Step("accept", i, ""), Write(i, "hash"), Write(i, "req"), Read(i, "resp"),
          Read(i, "rc")>> \o FarmConnect(i) \o <<Write(i, "rc")>>))

FarmServerExch == Serving(ForEach(NumClients, FarmServe))
HydraServerExch == Serving(ForEach(NumClients, HydraServe))

\* init_ctx: one reliable queue pair per connection.
FarmInitCtx == <<Step("init_ctx", 0, {"rc"})>>
HydraInitCtx == <<Step("init_ctx", 0, {"rc"})>>

\* setup_buffers: the registered regions; HydraDB fills its table here.
FarmSetup(p) ==
    IF p \in ClientProcs THEN <<Step("register", 0, {"resp", "req"})>>
    ELSE <<Step("register", 0, {"req", "hash"})>>
HydraSetup(p) ==
    IF p \in ClientProcs THEN <<Step("register", 0, {"resp", "req"})>>
    ELSE <<Step("register", 0, {"req"}), Step("load", 0, ""), Step("register", 0, {"hash"})>>

FarmMain(p) ==
    FarmInitCtx \o FarmSetup(p)
    \o IF p \in ClientProcs
       THEN FarmClientExch \o ForEach(NumServers, FarmConnect)
       ELSE FarmServerExch \o <<Step("load", 0, "")>>

\* Mutant: the table is filled after the exchange, as FaRM does.
HydraMainFillsLate(p) ==
    HydraInitCtx
    \o IF p \in ClientProcs
       THEN HydraSetup(p) \o HydraClientExch \o ForEach(NumServers, HydraConnect)
       ELSE <<Step("register", 0, {"req", "hash"})>> \o HydraServerExch
            \o <<Step("load", 0, "")>>

HydraMain(p) ==
    HydraInitCtx \o HydraSetup(p)
    \o IF p \in ClientProcs
       THEN HydraClientExch \o ForEach(NumServers, HydraConnect)
       ELSE HydraServerExch
-----------------------------------------------------------------------------
(***************************************************************************)
(* Pilaf has two queue pairs per connection, no stag of the client, and an *)
(* alert: the server posts RECVs for the clients it is assigned to and     *)
(* sends each a message, and a client posts RECVs and waits for it.        *)
(***************************************************************************)
PilafConnect(i, t) == <<Step("rtr", i, t), Step("rts", i, t)>>
ConnectBoth(i) == PilafConnect(i, "rc") \o PilafConnect(i, "uc")

PilafVisit(i) ==
    <<Step("connect", i, "exit"), Read(i, "req"), Write(i, "rc"), Read(i, "rc"),
      Write(i, "uc"), Read(i, "uc")>>

\* Mutant: the client connects to all servers before it talks to any.
PilafClientConnectsAll ==
    ForEach(NumServers, LAMBDA i : <<Step("connect", i, "exit")>>)
    \o ForEach(NumServers, LAMBDA i : Tail(PilafVisit(i)))

PilafClientExch == ForEach(NumServers, PilafVisit)

PilafServe(i) ==
    <<Step("accept", i, ""), Write(i, "req"), Read(i, "rc")>> \o PilafConnect(i, "rc")
    \o <<Write(i, "rc"), Read(i, "uc")>> \o PilafConnect(i, "uc") \o <<Write(i, "uc")>>

PilafServerExch == Serving(ForEach(NumClients, PilafServe))

PilafInitCtx == <<Step("init_ctx", 0, Vias)>>

PilafSetup(p) ==
    IF p \in ClientProcs THEN <<Step("register", 0, {"resp", "req"})>>
    ELSE <<Step("register", 0, {"request", "req"})>>

\* The server that a client talks to, and the connections a server answers:
\* cn_lo to cn_hi.
ServerOf(c) == c \div PerServer
Assigned(s) == PerServer * s .. PerServer * (s + 1) - 1

PilafStart(p) ==
    IF p \in ClientProcs
    THEN <<Step("post_recvs", {ServerOf(p[2])}, "uc"), Step("await", ServerOf(p[2]), "uc")>>
    ELSE <<Step("post_recvs", Assigned(p[2]), "uc")>>
         \o ForEach(PerServer, LAMBDA k : <<Step("alert", PerServer * p[2] + k, "uc")>>)

PilafMain(p) ==
    PilafInitCtx \o PilafSetup(p)
    \o (IF p \in ClientProcs
        THEN PilafClientExch \o ForEach(NumServers, ConnectBoth)
        ELSE PilafServerExch)
    \o PilafStart(p)

Script ==
    [st \in {"FaRM", "HydraDB", "Pilaf"} |-> [p \in Procs |->
        CASE st = "FaRM" -> FarmMain(p)
          [] st = "HydraDB" -> HydraMain(p)
          [] st = "Pilaf" -> PilafMain(p)]]

\* The process has made every call: it is in run_client or run_server.
Running(p) == pos[p] = Len(Script[store][p])

\* The next call of a process that is alive, if it is a call of this kind.
Call(p) == Script[store][p][pos[p] + 1]
At(p, call) == p \notin dead /\ ~Running(p) /\ Call(p).call = call
Advance(p) == pos' = [pos EXCEPT ![p] = @ + 1]

\* The process at the other end of the i-th connection.
Peer(p, i) == IF p \in ClientProcs THEN Server(i) ELSE Client(accepted[p[2]][i + 1])

TypeOK ==
    /\ store \in Stores
    /\ pos \in [Procs -> Nat] /\ \A p \in Procs : pos[p] <= Len(Script[store][p])
    /\ dead \subseteq ClientProcs
    /\ qp \in [AllQPs -> [state : {"none", "init", "rtr", "rts"}, dest : AllQPs \cup {None}]]
    /\ areas \subseteq Areas
    /\ loaded \subseteq Servers /\ listening \subseteq Servers
    /\ backlog \in [Servers -> Seq(Clients)] /\ accepted \in [Servers -> Seq(Clients)]
    /\ link \in [Clients -> [Servers -> {"closed", "open", "refused"}]]
    /\ chan \in [Procs \X Procs -> Seq(Data)]
    /\ DOMAIN held = Procs
    /\ \A p \in Procs : held[p] \in [Places \cup Vias -> [Conns(p) -> Data \cup {None}]]
    /\ recvs \cup heard \cup lost \subseteq AllQPs

Init ==
    /\ store \in Stores
    /\ pos = [p \in Procs |-> 0]
    /\ dead = {}
    /\ qp = [q \in AllQPs |-> [state |-> "none", dest |-> None]]
    /\ areas = {} /\ loaded = {} /\ listening = {}
    /\ backlog = [s \in Servers |-> <<>>] /\ accepted = [s \in Servers |-> <<>>]
    /\ link = [c \in Clients |-> [s \in Servers |-> "closed"]]
    /\ chan = [pq \in Procs \X Procs |-> <<>>]
    /\ held = [p \in Procs |-> [w \in Places \cup Vias |-> [i \in Conns(p) |-> None]]]
    /\ recvs = {} /\ heard = {} /\ lost = {}
-----------------------------------------------------------------------------
(***************************************************************************)
(* The calls.                                                              *)
(***************************************************************************)

\* init_ctx: create_qp makes the queue pairs of every connection and
\* modify_qp_to_init takes them to INIT.
InitCtx(p) ==
    /\ At(p, "init_ctx")
    /\ LET mine == {p} \X Conns(p) \X Call(p).what
       IN  qp' = [q \in AllQPs |-> IF q \in mine THEN [qp[q] EXCEPT !.state = "init"] ELSE qp[q]]
    /\ Advance(p)
    /\ UNCHANGED <<store, dead, areas, loaded, netVars, held, recvs, heard, lost>>

Register(p) ==
    /\ At(p, "register")
    /\ areas' = areas \cup ({p} \X Call(p).what)
    /\ Advance(p)
    /\ UNCHANGED <<store, dead, qp, loaded, netVars, held, recvs, heard, lost>>

Load(s) ==
    /\ At(Server(s), "load")
    /\ loaded' = loaded \cup {s}
    /\ Advance(Server(s))
    /\ UNCHANGED <<store, dead, qp, areas, netVars, held, recvs, heard, lost>>

Listen(s) ==
    /\ At(Server(s), "listen")
    /\ listening' = listening \cup {s}
    /\ Advance(Server(s))
    /\ UNCHANGED <<store, dead, qp, areas, loaded, backlog, accepted, link, chan, held,
                   recvs, heard, lost>>

CloseListen(s) ==
    /\ At(Server(s), "close")
    /\ listening' = listening \ {s}
    /\ Advance(Server(s))
    /\ UNCHANGED <<store, dead, qp, areas, loaded, backlog, accepted, link, chan, held,
                   recvs, heard, lost>>

\* connect() returns when the server's kernel has queued the connection.
Connect(c) ==
    /\ At(Client(c), "connect")
    /\ LET s == Call(Client(c)).conn
       IN  /\ s \in listening
           /\ backlog' = [backlog EXCEPT ![s] = Append(@, c)]
           /\ link' = [link EXCEPT ![c][s] = "open"]
    /\ Advance(Client(c))
    /\ UNCHANGED <<store, dead, qp, areas, loaded, listening, accepted, chan, held,
                   recvs, heard, lost>>

\* connect() fails: Pilaf's client exits, the others print and go on.
Refused(c) ==
    /\ At(Client(c), "connect")
    /\ Call(Client(c)).conn \notin listening
    /\ link' = [link EXCEPT ![c][Call(Client(c)).conn] = "refused"]
    /\ IF Call(Client(c)).what = "exit"
       THEN dead' = dead \cup {Client(c)} /\ UNCHANGED pos
       ELSE UNCHANGED dead /\ Advance(Client(c))
    /\ UNCHANGED <<store, qp, areas, loaded, listening, backlog, accepted, chan, held,
                   recvs, heard, lost>>

Accept(s) ==
    /\ At(Server(s), "accept")
    /\ backlog[s] # <<>>
    /\ accepted' = [accepted EXCEPT ![s] = Append(@, Head(backlog[s]))]
    /\ backlog' = [backlog EXCEPT ![s] = Tail(@)]
    /\ Advance(Server(s))
    /\ UNCHANGED <<store, dead, qp, areas, loaded, listening, link, chan, held,
                   recvs, heard, lost>>

IsRefused(p, i) == p \in ClientProcs /\ link[p[2]][i] = "refused"

DoWrite(p) ==
    /\ At(p, "write")
    /\ LET i == Call(p).conn
       IN  /\ ~IsRefused(p, i)
           /\ chan' = [chan EXCEPT ![<<p, Peer(p, i)>>] = Append(@, Datum(p, i, Call(p).what))]
    /\ Advance(p)
    /\ UNCHANGED <<store, dead, qp, areas, loaded, listening, backlog, accepted, link, held,
                   recvs, heard, lost>>

\* read() blocks until the bytes are there, and takes them for what the
\* reader expects next.
DoRead(p) ==
    /\ At(p, "read")
    /\ LET i == Call(p).conn
           from == <<Peer(p, i), p>>
       IN  /\ ~IsRefused(p, i)
           /\ chan[from] # <<>>
           /\ held' = [held EXCEPT ![p][Call(p).what][i] = Head(chan[from])]
           /\ chan' = [chan EXCEPT ![from] = Tail(@)]
    /\ Advance(p)
    /\ UNCHANGED <<store, dead, qp, areas, loaded, listening, backlog, accepted, link,
                   recvs, heard, lost>>

\* On a socket that is not connected read() fails, which is only printed, and
\* write() raises SIGPIPE, which kills the process.
ReadRefused(c) ==
    /\ At(Client(c), "read")
    /\ IsRefused(Client(c), Call(Client(c)).conn)
    /\ Advance(Client(c))
    /\ UNCHANGED <<store, dead, qp, areas, loaded, netVars, held, recvs, heard, lost>>

WriteRefused(c) ==
    /\ At(Client(c), "write")
    /\ IsRefused(Client(c), Call(Client(c)).conn)
    /\ dead' = dead \cup {Client(c)}
    /\ UNCHANGED <<store, pos, qp, areas, loaded, netVars, held, recvs, heard, lost>>

\* The two ibv_modify_qp of connect_ctx; the first takes the destination from
\* the attributes that were read.
ReadyToReceive(p) ==
    /\ At(p, "rtr")
    /\ LET i == Call(p).conn
           t == Call(p).what
       IN  qp' = [qp EXCEPT ![<<p, i, t>>] = [state |-> "rtr", dest |-> held[p][t][i]]]
    /\ Advance(p)
    /\ UNCHANGED <<store, dead, areas, loaded, netVars, held, recvs, heard, lost>>

ReadyToSend(p) ==
    /\ At(p, "rts")
    /\ qp' = [qp EXCEPT ![<<p, Call(p).conn, Call(p).what>>].state = "rts"]
    /\ Advance(p)
    /\ UNCHANGED <<store, dead, areas, loaded, netVars, held, recvs, heard, lost>>

PostRecvs(p) ==
    /\ At(p, "post_recvs")
    /\ recvs' = recvs \cup ({p} \X Call(p).conn \X {"uc"})
    /\ Advance(p)
    /\ UNCHANGED <<store, dead, qp, areas, loaded, netVars, held, heard, lost>>

\* The alert is an unreliable SEND: where no RECV is posted, it is dropped.
\* The ten seconds that the server sleeps first promise nothing here.
Alert(s) ==
    /\ At(Server(s), "alert")
    /\ LET to == qp[<<Server(s), Call(Server(s)).conn, "uc">>].dest
       IN  IF to \in recvs
           THEN heard' = heard \cup {to} /\ UNCHANGED lost
           ELSE lost' = lost \cup {to} /\ UNCHANGED heard
    /\ Advance(Server(s))
    /\ UNCHANGED <<store, dead, qp, areas, loaded, netVars, held, recvs>>

AwaitAlert(c) ==
    /\ At(Client(c), "await")
    /\ <<Client(c), Call(Client(c)).conn, "uc">> \in heard
    /\ Advance(Client(c))
    /\ UNCHANGED <<store, dead, qp, areas, loaded, netVars, held, recvs, heard, lost>>

Either(p) ==
    \/ InitCtx(p) \/ Register(p) \/ DoWrite(p) \/ DoRead(p)
    \/ ReadyToReceive(p) \/ ReadyToSend(p) \/ PostRecvs(p)
RunClient(c) ==
    \/ Either(Client(c))
    \/ Connect(c) \/ Refused(c) \/ ReadRefused(c) \/ WriteRefused(c) \/ AwaitAlert(c)
RunServer(s) ==
    \/ Either(Server(s))
    \/ Load(s) \/ Listen(s) \/ CloseListen(s) \/ Accept(s) \/ Alert(s)

Next == (\E c \in Clients : RunClient(c)) \/ (\E s \in Servers : RunServer(s))

\* Every process is run by its operating system, and TCP delivers.
Fairness ==
    /\ \A c \in Clients : WF_vars(RunClient(c))
    /\ \A s \in Servers : WF_vars(RunServer(s))

Spec == Init /\ [][Next]_vars /\ Fairness
-----------------------------------------------------------------------------
\* What a process holds under a name is what its peer on that connection keeps
\* under that name, in memory that is registered: no read takes one message
\* for another, and none comes from another process.
HeldIsMeant ==
    \A p \in Procs : \A w \in Places \cup Vias, i \in Conns(p) :
        held[p][w][i] # None =>
            LET peer == Peer(p, i)
                back == {j \in Conns(peer) : held[p][w][i] = Datum(peer, j, w)}
            IN  /\ back # {}
                /\ w \in Vias => \E j \in back :
                    \/ peer \in ClientProcs /\ Server(j) = p
                    \/ peer \in ServerProcs /\ Client(accepted[peer[2]][j + 1]) = p
                /\ w \notin Vias => <<peer, w>> \in areas

\* A client's queue pair that is ready to send leads to one that is ready as
\* well and leads back, so that no two clients share one; a client that makes
\* requests has all of them connected and, in Pilaf, RECVs at the other end.
PeerIsReady ==
    \A c \in Clients : \A q \in {Client(c)} \X Servers \X Vias :
        /\ qp[q].state = "rts" =>
            /\ qp[qp[q].dest] = [state |-> "rts", dest |-> q]
            /\ Running(Client(c)) /\ q[2] = ServerOf(c) /\ q[3] = "uc" => qp[q].dest \in recvs
        /\ Running(Client(c)) /\ qp[q].state # "none" => qp[q].state = "rts"

\* A process that died during the set-up left nobody in the middle of an
\* exchange with it: the others can wait for it in accept() only.
DeadLeaveNoExchange ==
    \A s \in Servers : At(Server(s), "read") \/ At(Server(s), "write") =>
        Peer(Server(s), Call(Server(s)).conn) \notin dead

\* A client of HydraDB makes no request before its server's table is filled.
\* (FaRM fills it after the exchange and Pilaf never does.)
RunsOnLoadedTable ==
    store = "HydraDB" => \A c \in Clients : Running(Client(c)) => Servers \subseteq loaded

\* The set-up ends with every process running, unless a client came before a
\* server listened, or an alert of Pilaf before its client was ready for it.
SetUpEnds == <>((\A p \in Procs : Running(p)) \/ dead # {} \/ lost # {})

=============================================================================
