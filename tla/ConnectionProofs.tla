--------------------------- MODULE ConnectionProofs ---------------------------
(***************************************************************************)
(* Theorems about Connection, for any number of clients and servers and    *)
(* for each of the three stores: what the set-up leaves behind.            *)
(*                                                                         *)
(* The scripts are laid out first: which call a process makes after n      *)
(* others (ClientScript, ServerScript), and what the k-th call of a round  *)
(* is. Then everything is said in terms of how many calls of a round a     *)
(* process has made. The heart of the invariant is ExchangeInv: for a      *)
(* client that is the j-th one that a server accepted, the two channels    *)
(* between them and what both hold follow from the two counts (Met); for   *)
(* one that is not accepted, nothing has passed (Unmet). As reads block,   *)
(* neither process can be ahead of what the other has written, so that a   *)
(* client that is through with a server was served to the end (Completed). *)
(* The theorems are at the end.                                            *)
(***************************************************************************)
EXTENDS Connection, SequenceTheorems, TLAPS

\* The calls of a client before the i-th round of client_exch_dest.
VisitAt(i) == 2 + 6 * i

\* The calls of a client before the i-th round of its loop over connect_ctx.
LinkAt(st, i) == 2 + 6 * NumServers + (IF st = "Pilaf" THEN 4 * i ELSE 2 * i)

\* The calls of a server before the j-th round of server_exch_dest.
ServeAt(st, j) ==
    IF st = "Pilaf" THEN 3 + 10 * j ELSE IF st = "HydraDB" THEN 5 + 8 * j ELSE 3 + 8 * j

\* How many calls of a round a client has made in client_exch_dest: less than
\* one before the round, and more than the round has after it.
Visited(c, s) == pos[Client(c)] - VisitAt(s)

\* The same for the client's loop over connect_ctx.
Linked(c, s) == pos[Client(c)] - LinkAt(store, s)

\* The same for the server's loop.
Served(s, j) == pos[Server(s)] - ServeAt(store, j)

\* What a client writes to a server, in this order.
ToServer(st) == IF st = "Pilaf" THEN <<"rc", "uc">> ELSE <<"resp", "rc">>

\* What a server writes to a client, in this order.
ToClient(st) == IF st = "Pilaf" THEN <<"req", "rc", "uc">> ELSE <<"req", "hash", "rc">>

\* One, when n calls reach the mark.
Past(n, mark) == IF n >= mark THEN 1 ELSE 0

\* The number of words that a client has written after n calls of the round.
ClientSent(st, n) ==
    IF st = "Pilaf" THEN Past(n, 3) + Past(n, 5) ELSE Past(n, 4) + Past(n, 5)

\* The number of words that it has read.
ClientGot(st, n) ==
    IF st = "Pilaf" THEN Past(n, 2) + Past(n, 4) + Past(n, 6) ELSE Past(n, 2) + Past(n, 3) + Past(n, 6)

\* The number of words that a server has written after n calls of its round.
ServerSent(st, n) ==
    IF st = "Pilaf" THEN Past(n, 2) + Past(n, 6) + Past(n, 10) ELSE Past(n, 2) + Past(n, 3) + Past(n, 8)

\* The number of words that it has read.
ServerGot(st, n) ==
    IF st = "Pilaf" THEN Past(n, 3) + Past(n, 7) ELSE Past(n, 4) + Past(n, 5)

\* The transports of the queue pairs that a store uses.
StoreVias(st) == IF st = "Pilaf" THEN Vias ELSE {"rc"}

\* The call of a server's round that takes the queue pair of a transport to RTS.
ServeReady(st, t) == IF st = "Pilaf" THEN (IF t = "rc" THEN 5 ELSE 9) ELSE 7

\* The same in the client's loop over connect_ctx.
LinkReady(t) == IF t = "rc" THEN 2 ELSE 4
-----------------------------------------------------------------------------
\* What a process gives away is registered, and HydraDB's table is filled,
\* before the exchange begins.
MemoryInv ==
    /\ \A c \in Clients : pos[Client(c)] >= 2 => {Client(c)} \X {"resp", "req"} \subseteq areas
    /\ \A s \in Servers :
        /\ pos[Server(s)] >= 2 => <<Server(s), "req">> \in areas
        /\ store # "Pilaf" /\ Served(s, 0) >= -1 => <<Server(s), "hash">> \in areas
        /\ store = "HydraDB" /\ pos[Server(s)] >= 3 => s \in loaded

\* No client is twice in the queues of a server.
Distinct(s) ==
    /\ \A i, j \in 1 .. Len(accepted[s]) : accepted[s][i] = accepted[s][j] => i = j
    /\ \A i, j \in 1 .. Len(backlog[s]) : backlog[s][i] = backlog[s][j] => i = j
    /\ \A i \in 1 .. Len(accepted[s]), j \in 1 .. Len(backlog[s]) : accepted[s][i] # backlog[s][j]

\* A server has accepted as many clients as it has begun to serve; a client
\* whose connect() succeeded is accepted, or is waiting.
QueueInv ==
    \A s \in Servers :
        /\ Len(accepted[s]) <= NumClients
        /\ \A j \in Clients : j < Len(accepted[s]) <=> Served(s, j) >= 1
        /\ Distinct(s)
        /\ \A c \in Clients :
             link[c][s] = "open" <=> c \in ToSet(accepted[s]) \cup ToSet(backlog[s])

\* What became of a client's connect() tells how far its visit is. A client
\* dies only where its connect() was refused.
LinkInv ==
    /\ \A c \in Clients, s \in Servers :
        /\ link[c][s] = "closed" => Visited(c, s) <= 0
        /\ link[c][s] = "open" => Visited(c, s) >= 1
        /\ link[c][s] = "refused" =>
            IF store = "Pilaf" THEN Visited(c, s) = 0 /\ Client(c) \in dead
            ELSE Visited(c, s) \in 1 .. 3
    /\ \A c \in Clients : Client(c) \in dead => \E s \in Servers : link[c][s] = "refused"

\* The bytes on a channel: the words that are sent and not yet read.
Carries(ch, from, i, words, sent, got) ==
    /\ Len(ch) = sent - got
    /\ \A k \in 1 .. sent - got : ch[k] = Datum(from, i, words[got + k])

\* What is held under a name after the first words are read: the word of that
\* name, if it was among them.
Content(w, from, j, words, got) ==
    IF \E k \in 1 .. got : words[k] = w THEN Datum(from, j, w) ELSE None

\* A channel of the state carries what the two counts leave on it.
Flow(from, i, to, words, sent, got) == Carries(chan[<<from, to>>], from, i, words, sent, got)

\* A process holds what it has read of its i-th peer, and nothing else.
Taken(p, i, from, j, words, got) ==
    \A w \in Places \cup Vias : held[p][w][i] = Content(w, from, j, words, got)

\* Nothing has passed between a client and a server that has not accepted it.
Unmet(c, s) ==
    /\ chan[<<Client(c), Server(s)>>] = <<>> /\ chan[<<Server(s), Client(c)>>] = <<>>
    /\ Visited(c, s) <= 1 \/ link[c][s] = "refused"
    /\ \A w \in Places \cup Vias : held[Client(c)][w][s] = None

\* The j-th client of a server is c: both channels and what both hold follow
\* from how far the two are.
Met(c, s, j) ==
    /\ Flow(Client(c), s, Server(s), ToServer(store),
            ClientSent(store, Visited(c, s)), ServerGot(store, Served(s, j)))
    /\ Flow(Server(s), j, Client(c), ToClient(store),
            ServerSent(store, Served(s, j)), ClientGot(store, Visited(c, s)))
    /\ Taken(Client(c), s, Server(s), j, ToClient(store), ClientGot(store, Visited(c, s)))
    /\ Taken(Server(s), j, Client(c), s, ToServer(store), ServerGot(store, Served(s, j)))

\* Every pair of a client and a server has met or not.
ExchangeInv ==
    \A s \in Servers :
        /\ \A c \in Clients : c \notin ToSet(accepted[s]) => Unmet(c, s)
        /\ \A j, c \in Clients : j < Len(accepted[s]) /\ accepted[s][j + 1] = c => Met(c, s, j)
        /\ \A j \in Clients : ~(j < Len(accepted[s])) =>
             \A w \in Places \cup Vias : held[Server(s)][w][j] = None

\* The state of a queue pair after n calls of the round that connects it.
Connected(q, n, ready, dest) ==
    /\ n < ready - 1 => qp[q].state \in {"none", "init"}
    /\ n = ready - 1 => qp[q] = [state |-> "rtr", dest |-> dest]
    /\ n >= ready => qp[q] = [state |-> "rts", dest |-> dest]

\* A client's queue pair is connected to what it has read, a server's to the
\* client that it has accepted on that connection.
QPInv ==
    \A c \in Clients, s \in Servers : \A t \in Vias :
        IF t \in StoreVias(store)
        THEN /\ Connected(<<Client(c), s, t>>, Linked(c, s), LinkReady(t), held[Client(c)][t][s])
             /\ Connected(<<Server(s), c, t>>, Served(s, c), ServeReady(store, t),
                          <<Client(accepted[s][c + 1]), s, t>>)
        ELSE qp[<<Client(c), s, t>>].state = "none" /\ qp[<<Server(s), c, t>>].state = "none"

\* Pilaf's server sends its alerts when its RECVs are posted; a client that
\* heard one is the client of that connection.
AlertInv ==
    /\ store = "Pilaf" =>
        /\ \A s \in Servers : pos[Server(s)] >= 5 + 10 * NumClients =>
             {Server(s)} \X Assigned(s) \X {"uc"} \subseteq recvs
        /\ \A c \in Clients : pos[Client(c)] >= 4 + 10 * NumServers =>
             <<Client(c), ServerOf(c), "uc">> \in heard
    /\ \A c \in Clients, s \in Servers : <<Client(c), s, "uc">> \in heard =>
        \E j \in Clients : /\ j < Len(accepted[s]) /\ accepted[s][j + 1] = c
                           /\ <<Server(s), j, "uc">> \in recvs

\* The inductive invariant.
IInv == TypeOK /\ MemoryInv /\ QueueInv /\ LinkInv /\ ExchangeInv /\ QPInv /\ AlertInv
-----------------------------------------------------------------------------
\* How many there are of each, without how they are divided up.
LEMMA Sizes ==
    NumClients \in Nat \ {0} /\ NumServers \in Nat \ {0} /\ PerServer \in Nat \ {0}
  BY SizeAssumption

USE Sizes DEF Clients, Servers

\* The names of processes tell them apart.
LEMMA Names ==
    /\ \A c \in Clients : /\ Client(c) \in Procs /\ Client(c) \in ClientProcs
                          /\ Client(c)[2] = c /\ Conns(Client(c)) = Servers
    /\ \A s \in Servers : /\ Server(s) \in Procs /\ Server(s) \in ServerProcs
                          /\ Server(s) \notin ClientProcs
                          /\ Server(s)[2] = s /\ Conns(Server(s)) = Clients
    /\ \A c, d \in Clients : Client(c) = Client(d) => c = d
    /\ \A r, s \in Servers : Server(r) = Server(s) => r = s
    /\ \A c \in Clients, s \in Servers : Client(c) # Server(s)
    /\ \A p \in Procs : (\E c \in Clients : p = Client(c)) \/ (\E s \in Servers : p = Server(s))
<1>1. \A c \in Clients : Client(c) \in ClientProcs /\ Client(c)[2] = c
  BY DEF Client, ClientProcs
<1>2. \A s \in Servers : Server(s) \in ServerProcs /\ Server(s)[2] = s
  BY DEF Server, ServerProcs
<1>3. \A c \in Clients, s \in Servers : Client(c) # Server(s)
  BY DEF Client, Server
<1>4. \A s \in Servers : Server(s) \notin ClientProcs
  BY <1>3 DEF ClientProcs
<1>5. \A c, d \in Clients : Client(c) = Client(d) => c = d
  BY <1>1
<1>6. \A r, s \in Servers : Server(r) = Server(s) => r = s
  BY <1>2
<1>7. \A p \in Procs : (\E c \in Clients : p = Client(c)) \/ (\E s \in Servers : p = Server(s))
  BY DEF Procs, ClientProcs, ServerProcs
<1> QED
  BY <1>1, <1>2, <1>3, <1>4, <1>5, <1>6, <1>7 DEF Procs, Conns

\* The clients in a queue.
LEMMA Inside ==
    ASSUME NEW q \in Seq(Clients), NEW j \in Clients, j < Len(q)
    PROVE  j + 1 \in 1 .. Len(q) /\ q[j + 1] \in Clients /\ q[j + 1] \in ToSet(q)
<1>1. Len(q) \in Nat /\ j \in Nat
  OBVIOUS
<1>2. j + 1 \in 1 .. Len(q)
  BY <1>1
<1>3. q[j + 1] \in Clients
  BY <1>2
<1> QED
  BY <1>2, <1>3 DEF ToSet

\* The clients that a server answers are clients, and a client's server is one.
LEMMA Division ==
    /\ \A s \in Servers : \A k \in 0 .. PerServer - 1 : PerServer * s + k \in Assigned(s)
    /\ \A s \in Servers : Assigned(s) \subseteq Clients
    /\ \A c \in Clients : ServerOf(c) \in Servers
<1>1. ASSUME NEW s \in Servers, NEW k \in 0 .. PerServer - 1
      PROVE  PerServer * s + k \in Assigned(s)
  <2>1. PerServer * (s + 1) = PerServer * s + PerServer /\ PerServer * s \in Nat
    BY SMT
  <2> QED
    BY <2>1 DEF Assigned
<1>2. ASSUME NEW s \in Servers
      PROVE  Assigned(s) \subseteq Clients
  <2>1. PerServer * s \in Nat /\ PerServer * (s + 1) \in Nat
    BY SMT
  <2>2. PerServer * (s + 1) <= PerServer * NumServers
    <3>1. PICK d \in Nat : NumServers = s + 1 + d
      <4>1. NumServers - (s + 1) \in Nat
        OBVIOUS
      <4> QED
        BY <4>1
    <3>2. PerServer * (s + 1 + d) = PerServer * (s + 1) + PerServer * d /\ PerServer * d \in Nat
      BY SMT
    <3> QED
      BY <2>1, <3>1, <3>2
  <2>3. PerServer * NumServers = NumClients
    BY SizeAssumption, SMT
  <2> QED
    BY <2>1, <2>2, <2>3 DEF Assigned
<1>3. ASSUME NEW c \in Clients
      PROVE  ServerOf(c) \in Servers
  <2> DEFINE d == c \div PerServer
             r == c % PerServer
  <2>1. d \in Nat /\ r \in 0 .. PerServer - 1 /\ c = d * PerServer + r
    BY SMT
  <2> HIDE DEF d, r
  <2>2. CASE d >= NumServers
    <3>1. PICK e \in Nat : d = NumServers + e
      <4>1. d - NumServers \in Nat
        BY <2>1, <2>2
      <4> QED
        BY <2>1, <4>1
    <3>2. (NumServers + e) * PerServer = NumServers * PerServer + e * PerServer
          /\ e * PerServer \in Nat /\ NumServers * PerServer \in Nat
      BY SMT
    <3>3. c >= NumServers * PerServer
      BY <2>1, <3>1, <3>2
    <3> QED
      BY <3>2, <3>3, SizeAssumption
  <2> QED
    BY <2>1, <2>2 DEF ServerOf, d
<1> QED
  BY <1>1, <1>2, <1>3
-----------------------------------------------------------------------------
(***************************************************************************)
(* The scripts, position by position.                                      *)
(***************************************************************************)

\* The kinds of calls.
CallNames ==
    {"init_ctx", "register", "load", "listen", "accept", "close", "connect", "read", "write",
     "rtr", "rts", "post_recvs", "alert", "await"}

\* The calls that a script consists of.
Calls ==
    [call : CallNames, conn : Nat \cup SUBSET Nat,
     what : {"", "go on", "exit"} \cup Places \cup Vias
            \cup SUBSET (Places \cup Vias \cup {"request"})]

\* A call of a script has the fields that calls have.
LEMMA StepIsCall ==
    ASSUME NEW call \in CallNames, NEW conn \in Nat \cup SUBSET Nat,
           NEW what \in {"", "go on", "exit"} \cup Places \cup Vias
                        \cup SUBSET (Places \cup Vias \cup {"request"})
    PROVE  Step(call, conn, what) \in Calls
  BY DEF Step, Calls

\* A sequence of one call.
LEMMA Calls1 ==
    ASSUME NEW a \in Calls
    PROVE  <<a>> \in Seq(Calls) /\ Len(<<a>>) = 1
  OBVIOUS
\* A sequence of two calls.
LEMMA Calls2 ==
    ASSUME NEW a \in Calls, NEW b \in Calls
    PROVE  <<a, b>> \in Seq(Calls) /\ Len(<<a, b>>) = 2
  OBVIOUS
\* A sequence of three calls.
LEMMA Calls3 ==
    ASSUME NEW a \in Calls, NEW b \in Calls, NEW c \in Calls
    PROVE  <<a, b, c>> \in Seq(Calls) /\ Len(<<a, b, c>>) = 3
  OBVIOUS
\* A sequence of five calls.
LEMMA Calls5 ==
    ASSUME NEW a \in Calls, NEW b \in Calls, NEW c \in Calls, NEW d \in Calls, NEW e \in Calls
    PROVE  <<a, b, c, d, e>> \in Seq(Calls) /\ Len(<<a, b, c, d, e>>) = 5
  OBVIOUS
\* A sequence of six calls.
LEMMA Calls6 ==
    ASSUME NEW a \in Calls, NEW b \in Calls, NEW c \in Calls, NEW d \in Calls, NEW e \in Calls,
           NEW f \in Calls
    PROVE  <<a, b, c, d, e, f>> \in Seq(Calls) /\ Len(<<a, b, c, d, e, f>>) = 6
  OBVIOUS

\* Sequences of calls one after the other.
LEMMA Joined ==
    ASSUME NEW f \in Seq(Calls), NEW g \in Seq(Calls)
    PROVE  /\ f \o g \in Seq(Calls) /\ Len(f \o g) = Len(f) + Len(g)
           /\ \A k \in 1 .. Len(f) : (f \o g)[k] = f[k]
           /\ \A k \in 1 .. Len(g) : (f \o g)[Len(f) + k] = g[k]
  BY ConcatProperties

\* Two calls, one after the other.
LEMMA Calls2Joined ==
    ASSUME NEW a \in Calls, NEW b \in Calls
    PROVE  LET s == <<a>> \o <<b>>
           IN  s \in Seq(Calls) /\ Len(s) = 2 /\ s[1] = a /\ s[2] = b
<1> DEFINE f == <<a>>
           g == <<b>>
<1>1. /\ f \in Seq(Calls) /\ Len(f) = 1 /\ g \in Seq(Calls) /\ Len(g) = 1
      /\ f[1] = a /\ g[1] = b
  BY Calls1
<1> HIDE DEF f, g
<1>2. f \o g \in Seq(Calls) /\ Len(f \o g) = Len(f) + Len(g)
      /\ (f \o g)[1] = f[1] /\ (f \o g)[1 + 1] = g[1]
  BY <1>1, Joined
<1> QED
  BY <1>1, <1>2 DEF f, g

\* A loop of n rounds, all of m calls.
Unrolled(n, m, F) == [k \in 1 .. n * m |-> F[(k - 1) \div m][((k - 1) % m) + 1]]

\* A loop of n rounds of m calls is a sequence in which the k-th call of round
\* i has its place.
LEMMA Loop ==
    ASSUME NEW n \in Nat, NEW m \in {1, 2, 4, 6, 8, 10}, NEW F,
           \A i \in 0 .. n - 1 : F[i] \in Seq(Calls) /\ Len(F[i]) = m
    PROVE  /\ Unrolled(n, m, F) \in Seq(Calls) /\ Len(Unrolled(n, m, F)) = n * m
           /\ \A i \in 0 .. n - 1, k \in 1 .. m : Unrolled(n, m, F)[m * i + k] = F[i][k]
<1> DEFINE L == Unrolled(n, m, F)
<1>0. L = [k \in 1 .. n * m |-> F[(k - 1) \div m][((k - 1) % m) + 1]]
  BY DEF Unrolled
<1> HIDE DEF L
<1>1. n * m \in Nat
  OBVIOUS
<1>2. ASSUME NEW k \in 1 .. n * m
      PROVE  (k - 1) \div m \in 0 .. n - 1 /\ ((k - 1) % m) + 1 \in 1 .. m
  <2>1. CASE m = 1
    BY <2>1, <1>2
  <2>2. CASE m = 2
    BY <2>2, <1>2
  <2>4. CASE m = 4
    BY <2>4, <1>2
  <2>6. CASE m = 6
    BY <2>6, <1>2
  <2>8. CASE m = 8
    BY <2>8, <1>2
  <2>10. CASE m = 10
    BY <2>10, <1>2
  <2> QED
    BY <2>1, <2>2, <2>4, <2>6, <2>8, <2>10
<1>3. \A k \in 1 .. n * m : L[k] \in Calls
  BY <1>0, <1>2
<1>4. L \in Seq(Calls) /\ Len(L) = n * m
  BY <1>0, <1>1, <1>3
<1>5. ASSUME NEW i \in 0 .. n - 1, NEW k \in 1 .. m
      PROVE  /\ m * i + k \in 1 .. n * m
             /\ (m * i + k - 1) \div m = i /\ ((m * i + k - 1) % m) + 1 = k
  <2>1. CASE m = 1
    <3>1. 1 * i + k \in 1 .. n * 1 /\ i \in Nat /\ k \in 1 .. 1
      BY <2>1
    <3>2. (1 * i + k - 1) \div 1 = i /\ (1 * i + k - 1) % 1 = k - 1
      BY ONLY <3>1
    <3> QED
      BY <2>1, <3>1, <3>2
  <2>2. CASE m = 2
    <3>1. 2 * i + k \in 1 .. n * 2 /\ i \in Nat /\ k \in 1 .. 2
      BY <2>2
    <3>2. (2 * i + k - 1) \div 2 = i /\ (2 * i + k - 1) % 2 = k - 1
      BY ONLY <3>1
    <3> QED
      BY <2>2, <3>1, <3>2
  <2>4. CASE m = 4
    <3>1. 4 * i + k \in 1 .. n * 4 /\ i \in Nat /\ k \in 1 .. 4
      BY <2>4
    <3>2. (4 * i + k - 1) \div 4 = i /\ (4 * i + k - 1) % 4 = k - 1
      BY ONLY <3>1
    <3> QED
      BY <2>4, <3>1, <3>2
  <2>6. CASE m = 6
    <3>1. 6 * i + k \in 1 .. n * 6 /\ i \in Nat /\ k \in 1 .. 6
      BY <2>6
    <3>2. (6 * i + k - 1) \div 6 = i /\ (6 * i + k - 1) % 6 = k - 1
      BY ONLY <3>1
    <3> QED
      BY <2>6, <3>1, <3>2
  <2>8. CASE m = 8
    <3>1. 8 * i + k \in 1 .. n * 8 /\ i \in Nat /\ k \in 1 .. 8
      BY <2>8
    <3>2. (8 * i + k - 1) \div 8 = i /\ (8 * i + k - 1) % 8 = k - 1
      BY ONLY <3>1
    <3> QED
      BY <2>8, <3>1, <3>2
  <2>10. CASE m = 10
    <3>1. 10 * i + k \in 1 .. n * 10 /\ i \in Nat /\ k \in 1 .. 10
      BY <2>10
    <3>2. (10 * i + k - 1) \div 10 = i /\ (10 * i + k - 1) % 10 = k - 1
      BY ONLY <3>1
    <3> QED
      BY <2>10, <3>1, <3>2
  <2> QED
    BY <2>1, <2>2, <2>4, <2>6, <2>8, <2>10
<1>6. \A i \in 0 .. n - 1, k \in 1 .. m : L[m * i + k] = F[i][k]
  BY <1>0, <1>5
<1> QED
  BY <1>4, <1>6 DEF L

\* A round of FaRM's client_exch_dest is six calls.
LEMMA FarmVisitCalls ==
    \A i \in Nat : FarmVisit(i) \in Seq(Calls) /\ Len(FarmVisit(i)) = 6
<1> SUFFICES ASSUME NEW i \in Nat
             PROVE  FarmVisit(i) \in Seq(Calls) /\ Len(FarmVisit(i)) = 6
  OBVIOUS
<1>1. /\ Step("connect", i, "go on") \in Calls
      /\ Read(i, "req") \in Calls /\ Read(i, "hash") \in Calls /\ Write(i, "resp") \in Calls
      /\ Write(i, "rc") \in Calls /\ Read(i, "rc") \in Calls
  BY StepIsCall DEF Read, Write, CallNames, Places, Vias
<1> QED
  BY <1>1, Calls6 DEF FarmVisit

\* A round of Pilaf's client_exch_dest is six calls.
LEMMA PilafVisitCalls ==
    \A i \in Nat : PilafVisit(i) \in Seq(Calls) /\ Len(PilafVisit(i)) = 6
<1> SUFFICES ASSUME NEW i \in Nat
             PROVE  PilafVisit(i) \in Seq(Calls) /\ Len(PilafVisit(i)) = 6
  OBVIOUS
<1>1. /\ Step("connect", i, "exit") \in Calls /\ Read(i, "req") \in Calls
      /\ Write(i, "rc") \in Calls /\ Read(i, "rc") \in Calls
      /\ Write(i, "uc") \in Calls /\ Read(i, "uc") \in Calls
  BY StepIsCall DEF Read, Write, CallNames, Places, Vias
<1> QED
  BY <1>1, Calls6 DEF PilafVisit

\* FaRM's connect_ctx is two calls.
LEMMA FarmConnectCalls ==
    \A i \in Nat : FarmConnect(i) \in Seq(Calls) /\ Len(FarmConnect(i)) = 2
<1> SUFFICES ASSUME NEW i \in Nat
             PROVE  FarmConnect(i) \in Seq(Calls) /\ Len(FarmConnect(i)) = 2
  OBVIOUS
<1>1. Step("rtr", i, "rc") \in Calls /\ Step("rts", i, "rc") \in Calls
  BY StepIsCall DEF CallNames, Vias
<1> QED
  BY <1>1, Calls2 DEF FarmConnect

\* Pilaf's connect_ctx of one transport is two calls.
LEMMA PilafConnectCalls ==
    \A i \in Nat, t \in Vias :
        /\ PilafConnect(i, t) \in Seq(Calls) /\ Len(PilafConnect(i, t)) = 2
        /\ PilafConnect(i, t)[1] = Step("rtr", i, t) /\ PilafConnect(i, t)[2] = Step("rts", i, t)
<1> SUFFICES ASSUME NEW i \in Nat, NEW t \in Vias
             PROVE  /\ PilafConnect(i, t) \in Seq(Calls) /\ Len(PilafConnect(i, t)) = 2
                    /\ PilafConnect(i, t)[1] = Step("rtr", i, t)
                    /\ PilafConnect(i, t)[2] = Step("rts", i, t)
  OBVIOUS
<1>1. Step("rtr", i, t) \in Calls /\ Step("rts", i, t) \in Calls
  BY StepIsCall DEF CallNames
<1>2. PilafConnect(i, t) \in Seq(Calls) /\ Len(PilafConnect(i, t)) = 2
  BY <1>1, Calls2 DEF PilafConnect
<1>3. PilafConnect(i, t)[1] = Step("rtr", i, t) /\ PilafConnect(i, t)[2] = Step("rts", i, t)
  BY DEF PilafConnect
<1> QED
  BY <1>2, <1>3

\* Pilaf's client connects the reliable queue pair and then the other.
LEMMA ConnectBothCalls ==
    \A i \in Nat :
        /\ ConnectBoth(i) \in Seq(Calls) /\ Len(ConnectBoth(i)) = 4
        /\ ConnectBoth(i)[1] = Step("rtr", i, "rc") /\ ConnectBoth(i)[2] = Step("rts", i, "rc")
        /\ ConnectBoth(i)[3] = Step("rtr", i, "uc") /\ ConnectBoth(i)[4] = Step("rts", i, "uc")
<1> SUFFICES ASSUME NEW i \in Nat
             PROVE  /\ ConnectBoth(i) \in Seq(Calls) /\ Len(ConnectBoth(i)) = 4
                    /\ ConnectBoth(i)[1] = Step("rtr", i, "rc")
                    /\ ConnectBoth(i)[2] = Step("rts", i, "rc")
                    /\ ConnectBoth(i)[3] = Step("rtr", i, "uc")
                    /\ ConnectBoth(i)[4] = Step("rts", i, "uc")
  OBVIOUS
<1> DEFINE f == PilafConnect(i, "rc")
           g == PilafConnect(i, "uc")
<1>1. /\ f \in Seq(Calls) /\ Len(f) = 2 /\ g \in Seq(Calls) /\ Len(g) = 2
      /\ f[1] = Step("rtr", i, "rc") /\ f[2] = Step("rts", i, "rc")
      /\ g[1] = Step("rtr", i, "uc") /\ g[2] = Step("rts", i, "uc")
  BY PilafConnectCalls DEF Vias
<1>2. ConnectBoth(i) = f \o g
  BY DEF ConnectBoth
<1> HIDE DEF f, g
<1>3. /\ f \o g \in Seq(Calls) /\ Len(f \o g) = Len(f) + Len(g)
      /\ \A k \in 1 .. Len(f) : (f \o g)[k] = f[k]
      /\ \A k \in 1 .. Len(g) : (f \o g)[Len(f) + k] = g[k]
  BY <1>1, Joined
<1>4. /\ (f \o g)[1] = f[1] /\ (f \o g)[2] = f[2]
      /\ (f \o g)[2 + 1] = g[1] /\ (f \o g)[2 + 2] = g[2]
  BY <1>1, <1>3
<1> QED
  BY <1>1, <1>2, <1>3, <1>4

\* The eight calls of a round of FaRM's server_exch_dest.
LEMMA FarmServeCalls ==
    \A i \in Nat :
        /\ FarmServe(i) \in Seq(Calls) /\ Len(FarmServe(i)) = 8
        /\ FarmServe(i)[1] = Step("accept", i, "")
        /\ FarmServe(i)[2] = Write(i, "req") /\ FarmServe(i)[3] = Write(i, "hash")
        /\ FarmServe(i)[4] = Read(i, "resp") /\ FarmServe(i)[5] = Read(i, "rc")
        /\ FarmServe(i)[6] = Step("rtr", i, "rc") /\ FarmServe(i)[7] = Step("rts", i, "rc")
        /\ FarmServe(i)[8] = Write(i, "rc")
<1> TAKE i \in Nat
<1>1. /\ Step("accept", i, "") \in Calls
      /\ Write(i, "req") \in Calls /\ Write(i, "hash") \in Calls /\ Write(i, "rc") \in Calls
      /\ Read(i, "resp") \in Calls /\ Read(i, "rc") \in Calls
  BY StepIsCall DEF Read, Write, CallNames, Places, Vias
<1> DEFINE f == <<Step("accept", i, ""), Write(i, "req"), Write(i, "hash"), Read(i, "resp"),
                  Read(i, "rc")>>
           g == FarmConnect(i)
           h == <<Write(i, "rc")>>
<1>2. f \in Seq(Calls) /\ Len(f) = 5 /\ h \in Seq(Calls) /\ Len(h) = 1
  BY <1>1, Calls5, Calls1
<1>3. g \in Seq(Calls) /\ Len(g) = 2
  BY FarmConnectCalls
<1>4. FarmServe(i) = (f \o g) \o h
  BY DEF FarmServe
<1>5. FarmServe(i) \in Seq(Calls) /\ Len(FarmServe(i)) = 8
  <2> HIDE DEF f, g, h
  <2>1. f \o g \in Seq(Calls) /\ Len(f \o g) = Len(f) + Len(g)
    BY <1>2, <1>3, Joined
  <2>2. (f \o g) \o h \in Seq(Calls) /\ Len((f \o g) \o h) = Len(f \o g) + Len(h)
    BY <1>2, <2>1, Joined
  <2> QED
    BY <1>2, <1>3, <1>4, <2>1, <2>2
<1>6. /\ FarmServe(i)[1] = Step("accept", i, "")
      /\ FarmServe(i)[2] = Write(i, "req") /\ FarmServe(i)[3] = Write(i, "hash")
      /\ FarmServe(i)[4] = Read(i, "resp") /\ FarmServe(i)[5] = Read(i, "rc")
      /\ FarmServe(i)[6] = Step("rtr", i, "rc") /\ FarmServe(i)[7] = Step("rts", i, "rc")
      /\ FarmServe(i)[8] = Write(i, "rc")
  BY DEF FarmServe, FarmConnect
<1> QED
  BY <1>5, <1>6

\* The ten calls of a round of Pilaf's server_exch_dest.
LEMMA PilafServeCalls ==
    \A i \in Nat :
        /\ PilafServe(i) \in Seq(Calls) /\ Len(PilafServe(i)) = 10
        /\ PilafServe(i)[1] = Step("accept", i, "")
        /\ PilafServe(i)[2] = Write(i, "req") /\ PilafServe(i)[3] = Read(i, "rc")
        /\ PilafServe(i)[4] = Step("rtr", i, "rc") /\ PilafServe(i)[5] = Step("rts", i, "rc")
        /\ PilafServe(i)[6] = Write(i, "rc") /\ PilafServe(i)[7] = Read(i, "uc")
        /\ PilafServe(i)[8] = Step("rtr", i, "uc") /\ PilafServe(i)[9] = Step("rts", i, "uc")
        /\ PilafServe(i)[10] = Write(i, "uc")
<1> TAKE i \in Nat
<1>1. /\ Step("accept", i, "") \in Calls
      /\ Write(i, "req") \in Calls /\ Read(i, "rc") \in Calls /\ Write(i, "rc") \in Calls
      /\ Read(i, "uc") \in Calls /\ Write(i, "uc") \in Calls
  BY StepIsCall DEF Read, Write, CallNames, Places, Vias
<1> DEFINE f == <<Step("accept", i, ""), Write(i, "req"), Read(i, "rc")>>
           g == PilafConnect(i, "rc")
           h == <<Write(i, "rc"), Read(i, "uc")>>
           k == PilafConnect(i, "uc")
           l == <<Write(i, "uc")>>
<1>2. /\ f \in Seq(Calls) /\ Len(f) = 3 /\ h \in Seq(Calls) /\ Len(h) = 2
      /\ l \in Seq(Calls) /\ Len(l) = 1
  BY <1>1, Calls3, Calls2, Calls1
<1>3. g \in Seq(Calls) /\ Len(g) = 2 /\ k \in Seq(Calls) /\ Len(k) = 2
  BY PilafConnectCalls DEF Vias
<1>4. PilafServe(i) = (((f \o g) \o h) \o k) \o l
  BY DEF PilafServe
<1>5. PilafServe(i) \in Seq(Calls) /\ Len(PilafServe(i)) = 10
  <2> HIDE DEF f, g, h, k, l
  <2>1. f \o g \in Seq(Calls) /\ Len(f \o g) = Len(f) + Len(g)
    BY <1>2, <1>3, Joined
  <2>2. (f \o g) \o h \in Seq(Calls) /\ Len((f \o g) \o h) = Len(f \o g) + Len(h)
    BY <1>2, <2>1, Joined
  <2>3. /\ ((f \o g) \o h) \o k \in Seq(Calls)
        /\ Len(((f \o g) \o h) \o k) = Len((f \o g) \o h) + Len(k)
    BY <1>3, <2>2, Joined
  <2>4. /\ (((f \o g) \o h) \o k) \o l \in Seq(Calls)
        /\ Len((((f \o g) \o h) \o k) \o l) = Len(((f \o g) \o h) \o k) + Len(l)
    BY <1>2, <2>3, Joined
  <2> QED
    BY <1>2, <1>3, <1>4, <2>1, <2>2, <2>3, <2>4
<1>6. /\ PilafServe(i)[1] = Step("accept", i, "")
      /\ PilafServe(i)[2] = Write(i, "req") /\ PilafServe(i)[3] = Read(i, "rc")
      /\ PilafServe(i)[4] = Step("rtr", i, "rc") /\ PilafServe(i)[5] = Step("rts", i, "rc")
      /\ PilafServe(i)[6] = Write(i, "rc") /\ PilafServe(i)[7] = Read(i, "uc")
      /\ PilafServe(i)[8] = Step("rtr", i, "uc") /\ PilafServe(i)[9] = Step("rts", i, "uc")
      /\ PilafServe(i)[10] = Write(i, "uc")
  BY DEF PilafServe, PilafConnect
<1> QED
  BY <1>5, <1>6

\* The places of the calls of FaRM's client_exch_dest.
LEMMA FarmVisits ==
    LET loop == FarmClientExch
    IN  /\ loop \in Seq(Calls) /\ Len(loop) = NumServers * 6
        /\ \A i \in Servers, k \in 1 .. 6 : loop[6 * i + k] = FarmVisit(i)[k]
<1> DEFINE F == [i \in 0 .. NumServers - 1 |-> FarmVisit(i)]
           loop == FarmClientExch
<1>0. \A i \in Nat : FarmVisit(i) \in Seq(Calls) /\ Len(FarmVisit(i)) = 6
  BY FarmVisitCalls
<1>1. \A i \in 0 .. NumServers - 1 : F[i] = FarmVisit(i) /\ F[i] \in Seq(Calls) /\ Len(F[i]) = 6
  BY <1>0
<1>2. loop = [k \in 1 .. NumServers * 6 |-> FarmVisit((k - 1) \div 6)[((k - 1) % 6) + 1]]
  <2>1. Len(FarmVisit(0)) = 6
    BY <1>0
  <2> QED
    BY <2>1 DEF ForEach, FarmClientExch
<1>3. \A k \in 1 .. NumServers * 6 : (k - 1) \div 6 \in 0 .. NumServers - 1
  OBVIOUS
<1>4. loop = Unrolled(NumServers, 6, F)
  BY <1>1, <1>2, <1>3 DEF Unrolled
<1> HIDE DEF F, loop
<1>5. \A i \in 0 .. NumServers - 1 : F[i] \in Seq(Calls) /\ Len(F[i]) = 6
  BY <1>1
<1>6. /\ Unrolled(NumServers, 6, F) \in Seq(Calls) /\ Len(Unrolled(NumServers, 6, F)) = NumServers * 6
      /\ \A i \in 0 .. NumServers - 1, k \in 1 .. 6 : Unrolled(NumServers, 6, F)[6 * i + k] = F[i][k]
  BY <1>5, Loop
<1>7. loop \in Seq(Calls) /\ Len(loop) = NumServers * 6
  BY <1>4, <1>6
<1>8. ASSUME NEW i \in Servers, NEW k \in 1 .. 6
      PROVE  loop[6 * i + k] = FarmVisit(i)[k]
  <2>1. Unrolled(NumServers, 6, F)[6 * i + k] = F[i][k]
    BY <1>6
  <2>2. F[i] = FarmVisit(i)
    BY <1>1
  <2> QED
    BY <1>4, <2>1, <2>2
<1> QED
  BY <1>7, <1>8 DEF loop

\* The places of the calls of Pilaf's client_exch_dest.
LEMMA PilafVisits ==
    LET loop == PilafClientExch
    IN  /\ loop \in Seq(Calls) /\ Len(loop) = NumServers * 6
        /\ \A i \in Servers, k \in 1 .. 6 : loop[6 * i + k] = PilafVisit(i)[k]
<1> DEFINE F == [i \in 0 .. NumServers - 1 |-> PilafVisit(i)]
           loop == PilafClientExch
<1>0. \A i \in Nat : PilafVisit(i) \in Seq(Calls) /\ Len(PilafVisit(i)) = 6
  BY PilafVisitCalls
<1>1. \A i \in 0 .. NumServers - 1 : F[i] = PilafVisit(i) /\ F[i] \in Seq(Calls) /\ Len(F[i]) = 6
  BY <1>0
<1>2. loop = [k \in 1 .. NumServers * 6 |-> PilafVisit((k - 1) \div 6)[((k - 1) % 6) + 1]]
  <2>1. Len(PilafVisit(0)) = 6
    BY <1>0
  <2> QED
    BY <2>1 DEF ForEach, PilafClientExch
<1>3. \A k \in 1 .. NumServers * 6 : (k - 1) \div 6 \in 0 .. NumServers - 1
  OBVIOUS
<1>4. loop = Unrolled(NumServers, 6, F)
  BY <1>1, <1>2, <1>3 DEF Unrolled
<1> HIDE DEF F, loop
<1>5. \A i \in 0 .. NumServers - 1 : F[i] \in Seq(Calls) /\ Len(F[i]) = 6
  BY <1>1
<1>6. /\ Unrolled(NumServers, 6, F) \in Seq(Calls) /\ Len(Unrolled(NumServers, 6, F)) = NumServers * 6
      /\ \A i \in 0 .. NumServers - 1, k \in 1 .. 6 : Unrolled(NumServers, 6, F)[6 * i + k] = F[i][k]
  BY <1>5, Loop
<1>7. loop \in Seq(Calls) /\ Len(loop) = NumServers * 6
  BY <1>4, <1>6
<1>8. ASSUME NEW i \in Servers, NEW k \in 1 .. 6
      PROVE  loop[6 * i + k] = PilafVisit(i)[k]
  <2>1. Unrolled(NumServers, 6, F)[6 * i + k] = F[i][k]
    BY <1>6
  <2>2. F[i] = PilafVisit(i)
    BY <1>1
  <2> QED
    BY <1>4, <2>1, <2>2
<1> QED
  BY <1>7, <1>8 DEF loop

\* The places of the calls of FaRM's loop over connect_ctx.
LEMMA FarmLinks ==
    LET loop == ForEach(NumServers, FarmConnect)
    IN  /\ loop \in Seq(Calls) /\ Len(loop) = NumServers * 2
        /\ \A i \in Servers, k \in 1 .. 2 : loop[2 * i + k] = FarmConnect(i)[k]
<1> DEFINE F == [i \in 0 .. NumServers - 1 |-> FarmConnect(i)]
           loop == ForEach(NumServers, FarmConnect)
<1>0. \A i \in Nat : FarmConnect(i) \in Seq(Calls) /\ Len(FarmConnect(i)) = 2
  BY FarmConnectCalls
<1>1. \A i \in 0 .. NumServers - 1 : F[i] = FarmConnect(i) /\ F[i] \in Seq(Calls) /\ Len(F[i]) = 2
  BY <1>0
<1>2. loop = [k \in 1 .. NumServers * 2 |-> FarmConnect((k - 1) \div 2)[((k - 1) % 2) + 1]]
  <2>1. Len(FarmConnect(0)) = 2
    BY <1>0
  <2> QED
    BY <2>1 DEF ForEach
<1>3. \A k \in 1 .. NumServers * 2 : (k - 1) \div 2 \in 0 .. NumServers - 1
  OBVIOUS
<1>4. loop = Unrolled(NumServers, 2, F)
  BY <1>1, <1>2, <1>3 DEF Unrolled
<1> HIDE DEF F, loop
<1>5. \A i \in 0 .. NumServers - 1 : F[i] \in Seq(Calls) /\ Len(F[i]) = 2
  BY <1>1
<1>6. /\ Unrolled(NumServers, 2, F) \in Seq(Calls) /\ Len(Unrolled(NumServers, 2, F)) = NumServers * 2
      /\ \A i \in 0 .. NumServers - 1, k \in 1 .. 2 : Unrolled(NumServers, 2, F)[2 * i + k] = F[i][k]
  BY <1>5, Loop
<1>7. loop \in Seq(Calls) /\ Len(loop) = NumServers * 2
  BY <1>4, <1>6
<1>8. ASSUME NEW i \in Servers, NEW k \in 1 .. 2
      PROVE  loop[2 * i + k] = FarmConnect(i)[k]
  <2>1. Unrolled(NumServers, 2, F)[2 * i + k] = F[i][k]
    BY <1>6
  <2>2. F[i] = FarmConnect(i)
    BY <1>1
  <2> QED
    BY <1>4, <2>1, <2>2
<1> QED
  BY <1>7, <1>8 DEF loop

\* The places of the calls of Pilaf's loop over connect_ctx.
LEMMA PilafLinks ==
    LET loop == ForEach(NumServers, ConnectBoth)
    IN  /\ loop \in Seq(Calls) /\ Len(loop) = NumServers * 4
        /\ \A i \in Servers, k \in 1 .. 4 : loop[4 * i + k] = ConnectBoth(i)[k]
<1> DEFINE F == [i \in 0 .. NumServers - 1 |-> ConnectBoth(i)]
           loop == ForEach(NumServers, ConnectBoth)
<1>0. \A i \in Nat : ConnectBoth(i) \in Seq(Calls) /\ Len(ConnectBoth(i)) = 4
  BY ConnectBothCalls
<1>1. \A i \in 0 .. NumServers - 1 : F[i] = ConnectBoth(i) /\ F[i] \in Seq(Calls) /\ Len(F[i]) = 4
  BY <1>0
<1>2. loop = [k \in 1 .. NumServers * 4 |-> ConnectBoth((k - 1) \div 4)[((k - 1) % 4) + 1]]
  <2>1. Len(ConnectBoth(0)) = 4
    BY <1>0
  <2> QED
    BY <2>1 DEF ForEach
<1>3. \A k \in 1 .. NumServers * 4 : (k - 1) \div 4 \in 0 .. NumServers - 1
  OBVIOUS
<1>4. loop = Unrolled(NumServers, 4, F)
  BY <1>1, <1>2, <1>3 DEF Unrolled
<1> HIDE DEF F, loop
<1>5. \A i \in 0 .. NumServers - 1 : F[i] \in Seq(Calls) /\ Len(F[i]) = 4
  BY <1>1
<1>6. /\ Unrolled(NumServers, 4, F) \in Seq(Calls) /\ Len(Unrolled(NumServers, 4, F)) = NumServers * 4
      /\ \A i \in 0 .. NumServers - 1, k \in 1 .. 4 : Unrolled(NumServers, 4, F)[4 * i + k] = F[i][k]
  BY <1>5, Loop
<1>7. loop \in Seq(Calls) /\ Len(loop) = NumServers * 4
  BY <1>4, <1>6
<1>8. ASSUME NEW i \in Servers, NEW k \in 1 .. 4
      PROVE  loop[4 * i + k] = ConnectBoth(i)[k]
  <2>1. Unrolled(NumServers, 4, F)[4 * i + k] = F[i][k]
    BY <1>6
  <2>2. F[i] = ConnectBoth(i)
    BY <1>1
  <2> QED
    BY <1>4, <2>1, <2>2
<1> QED
  BY <1>7, <1>8 DEF loop

\* The places of the calls of FaRM's server_exch_dest.
LEMMA FarmServes ==
    LET loop == ForEach(NumClients, FarmServe)
    IN  /\ loop \in Seq(Calls) /\ Len(loop) = NumClients * 8
        /\ \A i \in Clients, k \in 1 .. 8 : loop[8 * i + k] = FarmServe(i)[k]
<1> DEFINE F == [i \in 0 .. NumClients - 1 |-> FarmServe(i)]
           loop == ForEach(NumClients, FarmServe)
<1>0. \A i \in Nat : FarmServe(i) \in Seq(Calls) /\ Len(FarmServe(i)) = 8
  BY FarmServeCalls
<1>1. \A i \in 0 .. NumClients - 1 : F[i] = FarmServe(i) /\ F[i] \in Seq(Calls) /\ Len(F[i]) = 8
  BY <1>0
<1>2. loop = [k \in 1 .. NumClients * 8 |-> FarmServe((k - 1) \div 8)[((k - 1) % 8) + 1]]
  <2>1. Len(FarmServe(0)) = 8
    BY <1>0
  <2> QED
    BY <2>1 DEF ForEach
<1>3. \A k \in 1 .. NumClients * 8 : (k - 1) \div 8 \in 0 .. NumClients - 1
  OBVIOUS
<1>4. loop = Unrolled(NumClients, 8, F)
  BY <1>1, <1>2, <1>3 DEF Unrolled
<1> HIDE DEF F, loop
<1>5. \A i \in 0 .. NumClients - 1 : F[i] \in Seq(Calls) /\ Len(F[i]) = 8
  BY <1>1
<1>6. /\ Unrolled(NumClients, 8, F) \in Seq(Calls) /\ Len(Unrolled(NumClients, 8, F)) = NumClients * 8
      /\ \A i \in 0 .. NumClients - 1, k \in 1 .. 8 : Unrolled(NumClients, 8, F)[8 * i + k] = F[i][k]
  BY <1>5, Loop
<1>7. loop \in Seq(Calls) /\ Len(loop) = NumClients * 8
  BY <1>4, <1>6
<1>8. ASSUME NEW i \in Clients, NEW k \in 1 .. 8
      PROVE  loop[8 * i + k] = FarmServe(i)[k]
  <2>1. Unrolled(NumClients, 8, F)[8 * i + k] = F[i][k]
    BY <1>6
  <2>2. F[i] = FarmServe(i)
    BY <1>1
  <2> QED
    BY <1>4, <2>1, <2>2
<1> QED
  BY <1>7, <1>8 DEF loop

\* The places of the calls of Pilaf's server_exch_dest.
LEMMA PilafServes ==
    LET loop == ForEach(NumClients, PilafServe)
    IN  /\ loop \in Seq(Calls) /\ Len(loop) = NumClients * 10
        /\ \A i \in Clients, k \in 1 .. 10 : loop[10 * i + k] = PilafServe(i)[k]
<1> DEFINE F == [i \in 0 .. NumClients - 1 |-> PilafServe(i)]
           loop == ForEach(NumClients, PilafServe)
<1>0. \A i \in Nat : PilafServe(i) \in Seq(Calls) /\ Len(PilafServe(i)) = 10
  BY PilafServeCalls
<1>1. \A i \in 0 .. NumClients - 1 : F[i] = PilafServe(i) /\ F[i] \in Seq(Calls) /\ Len(F[i]) = 10
  BY <1>0
<1>2. loop = [k \in 1 .. NumClients * 10 |-> PilafServe((k - 1) \div 10)[((k - 1) % 10) + 1]]
  <2>1. Len(PilafServe(0)) = 10
    BY <1>0
  <2> QED
    BY <2>1 DEF ForEach
<1>3. \A k \in 1 .. NumClients * 10 : (k - 1) \div 10 \in 0 .. NumClients - 1
  OBVIOUS
<1>4. loop = Unrolled(NumClients, 10, F)
  BY <1>1, <1>2, <1>3 DEF Unrolled
<1> HIDE DEF F, loop
<1>5. \A i \in 0 .. NumClients - 1 : F[i] \in Seq(Calls) /\ Len(F[i]) = 10
  BY <1>1
<1>6. /\ Unrolled(NumClients, 10, F) \in Seq(Calls) /\ Len(Unrolled(NumClients, 10, F)) = NumClients * 10
      /\ \A i \in 0 .. NumClients - 1, k \in 1 .. 10 : Unrolled(NumClients, 10, F)[10 * i + k] = F[i][k]
  BY <1>5, Loop
<1>7. loop \in Seq(Calls) /\ Len(loop) = NumClients * 10
  BY <1>4, <1>6
<1>8. ASSUME NEW i \in Clients, NEW k \in 1 .. 10
      PROVE  loop[10 * i + k] = PilafServe(i)[k]
  <2>1. Unrolled(NumClients, 10, F)[10 * i + k] = F[i][k]
    BY <1>6
  <2>2. F[i] = PilafServe(i)
    BY <1>1
  <2> QED
    BY <1>4, <2>1, <2>2
<1> QED
  BY <1>7, <1>8 DEF loop

\* The places of the alerts of Pilaf's server.
LEMMA PilafAlerts ==
    \A s \in Servers :
        LET loop == ForEach(PerServer, LAMBDA k : <<Step("alert", PerServer * Server(s)[2] + k, "uc")>>)
        IN  /\ loop \in Seq(Calls) /\ Len(loop) = PerServer
            /\ \A k \in 1 .. PerServer : loop[k] = Step("alert", PerServer * s + (k - 1), "uc")
<1> TAKE s \in Servers
<1> DEFINE loop == ForEach(PerServer, LAMBDA k : <<Step("alert", PerServer * Server(s)[2] + k, "uc")>>)
<1>1. loop = [k \in 1 .. PerServer * 1 |->
                <<Step("alert", PerServer * Server(s)[2] + ((k - 1) \div 1), "uc")>>[((k - 1) % 1) + 1]]
  <2>1. Len(<<Step("alert", PerServer * Server(s)[2] + 0, "uc")>>) = 1
    OBVIOUS
  <2> QED
    BY <2>1 DEF ForEach
<1>2. PerServer * 1 = PerServer
  OBVIOUS
<1>3. \A k \in 1 .. PerServer : (k - 1) \div 1 = k - 1 /\ (k - 1) % 1 = 0
  OBVIOUS
<1> HIDE DEF loop
<1>4. \A k \in 1 .. PerServer : loop[k] = Step("alert", PerServer * s + (k - 1), "uc")
  BY <1>1, <1>2, <1>3, Names
<1>5. \A k \in 1 .. PerServer : PerServer * s + (k - 1) \in Nat
  <2>1. PerServer * s \in Nat
    BY SMT
  <2> QED
    BY <2>1
<1>6. \A k \in 1 .. PerServer : loop[k] \in Calls
  BY <1>4, <1>5, StepIsCall DEF CallNames, Vias
<1>7. loop \in Seq(Calls) /\ Len(loop) = PerServer
  <2>1. loop = [k \in 1 .. PerServer |-> loop[k]]
    BY <1>1, <1>2
  <2>2. [k \in 1 .. PerServer |-> loop[k]] \in Seq(Calls)
        /\ Len([k \in 1 .. PerServer |-> loop[k]]) = PerServer
    BY <1>6
  <2> QED
    BY <2>1, <2>2
<1> QED
  BY <1>4, <1>7 DEF loop
-----------------------------------------------------------------------------
\* The calls of a round of client_exch_dest.
VisitCalls(st, i) == IF st = "Pilaf" THEN PilafVisit(i) ELSE FarmVisit(i)

\* The calls of a round of the client's loop over connect_ctx.
LinkCalls(st, i) == IF st = "Pilaf" THEN ConnectBoth(i) ELSE FarmConnect(i)

\* The calls of a round of server_exch_dest.
ServeCalls(st, j) == IF st = "Pilaf" THEN PilafServe(j) ELSE FarmServe(j)

\* The number of calls of a round of the client's loop over connect_ctx.
LinkLen(st) == IF st = "Pilaf" THEN 4 ELSE 2

\* The number of calls of a round of server_exch_dest.
ServeLen(st) == IF st = "Pilaf" THEN 10 ELSE 8

\* The three programs.
AllStores == {"FaRM", "HydraDB", "Pilaf"}

\* Every position of a loop is one of a round.
LEMMA Rounds ==
    ASSUME NEW n \in Nat, NEW m \in {2, 4, 6, 8, 10}, NEW x \in 0 .. n * m - 1
    PROVE  \E i \in 0 .. n - 1, k \in 1 .. m : x = m * i + k - 1
<1>1. x \div m \in 0 .. n - 1 /\ (x % m) + 1 \in 1 .. m /\ x = m * (x \div m) + ((x % m) + 1) - 1
  <2>2. CASE m = 2
    BY <2>2
  <2>4. CASE m = 4
    BY <2>4
  <2>6. CASE m = 6
    BY <2>6
  <2>8. CASE m = 8
    BY <2>8
  <2>10. CASE m = 10
    BY <2>10
  <2> QED
    BY <2>2, <2>4, <2>6, <2>8, <2>10
<1> QED
  BY <1>1

\* HydraDB's loops are FaRM's.
LEMMA HydraIsFarm ==
    /\ HydraClientExch = FarmClientExch /\ HydraServerExch = FarmServerExch
    /\ ForEach(NumServers, HydraConnect) = ForEach(NumServers, FarmConnect)
  BY DEF HydraClientExch, FarmClientExch, HydraServerExch, FarmServerExch, ForEach,
         HydraVisit, FarmVisit, HydraServe, FarmServe, HydraConnect, FarmConnect

\* The script of a client of FaRM and of HydraDB, call by call.
LEMMA FarmClientScript ==
    ASSUME NEW st \in {"FaRM", "HydraDB"}, NEW c \in Clients
    PROVE  LET s == Script[st][Client(c)]
           IN  /\ s \in Seq(Calls) /\ Len(s) = 2 + NumServers * 8
               /\ s[1] = Step("init_ctx", 0, {"rc"})
               /\ s[2] = Step("register", 0, {"resp", "req"})
               /\ \A i \in Servers, k \in 1 .. 6 : s[2 + 6 * i + k] = FarmVisit(i)[k]
               /\ \A i \in Servers, k \in 1 .. 2 :
                    s[2 + 6 * NumServers + 2 * i + k] = FarmConnect(i)[k]
<1> DEFINE e == <<Step("init_ctx", 0, {"rc"})>> \o <<Step("register", 0, {"resp", "req"})>>
           f == FarmClientExch
           g == ForEach(NumServers, FarmConnect)
<1>1. Script[st][Client(c)] = e \o (f \o g)
  <2>1. FarmMain(Client(c)) = e \o (f \o g)
    BY Names DEF FarmMain, FarmInitCtx, FarmSetup
  <2>2. HydraMain(Client(c)) = e \o (f \o g)
    BY Names, HydraIsFarm DEF HydraMain, HydraInitCtx, HydraSetup
  <2>3. Client(c) \in Procs
    BY Names
  <2> HIDE DEF e, f, g
  <2>4. CASE st = "FaRM"
    BY <2>1, <2>3, <2>4 DEF Script
  <2>5. CASE st = "HydraDB"
    BY <2>2, <2>3, <2>5 DEF Script
  <2> QED
    BY <2>4, <2>5
<1>2. /\ e \in Seq(Calls) /\ Len(e) = 2
      /\ e[1] = Step("init_ctx", 0, {"rc"}) /\ e[2] = Step("register", 0, {"resp", "req"})
  <2>1. /\ Step("init_ctx", 0, {"rc"}) \in Calls
        /\ Step("register", 0, {"resp", "req"}) \in Calls
    BY StepIsCall DEF CallNames, Vias, Places
  <2> QED
    BY <2>1, Calls2Joined
<1>3. /\ f \in Seq(Calls) /\ Len(f) = NumServers * 6
      /\ \A i \in Servers, k \in 1 .. 6 : f[6 * i + k] = FarmVisit(i)[k]
  BY FarmVisits
<1>4. /\ g \in Seq(Calls) /\ Len(g) = NumServers * 2
      /\ \A i \in Servers, k \in 1 .. 2 : g[2 * i + k] = FarmConnect(i)[k]
  BY FarmLinks
<1> HIDE DEF e, f, g
<1>5. /\ f \o g \in Seq(Calls) /\ Len(f \o g) = Len(f) + Len(g)
      /\ \A k \in 1 .. Len(f) : (f \o g)[k] = f[k]
      /\ \A k \in 1 .. Len(g) : (f \o g)[Len(f) + k] = g[k]
  BY <1>3, <1>4, Joined
<1> DEFINE h == f \o g
           s == e \o h
<1> HIDE DEF h
<1>6. /\ s \in Seq(Calls) /\ Len(s) = Len(e) + Len(h)
      /\ \A k \in 1 .. Len(e) : s[k] = e[k]
      /\ \A k \in 1 .. Len(h) : s[Len(e) + k] = h[k]
  <2>1. h \in Seq(Calls)
    BY <1>5 DEF h
  <2> QED
    BY <1>2, <2>1, Joined
<1> HIDE DEF s
<1>7. Len(h) = NumServers * 8
  BY <1>3, <1>4, <1>5 DEF h
<1>8. ASSUME NEW i \in Servers, NEW k \in 1 .. 6
      PROVE  s[2 + 6 * i + k] = FarmVisit(i)[k]
  <2>1. 6 * i + k \in 1 .. NumServers * 6 /\ 6 * i + k \in 1 .. NumServers * 8
        /\ 2 + 6 * i + k = 2 + (6 * i + k)
    OBVIOUS
  <2>2. h[6 * i + k] = f[6 * i + k]
    BY <1>3, <1>5, <2>1 DEF h
  <2>3. s[2 + (6 * i + k)] = h[6 * i + k]
    BY <1>2, <1>6, <1>7, <2>1
  <2> QED
    BY <1>3, <2>1, <2>2, <2>3
<1>9. ASSUME NEW i \in Servers, NEW k \in 1 .. 2
      PROVE  s[2 + 6 * NumServers + 2 * i + k] = FarmConnect(i)[k]
  <2>1. /\ 2 * i + k \in 1 .. NumServers * 2 /\ NumServers * 6 + (2 * i + k) \in 1 .. NumServers * 8
        /\ 2 + 6 * NumServers + 2 * i + k = 2 + (NumServers * 6 + (2 * i + k))
    OBVIOUS
  <2>2. h[NumServers * 6 + (2 * i + k)] = g[2 * i + k]
    BY <1>3, <1>4, <1>5, <2>1 DEF h
  <2>3. s[2 + (NumServers * 6 + (2 * i + k))] = h[NumServers * 6 + (2 * i + k)]
    BY <1>2, <1>6, <1>7, <2>1
  <2> QED
    BY <1>4, <2>1, <2>2, <2>3
<1>10. Script[st][Client(c)] = s
  BY <1>1 DEF s, h
<1>11. Len(s) = 2 + NumServers * 8
  BY <1>2, <1>6, <1>7
<1>12. s[1] = e[1] /\ s[2] = e[2]
  BY <1>2, <1>6
<1> QED
  BY <1>2, <1>6, <1>8, <1>9, <1>10, <1>11, <1>12

\* The script of a client of Pilaf, call by call.
LEMMA PilafClientScript ==
    ASSUME NEW c \in Clients
    PROVE  LET s == Script["Pilaf"][Client(c)]
           IN  /\ s \in Seq(Calls) /\ Len(s) = 4 + NumServers * 10
               /\ s[1] = Step("init_ctx", 0, Vias)
               /\ s[2] = Step("register", 0, {"resp", "req"})
               /\ \A i \in Servers, k \in 1 .. 6 : s[2 + 6 * i + k] = PilafVisit(i)[k]
               /\ \A i \in Servers, k \in 1 .. 4 :
                    s[2 + 6 * NumServers + 4 * i + k] = ConnectBoth(i)[k]
               /\ s[3 + 10 * NumServers] = Step("post_recvs", {ServerOf(c)}, "uc")
               /\ s[4 + 10 * NumServers] = Step("await", ServerOf(c), "uc")
<1> DEFINE e == <<Step("init_ctx", 0, Vias)>> \o <<Step("register", 0, {"resp", "req"})>>
           f == PilafClientExch
           g == ForEach(NumServers, ConnectBoth)
           t == <<Step("post_recvs", {ServerOf(c)}, "uc"), Step("await", ServerOf(c), "uc")>>
<1>1. Script["Pilaf"][Client(c)] = (e \o (f \o g)) \o t
  <2>1. PilafMain(Client(c)) = (e \o (f \o g)) \o t
    BY Names DEF PilafMain, PilafInitCtx, PilafSetup, PilafStart
  <2>2. Client(c) \in Procs
    BY Names
  <2> HIDE DEF e, f, g, t
  <2> QED
    BY <2>1, <2>2 DEF Script
<1>2. /\ e \in Seq(Calls) /\ Len(e) = 2
      /\ e[1] = Step("init_ctx", 0, Vias) /\ e[2] = Step("register", 0, {"resp", "req"})
  <2>1. /\ Step("init_ctx", 0, Vias) \in Calls
        /\ Step("register", 0, {"resp", "req"}) \in Calls
    BY StepIsCall DEF CallNames, Vias, Places
  <2> QED
    BY <2>1, Calls2Joined
<1>2a. /\ t \in Seq(Calls) /\ Len(t) = 2
       /\ t[1] = Step("post_recvs", {ServerOf(c)}, "uc") /\ t[2] = Step("await", ServerOf(c), "uc")
  <2>1. ServerOf(c) \in Nat
    BY Division
  <2>2. /\ Step("post_recvs", {ServerOf(c)}, "uc") \in Calls
        /\ Step("await", ServerOf(c), "uc") \in Calls
    BY <2>1, StepIsCall DEF CallNames, Vias
  <2>3. t \in Seq(Calls) /\ Len(t) = 2
    BY <2>2, Calls2
  <2> QED
    BY <2>3
<1>3. /\ f \in Seq(Calls) /\ Len(f) = NumServers * 6
      /\ \A i \in Servers, k \in 1 .. 6 : f[6 * i + k] = PilafVisit(i)[k]
  BY PilafVisits
<1>4. /\ g \in Seq(Calls) /\ Len(g) = NumServers * 4
      /\ \A i \in Servers, k \in 1 .. 4 : g[4 * i + k] = ConnectBoth(i)[k]
  BY PilafLinks
<1> HIDE DEF e, f, g, t
<1>5. /\ f \o g \in Seq(Calls) /\ Len(f \o g) = Len(f) + Len(g)
      /\ \A k \in 1 .. Len(f) : (f \o g)[k] = f[k]
      /\ \A k \in 1 .. Len(g) : (f \o g)[Len(f) + k] = g[k]
  BY <1>3, <1>4, Joined
<1> DEFINE h == f \o g
           r == e \o h
           s == r \o t
<1> HIDE DEF h
<1>6. /\ r \in Seq(Calls) /\ Len(r) = Len(e) + Len(h)
      /\ \A k \in 1 .. Len(e) : r[k] = e[k]
      /\ \A k \in 1 .. Len(h) : r[Len(e) + k] = h[k]
  <2>1. h \in Seq(Calls)
    BY <1>5 DEF h
  <2> QED
    BY <1>2, <2>1, Joined
<1> HIDE DEF r
<1>6a. /\ s \in Seq(Calls) /\ Len(s) = Len(r) + Len(t)
       /\ \A k \in 1 .. Len(r) : s[k] = r[k]
       /\ \A k \in 1 .. Len(t) : s[Len(r) + k] = t[k]
  BY <1>2a, <1>6, Joined
<1> HIDE DEF s
<1>7. Len(h) = NumServers * 10
  BY <1>3, <1>4, <1>5 DEF h
<1>7a. Len(r) = 2 + NumServers * 10
  BY <1>2, <1>6, <1>7
<1>8. ASSUME NEW i \in Servers, NEW k \in 1 .. 6
      PROVE  s[2 + 6 * i + k] = PilafVisit(i)[k]
  <2>1. 6 * i + k \in 1 .. NumServers * 6 /\ 6 * i + k \in 1 .. NumServers * 10
        /\ 2 + 6 * i + k = 2 + (6 * i + k) /\ 2 + (6 * i + k) \in 1 .. 2 + NumServers * 10
    OBVIOUS
  <2>2. h[6 * i + k] = f[6 * i + k]
    BY <1>3, <1>5, <2>1 DEF h
  <2>3. r[2 + (6 * i + k)] = h[6 * i + k]
    BY <1>2, <1>6, <1>7, <2>1
  <2>4. s[2 + (6 * i + k)] = r[2 + (6 * i + k)]
    BY <1>6a, <1>7a, <2>1
  <2> QED
    BY <1>3, <2>1, <2>2, <2>3, <2>4
<1>9. ASSUME NEW i \in Servers, NEW k \in 1 .. 4
      PROVE  s[2 + 6 * NumServers + 4 * i + k] = ConnectBoth(i)[k]
  <2>1. /\ 4 * i + k \in 1 .. NumServers * 4 /\ NumServers * 6 + (4 * i + k) \in 1 .. NumServers * 10
        /\ 2 + 6 * NumServers + 4 * i + k = 2 + (NumServers * 6 + (4 * i + k))
        /\ 2 + (NumServers * 6 + (4 * i + k)) \in 1 .. 2 + NumServers * 10
    OBVIOUS
  <2>2. h[NumServers * 6 + (4 * i + k)] = g[4 * i + k]
    BY <1>3, <1>4, <1>5, <2>1 DEF h
  <2>3. r[2 + (NumServers * 6 + (4 * i + k))] = h[NumServers * 6 + (4 * i + k)]
    BY <1>2, <1>6, <1>7, <2>1
  <2>4. s[2 + (NumServers * 6 + (4 * i + k))] = r[2 + (NumServers * 6 + (4 * i + k))]
    BY <1>6a, <1>7a, <2>1
  <2> QED
    BY <1>4, <2>1, <2>2, <2>3, <2>4
<1>10. Script["Pilaf"][Client(c)] = s
  BY <1>1 DEF s, r, h
<1>11. Len(s) = 4 + NumServers * 10
  BY <1>2a, <1>6a, <1>7a
<1>12. s[1] = e[1] /\ s[2] = e[2]
  <2>1. r[1] = e[1] /\ r[2] = e[2]
    BY <1>2, <1>6
  <2>2. s[1] = r[1] /\ s[2] = r[2]
    BY <1>6a, <1>7a
  <2> QED
    BY <2>1, <2>2
<1>13. s[3 + 10 * NumServers] = t[1] /\ s[4 + 10 * NumServers] = t[2]
  <2>1. /\ 3 + 10 * NumServers = (2 + NumServers * 10) + 1
        /\ 4 + 10 * NumServers = (2 + NumServers * 10) + 2
    OBVIOUS
  <2>2. s[(2 + NumServers * 10) + 1] = t[1] /\ s[(2 + NumServers * 10) + 2] = t[2]
    BY <1>2a, <1>6a, <1>7a
  <2> QED
    BY <2>1, <2>2
<1> QED
  BY <1>2, <1>2a, <1>6a, <1>8, <1>9, <1>10, <1>11, <1>12, <1>13

\* Three sequences of calls in a row.
LEMMA Grouping ==
    ASSUME NEW x \in Seq(Calls), NEW y \in Seq(Calls), NEW z \in Seq(Calls)
    PROVE  x \o y \in Seq(Calls) /\ (x \o y) \o z = x \o (y \o z)
<1>1. x \o y \in Seq(Calls)
  OBVIOUS
<1>2. (x \o y) \o z = x \o (y \o z)
  BY ONLY ConcatAssociative, x \in Seq(Calls), y \in Seq(Calls), z \in Seq(Calls)
<1> QED
  BY <1>1, <1>2

\* Concatenation under a name, so that a step need not look into it.
Cat(u, v) == u \o v

\* The sequences of calls.
CallSeqs == Seq(Calls)

\* A script does not depend on the order in which its parts are put together.
LEMMA Regrouped ==
    ASSUME NEW x \in CallSeqs, NEW l \in CallSeqs, NEW r \in CallSeqs,
           NEW c \in CallSeqs, NEW d \in CallSeqs
    PROVE  /\ Cat(x, Cat(Cat(l, r), c)) = Cat(Cat(Cat(x, l), r), c)
           /\ Cat(x, Cat(Cat(Cat(l, r), c), d)) = Cat(Cat(Cat(x, l), r), Cat(c, d))
           /\ Cat(Cat(x, Cat(Cat(l, r), c)), d) = Cat(Cat(Cat(x, l), r), Cat(c, d))
<1>2. \A u, v, w \in CallSeqs : Cat(u, v) \in CallSeqs /\ Cat(Cat(u, v), w) = Cat(u, Cat(v, w))
  BY Grouping DEF Cat, CallSeqs
<1>3. Cat(l, r) \in CallSeqs /\ Cat(Cat(l, r), c) \in CallSeqs /\ Cat(c, d) \in CallSeqs
  BY <1>2
<1>4. Cat(x, Cat(l, r)) = Cat(Cat(x, l), r)
  BY <1>2
<1>5. Cat(x, Cat(Cat(l, r), c)) = Cat(Cat(x, Cat(l, r)), c)
  BY <1>2, <1>3
<1>6. Cat(Cat(Cat(l, r), c), d) = Cat(Cat(l, r), Cat(c, d))
  BY <1>2, <1>3
<1>7. Cat(x, Cat(Cat(l, r), Cat(c, d))) = Cat(Cat(x, Cat(l, r)), Cat(c, d))
  BY <1>2, <1>3
<1>8. Cat(Cat(x, Cat(Cat(l, r), c)), d) = Cat(x, Cat(Cat(Cat(l, r), c), d))
  BY <1>2, <1>3
<1> QED
  BY <1>4, <1>5, <1>6, <1>7, <1>8

\* The places of the calls of a sequence s of three parts.
LaidOut(s, e, l, t) ==
    /\ s \in Seq(Calls) /\ Len(s) = Len(e) + Len(l) + Len(t)
    /\ \A k \in 1 .. Len(e) : s[k] = e[k]
    /\ \A k \in 1 .. Len(l) : s[Len(e) + k] = l[k]
    /\ \A k \in 1 .. Len(t) : s[Len(e) + Len(l) + k] = t[k]

\* Three parts one after the other are laid out in this way.
LEMMA ThreeParts ==
    ASSUME NEW e \in CallSeqs, NEW l \in CallSeqs, NEW t \in CallSeqs
    PROVE  LaidOut(Cat(Cat(e, l), t), e, l, t)
<1>0. e \in Seq(Calls) /\ l \in Seq(Calls) /\ t \in Seq(Calls)
  BY DEF CallSeqs
<1> DEFINE a == e \o l
           s == a \o t
<1>1. /\ a \in Seq(Calls) /\ Len(a) = Len(e) + Len(l)
      /\ \A k \in 1 .. Len(e) : a[k] = e[k]
      /\ \A k \in 1 .. Len(l) : a[Len(e) + k] = l[k]
  BY <1>0, Joined
<1> HIDE DEF a
<1>2. /\ s \in Seq(Calls) /\ Len(s) = Len(a) + Len(t)
      /\ \A k \in 1 .. Len(a) : s[k] = a[k]
      /\ \A k \in 1 .. Len(t) : s[Len(a) + k] = t[k]
  BY <1>0, <1>1, Joined
<1> HIDE DEF s
<1>3. Len(e) \in Nat /\ Len(l) \in Nat /\ Len(t) \in Nat
  BY <1>0
<1>4. Len(s) = Len(e) + Len(l) + Len(t)
  BY <1>1, <1>2
<1>5. \A k \in 1 .. Len(e) : s[k] = e[k]
  BY <1>1, <1>2, <1>3
<1>6. \A k \in 1 .. Len(l) : s[Len(e) + k] = l[k]
  <2> TAKE k \in 1 .. Len(l)
  <2>1. Len(e) + k \in 1 .. Len(a)
    BY <1>1, <1>3
  <2> QED
    BY <1>1, <1>2, <2>1
<1>7. \A k \in 1 .. Len(t) : s[Len(e) + Len(l) + k] = t[k]
  BY <1>1, <1>2
<1> QED
  <2>1. LaidOut(s, e, l, t)
    BY <1>2, <1>4, <1>5, <1>6, <1>7 DEF LaidOut
  <2> QED
    BY <2>1 DEF s, a, Cat

\* Three calls, one after the other.
LEMMA Calls3Joined ==
    ASSUME NEW a \in Calls, NEW b \in Calls, NEW c \in Calls
    PROVE  LET s == (<<a>> \o <<b>>) \o <<c>>
           IN  s \in Seq(Calls) /\ Len(s) = 3 /\ s[1] = a /\ s[2] = b /\ s[3] = c
<1> DEFINE f == <<a>> \o <<b>>
           g == <<c>>
<1>1. /\ f \in Seq(Calls) /\ Len(f) = 2 /\ g \in Seq(Calls) /\ Len(g) = 1
      /\ f[1] = a /\ f[2] = b /\ g[1] = c
  BY Calls1, Calls2Joined
<1> HIDE DEF f, g
<1>2a. /\ f \o g \in Seq(Calls) /\ Len(f \o g) = Len(f) + Len(g)
       /\ \A k \in 1 .. Len(f) : (f \o g)[k] = f[k]
       /\ \A k \in 1 .. Len(g) : (f \o g)[Len(f) + k] = g[k]
  BY <1>1, Joined
<1>2. f \o g \in Seq(Calls) /\ Len(f \o g) = Len(f) + Len(g)
      /\ (f \o g)[1] = f[1] /\ (f \o g)[2] = f[2] /\ (f \o g)[2 + 1] = g[1]
  BY <1>1, <1>2a
<1> QED
  BY <1>1, <1>2 DEF f, g

\* The script of a server of FaRM, call by call.
LEMMA FarmServerScript ==
    ASSUME NEW s \in Servers
    PROVE  LET scr == Script["FaRM"][Server(s)]
           IN  /\ scr \in Seq(Calls) /\ Len(scr) = 5 + NumClients * 8
               /\ scr[1] = Step("init_ctx", 0, {"rc"})
               /\ scr[2] = Step("register", 0, {"req", "hash"})
               /\ scr[3] = Step("listen", 0, "")
               /\ \A j \in Clients, k \in 1 .. 8 : scr[3 + (8 * j + k)] = FarmServe(j)[k]
               /\ scr[4 + NumClients * 8] = Step("close", 0, "")
               /\ scr[5 + NumClients * 8] = Step("load", 0, "")
<1> DEFINE a == Step("init_ctx", 0, {"rc"})
           b == Step("register", 0, {"req", "hash"})
           c == Step("listen", 0, "")
           d == Step("close", 0, "")
           f == Step("load", 0, "")
           r == ForEach(NumClients, FarmServe)
           e == (<<a>> \o <<b>>) \o <<c>>
           t == <<d>> \o <<f>>
<1>1. a \in Calls /\ b \in Calls /\ c \in Calls /\ d \in Calls /\ f \in Calls
  BY StepIsCall DEF CallNames, Vias, Places
<1>2. /\ r \in Seq(Calls) /\ Len(r) = NumClients * 8
      /\ \A j \in Clients, k \in 1 .. 8 : r[8 * j + k] = FarmServe(j)[k]
  BY FarmServes
<1>3. Script["FaRM"][Server(s)] = (<<a>> \o <<b>>) \o (((<<c>> \o r) \o <<d>>) \o <<f>>)
  <2>1. FarmMain(Server(s)) = (<<a>> \o <<b>>) \o (((<<c>> \o r) \o <<d>>) \o <<f>>)
    BY Names DEF FarmMain, FarmInitCtx, FarmSetup, FarmServerExch, Serving
  <2>2. Server(s) \in Procs
    BY Names
  <2> HIDE DEF a, b, c, d, f, r
  <2> QED
    BY <2>1, <2>2 DEF Script
<1> HIDE DEF a, b, c, d, f, r
<1>4. Script["FaRM"][Server(s)] = (e \o r) \o t
  <2>1. <<a>> \o <<b>> \in Seq(Calls)
    BY <1>1, Calls2Joined
  <2>2. <<c>> \in Seq(Calls) /\ <<d>> \in Seq(Calls) /\ <<f>> \in Seq(Calls)
    BY <1>1, Calls1
  <2> QED
    <3> DEFINE x == <<a>> \o <<b>>
               l == <<c>>
               y == <<d>>
               z == <<f>>
    <3>1. /\ x \in CallSeqs /\ l \in CallSeqs /\ r \in CallSeqs
          /\ y \in CallSeqs /\ z \in CallSeqs
      BY <1>2, <2>1, <2>2 DEF CallSeqs
    <3>2. Script["FaRM"][Server(s)] = Cat(x, Cat(Cat(Cat(l, r), y), z))
      BY <1>3 DEF Cat
    <3> HIDE DEF x, l, y, z
    <3>3. Cat(x, Cat(Cat(Cat(l, r), y), z)) = Cat(Cat(Cat(x, l), r), Cat(y, z))
      BY ONLY <3>1, Regrouped
    <3> QED
      BY <3>2, <3>3 DEF x, l, y, z, Cat
<1>5. e \in Seq(Calls) /\ Len(e) = 3 /\ e[1] = a /\ e[2] = b /\ e[3] = c
  BY <1>1, Calls3Joined
<1>6. t \in Seq(Calls) /\ Len(t) = 2 /\ t[1] = d /\ t[2] = f
  BY <1>1, Calls2Joined
<1> HIDE DEF e, t
<1> DEFINE scr == Cat(Cat(e, r), t)
<1>7. /\ scr \in Seq(Calls) /\ Len(scr) = 3 + NumClients * 8 + (2)
      /\ \A k \in 1 .. 3 : scr[k] = e[k]
      /\ \A k \in 1 .. NumClients * 8 : scr[3 + k] = r[k]
      /\ \A k \in 1 .. 2 : scr[3 + NumClients * 8 + k] = t[k]
  <2>1. /\ e \in Seq(Calls) /\ r \in Seq(Calls) /\ t \in Seq(Calls)
        /\ Len(e) = 3 /\ Len(r) = NumClients * 8 /\ Len(t) = 2
    BY <1>2, <1>5, <1>6
  <2>2. e \in CallSeqs /\ r \in CallSeqs /\ t \in CallSeqs
    BY <2>1 DEF CallSeqs
  <2>3. LaidOut(scr, e, r, t)
    BY ONLY <2>2, ThreeParts DEF scr
  <2> HIDE DEF scr
  <2> QED
    BY ONLY <2>1, <2>3 DEF LaidOut
<1> HIDE DEF scr
<1>8. Len(scr) = 5 + NumClients * 8
  BY <1>7
<1>9. scr[1] = a /\ scr[2] = b /\ scr[3] = c
  BY <1>5, <1>7
<1>10. ASSUME NEW j \in Clients, NEW k \in 1 .. 8
       PROVE  scr[3 + (8 * j + k)] = FarmServe(j)[k]
  <2>1. 8 * j + k \in 1 .. NumClients * 8
    OBVIOUS
  <2>2. r[8 * j + k] = FarmServe(j)[k]
    BY <1>2
  <2>3. scr[3 + (8 * j + k)] = r[8 * j + k]
    BY ONLY <1>7, <2>1
  <2> QED
    BY <2>2, <2>3
<1>11. scr[4 + NumClients * 8] = d /\ scr[5 + NumClients * 8] = f
  <2>1. scr[3 + NumClients * 8 + 1] = d /\ scr[3 + NumClients * 8 + 2] = f
    <3>1. t[1] = d /\ t[2] = f
      BY <1>6
    <3> QED
      BY ONLY <1>7, <3>1
  <2>2. 3 + NumClients * 8 + 1 = 4 + NumClients * 8 /\ 3 + NumClients * 8 + 2 = 5 + NumClients * 8
    OBVIOUS
  <2> QED
    BY <2>1, <2>2
<1>12. Script["FaRM"][Server(s)] = scr
  BY <1>4 DEF scr, Cat
<1> QED
  BY <1>7, <1>8, <1>9, <1>10, <1>11, <1>12 DEF a, b, c, d, f

\* The script of a server of HydraDB, call by call.
LEMMA HydraServerScript ==
    ASSUME NEW s \in Servers
    PROVE  LET scr == Script["HydraDB"][Server(s)]
           IN  /\ scr \in Seq(Calls) /\ Len(scr) = 6 + NumClients * 8
               /\ scr[1] = Step("init_ctx", 0, {"rc"})
               /\ scr[2] = Step("register", 0, {"req"})
               /\ scr[3] = Step("load", 0, "")
               /\ scr[4] = Step("register", 0, {"hash"})
               /\ scr[5] = Step("listen", 0, "")
               /\ \A j \in Clients, k \in 1 .. 8 : scr[5 + (8 * j + k)] = FarmServe(j)[k]
               /\ scr[6 + NumClients * 8] = Step("close", 0, "")
<1> DEFINE a == Step("init_ctx", 0, {"rc"})
           b == Step("register", 0, {"req"})
           f == Step("load", 0, "")
           g == Step("register", 0, {"hash"})
           c == Step("listen", 0, "")
           d == Step("close", 0, "")
           r == ForEach(NumClients, FarmServe)
           x == <<a>> \o <<b, f, g>>
           e == x \o <<c>>
           t == <<d>>
<1>1. /\ a \in Calls /\ b \in Calls /\ c \in Calls /\ d \in Calls /\ f \in Calls /\ g \in Calls
  BY StepIsCall DEF CallNames, Vias, Places
<1>2. /\ r \in Seq(Calls) /\ Len(r) = NumClients * 8
      /\ \A j \in Clients, k \in 1 .. 8 : r[8 * j + k] = FarmServe(j)[k]
  BY FarmServes
<1>3. Script["HydraDB"][Server(s)] = x \o ((<<c>> \o r) \o <<d>>)
  <2>1. HydraMain(Server(s)) = x \o ((<<c>> \o r) \o <<d>>)
    BY Names, HydraIsFarm DEF HydraMain, HydraInitCtx, HydraSetup, FarmServerExch, Serving
  <2>2. Server(s) \in Procs
    BY Names
  <2> HIDE DEF a, b, c, d, f, g, r
  <2> QED
    BY <2>1, <2>2 DEF Script
<1> HIDE DEF a, b, c, d, f, g, r
<1>5. /\ x \in Seq(Calls) /\ Len(x) = 4 /\ x[1] = a /\ x[2] = b /\ x[3] = f /\ x[4] = g
  <2> DEFINE y == <<a>>
             z == <<b, f, g>>
  <2>1. /\ y \in Seq(Calls) /\ Len(y) = 1 /\ z \in Seq(Calls) /\ Len(z) = 3
        /\ y[1] = a /\ z[1] = b /\ z[2] = f /\ z[3] = g
    BY <1>1, Calls1, Calls3
  <2> HIDE DEF y, z
  <2>2a. /\ y \o z \in Seq(Calls) /\ Len(y \o z) = Len(y) + Len(z)
         /\ \A k \in 1 .. Len(y) : (y \o z)[k] = y[k]
         /\ \A k \in 1 .. Len(z) : (y \o z)[Len(y) + k] = z[k]
    BY <2>1, Joined
  <2>2. /\ y \o z \in Seq(Calls) /\ Len(y \o z) = Len(y) + Len(z)
        /\ (y \o z)[1] = y[1] /\ (y \o z)[1 + 1] = z[1]
        /\ (y \o z)[1 + 2] = z[2] /\ (y \o z)[1 + 3] = z[3]
    BY <2>1, <2>2a
  <2> QED
    BY <2>1, <2>2 DEF y, z
<1> HIDE DEF x
<1>4. Script["HydraDB"][Server(s)] = (e \o r) \o t
  <2>2. <<c>> \in Seq(Calls) /\ <<d>> \in Seq(Calls)
    BY <1>1, Calls1
  <2> QED
    <3> DEFINE l == <<c>>
               y == <<d>>
    <3>1. x \in CallSeqs /\ l \in CallSeqs /\ r \in CallSeqs /\ y \in CallSeqs
      BY <1>2, <1>5, <2>2 DEF CallSeqs
    <3>2. Script["HydraDB"][Server(s)] = Cat(x, Cat(Cat(l, r), y))
      BY <1>3 DEF Cat
    <3> HIDE DEF l, y
    <3>3. Cat(x, Cat(Cat(l, r), y)) = Cat(Cat(Cat(x, l), r), y)
      BY ONLY <3>1, Regrouped
    <3> QED
      BY <3>2, <3>3 DEF l, y, Cat
<1>6. t \in Seq(Calls) /\ Len(t) = 1 /\ t[1] = d
  BY <1>1, Calls1
<1>6a. /\ e \in Seq(Calls) /\ Len(e) = 5
       /\ e[1] = a /\ e[2] = b /\ e[3] = f /\ e[4] = g /\ e[5] = c
  <2> DEFINE y == <<c>>
  <2>1. y \in Seq(Calls) /\ Len(y) = 1 /\ y[1] = c
    BY <1>1, Calls1
  <2> HIDE DEF y
  <2>2a. /\ x \o y \in Seq(Calls) /\ Len(x \o y) = Len(x) + Len(y)
         /\ \A k \in 1 .. Len(x) : (x \o y)[k] = x[k]
         /\ \A k \in 1 .. Len(y) : (x \o y)[Len(x) + k] = y[k]
    BY <1>5, <2>1, Joined
  <2>2. /\ x \o y \in Seq(Calls) /\ Len(x \o y) = Len(x) + Len(y)
        /\ (x \o y)[1] = x[1] /\ (x \o y)[2] = x[2] /\ (x \o y)[3] = x[3] /\ (x \o y)[4] = x[4]
        /\ (x \o y)[4 + 1] = y[1]
    BY <1>5, <2>1, <2>2a
  <2> QED
    BY <1>5, <2>1, <2>2 DEF y
<1> HIDE DEF e, t
<1> DEFINE scr == Cat(Cat(e, r), t)
<1>7. /\ scr \in Seq(Calls) /\ Len(scr) = 5 + NumClients * 8 + (1)
      /\ \A k \in 1 .. 5 : scr[k] = e[k]
      /\ \A k \in 1 .. NumClients * 8 : scr[5 + k] = r[k]
      /\ \A k \in 1 .. 1 : scr[5 + NumClients * 8 + k] = t[k]
  <2>1. /\ e \in Seq(Calls) /\ r \in Seq(Calls) /\ t \in Seq(Calls)
        /\ Len(e) = 5 /\ Len(r) = NumClients * 8 /\ Len(t) = 1
    BY <1>2, <1>6, <1>6a
  <2>2. e \in CallSeqs /\ r \in CallSeqs /\ t \in CallSeqs
    BY <2>1 DEF CallSeqs
  <2>3. LaidOut(scr, e, r, t)
    BY ONLY <2>2, ThreeParts DEF scr
  <2> HIDE DEF scr
  <2> QED
    BY ONLY <2>1, <2>3 DEF LaidOut
<1> HIDE DEF scr
<1>8. Len(scr) = 6 + NumClients * 8
  BY <1>7
<1>9. scr[1] = a /\ scr[2] = b /\ scr[3] = f /\ scr[4] = g /\ scr[5] = c
  BY <1>6a, <1>7
<1>10. ASSUME NEW j \in Clients, NEW k \in 1 .. 8
       PROVE  scr[5 + (8 * j + k)] = FarmServe(j)[k]
  <2>1. 8 * j + k \in 1 .. NumClients * 8
    OBVIOUS
  <2>2. r[8 * j + k] = FarmServe(j)[k]
    BY <1>2
  <2>3. scr[5 + (8 * j + k)] = r[8 * j + k]
    BY ONLY <1>7, <2>1
  <2> QED
    BY <2>2, <2>3
<1>11. scr[6 + NumClients * 8] = d
  <2>1. scr[5 + NumClients * 8 + 1] = d
    <3>1. t[1] = d
      BY <1>6
    <3> QED
      BY ONLY <1>7, <3>1
  <2>2. 5 + NumClients * 8 + 1 = 6 + NumClients * 8
    OBVIOUS
  <2> QED
    BY <2>1, <2>2
<1>12. Script["HydraDB"][Server(s)] = scr
  BY <1>4 DEF scr, Cat
<1> QED
  BY <1>7, <1>8, <1>9, <1>10, <1>11, <1>12 DEF a, b, c, d, f, g

\* The script of a server of Pilaf, call by call.
LEMMA PilafServerScript ==
    ASSUME NEW s \in Servers
    PROVE  LET scr == Script["Pilaf"][Server(s)]
           IN  /\ scr \in Seq(Calls) /\ Len(scr) = 5 + NumClients * 10 + PerServer
               /\ scr[1] = Step("init_ctx", 0, Vias)
               /\ scr[2] = Step("register", 0, {"request", "req"})
               /\ scr[3] = Step("listen", 0, "")
               /\ \A j \in Clients, k \in 1 .. 10 : scr[3 + (10 * j + k)] = PilafServe(j)[k]
               /\ scr[4 + NumClients * 10] = Step("close", 0, "")
               /\ scr[5 + NumClients * 10] = Step("post_recvs", Assigned(s), "uc")
               /\ \A k \in 1 .. PerServer :
                    scr[5 + NumClients * 10 + k] = Step("alert", PerServer * s + (k - 1), "uc")
<1> DEFINE a == Step("init_ctx", 0, Vias)
           b == Step("register", 0, {"request", "req"})
           c == Step("listen", 0, "")
           d == Step("close", 0, "")
           f == Step("post_recvs", Assigned(s), "uc")
           g == ForEach(PerServer, LAMBDA k : <<Step("alert", PerServer * Server(s)[2] + k, "uc")>>)
           r == ForEach(NumClients, PilafServe)
           e == (<<a>> \o <<b>>) \o <<c>>
           t == <<d>> \o (<<f>> \o g)
<1>1. a \in Calls /\ b \in Calls /\ c \in Calls /\ d \in Calls /\ f \in Calls
  <2>1. Assigned(s) \in SUBSET Nat
    BY Division
  <2> QED
    BY <2>1, StepIsCall DEF CallNames, Vias, Places
<1>2. /\ r \in Seq(Calls) /\ Len(r) = NumClients * 10
      /\ \A j \in Clients, k \in 1 .. 10 : r[10 * j + k] = PilafServe(j)[k]
  BY PilafServes
<1>2a. /\ g \in Seq(Calls) /\ Len(g) = PerServer
       /\ \A k \in 1 .. PerServer : g[k] = Step("alert", PerServer * s + (k - 1), "uc")
  BY PilafAlerts
<1>3. Script["Pilaf"][Server(s)]
        = ((<<a>> \o <<b>>) \o ((<<c>> \o r) \o <<d>>)) \o (<<f>> \o g)
  <2>1. PilafMain(Server(s)) = ((<<a>> \o <<b>>) \o ((<<c>> \o r) \o <<d>>)) \o (<<f>> \o g)
    BY Names DEF PilafMain, PilafInitCtx, PilafSetup, PilafServerExch, Serving, PilafStart
  <2>2. Server(s) \in Procs
    BY Names
  <2> HIDE DEF a, b, c, d, f, g, r
  <2> QED
    BY <2>1, <2>2 DEF Script
<1> HIDE DEF a, b, c, d, f, g, r
<1>2b. /\ <<f>> \o g \in Seq(Calls) /\ Len(<<f>> \o g) = 1 + PerServer
       /\ (<<f>> \o g)[1] = f /\ \A k \in 1 .. PerServer : (<<f>> \o g)[1 + k] = g[k]
  <2> DEFINE y == <<f>>
  <2>1. y \in Seq(Calls) /\ Len(y) = 1 /\ y[1] = f
    BY <1>1, Calls1
  <2> HIDE DEF y
  <2>2. /\ y \o g \in Seq(Calls) /\ Len(y \o g) = Len(y) + Len(g)
        /\ \A k \in 1 .. Len(y) : (y \o g)[k] = y[k]
        /\ \A k \in 1 .. Len(g) : (y \o g)[Len(y) + k] = g[k]
    BY <1>2a, <2>1, Joined
  <2>3. y \o g \in Seq(Calls) /\ Len(y \o g) = 1 + PerServer
        /\ (y \o g)[1] = f /\ \A k \in 1 .. PerServer : (y \o g)[1 + k] = g[k]
    BY <1>2a, <2>1, <2>2
  <2> QED
    BY <2>3 DEF y
<1>4. Script["Pilaf"][Server(s)] = (e \o r) \o t
  <2>1. <<a>> \o <<b>> \in Seq(Calls)
    BY <1>1, Calls2Joined
  <2>2. <<c>> \in Seq(Calls) /\ <<d>> \in Seq(Calls)
    BY <1>1, Calls1
  <2> QED
    <3> DEFINE x == <<a>> \o <<b>>
               l == <<c>>
               y == <<d>>
               z == <<f>> \o g
    <3>1. /\ x \in CallSeqs /\ l \in CallSeqs /\ r \in CallSeqs
          /\ y \in CallSeqs /\ z \in CallSeqs
      BY <1>2, <1>2b, <2>1, <2>2 DEF CallSeqs
    <3>2. Script["Pilaf"][Server(s)] = Cat(Cat(x, Cat(Cat(l, r), y)), z)
      BY <1>3 DEF Cat
    <3> HIDE DEF x, l, y, z
    <3>3. Cat(Cat(x, Cat(Cat(l, r), y)), z) = Cat(Cat(Cat(x, l), r), Cat(y, z))
      BY ONLY <3>1, Regrouped
    <3> QED
      BY <3>2, <3>3 DEF x, l, y, z, Cat
<1>5. e \in Seq(Calls) /\ Len(e) = 3 /\ e[1] = a /\ e[2] = b /\ e[3] = c
  BY <1>1, Calls3Joined
<1>6. /\ t \in Seq(Calls) /\ Len(t) = 2 + PerServer /\ t[1] = d /\ t[2] = f
      /\ \A k \in 1 .. PerServer : t[2 + k] = g[k]
  <2> DEFINE y == <<d>>
             z == <<f>> \o g
  <2>1. y \in Seq(Calls) /\ Len(y) = 1 /\ y[1] = d
    BY <1>1, Calls1
  <2>2. /\ z \in Seq(Calls) /\ Len(z) = 1 + PerServer
        /\ z[1] = f /\ \A k \in 1 .. PerServer : z[1 + k] = g[k]
    BY <1>2b
  <2> HIDE DEF y, z
  <2>3. /\ y \o z \in Seq(Calls) /\ Len(y \o z) = Len(y) + Len(z)
        /\ \A k \in 1 .. Len(y) : (y \o z)[k] = y[k]
        /\ \A k \in 1 .. Len(z) : (y \o z)[Len(y) + k] = z[k]
    BY <2>1, <2>2, Joined
  <2>4. Len(y \o z) = 2 + PerServer
    BY <2>1, <2>2, <2>3
  <2>5. (y \o z)[1] = d /\ (y \o z)[1 + 1] = f
    BY <2>1, <2>2, <2>3
  <2>6. ASSUME NEW k \in 1 .. PerServer
        PROVE  (y \o z)[2 + k] = g[k]
    <3>1. 2 + k = 1 + (1 + k) /\ 1 + k \in 1 .. 1 + PerServer
      OBVIOUS
    <3>2. (y \o z)[1 + (1 + k)] = z[1 + k]
      BY ONLY <2>1, <2>2, <2>3, <3>1
    <3> QED
      BY <2>2, <3>1, <3>2
  <2> QED
    BY <2>3, <2>4, <2>5, <2>6 DEF y, z
<1> HIDE DEF e, t
<1> DEFINE scr == Cat(Cat(e, r), t)
<1>7. /\ scr \in Seq(Calls) /\ Len(scr) = 3 + NumClients * 10 + (2 + PerServer)
      /\ \A k \in 1 .. 3 : scr[k] = e[k]
      /\ \A k \in 1 .. NumClients * 10 : scr[3 + k] = r[k]
      /\ \A k \in 1 .. 2 + PerServer : scr[3 + NumClients * 10 + k] = t[k]
  <2>1. /\ e \in Seq(Calls) /\ r \in Seq(Calls) /\ t \in Seq(Calls)
        /\ Len(e) = 3 /\ Len(r) = NumClients * 10 /\ Len(t) = 2 + PerServer
    BY <1>2, <1>5, <1>6
  <2>2. e \in CallSeqs /\ r \in CallSeqs /\ t \in CallSeqs
    BY <2>1 DEF CallSeqs
  <2>3. LaidOut(scr, e, r, t)
    BY ONLY <2>2, ThreeParts DEF scr
  <2> HIDE DEF scr
  <2> QED
    BY ONLY <2>1, <2>3 DEF LaidOut
<1> HIDE DEF scr
<1>8. Len(scr) = 5 + NumClients * 10 + PerServer
  BY <1>7
<1>9. scr[1] = a /\ scr[2] = b /\ scr[3] = c
  BY <1>5, <1>7
<1>10. ASSUME NEW j \in Clients, NEW k \in 1 .. 10
       PROVE  scr[3 + (10 * j + k)] = PilafServe(j)[k]
  <2>1. 10 * j + k \in 1 .. NumClients * 10
    OBVIOUS
  <2>2. r[10 * j + k] = PilafServe(j)[k]
    BY <1>2
  <2>3. scr[3 + (10 * j + k)] = r[10 * j + k]
    BY ONLY <1>7, <2>1
  <2> QED
    BY <2>2, <2>3
<1>11. scr[4 + NumClients * 10] = d /\ scr[5 + NumClients * 10] = f
  <2>1. scr[3 + NumClients * 10 + 1] = d /\ scr[3 + NumClients * 10 + 2] = f
    <3>1. t[1] = d /\ t[2] = f /\ 1 \in 1 .. 2 + PerServer /\ 2 \in 1 .. 2 + PerServer
      BY <1>6
    <3> QED
      BY ONLY <1>7, <3>1
  <2>2. /\ 3 + NumClients * 10 + 1 = 4 + NumClients * 10
        /\ 3 + NumClients * 10 + 2 = 5 + NumClients * 10
    OBVIOUS
  <2> QED
    BY <2>1, <2>2
<1>12. ASSUME NEW k \in 1 .. PerServer
       PROVE  scr[5 + NumClients * 10 + k] = Step("alert", PerServer * s + (k - 1), "uc")
  <2>1. 5 + NumClients * 10 + k = 3 + NumClients * 10 + (2 + k) /\ 2 + k \in 1 .. 2 + PerServer
    OBVIOUS
  <2>2. scr[3 + NumClients * 10 + (2 + k)] = t[2 + k]
    BY ONLY <1>7, <2>1
  <2> QED
    BY <1>2a, <1>6, <2>1, <2>2
<1>13. Script["Pilaf"][Server(s)] = scr
  BY <1>4 DEF scr, Cat
<1> QED
  BY <1>7, <1>8, <1>9, <1>10, <1>11, <1>12, <1>13 DEF a, b, c, d, f
-----------------------------------------------------------------------------
(***************************************************************************)
(* What a process is about to do, by how far it has come.                  *)
(***************************************************************************)

\* The calls of a client after its loop over connect_ctx.
Ends(st) == IF st = "Pilaf" THEN 2 ELSE 0

\* The call that a client makes after n others.
ClientAt(st, c, n, call) ==
    \/ n = 0 /\ call = Step("init_ctx", 0, StoreVias(st))
    \/ n = 1 /\ call = Step("register", 0, {"resp", "req"})
    \/ \E i \in Servers, k \in 1 .. 6 : n = VisitAt(i) + (k - 1) /\ call = VisitCalls(st, i)[k]
    \/ \E i \in Servers, k \in 1 .. LinkLen(st) :
         n = LinkAt(st, i) + (k - 1) /\ call = LinkCalls(st, i)[k]
    \/ /\ st = "Pilaf" /\ n = LinkAt(st, NumServers)
       /\ call = Step("post_recvs", {ServerOf(c)}, "uc")
    \/ /\ st = "Pilaf" /\ n = LinkAt(st, NumServers) + 1
       /\ call = Step("await", ServerOf(c), "uc")

\* The scripts of clients in one form.
LEMMA ClientScript ==
    ASSUME NEW st \in AllStores, NEW c \in Clients
    PROVE  /\ Len(Script[st][Client(c)]) = LinkAt(st, NumServers) + Ends(st)
           /\ \A n \in 0 .. Len(Script[st][Client(c)]) - 1 :
                ClientAt(st, c, n, Script[st][Client(c)][n + 1])
<1>1. CASE st = "Pilaf"
  <2> DEFINE s == Script["Pilaf"][Client(c)]
  <2>1. /\ Len(s) = 4 + NumServers * 10
        /\ s[1] = Step("init_ctx", 0, Vias)
        /\ s[2] = Step("register", 0, {"resp", "req"})
        /\ \A i \in Servers, k \in 1 .. 6 : s[2 + 6 * i + k] = PilafVisit(i)[k]
        /\ \A i \in Servers, k \in 1 .. 4 : s[2 + 6 * NumServers + 4 * i + k] = ConnectBoth(i)[k]
        /\ s[3 + 10 * NumServers] = Step("post_recvs", {ServerOf(c)}, "uc")
        /\ s[4 + 10 * NumServers] = Step("await", ServerOf(c), "uc")
    BY PilafClientScript
  <2> HIDE DEF s
  <2>2. LinkAt("Pilaf", NumServers) = 2 + 10 * NumServers
    BY DEF LinkAt
  <2>3. ASSUME NEW n \in 0 .. Len(s) - 1
        PROVE  ClientAt("Pilaf", c, n, s[n + 1])
    <3>1. CASE n = 0 \/ n = 1
      BY <2>1, <3>1 DEF ClientAt, StoreVias
    <3>2. CASE n \in 2 .. 1 + NumServers * 6
      <4>1. n - 2 \in 0 .. NumServers * 6 - 1
        BY <3>2
      <4>1a. NumServers \in Nat /\ 6 \in {2, 4, 6, 8, 10} /\ Servers = 0 .. NumServers - 1
        OBVIOUS
      <4>2. PICK i \in Servers, k \in 1 .. 6 : n - 2 = 6 * i + k - 1
        BY ONLY <4>1, <4>1a, Rounds
      <4>3. n = VisitAt(i) + (k - 1) /\ n + 1 = 2 + 6 * i + k
        BY <3>2, <4>2 DEF VisitAt
      <4>4. s[n + 1] = VisitCalls("Pilaf", i)[k]
        BY ONLY <2>1, <4>3, i \in Servers, k \in 1 .. 6 DEF VisitCalls
      <4> QED
        BY <4>3, <4>4 DEF ClientAt
    <3>3. CASE n \in 2 + NumServers * 6 .. 1 + NumServers * 10
      <4>1. n - (2 + NumServers * 6) \in 0 .. NumServers * 4 - 1
        BY <3>3
      <4>1a. NumServers \in Nat /\ 4 \in {2, 4, 6, 8, 10} /\ Servers = 0 .. NumServers - 1
        OBVIOUS
      <4>2. PICK i \in Servers, k \in 1 .. 4 : n - (2 + NumServers * 6) = 4 * i + k - 1
        BY ONLY <4>1, <4>1a, Rounds
      <4>3. n = LinkAt("Pilaf", i) + (k - 1) /\ n + 1 = 2 + 6 * NumServers + 4 * i + k
        BY <3>3, <4>2 DEF LinkAt
      <4>4. s[n + 1] = LinkCalls("Pilaf", i)[k] /\ LinkLen("Pilaf") = 4
        BY ONLY <2>1, <4>3, i \in Servers, k \in 1 .. 4 DEF LinkCalls, LinkLen
      <4> QED
        BY <4>3, <4>4 DEF ClientAt
    <3>4. CASE n = 2 + NumServers * 10 \/ n = 3 + NumServers * 10
      <4>1. \/ n = LinkAt("Pilaf", NumServers) /\ n + 1 = 3 + 10 * NumServers
            \/ n = LinkAt("Pilaf", NumServers) + 1 /\ n + 1 = 4 + 10 * NumServers
        BY <2>2, <3>4
      <4> QED
        BY <2>1, <4>1 DEF ClientAt
    <3> QED
      BY <2>1, <3>1, <3>2, <3>3, <3>4
  <2>4. Len(s) = LinkAt("Pilaf", NumServers) + Ends("Pilaf")
    BY <2>1, <2>2 DEF Ends
  <2> QED
    BY <1>1, <2>3, <2>4 DEF s
<1>2. CASE st \in {"FaRM", "HydraDB"}
  <2> DEFINE s == Script[st][Client(c)]
  <2>1. /\ Len(s) = 2 + NumServers * 8
        /\ s[1] = Step("init_ctx", 0, {"rc"})
        /\ s[2] = Step("register", 0, {"resp", "req"})
        /\ \A i \in Servers, k \in 1 .. 6 : s[2 + 6 * i + k] = FarmVisit(i)[k]
        /\ \A i \in Servers, k \in 1 .. 2 : s[2 + 6 * NumServers + 2 * i + k] = FarmConnect(i)[k]
    BY ONLY <1>2, c \in Clients, FarmClientScript DEF s
  <2> HIDE DEF s
  <2>2. LinkAt(st, NumServers) = 2 + 8 * NumServers /\ st # "Pilaf"
    BY <1>2 DEF LinkAt
  <2>3. ASSUME NEW n \in 0 .. Len(s) - 1
        PROVE  ClientAt(st, c, n, s[n + 1])
    <3>1. CASE n = 0 \/ n = 1
      BY <2>1, <2>2, <3>1 DEF ClientAt, StoreVias
    <3>2. CASE n \in 2 .. 1 + NumServers * 6
      <4>1. n - 2 \in 0 .. NumServers * 6 - 1
        BY <3>2
      <4>1a. NumServers \in Nat /\ 6 \in {2, 4, 6, 8, 10} /\ Servers = 0 .. NumServers - 1
        OBVIOUS
      <4>2. PICK i \in Servers, k \in 1 .. 6 : n - 2 = 6 * i + k - 1
        BY ONLY <4>1, <4>1a, Rounds
      <4>3. n = VisitAt(i) + (k - 1) /\ n + 1 = 2 + 6 * i + k
        BY <3>2, <4>2 DEF VisitAt
      <4>4. s[n + 1] = VisitCalls(st, i)[k]
        BY ONLY <2>1, <2>2, <4>3, i \in Servers, k \in 1 .. 6 DEF VisitCalls
      <4> QED
        BY <4>3, <4>4 DEF ClientAt
    <3>3. CASE n \in 2 + NumServers * 6 .. 1 + NumServers * 8
      <4>1. n - (2 + NumServers * 6) \in 0 .. NumServers * 2 - 1
        BY <3>3
      <4>1a. NumServers \in Nat /\ 2 \in {2, 4, 6, 8, 10} /\ Servers = 0 .. NumServers - 1
        OBVIOUS
      <4>2. PICK i \in Servers, k \in 1 .. 2 : n - (2 + NumServers * 6) = 2 * i + k - 1
        BY ONLY <4>1, <4>1a, Rounds
      <4>3. n = LinkAt(st, i) + (k - 1) /\ n + 1 = 2 + 6 * NumServers + 2 * i + k
        BY <2>2, <3>3, <4>2 DEF LinkAt
      <4>4. s[n + 1] = LinkCalls(st, i)[k] /\ LinkLen(st) = 2
        BY ONLY <2>1, <2>2, <4>3, i \in Servers, k \in 1 .. 2 DEF LinkCalls, LinkLen
      <4> QED
        BY <4>3, <4>4 DEF ClientAt
    <3> QED
      BY <2>1, <3>1, <3>2, <3>3
  <2>4. Len(s) = LinkAt(st, NumServers) + Ends(st)
    BY <2>1, <2>2 DEF Ends
  <2> QED
    BY <2>3, <2>4 DEF s
<1> QED
  BY <1>1, <1>2 DEF AllStores

\* The call that a server makes after n others.
ServerAt(st, s, n, call) ==
    \/ n = 0 /\ call = Step("init_ctx", 0, StoreVias(st))
    \/ n = 1 /\ call = Step("register", 0, IF st = "FaRM" THEN {"req", "hash"}
                                           ELSE IF st = "HydraDB" THEN {"req"}
                                           ELSE {"request", "req"})
    \/ st = "HydraDB" /\ n = 2 /\ call = Step("load", 0, "")
    \/ st = "HydraDB" /\ n = 3 /\ call = Step("register", 0, {"hash"})
    \/ n = ServeAt(st, 0) - 1 /\ call = Step("listen", 0, "")
    \/ \E j \in Clients, k \in 1 .. ServeLen(st) :
         n = ServeAt(st, j) + (k - 1) /\ call = ServeCalls(st, j)[k]
    \/ n = ServeAt(st, NumClients) /\ call = Step("close", 0, "")
    \/ st = "FaRM" /\ n = ServeAt(st, NumClients) + 1 /\ call = Step("load", 0, "")
    \/ /\ st = "Pilaf" /\ n = ServeAt(st, NumClients) + 1
       /\ call = Step("post_recvs", Assigned(s), "uc")
    \/ \E j \in Assigned(s) : /\ st = "Pilaf" /\ n > ServeAt(st, NumClients) + 1
                              /\ call = Step("alert", j, "uc")

\* The scripts of servers in one form.
LEMMA ServerScript ==
    ASSUME NEW st \in AllStores, NEW s \in Servers
    PROVE  \A n \in 0 .. Len(Script[st][Server(s)]) - 1 :
             ServerAt(st, s, n, Script[st][Server(s)][n + 1])
<1>1. CASE st = "FaRM"
  <2> DEFINE f == Script["FaRM"][Server(s)]
  <2>1. Len(f) = 5 + NumClients * 8
    BY FarmServerScript
  <2>1b. /\ f[1] = Step("init_ctx", 0, {"rc"})
         /\ f[2] = Step("register", 0, {"req", "hash"})
         /\ f[3] = Step("listen", 0, "")
    BY FarmServerScript
  <2>1c. /\ f[4 + NumClients * 8] = Step("close", 0, "")
         /\ f[5 + NumClients * 8] = Step("load", 0, "")
    BY FarmServerScript
  <2>1a. \A j \in Clients, k \in 1 .. 8 : f[3 + (8 * j + k)] = FarmServe(j)[k]
    BY FarmServerScript
  <2> HIDE DEF f
  <2>2. ServeAt("FaRM", NumClients) = 3 + 8 * NumClients /\ ServeAt("FaRM", 0) - 1 = 2
    BY DEF ServeAt
  <2>3. ASSUME NEW n \in 0 .. Len(f) - 1
        PROVE  ServerAt("FaRM", s, n, f[n + 1])
    <3>1. CASE n = 0 \/ n = 1 \/ n = 2
      <4>1. CASE n = 0
        <5>0. n + 1 = 1
          BY <4>1
        <5>1. f[n + 1] = Step("init_ctx", 0, StoreVias("FaRM"))
          BY <2>1b, <5>0 DEF StoreVias
        <5> QED
          BY <4>1, <5>1 DEF ServerAt
      <4>2. CASE n = 1
        <5>0. n + 1 = 2
          BY <4>2
        <5>1. f[n + 1] = Step("register", 0, {"req", "hash"})
          BY <2>1b, <5>0
        <5> QED
          BY <4>2, <5>1 DEF ServerAt
      <4>3. CASE n = 2
        <5>0. n + 1 = 3
          BY <4>3
        <5>1. f[n + 1] = Step("listen", 0, "")
          BY <2>1b, <5>0
        <5> QED
          BY <2>2, <4>3, <5>1 DEF ServerAt
      <4> QED
        BY <3>1, <4>1, <4>2, <4>3
    <3>2. CASE n \in 3 .. 2 + NumClients * 8
      <4>1. n - 3 \in 0 .. NumClients * 8 - 1
        BY <3>2
      <4>2. PICK j \in Clients, k \in 1 .. 8 : n - 3 = 8 * j + k - 1
        BY <4>1, Rounds
      <4>3. n = ServeAt("FaRM", j) + (k - 1) /\ n + 1 = 3 + (8 * j + k)
        BY <3>2, <4>2 DEF ServeAt
      <4>4. f[n + 1] = ServeCalls("FaRM", j)[k] /\ ServeLen("FaRM") = 8
        BY <2>1a, <4>3 DEF ServeCalls, ServeLen
      <4> QED
        BY <4>3, <4>4 DEF ServerAt
    <3>3. CASE n = 3 + NumClients * 8 \/ n = 4 + NumClients * 8
      <4>1. \/ n = ServeAt("FaRM", NumClients) /\ n + 1 = 4 + NumClients * 8
            \/ n = ServeAt("FaRM", NumClients) + 1 /\ n + 1 = 5 + NumClients * 8
        BY <2>2, <3>3
      <4> QED
        BY <2>1c, <4>1 DEF ServerAt
    <3>7. Len(f) = 5 + NumClients * 8
      BY <2>1
    <3>8. n \in 0 .. 4 + NumClients * 8
      BY <3>7
    <3>9. \/ n = 0 \/ n = 1 \/ n = 2
          \/ n \in 3 .. 2 + NumClients * 8
          \/ n = 3 + NumClients * 8 \/ n = 4 + NumClients * 8
      BY <3>8
    <3> QED
      BY <3>1, <3>2, <3>3, <3>9
  <2> QED
    BY <1>1, <2>3 DEF f
<1>2. CASE st = "HydraDB"
  <2> DEFINE f == Script["HydraDB"][Server(s)]
  <2>1. Len(f) = 6 + NumClients * 8
    BY HydraServerScript
  <2>1b. /\ f[1] = Step("init_ctx", 0, {"rc"})
         /\ f[2] = Step("register", 0, {"req"})
         /\ f[3] = Step("load", 0, "")
         /\ f[4] = Step("register", 0, {"hash"})
         /\ f[5] = Step("listen", 0, "")
    BY HydraServerScript
  <2>1c. f[6 + NumClients * 8] = Step("close", 0, "")

    BY HydraServerScript
  <2>1a. \A j \in Clients, k \in 1 .. 8 : f[5 + (8 * j + k)] = FarmServe(j)[k]
    BY HydraServerScript
  <2> HIDE DEF f
  <2>2. ServeAt("HydraDB", NumClients) = 5 + 8 * NumClients /\ ServeAt("HydraDB", 0) - 1 = 4
    BY DEF ServeAt
  <2>3. ASSUME NEW n \in 0 .. Len(f) - 1
        PROVE  ServerAt("HydraDB", s, n, f[n + 1])
    <3>1. CASE n \in 0 .. 4
      <4>1. CASE n = 0
        <5>0. n + 1 = 1
          BY <4>1
        <5>1. f[n + 1] = Step("init_ctx", 0, StoreVias("HydraDB"))
          BY <2>1b, <5>0 DEF StoreVias
        <5> QED
          BY <4>1, <5>1 DEF ServerAt
      <4>2. CASE n = 1
        <5>0. n + 1 = 2
          BY <4>2
        <5>1. f[n + 1] = Step("register", 0, {"req"})
          BY <2>1b, <5>0
        <5> QED
          BY <4>2, <5>1 DEF ServerAt
      <4>3. CASE n = 2
        <5>0. n + 1 = 3
          BY <4>3
        <5>1. f[n + 1] = Step("load", 0, "")
          BY <2>1b, <5>0
        <5> QED
          BY <4>3, <5>1 DEF ServerAt
      <4>4. CASE n = 3
        <5>0. n + 1 = 4
          BY <4>4
        <5>1. f[n + 1] = Step("register", 0, {"hash"})
          BY <2>1b, <5>0
        <5> QED
          BY <4>4, <5>1 DEF ServerAt
      <4>5. CASE n = 4
        <5>0. n + 1 = 5
          BY <4>5
        <5>1. f[n + 1] = Step("listen", 0, "")
          BY <2>1b, <5>0
        <5> QED
          BY <2>2, <4>5, <5>1 DEF ServerAt
      <4> QED
        BY <3>1, <4>1, <4>2, <4>3, <4>4, <4>5
    <3>2. CASE n \in 5 .. 4 + NumClients * 8
      <4>1. n - 5 \in 0 .. NumClients * 8 - 1
        BY <3>2
      <4>2. PICK j \in Clients, k \in 1 .. 8 : n - 5 = 8 * j + k - 1
        BY <4>1, Rounds
      <4>3. n = ServeAt("HydraDB", j) + (k - 1) /\ n + 1 = 5 + (8 * j + k)
        BY <3>2, <4>2 DEF ServeAt
      <4>4. f[n + 1] = ServeCalls("HydraDB", j)[k] /\ ServeLen("HydraDB") = 8
        BY <2>1a, <4>3 DEF ServeCalls, ServeLen
      <4> QED
        BY <4>3, <4>4 DEF ServerAt
    <3>3. CASE n = 5 + NumClients * 8
      <4>1. n = ServeAt("HydraDB", NumClients) /\ n + 1 = 6 + NumClients * 8
        BY <2>2, <3>3
      <4> QED
        BY <2>1c, <4>1 DEF ServerAt
    <3>8. n \in 0 .. 5 + NumClients * 8
      BY <2>1
    <3>9. \/ n \in 0 .. 4
          \/ n \in 5 .. 4 + NumClients * 8
          \/ n = 5 + NumClients * 8
      BY <3>8
    <3> QED
      BY <3>1, <3>2, <3>3, <3>9
  <2> QED
    BY <1>2, <2>3 DEF f
<1>3. CASE st = "Pilaf"
  <2> DEFINE f == Script["Pilaf"][Server(s)]
  <2>1. Len(f) = 5 + NumClients * 10 + PerServer
    BY PilafServerScript
  <2>1b. /\ f[1] = Step("init_ctx", 0, Vias)
         /\ f[2] = Step("register", 0, {"request", "req"})
         /\ f[3] = Step("listen", 0, "")
    BY PilafServerScript
  <2>1c. /\ f[4 + NumClients * 10] = Step("close", 0, "")
         /\ f[5 + NumClients * 10] = Step("post_recvs", Assigned(s), "uc")

    BY PilafServerScript
  <2>1a. /\ \A j \in Clients, k \in 1 .. 10 : f[3 + (10 * j + k)] = PilafServe(j)[k]
         /\ \A k \in 1 .. PerServer :
             f[5 + NumClients * 10 + k] = Step("alert", PerServer * s + (k - 1), "uc")
    BY PilafServerScript
  <2> HIDE DEF f
  <2>2. ServeAt("Pilaf", NumClients) = 3 + 10 * NumClients /\ ServeAt("Pilaf", 0) - 1 = 2
    BY DEF ServeAt
  <2>3. ASSUME NEW n \in 0 .. Len(f) - 1
        PROVE  ServerAt("Pilaf", s, n, f[n + 1])
    <3>1. CASE n = 0 \/ n = 1 \/ n = 2
      <4>1. CASE n = 0
        <5>0. n + 1 = 1
          BY <4>1
        <5>1. f[n + 1] = Step("init_ctx", 0, StoreVias("Pilaf"))
          BY <2>1b, <5>0 DEF StoreVias
        <5> QED
          BY <4>1, <5>1 DEF ServerAt
      <4>2. CASE n = 1
        <5>0. n + 1 = 2
          BY <4>2
        <5>1. f[n + 1] = Step("register", 0, {"request", "req"})
          BY <2>1b, <5>0
        <5> QED
          BY <4>2, <5>1 DEF ServerAt
      <4>3. CASE n = 2
        <5>0. n + 1 = 3
          BY <4>3
        <5>1. f[n + 1] = Step("listen", 0, "")
          BY <2>1b, <5>0
        <5> QED
          BY <2>2, <4>3, <5>1 DEF ServerAt
      <4> QED
        BY <3>1, <4>1, <4>2, <4>3
    <3>2. CASE n \in 3 .. 2 + NumClients * 10
      <4>1. n - 3 \in 0 .. NumClients * 10 - 1
        BY <3>2
      <4>2. PICK j \in Clients, k \in 1 .. 10 : n - 3 = 10 * j + k - 1
        BY <4>1, Rounds
      <4>3. n = ServeAt("Pilaf", j) + (k - 1) /\ n + 1 = 3 + (10 * j + k)
        BY <3>2, <4>2 DEF ServeAt
      <4>4. f[n + 1] = ServeCalls("Pilaf", j)[k] /\ ServeLen("Pilaf") = 10
        BY <2>1a, <4>3 DEF ServeCalls, ServeLen
      <4> QED
        BY <4>3, <4>4 DEF ServerAt
    <3>3. CASE n = 3 + NumClients * 10 \/ n = 4 + NumClients * 10
      <4>1. \/ n = ServeAt("Pilaf", NumClients) /\ n + 1 = 4 + NumClients * 10
            \/ n = ServeAt("Pilaf", NumClients) + 1 /\ n + 1 = 5 + NumClients * 10
        BY <2>2, <3>3
      <4> QED
        BY <2>1c, <4>1 DEF ServerAt
    <3>4. CASE n \in 5 + NumClients * 10 .. 4 + NumClients * 10 + PerServer
      <4>1. PICK k \in 1 .. PerServer : n + 1 = 5 + NumClients * 10 + k
        <5>1. n - (4 + NumClients * 10) \in 1 .. PerServer
              /\ n + 1 = 5 + NumClients * 10 + (n - (4 + NumClients * 10))
          BY <3>4
        <5> QED
          BY <5>1
      <4>2. k - 1 \in 0 .. PerServer - 1
        OBVIOUS
      <4>3. PerServer * s + (k - 1) \in Assigned(s)
        BY <4>2, Division
      <4>4. f[n + 1] = Step("alert", PerServer * s + (k - 1), "uc")
        BY <2>1a, <4>1
      <4>5. n > ServeAt("Pilaf", NumClients) + 1
        BY <2>2, <3>4
      <4> QED
        BY <4>3, <4>4, <4>5 DEF ServerAt
    <3>8. n \in 0 .. 4 + NumClients * 10 + PerServer
      BY <2>1
    <3>9. \/ n = 0 \/ n = 1 \/ n = 2
          \/ n \in 3 .. 2 + NumClients * 10
          \/ n = 3 + NumClients * 10 \/ n = 4 + NumClients * 10
          \/ n \in 5 + NumClients * 10 .. 4 + NumClients * 10 + PerServer
      BY <3>8
    <3> QED
      BY <3>1, <3>2, <3>3, <3>4, <3>9
  <2> QED
    BY <1>3, <2>3 DEF f
<1> QED
  BY <1>1, <1>2, <1>3 DEF AllStores
-----------------------------------------------------------------------------
(***************************************************************************)
(* The calls of a round, and what they do to the counters.                 *)
(***************************************************************************)

\* What a call of a client's visit is and how it changes the counts.
VisitStep(st, i, k, x) ==
    /\ x.conn = i /\ x.call \in {"connect", "read", "write"}
    /\ x.call = "connect" <=> k = 1
    /\ x.call = "connect" => x.what = IF st = "Pilaf" THEN "exit" ELSE "go on"
    /\ x.call = "read" =>
         /\ ClientGot(st, k - 1) \in 0 .. 2
         /\ x.what = ToClient(st)[ClientGot(st, k - 1) + 1]
         /\ ClientGot(st, k) = ClientGot(st, k - 1) + 1
         /\ ClientSent(st, k) = ClientSent(st, k - 1)
    /\ x.call = "write" =>
         /\ ClientSent(st, k - 1) \in 0 .. 1
         /\ x.what = ToServer(st)[ClientSent(st, k - 1) + 1]
         /\ ClientSent(st, k) = ClientSent(st, k - 1) + 1
         /\ ClientGot(st, k) = ClientGot(st, k - 1)

\* Every call of a client's visit is of this kind.
LEMMA VisitRound ==
    ASSUME NEW st \in AllStores, NEW i \in Servers, NEW k \in 1 .. 6
    PROVE  VisitStep(st, i, k, VisitCalls(st, i)[k])
<1> DEFINE x == VisitCalls(st, i)[k]
<1> SUFFICES VisitStep(st, i, k, x)
  OBVIOUS
<1>1. CASE st = "Pilaf"
  <2>0. k = 1 \/ k = 2 \/ k = 3 \/ k = 4 \/ k = 5 \/ k = 6
    OBVIOUS
  <2>1. x = PilafVisit(i)[k]
    BY <1>1 DEF VisitCalls
  <2> HIDE DEF x
  <2>11. CASE k = 1
    <3>1. x = Step("connect", i, "exit")
      BY <2>1, <2>11 DEF PilafVisit, Read, Write
    <3>2. /\ ClientGot(st, k - 1) = 0 /\ ClientGot(st, k) = 0
          /\ ClientSent(st, k - 1) = 0 /\ ClientSent(st, k) = 0
      BY <1>1, <2>11 DEF ClientGot, ClientSent, Past
    <3> QED
      BY <3>1, <3>2, <2>11, <1>1 DEF Step, VisitStep
  <2>12. CASE k = 2
    <3>1. x = Step("read", i, "req")
      BY <2>1, <2>12 DEF PilafVisit, Read, Write
    <3>2. /\ ClientGot(st, k - 1) = 0 /\ ClientGot(st, k) = 1
          /\ ClientSent(st, k - 1) = 0 /\ ClientSent(st, k) = 0
      BY <1>1, <2>12 DEF ClientGot, ClientSent, Past
    <3>3. ToClient(st)[0 + 1] = "req"
      BY <1>1 DEF ToClient
    <3> QED
      BY <3>1, <3>2, <3>3, <2>12, <1>1 DEF Step, VisitStep
  <2>13. CASE k = 3
    <3>1. x = Step("write", i, "rc")
      BY <2>1, <2>13 DEF PilafVisit, Read, Write
    <3>2. /\ ClientGot(st, k - 1) = 1 /\ ClientGot(st, k) = 1
          /\ ClientSent(st, k - 1) = 0 /\ ClientSent(st, k) = 1
      BY <1>1, <2>13 DEF ClientGot, ClientSent, Past
    <3>3. ToServer(st)[0 + 1] = "rc"
      BY <1>1 DEF ToServer
    <3> QED
      BY <3>1, <3>2, <3>3, <2>13, <1>1 DEF Step, VisitStep
  <2>14. CASE k = 4
    <3>1. x = Step("read", i, "rc")
      BY <2>1, <2>14 DEF PilafVisit, Read, Write
    <3>2. /\ ClientGot(st, k - 1) = 1 /\ ClientGot(st, k) = 2
          /\ ClientSent(st, k - 1) = 1 /\ ClientSent(st, k) = 1
      BY <1>1, <2>14 DEF ClientGot, ClientSent, Past
    <3>3. ToClient(st)[1 + 1] = "rc"
      BY <1>1 DEF ToClient
    <3> QED
      BY <3>1, <3>2, <3>3, <2>14, <1>1 DEF Step, VisitStep
  <2>15. CASE k = 5
    <3>1. x = Step("write", i, "uc")
      BY <2>1, <2>15 DEF PilafVisit, Read, Write
    <3>2. /\ ClientGot(st, k - 1) = 2 /\ ClientGot(st, k) = 2
          /\ ClientSent(st, k - 1) = 1 /\ ClientSent(st, k) = 2
      BY <1>1, <2>15 DEF ClientGot, ClientSent, Past
    <3>3. ToServer(st)[1 + 1] = "uc"
      BY <1>1 DEF ToServer
    <3> QED
      BY <3>1, <3>2, <3>3, <2>15, <1>1 DEF Step, VisitStep
  <2>16. CASE k = 6
    <3>1. x = Step("read", i, "uc")
      BY <2>1, <2>16 DEF PilafVisit, Read, Write
    <3>2. /\ ClientGot(st, k - 1) = 2 /\ ClientGot(st, k) = 3
          /\ ClientSent(st, k - 1) = 2 /\ ClientSent(st, k) = 2
      BY <1>1, <2>16 DEF ClientGot, ClientSent, Past
    <3>3. ToClient(st)[2 + 1] = "uc"
      BY <1>1 DEF ToClient
    <3> QED
      BY <3>1, <3>2, <3>3, <2>16, <1>1 DEF Step, VisitStep
  <2> QED
    BY <2>0, <2>11, <2>12, <2>13, <2>14, <2>15, <2>16
<1>2. CASE st # "Pilaf"
  <2>0. k = 1 \/ k = 2 \/ k = 3 \/ k = 4 \/ k = 5 \/ k = 6
    OBVIOUS
  <2>1. x = FarmVisit(i)[k]
    BY <1>2 DEF VisitCalls
  <2> HIDE DEF x
  <2>11. CASE k = 1
    <3>1. x = Step("connect", i, "go on")
      BY <2>1, <2>11 DEF FarmVisit, Read, Write
    <3>2. /\ ClientGot(st, k - 1) = 0 /\ ClientGot(st, k) = 0
          /\ ClientSent(st, k - 1) = 0 /\ ClientSent(st, k) = 0
      BY <1>2, <2>11 DEF ClientGot, ClientSent, Past
    <3> QED
      BY <3>1, <3>2, <2>11, <1>2 DEF Step, VisitStep
  <2>12. CASE k = 2
    <3>1. x = Step("read", i, "req")
      BY <2>1, <2>12 DEF FarmVisit, Read, Write
    <3>2. /\ ClientGot(st, k - 1) = 0 /\ ClientGot(st, k) = 1
          /\ ClientSent(st, k - 1) = 0 /\ ClientSent(st, k) = 0
      BY <1>2, <2>12 DEF ClientGot, ClientSent, Past
    <3>3. ToClient(st)[0 + 1] = "req"
      BY <1>2 DEF ToClient
    <3> QED
      BY <3>1, <3>2, <3>3, <2>12, <1>2 DEF Step, VisitStep
  <2>13. CASE k = 3
    <3>1. x = Step("read", i, "hash")
      BY <2>1, <2>13 DEF FarmVisit, Read, Write
    <3>2. /\ ClientGot(st, k - 1) = 1 /\ ClientGot(st, k) = 2
          /\ ClientSent(st, k - 1) = 0 /\ ClientSent(st, k) = 0
      BY <1>2, <2>13 DEF ClientGot, ClientSent, Past
    <3>3. ToClient(st)[1 + 1] = "hash"
      BY <1>2 DEF ToClient
    <3> QED
      BY <3>1, <3>2, <3>3, <2>13, <1>2 DEF Step, VisitStep
  <2>14. CASE k = 4
    <3>1. x = Step("write", i, "resp")
      BY <2>1, <2>14 DEF FarmVisit, Read, Write
    <3>2. /\ ClientGot(st, k - 1) = 2 /\ ClientGot(st, k) = 2
          /\ ClientSent(st, k - 1) = 0 /\ ClientSent(st, k) = 1
      BY <1>2, <2>14 DEF ClientGot, ClientSent, Past
    <3>3. ToServer(st)[0 + 1] = "resp"
      BY <1>2 DEF ToServer
    <3> QED
      BY <3>1, <3>2, <3>3, <2>14, <1>2 DEF Step, VisitStep
  <2>15. CASE k = 5
    <3>1. x = Step("write", i, "rc")
      BY <2>1, <2>15 DEF FarmVisit, Read, Write
    <3>2. /\ ClientGot(st, k - 1) = 2 /\ ClientGot(st, k) = 2
          /\ ClientSent(st, k - 1) = 1 /\ ClientSent(st, k) = 2
      BY <1>2, <2>15 DEF ClientGot, ClientSent, Past
    <3>3. ToServer(st)[1 + 1] = "rc"
      BY <1>2 DEF ToServer
    <3> QED
      BY <3>1, <3>2, <3>3, <2>15, <1>2 DEF Step, VisitStep
  <2>16. CASE k = 6
    <3>1. x = Step("read", i, "rc")
      BY <2>1, <2>16 DEF FarmVisit, Read, Write
    <3>2. /\ ClientGot(st, k - 1) = 2 /\ ClientGot(st, k) = 3
          /\ ClientSent(st, k - 1) = 2 /\ ClientSent(st, k) = 2
      BY <1>2, <2>16 DEF ClientGot, ClientSent, Past
    <3>3. ToClient(st)[2 + 1] = "rc"
      BY <1>2 DEF ToClient
    <3> QED
      BY <3>1, <3>2, <3>3, <2>16, <1>2 DEF Step, VisitStep
  <2> QED
    BY <2>0, <2>11, <2>12, <2>13, <2>14, <2>15, <2>16
<1> QED
  BY <1>1, <1>2

\* The calls of a round of the client's loop over connect_ctx.
LEMMA LinkRound ==
    ASSUME NEW st \in AllStores, NEW i \in Servers, NEW k \in 1 .. LinkLen(st)
    PROVE  \E t \in StoreVias(st) :
             \/ LinkCalls(st, i)[k] = Step("rtr", i, t) /\ k = LinkReady(t) - 1
             \/ LinkCalls(st, i)[k] = Step("rts", i, t) /\ k = LinkReady(t)
<1>1. CASE st = "Pilaf"
  <2>1. k = 1 \/ k = 2 \/ k = 3 \/ k = 4
    BY <1>1 DEF LinkLen
  <2>2. LinkCalls(st, i)[k] = ConnectBoth(i)[k] /\ StoreVias(st) = {"rc", "uc"}
    BY <1>1 DEF LinkCalls, StoreVias, Vias
  <2>3. i \in Nat
    OBVIOUS
  <2> QED
    BY <2>1, <2>2, <2>3, ConnectBothCalls DEF LinkReady
<1>2. CASE st # "Pilaf"
  <2>1. k = 1 \/ k = 2
    BY <1>2 DEF LinkLen
  <2>2. LinkCalls(st, i)[k] = FarmConnect(i)[k] /\ StoreVias(st) = {"rc"}
    BY <1>2 DEF LinkCalls, StoreVias
  <2> QED
    BY <2>1, <2>2 DEF LinkReady, FarmConnect
<1> QED
  BY <1>1, <1>2

\* What a call of a server's round is and how it changes the counts.
ServeStep(st, j, k, x) ==
    /\ x.conn = j /\ x.call \in {"accept", "read", "write", "rtr", "rts"}
    /\ x.call = "accept" <=> k = 1
    /\ x.call \in {"accept", "rtr", "rts"} =>
         /\ ServerGot(st, k) = ServerGot(st, k - 1)
         /\ ServerSent(st, k) = ServerSent(st, k - 1)
    /\ x.call = "read" =>
         /\ ServerGot(st, k - 1) \in 0 .. 1
         /\ x.what = ToServer(st)[ServerGot(st, k - 1) + 1]
         /\ ServerGot(st, k) = ServerGot(st, k - 1) + 1
         /\ ServerSent(st, k) = ServerSent(st, k - 1)
    /\ x.call = "write" =>
         /\ ServerSent(st, k - 1) \in 0 .. 2
         /\ x.what = ToClient(st)[ServerSent(st, k - 1) + 1]
         /\ ServerSent(st, k) = ServerSent(st, k - 1) + 1
         /\ ServerGot(st, k) = ServerGot(st, k - 1)
    /\ \A t \in StoreVias(st) :
         /\ x.call = "rtr" /\ x.what = t <=> k = ServeReady(st, t) - 1
         /\ x.call = "rts" /\ x.what = t <=> k = ServeReady(st, t)
    /\ x.call \in {"rtr", "rts"} => x.what \in StoreVias(st)

\* Every call of a server's round is of this kind.
LEMMA ServeRound ==
    ASSUME NEW st \in AllStores, NEW j \in Clients, NEW k \in 1 .. ServeLen(st)
    PROVE  ServeStep(st, j, k, ServeCalls(st, j)[k])
<1> DEFINE x == ServeCalls(st, j)[k]
<1> SUFFICES ServeStep(st, j, k, x)
  OBVIOUS
<1>j. j \in Nat
  OBVIOUS
<1>1. CASE st = "Pilaf"
  <2>0. k = 1 \/ k = 2 \/ k = 3 \/ k = 4 \/ k = 5 \/ k = 6 \/ k = 7 \/ k = 8 \/ k = 9 \/ k = 10
    BY <1>1 DEF ServeLen
  <2>1. x = PilafServe(j)[k]
    BY <1>1 DEF ServeCalls
  <2>2. /\ PilafServe(j)[1] = Step("accept", j, "")
        /\ PilafServe(j)[2] = Write(j, "req") /\ PilafServe(j)[3] = Read(j, "rc")
        /\ PilafServe(j)[4] = Step("rtr", j, "rc") /\ PilafServe(j)[5] = Step("rts", j, "rc")
        /\ PilafServe(j)[6] = Write(j, "rc") /\ PilafServe(j)[7] = Read(j, "uc")
        /\ PilafServe(j)[8] = Step("rtr", j, "uc") /\ PilafServe(j)[9] = Step("rts", j, "uc")
        /\ PilafServe(j)[10] = Write(j, "uc")
    BY <1>j, PilafServeCalls
  <2>3. ServeReady(st, "rc") = 5 /\ ServeReady(st, "uc") = 9 /\ StoreVias(st) = {"rc", "uc"}
    BY <1>1 DEF ServeReady, StoreVias, Vias
  <2> HIDE DEF x
  <2>11. CASE k = 1
    <3>1. x = Step("accept", j, "")
      BY <2>2, <2>1, <2>11 DEF Read, Write
    <3>2. /\ ServerGot(st, k - 1) = 0 /\ ServerGot(st, k) = 0
          /\ ServerSent(st, k - 1) = 0 /\ ServerSent(st, k) = 0
      BY <1>1, <2>11 DEF ServerGot, ServerSent, Past
    <3> QED
      <4>1. x.conn = j /\ x.call = "accept"
        BY <3>1 DEF Step
      <4>2. \A t \in StoreVias(st) : ServeReady(st, t) - 1 # 1 /\ ServeReady(st, t) # 1
        BY <2>3
      <4> QED
        BY <3>2, <4>1, <4>2, <2>11 DEF ServeStep
  <2>12. CASE k = 2
    <3>1. x = Step("write", j, "req")
      BY <2>2, <2>1, <2>12 DEF Read, Write
    <3>2. /\ ServerGot(st, k - 1) = 0 /\ ServerGot(st, k) = 0
          /\ ServerSent(st, k - 1) = 0 /\ ServerSent(st, k) = 1
      BY <1>1, <2>12 DEF ServerGot, ServerSent, Past
    <3>3. ToClient(st)[0 + 1] = "req"
      BY <1>1 DEF ToClient
    <3> QED
      BY <3>1, <3>2, <3>3, <2>12, <2>3 DEF Step, ServeStep
  <2>13. CASE k = 3
    <3>1. x = Step("read", j, "rc")
      BY <2>2, <2>1, <2>13 DEF Read, Write
    <3>2. /\ ServerGot(st, k - 1) = 0 /\ ServerGot(st, k) = 1
          /\ ServerSent(st, k - 1) = 1 /\ ServerSent(st, k) = 1
      BY <1>1, <2>13 DEF ServerGot, ServerSent, Past
    <3>3. ToServer(st)[0 + 1] = "rc"
      BY <1>1 DEF ToServer
    <3> QED
      BY <3>1, <3>2, <3>3, <2>13, <2>3 DEF Step, ServeStep
  <2>14. CASE k = 4
    <3>1. x = Step("rtr", j, "rc")
      BY <2>2, <2>1, <2>14 DEF Read, Write
    <3>2. /\ ServerGot(st, k - 1) = 1 /\ ServerGot(st, k) = 1
          /\ ServerSent(st, k - 1) = 1 /\ ServerSent(st, k) = 1
      BY <1>1, <2>14 DEF ServerGot, ServerSent, Past
    <3> QED
      BY <3>1, <3>2, <2>14, <2>3 DEF Step, ServeStep
  <2>15. CASE k = 5
    <3>1. x = Step("rts", j, "rc")
      BY <2>2, <2>1, <2>15 DEF Read, Write
    <3>2. /\ ServerGot(st, k - 1) = 1 /\ ServerGot(st, k) = 1
          /\ ServerSent(st, k - 1) = 1 /\ ServerSent(st, k) = 1
      BY <1>1, <2>15 DEF ServerGot, ServerSent, Past
    <3> QED
      BY <3>1, <3>2, <2>15, <2>3 DEF Step, ServeStep
  <2>16. CASE k = 6
    <3>1. x = Step("write", j, "rc")
      BY <2>2, <2>1, <2>16 DEF Read, Write
    <3>2. /\ ServerGot(st, k - 1) = 1 /\ ServerGot(st, k) = 1
          /\ ServerSent(st, k - 1) = 1 /\ ServerSent(st, k) = 2
      BY <1>1, <2>16 DEF ServerGot, ServerSent, Past
    <3>3. ToClient(st)[1 + 1] = "rc"
      BY <1>1 DEF ToClient
    <3> QED
      BY <3>1, <3>2, <3>3, <2>16, <2>3 DEF Step, ServeStep
  <2>17. CASE k = 7
    <3>1. x = Step("read", j, "uc")
      BY <2>2, <2>1, <2>17 DEF Read, Write
    <3>2. /\ ServerGot(st, k - 1) = 1 /\ ServerGot(st, k) = 2
          /\ ServerSent(st, k - 1) = 2 /\ ServerSent(st, k) = 2
      BY <1>1, <2>17 DEF ServerGot, ServerSent, Past
    <3>3. ToServer(st)[1 + 1] = "uc"
      BY <1>1 DEF ToServer
    <3> QED
      BY <3>1, <3>2, <3>3, <2>17, <2>3 DEF Step, ServeStep
  <2>18. CASE k = 8
    <3>1. x = Step("rtr", j, "uc")
      BY <2>2, <2>1, <2>18 DEF Read, Write
    <3>2. /\ ServerGot(st, k - 1) = 2 /\ ServerGot(st, k) = 2
          /\ ServerSent(st, k - 1) = 2 /\ ServerSent(st, k) = 2
      BY <1>1, <2>18 DEF ServerGot, ServerSent, Past
    <3> QED
      BY <3>1, <3>2, <2>18, <2>3 DEF Step, ServeStep
  <2>19. CASE k = 9
    <3>1. x = Step("rts", j, "uc")
      BY <2>2, <2>1, <2>19 DEF Read, Write
    <3>2. /\ ServerGot(st, k - 1) = 2 /\ ServerGot(st, k) = 2
          /\ ServerSent(st, k - 1) = 2 /\ ServerSent(st, k) = 2
      BY <1>1, <2>19 DEF ServerGot, ServerSent, Past
    <3> QED
      BY <3>1, <3>2, <2>19, <2>3 DEF Step, ServeStep
  <2>20. CASE k = 10
    <3>1. x = Step("write", j, "uc")
      BY <2>2, <2>1, <2>20 DEF Read, Write
    <3>2. /\ ServerGot(st, k - 1) = 2 /\ ServerGot(st, k) = 2
          /\ ServerSent(st, k - 1) = 2 /\ ServerSent(st, k) = 3
      BY <1>1, <2>20 DEF ServerGot, ServerSent, Past
    <3>3. ToClient(st)[2 + 1] = "uc"
      BY <1>1 DEF ToClient
    <3> QED
      BY <3>1, <3>2, <3>3, <2>20, <2>3 DEF Step, ServeStep
  <2> QED
    BY <2>0, <2>11, <2>12, <2>13, <2>14, <2>15, <2>16, <2>17, <2>18, <2>19, <2>20
<1>2. CASE st # "Pilaf"
  <2>0. k = 1 \/ k = 2 \/ k = 3 \/ k = 4 \/ k = 5 \/ k = 6 \/ k = 7 \/ k = 8
    BY <1>2 DEF ServeLen
  <2>1. x = FarmServe(j)[k]
    BY <1>2 DEF ServeCalls
  <2>2. /\ FarmServe(j)[1] = Step("accept", j, "")
        /\ FarmServe(j)[2] = Write(j, "req") /\ FarmServe(j)[3] = Write(j, "hash")
        /\ FarmServe(j)[4] = Read(j, "resp") /\ FarmServe(j)[5] = Read(j, "rc")
        /\ FarmServe(j)[6] = Step("rtr", j, "rc") /\ FarmServe(j)[7] = Step("rts", j, "rc")
        /\ FarmServe(j)[8] = Write(j, "rc")
    BY <1>j, FarmServeCalls
  <2>3. ServeReady(st, "rc") = 7 /\ StoreVias(st) = {"rc"}
    BY <1>2 DEF ServeReady, StoreVias, Vias
  <2> HIDE DEF x
  <2>11. CASE k = 1
    <3>1. x = Step("accept", j, "")
      BY <2>2, <2>1, <2>11 DEF Read, Write
    <3>2. /\ ServerGot(st, k - 1) = 0 /\ ServerGot(st, k) = 0
          /\ ServerSent(st, k - 1) = 0 /\ ServerSent(st, k) = 0
      BY <1>2, <2>11 DEF ServerGot, ServerSent, Past
    <3> QED
      <4>1. x.conn = j /\ x.call = "accept"
        BY <3>1 DEF Step
      <4>2. \A t \in StoreVias(st) : ServeReady(st, t) - 1 # 1 /\ ServeReady(st, t) # 1
        BY <2>3
      <4> QED
        BY <3>2, <4>1, <4>2, <2>11 DEF ServeStep
  <2>12. CASE k = 2
    <3>1. x = Step("write", j, "req")
      BY <2>2, <2>1, <2>12 DEF Read, Write
    <3>2. /\ ServerGot(st, k - 1) = 0 /\ ServerGot(st, k) = 0
          /\ ServerSent(st, k - 1) = 0 /\ ServerSent(st, k) = 1
      BY <1>2, <2>12 DEF ServerGot, ServerSent, Past
    <3>3. ToClient(st)[0 + 1] = "req"
      BY <1>2 DEF ToClient
    <3> QED
      BY <3>1, <3>2, <3>3, <2>12, <2>3 DEF Step, ServeStep
  <2>13. CASE k = 3
    <3>1. x = Step("write", j, "hash")
      BY <2>2, <2>1, <2>13 DEF Read, Write
    <3>2. /\ ServerGot(st, k - 1) = 0 /\ ServerGot(st, k) = 0
          /\ ServerSent(st, k - 1) = 1 /\ ServerSent(st, k) = 2
      BY <1>2, <2>13 DEF ServerGot, ServerSent, Past
    <3>3. ToClient(st)[1 + 1] = "hash"
      BY <1>2 DEF ToClient
    <3> QED
      BY <3>1, <3>2, <3>3, <2>13, <2>3 DEF Step, ServeStep
  <2>14. CASE k = 4
    <3>1. x = Step("read", j, "resp")
      BY <2>2, <2>1, <2>14 DEF Read, Write
    <3>2. /\ ServerGot(st, k - 1) = 0 /\ ServerGot(st, k) = 1
          /\ ServerSent(st, k - 1) = 2 /\ ServerSent(st, k) = 2
      BY <1>2, <2>14 DEF ServerGot, ServerSent, Past
    <3>3. ToServer(st)[0 + 1] = "resp"
      BY <1>2 DEF ToServer
    <3> QED
      BY <3>1, <3>2, <3>3, <2>14, <2>3 DEF Step, ServeStep
  <2>15. CASE k = 5
    <3>1. x = Step("read", j, "rc")
      BY <2>2, <2>1, <2>15 DEF Read, Write
    <3>2. /\ ServerGot(st, k - 1) = 1 /\ ServerGot(st, k) = 2
          /\ ServerSent(st, k - 1) = 2 /\ ServerSent(st, k) = 2
      BY <1>2, <2>15 DEF ServerGot, ServerSent, Past
    <3>3. ToServer(st)[1 + 1] = "rc"
      BY <1>2 DEF ToServer
    <3> QED
      BY <3>1, <3>2, <3>3, <2>15, <2>3 DEF Step, ServeStep
  <2>16. CASE k = 6
    <3>1. x = Step("rtr", j, "rc")
      BY <2>2, <2>1, <2>16 DEF Read, Write
    <3>2. /\ ServerGot(st, k - 1) = 2 /\ ServerGot(st, k) = 2
          /\ ServerSent(st, k - 1) = 2 /\ ServerSent(st, k) = 2
      BY <1>2, <2>16 DEF ServerGot, ServerSent, Past
    <3> QED
      BY <3>1, <3>2, <2>16, <2>3 DEF Step, ServeStep
  <2>17. CASE k = 7
    <3>1. x = Step("rts", j, "rc")
      BY <2>2, <2>1, <2>17 DEF Read, Write
    <3>2. /\ ServerGot(st, k - 1) = 2 /\ ServerGot(st, k) = 2
          /\ ServerSent(st, k - 1) = 2 /\ ServerSent(st, k) = 2
      BY <1>2, <2>17 DEF ServerGot, ServerSent, Past
    <3> QED
      BY <3>1, <3>2, <2>17, <2>3 DEF Step, ServeStep
  <2>18. CASE k = 8
    <3>1. x = Step("write", j, "rc")
      BY <2>2, <2>1, <2>18 DEF Read, Write
    <3>2. /\ ServerGot(st, k - 1) = 2 /\ ServerGot(st, k) = 2
          /\ ServerSent(st, k - 1) = 2 /\ ServerSent(st, k) = 3
      BY <1>2, <2>18 DEF ServerGot, ServerSent, Past
    <3>3. ToClient(st)[2 + 1] = "rc"
      BY <1>2 DEF ToClient
    <3> QED
      BY <3>1, <3>2, <3>3, <2>18, <2>3 DEF Step, ServeStep
  <2> QED
    BY <2>0, <2>11, <2>12, <2>13, <2>14, <2>15, <2>16, <2>17, <2>18
<1> QED
  BY <1>1, <1>2
-----------------------------------------------------------------------------
(***************************************************************************)
(* Where a process is, by the call that it is about to make.               *)
(***************************************************************************)
\* The program is one of the three, and the positions are numbers.
LEMMA Numbers ==
    ASSUME TypeOK
    PROVE  store \in AllStores /\ \A p \in Procs : pos[p] \in Nat
<1>1. store \in Stores /\ pos \in [Procs -> Nat]
  BY DEF TypeOK
<1> QED
  BY <1>1, StoresAssumption DEF AllStores

\* The next call of a process that has not ended.
LEMMA NextCall ==
    ASSUME TypeOK
    PROVE  /\ \A c \in Clients : ~Running(Client(c)) =>
                ClientAt(store, c, pos[Client(c)], Call(Client(c)))
           /\ \A s \in Servers : ~Running(Server(s)) =>
                ServerAt(store, s, pos[Server(s)], Call(Server(s)))
<1>1. /\ store \in AllStores
      /\ \A p \in Procs : pos[p] \in Nat /\ pos[p] <= Len(Script[store][p])
  BY Numbers DEF TypeOK
<1>2. ASSUME NEW c \in Clients, ~Running(Client(c))
      PROVE  ClientAt(store, c, pos[Client(c)], Call(Client(c)))
  <2>1. Client(c) \in Procs
    BY Names
  <2>2. Len(Script[store][Client(c)]) \in Nat
    BY <1>1, ClientScript DEF LinkAt, Ends
  <2>3. pos[Client(c)] \in 0 .. Len(Script[store][Client(c)]) - 1
    BY <1>1, <1>2, <2>1, <2>2 DEF Running
  <2> QED
    BY <1>1, <2>3, ClientScript DEF Call
<1>3. ASSUME NEW s \in Servers, ~Running(Server(s))
      PROVE  ServerAt(store, s, pos[Server(s)], Call(Server(s)))
  <2>1. Server(s) \in Procs
    BY Names
  <2>2. Len(Script[store][Server(s)]) \in Nat
    <3>1. CASE store = "Pilaf"
      <4>1. Script["Pilaf"][Server(s)] \in Seq(Calls)
        BY PilafServerScript
      <4> QED
        BY <3>1, <4>1
    <3>2. CASE store = "FaRM"
      <4>1. Script["FaRM"][Server(s)] \in Seq(Calls)
        BY FarmServerScript
      <4> QED
        BY <3>2, <4>1
    <3>3. CASE store = "HydraDB"
      <4>1. Script["HydraDB"][Server(s)] \in Seq(Calls)
        BY HydraServerScript
      <4> QED
        BY <3>3, <4>1
    <3> QED
      BY <1>1, <3>1, <3>2, <3>3 DEF AllStores
  <2>3. pos[Server(s)] \in 0 .. Len(Script[store][Server(s)]) - 1
    BY <1>1, <1>3, <2>1, <2>2 DEF Running
  <2> QED
    BY <1>1, <2>3, ServerScript DEF Call
<1> QED
  BY <1>2, <1>3

\* The kinds of calls in the client's loop over connect_ctx.
LEMMA LinkNames ==
    ASSUME NEW st \in AllStores, NEW i \in Servers, NEW k \in 1 .. LinkLen(st)
    PROVE  LinkCalls(st, i)[k].call \in {"rtr", "rts"}
<1>1. PICK t \in StoreVias(st) : \/ LinkCalls(st, i)[k] = Step("rtr", i, t)
                                 \/ LinkCalls(st, i)[k] = Step("rts", i, t)
  BY LinkRound
<1> QED
  BY <1>1 DEF Step

\* The kinds of calls in client_exch_dest.
LEMMA VisitNames ==
    ASSUME NEW st \in AllStores, NEW i \in Servers, NEW k \in 1 .. 6
    PROVE  VisitCalls(st, i)[k].call \in {"connect", "read", "write"}
  BY VisitRound DEF VisitStep

\* The kinds of calls in server_exch_dest.
LEMMA ServeNames ==
    ASSUME NEW st \in AllStores, NEW j \in Clients, NEW k \in 1 .. ServeLen(st)
    PROVE  ServeCalls(st, j)[k].call \in {"accept", "read", "write", "rtr", "rts"}
  BY ServeRound DEF ServeStep

\* A client in the exchange with a server is done with the earlier servers and
\* has not begun with the later ones.
Visiting(c, i, k) ==
    /\ VisitStep(store, i, k, Call(Client(c))) /\ Visited(c, i) = k - 1
    /\ \A s \in Servers : s < i => Visited(c, s) >= 6
    /\ \A s \in Servers : s > i => Visited(c, s) < 0
    /\ \A s \in Servers : Linked(c, s) < 0

\* A client that connects, reads or writes is visiting a server.
LEMMA ClientVisits ==
    ASSUME TypeOK, NEW c \in Clients, ~Running(Client(c)),
           Call(Client(c)).call \in {"connect", "read", "write"}
    PROVE  \E i \in Servers, k \in 1 .. 6 : Visiting(c, i, k)
<1>1. ClientAt(store, c, pos[Client(c)], Call(Client(c)))
  BY NextCall
<1>2. store \in AllStores /\ pos[Client(c)] \in Nat
  BY Numbers, Names
<1>3. PICK i \in Servers, k \in 1 .. 6 :
         pos[Client(c)] = VisitAt(i) + (k - 1) /\ Call(Client(c)) = VisitCalls(store, i)[k]
  <2>1. \A i \in Servers, k \in 1 .. LinkLen(store) :
          LinkCalls(store, i)[k].call \in {"rtr", "rts"}
    BY <1>2, LinkNames
  <2> QED
    BY <1>1, <2>1 DEF ClientAt, Step
<1>4. VisitStep(store, i, k, Call(Client(c)))
  BY <1>2, <1>3, VisitRound
<1>5. /\ Visited(c, i) = k - 1
      /\ \A s \in Servers : s < i => Visited(c, s) >= 6
      /\ \A s \in Servers : s > i => Visited(c, s) < 0
  BY <1>2, <1>3 DEF Visited, VisitAt
<1>6. ASSUME NEW s \in Servers
      PROVE  Linked(c, s) < 0
  <2>1. pos[Client(c)] < 2 + 6 * NumServers
    BY <1>3 DEF VisitAt
  <2> QED
    BY <1>2, <2>1 DEF Linked, LinkAt
<1> QED
  BY <1>4, <1>5, <1>6 DEF Visiting

\* A client that connects its queue pairs has seen all servers.
Linking(c, i, t, call, ready) ==
    /\ Call(Client(c)) = Step(call, i, t) /\ Linked(c, i) = ready - 1
    /\ \A s \in Servers : s < i => Linked(c, s) >= LinkLen(store)
    /\ \A s \in Servers : s > i => Linked(c, s) < 0
    /\ \A s \in Servers : Visited(c, s) >= 6

\* A client that connects a queue pair is in its loop over connect_ctx.
LEMMA ClientLinks ==
    ASSUME TypeOK, NEW c \in Clients, ~Running(Client(c)),
           Call(Client(c)).call \in {"rtr", "rts"}
    PROVE  \E i \in Servers, t \in StoreVias(store) :
             \/ Linking(c, i, t, "rtr", LinkReady(t) - 1)
             \/ Linking(c, i, t, "rts", LinkReady(t))
<1>1. ClientAt(store, c, pos[Client(c)], Call(Client(c)))
  BY NextCall
<1>2. store \in AllStores /\ pos[Client(c)] \in Nat
  BY Numbers, Names
<1>3. PICK i \in Servers, k \in 1 .. LinkLen(store) :
         pos[Client(c)] = LinkAt(store, i) + (k - 1) /\ Call(Client(c)) = LinkCalls(store, i)[k]
  <2>1. \A i \in Servers, k \in 1 .. 6 :
          VisitCalls(store, i)[k].call \in {"connect", "read", "write"}
    BY <1>2, VisitNames
  <2> QED
    BY <1>1, <2>1 DEF ClientAt, Step
<1>4. PICK t \in StoreVias(store) :
         \/ LinkCalls(store, i)[k] = Step("rtr", i, t) /\ k = LinkReady(t) - 1
         \/ LinkCalls(store, i)[k] = Step("rts", i, t) /\ k = LinkReady(t)
  BY <1>2, LinkRound
<1>5. k \in 1 .. (IF store = "Pilaf" THEN 4 ELSE 2)
  BY DEF LinkLen
<1>6. /\ Linked(c, i) = k - 1
      /\ \A s \in Servers : s < i => Linked(c, s) >= LinkLen(store)
      /\ \A s \in Servers : s > i => Linked(c, s) < 0
  BY <1>2, <1>3, <1>5 DEF Linked, LinkAt, LinkLen
<1>7. ASSUME NEW s \in Servers
      PROVE  Visited(c, s) >= 6
  <2>1. pos[Client(c)] >= 2 + 6 * NumServers
    BY <1>2, <1>3 DEF LinkAt
  <2> QED
    BY <1>2, <2>1 DEF Visited, VisitAt
<1> QED
  BY <1>3, <1>4, <1>6, <1>7 DEF Linking

\* The other calls come before the first server or after the last.
LEMMA ClientOthers ==
    ASSUME TypeOK, NEW c \in Clients, ~Running(Client(c)),
           Call(Client(c)).call \in {"init_ctx", "register", "post_recvs", "await"}
    PROVE  \/ Call(Client(c)) = Step("init_ctx", 0, StoreVias(store)) /\ pos[Client(c)] = 0
           \/ Call(Client(c)) = Step("register", 0, {"resp", "req"}) /\ pos[Client(c)] = 1
           \/ /\ Call(Client(c)) = Step("post_recvs", {ServerOf(c)}, "uc") /\ store = "Pilaf"
              /\ pos[Client(c)] = 2 + 10 * NumServers
           \/ /\ Call(Client(c)) = Step("await", ServerOf(c), "uc") /\ store = "Pilaf"
              /\ pos[Client(c)] = 3 + 10 * NumServers
<1>1. ClientAt(store, c, pos[Client(c)], Call(Client(c)))
  BY NextCall
<1>2. store \in AllStores
  BY Numbers
<1>3. /\ \A i \in Servers, k \in 1 .. 6 :
           VisitCalls(store, i)[k].call \in {"connect", "read", "write"}
      /\ \A i \in Servers, k \in 1 .. LinkLen(store) :
           LinkCalls(store, i)[k].call \in {"rtr", "rts"}
  BY <1>2, VisitNames, LinkNames
<1>4. store = "Pilaf" => LinkAt(store, NumServers) = 2 + 10 * NumServers
  BY DEF LinkAt
<1> QED
  BY <1>1, <1>3, <1>4 DEF ClientAt

\* A server in the exchange with a client is done with those it accepted earlier.
Answering(s, j, k) ==
    /\ ServeStep(store, j, k, Call(Server(s))) /\ Served(s, j) = k - 1
    /\ \A i \in Clients : i < j => Served(s, i) >= ServeLen(store)
    /\ \A i \in Clients : i > j => Served(s, i) < 0
    /\ pos[Server(s)] >= 3

\* A server that accepts, reads, writes or connects a queue pair is answering.
LEMMA ServerServes ==
    ASSUME TypeOK, NEW s \in Servers, ~Running(Server(s)),
           Call(Server(s)).call \in {"accept", "read", "write", "rtr", "rts"}
    PROVE  \E j \in Clients, k \in 1 .. ServeLen(store) : Answering(s, j, k)
<1>1. ServerAt(store, s, pos[Server(s)], Call(Server(s)))
  BY NextCall
<1>2. store \in AllStores /\ pos[Server(s)] \in Nat
  BY Numbers, Names
<1>3. PICK j \in Clients, k \in 1 .. ServeLen(store) :
         pos[Server(s)] = ServeAt(store, j) + (k - 1) /\ Call(Server(s)) = ServeCalls(store, j)[k]
  <2>1. ASSUME NEW call \in {"init_ctx", "register", "load", "listen", "close", "post_recvs", "alert"},
               NEW conn, NEW what
        PROVE  Call(Server(s)) # Step(call, conn, what)
    BY DEF Step
  <2> HIDE DEF Clients
  <2>2. \/ \E conn, what : \E call \in {"init_ctx", "register", "load", "listen", "close",
                                      "post_recvs", "alert"} :
             Call(Server(s)) = Step(call, conn, what)
        \/ \E j \in Clients, k \in 1 .. ServeLen(store) :
             pos[Server(s)] = ServeAt(store, j) + (k - 1) /\ Call(Server(s)) = ServeCalls(store, j)[k]
    BY <1>1, Zenon DEF ServerAt
  <2> QED
    BY <2>1, <2>2, Zenon
<1>4. ServeStep(store, j, k, Call(Server(s)))
  BY <1>2, <1>3, ServeRound
<1>5. k \in 1 .. (IF store = "Pilaf" THEN 10 ELSE 8)
  BY DEF ServeLen
<1>6. Served(s, j) = k - 1 /\ pos[Server(s)] >= 3
  BY <1>2, <1>3, <1>5 DEF Served, ServeAt
<1>7. ASSUME NEW i \in Clients
      PROVE  (i < j => Served(s, i) >= ServeLen(store)) /\ (i > j => Served(s, i) < 0)
  BY <1>2, <1>3, <1>5 DEF Served, ServeAt, ServeLen
<1> QED
  BY <1>4, <1>6, <1>7 DEF Answering

\* The other calls come before the first client or after the last.
Resting(s) ==
    \/ Call(Server(s)) = Step("init_ctx", 0, StoreVias(store)) /\ pos[Server(s)] = 0
    \/ /\ pos[Server(s)] = 1
       /\ Call(Server(s)) = Step("register", 0, IF store = "FaRM" THEN {"req", "hash"}
                                                ELSE IF store = "HydraDB" THEN {"req"}
                                                ELSE {"request", "req"})
    \/ store = "HydraDB" /\ pos[Server(s)] = 2 /\ Call(Server(s)) = Step("load", 0, "")
    \/ /\ store = "HydraDB" /\ pos[Server(s)] = 3
       /\ Call(Server(s)) = Step("register", 0, {"hash"})
    \/ /\ Served(s, 0) = -1 /\ Call(Server(s)) = Step("listen", 0, "")
    \/ /\ \A j \in Clients : Served(s, j) >= ServeLen(store)
       /\ \/ /\ Call(Server(s)) \in {Step("close", 0, ""), Step("load", 0, "")}
             /\ store = "Pilaf" => pos[Server(s)] = 3 + 10 * NumClients
          \/ /\ store = "Pilaf" /\ pos[Server(s)] = 4 + 10 * NumClients
             /\ Call(Server(s)) = Step("post_recvs", Assigned(s), "uc")
          \/ /\ store = "Pilaf" /\ pos[Server(s)] >= 5 + 10 * NumClients
             /\ \E j \in Assigned(s) : Call(Server(s)) = Step("alert", j, "uc")

\* The other calls of a server, and where they are.
LEMMA ServerOthers ==
    ASSUME TypeOK, NEW s \in Servers, ~Running(Server(s)),
           Call(Server(s)).call \notin {"accept", "read", "write", "rtr", "rts"}
    PROVE  /\ \A j \in Clients : Served(s, j) < 0 \/ Served(s, j) >= ServeLen(store)
           /\ Resting(s)
<1>1. ServerAt(store, s, pos[Server(s)], Call(Server(s)))
  BY NextCall
<1>2. store \in AllStores /\ pos[Server(s)] \in Nat
  BY Numbers, Names
<1>3. \A j \in Clients, k \in 1 .. ServeLen(store) :
        ServeCalls(store, j)[k].call \in {"accept", "read", "write", "rtr", "rts"}
  BY <1>2, ServeNames
<1>4. ASSUME pos[Server(s)] < ServeAt(store, 0), NEW j \in Clients
      PROVE  Served(s, j) < 0
  BY <1>2, <1>4 DEF Served, ServeAt
<1>5. ASSUME pos[Server(s)] >= ServeAt(store, NumClients), NEW j \in Clients
      PROVE  Served(s, j) >= ServeLen(store)
  BY <1>2, <1>5 DEF Served, ServeAt, ServeLen
<1>6. CASE pos[Server(s)] = 0 /\ Call(Server(s)) = Step("init_ctx", 0, StoreVias(store))
  <2>1. pos[Server(s)] < ServeAt(store, 0)
    BY <1>6 DEF ServeAt
  <2> QED
    BY <1>4, <1>6, <2>1 DEF Resting
<1>7. CASE /\ pos[Server(s)] = 1
           /\ Call(Server(s)) =
                Step("register", 0, IF store = "FaRM" THEN {"req", "hash"}
                                    ELSE IF store = "HydraDB" THEN {"req"}
                                    ELSE {"request", "req"})
  <2>1. pos[Server(s)] < ServeAt(store, 0)
    BY <1>7 DEF ServeAt
  <2> QED
    BY <1>4, <1>7, <2>1 DEF Resting
<1>8. CASE /\ store = "HydraDB"
           /\ \/ pos[Server(s)] = 2 /\ Call(Server(s)) = Step("load", 0, "")
              \/ pos[Server(s)] = 3 /\ Call(Server(s)) = Step("register", 0, {"hash"})
  <2>0. store = "HydraDB" /\ (pos[Server(s)] = 2 \/ pos[Server(s)] = 3)
    BY <1>8
  <2>1. pos[Server(s)] < ServeAt(store, 0)
    BY <2>0 DEF ServeAt
  <2> QED
    BY <1>4, <1>8, <2>1 DEF Resting
<1>9. CASE pos[Server(s)] = ServeAt(store, 0) - 1 /\ Call(Server(s)) = Step("listen", 0, "")
  <2>0. pos[Server(s)] = ServeAt(store, 0) - 1
    BY <1>9
  <2>1. pos[Server(s)] < ServeAt(store, 0) /\ Served(s, 0) = -1
    BY <1>2, <2>0 DEF ServeAt, Served
  <2> QED
    BY <1>4, <1>9, <2>1 DEF Resting
<1>10. CASE /\ pos[Server(s)] >= ServeAt(store, NumClients)
            /\ \/ /\ Call(Server(s)) \in {Step("close", 0, ""), Step("load", 0, "")}
                  /\ store = "Pilaf" => pos[Server(s)] = ServeAt(store, NumClients)
               \/ /\ store = "Pilaf" /\ pos[Server(s)] = ServeAt(store, NumClients) + 1
                  /\ Call(Server(s)) = Step("post_recvs", Assigned(s), "uc")
               \/ /\ store = "Pilaf" /\ pos[Server(s)] > ServeAt(store, NumClients) + 1
                  /\ \E j \in Assigned(s) : Call(Server(s)) = Step("alert", j, "uc")
  <2>1. store = "Pilaf" => ServeAt(store, NumClients) = 3 + 10 * NumClients
    BY DEF ServeAt
  <2>2. store = "Pilaf" /\ pos[Server(s)] > ServeAt(store, NumClients) + 1 =>
          pos[Server(s)] >= 5 + 10 * NumClients
    BY <1>2, <2>1
  <2>3. \A j \in Clients : Served(s, j) >= ServeLen(store)
    BY <1>5, <1>10
  <2>4. CASE /\ Call(Server(s)) \in {Step("close", 0, ""), Step("load", 0, "")}
             /\ store = "Pilaf" => pos[Server(s)] = ServeAt(store, NumClients)
    <3>1. store = "Pilaf" => pos[Server(s)] = 3 + 10 * NumClients
      BY <2>1, <2>4
    <3> QED
      BY <2>3, <2>4, <3>1 DEF Resting
  <2>5. CASE /\ store = "Pilaf" /\ pos[Server(s)] = ServeAt(store, NumClients) + 1
             /\ Call(Server(s)) = Step("post_recvs", Assigned(s), "uc")
    <3>1. pos[Server(s)] = 4 + 10 * NumClients
      BY <2>1, <2>5
    <3> QED
      BY <2>3, <2>5, <3>1 DEF Resting
  <2>6. CASE /\ store = "Pilaf" /\ pos[Server(s)] > ServeAt(store, NumClients) + 1
             /\ \E j \in Assigned(s) : Call(Server(s)) = Step("alert", j, "uc")
    BY <2>2, <2>3, <2>6 DEF Resting
  <2> QED
    BY <1>10, <2>4, <2>5, <2>6
<1>11. ASSUME pos[Server(s)] = ServeAt(store, NumClients) \/ pos[Server(s)] = ServeAt(store, NumClients) + 1
              \/ pos[Server(s)] > ServeAt(store, NumClients) + 1
       PROVE  pos[Server(s)] >= ServeAt(store, NumClients)
  BY <1>2, <1>11 DEF ServeAt
<1> QED
  BY <1>1, <1>3, <1>6, <1>7, <1>8, <1>9, <1>10, <1>11 DEF ServerAt
-----------------------------------------------------------------------------
(***************************************************************************)
(* What one call changes, and what it leaves as it was.                    *)
(***************************************************************************)
\* The counts are numbers.
LEMMA Counts ==
    ASSUME TypeOK
    PROVE  /\ \A c \in Clients : pos[Client(c)] \in Nat
           /\ \A s \in Servers : pos[Server(s)] \in Nat
           /\ \A c \in Clients, s \in Servers : Visited(c, s) \in Int /\ Linked(c, s) \in Int
           /\ \A s \in Servers, j \in Clients : Served(s, j) \in Int
<1>1. /\ \A c \in Clients : pos[Client(c)] \in Nat
      /\ \A s \in Servers : pos[Server(s)] \in Nat
  BY Numbers, Names
<1>2. \A s \in Servers : VisitAt(s) \in Int /\ LinkAt(store, s) \in Int
  BY DEF VisitAt, LinkAt
<1>3. \A j \in Clients : ServeAt(store, j) \in Int
  BY DEF ServeAt
<1> QED
  BY <1>1, <1>2, <1>3 DEF Visited, Linked, Served

\* How a step of a client changes the counts.
LEMMA ClientMoves ==
    ASSUME TypeOK, NEW c \in Clients, Advance(Client(c)), store' = store
    PROVE  /\ pos'[Client(c)] = pos[Client(c)] + 1
           /\ \A d \in Clients : d # c => pos'[Client(d)] = pos[Client(d)]
           /\ \A s \in Servers : pos'[Server(s)] = pos[Server(s)]
           /\ \A d \in Clients, s \in Servers :
                /\ d = c => Visited(d, s)' = Visited(d, s) + 1 /\ Linked(d, s)' = Linked(d, s) + 1
                /\ d # c => Visited(d, s)' = Visited(d, s) /\ Linked(d, s)' = Linked(d, s)
           /\ \A s \in Servers, j \in Clients : Served(s, j)' = Served(s, j)
<1>1. pos' = [pos EXCEPT ![Client(c)] = pos[Client(c)] + 1] /\ pos \in [Procs -> Nat]
  BY DEF Advance, TypeOK
<1>2. /\ pos'[Client(c)] = pos[Client(c)] + 1
      /\ \A d \in Clients : d # c => pos'[Client(d)] = pos[Client(d)]
      /\ \A s \in Servers : pos'[Server(s)] = pos[Server(s)]
  BY <1>1, Names
<1>3. \A d \in Clients, s \in Servers :
        /\ d = c => Visited(d, s)' = Visited(d, s) + 1 /\ Linked(d, s)' = Linked(d, s) + 1
        /\ d # c => Visited(d, s)' = Visited(d, s) /\ Linked(d, s)' = Linked(d, s)
  <2>1. \A s \in Servers : VisitAt(s) \in Int /\ LinkAt(store, s) \in Int
    BY DEF VisitAt, LinkAt
  <2>2. \A d \in Clients : pos[Client(d)] \in Nat
    BY Counts
  <2>3. ASSUME NEW d \in Clients, NEW s \in Servers
        PROVE  /\ d = c => Visited(d, s)' = Visited(d, s) + 1 /\ Linked(d, s)' = Linked(d, s) + 1
               /\ d # c => Visited(d, s)' = Visited(d, s) /\ Linked(d, s)' = Linked(d, s)
    BY <1>2, <2>1, <2>2 DEF Visited, Linked
  <2> QED
    BY <2>3
<1>4. \A s \in Servers, j \in Clients : Served(s, j)' = Served(s, j)
  BY <1>2 DEF Served
<1> QED
  BY <1>2, <1>3, <1>4

\* How a step of a server changes the counts.
LEMMA ServerMoves ==
    ASSUME TypeOK, NEW s \in Servers, Advance(Server(s)), store' = store
    PROVE  /\ pos'[Server(s)] = pos[Server(s)] + 1
           /\ \A r \in Servers : r # s => pos'[Server(r)] = pos[Server(r)]
           /\ \A d \in Clients : pos'[Client(d)] = pos[Client(d)]
           /\ \A r \in Servers, j \in Clients :
                /\ r = s => Served(r, j)' = Served(r, j) + 1
                /\ r # s => Served(r, j)' = Served(r, j)
           /\ \A d \in Clients, r \in Servers :
                Visited(d, r)' = Visited(d, r) /\ Linked(d, r)' = Linked(d, r)
<1>1. pos' = [pos EXCEPT ![Server(s)] = pos[Server(s)] + 1] /\ pos \in [Procs -> Nat]
  BY DEF Advance, TypeOK
<1>2. /\ pos'[Server(s)] = pos[Server(s)] + 1
      /\ \A r \in Servers : r # s => pos'[Server(r)] = pos[Server(r)]
      /\ \A d \in Clients : pos'[Client(d)] = pos[Client(d)]
  BY <1>1, Names
<1>3. \A r \in Servers, j \in Clients :
        /\ r = s => Served(r, j)' = Served(r, j) + 1
        /\ r # s => Served(r, j)' = Served(r, j)
  <2>1. \A j \in Clients : ServeAt(store, j) \in Int
    BY DEF ServeAt
  <2> QED
    BY <1>2, <2>1, Counts DEF Served
<1>4. \A d \in Clients, r \in Servers :
        Visited(d, r)' = Visited(d, r) /\ Linked(d, r)' = Linked(d, r)
  BY <1>2 DEF Visited, Linked
<1> QED
  BY <1>2, <1>3, <1>4

\* A process that has not ended does not leave its script.
LEMMA PosType ==
    ASSUME TypeOK, NEW p \in Procs, ~Running(p), Advance(p), store' = store
    PROVE  pos' \in [Procs -> Nat] /\ \A q \in Procs : pos'[q] <= Len(Script[store'][q])
<1>1. /\ pos' = [pos EXCEPT ![p] = pos[p] + 1] /\ pos \in [Procs -> Nat]
      /\ \A q \in Procs : pos[q] <= Len(Script[store][q])
      /\ pos[p] # Len(Script[store][p])
  BY DEF Advance, TypeOK, Running
<1>2. Len(Script[store][p]) \in Nat
  <2>1. store \in AllStores
    BY Numbers
  <2>2. CASE \E c \in Clients : p = Client(c)
    BY <2>1, <2>2, ClientScript DEF LinkAt, Ends
  <2>3. CASE \E s \in Servers : p = Server(s)
    <3>1. PICK s \in Servers : p = Server(s)
      BY <2>3
    <3>2. Script[store][Server(s)] \in Seq(Calls)
      <4>1. CASE store = "Pilaf"
        BY <4>1, PilafServerScript
      <4>2. CASE store = "FaRM"
        BY <4>2, FarmServerScript
      <4>3. CASE store = "HydraDB"
        BY <4>3, HydraServerScript
      <4> QED
        BY <2>1, <4>1, <4>2, <4>3 DEF AllStores
    <3> QED
      BY <3>1, <3>2
  <2> QED
    BY <2>2, <2>3, Names
<1>3. pos' \in [Procs -> Nat]
  BY <1>1
<1>4. ASSUME NEW q \in Procs
      PROVE  pos'[q] <= Len(Script[store][q])
  <2>1. CASE q = p
    BY <1>1, <1>2, <2>1
  <2>2. CASE q # p
    BY <1>1, <2>2
  <2> QED
    BY <2>1, <2>2
<1> QED
  BY <1>3, <1>4

\* Outside of the round no counter changes.
LEMMA Outside ==
    ASSUME NEW st \in AllStores, NEW n \in Int
    PROVE  /\ n < 0 \/ n >= 6 => /\ ClientSent(st, n + 1) = ClientSent(st, n)
                                 /\ ClientGot(st, n + 1) = ClientGot(st, n)
           /\ n < 0 \/ n >= ServeLen(st) => /\ ServerSent(st, n + 1) = ServerSent(st, n)
                                            /\ ServerGot(st, n + 1) = ServerGot(st, n)
  BY DEF ClientSent, ClientGot, ServerSent, ServerGot, ServeLen, Past

\* What keeps MemoryInv.
LEMMA KeepsMemory ==
    ASSUME MemoryInv, store' = store, areas \subseteq areas', loaded \subseteq loaded',
           \A c \in Clients : pos'[Client(c)] >= 2 =>
             pos[Client(c)] >= 2 \/ {Client(c)} \X {"resp", "req"} \subseteq areas',
           \A s \in Servers :
             /\ pos'[Server(s)] >= 2 => pos[Server(s)] >= 2 \/ <<Server(s), "req">> \in areas'
             /\ store # "Pilaf" /\ Served(s, 0)' >= -1 =>
                  Served(s, 0) >= -1 \/ <<Server(s), "hash">> \in areas'
             /\ store = "HydraDB" /\ pos'[Server(s)] >= 3 => pos[Server(s)] >= 3 \/ s \in loaded'
    PROVE  MemoryInv'
<1>1. \A c \in Clients : pos'[Client(c)] >= 2 => {Client(c)} \X {"resp", "req"} \subseteq areas'
  BY DEF MemoryInv
<1>2. \A s \in Servers :
        /\ pos'[Server(s)] >= 2 => <<Server(s), "req">> \in areas'
        /\ store' # "Pilaf" /\ Served(s, 0)' >= -1 => <<Server(s), "hash">> \in areas'
        /\ store' = "HydraDB" /\ pos'[Server(s)] >= 3 => s \in loaded'
  BY DEF MemoryInv
<1> QED
  BY <1>1, <1>2 DEF MemoryInv

\* What keeps QueueInv.
LEMMA KeepsQueue ==
    ASSUME QueueInv, UNCHANGED <<accepted, backlog, link>>,
           \A s \in Servers, j \in Clients : Served(s, j)' >= 1 <=> Served(s, j) >= 1
    PROVE  QueueInv'
  BY DEF QueueInv, Distinct

\* What keeps LinkInv.
LEMMA KeepsLink ==
    ASSUME LinkInv, TypeOK, UNCHANGED <<store, link, dead>>,
           \A c \in Clients, s \in Servers :
             \/ Visited(c, s)' = Visited(c, s)
             \/ Visited(c, s) < 0 /\ Visited(c, s)' <= 0
             \/ Visited(c, s) >= 6 /\ Visited(c, s)' >= 1
             \/ link[c][s] = "open" /\ Visited(c, s)' >= 1
    PROVE  LinkInv'
<1>1. ASSUME NEW c \in Clients, NEW s \in Servers
      PROVE  /\ link[c][s] = "closed" => Visited(c, s)' <= 0
             /\ link[c][s] = "open" => Visited(c, s)' >= 1
             /\ link[c][s] = "refused" =>
                 IF store = "Pilaf" THEN Visited(c, s)' = 0 /\ Client(c) \in dead
                 ELSE Visited(c, s)' \in 1 .. 3
  <2>1. /\ link[c][s] = "closed" => Visited(c, s) <= 0
        /\ link[c][s] = "open" => Visited(c, s) >= 1
        /\ link[c][s] = "refused" =>
            IF store = "Pilaf" THEN Visited(c, s) = 0 /\ Client(c) \in dead
            ELSE Visited(c, s) \in 1 .. 3
    BY DEF LinkInv
  <2>2. Visited(c, s) \in Int
    BY Counts
  <2>3. CASE Visited(c, s)' = Visited(c, s)
    BY <2>1, <2>3
  <2>4. CASE Visited(c, s) < 0 /\ Visited(c, s)' <= 0
    BY <2>1, <2>2, <2>4
  <2>5. CASE Visited(c, s) >= 6 /\ Visited(c, s)' >= 1
    BY <2>1, <2>2, <2>5
  <2>6. CASE link[c][s] = "open" /\ Visited(c, s)' >= 1
    BY <2>6
  <2> QED
    BY <2>3, <2>4, <2>5, <2>6
<1>2. \A c \in Clients : Client(c) \in dead => \E s \in Servers : link[c][s] = "refused"
  BY DEF LinkInv
<1> QED
  BY <1>1, <1>2 DEF LinkInv

\* What keeps ExchangeInv when nothing is sent or read.
LEMMA KeepsExchange ==
    ASSUME ExchangeInv, UNCHANGED <<store, chan, held, accepted, link>>,
           \A c \in Clients, s \in Servers :
             /\ Visited(c, s) <= 1 => Visited(c, s)' <= 1 \/ link[c][s] = "refused"
             /\ c \in ToSet(accepted[s]) =>
                  /\ ClientSent(store, Visited(c, s)') = ClientSent(store, Visited(c, s))
                  /\ ClientGot(store, Visited(c, s)') = ClientGot(store, Visited(c, s)),
           \A s \in Servers, j \in Clients : j < Len(accepted[s]) =>
                  /\ ServerSent(store, Served(s, j)') = ServerSent(store, Served(s, j))
                  /\ ServerGot(store, Served(s, j)') = ServerGot(store, Served(s, j)),
           TypeOK
    PROVE  ExchangeInv'
<1>1. ASSUME NEW s \in Servers, NEW c \in Clients, c \notin ToSet(accepted[s])
      PROVE  Unmet(c, s)'
  <2>1. Unmet(c, s)
    BY <1>1 DEF ExchangeInv
  <2> QED
    BY <2>1 DEF Unmet
<1>2. ASSUME NEW s \in Servers, NEW j \in Clients, NEW c \in Clients,
             j < Len(accepted[s]), accepted[s][j + 1] = c
      PROVE  Met(c, s, j)'
  <2>1. c \in ToSet(accepted[s])
    <3>1. accepted[s] \in Seq(Clients)
      BY DEF TypeOK
    <3> QED
      BY <1>2, <3>1, Inside
  <2>2. Met(c, s, j)
    BY <1>2 DEF ExchangeInv
  <2> DEFINE cs == ClientSent(store, Visited(c, s))
             cg == ClientGot(store, Visited(c, s))
             ss == ServerSent(store, Served(s, j))
             sg == ServerGot(store, Served(s, j))
  <2>3. cs' = cs /\ cg' = cg /\ ss' = ss /\ sg' = sg
    BY <1>2, <2>1
  <2>4. /\ Flow(Client(c), s, Server(s), ToServer(store), cs, sg)
        /\ Flow(Server(s), j, Client(c), ToClient(store), ss, cg)
        /\ Taken(Client(c), s, Server(s), j, ToClient(store), cg)
        /\ Taken(Server(s), j, Client(c), s, ToServer(store), sg)
    BY <2>2 DEF Met
  <2> HIDE DEF cs, cg, ss, sg
  <2>5. /\ Flow(Client(c), s, Server(s), ToServer(store), cs, sg)'
        /\ Flow(Server(s), j, Client(c), ToClient(store), ss, cg)'
    BY <2>3, <2>4 DEF Flow
  <2>6. /\ Taken(Client(c), s, Server(s), j, ToClient(store), cg)'
        /\ Taken(Server(s), j, Client(c), s, ToServer(store), sg)'
    BY <2>3, <2>4 DEF Taken
  <2> QED
    BY <2>5, <2>6 DEF Met, cs, cg, ss, sg
<1>3. ASSUME NEW s \in Servers, NEW j \in Clients, ~(j < Len(accepted[s]))
      PROVE  \A w \in Places \cup Vias : held[Server(s)][w][j] = None
  BY <1>3 DEF ExchangeInv
<1> QED
  BY <1>1, <1>2, <1>3 DEF ExchangeInv

\* A queue pair is connected as before if the process has not reached the calls
\* that connect it or is past them.
Alike(n, m, ready) == n = m \/ (n < ready - 1 /\ m < ready - 1) \/ (n >= ready /\ m >= ready)

\* A queue pair stays as its count says when no mark is crossed.
LEMMA KeepsConnected ==
    ASSUME NEW q, NEW n \in Int, NEW m \in Int, NEW ready \in Int, NEW dest, NEW later,
           Alike(n, m, ready), m < ready - 1 \/ later = dest, Connected(q, n, ready, dest)
    PROVE  Connected(q, m, ready, later)
<1>1. CASE n = m
  BY <1>1 DEF Connected
<1>2. CASE n < ready - 1 /\ m < ready - 1
  BY <1>2 DEF Connected
<1>3. CASE n >= ready /\ m >= ready
  BY <1>3 DEF Connected
<1> QED
  BY <1>1, <1>2, <1>3 DEF Alike

\* What keeps QPInv when no queue pair changes.
LEMMA KeepsQP ==
    ASSUME TypeOK, QPInv, UNCHANGED <<store, qp>>,
           \A c \in Clients, s \in Servers :
             Linked(c, s)' \in Int /\ Served(s, c)' \in Int,
           \A c \in Clients, s \in Servers : \A t \in StoreVias(store) :
             /\ Alike(Linked(c, s), Linked(c, s)', LinkReady(t))
             /\ Linked(c, s)' < 1 \/ held'[Client(c)][t][s] = held[Client(c)][t][s]
             /\ Alike(Served(s, c), Served(s, c)', ServeReady(store, t))
             /\ Served(s, c)' < 4 \/ accepted'[s][c + 1] = accepted[s][c + 1]
    PROVE  QPInv'
<1>1. ASSUME NEW c \in Clients, NEW s \in Servers, NEW t \in Vias, t \in StoreVias(store)
      PROVE  /\ Connected(<<Client(c), s, t>>, Linked(c, s), LinkReady(t), held[Client(c)][t][s])'
             /\ Connected(<<Server(s), c, t>>, Served(s, c), ServeReady(store, t),
                          <<Client(accepted[s][c + 1]), s, t>>)'
  <2>1. /\ Connected(<<Client(c), s, t>>, Linked(c, s), LinkReady(t), held[Client(c)][t][s])
        /\ Connected(<<Server(s), c, t>>, Served(s, c), ServeReady(store, t),
                     <<Client(accepted[s][c + 1]), s, t>>)
    BY <1>1 DEF QPInv
  <2>2. /\ Alike(Linked(c, s), Linked(c, s)', LinkReady(t))
        /\ Linked(c, s)' < 1 \/ held'[Client(c)][t][s] = held[Client(c)][t][s]
        /\ Alike(Served(s, c), Served(s, c)', ServeReady(store, t))
        /\ Served(s, c)' < 4 \/ accepted'[s][c + 1] = accepted[s][c + 1]
        /\ Linked(c, s)' \in Int /\ Served(s, c)' \in Int
    BY <1>1
  <2>3. Linked(c, s) \in Int /\ Served(s, c) \in Int
    BY Counts
  <2>4. LinkReady(t) \in {2, 4} /\ ServeReady(store, t) \in {5, 7, 9}
    BY DEF LinkReady, ServeReady
  <2> DEFINE d1 == held[Client(c)][t][s]
             d2 == <<Client(accepted[s][c + 1]), s, t>>
             n1 == Linked(c, s)
             n2 == Served(s, c)
             r1 == LinkReady(t)
             r2 == ServeReady(store, t)
  <2>5. n1' < r1 - 1 \/ d1' = d1
    BY <2>2, <2>4
  <2>6. n2' < r2 - 1 \/ d2' = d2
    BY <2>2, <2>4
  <2>7. Alike(n1, n1', r1) /\ Alike(n2, n2', r2) /\ n1 \in Int /\ n2 \in Int
        /\ n1' \in Int /\ n2' \in Int /\ r1 \in Int /\ r2 \in Int
        /\ Connected(<<Client(c), s, t>>, n1, r1, d1) /\ Connected(<<Server(s), c, t>>, n2, r2, d2)
    BY <2>1, <2>2, <2>3, <2>4
  <2>8. r1' = r1 /\ r2' = r2
    OBVIOUS
  <2> HIDE DEF d1, d2, n1, n2, r1, r2
  <2>9. Connected(<<Client(c), s, t>>, n1', r1, d1') /\ Connected(<<Server(s), c, t>>, n2', r2, d2')
    BY <2>5, <2>6, <2>7, KeepsConnected
  <2>10. Connected(<<Client(c), s, t>>, n1, r1, d1)' /\ Connected(<<Server(s), c, t>>, n2, r2, d2)'
    BY <2>8, <2>9 DEF Connected
  <2> QED
    BY <2>10 DEF d1, d2, n1, n2, r1, r2
<1>2. ASSUME NEW c \in Clients, NEW s \in Servers, NEW t \in Vias, t \notin StoreVias(store)
      PROVE  qp'[<<Client(c), s, t>>].state = "none" /\ qp'[<<Server(s), c, t>>].state = "none"
  BY <1>2 DEF QPInv
<1>3. StoreVias(store') = StoreVias(store)
  OBVIOUS
<1> QED
  BY <1>1, <1>2, <1>3 DEF QPInv

\* What keeps AlertInv.
LEMMA KeepsAlert ==
    ASSUME AlertInv, UNCHANGED <<store, heard>>, recvs \subseteq recvs',
           \A s \in Servers, j \in Clients : j < Len(accepted[s]) =>
             j < Len(accepted'[s]) /\ accepted'[s][j + 1] = accepted[s][j + 1],
           store = "Pilaf" =>
             /\ \A s \in Servers : pos'[Server(s)] >= 5 + 10 * NumClients =>
                  \/ pos[Server(s)] >= 5 + 10 * NumClients
                  \/ {Server(s)} \X Assigned(s) \X {"uc"} \subseteq recvs'
             /\ \A c \in Clients : pos'[Client(c)] >= 4 + 10 * NumServers =>
                  \/ pos[Client(c)] >= 4 + 10 * NumServers
                  \/ <<Client(c), ServerOf(c), "uc">> \in heard
    PROVE  AlertInv'
<1>1. ASSUME store = "Pilaf", NEW s \in Servers, pos'[Server(s)] >= 5 + 10 * NumClients
      PROVE  {Server(s)} \X Assigned(s) \X {"uc"} \subseteq recvs'
  <2>1. CASE pos[Server(s)] >= 5 + 10 * NumClients
    <3>1. {Server(s)} \X Assigned(s) \X {"uc"} \subseteq recvs
      BY <1>1, <2>1 DEF AlertInv
    <3> QED
      BY <3>1
  <2> QED
    BY <1>1, <2>1
<1>2. ASSUME store = "Pilaf", NEW c \in Clients, pos'[Client(c)] >= 4 + 10 * NumServers
      PROVE  <<Client(c), ServerOf(c), "uc">> \in heard
  BY <1>2 DEF AlertInv
<1>3. ASSUME NEW c \in Clients, NEW s \in Servers, <<Client(c), s, "uc">> \in heard
      PROVE  \E j \in Clients : /\ j < Len(accepted'[s]) /\ accepted'[s][j + 1] = c
                                /\ <<Server(s), j, "uc">> \in recvs'
  <2>1. PICK j \in Clients : /\ j < Len(accepted[s]) /\ accepted[s][j + 1] = c
                             /\ <<Server(s), j, "uc">> \in recvs
    BY <1>3 DEF AlertInv
  <2> QED
    BY <2>1
<1> QED
  BY <1>1, <1>2, <1>3 DEF AlertInv

\* In the middle of its set-up a process registers nothing, posts no RECVs and
\* waits for no alert.
LEMMA ClientBusy ==
    ASSUME TypeOK, MemoryInv, AlertInv, NEW c \in Clients, Advance(Client(c)),
           UNCHANGED <<store, areas, loaded, recvs, heard, accepted>>, pos[Client(c)] >= 2,
           store = "Pilaf" => pos[Client(c)] <= 2 + 10 * NumServers
    PROVE  MemoryInv' /\ AlertInv'
<1>1. /\ pos'[Client(c)] = pos[Client(c)] + 1
      /\ \A d \in Clients : d # c => pos'[Client(d)] = pos[Client(d)]
      /\ \A s \in Servers : pos'[Server(s)] = pos[Server(s)]
      /\ \A s \in Servers, j \in Clients : Served(s, j)' = Served(s, j)
  BY ClientMoves
<1>2. 0 \in Clients /\ pos[Client(c)] \in Nat /\ 10 * NumServers \in Nat
  BY Counts, Sizes
<1>3. \A d \in Clients : pos'[Client(d)] >= 2 => pos[Client(d)] >= 2
  BY <1>1
<1>4. MemoryInv'
  BY <1>1, <1>2, <1>3, KeepsMemory
<1>5. ASSUME store = "Pilaf", NEW d \in Clients, pos'[Client(d)] >= 4 + 10 * NumServers
      PROVE  pos[Client(d)] >= 4 + 10 * NumServers
  <2>1. CASE d = c
    <3>1. pos'[Client(c)] <= 3 + 10 * NumServers
      BY <1>1, <1>2, <1>5
    <3> QED
      BY <1>1, <1>2, <1>5, <2>1, <3>1
  <2> QED
    BY <1>1, <1>5, <2>1
<1>6. AlertInv'
  BY <1>1, <1>5, KeepsAlert
<1> QED
  BY <1>4, <1>6

\* The same for a server.
LEMMA ServerBusy ==
    ASSUME TypeOK, MemoryInv, AlertInv, NEW s \in Servers, Advance(Server(s)),
           UNCHANGED <<store, areas, loaded, recvs, heard>>,
           \A r \in Servers, j \in Clients : j < Len(accepted[r]) =>
             j < Len(accepted'[r]) /\ accepted'[r][j + 1] = accepted[r][j + 1],
           Served(s, 0) >= -1, store = "Pilaf" => pos[Server(s)] <= 3 + 10 * NumClients
    PROVE  MemoryInv' /\ AlertInv'
<1>1. /\ pos'[Server(s)] = pos[Server(s)] + 1
      /\ \A r \in Servers : r # s => pos'[Server(r)] = pos[Server(r)]
      /\ \A d \in Clients : pos'[Client(d)] = pos[Client(d)]
      /\ \A r \in Servers, j \in Clients : r # s => Served(r, j)' = Served(r, j)
  BY ServerMoves
<1>2. 0 \in Clients /\ pos[Server(s)] \in Nat /\ 10 * NumClients \in Nat
  BY Counts, Sizes
<1>3. store \in AllStores
  BY Numbers
<1>4. pos[Server(s)] >= 2 /\ (store = "HydraDB" => pos[Server(s)] >= 3)
  <2>1. ServeAt(store, 0) = IF store = "HydraDB" THEN 5 ELSE 3
    BY <1>3 DEF ServeAt, AllStores
  <2>2. pos[Server(s)] - ServeAt(store, 0) >= -1
    BY DEF Served
  <2> QED
    BY <1>2, <2>1, <2>2
<1>5. \A r \in Servers :
        /\ pos'[Server(r)] >= 2 => pos[Server(r)] >= 2
        /\ Served(r, 0)' >= -1 => Served(r, 0) >= -1
        /\ store = "HydraDB" /\ pos'[Server(r)] >= 3 => pos[Server(r)] >= 3
  BY <1>1, <1>2, <1>4
<1>6. MemoryInv'
  BY <1>1, <1>5, KeepsMemory
<1>7. ASSUME store = "Pilaf", NEW r \in Servers, pos'[Server(r)] >= 5 + 10 * NumClients
      PROVE  pos[Server(r)] >= 5 + 10 * NumClients
  <2>1. CASE r = s
    <3>1. pos'[Server(s)] <= 4 + 10 * NumClients
      BY <1>1, <1>2, <1>7
    <3> QED
      BY <1>1, <1>2, <1>7, <2>1, <3>1
  <2> QED
    BY <1>1, <1>7, <2>1
<1>8. AlertInv'
  BY <1>1, <1>7, KeepsAlert
<1> QED
  BY <1>6, <1>8

\* A call outside of the exchange.
LEMMA ClientQuiet ==
    ASSUME TypeOK, QueueInv, LinkInv, ExchangeInv, NEW c \in Clients, Advance(Client(c)),
           UNCHANGED <<store, accepted, backlog, link, chan, held, dead>>,
           \A s \in Servers : Visited(c, s) < 0 \/ Visited(c, s) >= 6
    PROVE  QueueInv' /\ LinkInv' /\ ExchangeInv'
<1>1. /\ \A d \in Clients, s \in Servers :
           /\ d = c => Visited(d, s)' = Visited(d, s) + 1
           /\ d # c => Visited(d, s)' = Visited(d, s)
      /\ \A s \in Servers, j \in Clients : Served(s, j)' = Served(s, j)
  BY ClientMoves
<1>2. store \in AllStores /\ \A d \in Clients, s \in Servers : Visited(d, s) \in Int
  BY Numbers, Counts
<1>3. QueueInv'
  BY <1>1, KeepsQueue
<1>4. \A d \in Clients, s \in Servers :
        \/ Visited(d, s)' = Visited(d, s)
        \/ Visited(d, s) < 0 /\ Visited(d, s)' <= 0
        \/ Visited(d, s) >= 6 /\ Visited(d, s)' >= 1
  BY <1>1, <1>2
<1>5. LinkInv'
  BY <1>4, KeepsLink
<1>6. ASSUME NEW d \in Clients, NEW s \in Servers
      PROVE  /\ Visited(d, s) <= 1 => Visited(d, s)' <= 1
             /\ ClientSent(store, Visited(d, s)') = ClientSent(store, Visited(d, s))
             /\ ClientGot(store, Visited(d, s)') = ClientGot(store, Visited(d, s))
  <2>1. CASE d = c
    <3>1. Visited(d, s)' = Visited(d, s) + 1 /\ (Visited(d, s) < 0 \/ Visited(d, s) >= 6)
      BY <1>1, <2>1
    <3>2. Visited(d, s) \in Int
      BY <1>2
    <3>3. Visited(d, s) <= 1 => Visited(d, s)' <= 1
      BY <3>1, <3>2
    <3>4. /\ ClientSent(store, Visited(d, s) + 1) = ClientSent(store, Visited(d, s))
          /\ ClientGot(store, Visited(d, s) + 1) = ClientGot(store, Visited(d, s))
      BY <1>2, <3>1, <3>2, Outside
    <3> QED
      BY <3>1, <3>3, <3>4
  <2> QED
    BY <1>1, <2>1
<1>7. ExchangeInv'
  BY <1>1, <1>6, KeepsExchange
<1> QED
  BY <1>3, <1>5, <1>7

\* The same for a server between its rounds, or at a call that is none of the
\* exchange.
LEMMA ServerQuiet ==
    ASSUME TypeOK, QueueInv, LinkInv, ExchangeInv, NEW s \in Servers, Advance(Server(s)),
           UNCHANGED <<store, accepted, backlog, link, chan, held, dead>>,
           \A j \in Clients :
             /\ Served(s, j) + 1 >= 1 => Served(s, j) >= 1
             /\ ServerSent(store, Served(s, j) + 1) = ServerSent(store, Served(s, j))
             /\ ServerGot(store, Served(s, j) + 1) = ServerGot(store, Served(s, j))
    PROVE  QueueInv' /\ LinkInv' /\ ExchangeInv'
<1>1. /\ \A d \in Clients, r \in Servers : Visited(d, r)' = Visited(d, r)
      /\ \A r \in Servers, j \in Clients :
           /\ r = s => Served(r, j)' = Served(r, j) + 1
           /\ r # s => Served(r, j)' = Served(r, j)
  BY ServerMoves
<1>2. \A r \in Servers, j \in Clients : Served(r, j) \in Int
  BY Counts
<1>3. \A r \in Servers, j \in Clients : Served(r, j)' >= 1 <=> Served(r, j) >= 1
  BY <1>1, <1>2
<1>4. QueueInv'
  BY <1>3, KeepsQueue
<1>5. LinkInv'
  BY <1>1, KeepsLink
<1>6. \A r \in Servers, j \in Clients :
        /\ ServerSent(store, Served(r, j)') = ServerSent(store, Served(r, j))
        /\ ServerGot(store, Served(r, j)') = ServerGot(store, Served(r, j))
  BY <1>1
<1>7. ExchangeInv'
  BY <1>1, <1>6, KeepsExchange
<1> QED
  BY <1>4, <1>5, <1>7

\* The same for the queue pairs.
LEMMA ClientKeepsQP ==
    ASSUME TypeOK, QPInv, NEW c \in Clients, Advance(Client(c)), UNCHANGED <<store, qp, accepted>>,
           \A d \in Clients : d # c => held'[Client(d)] = held[Client(d)],
           \A s \in Servers : \/ Linked(c, s) < 0
                              \/ Linked(c, s) >= LinkLen(store) /\ held' = held
    PROVE  QPInv'
<1>1. /\ \A d \in Clients, s \in Servers :
           /\ d = c => Linked(d, s)' = Linked(d, s) + 1
           /\ d # c => Linked(d, s)' = Linked(d, s)
      /\ \A s \in Servers, j \in Clients : Served(s, j)' = Served(s, j)
  BY ClientMoves
<1>2. \A d \in Clients, s \in Servers : Linked(d, s) \in Int /\ Served(s, d) \in Int
  BY Counts
<1>3. store \in AllStores
  BY Numbers
<1>4. \A t \in StoreVias(store) : LinkReady(t) \in {2, 4} /\ LinkReady(t) <= LinkLen(store)
  BY <1>3 DEF LinkReady, LinkLen, StoreVias, Vias
<1>5. ASSUME NEW d \in Clients, NEW s \in Servers, NEW t \in StoreVias(store)
      PROVE  /\ Alike(Linked(d, s), Linked(d, s)', LinkReady(t))
             /\ Linked(d, s)' < 1 \/ held'[Client(d)][t][s] = held[Client(d)][t][s]
             /\ Linked(d, s)' \in Int
  <2>1. CASE d # c
    BY <1>1, <1>2, <2>1 DEF Alike
  <2>2. CASE d = c /\ Linked(c, s) < 0
    <3>1. Linked(d, s) \in Int /\ Linked(d, s)' = Linked(d, s) + 1 /\ Linked(d, s) < 0
      BY <1>1, <1>2, <2>2
    <3>2. Linked(d, s)' < 1 /\ Linked(d, s)' \in Int
      BY <3>1
    <3>3. Linked(d, s) < LinkReady(t) - 1 /\ Linked(d, s)' < LinkReady(t) - 1
      BY <1>4, <3>1
    <3> QED
      BY <3>2, <3>3 DEF Alike
  <2>3. CASE d = c /\ Linked(c, s) >= LinkLen(store) /\ held' = held
    <3>1. Linked(d, s) \in Int /\ Linked(d, s)' = Linked(d, s) + 1 /\ Linked(d, s) >= LinkLen(store)
      BY <1>1, <1>2, <2>3
    <3>2. LinkLen(store) \in Int
      BY DEF LinkLen
    <3>3. Linked(d, s) >= LinkReady(t) /\ Linked(d, s)' >= LinkReady(t) /\ Linked(d, s)' \in Int
      BY <1>4, <3>1, <3>2
    <3> QED
      BY <2>3, <3>3 DEF Alike
  <2> QED
    BY <2>1, <2>2, <2>3
<1>6. \A d \in Clients, s \in Servers : \A t \in StoreVias(store) :
         Alike(Served(s, d), Served(s, d)', ServeReady(store, t))
  BY <1>1 DEF Alike
<1>7. \A d \in Clients, s \in Servers : Linked(d, s)' \in Int /\ Served(s, d)' \in Int
  BY <1>1, <1>2
<1> QED
  BY <1>5, <1>6, <1>7, KeepsQP

\* The same for a server.
LEMMA ServerKeepsQP ==
    ASSUME TypeOK, QPInv, NEW s \in Servers, Advance(Server(s)), UNCHANGED <<store, qp>>,
           \A d \in Clients : held'[Client(d)] = held[Client(d)],
           \A j \in Clients, t \in StoreVias(store) :
             Alike(Served(s, j), Served(s, j) + 1, ServeReady(store, t)),
           \A r \in Servers, j \in Clients :
             Served(r, j)' < 4 \/ accepted'[r][j + 1] = accepted[r][j + 1]
    PROVE  QPInv'
<1>1. /\ \A d \in Clients, r \in Servers : Linked(d, r)' = Linked(d, r)
      /\ \A r \in Servers, j \in Clients :
           /\ r = s => Served(r, j)' = Served(r, j) + 1
           /\ r # s => Served(r, j)' = Served(r, j)
  BY ServerMoves
<1>2. \A d \in Clients, r \in Servers : Linked(d, r) \in Int /\ Served(r, d) \in Int
  BY Counts
<1>3. \A r \in Servers, j \in Clients, t \in StoreVias(store) :
        /\ Alike(Served(r, j), Served(r, j)', ServeReady(store, t))
        /\ Alike(Linked(j, r), Linked(j, r)', LinkReady(t))
  BY <1>1 DEF Alike
<1>4. \A d \in Clients, r \in Servers : Linked(d, r)' \in Int /\ Served(r, d)' \in Int
  BY <1>1, <1>2
<1> QED
  BY <1>3, <1>4, KeepsQP

\* The queue pairs, by process.
LEMMA QPNames ==
    /\ \A c \in Clients, s \in Servers, t \in Vias :
         <<Client(c), s, t>> \in AllQPs /\ <<Server(s), c, t>> \in AllQPs
    /\ \A q \in AllQPs : \/ \E c \in Clients, s \in Servers, t \in Vias : q = <<Client(c), s, t>>
                         \/ \E c \in Clients, s \in Servers, t \in Vias : q = <<Server(s), c, t>>
<1>1. ASSUME NEW p \in Procs, NEW i \in Conns(p), NEW t \in Vias
      PROVE  <<p, i, t>> \in AllQPs
  BY DEF AllQPs
<1>2. ASSUME NEW c \in Clients, NEW s \in Servers, NEW t \in Vias
      PROVE  <<Client(c), s, t>> \in AllQPs /\ <<Server(s), c, t>> \in AllQPs
  <2>1. Client(c) \in Procs /\ s \in Conns(Client(c)) /\ Server(s) \in Procs /\ c \in Conns(Server(s))
    BY Names
  <2> QED
    BY <1>1, <2>1
<1>3. ASSUME NEW q \in AllQPs
      PROVE  \/ \E c \in Clients, s \in Servers, t \in Vias : q = <<Client(c), s, t>>
             \/ \E c \in Clients, s \in Servers, t \in Vias : q = <<Server(s), c, t>>
  <2>1. PICK p \in Procs : q \in {p} \X Conns(p) \X Vias
    BY DEF AllQPs
  <2>2. PICK i \in Conns(p), t \in Vias : q = <<p, i, t>>
    BY <2>1
  <2> QED
    BY <2>2, Names
<1> QED
  BY <1>2, <1>3

\* A client changes a queue pair of its own.
LEMMA ClientQPs ==
    ASSUME TypeOK, QPInv, NEW c \in Clients, Advance(Client(c)), UNCHANGED <<store, accepted, held>>,
           \A d \in Clients, s \in Servers, t \in Vias :
             /\ d # c => qp'[<<Client(d), s, t>>] = qp[<<Client(d), s, t>>]
             /\ qp'[<<Server(s), d, t>>] = qp[<<Server(s), d, t>>],
           \A s \in Servers, t \in Vias :
             IF t \in StoreVias(store)
             THEN Connected(<<Client(c), s, t>>, Linked(c, s), LinkReady(t), held[Client(c)][t][s])'
             ELSE qp'[<<Client(c), s, t>>].state = "none"
    PROVE  QPInv'
<1>1. /\ \A d \in Clients, s \in Servers : d # c => Linked(d, s)' = Linked(d, s)
      /\ \A s \in Servers, j \in Clients : Served(s, j)' = Served(s, j)
  BY ClientMoves
<1>2. ASSUME NEW d \in Clients, NEW s \in Servers, NEW t \in Vias, t \in StoreVias(store)
      PROVE  /\ Connected(<<Client(d), s, t>>, Linked(d, s), LinkReady(t), held[Client(d)][t][s])'
             /\ Connected(<<Server(s), d, t>>, Served(s, d), ServeReady(store, t),
                          <<Client(accepted[s][d + 1]), s, t>>)'
  <2>1. /\ Connected(<<Client(d), s, t>>, Linked(d, s), LinkReady(t), held[Client(d)][t][s])
        /\ Connected(<<Server(s), d, t>>, Served(s, d), ServeReady(store, t),
                     <<Client(accepted[s][d + 1]), s, t>>)
    BY <1>2 DEF QPInv
  <2>2. Connected(<<Server(s), d, t>>, Served(s, d), ServeReady(store, t),
                  <<Client(accepted[s][d + 1]), s, t>>)'
    BY <1>1, <2>1 DEF Connected
  <2>3. CASE d = c
    BY <1>2, <2>2, <2>3
  <2>4. CASE d # c
    <3>1. Connected(<<Client(d), s, t>>, Linked(d, s), LinkReady(t), held[Client(d)][t][s])'
      BY <1>1, <2>1, <2>4 DEF Connected
    <3> QED
      BY <2>2, <3>1
  <2> QED
    BY <2>3, <2>4
<1>3. ASSUME NEW d \in Clients, NEW s \in Servers, NEW t \in Vias, t \notin StoreVias(store)
      PROVE  qp'[<<Client(d), s, t>>].state = "none" /\ qp'[<<Server(s), d, t>>].state = "none"
  <2>1. qp[<<Client(d), s, t>>].state = "none" /\ qp[<<Server(s), d, t>>].state = "none"
    BY <1>3 DEF QPInv
  <2> QED
    BY <1>3, <2>1
<1>4. StoreVias(store') = StoreVias(store)
  OBVIOUS
<1> QED
  BY <1>2, <1>3, <1>4 DEF QPInv

\* A server changes a queue pair of its own.
LEMMA ServerQPs ==
    ASSUME TypeOK, QPInv, NEW s \in Servers, Advance(Server(s)), UNCHANGED <<store, accepted, held>>,
           \A d \in Clients, r \in Servers, t \in Vias :
             /\ qp'[<<Client(d), r, t>>] = qp[<<Client(d), r, t>>]
             /\ r # s => qp'[<<Server(r), d, t>>] = qp[<<Server(r), d, t>>],
           \A j \in Clients, t \in Vias :
             IF t \in StoreVias(store)
             THEN Connected(<<Server(s), j, t>>, Served(s, j), ServeReady(store, t),
                            <<Client(accepted[s][j + 1]), s, t>>)'
             ELSE qp'[<<Server(s), j, t>>].state = "none"
    PROVE  QPInv'
<1>1. /\ \A d \in Clients, r \in Servers : Linked(d, r)' = Linked(d, r)
      /\ \A r \in Servers, j \in Clients : r # s => Served(r, j)' = Served(r, j)
  BY ServerMoves
<1>2. ASSUME NEW d \in Clients, NEW r \in Servers, NEW t \in Vias, t \in StoreVias(store)
      PROVE  /\ Connected(<<Client(d), r, t>>, Linked(d, r), LinkReady(t), held[Client(d)][t][r])'
             /\ Connected(<<Server(r), d, t>>, Served(r, d), ServeReady(store, t),
                          <<Client(accepted[r][d + 1]), r, t>>)'
  <2>1. /\ Connected(<<Client(d), r, t>>, Linked(d, r), LinkReady(t), held[Client(d)][t][r])
        /\ Connected(<<Server(r), d, t>>, Served(r, d), ServeReady(store, t),
                     <<Client(accepted[r][d + 1]), r, t>>)
    BY <1>2 DEF QPInv
  <2>2. Connected(<<Client(d), r, t>>, Linked(d, r), LinkReady(t), held[Client(d)][t][r])'
    BY <1>1, <2>1 DEF Connected
  <2>3. CASE r = s
    BY <1>2, <2>2, <2>3
  <2>4. CASE r # s
    <3>1. Connected(<<Server(r), d, t>>, Served(r, d), ServeReady(store, t),
                    <<Client(accepted[r][d + 1]), r, t>>)'
      BY <1>1, <2>1, <2>4 DEF Connected
    <3> QED
      BY <2>2, <3>1
  <2> QED
    BY <2>3, <2>4
<1>3. ASSUME NEW d \in Clients, NEW r \in Servers, NEW t \in Vias, t \notin StoreVias(store)
      PROVE  qp'[<<Client(d), r, t>>].state = "none" /\ qp'[<<Server(r), d, t>>].state = "none"
  <2>1. qp[<<Client(d), r, t>>].state = "none" /\ qp[<<Server(r), d, t>>].state = "none"
    BY <1>3 DEF QPInv
  <2> QED
    BY <1>3, <2>1
<1>4. StoreVias(store') = StoreVias(store)
  OBVIOUS
<1> QED
  BY <1>2, <1>3, <1>4 DEF QPInv
-----------------------------------------------------------------------------
(***************************************************************************)
(* The invariant holds initially, and every call keeps it.                 *)
(***************************************************************************)
\* The invariant holds in the beginning.
LEMMA Initially ==
    ASSUME Init
    PROVE  IInv
<1>1. store \in AllStores
  BY StoresAssumption DEF Init, AllStores
<1>2. /\ \A c \in Clients : pos[Client(c)] = 0
      /\ \A s \in Servers : pos[Server(s)] = 0
  BY Names DEF Init
<1>3. /\ \A c \in Clients, s \in Servers : Visited(c, s) < 0 /\ Linked(c, s) < 0
      /\ \A s \in Servers, j \in Clients : Served(s, j) < -1
  <2>1. \A c \in Clients, s \in Servers : Visited(c, s) < 0 /\ Linked(c, s) < 0
    BY <1>2 DEF Visited, VisitAt, Linked, LinkAt
  <2>2. \A s \in Servers, j \in Clients : Served(s, j) < -1
    BY <1>2 DEF Served, ServeAt
  <2> QED
    BY <2>1, <2>2
<1>3a. /\ \A c \in Clients, s \in Servers : Visited(c, s) \in Int /\ Linked(c, s) \in Int
       /\ \A s \in Servers, j \in Clients : Served(s, j) \in Int
  <2>1. \A c \in Clients, s \in Servers : Visited(c, s) \in Int /\ Linked(c, s) \in Int
    BY <1>2 DEF Visited, VisitAt, Linked, LinkAt
  <2>2. \A s \in Servers, j \in Clients : Served(s, j) \in Int
    BY <1>2 DEF Served, ServeAt
  <2> QED
    BY <2>1, <2>2
<1>4. TypeOK
  <2>1. ASSUME NEW p \in Procs
        PROVE  pos[p] <= Len(Script[store][p])
    <3>1. Len(Script[store][p]) \in Nat
      <4>1. CASE \E c \in Clients : p = Client(c)
        BY <1>1, <4>1, ClientScript DEF LinkAt, Ends
      <4>2. CASE \E s \in Servers : p = Server(s)
        <5>1. PICK s \in Servers : p = Server(s)
          BY <4>2
        <5>2. Script[store][Server(s)] \in Seq(Calls)
          <6>1. CASE store = "Pilaf"
            BY <6>1, PilafServerScript
          <6>2. CASE store = "FaRM"
            BY <6>2, FarmServerScript
          <6>3. CASE store = "HydraDB"
            BY <6>3, HydraServerScript
          <6> QED
            BY <1>1, <6>1, <6>2, <6>3 DEF AllStores
        <5> QED
          BY <5>1, <5>2
      <4> QED
        BY <4>1, <4>2, Names
    <3>2. pos[p] = 0
      BY DEF Init
    <3> QED
      BY <3>1, <3>2
  <2>2. pos \in [Procs -> Nat] /\ store \in Stores /\ dead \subseteq ClientProcs
    BY DEF Init
  <2>3. qp \in [AllQPs -> [state : {"none", "init", "rtr", "rts"}, dest : AllQPs \cup {None}]]
    BY DEF Init
  <2>4. /\ areas \subseteq Areas
        /\ loaded \subseteq Servers /\ listening \subseteq Servers
        /\ backlog \in [Servers -> Seq(Clients)] /\ accepted \in [Servers -> Seq(Clients)]
        /\ link \in [Clients -> [Servers -> {"closed", "open", "refused"}]]
        /\ recvs \cup heard \cup lost \subseteq AllQPs
    BY DEF Init
  <2>5. chan \in [Procs \X Procs -> Seq(Data)]
    BY DEF Init
  <2>6. /\ DOMAIN held = Procs
        /\ \A p \in Procs : held[p] \in [Places \cup Vias -> [Conns(p) -> Data \cup {None}]]
    BY DEF Init
  <2> QED
    BY <2>1, <2>2, <2>3, <2>4, <2>5, <2>6 DEF TypeOK
<1>5. MemoryInv
  <2>1. \A s \in Servers : ~(Served(s, 0) >= -1)
    BY <1>3, <1>3a
  <2> QED
    BY <1>2, <2>1 DEF MemoryInv
<1>6. QueueInv
  <2>1. \A s \in Servers : accepted[s] = <<>> /\ backlog[s] = <<>>
    BY DEF Init
  <2>2. \A s \in Servers, j \in Clients : ~(Served(s, j) >= 1)
    BY <1>3, <1>3a
  <2>3. ToSet(<<>>) = {}
    BY DEF ToSet
  <2>4. \A c \in Clients, s \in Servers : link[c][s] # "open"
    BY DEF Init
  <2> QED
    BY <2>1, <2>2, <2>3, <2>4 DEF QueueInv, Distinct
<1>7. LinkInv
  <2>1. (\A c \in Clients, s \in Servers : link[c][s] = "closed") /\ dead = {}
    BY DEF Init
  <2>2. \A c \in Clients, s \in Servers : Visited(c, s) <= 0
    BY <1>3, <1>3a
  <2> QED
    BY <2>1, <2>2 DEF LinkInv
<1>8. ExchangeInv
  <2>1. \A s \in Servers : accepted[s] = <<>>
    BY DEF Init
  <2>2. \A p, q \in Procs : chan[<<p, q>>] = <<>>
    BY DEF Init
  <2>3. \A p \in Procs, w \in Places \cup Vias : \A i \in Conns(p) : held[p][w][i] = None
    BY DEF Init
  <2>4. \A c \in Clients, s \in Servers : Unmet(c, s)
    <3>1. \A c \in Clients, s \in Servers : Visited(c, s) <= 1
      BY <1>3, <1>3a
    <3> QED
      BY <2>2, <2>3, <3>1, Names DEF Unmet
  <2>5. \A s \in Servers, j \in Clients, w \in Places \cup Vias : held[Server(s)][w][j] = None
    BY <2>3, Names
  <2>6. \A s \in Servers, j \in Clients : ~(j < Len(accepted[s]))
    BY <2>1
  <2> QED
    BY <2>4, <2>5, <2>6 DEF ExchangeInv
<1>9. QPInv
  <2>1. \A c \in Clients, s \in Servers, t \in Vias :
          qp[<<Client(c), s, t>>].state = "none" /\ qp[<<Server(s), c, t>>].state = "none"
    BY QPNames DEF Init
  <2>2. \A t \in Vias : LinkReady(t) \in {2, 4} /\ ServeReady(store, t) \in {5, 7, 9}
    BY DEF LinkReady, ServeReady
  <2>3. \A c \in Clients, s \in Servers, t \in Vias :
          /\ ~(Linked(c, s) >= LinkReady(t)) /\ Linked(c, s) # LinkReady(t) - 1
          /\ ~(Served(s, c) >= ServeReady(store, t)) /\ Served(s, c) # ServeReady(store, t) - 1
    <3>1. \A c \in Clients, s \in Servers, t \in Vias :
            ~(Linked(c, s) >= LinkReady(t)) /\ Linked(c, s) # LinkReady(t) - 1
      BY <1>3, <1>3a, <2>2
    <3>2. \A c \in Clients, s \in Servers, t \in Vias :
            ~(Served(s, c) >= ServeReady(store, t)) /\ Served(s, c) # ServeReady(store, t) - 1
      BY <1>3, <1>3a, <2>2
    <3> QED
      BY <3>1, <3>2
  <2> QED
    BY <2>1, <2>3 DEF QPInv, Connected
<1>10. AlertInv
  <2>1. heard = {}
    BY DEF Init
  <2>2. \A c \in Clients, s \in Servers :
          ~(pos[Server(s)] >= 5 + 10 * NumClients) /\ ~(pos[Client(c)] >= 4 + 10 * NumServers)
    BY <1>2
  <2> QED
    BY <2>1, <2>2 DEF AlertInv
<1> QED
  BY <1>4, <1>5, <1>6, <1>7, <1>8, <1>9, <1>10 DEF IInv

\* The type of what a step leaves alone, and of the positions.
LEMMA KeepsType ==
    ASSUME TypeOK, NEW p \in Procs, ~Running(p), Advance(p), UNCHANGED store,
           UNCHANGED <<dead, backlog, accepted, link, chan, held>>, listening' \subseteq Servers,
           qp' \in [AllQPs -> [state : {"none", "init", "rtr", "rts"}, dest : AllQPs \cup {None}]],
           areas' \subseteq Areas, loaded' \subseteq Servers,
           recvs' \cup heard' \cup lost' \subseteq AllQPs
    PROVE  TypeOK'
<1>1. pos' \in [Procs -> Nat] /\ \A q \in Procs : pos'[q] <= Len(Script[store'][q])
  BY PosType
<1>2. /\ store \in Stores /\ dead \subseteq ClientProcs
      /\ backlog \in [Servers -> Seq(Clients)] /\ accepted \in [Servers -> Seq(Clients)]
      /\ link \in [Clients -> [Servers -> {"closed", "open", "refused"}]]
      /\ chan \in [Procs \X Procs -> Seq(Data)]
      /\ DOMAIN held = Procs
      /\ \A q \in Procs : held[q] \in [Places \cup Vias -> [Conns(q) -> Data \cup {None}]]
  BY DEF TypeOK
<1> QED
  BY <1>1, <1>2 DEF TypeOK

\* A client creates its queue pairs.
LEMMA ClientInitCtx ==
    ASSUME IInv, NEW c \in Clients, InitCtx(Client(c))
    PROVE  IInv'
<1>0. TypeOK /\ MemoryInv /\ QueueInv /\ LinkInv /\ ExchangeInv /\ QPInv /\ AlertInv
  BY DEF IInv
<1>1. /\ ~Running(Client(c)) /\ Call(Client(c)).call = "init_ctx" /\ Advance(Client(c))
      /\ UNCHANGED <<store, dead, areas, loaded, listening, backlog, accepted, link, chan, held,
                     recvs, heard, lost>>
  BY DEF InitCtx, At, netVars
<1>2. Call(Client(c)) = Step("init_ctx", 0, StoreVias(store)) /\ pos[Client(c)] = 0
  BY <1>0, <1>1, ClientOthers DEF Step
<1>3. qp' = [q \in AllQPs |-> IF q \in {Client(c)} \X Servers \X StoreVias(store)
                              THEN [qp[q] EXCEPT !.state = "init"] ELSE qp[q]]
  <2>1. Conns(Client(c)) = Servers /\ Call(Client(c)).what = StoreVias(store)
    BY <1>2, Names DEF Step
  <2> QED
    BY <2>1 DEF InitCtx
<1>4. /\ pos'[Client(c)] = 1
      /\ \A d \in Clients : d # c => pos'[Client(d)] = pos[Client(d)]
      /\ \A s \in Servers : pos'[Server(s)] = pos[Server(s)]
      /\ \A s \in Servers, j \in Clients : Served(s, j)' = Served(s, j)
      /\ \A s \in Servers : Linked(c, s)' = Linked(c, s) + 1
  BY <1>0, <1>1, <1>2, ClientMoves
<1>5. \A s \in Servers : Visited(c, s) < 0 /\ Linked(c, s) < 0 /\ Linked(c, s) \in Int
  BY <1>2 DEF Visited, VisitAt, Linked, LinkAt
<1>6. /\ \A q \in AllQPs : qp[q] \in [state : {"none", "init", "rtr", "rts"}, dest : AllQPs \cup {None}]
      /\ areas \subseteq Areas /\ loaded \subseteq Servers /\ listening \subseteq Servers
      /\ recvs \cup heard \cup lost \subseteq AllQPs
  BY <1>0 DEF TypeOK
<1>7. TypeOK'
  <2>1. qp' \in [AllQPs -> [state : {"none", "init", "rtr", "rts"}, dest : AllQPs \cup {None}]]
    BY <1>3, <1>6
  <2> QED
    BY <1>0, <1>1, <1>6, <2>1, Names, KeepsType
<1>8. MemoryInv' /\ AlertInv'
  <2>1. MemoryInv'
    BY <1>0, <1>1, <1>4, KeepsMemory
  <2>2. \A d \in Clients : pos'[Client(d)] >= 4 + 10 * NumServers => pos[Client(d)] >= 4 + 10 * NumServers
    <3>1. ~(pos'[Client(c)] >= 4 + 10 * NumServers)
      BY <1>4
    <3> QED
      BY <1>4, <3>1
  <2> QED
    BY <1>0, <1>1, <1>4, <2>1, <2>2, KeepsAlert
<1>9. QueueInv' /\ LinkInv' /\ ExchangeInv'
  BY <1>0, <1>1, <1>5, ClientQuiet
<1>10. QPInv'
  <2>1. \A d \in Clients, s \in Servers, t \in Vias :
          /\ d # c => qp'[<<Client(d), s, t>>] = qp[<<Client(d), s, t>>]
          /\ qp'[<<Server(s), d, t>>] = qp[<<Server(s), d, t>>]
    BY <1>3, Names, QPNames
  <2>2. \A s \in Servers : \A t \in StoreVias(store) :
          Connected(<<Client(c), s, t>>, Linked(c, s), LinkReady(t), held[Client(c)][t][s])'
    <3> SUFFICES ASSUME NEW s \in Servers, NEW t \in StoreVias(store)
                 PROVE  Connected(<<Client(c), s, t>>, Linked(c, s), LinkReady(t), held[Client(c)][t][s])'
      OBVIOUS
    <3>1. StoreVias(store) \subseteq Vias /\ LinkReady(t) \in {2, 4}
      BY DEF StoreVias, Vias, LinkReady
    <3>2. <<Client(c), s, t>> \in AllQPs
      BY <3>1, QPNames
    <3>3. qp'[<<Client(c), s, t>>].state = "init"
      BY <1>3, <1>6, <3>2
    <3>4. Linked(c, s)' < 1 /\ Linked(c, s)' \in Int
      BY <1>4, <1>5
    <3>5. Linked(c, s)' # LinkReady(t) - 1 /\ ~(Linked(c, s)' >= LinkReady(t))
      BY <3>1, <3>4
    <3> QED
      BY <3>3, <3>5 DEF Connected
  <2>3. \A s \in Servers, t \in Vias : t \notin StoreVias(store) =>
          qp'[<<Client(c), s, t>>].state = "none"
    <3> SUFFICES ASSUME NEW s \in Servers, NEW t \in Vias, t \notin StoreVias(store)
                 PROVE  qp'[<<Client(c), s, t>>].state = "none"
      OBVIOUS
    <3>1. qp[<<Client(c), s, t>>].state = "none"
      BY <1>0 DEF QPInv
    <3>2. <<Client(c), s, t>> \in AllQPs
      BY QPNames
    <3> QED
      BY <1>3, <3>1, <3>2
  <2> QED
    BY <1>0, <1>1, <2>1, <2>2, <2>3, ClientQPs
<1> QED
  BY <1>7, <1>8, <1>9, <1>10 DEF IInv

\* Before the first client and after the last, a server's counters do not change.
LEMMA ServerIdle ==
    ASSUME TypeOK, NEW s \in Servers,
           \A j \in Clients : Served(s, j) < 0 \/ Served(s, j) >= ServeLen(store)
    PROVE  /\ \A j \in Clients :
                /\ Served(s, j) + 1 >= 1 => Served(s, j) >= 1
                /\ ServerSent(store, Served(s, j) + 1) = ServerSent(store, Served(s, j))
                /\ ServerGot(store, Served(s, j) + 1) = ServerGot(store, Served(s, j))
           /\ \A j \in Clients, t \in StoreVias(store) :
                Alike(Served(s, j), Served(s, j) + 1, ServeReady(store, t))
<1>1. store \in AllStores /\ \A j \in Clients : Served(s, j) \in Int
  BY Numbers, Counts
<1>2. ServeLen(store) \in {8, 10}
  BY DEF ServeLen
<1>3. \A t \in StoreVias(store) :
        ServeReady(store, t) \in {5, 7, 9} /\ ServeReady(store, t) <= ServeLen(store)
  BY <1>1 DEF ServeReady, ServeLen, StoreVias
<1>4. ASSUME NEW j \in Clients
      PROVE  /\ Served(s, j) + 1 >= 1 => Served(s, j) >= 1
             /\ ServerSent(store, Served(s, j) + 1) = ServerSent(store, Served(s, j))
             /\ ServerGot(store, Served(s, j) + 1) = ServerGot(store, Served(s, j))
  <2>1. Served(s, j) + 1 >= 1 => Served(s, j) >= 1
    BY <1>1, <1>2
  <2> QED
    BY <1>1, <2>1, Outside
<1>5. ASSUME NEW j \in Clients, NEW t \in StoreVias(store)
      PROVE  Alike(Served(s, j), Served(s, j) + 1, ServeReady(store, t))
  <2> DEFINE n == Served(s, j)
             r == ServeReady(store, t)
  <2>1. n \in Int /\ r \in {5, 7, 9} /\ (n < 0 \/ n >= r)
    BY <1>1, <1>2, <1>3
  <2> HIDE DEF n, r
  <2>2. Alike(n, n + 1, r)
    BY <2>1 DEF Alike
  <2> QED
    BY <2>2 DEF n, r
<1> QED
  BY <1>4, <1>5

\* A server creates its queue pairs.
LEMMA ServerInitCtx ==
    ASSUME IInv, NEW s \in Servers, InitCtx(Server(s))
    PROVE  IInv'
<1>0. TypeOK /\ MemoryInv /\ QueueInv /\ LinkInv /\ ExchangeInv /\ QPInv /\ AlertInv
  BY DEF IInv
<1>1. /\ ~Running(Server(s)) /\ Call(Server(s)).call = "init_ctx" /\ Advance(Server(s))
      /\ UNCHANGED <<store, dead, areas, loaded, listening, backlog, accepted, link, chan, held,
                     recvs, heard, lost>>
  BY DEF InitCtx, At, netVars
<1>2. /\ Call(Server(s)) = Step("init_ctx", 0, StoreVias(store)) /\ pos[Server(s)] = 0
      /\ \A j \in Clients : Served(s, j) < 0 \/ Served(s, j) >= ServeLen(store)
  <2>1. Resting(s) /\ \A j \in Clients : Served(s, j) < 0 \/ Served(s, j) >= ServeLen(store)
    BY <1>0, <1>1, ServerOthers
  <2>2. Call(Server(s)) = Step("init_ctx", 0, StoreVias(store)) /\ pos[Server(s)] = 0
    <3>1. \A conn, what :
            /\ Call(Server(s)) # Step("register", conn, what) /\ Call(Server(s)) # Step("load", conn, what)
            /\ Call(Server(s)) # Step("listen", conn, what) /\ Call(Server(s)) # Step("close", conn, what)
            /\ Call(Server(s)) # Step("post_recvs", conn, what) /\ Call(Server(s)) # Step("alert", conn, what)
      BY <1>1 DEF Step
    <3> QED
      BY <2>1, <3>1, Zenon DEF Resting
  <2> QED
    BY <2>1, <2>2
<1>3. qp' = [q \in AllQPs |-> IF q \in {Server(s)} \X Clients \X StoreVias(store)
                              THEN [qp[q] EXCEPT !.state = "init"] ELSE qp[q]]
  <2>1. Conns(Server(s)) = Clients /\ Call(Server(s)).what = StoreVias(store)
    BY <1>2, Names DEF Step
  <2> QED
    BY <2>1 DEF InitCtx
<1>4. /\ pos'[Server(s)] = 1
      /\ \A r \in Servers : r # s => pos'[Server(r)] = pos[Server(r)]
      /\ \A d \in Clients : pos'[Client(d)] = pos[Client(d)]
      /\ \A r \in Servers, j \in Clients : r # s => Served(r, j)' = Served(r, j)
      /\ \A j \in Clients : Served(s, j)' = Served(s, j) + 1
  BY <1>0, <1>1, <1>2, ServerMoves
<1>5. \A j \in Clients : Served(s, j) < -2 /\ Served(s, j) \in Int
  BY <1>2 DEF Served, ServeAt
<1>6. /\ \A q \in AllQPs : qp[q] \in [state : {"none", "init", "rtr", "rts"}, dest : AllQPs \cup {None}]
      /\ areas \subseteq Areas /\ loaded \subseteq Servers /\ listening \subseteq Servers
      /\ recvs \cup heard \cup lost \subseteq AllQPs
  BY <1>0 DEF TypeOK
<1>7. TypeOK'
  <2>1. qp' \in [AllQPs -> [state : {"none", "init", "rtr", "rts"}, dest : AllQPs \cup {None}]]
    BY <1>3, <1>6
  <2> QED
    BY <1>0, <1>1, <1>6, <2>1, Names, KeepsType
<1>8. MemoryInv'
  <2>1. ~(Served(s, 0)' >= -1)
    BY <1>4, <1>5
  <2>2. \A r \in Servers :
          /\ ~(pos'[Server(s)] >= 2) /\ ~(pos'[Server(s)] >= 3)
          /\ r # s => pos'[Server(r)] = pos[Server(r)] /\ Served(r, 0)' = Served(r, 0)
    BY <1>4
  <2>3. \A r \in Servers :
          /\ pos'[Server(r)] >= 2 => pos[Server(r)] >= 2
          /\ Served(r, 0)' >= -1 => Served(r, 0) >= -1
          /\ pos'[Server(r)] >= 3 => pos[Server(r)] >= 3
    BY <2>1, <2>2
  <2> QED
    BY <1>0, <1>1, <1>4, <2>3, KeepsMemory
<1>9. AlertInv'
  <2>1. ~(pos'[Server(s)] >= 5 + 10 * NumClients)
    BY <1>4
  <2>2. \A r \in Servers : pos'[Server(r)] >= 5 + 10 * NumClients => pos[Server(r)] >= 5 + 10 * NumClients
    BY <1>4, <2>1
  <2> QED
    BY <1>0, <1>1, <1>4, <2>2, KeepsAlert
<1>10. QueueInv' /\ LinkInv' /\ ExchangeInv'
  BY <1>0, <1>1, <1>2, ServerIdle, ServerQuiet
<1>11. QPInv'
  <2>1. \A d \in Clients, r \in Servers, t \in Vias :
          /\ qp'[<<Client(d), r, t>>] = qp[<<Client(d), r, t>>]
          /\ r # s => qp'[<<Server(r), d, t>>] = qp[<<Server(r), d, t>>]
    BY <1>3, Names, QPNames
  <2>2. \A j \in Clients : \A t \in StoreVias(store) :
          Connected(<<Server(s), j, t>>, Served(s, j), ServeReady(store, t),
                    <<Client(accepted[s][j + 1]), s, t>>)'
    <3> SUFFICES ASSUME NEW j \in Clients, NEW t \in StoreVias(store)
                 PROVE  Connected(<<Server(s), j, t>>, Served(s, j), ServeReady(store, t),
                                  <<Client(accepted[s][j + 1]), s, t>>)'
      OBVIOUS
    <3>1. StoreVias(store) \subseteq Vias /\ ServeReady(store, t) \in {5, 7, 9}
      BY DEF StoreVias, Vias, ServeReady
    <3>2. <<Server(s), j, t>> \in AllQPs
      BY <3>1, QPNames
    <3>3. qp'[<<Server(s), j, t>>].state = "init"
      BY <1>3, <1>6, <3>2
    <3>4. Served(s, j)' < 1 /\ Served(s, j)' \in Int
      BY <1>4, <1>5
    <3>5. Served(s, j)' # ServeReady(store, t) - 1 /\ ~(Served(s, j)' >= ServeReady(store, t))
      BY <3>1, <3>4
    <3>6. ServeReady(store, t)' = ServeReady(store, t)
      BY <1>1
    <3> QED
      BY <3>3, <3>5, <3>6 DEF Connected
  <2>3. \A j \in Clients, t \in Vias : t \notin StoreVias(store) =>
          qp'[<<Server(s), j, t>>].state = "none"
    <3> SUFFICES ASSUME NEW j \in Clients, NEW t \in Vias, t \notin StoreVias(store)
                 PROVE  qp'[<<Server(s), j, t>>].state = "none"
      OBVIOUS
    <3>1. qp[<<Server(s), j, t>>].state = "none"
      BY <1>0 DEF QPInv
    <3>2. <<Server(s), j, t>> \in AllQPs
      BY QPNames
    <3> QED
      BY <1>3, <3>1, <3>2
  <2> QED
    BY <1>0, <1>1, <2>1, <2>2, <2>3, ServerQPs
<1> QED
  BY <1>7, <1>8, <1>9, <1>10, <1>11 DEF IInv

\* What a call outside of the exchange keeps.
LEMMA ClientRests ==
    ASSUME TypeOK, QueueInv, LinkInv, ExchangeInv, QPInv, NEW c \in Clients, Advance(Client(c)),
           UNCHANGED <<store, dead, qp, backlog, accepted, link, chan, held>>,
           \A s \in Servers : Visited(c, s) < 0 \/ Visited(c, s) >= 6,
           \A s \in Servers : Linked(c, s) < 0 \/ Linked(c, s) >= LinkLen(store)
    PROVE  QueueInv' /\ LinkInv' /\ ExchangeInv' /\ QPInv'
<1>1. QueueInv' /\ LinkInv' /\ ExchangeInv'
  BY ClientQuiet
<1>2. QPInv'
  BY ClientKeepsQP
<1> QED
  BY <1>1, <1>2

\* A server outside its loop.
LEMMA ServerRests ==
    ASSUME TypeOK, QueueInv, LinkInv, ExchangeInv, QPInv, NEW s \in Servers, Advance(Server(s)),
           UNCHANGED <<store, dead, qp, backlog, accepted, link, chan, held>>,
           \A j \in Clients : Served(s, j) < 0 \/ Served(s, j) >= ServeLen(store)
    PROVE  QueueInv' /\ LinkInv' /\ ExchangeInv' /\ QPInv'
<1>1. QueueInv' /\ LinkInv' /\ ExchangeInv'
  BY ServerIdle, ServerQuiet
<1>2. \A r \in Servers, j \in Clients :
        Served(r, j)' < 4 \/ accepted'[r][j + 1] = accepted[r][j + 1]
  OBVIOUS
<1>3. QPInv'
  BY <1>2, ServerIdle, ServerKeepsQP
<1> QED
  BY <1>1, <1>3

\* A client registers its memory.
LEMMA ClientRegister ==
    ASSUME IInv, NEW c \in Clients, Register(Client(c))
    PROVE  IInv'
<1>0. TypeOK /\ MemoryInv /\ QueueInv /\ LinkInv /\ ExchangeInv /\ QPInv /\ AlertInv
  BY DEF IInv
<1>1. /\ ~Running(Client(c)) /\ Call(Client(c)).call = "register" /\ Advance(Client(c))
      /\ UNCHANGED <<store, dead, qp, loaded, listening, backlog, accepted, link, chan, held,
                     recvs, heard, lost>>
      /\ areas' = areas \cup ({Client(c)} \X Call(Client(c)).what)
  BY DEF Register, At, netVars
<1>2. Call(Client(c)) = Step("register", 0, {"resp", "req"}) /\ pos[Client(c)] = 1
  BY <1>0, <1>1, ClientOthers DEF Step
<1>3. areas' = areas \cup ({Client(c)} \X {"resp", "req"})
  BY <1>1, <1>2 DEF Step
<1>4. /\ pos'[Client(c)] = 2
      /\ \A d \in Clients : d # c => pos'[Client(d)] = pos[Client(d)]
      /\ \A s \in Servers : pos'[Server(s)] = pos[Server(s)]
      /\ \A s \in Servers, j \in Clients : Served(s, j)' = Served(s, j)
  BY <1>0, <1>1, <1>2, ClientMoves
<1>5. \A s \in Servers : Visited(c, s) < 0 /\ Linked(c, s) < 0 /\ Linked(c, s) \in Int
  BY <1>2 DEF Visited, VisitAt, Linked, LinkAt
<1>6. TypeOK'
  <2>1. /\ qp \in [AllQPs -> [state : {"none", "init", "rtr", "rts"}, dest : AllQPs \cup {None}]]
        /\ areas \subseteq Areas /\ loaded \subseteq Servers /\ listening \subseteq Servers
        /\ recvs \cup heard \cup lost \subseteq AllQPs
    BY <1>0 DEF TypeOK
  <2>2. areas' \subseteq Areas
    BY <1>3, <2>1, Names DEF Areas, Places
  <2> QED
    BY <1>0, <1>1, <2>1, <2>2, Names, KeepsType
<1>7. MemoryInv'
  BY <1>0, <1>1, <1>3, <1>4, KeepsMemory
<1>8. AlertInv'
  <2>1. ~(pos'[Client(c)] >= 4 + 10 * NumServers)
    BY <1>4
  <2>2. \A d \in Clients : pos'[Client(d)] >= 4 + 10 * NumServers => pos[Client(d)] >= 4 + 10 * NumServers
    BY <1>4, <2>1
  <2> QED
    BY <1>0, <1>1, <1>4, <2>2, KeepsAlert
<1>9. QueueInv' /\ LinkInv' /\ ExchangeInv' /\ QPInv'
  BY <1>0, <1>1, <1>5, ClientRests
<1> QED
  BY <1>6, <1>7, <1>8, <1>9 DEF IInv

\* A server registers its memory.
LEMMA ServerRegister ==
    ASSUME IInv, NEW s \in Servers, Register(Server(s))
    PROVE  IInv'
<1>0. TypeOK /\ MemoryInv /\ QueueInv /\ LinkInv /\ ExchangeInv /\ QPInv /\ AlertInv
  BY DEF IInv
<1>1. /\ ~Running(Server(s)) /\ Call(Server(s)).call = "register" /\ Advance(Server(s))
      /\ UNCHANGED <<store, dead, qp, loaded, listening, backlog, accepted, link, chan, held,
                     recvs, heard, lost>>
      /\ areas' = areas \cup ({Server(s)} \X Call(Server(s)).what)
  BY DEF Register, At, netVars
<1>2. Resting(s) /\ \A j \in Clients : Served(s, j) < 0 \/ Served(s, j) >= ServeLen(store)
  BY <1>0, <1>1, ServerOthers
<1>3. \/ /\ pos[Server(s)] = 1
         /\ Call(Server(s)) = Step("register", 0, IF store = "FaRM" THEN {"req", "hash"}
                                                  ELSE IF store = "HydraDB" THEN {"req"}
                                                  ELSE {"request", "req"})
      \/ /\ store = "HydraDB" /\ pos[Server(s)] = 3
         /\ Call(Server(s)) = Step("register", 0, {"hash"})
  <2>1. \A conn, what :
          /\ Call(Server(s)) # Step("init_ctx", conn, what) /\ Call(Server(s)) # Step("load", conn, what)
          /\ Call(Server(s)) # Step("listen", conn, what) /\ Call(Server(s)) # Step("close", conn, what)
          /\ Call(Server(s)) # Step("post_recvs", conn, what) /\ Call(Server(s)) # Step("alert", conn, what)
    BY <1>1 DEF Step
  <2> QED
    BY <1>2, <2>1, Zenon DEF Resting
<1>4. store \in AllStores
  BY <1>0, Numbers
<1>5. /\ \A r \in Servers : r # s => pos'[Server(r)] = pos[Server(r)]
      /\ \A d \in Clients : pos'[Client(d)] = pos[Client(d)]
      /\ \A r \in Servers, j \in Clients : r # s => Served(r, j)' = Served(r, j)
      /\ Served(s, 0)' = Served(s, 0) + 1
      /\ pos'[Server(s)] = pos[Server(s)] + 1
  BY <1>0, <1>1, ServerMoves
<1>6. /\ Call(Server(s)).what \subseteq Places \cup {"request"}
      /\ pos[Server(s)] = 1 => "req" \in Call(Server(s)).what
      /\ pos[Server(s)] \in {1, 3} /\ (pos[Server(s)] = 3 => store = "HydraDB")
      /\ store = "FaRM" \/ pos[Server(s)] = 3 => "hash" \in Call(Server(s)).what
  <2>1. CASE /\ pos[Server(s)] = 1
             /\ Call(Server(s)) = Step("register", 0, IF store = "FaRM" THEN {"req", "hash"}
                                                      ELSE IF store = "HydraDB" THEN {"req"}
                                                      ELSE {"request", "req"})
    <3>1. /\ pos[Server(s)] = 1
          /\ Call(Server(s)).what = IF store = "FaRM" THEN {"req", "hash"}
                                    ELSE IF store = "HydraDB" THEN {"req"} ELSE {"request", "req"}
      BY <2>1 DEF Step
    <3> QED
      BY <3>1 DEF Places
  <2>2. CASE /\ store = "HydraDB" /\ pos[Server(s)] = 3
             /\ Call(Server(s)) = Step("register", 0, {"hash"})
    <3>1. store = "HydraDB" /\ pos[Server(s)] = 3 /\ Call(Server(s)).what = {"hash"}
      BY <2>2 DEF Step
    <3> QED
      BY <3>1 DEF Places
  <2> QED
    BY <1>3, <2>1, <2>2
<1>7. TypeOK'
  <2>1. /\ qp \in [AllQPs -> [state : {"none", "init", "rtr", "rts"}, dest : AllQPs \cup {None}]]
        /\ areas \subseteq Areas /\ loaded \subseteq Servers /\ listening \subseteq Servers
        /\ recvs \cup heard \cup lost \subseteq AllQPs
    BY <1>0 DEF TypeOK
  <2>2. areas' \subseteq Areas
    BY <1>1, <1>6, <2>1, Names DEF Areas
  <2> QED
    BY <1>0, <1>1, <2>1, <2>2, Names, KeepsType
<1>8. MemoryInv'
  <2>1. /\ pos[Server(s)] >= 2 \/ <<Server(s), "req">> \in areas'
        /\ store = "HydraDB" /\ pos'[Server(s)] >= 3 => pos[Server(s)] >= 3
    BY <1>1, <1>5, <1>6
  <2>2. store # "Pilaf" /\ Served(s, 0)' >= -1 => <<Server(s), "hash">> \in areas'
    <3>1. CASE "hash" \in Call(Server(s)).what
      BY <1>1, <3>1
    <3>2. CASE store = "HydraDB" /\ pos[Server(s)] = 1
      <4>1. Served(s, 0) = -4
        BY <3>2 DEF Served, ServeAt
      <4> QED
        BY <1>5, <4>1
    <3> QED
      BY <1>4, <1>6, <3>1, <3>2 DEF AllStores
  <2>3. \A r \in Servers :
             /\ pos'[Server(r)] >= 2 => pos[Server(r)] >= 2 \/ <<Server(r), "req">> \in areas'
             /\ store # "Pilaf" /\ Served(r, 0)' >= -1 =>
                  Served(r, 0) >= -1 \/ <<Server(r), "hash">> \in areas'
             /\ store = "HydraDB" /\ pos'[Server(r)] >= 3 => pos[Server(r)] >= 3
    BY <1>5, <2>1, <2>2
  <2> QED
    BY <1>0, <1>1, <1>5, <2>3, KeepsMemory
<1>9. AlertInv'
  <2>1. ~(pos'[Server(s)] >= 5 + 10 * NumClients)
    BY <1>5, <1>6
  <2>2. \A r \in Servers : pos'[Server(r)] >= 5 + 10 * NumClients => pos[Server(r)] >= 5 + 10 * NumClients
    BY <1>5, <2>1
  <2> QED
    BY <1>0, <1>1, <1>5, <2>2, KeepsAlert
<1>10. QueueInv' /\ LinkInv' /\ ExchangeInv' /\ QPInv'
  BY <1>0, <1>1, <1>2, ServerRests
<1> QED
  BY <1>7, <1>8, <1>9, <1>10 DEF IInv

\* A server fills its table.
LEMMA ServerLoad ==
    ASSUME IInv, NEW s \in Servers, Load(s)
    PROVE  IInv'
<1>0. TypeOK /\ MemoryInv /\ QueueInv /\ LinkInv /\ ExchangeInv /\ QPInv /\ AlertInv
  BY DEF IInv
<1>1. /\ ~Running(Server(s)) /\ Call(Server(s)).call = "load" /\ Advance(Server(s))
      /\ UNCHANGED <<store, dead, qp, areas, listening, backlog, accepted, link, chan, held,
                     recvs, heard, lost>>
      /\ loaded' = loaded \cup {s}
  BY DEF Load, At, netVars
<1>2. Resting(s) /\ \A j \in Clients : Served(s, j) < 0 \/ Served(s, j) >= ServeLen(store)
  BY <1>0, <1>1, ServerOthers
<1>3. \/ store = "HydraDB" /\ pos[Server(s)] = 2
      \/ /\ \A j \in Clients : Served(s, j) >= ServeLen(store)
         /\ store = "Pilaf" => pos[Server(s)] = 3 + 10 * NumClients
  <2>1. \A conn, what :
          /\ Call(Server(s)) # Step("init_ctx", conn, what) /\ Call(Server(s)) # Step("register", conn, what)
          /\ Call(Server(s)) # Step("listen", conn, what) /\ Call(Server(s)) # Step("post_recvs", conn, what)
          /\ Call(Server(s)) # Step("alert", conn, what)
    BY <1>1 DEF Step
  <2> QED
    BY <1>2, <2>1, Zenon DEF Resting
<1>4. store \in AllStores /\ pos[Server(s)] \in Nat
  BY <1>0, Numbers, Names
<1>5. /\ \A r \in Servers : r # s => pos'[Server(r)] = pos[Server(r)]
      /\ \A d \in Clients : pos'[Client(d)] = pos[Client(d)]
      /\ \A r \in Servers, j \in Clients : r # s => Served(r, j)' = Served(r, j)
      /\ Served(s, 0)' = Served(s, 0) + 1
      /\ pos'[Server(s)] = pos[Server(s)] + 1
  BY <1>0, <1>1, ServerMoves
<1>6. /\ pos[Server(s)] >= 2
      /\ Served(s, 0)' >= -1 => Served(s, 0) >= -1
      /\ store = "Pilaf" => pos[Server(s)] = 3 + 10 * NumClients
  <2>1. CASE store = "HydraDB" /\ pos[Server(s)] = 2
    <3>1. Served(s, 0) = -3
      BY <2>1 DEF Served, ServeAt
    <3> QED
      BY <1>5, <2>1, <3>1
  <2>2. CASE /\ \A j \in Clients : Served(s, j) >= ServeLen(store)
             /\ store = "Pilaf" => pos[Server(s)] = 3 + 10 * NumClients
    <3>1. Served(s, 0) >= ServeLen(store) /\ Served(s, 0) \in Int
      BY <1>0, <2>2, Counts
    <3>2. Served(s, 0) >= 8
      BY <3>1 DEF ServeLen
    <3>3. pos[Server(s)] >= 2
      BY <1>4, <3>2 DEF Served, ServeAt
    <3> QED
      BY <2>2, <3>1, <3>2, <3>3
  <2> QED
    BY <1>3, <2>1, <2>2
<1>7. TypeOK'
  <2>1. /\ qp \in [AllQPs -> [state : {"none", "init", "rtr", "rts"}, dest : AllQPs \cup {None}]]
        /\ areas \subseteq Areas /\ loaded \subseteq Servers /\ listening \subseteq Servers
        /\ recvs \cup heard \cup lost \subseteq AllQPs
    BY <1>0 DEF TypeOK
  <2>2. loaded' \subseteq Servers
    BY <1>1, <2>1
  <2> QED
    BY <1>0, <1>1, <2>1, <2>2, Names, KeepsType
<1>8. MemoryInv'
  <2>1. \A r \in Servers :
          /\ pos'[Server(r)] >= 2 => pos[Server(r)] >= 2
          /\ Served(r, 0)' >= -1 => Served(r, 0) >= -1
          /\ pos'[Server(r)] >= 3 => pos[Server(r)] >= 3 \/ r \in loaded'
    BY <1>1, <1>5, <1>6
  <2> QED
    BY <1>0, <1>1, <1>5, <2>1, KeepsMemory
<1>9. AlertInv'
  <2>1. store = "Pilaf" => ~(pos'[Server(s)] >= 5 + 10 * NumClients)
    BY <1>5, <1>6
  <2>2. store = "Pilaf" => \A r \in Servers :
          pos'[Server(r)] >= 5 + 10 * NumClients => pos[Server(r)] >= 5 + 10 * NumClients
    BY <1>5, <2>1
  <2> QED
    BY <1>0, <1>1, <1>5, <2>2, KeepsAlert
<1>10. QueueInv' /\ LinkInv' /\ ExchangeInv' /\ QPInv'
  BY <1>0, <1>1, <1>2, ServerRests
<1> QED
  BY <1>7, <1>8, <1>9, <1>10 DEF IInv

\* A server begins to listen, or ends.
LEMMA ServerListens ==
    ASSUME IInv, NEW s \in Servers, Listen(s) \/ CloseListen(s)
    PROVE  IInv'
<1>0. TypeOK /\ MemoryInv /\ QueueInv /\ LinkInv /\ ExchangeInv /\ QPInv /\ AlertInv
  BY DEF IInv
<1>1. /\ ~Running(Server(s)) /\ Call(Server(s)).call \in {"listen", "close"} /\ Advance(Server(s))
      /\ UNCHANGED <<store, dead, qp, areas, loaded, backlog, accepted, link, chan, held,
                     recvs, heard, lost>>
      /\ listening' \subseteq listening \cup {s}
  BY DEF Listen, CloseListen, At
<1>2. Resting(s) /\ \A j \in Clients : Served(s, j) < 0 \/ Served(s, j) >= ServeLen(store)
  BY <1>0, <1>1, ServerOthers
<1>3. \/ Served(s, 0) = -1
      \/ /\ \A j \in Clients : Served(s, j) >= ServeLen(store)
         /\ store = "Pilaf" => pos[Server(s)] = 3 + 10 * NumClients
  <2>1. \A conn, what :
          /\ Call(Server(s)) # Step("init_ctx", conn, what) /\ Call(Server(s)) # Step("register", conn, what)
          /\ Call(Server(s)) # Step("load", conn, what) /\ Call(Server(s)) # Step("post_recvs", conn, what)
          /\ Call(Server(s)) # Step("alert", conn, what)
    BY <1>1 DEF Step
  <2> QED
    BY <1>2, <2>1, Zenon DEF Resting
<1>4. pos[Server(s)] \in Nat /\ Served(s, 0) \in Int
  BY <1>0, Counts
<1>5. Served(s, 0) >= -1 /\ (store = "Pilaf" => pos[Server(s)] <= 3 + 10 * NumClients)
  <2>1. CASE Served(s, 0) = -1
    <3>1. store = "Pilaf" => pos[Server(s)] = 2
      BY <1>4, <2>1 DEF Served, ServeAt
    <3> QED
      BY <2>1, <3>1
  <2>2. CASE /\ \A j \in Clients : Served(s, j) >= ServeLen(store)
             /\ store = "Pilaf" => pos[Server(s)] = 3 + 10 * NumClients
    BY <1>4, <2>2 DEF ServeLen
  <2> QED
    BY <1>3, <2>1, <2>2
<1>6. TypeOK'
  <2>1. /\ qp \in [AllQPs -> [state : {"none", "init", "rtr", "rts"}, dest : AllQPs \cup {None}]]
        /\ areas \subseteq Areas /\ loaded \subseteq Servers /\ listening \subseteq Servers
        /\ recvs \cup heard \cup lost \subseteq AllQPs
    BY <1>0 DEF TypeOK
  <2>2. listening' \subseteq Servers
    BY <1>1, <2>1
  <2> QED
    BY <1>0, <1>1, <2>1, <2>2, Names, KeepsType
<1>7. MemoryInv' /\ AlertInv'
  BY <1>0, <1>1, <1>5, ServerBusy
<1>8. QueueInv' /\ LinkInv' /\ ExchangeInv' /\ QPInv'
  BY <1>0, <1>1, <1>2, ServerRests
<1> QED
  BY <1>6, <1>7, <1>8 DEF IInv

\* A client of Pilaf posts its RECVs and waits for the alert.
LEMMA ClientWaits ==
    ASSUME IInv, NEW c \in Clients, PostRecvs(Client(c)) \/ AwaitAlert(c)
    PROVE  IInv'
<1>0. TypeOK /\ MemoryInv /\ QueueInv /\ LinkInv /\ ExchangeInv /\ QPInv /\ AlertInv
  BY DEF IInv
<1>1. /\ ~Running(Client(c)) /\ Call(Client(c)).call \in {"post_recvs", "await"} /\ Advance(Client(c))
      /\ UNCHANGED <<store, dead, qp, areas, loaded, listening, backlog, accepted, link, chan, held,
                     heard, lost>>
  BY DEF PostRecvs, AwaitAlert, At, netVars
<1>2. store = "Pilaf"
      /\ \/ Call(Client(c)) = Step("post_recvs", {ServerOf(c)}, "uc") /\ pos[Client(c)] = 2 + 10 * NumServers
         \/ Call(Client(c)) = Step("await", ServerOf(c), "uc") /\ pos[Client(c)] = 3 + 10 * NumServers
  BY <1>0, <1>1, ClientOthers DEF Step
<1>3. \/ /\ pos[Client(c)] = 2 + 10 * NumServers
         /\ recvs' = recvs \cup ({Client(c)} \X {ServerOf(c)} \X {"uc"})
      \/ /\ pos[Client(c)] = 3 + 10 * NumServers
         /\ recvs' = recvs /\ <<Client(c), ServerOf(c), "uc">> \in heard
  <2>1. CASE Call(Client(c)) = Step("post_recvs", {ServerOf(c)}, "uc") /\ pos[Client(c)] = 2 + 10 * NumServers
    <3>1. Call(Client(c)).call = "post_recvs" /\ Call(Client(c)).conn = {ServerOf(c)}
      BY <2>1 DEF Step
    <3>2. PostRecvs(Client(c))
      BY <3>1 DEF AwaitAlert, At
    <3> QED
      BY <2>1, <3>1, <3>2 DEF PostRecvs
  <2>2. CASE Call(Client(c)) = Step("await", ServerOf(c), "uc") /\ pos[Client(c)] = 3 + 10 * NumServers
    <3>1. Call(Client(c)).call = "await" /\ Call(Client(c)).conn = ServerOf(c)
      BY <2>2 DEF Step
    <3>2. AwaitAlert(c)
      BY <3>1 DEF PostRecvs, At
    <3> QED
      BY <2>2, <3>1, <3>2 DEF AwaitAlert
  <2> QED
    BY <1>2, <2>1, <2>2
<1>4. /\ pos'[Client(c)] = pos[Client(c)] + 1
      /\ \A d \in Clients : d # c => pos'[Client(d)] = pos[Client(d)]
      /\ \A s \in Servers : pos'[Server(s)] = pos[Server(s)]
      /\ \A s \in Servers, j \in Clients : Served(s, j)' = Served(s, j)
  BY <1>0, <1>1, ClientMoves
<1>5. \A s \in Servers : Visited(c, s) >= 6 /\ Linked(c, s) >= LinkLen(store)
  <2>1. LinkLen(store) = 4 /\ \A s \in Servers : LinkAt(store, s) = 2 + 6 * NumServers + 4 * s
    BY <1>2 DEF LinkLen, LinkAt
  <2> QED
    BY <1>3, <2>1 DEF Visited, VisitAt, Linked
<1>6. TypeOK'
  <2>1. /\ qp \in [AllQPs -> [state : {"none", "init", "rtr", "rts"}, dest : AllQPs \cup {None}]]
        /\ areas \subseteq Areas /\ loaded \subseteq Servers /\ listening \subseteq Servers
        /\ recvs \subseteq AllQPs /\ heard \subseteq AllQPs /\ lost \subseteq AllQPs
    BY <1>0 DEF TypeOK
  <2>2. <<Client(c), ServerOf(c), "uc">> \in AllQPs
    BY QPNames, Division DEF Vias
  <2>3. recvs' \subseteq AllQPs
    BY <1>3, <2>1, <2>2
  <2> QED
    BY <1>0, <1>1, <2>1, <2>3, Names, KeepsType
<1>7. MemoryInv'
  <2>1. pos[Client(c)] >= 2
    BY <1>3
  <2> QED
    BY <1>0, <1>1, <1>4, <2>1, KeepsMemory
<1>8. AlertInv'
  <2>1. pos'[Client(c)] >= 4 + 10 * NumServers => <<Client(c), ServerOf(c), "uc">> \in heard
    BY <1>3, <1>4
  <2>2. \A d \in Clients : pos'[Client(d)] >= 4 + 10 * NumServers =>
          pos[Client(d)] >= 4 + 10 * NumServers \/ <<Client(d), ServerOf(d), "uc">> \in heard
    BY <1>4, <2>1
  <2>3. recvs \subseteq recvs'
    BY <1>3
  <2> QED
    BY <1>0, <1>1, <1>4, <2>2, <2>3, KeepsAlert
<1>9. QueueInv' /\ LinkInv' /\ ExchangeInv' /\ QPInv'
  BY <1>0, <1>1, <1>5, ClientRests
<1> QED
  BY <1>6, <1>7, <1>8, <1>9 DEF IInv

\* A server of Pilaf posts its RECVs.
LEMMA ServerPosts ==
    ASSUME IInv, NEW s \in Servers, PostRecvs(Server(s))
    PROVE  IInv'
<1>0. TypeOK /\ MemoryInv /\ QueueInv /\ LinkInv /\ ExchangeInv /\ QPInv /\ AlertInv
  BY DEF IInv
<1>1. /\ ~Running(Server(s)) /\ Call(Server(s)).call = "post_recvs" /\ Advance(Server(s))
      /\ UNCHANGED <<store, dead, qp, areas, loaded, listening, backlog, accepted, link, chan, held,
                     heard, lost>>
      /\ recvs' = recvs \cup ({Server(s)} \X Call(Server(s)).conn \X {"uc"})
  BY DEF PostRecvs, At, netVars
<1>2. Resting(s) /\ \A j \in Clients : Served(s, j) < 0 \/ Served(s, j) >= ServeLen(store)
  BY <1>0, <1>1, ServerOthers
<1>3. /\ \A j \in Clients : Served(s, j) >= ServeLen(store)
      /\ Call(Server(s)) = Step("post_recvs", Assigned(s), "uc")
  <2>1. \A conn, what :
          /\ Call(Server(s)) # Step("init_ctx", conn, what) /\ Call(Server(s)) # Step("register", conn, what)
          /\ Call(Server(s)) # Step("load", conn, what) /\ Call(Server(s)) # Step("listen", conn, what)
          /\ Call(Server(s)) # Step("close", conn, what) /\ Call(Server(s)) # Step("alert", conn, what)
    BY <1>1 DEF Step
  <2> QED
    BY <1>2, <2>1, Zenon DEF Resting
<1>4. recvs' = recvs \cup ({Server(s)} \X Assigned(s) \X {"uc"})
  BY <1>1, <1>3 DEF Step
<1>5. /\ \A r \in Servers : r # s => pos'[Server(r)] = pos[Server(r)]
      /\ \A d \in Clients : pos'[Client(d)] = pos[Client(d)]
      /\ \A r \in Servers, j \in Clients : r # s => Served(r, j)' = Served(r, j)
      /\ Served(s, 0)' = Served(s, 0) + 1
      /\ pos'[Server(s)] = pos[Server(s)] + 1
  BY <1>0, <1>1, ServerMoves
<1>6. Served(s, 0) >= -1 /\ pos[Server(s)] >= 3 /\ pos[Server(s)] >= 2
  <2>1. Served(s, 0) \in Int /\ pos[Server(s)] \in Nat /\ Served(s, 0) >= ServeLen(store)
    BY <1>0, <1>3, Counts
  <2>2. Served(s, 0) >= 8
    BY <2>1 DEF ServeLen
  <2> QED
    BY <2>1, <2>2 DEF Served, ServeAt
<1>7. TypeOK'
  <2>1. /\ qp \in [AllQPs -> [state : {"none", "init", "rtr", "rts"}, dest : AllQPs \cup {None}]]
        /\ areas \subseteq Areas /\ loaded \subseteq Servers /\ listening \subseteq Servers
        /\ recvs \subseteq AllQPs /\ heard \subseteq AllQPs /\ lost \subseteq AllQPs
    BY <1>0 DEF TypeOK
  <2>2. \A j \in Assigned(s) : <<Server(s), j, "uc">> \in AllQPs
    BY QPNames, Division DEF Vias
  <2>3. recvs' \subseteq AllQPs
    BY <1>4, <2>1, <2>2
  <2> QED
    BY <1>0, <1>1, <2>1, <2>3, Names, KeepsType
<1>8. MemoryInv'
  <2>1. \A r \in Servers :
          /\ pos'[Server(r)] >= 2 => pos[Server(r)] >= 2
          /\ Served(r, 0)' >= -1 => Served(r, 0) >= -1
          /\ pos'[Server(r)] >= 3 => pos[Server(r)] >= 3
    BY <1>5, <1>6
  <2> QED
    BY <1>0, <1>1, <1>5, <2>1, KeepsMemory
<1>9. AlertInv'
  <2>1. {Server(s)} \X Assigned(s) \X {"uc"} \subseteq recvs' /\ recvs \subseteq recvs'
    BY <1>4
  <2>2. \A r \in Servers : pos'[Server(r)] >= 5 + 10 * NumClients =>
          \/ pos[Server(r)] >= 5 + 10 * NumClients
          \/ {Server(r)} \X Assigned(r) \X {"uc"} \subseteq recvs'
    BY <1>5, <2>1
  <2> QED
    BY <1>0, <1>1, <1>5, <2>1, <2>2, KeepsAlert
<1>10. QueueInv' /\ LinkInv' /\ ExchangeInv' /\ QPInv'
  BY <1>0, <1>1, <1>2, ServerRests
<1> QED
  BY <1>7, <1>8, <1>9, <1>10 DEF IInv

\* An alert goes where the queue pair leads, to a client that the server
\* accepted as its j-th and has posted RECVs for.
LEMMA ServerAlerts ==
    ASSUME IInv, NEW s \in Servers, Alert(s)
    PROVE  IInv'
<1>0. TypeOK /\ MemoryInv /\ QueueInv /\ LinkInv /\ ExchangeInv /\ QPInv /\ AlertInv
  BY DEF IInv
<1>1. /\ ~Running(Server(s)) /\ Call(Server(s)).call = "alert" /\ Advance(Server(s))
      /\ UNCHANGED <<store, dead, qp, areas, loaded, listening, backlog, accepted, link, chan, held,
                     recvs>>
  BY DEF Alert, At, netVars
<1>2. Resting(s) /\ \A j \in Clients : Served(s, j) < 0 \/ Served(s, j) >= ServeLen(store)
  BY <1>0, <1>1, ServerOthers
<1>3. /\ \A j \in Clients : Served(s, j) >= ServeLen(store)
      /\ store = "Pilaf" /\ pos[Server(s)] >= 5 + 10 * NumClients
      /\ \E j \in Assigned(s) : Call(Server(s)) = Step("alert", j, "uc")
  <2>1. \A conn, what :
          /\ Call(Server(s)) # Step("init_ctx", conn, what) /\ Call(Server(s)) # Step("register", conn, what)
          /\ Call(Server(s)) # Step("load", conn, what) /\ Call(Server(s)) # Step("listen", conn, what)
          /\ Call(Server(s)) # Step("close", conn, what) /\ Call(Server(s)) # Step("post_recvs", conn, what)
    BY <1>1 DEF Step
  <2> QED
    BY <1>2, <2>1, Zenon DEF Resting
<1>4. PICK j \in Assigned(s) : Call(Server(s)) = Step("alert", j, "uc")
  BY <1>3
<1>4a. j \in Clients /\ Call(Server(s)).conn = j
  BY <1>4, Division DEF Step
<1>5. /\ \A r \in Servers : r # s => pos'[Server(r)] = pos[Server(r)]
      /\ \A d \in Clients : pos'[Client(d)] = pos[Client(d)]
      /\ \A r \in Servers, i \in Clients : r # s => Served(r, i)' = Served(r, i)
      /\ Served(s, 0)' = Served(s, 0) + 1
      /\ pos'[Server(s)] = pos[Server(s)] + 1
  BY <1>0, <1>1, ServerMoves
<1>6. \A i \in Clients : Served(s, i) \in Int /\ Served(s, i) >= 10
  BY <1>0, <1>3, Counts DEF ServeLen
<1>7. qp[<<Server(s), j, "uc">>].dest = <<Client(accepted[s][j + 1]), s, "uc">>
  <2>1. "uc" \in StoreVias(store) /\ "uc" \in Vias /\ ServeReady(store, "uc") = 9
    BY <1>3 DEF StoreVias, Vias, ServeReady
  <2>2. Connected(<<Server(s), j, "uc">>, Served(s, j), 9, <<Client(accepted[s][j + 1]), s, "uc">>)
    BY <1>0, <1>4a, <2>1 DEF QPInv
  <2>3. Served(s, j) >= 9
    BY <1>4a, <1>6
  <2> QED
    BY <2>2, <2>3 DEF Connected
<1>8. j < Len(accepted[s]) /\ accepted[s][j + 1] \in Clients
  <2>1. accepted[s] \in Seq(Clients)
    BY <1>0 DEF TypeOK
  <2>2. Served(s, j) >= 1
    BY <1>4a, <1>6
  <2>3. j < Len(accepted[s])
    BY <1>0, <1>4a, <2>2 DEF QueueInv
  <2>4. j + 1 \in 1 .. Len(accepted[s])
    BY <1>4a, <2>1, <2>3
  <2> QED
    BY <2>1, <2>3, <2>4
<1>9. <<Server(s), j, "uc">> \in recvs
  BY <1>0, <1>3 DEF AlertInv
<1> DEFINE to == <<Client(accepted[s][j + 1]), s, "uc">>
<1>10. (heard' = heard \cup {to} \/ heard' = heard) /\ (lost' = lost \/ lost' = lost \cup {to})
  BY <1>4a, <1>7 DEF Alert
<1>11. TypeOK'
  <2>1. /\ qp \in [AllQPs -> [state : {"none", "init", "rtr", "rts"}, dest : AllQPs \cup {None}]]
        /\ areas \subseteq Areas /\ loaded \subseteq Servers /\ listening \subseteq Servers
        /\ recvs \subseteq AllQPs /\ heard \subseteq AllQPs /\ lost \subseteq AllQPs
    BY <1>0 DEF TypeOK
  <2>2. to \in AllQPs
    BY <1>8, QPNames DEF Vias
  <2>3. heard' \subseteq AllQPs /\ lost' \subseteq AllQPs
    BY <1>10, <2>1, <2>2
  <2> QED
    BY <1>0, <1>1, <2>1, <2>3, Names, KeepsType
<1>12. MemoryInv'
  <2>1. Served(s, 0) >= -1 /\ pos[Server(s)] >= 2 /\ pos[Server(s)] >= 3
    <3>1. Served(s, 0) >= 10 /\ Served(s, 0) \in Int /\ pos[Server(s)] \in Nat
      BY <1>0, <1>6, Counts
    <3> QED
      BY <3>1 DEF Served, ServeAt
  <2>2. \A r \in Servers :
          /\ pos'[Server(r)] >= 2 => pos[Server(r)] >= 2
          /\ Served(r, 0)' >= -1 => Served(r, 0) >= -1
          /\ pos'[Server(r)] >= 3 => pos[Server(r)] >= 3
    BY <1>5, <2>1
  <2> QED
    BY <1>0, <1>1, <1>5, <2>2, KeepsMemory
<1>13. AlertInv'
  <2>1. ASSUME NEW r \in Servers, pos'[Server(r)] >= 5 + 10 * NumClients
        PROVE  {Server(r)} \X Assigned(r) \X {"uc"} \subseteq recvs
    <3>1. pos[Server(r)] >= 5 + 10 * NumClients
      BY <1>3, <1>5, <2>1
    <3> QED
      BY <1>0, <1>3, <3>1 DEF AlertInv
  <2>2. ASSUME NEW c \in Clients, pos'[Client(c)] >= 4 + 10 * NumServers
        PROVE  <<Client(c), ServerOf(c), "uc">> \in heard'
    <3>1. <<Client(c), ServerOf(c), "uc">> \in heard
      BY <1>0, <1>3, <1>5, <2>2 DEF AlertInv
    <3> QED
      BY <1>10, <3>1
  <2>3. ASSUME NEW c \in Clients, NEW r \in Servers, <<Client(c), r, "uc">> \in heard'
        PROVE  \E i \in Clients : /\ i < Len(accepted[r]) /\ accepted[r][i + 1] = c
                                  /\ <<Server(r), i, "uc">> \in recvs
    <3>1. CASE <<Client(c), r, "uc">> \in heard
      BY <1>0, <3>1 DEF AlertInv
    <3>2. CASE <<Client(c), r, "uc">> = to
      <4>1. r = s /\ accepted[s][j + 1] = c
        BY <1>8, <3>2, Names
      <4> QED
        BY <1>4a, <1>8, <1>9, <4>1
    <3> QED
      BY <1>10, <2>3, <3>1, <3>2
  <2> QED
    BY <1>1, <2>1, <2>2, <2>3 DEF AlertInv
<1>14. QueueInv' /\ LinkInv' /\ ExchangeInv' /\ QPInv'
  BY <1>0, <1>1, <1>2, ServerRests
<1> QED
  BY <1>11, <1>12, <1>13, <1>14 DEF IInv

\* In the loop over connect_ctx a client registers nothing and waits for nothing.
LEMMA LinkingEarly ==
    ASSUME TypeOK, NEW c \in Clients, NEW i \in Servers, NEW t \in StoreVias(store),
           Linked(c, i) = LinkReady(t) - 1 \/ Linked(c, i) = LinkReady(t) - 2
    PROVE  pos[Client(c)] >= 2 /\ (store = "Pilaf" => pos[Client(c)] <= 2 + 10 * NumServers)
<1>1. pos[Client(c)] \in Nat /\ LinkReady(t) \in {2, 4}
  BY Counts DEF LinkReady
<1>2. Linked(c, i) >= 0 /\ Linked(c, i) <= 3
  BY <1>1
<1>3. LinkAt(store, i) >= 2 /\ LinkAt(store, i) \in Nat
  BY DEF LinkAt
<1>4. pos[Client(c)] >= 2
  BY <1>1, <1>2, <1>3 DEF Linked
<1>5. ASSUME store = "Pilaf"
      PROVE  pos[Client(c)] <= 2 + 10 * NumServers
  <2>1. LinkAt(store, i) = 2 + 6 * NumServers + 4 * i
    BY <1>5 DEF LinkAt
  <2> QED
    BY <1>1, <1>2, <2>1 DEF Linked
<1> QED
  BY <1>4, <1>5

\* What a client has read as the attributes of a queue pair is a queue pair.
LEMMA HeldQP ==
    ASSUME TypeOK, QueueInv, ExchangeInv, NEW c \in Clients, NEW s \in Servers, NEW t \in Vias
    PROVE  held[Client(c)][t][s] \in AllQPs \cup {None}
<1>1. CASE c \in ToSet(accepted[s])
  <2>1. accepted[s] \in Seq(Clients) /\ Len(accepted[s]) <= NumClients
    BY DEF TypeOK, QueueInv
  <2>2. PICK k \in 1 .. Len(accepted[s]) : accepted[s][k] = c
    BY <1>1, <2>1 DEF ToSet
  <2>3. k - 1 \in Clients /\ k - 1 < Len(accepted[s]) /\ (k - 1) + 1 = k
    BY <2>1, <2>2
  <2> DEFINE j == k - 1
  <2>4. Met(c, s, j)
    BY <2>2, <2>3 DEF ExchangeInv
  <2>5. held[Client(c)][t][s] = Datum(Server(s), j, t) \/ held[Client(c)][t][s] = None
    BY <2>4 DEF Met, Taken, Content
  <2>6. Datum(Server(s), j, t) \in AllQPs
    BY <2>3, QPNames DEF Datum
  <2> QED
    BY <2>5, <2>6
<1>2. CASE c \notin ToSet(accepted[s])
  <2>1. Unmet(c, s)
    BY <1>2 DEF ExchangeInv
  <2> QED
    BY <2>1 DEF Unmet
<1> QED
  BY <1>1, <1>2

\* A client takes a queue pair to RTR or to RTS.
LEMMA ClientConnects ==
    ASSUME IInv, NEW c \in Clients, ReadyToReceive(Client(c)) \/ ReadyToSend(Client(c))
    PROVE  IInv'
<1>0. TypeOK /\ MemoryInv /\ QueueInv /\ LinkInv /\ ExchangeInv /\ QPInv /\ AlertInv
  BY DEF IInv
<1>1. /\ ~Running(Client(c)) /\ Call(Client(c)).call \in {"rtr", "rts"} /\ Advance(Client(c))
      /\ UNCHANGED <<store, dead, areas, loaded, listening, backlog, accepted, link, chan, held,
                     recvs, heard, lost>>
  BY DEF ReadyToReceive, ReadyToSend, At, netVars
<1>2. PICK i \in Servers, t \in StoreVias(store) :
        \/ Linking(c, i, t, "rtr", LinkReady(t) - 1)
        \/ Linking(c, i, t, "rts", LinkReady(t))
  BY <1>0, <1>1, ClientLinks
<1> DEFINE q == <<Client(c), i, t>>
<1>3. /\ \A s \in Servers : s < i => Linked(c, s) >= LinkLen(store)
      /\ \A s \in Servers : s > i => Linked(c, s) < 0
      /\ \A s \in Servers : Visited(c, s) >= 6
  BY <1>2 DEF Linking
<1>4. \/ /\ Linked(c, i) = LinkReady(t) - 2
         /\ qp' = [qp EXCEPT ![q] = [state |-> "rtr", dest |-> held[Client(c)][t][i]]]
      \/ /\ Linked(c, i) = LinkReady(t) - 1
         /\ qp' = [qp EXCEPT ![q].state = "rts"]
  <2>0. LinkReady(t) \in {2, 4}
    BY DEF LinkReady
  <2>1. CASE Linking(c, i, t, "rtr", LinkReady(t) - 1)
    <3>1. /\ Call(Client(c)).call = "rtr" /\ Call(Client(c)).conn = i /\ Call(Client(c)).what = t
          /\ Linked(c, i) = LinkReady(t) - 1 - 1
      BY <2>1 DEF Linking, Step
    <3>2. ReadyToReceive(Client(c))
      BY <3>1 DEF ReadyToSend, At
    <3>3. qp' = [qp EXCEPT ![q] = [state |-> "rtr", dest |-> held[Client(c)][t][i]]]
      BY <3>1, <3>2 DEF ReadyToReceive
    <3>4. Linked(c, i) = LinkReady(t) - 2
      BY <2>0, <3>1
    <3> QED
      BY <3>3, <3>4
  <2>2. CASE Linking(c, i, t, "rts", LinkReady(t))
    <3>1. /\ Call(Client(c)).call = "rts" /\ Call(Client(c)).conn = i /\ Call(Client(c)).what = t
          /\ Linked(c, i) = LinkReady(t) - 1
      BY <2>2 DEF Linking, Step
    <3>2. ReadyToSend(Client(c))
      BY <3>1 DEF ReadyToReceive, At
    <3> QED
      BY <3>1, <3>2 DEF ReadyToSend
  <2> QED
    BY <1>2, <2>1, <2>2
<1>5. t \in Vias /\ q \in AllQPs /\ LinkReady(t) \in {2, 4}
  <2>1. t \in Vias
    BY DEF StoreVias, Vias
  <2> QED
    BY <2>1, QPNames DEF LinkReady
<1>6. /\ qp \in [AllQPs -> [state : {"none", "init", "rtr", "rts"}, dest : AllQPs \cup {None}]]
      /\ areas \subseteq Areas /\ loaded \subseteq Servers /\ listening \subseteq Servers
      /\ recvs \cup heard \cup lost \subseteq AllQPs
  BY <1>0 DEF TypeOK
<1>7. TypeOK'
  <2>1. held[Client(c)][t][i] \in AllQPs \cup {None}
    BY <1>0, <1>5, HeldQP
  <2>2. qp' \in [AllQPs -> [state : {"none", "init", "rtr", "rts"}, dest : AllQPs \cup {None}]]
    <3>1. CASE qp' = [qp EXCEPT ![q] = [state |-> "rtr", dest |-> held[Client(c)][t][i]]]
      <4>1. [state |-> "rtr", dest |-> held[Client(c)][t][i]]
              \in [state : {"none", "init", "rtr", "rts"}, dest : AllQPs \cup {None}]
        BY <2>1
      <4> QED
        BY <1>6, <3>1, <4>1
    <3>2. CASE qp' = [qp EXCEPT ![q].state = "rts"]
      <4>1. [qp[q] EXCEPT !.state = "rts"]
              \in [state : {"none", "init", "rtr", "rts"}, dest : AllQPs \cup {None}]
        BY <1>5, <1>6
      <4> QED
        BY <1>6, <3>2, <4>1
    <3> QED
      BY <1>4, <3>1, <3>2
  <2> QED
    BY <1>0, <1>1, <1>6, <2>2, Names, KeepsType
<1>8. MemoryInv' /\ AlertInv'
  <2>1. Linked(c, i) = LinkReady(t) - 1 \/ Linked(c, i) = LinkReady(t) - 2
    BY <1>4
  <2> QED
    BY <1>0, <1>1, <2>1, LinkingEarly, ClientBusy
<1>9. QueueInv' /\ LinkInv' /\ ExchangeInv'
  BY <1>0, <1>1, <1>3, ClientQuiet
<1>10. QPInv'
  <2>1. \A d \in Clients, s \in Servers, u \in Vias :
          /\ d # c => qp'[<<Client(d), s, u>>] = qp[<<Client(d), s, u>>]
          /\ qp'[<<Server(s), d, u>>] = qp[<<Server(s), d, u>>]
          /\ s # i \/ u # t => qp'[<<Client(c), s, u>>] = qp[<<Client(c), s, u>>]
    <3>1. ASSUME NEW r \in AllQPs, r # q
          PROVE  qp'[r] = qp[r]
      BY <1>4, <1>6, <3>1
    <3>2. ASSUME NEW d \in Clients, NEW s \in Servers, NEW u \in Vias
          PROVE  /\ d # c => qp'[<<Client(d), s, u>>] = qp[<<Client(d), s, u>>]
                 /\ qp'[<<Server(s), d, u>>] = qp[<<Server(s), d, u>>]
                 /\ s # i \/ u # t => qp'[<<Client(c), s, u>>] = qp[<<Client(c), s, u>>]
      <4>1. /\ <<Server(s), d, u>> # q /\ (d # c => <<Client(d), s, u>> # q)
            /\ s # i \/ u # t => <<Client(c), s, u>> # q
        BY Names
      <4>2. /\ <<Server(s), d, u>> \in AllQPs /\ <<Client(d), s, u>> \in AllQPs
            /\ <<Client(c), s, u>> \in AllQPs
        BY QPNames
      <4> QED
        BY ONLY <3>1, <4>1, <4>2
    <3> QED
      BY <3>2
  <2>2. ASSUME NEW s \in Servers, NEW u \in Vias, u \in StoreVias(store)
        PROVE  Connected(<<Client(c), s, u>>, Linked(c, s), LinkReady(u), held[Client(c)][u][s])'
    <3>1. Connected(<<Client(c), s, u>>, Linked(c, s), LinkReady(u), held[Client(c)][u][s])
      BY <1>0, <2>2 DEF QPInv
    <3>2. Linked(c, s)' = Linked(c, s) + 1 /\ Linked(c, s) \in Int
      BY <1>0, <1>1, ClientMoves, Counts
    <3>3. CASE s = i /\ u = t
      <4>1. CASE /\ Linked(c, i) = LinkReady(t) - 2
                 /\ qp' = [qp EXCEPT ![q] = [state |-> "rtr", dest |-> held[Client(c)][t][i]]]
        <5>1. qp'[q] = [state |-> "rtr", dest |-> held[Client(c)][t][i]]
          BY <1>5, <1>6, <4>1
        <5>2. Linked(c, s)' = LinkReady(t) - 1
          BY <1>5, <3>2, <3>3, <4>1
        <5> QED
          BY <1>1, <1>5, <3>3, <5>1, <5>2 DEF Connected
      <4>2. CASE /\ Linked(c, i) = LinkReady(t) - 1
                 /\ qp' = [qp EXCEPT ![q].state = "rts"]
        <5>1. qp[q] = [state |-> "rtr", dest |-> held[Client(c)][t][i]]
          BY <3>1, <3>3, <4>2 DEF Connected
        <5>2. qp'[q] = [state |-> "rts", dest |-> held[Client(c)][t][i]]
          BY <1>5, <1>6, <4>2, <5>1
        <5>3. Linked(c, s)' = LinkReady(t)
          BY <1>5, <3>2, <3>3, <4>2
        <5> QED
          BY <1>1, <1>5, <3>3, <5>2, <5>3 DEF Connected
      <4> QED
        BY <1>4, <4>1, <4>2
    <3>4. CASE s # i \/ u # t
      <4>1. Alike(Linked(c, s), Linked(c, s) + 1, LinkReady(u)) /\ LinkReady(u) \in Int
        <5>1. CASE s = i /\ u # t
          <6>1. (t = "rc" /\ u = "uc") \/ (t = "uc" /\ u = "rc")
            BY <1>5, <3>4, <5>1 DEF Vias
          <6>2. \/ LinkReady(t) = 2 /\ LinkReady(u) = 4
                \/ LinkReady(t) = 4 /\ LinkReady(u) = 2
            BY <6>1 DEF LinkReady
          <6>3. Linked(c, s) = LinkReady(t) - 2 \/ Linked(c, s) = LinkReady(t) - 1
            BY <1>4, <5>1
          <6> QED
            BY <3>2, <6>2, <6>3 DEF Alike
        <5>2. CASE s # i
          <6>1. LinkReady(u) \in {2, 4} /\ LinkReady(u) <= LinkLen(store) /\ LinkLen(store) \in Int
            <7>1. store \in AllStores
              BY <1>0, Numbers
            <7> QED
              BY <7>1, <2>2 DEF LinkReady, LinkLen, StoreVias, Vias
          <6>2. Linked(c, s) >= LinkLen(store) \/ Linked(c, s) < 0
            BY <1>3, <5>2
          <6> QED
            BY <3>2, <6>1, <6>2 DEF Alike
        <5> QED
          BY <3>4, <5>1, <5>2
      <4>2. Connected(<<Client(c), s, u>>, Linked(c, s) + 1, LinkReady(u), held[Client(c)][u][s])
        BY <3>1, <3>2, <4>1, KeepsConnected
      <4> QED
        BY <1>1, <2>1, <3>2, <3>4, <4>2 DEF Connected
    <3> QED
      BY <3>3, <3>4
  <2>3. ASSUME NEW s \in Servers, NEW u \in Vias, u \notin StoreVias(store)
        PROVE  qp'[<<Client(c), s, u>>].state = "none"
    <3>1. qp[<<Client(c), s, u>>].state = "none" /\ u # t
      BY <1>0, <2>3 DEF QPInv
    <3> QED
      BY <2>1, <3>1
  <2> QED
    BY <1>0, <1>1, <2>1, <2>2, <2>3, ClientQPs
<1> QED
  BY <1>7, <1>8, <1>9, <1>10 DEF IInv

\* In the exchange a server registers nothing and posts no RECVs.
LEMMA AnsweringEarly ==
    ASSUME TypeOK, NEW s \in Servers, NEW j \in Clients, NEW k \in 1 .. ServeLen(store),
           Answering(s, j, k)
    PROVE  Served(s, 0) >= -1 /\ (store = "Pilaf" => pos[Server(s)] <= 3 + 10 * NumClients)
<1>1. /\ Served(s, j) = k - 1 /\ k \in Nat /\ k >= 1 /\ k <= ServeLen(store)
      /\ 0 < j => Served(s, 0) >= ServeLen(store)
  BY DEF Answering, ServeLen
<1>2. ServeLen(store) \in {8, 10} /\ (store = "Pilaf" => ServeLen(store) = 10)
  BY DEF ServeLen
<1>3. pos[Server(s)] \in Nat /\ Served(s, 0) \in Int
  BY Counts
<1>4. Served(s, 0) >= -1
  <2>1. CASE j = 0
    BY <1>1, <2>1
  <2>2. CASE 0 < j
    BY <1>1, <1>2, <1>3, <2>2
  <2> QED
    BY <2>1, <2>2
<1>5. ASSUME store = "Pilaf"
      PROVE  pos[Server(s)] <= 3 + 10 * NumClients
  <2>1. pos[Server(s)] - (3 + 10 * j) = k - 1
    BY <1>1, <1>5 DEF Served, ServeAt
  <2> QED
    BY <1>1, <1>2, <1>3, <1>5, <2>1
<1> QED
  BY <1>4, <1>5

\* A call for one client changes no count of another.
LEMMA AnsweringOthers ==
    ASSUME TypeOK, NEW s \in Servers, NEW j \in Clients, NEW k \in 1 .. ServeLen(store),
           Answering(s, j, k), NEW i \in Clients, i # j
    PROVE  /\ Served(s, i) + 1 >= 1 => Served(s, i) >= 1
           /\ ServerSent(store, Served(s, i) + 1) = ServerSent(store, Served(s, i))
           /\ ServerGot(store, Served(s, i) + 1) = ServerGot(store, Served(s, i))
           /\ \A t \in StoreVias(store) : Alike(Served(s, i), Served(s, i) + 1, ServeReady(store, t))
<1>1. store \in AllStores /\ Served(s, i) \in Int
  BY Numbers, Counts
<1>2. Served(s, i) < 0 \/ Served(s, i) >= ServeLen(store)
  <2>1. (i < j => Served(s, i) >= ServeLen(store)) /\ (i > j => Served(s, i) < 0)
    BY DEF Answering
  <2> QED
    BY <2>1
<1>3. ServeLen(store) \in {8, 10}
  BY DEF ServeLen
<1>4. Served(s, i) + 1 >= 1 => Served(s, i) >= 1
  BY <1>1, <1>2, <1>3
<1>5. \A t \in StoreVias(store) :
        ServeReady(store, t) \in {5, 7, 9} /\ ServeReady(store, t) <= ServeLen(store)
  BY <1>1 DEF ServeReady, ServeLen, StoreVias
<1>6. ASSUME NEW t \in StoreVias(store)
      PROVE  Alike(Served(s, i), Served(s, i) + 1, ServeReady(store, t))
  <2> DEFINE n == Served(s, i)
             r == ServeReady(store, t)
  <2>1. n \in Int /\ r \in {5, 7, 9} /\ (n < 0 \/ n >= r)
    BY <1>1, <1>2, <1>3, <1>5
  <2> HIDE DEF n, r
  <2>2. Alike(n, n + 1, r)
    BY <2>1 DEF Alike
  <2> QED
    BY <2>2 DEF n, r
<1> QED
  BY <1>1, <1>2, <1>4, <1>6, Outside

\* A server knows the attributes of the client's queue pair when it needs them.
LEMMA ServerKnows ==
    ASSUME TypeOK, QueueInv, ExchangeInv, NEW s \in Servers, NEW j \in Clients,
           NEW t \in StoreVias(store), Served(s, j) = ServeReady(store, t) - 2
    PROVE  held[Server(s)][t][j] = <<Client(accepted[s][j + 1]), s, t>>
           /\ accepted[s][j + 1] \in Clients
<1>1. store \in AllStores /\ Served(s, j) \in Int
  BY Numbers, Counts
<1>2. Served(s, j) >= 1
  BY <1>1 DEF ServeReady
<1>3. j < Len(accepted[s]) /\ accepted[s] \in Seq(Clients)
  BY <1>2 DEF QueueInv, TypeOK
<1>4. accepted[s][j + 1] \in Clients
  <2>1. j + 1 \in 1 .. Len(accepted[s])
    BY <1>3
  <2> QED
    BY <1>3, <2>1
<1>5. PICK c \in Clients : accepted[s][j + 1] = c
  BY <1>4
<1>6. Taken(Server(s), j, Client(c), s, ToServer(store), ServerGot(store, Served(s, j)))
  BY <1>3, <1>5 DEF ExchangeInv, Met
<1>7. \E k \in 1 .. ServerGot(store, Served(s, j)) : ToServer(store)[k] = t
  <2>1. CASE store # "Pilaf"
    <3>1. t = "rc" /\ Served(s, j) = 5
      BY <2>1 DEF StoreVias, ServeReady
    <3>2. ServerGot(store, Served(s, j)) = 2
      BY <2>1, <3>1 DEF ServerGot, Past
    <3>3. ToServer(store)[2] = t
      BY <2>1, <3>1 DEF ToServer
    <3> QED
      BY <3>2, <3>3
  <2>2. CASE store = "Pilaf" /\ t = "rc"
    <3>1. Served(s, j) = 3
      BY <2>2 DEF ServeReady
    <3>2. ServerGot(store, Served(s, j)) = 1
      BY <2>2, <3>1 DEF ServerGot, Past
    <3>3. ToServer(store)[1] = t
      BY <2>2 DEF ToServer
    <3> QED
      BY <3>2, <3>3
  <2>3. CASE store = "Pilaf" /\ t = "uc"
    <3>1. Served(s, j) = 7
      BY <2>3 DEF ServeReady
    <3>2. ServerGot(store, Served(s, j)) = 2
      BY <2>3, <3>1 DEF ServerGot, Past
    <3>3. ToServer(store)[2] = t
      BY <2>3 DEF ToServer
    <3> QED
      BY <3>2, <3>3
  <2> QED
    BY <2>1, <2>2, <2>3 DEF StoreVias, Vias
<1>8. held[Server(s)][t][j] = Datum(Client(c), s, t)
  <2>1. t \in Places \cup Vias
    BY DEF StoreVias, Vias
  <2> QED
    BY <1>6, <1>7, <2>1 DEF Taken, Content
<1>9. Datum(Client(c), s, t) = <<Client(c), s, t>>
  BY DEF Datum, StoreVias, Vias
<1> QED
  BY <1>4, <1>5, <1>8, <1>9

\* A server takes a queue pair to RTR or to RTS.
LEMMA ServerConnects ==
    ASSUME IInv, NEW s \in Servers, ReadyToReceive(Server(s)) \/ ReadyToSend(Server(s))
    PROVE  IInv'
<1>0. TypeOK /\ MemoryInv /\ QueueInv /\ LinkInv /\ ExchangeInv /\ QPInv /\ AlertInv
  BY DEF IInv
<1>1. /\ ~Running(Server(s)) /\ Call(Server(s)).call \in {"rtr", "rts"} /\ Advance(Server(s))
      /\ UNCHANGED <<store, dead, areas, loaded, listening, backlog, accepted, link, chan, held,
                     recvs, heard, lost>>
  BY DEF ReadyToReceive, ReadyToSend, At, netVars
<1>2. PICK j \in Clients, k \in 1 .. ServeLen(store) : Answering(s, j, k)
  BY <1>0, <1>1, ServerServes
<1>3. PICK t \in StoreVias(store) : Call(Server(s)).what = t
  BY <1>1, <1>2 DEF Answering, ServeStep
<1> DEFINE q == <<Server(s), j, t>>
           r == ServeReady(store, t)
<1>4. /\ Call(Server(s)).conn = j /\ Served(s, j) = k - 1
      /\ Call(Server(s)).call = "rtr" => k = r - 1
      /\ Call(Server(s)).call = "rts" => k = r
      /\ ServerGot(store, k) = ServerGot(store, k - 1)
      /\ ServerSent(store, k) = ServerSent(store, k - 1)
  BY <1>1, <1>2, <1>3 DEF Answering, ServeStep
<1>5. t \in Vias /\ q \in AllQPs /\ r \in {5, 7, 9} /\ k \in Nat
  <2>1. t \in Vias
    BY DEF StoreVias, Vias
  <2>2. q \in AllQPs
    BY <2>1, QPNames
  <2>3. r \in {5, 7, 9} /\ k \in Nat
    BY DEF ServeReady, ServeLen
  <2> QED
    BY <2>1, <2>2, <2>3
<1>6. \/ /\ Served(s, j) = r - 2
         /\ qp' = [qp EXCEPT ![q] = [state |-> "rtr", dest |-> held[Server(s)][t][j]]]
      \/ /\ Served(s, j) = r - 1
         /\ qp' = [qp EXCEPT ![q].state = "rts"]
  <2>1. CASE Call(Server(s)).call = "rtr"
    <3>1. ReadyToReceive(Server(s))
      BY <2>1 DEF ReadyToSend, At
    <3>2. qp' = [qp EXCEPT ![q] = [state |-> "rtr", dest |-> held[Server(s)][t][j]]]
      BY <1>3, <1>4, <3>1 DEF ReadyToReceive
    <3>3. Served(s, j) = r - 2
      BY <1>4, <1>5, <2>1
    <3> QED
      BY <3>2, <3>3
  <2>2. CASE Call(Server(s)).call = "rts"
    <3>1. ReadyToSend(Server(s))
      BY <2>2 DEF ReadyToReceive, At
    <3>2. qp' = [qp EXCEPT ![q].state = "rts"]
      BY <1>3, <1>4, <3>1 DEF ReadyToSend
    <3>3. Served(s, j) = r - 1
      BY <1>4, <1>5, <2>2
    <3> QED
      BY <3>2, <3>3
  <2> QED
    BY <1>1, <2>1, <2>2
<1>7. /\ qp \in [AllQPs -> [state : {"none", "init", "rtr", "rts"}, dest : AllQPs \cup {None}]]
      /\ areas \subseteq Areas /\ loaded \subseteq Servers /\ listening \subseteq Servers
      /\ recvs \cup heard \cup lost \subseteq AllQPs
  BY <1>0 DEF TypeOK
<1>8. Served(s, j) = r - 2 => /\ held[Server(s)][t][j] = <<Client(accepted[s][j + 1]), s, t>>
                              /\ accepted[s][j + 1] \in Clients
  BY <1>0, ServerKnows
<1> HIDE DEF r
<1>9. TypeOK'
  <2>1. CASE /\ Served(s, j) = r - 2
             /\ qp' = [qp EXCEPT ![q] = [state |-> "rtr", dest |-> held[Server(s)][t][j]]]
    <3>1. held[Server(s)][t][j] \in AllQPs
      <4>1. PICK c \in Clients : accepted[s][j + 1] = c
        BY <1>8, <2>1
      <4>2. <<Client(c), s, t>> \in AllQPs
        BY <1>5, QPNames
      <4> QED
        BY <1>8, <2>1, <4>1, <4>2
    <3>2. qp' \in [AllQPs -> [state : {"none", "init", "rtr", "rts"}, dest : AllQPs \cup {None}]]
      BY <1>7, <2>1, <3>1
    <3> QED
      BY <1>0, <1>1, <1>7, <3>2, Names, KeepsType
  <2>2. CASE qp' = [qp EXCEPT ![q].state = "rts"]
    <3>1. [qp[q] EXCEPT !.state = "rts"]
            \in [state : {"none", "init", "rtr", "rts"}, dest : AllQPs \cup {None}]
      BY <1>5, <1>7
    <3>2. qp' \in [AllQPs -> [state : {"none", "init", "rtr", "rts"}, dest : AllQPs \cup {None}]]
      BY <1>7, <2>2, <3>1
    <3> QED
      BY <1>0, <1>1, <1>7, <3>2, Names, KeepsType
  <2> QED
    BY <1>6, <2>1, <2>2
<1>10. MemoryInv' /\ AlertInv'
  <2>1. Served(s, 0) >= -1 /\ (store = "Pilaf" => pos[Server(s)] <= 3 + 10 * NumClients)
    BY <1>0, <1>2, AnsweringEarly
  <2> QED
    BY <1>0, <1>1, <2>1, ServerBusy
<1>11. QueueInv' /\ LinkInv' /\ ExchangeInv'
  <2>1. ASSUME NEW i \in Clients
        PROVE  /\ Served(s, i) + 1 >= 1 => Served(s, i) >= 1
               /\ ServerSent(store, Served(s, i) + 1) = ServerSent(store, Served(s, i))
               /\ ServerGot(store, Served(s, i) + 1) = ServerGot(store, Served(s, i))
    <3>1. CASE i = j
      <4>1. Served(s, j) + 1 = k /\ Served(s, j) >= 1
        BY <1>4, <1>5, <1>6
      <4> QED
        BY <1>4, <3>1, <4>1
    <3>2. CASE i # j
      BY <1>0, <1>2, <3>2, AnsweringOthers
    <3> QED
      BY <3>1, <3>2
  <2> QED
    BY <1>0, <1>1, <2>1, ServerQuiet
<1>12. QPInv'
  <2>1. \A d \in Clients, p \in Servers, u \in Vias :
          /\ qp'[<<Client(d), p, u>>] = qp[<<Client(d), p, u>>]
          /\ p # s => qp'[<<Server(p), d, u>>] = qp[<<Server(p), d, u>>]
          /\ d # j \/ u # t => qp'[<<Server(s), d, u>>] = qp[<<Server(s), d, u>>]
    <3>1. ASSUME NEW z \in AllQPs, z # q
          PROVE  qp'[z] = qp[z]
      BY <1>6, <1>7, <3>1
    <3>2. ASSUME NEW d \in Clients, NEW p \in Servers, NEW u \in Vias
          PROVE  /\ qp'[<<Client(d), p, u>>] = qp[<<Client(d), p, u>>]
                 /\ p # s => qp'[<<Server(p), d, u>>] = qp[<<Server(p), d, u>>]
                 /\ d # j \/ u # t => qp'[<<Server(s), d, u>>] = qp[<<Server(s), d, u>>]
      <4>1. /\ <<Client(d), p, u>> # q /\ (p # s => <<Server(p), d, u>> # q)
            /\ d # j \/ u # t => <<Server(s), d, u>> # q
        BY Names
      <4>2. /\ <<Client(d), p, u>> \in AllQPs /\ <<Server(p), d, u>> \in AllQPs
            /\ <<Server(s), d, u>> \in AllQPs
        BY QPNames
      <4> QED
        BY ONLY <3>1, <4>1, <4>2
    <3> QED
      BY <3>2
  <2>2. ASSUME NEW i \in Clients, NEW u \in Vias, u \in StoreVias(store)
        PROVE  Connected(<<Server(s), i, u>>, Served(s, i), ServeReady(store, u),
                         <<Client(accepted[s][i + 1]), s, u>>)'
    <3>0. ServeReady(store, u)' = ServeReady(store, u)
      BY <1>1
    <3>1. Connected(<<Server(s), i, u>>, Served(s, i), ServeReady(store, u),
                    <<Client(accepted[s][i + 1]), s, u>>)
      BY <1>0, <2>2 DEF QPInv
    <3>2. Served(s, i)' = Served(s, i) + 1 /\ Served(s, i) \in Int
      BY <1>0, <1>1, ServerMoves, Counts
    <3>3. CASE i = j /\ u = t
      <4>1. CASE /\ Served(s, j) = r - 2
                 /\ qp' = [qp EXCEPT ![q] = [state |-> "rtr", dest |-> held[Server(s)][t][j]]]
        <5>1. qp'[q] = [state |-> "rtr", dest |-> <<Client(accepted[s][j + 1]), s, t>>]
          BY <1>5, <1>7, <1>8, <4>1
        <5>2. Served(s, i)' = r - 1
          BY <1>5, <3>2, <3>3, <4>1
        <5> QED
          BY <1>1, <1>5, <3>0, <3>3, <5>1, <5>2 DEF Connected, r
      <4>2. CASE /\ Served(s, j) = r - 1
                 /\ qp' = [qp EXCEPT ![q].state = "rts"]
        <5>1. qp[q] = [state |-> "rtr", dest |-> <<Client(accepted[s][j + 1]), s, t>>]
          BY <3>1, <3>3, <4>2 DEF Connected, r
        <5>2. qp'[q] = [state |-> "rts", dest |-> <<Client(accepted[s][j + 1]), s, t>>]
          BY <1>5, <1>7, <4>2, <5>1
        <5>3. Served(s, i)' = r
          BY <1>5, <3>2, <3>3, <4>2
        <5> QED
          BY <1>1, <1>5, <3>0, <3>3, <5>2, <5>3 DEF Connected, r
      <4> QED
        BY <1>6, <4>1, <4>2
    <3>4. CASE i # j \/ u # t
      <4>1. Alike(Served(s, i), Served(s, i) + 1, ServeReady(store, u)) /\ ServeReady(store, u) \in Int
        <5>1. CASE i = j /\ u # t
          <6>1. (t = "rc" /\ u = "uc") \/ (t = "uc" /\ u = "rc")
            BY <1>5, <5>1 DEF Vias
          <6>2. store = "Pilaf"
            BY <2>2, <6>1 DEF StoreVias
          <6>3. \/ r = 5 /\ ServeReady(store, u) = 9
                \/ r = 9 /\ ServeReady(store, u) = 5
            BY <6>1, <6>2 DEF ServeReady, r
          <6>4. Served(s, i) = r - 2 \/ Served(s, i) = r - 1
            BY <1>6, <5>1
          <6> QED
            BY <3>2, <6>3, <6>4 DEF Alike
        <5>2. CASE i # j
          <6>1. Alike(Served(s, i), Served(s, i) + 1, ServeReady(store, u))
            BY <1>0, <1>2, <2>2, <5>2, AnsweringOthers
          <6> QED
            BY <6>1 DEF ServeReady
        <5> QED
          BY <3>4, <5>1, <5>2
      <4>2. Connected(<<Server(s), i, u>>, Served(s, i) + 1, ServeReady(store, u),
                      <<Client(accepted[s][i + 1]), s, u>>)
        BY <3>1, <3>2, <4>1, KeepsConnected
      <4> QED
        BY <1>1, <2>1, <3>0, <3>2, <3>4, <4>2 DEF Connected
    <3> QED
      BY <3>3, <3>4
  <2>3. ASSUME NEW i \in Clients, NEW u \in Vias, u \notin StoreVias(store)
        PROVE  qp'[<<Server(s), i, u>>].state = "none"
    <3>1. qp[<<Server(s), i, u>>].state = "none" /\ u # t
      BY <1>0, <2>3 DEF QPInv
    <3> QED
      BY <2>1, <3>1
  <2> QED
    BY <1>0, <1>1, <2>1, <2>2, <2>3, ServerQPs
<1> QED
  BY <1>9, <1>10, <1>11, <1>12 DEF IInv
-----------------------------------------------------------------------------
(***************************************************************************)
(* The exchange: what writing, reading and accepting do to a connection.   *)
(***************************************************************************)
\* Writing puts the next word on a channel.
LEMMA Sends ==
    ASSUME NEW ch \in Seq(Data), NEW from, NEW i, NEW words, NEW sent \in Nat, NEW got \in Nat,
           Carries(ch, from, i, words, sent, got), NEW d \in Data, d = Datum(from, i, words[sent + 1])
    PROVE  Carries(Append(ch, d), from, i, words, sent + 1, got)
<1>1. Len(ch) = sent - got /\ \A k \in 1 .. sent - got : ch[k] = Datum(from, i, words[got + k])
  BY DEF Carries
<1>2. Len(Append(ch, d)) = sent + 1 - got
  BY <1>1
<1>3. ASSUME NEW k \in 1 .. sent + 1 - got
      PROVE  Append(ch, d)[k] = Datum(from, i, words[got + k])
  <2>1. CASE k \in 1 .. Len(ch)
    BY <1>1, <2>1
  <2>2. CASE k = Len(ch) + 1
    <3>1. Append(ch, d)[k] = d
      BY <2>2
    <3>2. got + k = sent + 1
      BY <1>1, <2>2
    <3> QED
      BY <3>1, <3>2
  <2> QED
    BY <1>1, <2>1, <2>2
<1> QED
  BY <1>2, <1>3 DEF Carries

\* Reading takes the next word from a channel.
LEMMA Receives ==
    ASSUME NEW ch \in Seq(Data), NEW from, NEW i, NEW words, NEW sent \in Nat, NEW got \in Nat,
           Carries(ch, from, i, words, sent, got), ch # <<>>
    PROVE  /\ Head(ch) = Datum(from, i, words[got + 1]) /\ Head(ch) \in Data
           /\ Tail(ch) \in Seq(Data)
           /\ Carries(Tail(ch), from, i, words, sent, got + 1)
<1>1. Len(ch) = sent - got /\ \A k \in 1 .. sent - got : ch[k] = Datum(from, i, words[got + k])
  BY DEF Carries
<1>2. Len(ch) >= 1 /\ Len(ch) \in Nat /\ Head(ch) = ch[1] /\ Tail(ch) \in Seq(Data)
      /\ Len(Tail(ch)) = Len(ch) - 1
  OBVIOUS
<1>3. 1 \in 1 .. sent - got
  BY <1>1, <1>2
<1>4. Head(ch) = Datum(from, i, words[got + 1]) /\ Head(ch) \in Data
  BY <1>1, <1>2, <1>3
<1>5. ASSUME NEW k \in 1 .. sent - (got + 1)
      PROVE  Tail(ch)[k] = Datum(from, i, words[got + 1 + k])
  <2>1. Tail(ch)[k] = ch[k + 1] /\ k + 1 \in 1 .. sent - got
    BY <1>1, <1>2
  <2>2. got + (k + 1) = got + 1 + k
    OBVIOUS
  <2> QED
    BY <1>1, <2>1, <2>2
<1>6. Len(Tail(ch)) = sent - (got + 1)
  BY <1>1, <1>2
<1> QED
  BY <1>2, <1>4, <1>5, <1>6 DEF Carries

\* Reading adds one word to what is held.
LEMMA Collects ==
    ASSUME NEW from, NEW j, NEW words, NEW got \in Nat, NEW w
    PROVE  /\ w = words[got + 1] => Content(w, from, j, words, got + 1) = Datum(from, j, w)
           /\ w # words[got + 1] => Content(w, from, j, words, got + 1) = Content(w, from, j, words, got)
<1>1. got + 1 \in 1 .. got + 1
  OBVIOUS
<1>2. \A k \in 1 .. got : k \in 1 .. got + 1
  OBVIOUS
<1>3. \A k \in 1 .. got + 1 : k = got + 1 \/ k \in 1 .. got
  OBVIOUS
<1> QED
  BY <1>1, <1>2, <1>3 DEF Content

\* The counts are at most the number of words.
LEMMA Counters ==
    ASSUME NEW st \in AllStores, NEW n \in Int
    PROVE  /\ ClientSent(st, n) \in 0 .. 2 /\ ClientGot(st, n) \in 0 .. 3
           /\ ServerSent(st, n) \in 0 .. 3 /\ ServerGot(st, n) \in 0 .. 2
  BY DEF ClientSent, ClientGot, ServerSent, ServerGot, Past

\* What is sent has a name.
LEMMA Words ==
    ASSUME NEW st \in AllStores
    PROVE  /\ \A g \in 0 .. 2 : ToClient(st)[g + 1] \in Places \cup Vias
           /\ \A g \in 0 .. 1 : ToServer(st)[g + 1] \in Places \cup Vias
<1>1. \A k \in 1 .. 3 : ToClient(st)[k] \in Places \cup Vias
  <2>1. ToClient(st)[1] \in Places \cup Vias /\ ToClient(st)[2] \in Places \cup Vias
        /\ ToClient(st)[3] \in Places \cup Vias
    BY DEF ToClient, Places, Vias
  <2>2. \A k \in 1 .. 3 : k = 1 \/ k = 2 \/ k = 3
    OBVIOUS
  <2> QED
    BY <2>1, <2>2
<1>2. \A k \in 1 .. 2 : ToServer(st)[k] \in Places \cup Vias
  <2>1. ToServer(st)[1] \in Places \cup Vias /\ ToServer(st)[2] \in Places \cup Vias
    BY DEF ToServer, Places, Vias
  <2>2. \A k \in 1 .. 2 : k = 1 \/ k = 2
    OBVIOUS
  <2> QED
    BY <2>1, <2>2
<1>3. (\A g \in 0 .. 2 : g + 1 \in 1 .. 3) /\ (\A g \in 0 .. 1 : g + 1 \in 1 .. 2)
  OBVIOUS
<1> QED
  BY <1>1, <1>2, <1>3

\* What is sent is a datum.
LEMMA DatumType ==
    ASSUME NEW p \in Procs, NEW i \in Conns(p), NEW w \in Places \cup Vias
    PROVE  Datum(p, i, w) \in Data
<1>1. CASE w \in Vias
  <2>1. <<p, i, w>> \in AllQPs
    BY <1>1 DEF AllQPs
  <2> QED
    BY <1>1, <2>1 DEF Datum, Data
<1>2. CASE w \notin Vias
  <2>1. <<p, w>> \in Areas
    BY <1>2 DEF Areas
  <2> QED
    BY <1>2, <2>1 DEF Datum, Data
<1> QED
  BY <1>1, <1>2

\* One read of one process.
Put(h, w, i, v) == [h EXCEPT ![w] = [h[w] EXCEPT ![i] = v]]

\* One entry of what a process holds changes.
LEMMA HeldStep ==
    ASSUME TypeOK, NEW p \in Procs, NEW w \in Places \cup Vias, NEW i \in Conns(p),
           NEW v \in Data \cup {None}, \A q \in Procs : q # p => held'[q] = held[q],
           held'[p] = Put(held[p], w, i, v)
    PROVE  /\ held'[p][w][i] = v
           /\ \A u \in Places \cup Vias, l \in Conns(p) :
                u # w \/ l # i => held'[p][u][l] = held[p][u][l]
           /\ \A q \in Procs : held'[q] \in [Places \cup Vias -> [Conns(q) -> Data \cup {None}]]
<1>1. \A q \in Procs : held[q] \in [Places \cup Vias -> [Conns(q) -> Data \cup {None}]]
  BY DEF TypeOK
<1>2. held'[p] = [held[p] EXCEPT ![w] = [held[p][w] EXCEPT ![i] = v]]
  BY DEF Put
<1>3. held[p] \in [Places \cup Vias -> [Conns(p) -> Data \cup {None}]]
  BY <1>1
<1>4. held'[p] \in [Places \cup Vias -> [Conns(p) -> Data \cup {None}]]
  BY <1>2, <1>3
<1>5. /\ held'[p][w][i] = v
      /\ \A u \in Places \cup Vias, l \in Conns(p) :
           u # w \/ l # i => held'[p][u][l] = held[p][u][l]
  BY <1>2, <1>3
<1> QED
  BY <1>1, <1>2, <1>4, <1>5

\* The type of what the exchange changes.
LEMMA ExchangeType ==
    ASSUME TypeOK, NEW p \in Procs, ~Running(p), Advance(p),
           UNCHANGED <<store, dead, qp, areas, loaded, listening, recvs, heard, lost>>,
           backlog' \in [Servers -> Seq(Clients)], accepted' \in [Servers -> Seq(Clients)],
           link' \in [Clients -> [Servers -> {"closed", "open", "refused"}]],
           chan' \in [Procs \X Procs -> Seq(Data)],
           DOMAIN held' = Procs,
           \A q \in Procs : held'[q] \in [Places \cup Vias -> [Conns(q) -> Data \cup {None}]]
    PROVE  TypeOK'
<1>1. pos' \in [Procs -> Nat] /\ \A q \in Procs : pos'[q] <= Len(Script[store'][q])
  BY PosType
<1>2. /\ store \in Stores /\ dead \subseteq ClientProcs
      /\ qp \in [AllQPs -> [state : {"none", "init", "rtr", "rts"}, dest : AllQPs \cup {None}]]
      /\ areas \subseteq Areas
      /\ loaded \subseteq Servers /\ listening \subseteq Servers
      /\ recvs \cup heard \cup lost \subseteq AllQPs
  BY DEF TypeOK
<1> QED
  BY <1>1, <1>2 DEF TypeOK

\* A connection that a step has nothing to do with.
Untouched(c, s, j) ==
    /\ chan'[<<Client(c), Server(s)>>] = chan[<<Client(c), Server(s)>>]
    /\ chan'[<<Server(s), Client(c)>>] = chan[<<Server(s), Client(c)>>]
    /\ \A w \in Places \cup Vias :
         held'[Client(c)][w][s] = held[Client(c)][w][s] /\ held'[Server(s)][w][j] = held[Server(s)][w][j]
    /\ ClientSent(store, Visited(c, s)') = ClientSent(store, Visited(c, s))
    /\ ClientGot(store, Visited(c, s)') = ClientGot(store, Visited(c, s))
    /\ ServerSent(store, Served(s, j)') = ServerSent(store, Served(s, j))
    /\ ServerGot(store, Served(s, j)') = ServerGot(store, Served(s, j))

\* A pair that a step does not touch stays as it is.
LEMMA StaysMet ==
    ASSUME NEW c \in Clients, NEW s \in Servers, NEW j \in Clients,
           Met(c, s, j), Untouched(c, s, j), store' = store
    PROVE  Met(c, s, j)'
<1> DEFINE cs == ClientSent(store, Visited(c, s))
           cg == ClientGot(store, Visited(c, s))
           ss == ServerSent(store, Served(s, j))
           sg == ServerGot(store, Served(s, j))
<1>1. cs' = cs /\ cg' = cg /\ ss' = ss /\ sg' = sg
  BY DEF Untouched
<1>2. /\ Flow(Client(c), s, Server(s), ToServer(store), cs, sg)
      /\ Flow(Server(s), j, Client(c), ToClient(store), ss, cg)
      /\ Taken(Client(c), s, Server(s), j, ToClient(store), cg)
      /\ Taken(Server(s), j, Client(c), s, ToServer(store), sg)
  BY DEF Met
<1> HIDE DEF cs, cg, ss, sg
<1>3. /\ Flow(Client(c), s, Server(s), ToServer(store), cs, sg)'
      /\ Flow(Server(s), j, Client(c), ToClient(store), ss, cg)'
  BY <1>1, <1>2 DEF Flow, Untouched
<1>4. /\ Taken(Client(c), s, Server(s), j, ToClient(store), cg)'
      /\ Taken(Server(s), j, Client(c), s, ToServer(store), sg)'
  BY <1>1, <1>2 DEF Taken, Untouched
<1> QED
  BY <1>3, <1>4 DEF Met, cs, cg, ss, sg

\* What a step must show of the connections that it changes.
LEMMA ExchangeStep ==
    ASSUME TypeOK, ExchangeInv, UNCHANGED <<store, accepted>>,
           \A s \in Servers, c \in Clients : c \notin ToSet(accepted[s]) =>
             /\ chan'[<<Client(c), Server(s)>>] = chan[<<Client(c), Server(s)>>]
             /\ chan'[<<Server(s), Client(c)>>] = chan[<<Server(s), Client(c)>>]
             /\ \A w \in Places \cup Vias : held'[Client(c)][w][s] = held[Client(c)][w][s]
             /\ Visited(c, s) <= 1 \/ link[c][s] = "refused" =>
                  Visited(c, s)' <= 1 \/ link'[c][s] = "refused",
           \A s \in Servers, j, c \in Clients : j < Len(accepted[s]) /\ accepted[s][j + 1] = c =>
             Met(c, s, j)' \/ Untouched(c, s, j),
           \A s \in Servers, j \in Clients : ~(j < Len(accepted[s])) =>
             \A w \in Places \cup Vias : held'[Server(s)][w][j] = held[Server(s)][w][j]
    PROVE  ExchangeInv'
<1>1. ASSUME NEW s \in Servers, NEW c \in Clients, c \notin ToSet(accepted[s])
      PROVE  Unmet(c, s)'
  <2>1. Unmet(c, s)
    BY <1>1 DEF ExchangeInv
  <2>2. /\ chan'[<<Client(c), Server(s)>>] = chan[<<Client(c), Server(s)>>]
        /\ chan'[<<Server(s), Client(c)>>] = chan[<<Server(s), Client(c)>>]
        /\ \A w \in Places \cup Vias : held'[Client(c)][w][s] = held[Client(c)][w][s]
        /\ Visited(c, s) <= 1 \/ link[c][s] = "refused" =>
             Visited(c, s)' <= 1 \/ link'[c][s] = "refused"
    BY <1>1
  <2> QED
    BY ONLY <2>1, <2>2 DEF Unmet
<1>2. ASSUME NEW s \in Servers, NEW j \in Clients, NEW c \in Clients,
             j < Len(accepted[s]), accepted[s][j + 1] = c
      PROVE  Met(c, s, j)'
  <2>1. Met(c, s, j)
    BY <1>2 DEF ExchangeInv
  <2>2. Met(c, s, j)' \/ Untouched(c, s, j)
    BY <1>2
  <2> QED
    BY <2>1, <2>2, StaysMet
<1>3. ASSUME NEW s \in Servers, NEW j \in Clients, ~(j < Len(accepted[s]))
      PROVE  \A w \in Places \cup Vias : held'[Server(s)][w][j] = None
  <2>1. \A w \in Places \cup Vias : held[Server(s)][w][j] = None
    BY <1>3 DEF ExchangeInv
  <2>2. \A w \in Places \cup Vias : held'[Server(s)][w][j] = held[Server(s)][w][j]
    BY <1>3
  <2> QED
    BY <2>1, <2>2
<1> QED
  BY <1>1, <1>2, <1>3 DEF ExchangeInv

\* A client in the exchange: what it has not to do with.
LEMMA VisitingEarly ==
    ASSUME TypeOK, NEW c \in Clients, NEW i \in Servers, NEW k \in 1 .. 6, Visiting(c, i, k)
    PROVE  pos[Client(c)] >= 2 /\ (store = "Pilaf" => pos[Client(c)] <= 2 + 10 * NumServers)
<1>1. pos[Client(c)] \in Nat
  BY Counts
<1>2. Visited(c, i) = k - 1 /\ Linked(c, 0) < 0
  BY DEF Visiting
<1>3. pos[Client(c)] >= 2
  BY <1>1, <1>2 DEF Visited, VisitAt
<1>4. pos[Client(c)] < 2 + 6 * NumServers
  BY <1>1, <1>2 DEF Linked, LinkAt
<1> QED
  BY <1>1, <1>3, <1>4

\* A client that visits a server is through with the earlier ones, and has not
\* begun with the later ones.
LEMMA VisitingOthers ==
    ASSUME TypeOK, NEW c \in Clients, NEW i \in Servers, NEW k \in 1 .. 6, Visiting(c, i, k),
           NEW s \in Servers, s # i
    PROVE  /\ Visited(c, s) < 0 \/ Visited(c, s) >= 6
           /\ Visited(c, s) <= 1 => Visited(c, s) + 1 <= 1
           /\ ClientSent(store, Visited(c, s) + 1) = ClientSent(store, Visited(c, s))
           /\ ClientGot(store, Visited(c, s) + 1) = ClientGot(store, Visited(c, s))
<1>1. store \in AllStores /\ Visited(c, s) \in Int
  BY Numbers, Counts
<1>2. Visited(c, s) < 0 \/ Visited(c, s) >= 6
  <2>1. (s < i => Visited(c, s) >= 6) /\ (s > i => Visited(c, s) < 0)
    BY DEF Visiting
  <2> QED
    BY <2>1
<1>3. Visited(c, s) <= 1 => Visited(c, s) + 1 <= 1
  BY <1>1, <1>2
<1> QED
  BY <1>1, <1>2, <1>3, Outside

\* A client that is past connect(), on a socket that is connected, and that the
\* server has written to or that writes, has been accepted.
LEMMA Accepted ==
    ASSUME TypeOK, QueueInv, ExchangeInv, NEW c \in Clients, NEW s \in Servers,
           link[c][s] # "refused", Visited(c, s) >= 2 \/ chan[<<Server(s), Client(c)>>] # <<>>
    PROVE  \E j \in Clients : j < Len(accepted[s]) /\ accepted[s][j + 1] = c /\ Met(c, s, j)
<1>1. c \in ToSet(accepted[s])
  <2>1. ASSUME c \notin ToSet(accepted[s])
        PROVE  FALSE
    <3>1. Unmet(c, s)
      BY <2>1 DEF ExchangeInv
    <3>2. Visited(c, s) \in Int
      BY Counts
    <3> QED
      BY <3>1, <3>2 DEF Unmet
  <2> QED
    BY <2>1
<1>2. accepted[s] \in Seq(Clients) /\ Len(accepted[s]) <= NumClients
  BY DEF TypeOK, QueueInv
<1>3. PICK k \in 1 .. Len(accepted[s]) : accepted[s][k] = c
  BY <1>1, <1>2 DEF ToSet
<1>4. k - 1 \in Clients /\ k - 1 < Len(accepted[s]) /\ (k - 1) + 1 = k
  BY <1>2, <1>3
<1> DEFINE j == k - 1
<1>5. j < Len(accepted[s]) /\ accepted[s][j + 1] = c
  BY <1>3, <1>4
<1>6. Met(c, s, j)
  BY <1>4, <1>5 DEF ExchangeInv
<1> QED
  BY <1>4, <1>5, <1>6

\* No client is accepted twice.
LEMMA AcceptedOnce ==
    ASSUME TypeOK, QueueInv, NEW s \in Servers, NEW j \in Clients, NEW l \in Clients,
           j < Len(accepted[s]), l < Len(accepted[s]), accepted[s][j + 1] = accepted[s][l + 1]
    PROVE  j = l
<1>1. accepted[s] \in Seq(Clients)
  BY DEF TypeOK
<1>2. j + 1 \in 1 .. Len(accepted[s]) /\ l + 1 \in 1 .. Len(accepted[s])
  BY <1>1, Inside
<1>3. \A m, n \in 1 .. Len(accepted[s]) : accepted[s][m] = accepted[s][n] => m = n
  BY DEF QueueInv, Distinct
<1>4. j + 1 = l + 1
  BY <1>2, <1>3
<1> QED
  BY <1>3

\* What a client's read or write leaves alone.
LEMMA VisitingLink ==
    ASSUME TypeOK, LinkInv, NEW c \in Clients, NEW i \in Servers, NEW k \in 1 .. 6, Visiting(c, i, k),
           Advance(Client(c)), UNCHANGED <<store, link, dead>>, link[c][i] # "refused",
           Visited(c, i) >= 1
    PROVE  LinkInv'
<1>1. \A d \in Clients, s \in Servers :
        /\ d = c => Visited(d, s)' = Visited(d, s) + 1
        /\ d # c => Visited(d, s)' = Visited(d, s)
  BY ClientMoves
<1>2. Visited(c, i) \in Int
  BY Counts
<1>3. link[c][i] = "open"
  <2>1. link[c][i] \in {"closed", "open", "refused"}
    BY DEF TypeOK
  <2>2. link[c][i] # "closed"
    BY <1>2 DEF LinkInv
  <2> QED
    BY <2>1, <2>2
<1>4. ASSUME NEW d \in Clients, NEW s \in Servers
      PROVE  \/ Visited(d, s)' = Visited(d, s)
             \/ Visited(d, s) < 0 /\ Visited(d, s)' <= 0
             \/ Visited(d, s) >= 6 /\ Visited(d, s)' >= 1
             \/ link[d][s] = "open" /\ Visited(d, s)' >= 1
  <2>1. CASE d # c
    BY <1>1, <2>1
  <2>2. CASE d = c /\ s = i
    <3>1. Visited(c, i)' = Visited(c, i) + 1
      BY <1>1
    <3> QED
      BY <1>2, <1>3, <2>2, <3>1
  <2>3. CASE d = c /\ s # i
    <3>1. Visited(c, s)' = Visited(c, s) + 1 /\ Visited(c, s) \in Int
      BY <1>1, Counts
    <3>2. Visited(c, s) < 0 \/ Visited(c, s) >= 6
      BY <2>3, VisitingOthers
    <3> QED
      BY <2>3, <3>1, <3>2
  <2> QED
    BY <2>1, <2>2, <2>3
<1> QED
  BY <1>4, KeepsLink

\* A client's read or write changes what has passed on one connection.
LEMMA VisitingExchange ==
    ASSUME TypeOK, QueueInv, ExchangeInv, NEW c \in Clients, NEW i \in Servers, NEW k \in 1 .. 6,
           Visiting(c, i, k), Advance(Client(c)), UNCHANGED <<store, accepted, link>>,
           NEW j \in Clients, j < Len(accepted[i]), accepted[i][j + 1] = c, Met(c, i, j)',
           \A d \in Clients, s \in Servers : d # c \/ s # i =>
             /\ chan'[<<Client(d), Server(s)>>] = chan[<<Client(d), Server(s)>>]
             /\ chan'[<<Server(s), Client(d)>>] = chan[<<Server(s), Client(d)>>]
             /\ \A w \in Places \cup Vias : held'[Client(d)][w][s] = held[Client(d)][w][s],
           \A s \in Servers : held'[Server(s)] = held[Server(s)]
    PROVE  ExchangeInv'
<1>0. TypeOK /\ c \in Clients /\ Advance(Client(c)) /\ store' = store
  OBVIOUS
<1>1. /\ \A d \in Clients, s \in Servers :
           /\ d = c => Visited(d, s)' = Visited(d, s) + 1
           /\ d # c => Visited(d, s)' = Visited(d, s)
      /\ \A s \in Servers, l \in Clients : Served(s, l)' = Served(s, l)
  BY ONLY <1>0, ClientMoves
<1>2. ASSUME NEW d \in Clients, NEW s \in Servers, d # c \/ s # i
      PROVE  /\ Visited(d, s) <= 1 => Visited(d, s)' <= 1
             /\ ClientSent(store, Visited(d, s)') = ClientSent(store, Visited(d, s))
             /\ ClientGot(store, Visited(d, s)') = ClientGot(store, Visited(d, s))
  <2>1. CASE d # c
    BY <1>1, <2>1
  <2>2. CASE d = c
    <3>1. Visited(d, s)' = Visited(d, s) + 1
      BY <1>1, <2>2
    <3>2. s # i
      BY <1>2, <2>2
    <3>3. /\ Visited(c, s) <= 1 => Visited(c, s) + 1 <= 1
          /\ ClientSent(store, Visited(c, s) + 1) = ClientSent(store, Visited(c, s))
          /\ ClientGot(store, Visited(c, s) + 1) = ClientGot(store, Visited(c, s))
      BY ONLY <1>0, <3>2, i \in Servers, k \in 1 .. 6, s \in Servers, Visiting(c, i, k), VisitingOthers
    <3> QED
      BY <2>2, <3>1, <3>3
  <2> QED
    BY <2>1, <2>2
<1>3. \A s \in Servers, d \in Clients : d \notin ToSet(accepted[s]) => d # c \/ s # i
  <2>1. accepted[i] \in Seq(Clients)
    BY DEF TypeOK
  <2>2. c \in ToSet(accepted[i])
    BY ONLY <2>1, j \in Clients, j < Len(accepted[i]), accepted[i][j + 1] = c, Inside
  <2> QED
    BY <2>2
<1>4. ASSUME NEW s \in Servers, NEW l \in Clients, NEW d \in Clients,
             l < Len(accepted[s]) /\ accepted[s][l + 1] = d
      PROVE  Met(d, s, l)' \/ Untouched(d, s, l)
  <2>1. CASE d = c /\ s = i
    <3>1. l = j
      BY <1>4, <2>1, AcceptedOnce
    <3> QED
      BY <2>1, <3>1
  <2>2. CASE d # c \/ s # i
    BY <1>1, <1>2, <2>2 DEF Untouched
  <2> QED
    BY <2>1, <2>2
<1>5. \A s \in Servers, d \in Clients : d \notin ToSet(accepted[s]) =>
        /\ chan'[<<Client(d), Server(s)>>] = chan[<<Client(d), Server(s)>>]
        /\ chan'[<<Server(s), Client(d)>>] = chan[<<Server(s), Client(d)>>]
        /\ \A w \in Places \cup Vias : held'[Client(d)][w][s] = held[Client(d)][w][s]
        /\ Visited(d, s) <= 1 \/ link[d][s] = "refused" => Visited(d, s)' <= 1 \/ link'[d][s] = "refused"
  <2>1. ASSUME NEW s \in Servers, NEW d \in Clients, d \notin ToSet(accepted[s])
        PROVE  /\ chan'[<<Client(d), Server(s)>>] = chan[<<Client(d), Server(s)>>]
               /\ chan'[<<Server(s), Client(d)>>] = chan[<<Server(s), Client(d)>>]
               /\ \A w \in Places \cup Vias : held'[Client(d)][w][s] = held[Client(d)][w][s]
               /\ Visited(d, s) <= 1 \/ link[d][s] = "refused" =>
                    Visited(d, s)' <= 1 \/ link'[d][s] = "refused"
    <3>1. d # c \/ s # i
      BY <1>3, <2>1
    <3>2. Visited(d, s) <= 1 => Visited(d, s)' <= 1
      BY <1>2, <3>1
    <3> QED
      BY <3>1, <3>2
  <2> QED
    BY <2>1
<1> QED
  BY <1>4, <1>5, ExchangeStep

\* A client writes to the server that it visits.
LEMMA ClientWrites ==
    ASSUME IInv, NEW c \in Clients, DoWrite(Client(c))
    PROVE  IInv'
<1>0. TypeOK /\ MemoryInv /\ QueueInv /\ LinkInv /\ ExchangeInv /\ QPInv /\ AlertInv
  BY DEF IInv
<1>1. /\ ~Running(Client(c)) /\ Call(Client(c)).call = "write" /\ Advance(Client(c))
      /\ UNCHANGED <<store, dead, qp, areas, loaded, listening, backlog, accepted, link, held,
                     recvs, heard, lost>>
  BY DEF DoWrite, At
<1>2. PICK i \in Servers, k \in 1 .. 6 : Visiting(c, i, k)
  BY <1>0, <1>1, ClientVisits
<1>3. store \in AllStores /\ Visited(c, i) \in Int
  BY <1>0, Numbers, Counts
<1>4. /\ Call(Client(c)).conn = i /\ Visited(c, i) = k - 1
      /\ ClientSent(store, k - 1) \in 0 .. 1
      /\ Call(Client(c)).what = ToServer(store)[ClientSent(store, k - 1) + 1]
      /\ ClientSent(store, k) = ClientSent(store, k - 1) + 1
      /\ ClientGot(store, k) = ClientGot(store, k - 1)
  BY <1>1, <1>2 DEF Visiting, VisitStep
<1>5. Visited(c, i) >= 2
  <2>1. CASE k = 1 \/ k = 2
    <3>1. ClientSent(store, k) = 0 /\ ClientSent(store, k - 1) = 0
      BY <2>1 DEF ClientSent, Past
    <3> QED
      BY <1>4, <3>1
  <2> QED
    BY <1>4, <2>1
<1>6. /\ link[c][i] # "refused"
      /\ chan' = [chan EXCEPT ![<<Client(c), Server(i)>>] =
                    Append(chan[<<Client(c), Server(i)>>], Datum(Client(c), i, Call(Client(c)).what))]
  <2>1. Peer(Client(c), i) = Server(i) /\ (IsRefused(Client(c), i) <=> link[c][i] = "refused")
    BY Names DEF Peer, IsRefused
  <2> QED
    BY <1>4, <2>1 DEF DoWrite
<1>7. PICK j \in Clients : j < Len(accepted[i]) /\ accepted[i][j + 1] = c /\ Met(c, i, j)
  BY <1>0, <1>5, <1>6, Accepted
<1>8. /\ \A d \in Clients, s \in Servers :
           /\ d = c => Visited(d, s)' = Visited(d, s) + 1 /\ Linked(d, s)' = Linked(d, s) + 1
           /\ d # c => Visited(d, s)' = Visited(d, s) /\ Linked(d, s)' = Linked(d, s)
      /\ \A s \in Servers, l \in Clients : Served(s, l)' = Served(s, l)
  BY <1>0, <1>1, ClientMoves
<1> DEFINE w == Call(Client(c)).what
           v == Datum(Client(c), i, w)
           there == <<Client(c), Server(i)>>
<1>9. w \in Places \cup Vias /\ v \in Data
  <2>1. w \in Places \cup Vias
    BY <1>3, <1>4, Words
  <2>2. Client(c) \in Procs /\ i \in Conns(Client(c))
    BY Names
  <2> QED
    BY <2>1, <2>2, DatumType
<1>10. chan \in [Procs \X Procs -> Seq(Data)] /\ there \in Procs \X Procs
  BY <1>0, Names DEF TypeOK
<1>11. /\ chan'[there] = Append(chan[there], v)
       /\ \A p, q \in Procs : <<p, q>> # there => chan'[<<p, q>>] = chan[<<p, q>>]
  BY <1>6, <1>10
<1>12. TypeOK'
  <2>1. chan' \in [Procs \X Procs -> Seq(Data)]
    <3>1. Append(chan[there], v) \in Seq(Data)
      BY <1>9, <1>10
    <3> QED
      BY <1>6, <1>10, <3>1
  <2>2. /\ backlog \in [Servers -> Seq(Clients)] /\ accepted \in [Servers -> Seq(Clients)]
        /\ link \in [Clients -> [Servers -> {"closed", "open", "refused"}]]
        /\ DOMAIN held = Procs
        /\ \A q \in Procs : held[q] \in [Places \cup Vias -> [Conns(q) -> Data \cup {None}]]
    BY <1>0 DEF TypeOK
  <2> QED
    BY <1>0, <1>1, <2>1, <2>2, Names, ExchangeType
<1>13. MemoryInv' /\ AlertInv'
  <2>1. pos[Client(c)] >= 2 /\ (store = "Pilaf" => pos[Client(c)] <= 2 + 10 * NumServers)
    BY <1>0, <1>2, VisitingEarly
  <2> QED
    BY <1>0, <1>1, <2>1, ClientBusy
<1>14. QueueInv'
  BY <1>0, <1>1, <1>8, KeepsQueue
<1>15. LinkInv'
  BY <1>0, <1>1, <1>2, <1>3, <1>5, <1>6, VisitingLink
<1>16. ExchangeInv'
  <2> DEFINE cs == ClientSent(store, Visited(c, i))
             cg == ClientGot(store, Visited(c, i))
             ss == ServerSent(store, Served(i, j))
             sg == ServerGot(store, Served(i, j))
  <2>1. Met(c, i, j)'
    <3>1. cs' = cs + 1 /\ cg' = cg /\ ss' = ss /\ sg' = sg
      <4>1. Visited(c, i)' = k /\ Visited(c, i) = k - 1
        BY <1>4, <1>8
      <4> QED
        BY <1>1, <1>4, <1>8, <4>1
    <3>2. cs \in Nat /\ sg \in Nat /\ w = ToServer(store)[cs + 1]
      <4>1. Served(i, j) \in Int
        BY <1>0, Counts
      <4>2. sg \in Nat
        BY <1>3, <4>1, Counters
      <4> QED
        BY <1>4, <4>2
    <3>3. /\ Flow(Client(c), i, Server(i), ToServer(store), cs, sg)
          /\ Flow(Server(i), j, Client(c), ToClient(store), ss, cg)
          /\ Taken(Client(c), i, Server(i), j, ToClient(store), cg)
          /\ Taken(Server(i), j, Client(c), i, ToServer(store), sg)
      BY <1>7 DEF Met
    <3> HIDE DEF cs, cg, ss, sg
    <3>4. Carries(chan'[there], Client(c), i, ToServer(store), cs + 1, sg)
      <4>1. Carries(chan[there], Client(c), i, ToServer(store), cs, sg)
        BY <3>3 DEF Flow
      <4>2. chan[there] \in Seq(Data) /\ v = Datum(Client(c), i, ToServer(store)[cs + 1])
        BY <1>10, <3>2
      <4> HIDE DEF w, v, there
      <4>3. Carries(Append(chan[there], v), Client(c), i, ToServer(store), cs + 1, sg)
        BY <1>9, <3>2, <4>1, <4>2, Sends
      <4> QED
        BY <1>11, <4>3
    <3>5. Flow(Client(c), i, Server(i), ToServer(store), cs, sg)'
      BY <1>1, <3>1, <3>4 DEF Flow
    <3>6. chan'[<<Server(i), Client(c)>>] = chan[<<Server(i), Client(c)>>]
      BY <1>11, Names
    <3>7. Flow(Server(i), j, Client(c), ToClient(store), ss, cg)'
      BY <1>1, <3>1, <3>3, <3>6 DEF Flow
    <3>8. /\ Taken(Client(c), i, Server(i), j, ToClient(store), cg)'
          /\ Taken(Server(i), j, Client(c), i, ToServer(store), sg)'
      BY <1>1, <3>1, <3>3 DEF Taken
    <3> QED
      BY <3>5, <3>7, <3>8 DEF Met, cs, cg, ss, sg
  <2>2. \A d \in Clients, s \in Servers : d # c \/ s # i =>
          /\ chan'[<<Client(d), Server(s)>>] = chan[<<Client(d), Server(s)>>]
          /\ chan'[<<Server(s), Client(d)>>] = chan[<<Server(s), Client(d)>>]
    BY <1>11, Names
  <2>3. \A d \in Clients, s \in Servers : d # c \/ s # i =>
          /\ chan'[<<Client(d), Server(s)>>] = chan[<<Client(d), Server(s)>>]
          /\ chan'[<<Server(s), Client(d)>>] = chan[<<Server(s), Client(d)>>]
          /\ \A u \in Places \cup Vias : held'[Client(d)][u][s] = held[Client(d)][u][s]
    BY <1>1, <2>2
  <2>4. \A s \in Servers : held'[Server(s)] = held[Server(s)]
    BY <1>1
  <2>5. /\ TypeOK /\ QueueInv /\ ExchangeInv /\ c \in Clients /\ i \in Servers /\ k \in 1 .. 6
        /\ Visiting(c, i, k) /\ Advance(Client(c)) /\ UNCHANGED <<store, accepted, link>>
        /\ j \in Clients /\ j < Len(accepted[i]) /\ accepted[i][j + 1] = c
    BY <1>0, <1>1, <1>2, <1>7
  <2> QED
    BY ONLY <2>1, <2>3, <2>4, <2>5, VisitingExchange
<1>17. QPInv'
  <2>1. \A s \in Servers : Linked(c, s) < 0
    BY <1>2 DEF Visiting
  <2> QED
    BY <1>0, <1>1, <2>1, ClientKeepsQP
<1> QED
  BY <1>12, <1>13, <1>14, <1>15, <1>16, <1>17 DEF IInv

\* A client reads what the server that it visits has written.
LEMMA ClientReads ==
    ASSUME IInv, NEW c \in Clients, DoRead(Client(c))
    PROVE  IInv'
<1>0. TypeOK /\ MemoryInv /\ QueueInv /\ LinkInv /\ ExchangeInv /\ QPInv /\ AlertInv
  BY DEF IInv
<1>1. /\ ~Running(Client(c)) /\ Call(Client(c)).call = "read" /\ Advance(Client(c))
      /\ UNCHANGED <<store, dead, qp, areas, loaded, listening, backlog, accepted, link,
                     recvs, heard, lost>>
  BY DEF DoRead, At
<1>2. PICK i \in Servers, k \in 1 .. 6 : Visiting(c, i, k)
  BY <1>0, <1>1, ClientVisits
<1>3. store \in AllStores /\ Visited(c, i) \in Int
  BY <1>0, Numbers, Counts
<1>4. /\ Call(Client(c)).conn = i /\ Visited(c, i) = k - 1 /\ k # 1
      /\ ClientGot(store, k - 1) \in 0 .. 2
      /\ Call(Client(c)).what = ToClient(store)[ClientGot(store, k - 1) + 1]
      /\ ClientGot(store, k) = ClientGot(store, k - 1) + 1
      /\ ClientSent(store, k) = ClientSent(store, k - 1)
  BY <1>1, <1>2 DEF Visiting, VisitStep
<1>5. Visited(c, i) >= 1
  BY <1>4
<1> DEFINE w == Call(Client(c)).what
           here == <<Server(i), Client(c)>>
           v == Head(chan[here])
<1>6. /\ link[c][i] # "refused" /\ chan[here] # <<>>
      /\ held' = [held EXCEPT ![Client(c)][w][i] = v]
      /\ chan' = [chan EXCEPT ![here] = Tail(chan[here])]
  <2>1. Peer(Client(c), i) = Server(i) /\ (IsRefused(Client(c), i) <=> link[c][i] = "refused")
    BY Names DEF Peer, IsRefused
  <2> QED
    BY <1>4, <2>1 DEF DoRead
<1>7. PICK j \in Clients : j < Len(accepted[i]) /\ accepted[i][j + 1] = c /\ Met(c, i, j)
  BY <1>0, <1>6, Accepted
<1>8. /\ Visited(c, i)' = Visited(c, i) + 1
      /\ \A s \in Servers, l \in Clients : Served(s, l)' = Served(s, l)
  BY <1>0, <1>1, ClientMoves
<1>9. w \in Places \cup Vias
  BY <1>3, <1>4, Words
<1>10. chan \in [Procs \X Procs -> Seq(Data)] /\ here \in Procs \X Procs
       /\ Client(c) \in Procs /\ i \in Conns(Client(c))
  BY <1>0, Names DEF TypeOK
<1>11. /\ chan'[here] = Tail(chan[here])
       /\ \A p, q \in Procs : <<p, q>> # here => chan'[<<p, q>>] = chan[<<p, q>>]
  BY <1>6, <1>10
<1> DEFINE cs == ClientSent(store, Visited(c, i))
           cg == ClientGot(store, Visited(c, i))
           ss == ServerSent(store, Served(i, j))
           sg == ServerGot(store, Served(i, j))
<1>12. cs' = cs /\ cg' = cg + 1 /\ ss' = ss /\ sg' = sg
  <2>1. Visited(c, i)' = k /\ Visited(c, i) = k - 1
    BY <1>4, <1>8
  <2> QED
    BY <1>1, <1>4, <1>8, <2>1
<1>13. cg \in Nat /\ ss \in Nat /\ w = ToClient(store)[cg + 1]
  <2>1. Served(i, j) \in Int
    BY <1>0, Counts
  <2>2. ss \in Nat
    BY <1>3, <2>1, Counters
  <2> QED
    BY <1>4, <2>2
<1>14. /\ Flow(Client(c), i, Server(i), ToServer(store), cs, sg)
       /\ Flow(Server(i), j, Client(c), ToClient(store), ss, cg)
       /\ Taken(Client(c), i, Server(i), j, ToClient(store), cg)
       /\ Taken(Server(i), j, Client(c), i, ToServer(store), sg)
  BY <1>7 DEF Met
<1> HIDE DEF cs, cg, ss, sg, w, here
<1>15. /\ v = Datum(Server(i), j, w) /\ v \in Data /\ Tail(chan[here]) \in Seq(Data)
       /\ Carries(chan'[here], Server(i), j, ToClient(store), ss, cg + 1)
  <2>1. Carries(chan[here], Server(i), j, ToClient(store), ss, cg) /\ chan[here] \in Seq(Data)
    BY <1>10, <1>14 DEF Flow, here
  <2>2. cg \in Nat /\ ss \in Nat /\ chan[here] # <<>>
    BY <1>6, <1>13
  <2>3. /\ Head(chan[here]) = Datum(Server(i), j, ToClient(store)[cg + 1]) /\ Head(chan[here]) \in Data
        /\ Tail(chan[here]) \in Seq(Data)
        /\ Carries(Tail(chan[here]), Server(i), j, ToClient(store), ss, cg + 1)
    BY ONLY <2>1, <2>2, Receives
  <2> QED
    BY <1>11, <1>13, <2>3
<1> HIDE DEF v
<1>16. /\ held'[Client(c)][w][i] = v
       /\ \A q \in Procs : q # Client(c) => held'[q] = held[q]
       /\ \A u \in Places \cup Vias, l \in Servers :
            u # w \/ l # i => held'[Client(c)][u][l] = held[Client(c)][u][l]
       /\ DOMAIN held' = Procs
       /\ \A q \in Procs : held'[q] \in [Places \cup Vias -> [Conns(q) -> Data \cup {None}]]
  <2>0. DOMAIN held = Procs
    BY <1>0 DEF TypeOK
  <2>1. /\ DOMAIN held' = Procs
        /\ \A q \in Procs : q # Client(c) => held'[q] = held[q]
        /\ held'[Client(c)] = Put(held[Client(c)], w, i, v)
    BY <1>6, <1>10, <2>0 DEF Put
  <2>2. /\ held'[Client(c)][w][i] = v
        /\ \A u \in Places \cup Vias, l \in Conns(Client(c)) :
             u # w \/ l # i => held'[Client(c)][u][l] = held[Client(c)][u][l]
        /\ \A q \in Procs : held'[q] \in [Places \cup Vias -> [Conns(q) -> Data \cup {None}]]
    <3>1. /\ TypeOK /\ Client(c) \in Procs /\ w \in Places \cup Vias /\ i \in Conns(Client(c))
          /\ v \in Data \cup {None}
      BY <1>0, <1>9, <1>10, <1>15
    <3> QED
      BY ONLY <2>1, <3>1, HeldStep
  <2>3. Conns(Client(c)) = Servers
    BY Names
  <2> QED
    BY <2>1, <2>2, <2>3
<1>17. TypeOK'
  <2>1. chan' \in [Procs \X Procs -> Seq(Data)]
    BY <1>6, <1>10, <1>15
  <2>2. /\ backlog \in [Servers -> Seq(Clients)] /\ accepted \in [Servers -> Seq(Clients)]
        /\ link \in [Clients -> [Servers -> {"closed", "open", "refused"}]]
    BY <1>0 DEF TypeOK
  <2> QED
    BY <1>0, <1>1, <1>16, <2>1, <2>2, Names, ExchangeType
<1>18. MemoryInv' /\ AlertInv'
  <2>1. pos[Client(c)] >= 2 /\ (store = "Pilaf" => pos[Client(c)] <= 2 + 10 * NumServers)
    BY <1>0, <1>2, VisitingEarly
  <2> QED
    BY <1>0, <1>1, <2>1, ClientBusy
<1>19. QueueInv'
  BY <1>0, <1>1, <1>8, KeepsQueue
<1>20. LinkInv'
  BY <1>0, <1>1, <1>2, <1>5, <1>6, VisitingLink
<1>21. Met(c, i, j)'
  <2>1. Flow(Server(i), j, Client(c), ToClient(store), ss, cg)'
    BY <1>1, <1>12, <1>15 DEF Flow, here
  <2>2. chan'[<<Client(c), Server(i)>>] = chan[<<Client(c), Server(i)>>]
    BY <1>11, Names DEF here
  <2>3. Flow(Client(c), i, Server(i), ToServer(store), cs, sg)'
    BY <1>1, <1>12, <1>14, <2>2 DEF Flow
  <2>4. ASSUME NEW u \in Places \cup Vias
        PROVE  held'[Client(c)][u][i] = Content(u, Server(i), j, ToClient(store), cg + 1)
    <3>1. held[Client(c)][u][i] = Content(u, Server(i), j, ToClient(store), cg)
      BY <1>14 DEF Taken
    <3>2. CASE u = w
      BY <1>13, <1>15, <1>16, <3>2, Collects
    <3>3. CASE u # w
      <4>1. held'[Client(c)][u][i] = held[Client(c)][u][i]
        BY <1>16, <3>3
      <4>2. Content(u, Server(i), j, ToClient(store), cg + 1) = Content(u, Server(i), j, ToClient(store), cg)
        BY <1>13, <3>3, Collects
      <4> QED
        BY <3>1, <4>1, <4>2
    <3> QED
      BY <3>2, <3>3
  <2>5. Taken(Client(c), i, Server(i), j, ToClient(store), cg)'
    BY <1>1, <1>12, <2>4 DEF Taken
  <2>6. held'[Server(i)] = held[Server(i)]
    BY <1>16, Names
  <2>7. Taken(Server(i), j, Client(c), i, ToServer(store), sg)'
    BY <1>1, <1>12, <1>14, <2>6 DEF Taken
  <2> QED
    BY <2>1, <2>3, <2>5, <2>7 DEF Met, cs, cg, ss, sg
<1>22. ExchangeInv'
  <2>1. \A d \in Clients, s \in Servers : d # c \/ s # i =>
          /\ chan'[<<Client(d), Server(s)>>] = chan[<<Client(d), Server(s)>>]
          /\ chan'[<<Server(s), Client(d)>>] = chan[<<Server(s), Client(d)>>]
    BY <1>11, Names DEF here
  <2>2. ASSUME NEW d \in Clients, NEW s \in Servers, d # c \/ s # i, NEW u \in Places \cup Vias
        PROVE  held'[Client(d)][u][s] = held[Client(d)][u][s]
    <3>1. CASE d # c
      BY <1>16, <3>1, Names
    <3>2. CASE d = c
      BY <1>16, <2>2, <3>2
    <3> QED
      BY <3>1, <3>2
  <2>3. \A s \in Servers : held'[Server(s)] = held[Server(s)]
    BY <1>16, Names
  <2>4. \A d \in Clients, s \in Servers : d # c \/ s # i =>
          /\ chan'[<<Client(d), Server(s)>>] = chan[<<Client(d), Server(s)>>]
          /\ chan'[<<Server(s), Client(d)>>] = chan[<<Server(s), Client(d)>>]
          /\ \A u \in Places \cup Vias : held'[Client(d)][u][s] = held[Client(d)][u][s]
    BY <2>1, <2>2
  <2>5. /\ TypeOK /\ QueueInv /\ ExchangeInv /\ c \in Clients /\ i \in Servers /\ k \in 1 .. 6
        /\ Visiting(c, i, k) /\ Advance(Client(c)) /\ UNCHANGED <<store, accepted, link>>
        /\ j \in Clients /\ j < Len(accepted[i]) /\ accepted[i][j + 1] = c
    BY <1>0, <1>1, <1>2, <1>7
  <2> QED
    BY ONLY <1>21, <2>3, <2>4, <2>5, VisitingExchange
<1>23. QPInv'
  <2>1. \A s \in Servers : Linked(c, s) < 0
    BY <1>2 DEF Visiting
  <2>2. \A d \in Clients : d # c => held'[Client(d)] = held[Client(d)]
    BY <1>16, Names
  <2> QED
    BY <1>0, <1>1, <2>1, <2>2, ClientKeepsQP
<1> QED
  BY <1>17, <1>18, <1>19, <1>20, <1>22, <1>23 DEF IInv

\* On a socket that was refused, a read is skipped: the client was not accepted.
LEMMA ClientSkips ==
    ASSUME IInv, NEW c \in Clients, ReadRefused(c)
    PROVE  IInv'
<1>0. TypeOK /\ MemoryInv /\ QueueInv /\ LinkInv /\ ExchangeInv /\ QPInv /\ AlertInv
  BY DEF IInv
<1>1. /\ ~Running(Client(c)) /\ Call(Client(c)).call = "read" /\ Advance(Client(c))
      /\ UNCHANGED <<store, dead, qp, areas, loaded, listening, backlog, accepted, link, chan, held,
                     recvs, heard, lost>>
  BY DEF ReadRefused, At, netVars
<1>2. PICK i \in Servers, k \in 1 .. 6 : Visiting(c, i, k)
  BY <1>0, <1>1, ClientVisits
<1>3. /\ store \in AllStores /\ Visited(c, i) \in Int
      /\ \A d \in Clients, s \in Servers : Visited(d, s) \in Int
  BY <1>0, Numbers, Counts
<1>4. /\ Call(Client(c)).conn = i /\ Visited(c, i) = k - 1 /\ k # 1
      /\ ClientGot(store, k) = ClientGot(store, k - 1) + 1
  BY <1>1, <1>2 DEF Visiting, VisitStep
<1>5. link[c][i] = "refused"
  <2>1. IsRefused(Client(c), i) => link[c][i] = "refused"
    BY Names DEF IsRefused
  <2> QED
    BY <1>4, <2>1 DEF ReadRefused
<1>6. store # "Pilaf" /\ Visited(c, i) \in 1 .. 2
  <2>1. store # "Pilaf" /\ Visited(c, i) \in 1 .. 3
    <3>1. IF store = "Pilaf" THEN Visited(c, i) = 0 ELSE Visited(c, i) \in 1 .. 3
      BY <1>0, <1>5 DEF LinkInv
    <3> QED
      BY <1>4, <3>1
  <2>2. Visited(c, i) # 3
    <3>1. CASE k = 4
      <4>1. ClientGot(store, k) = 2 /\ ClientGot(store, k - 1) = 2
        BY <2>1, <3>1 DEF ClientGot, Past
      <4> QED
        BY <1>4, <4>1
    <3> QED
      BY <1>4, <3>1
  <2> QED
    BY <2>1, <2>2
<1>7. /\ \A d \in Clients, s \in Servers :
           /\ d = c => Visited(d, s)' = Visited(d, s) + 1
           /\ d # c => Visited(d, s)' = Visited(d, s)
      /\ \A s \in Servers, l \in Clients : Served(s, l)' = Served(s, l)
  BY <1>0, <1>1, ClientMoves
<1>8. TypeOK'
  <2>1. /\ qp \in [AllQPs -> [state : {"none", "init", "rtr", "rts"}, dest : AllQPs \cup {None}]]
        /\ areas \subseteq Areas /\ loaded \subseteq Servers /\ listening \subseteq Servers
        /\ recvs \cup heard \cup lost \subseteq AllQPs
    BY <1>0 DEF TypeOK
  <2> QED
    BY <1>0, <1>1, <2>1, Names, KeepsType
<1>9. MemoryInv' /\ AlertInv'
  <2>1. pos[Client(c)] >= 2 /\ (store = "Pilaf" => pos[Client(c)] <= 2 + 10 * NumServers)
    BY <1>0, <1>2, VisitingEarly
  <2> QED
    BY <1>0, <1>1, <2>1, ClientBusy
<1>10. QueueInv'
  BY <1>0, <1>1, <1>7, KeepsQueue
<1>11. \A s \in Servers : s # i =>
         /\ Visited(c, s) < 0 \/ Visited(c, s) >= 6
         /\ Visited(c, s) <= 1 => Visited(c, s) + 1 <= 1
         /\ ClientSent(store, Visited(c, s) + 1) = ClientSent(store, Visited(c, s))
         /\ ClientGot(store, Visited(c, s) + 1) = ClientGot(store, Visited(c, s))
  BY <1>0, <1>2, VisitingOthers
<1>12. LinkInv'
  <2>1. ASSUME NEW d \in Clients, NEW s \in Servers
        PROVE  /\ link[d][s] = "closed" => Visited(d, s)' <= 0
               /\ link[d][s] = "open" => Visited(d, s)' >= 1
               /\ link[d][s] = "refused" =>
                   IF store = "Pilaf" THEN Visited(d, s)' = 0 /\ Client(d) \in dead
                   ELSE Visited(d, s)' \in 1 .. 3
    <3>1. /\ link[d][s] = "closed" => Visited(d, s) <= 0
          /\ link[d][s] = "open" => Visited(d, s) >= 1
          /\ link[d][s] = "refused" =>
              IF store = "Pilaf" THEN Visited(d, s) = 0 /\ Client(d) \in dead
              ELSE Visited(d, s) \in 1 .. 3
      BY <1>0 DEF LinkInv
    <3>2. CASE d # c
      BY <1>7, <3>1, <3>2
    <3>3. CASE d = c /\ s = i
      <4>1. Visited(d, s)' \in 1 .. 3
        BY <1>6, <1>7, <3>3
      <4> QED
        BY <1>5, <1>6, <3>3, <4>1
    <3>4. CASE d = c /\ s # i
      <4>1. Visited(d, s)' = Visited(d, s) + 1 /\ (Visited(d, s) < 0 \/ Visited(d, s) >= 6)
            /\ Visited(d, s) \in Int
        BY <1>3, <1>7, <1>11, <3>4
      <4>2. /\ link[d][s] = "closed" => Visited(d, s)' <= 0
            /\ link[d][s] = "open" => Visited(d, s)' >= 1
            /\ link[d][s] # "refused"
        BY <1>6, <3>1, <4>1
      <4> QED
        BY <4>2
    <3> QED
      BY <3>2, <3>3, <3>4
  <2>2. \A d \in Clients : Client(d) \in dead => \E s \in Servers : link[d][s] = "refused"
    BY <1>0 DEF LinkInv
  <2> QED
    BY <1>1, <2>1, <2>2 DEF LinkInv
<1>13. ExchangeInv'
  <2>1. c \notin ToSet(accepted[i])
    BY <1>0, <1>5 DEF QueueInv
  <2>2. ASSUME NEW d \in Clients, NEW s \in Servers
        PROVE  /\ Visited(d, s) <= 1 => Visited(d, s)' <= 1 \/ link[d][s] = "refused"
               /\ d \in ToSet(accepted[s]) =>
                    /\ ClientSent(store, Visited(d, s)') = ClientSent(store, Visited(d, s))
                    /\ ClientGot(store, Visited(d, s)') = ClientGot(store, Visited(d, s))
    <3>1. CASE d # c
      BY <1>7, <3>1
    <3>2. CASE d = c /\ s = i
      BY <1>5, <2>1, <3>2
    <3>3. CASE d = c /\ s # i
      BY <1>7, <1>11, <3>3
    <3> QED
      BY <3>1, <3>2, <3>3
  <2>3. \A s \in Servers, j \in Clients :
          /\ ServerSent(store, Served(s, j)') = ServerSent(store, Served(s, j))
          /\ ServerGot(store, Served(s, j)') = ServerGot(store, Served(s, j))
    BY <1>7
  <2> QED
    BY <1>0, <1>1, <2>2, <2>3, KeepsExchange
<1>14. QPInv'
  <2>1. \A s \in Servers : Linked(c, s) < 0
    BY <1>2 DEF Visiting
  <2> QED
    BY <1>0, <1>1, <2>1, ClientKeepsQP
<1> QED
  BY <1>8, <1>9, <1>10, <1>12, <1>13, <1>14 DEF IInv

\* A client dies where its connect() failed, and leaves the rest as it is.
LEMMA Dies ==
    ASSUME IInv, NEW c \in Clients, NEW i \in Servers, dead' = dead \cup {Client(c)},
           link'[c][i] = "refused",
           UNCHANGED <<store, pos, qp, areas, loaded, listening, backlog, accepted, chan, held,
                       recvs, heard, lost>>,
           link' \in [Clients -> [Servers -> {"closed", "open", "refused"}]],
           \A d \in Clients, s \in Servers : d # c \/ s # i => link'[d][s] = link[d][s],
           link[c][i] # "open", store = "Pilaf" => Visited(c, i) = 0,
           store # "Pilaf" => link[c][i] = "refused"
    PROVE  IInv'
<1>0. TypeOK /\ MemoryInv /\ QueueInv /\ LinkInv /\ ExchangeInv /\ QPInv /\ AlertInv
  BY DEF IInv
<1>1. /\ \A d \in Clients, s \in Servers : Visited(d, s)' = Visited(d, s) /\ Linked(d, s)' = Linked(d, s)
      /\ \A s \in Servers, j \in Clients : Served(s, j)' = Served(s, j)
  BY DEF Visited, Linked, Served
<1>2. TypeOK'
  <2>1. dead' \subseteq ClientProcs
    BY <1>0, Names DEF TypeOK
  <2> QED
    BY <1>0, <2>1 DEF TypeOK
<1>3. MemoryInv'
  BY <1>0, <1>1 DEF MemoryInv
<1>4. QueueInv'
  <2>1. \A d \in Clients, s \in Servers : link'[d][s] = "open" <=> link[d][s] = "open"
    <3>1. link'[c][i] # "open" /\ link[c][i] # "open"
      OBVIOUS
    <3> QED
      BY <3>1
  <2>2. ASSUME NEW s \in Servers
        PROVE  /\ Len(accepted'[s]) <= NumClients
               /\ \A j \in Clients : j < Len(accepted'[s]) <=> Served(s, j)' >= 1
               /\ Distinct(s)'
    <3>1. /\ Len(accepted[s]) <= NumClients
          /\ \A j \in Clients : j < Len(accepted[s]) <=> Served(s, j) >= 1
          /\ Distinct(s)
      BY <1>0 DEF QueueInv
    <3>2. accepted'[s] = accepted[s] /\ backlog'[s] = backlog[s]
      OBVIOUS
    <3>3. Distinct(s)'
      BY ONLY <3>1, <3>2 DEF Distinct
    <3> QED
      BY <1>1, <3>1, <3>2, <3>3
  <2>3. ASSUME NEW s \in Servers, NEW d \in Clients
        PROVE  link'[d][s] = "open" <=> d \in ToSet(accepted'[s]) \cup ToSet(backlog'[s])
    <3>1. link[d][s] = "open" <=> d \in ToSet(accepted[s]) \cup ToSet(backlog[s])
      BY <1>0 DEF QueueInv
    <3>2. accepted' = accepted /\ backlog' = backlog
      OBVIOUS
    <3> QED
      BY <2>1, <3>1, <3>2
  <2> QED
    BY <2>2, <2>3 DEF QueueInv
<1>5. LinkInv'
  <2>1. ASSUME NEW d \in Clients, NEW s \in Servers
        PROVE  /\ link'[d][s] = "closed" => Visited(d, s)' <= 0
               /\ link'[d][s] = "open" => Visited(d, s)' >= 1
               /\ link'[d][s] = "refused" =>
                   IF store = "Pilaf" THEN Visited(d, s)' = 0 /\ Client(d) \in dead'
                   ELSE Visited(d, s)' \in 1 .. 3
    <3>1. /\ link[d][s] = "closed" => Visited(d, s) <= 0
          /\ link[d][s] = "open" => Visited(d, s) >= 1
          /\ link[d][s] = "refused" =>
              IF store = "Pilaf" THEN Visited(d, s) = 0 /\ Client(d) \in dead
              ELSE Visited(d, s) \in 1 .. 3
      BY <1>0 DEF LinkInv
    <3>2. CASE d # c \/ s # i
      <4>1. link'[d][s] = link[d][s]
        BY <3>2
      <4> QED
        BY <1>1, <3>1, <4>1
    <3>3. CASE d = c /\ s = i
      BY <1>1, <3>1, <3>3
    <3> QED
      BY <3>2, <3>3
  <2>2. ASSUME NEW d \in Clients, Client(d) \in dead'
        PROVE  \E s \in Servers : link'[d][s] = "refused"
    <3>1. CASE d = c
      BY <3>1
    <3>2. CASE d # c
      <4>1. Client(d) \in dead
        BY <2>2, <3>2, Names
      <4>2. PICK s \in Servers : link[d][s] = "refused"
        BY <1>0, <4>1 DEF LinkInv
      <4> QED
        BY <3>2, <4>2
    <3> QED
      BY <3>1, <3>2
  <2> QED
    BY <2>1, <2>2 DEF LinkInv
<1>6. ExchangeInv'
  <2>1. ASSUME NEW s \in Servers, NEW d \in Clients, Visited(d, s) <= 1 \/ link[d][s] = "refused"
        PROVE  Visited(d, s)' <= 1 \/ link'[d][s] = "refused"
    <3>1. CASE d # c \/ s # i
      <4>1. link'[d][s] = link[d][s]
        BY <3>1
      <4> QED
        BY <1>1, <2>1, <4>1
    <3>2. CASE d = c /\ s = i
      BY <3>2
    <3> QED
      BY <3>1, <3>2
  <2>2. \A s \in Servers, j, d \in Clients : Untouched(d, s, j)
    BY <1>1 DEF Untouched
  <2> QED
    BY <1>0, <2>1, <2>2, ExchangeStep
<1>7. QPInv'
  <2>0. \A n, ready : Alike(n, n, ready)
    BY DEF Alike
  <2>1. \A d \in Clients, s \in Servers : \A t \in StoreVias(store) :
          Alike(Linked(d, s), Linked(d, s)', LinkReady(t)) /\ Alike(Served(s, d), Served(s, d)', ServeReady(store, t))
    BY <1>1, <2>0
  <2>2. \A d \in Clients, s \in Servers : Linked(d, s)' \in Int /\ Served(s, d)' \in Int
    BY <1>0, <1>1, Counts
  <2> QED
    BY <1>0, <2>1, <2>2, KeepsQP
<1>8. AlertInv'
  BY <1>0 DEF AlertInv
<1> QED
  BY <1>2, <1>3, <1>4, <1>5, <1>6, <1>7, <1>8 DEF IInv

\* On a socket that was refused, a write kills the client.
LEMMA ClientKilled ==
    ASSUME IInv, NEW c \in Clients, WriteRefused(c)
    PROVE  IInv'
<1>0. TypeOK /\ LinkInv
  BY DEF IInv
<1>1. /\ ~Running(Client(c)) /\ Call(Client(c)).call = "write" /\ dead' = dead \cup {Client(c)}
      /\ UNCHANGED <<store, pos, qp, areas, loaded, listening, backlog, accepted, link, chan, held,
                     recvs, heard, lost>>
  BY DEF WriteRefused, At, netVars
<1>2. PICK i \in Servers, k \in 1 .. 6 : Visiting(c, i, k)
  BY <1>0, <1>1, ClientVisits
<1>3. Call(Client(c)).conn = i
  BY <1>2 DEF Visiting, VisitStep
<1>4. link[c][i] = "refused"
  <2>1. IsRefused(Client(c), i) => link[c][i] = "refused"
    BY Names DEF IsRefused
  <2> QED
    BY <1>3, <2>1 DEF WriteRefused
<1>5. store = "Pilaf" => Visited(c, i) = 0
  BY <1>0, <1>4 DEF LinkInv
<1>6. link \in [Clients -> [Servers -> {"closed", "open", "refused"}]]
  BY <1>0 DEF TypeOK
<1> QED
  BY <1>1, <1>4, <1>5, <1>6, Dies

\* A client that is about to connect: nothing of the connection is there.
LEMMA NotYetOpen ==
    ASSUME TypeOK, QueueInv, LinkInv, NEW c \in Clients, NEW i \in Servers,
           Visited(c, i) = 0, Client(c) \notin dead
    PROVE  link[c][i] = "closed" /\ c \notin ToSet(accepted[i]) /\ c \notin ToSet(backlog[i])
<1>1. link[c][i] \in {"closed", "open", "refused"}
  BY DEF TypeOK
<1>2. link[c][i] # "open"
  BY DEF LinkInv
<1>3. link[c][i] # "refused"
  <2>1. link[c][i] = "refused" => IF store = "Pilaf" THEN Client(c) \in dead ELSE Visited(c, i) \in 1 .. 3
    BY DEF LinkInv
  <2> QED
    BY <2>1
<1>4. c \notin ToSet(accepted[i]) \cup ToSet(backlog[i])
  BY <1>2 DEF QueueInv
<1> QED
  BY <1>1, <1>2, <1>3, <1>4

\* What follows for the exchanges and the queue pairs when a client gets past
\* connect().
LEMMA Connecting ==
    ASSUME TypeOK, MemoryInv, ExchangeInv, QPInv, AlertInv, NEW c \in Clients, NEW i \in Servers,
           Visiting(c, i, 1), Advance(Client(c)), c \notin ToSet(accepted[i]),
           UNCHANGED <<store, qp, areas, loaded, accepted, chan, held, recvs, heard>>,
           \A d \in Clients, s \in Servers : d # c \/ s # i => link'[d][s] = link[d][s]
    PROVE  MemoryInv' /\ AlertInv' /\ ExchangeInv' /\ QPInv'
<1>1. /\ \A d \in Clients, s \in Servers :
           /\ d = c => Visited(d, s)' = Visited(d, s) + 1
           /\ d # c => Visited(d, s)' = Visited(d, s)
      /\ \A s \in Servers, l \in Clients : Served(s, l)' = Served(s, l)
  BY ClientMoves
<1>2. Visited(c, i) = 0
  BY DEF Visiting
<1>3. ASSUME NEW d \in Clients, NEW s \in Servers, d # c \/ s # i
      PROVE  /\ Visited(d, s) <= 1 => Visited(d, s)' <= 1
             /\ ClientSent(store, Visited(d, s)') = ClientSent(store, Visited(d, s))
             /\ ClientGot(store, Visited(d, s)') = ClientGot(store, Visited(d, s))
  <2>1. CASE d # c
    BY <1>1, <2>1
  <2>2. CASE d = c
    <3>1. Visited(d, s)' = Visited(d, s) + 1
      BY <1>1, <2>2
    <3>2. /\ Visited(d, s) <= 1 => Visited(d, s) + 1 <= 1
          /\ ClientSent(store, Visited(d, s) + 1) = ClientSent(store, Visited(d, s))
          /\ ClientGot(store, Visited(d, s) + 1) = ClientGot(store, Visited(d, s))
      BY <1>3, <2>2, VisitingOthers
    <3> QED
      BY <3>1, <3>2
  <2> QED
    BY <2>1, <2>2
<1>4. MemoryInv' /\ AlertInv'
  <2>1. pos[Client(c)] >= 2 /\ (store = "Pilaf" => pos[Client(c)] <= 2 + 10 * NumServers)
    BY VisitingEarly
  <2> QED
    BY <2>1, ClientBusy
<1>5. ExchangeInv'
  <2>1. ASSUME NEW s \in Servers, NEW d \in Clients, Visited(d, s) <= 1 \/ link[d][s] = "refused"
        PROVE  Visited(d, s)' <= 1 \/ link'[d][s] = "refused"
    <3>1. CASE d = c /\ s = i
      <4>1. Visited(c, i)' = 1
        BY <1>1, <1>2
      <4> QED
        BY <3>1, <4>1
    <3>2. CASE d # c \/ s # i
      BY <1>3, <2>1, <3>2
    <3> QED
      BY <3>1, <3>2
  <2>2. ASSUME NEW s \in Servers, NEW j \in Clients, NEW d \in Clients,
               j < Len(accepted[s]) /\ accepted[s][j + 1] = d
        PROVE  Untouched(d, s, j)
    <3>1. d \in ToSet(accepted[s])
      <4>1. accepted[s] \in Seq(Clients)
        BY DEF TypeOK
      <4> QED
        BY <2>2, <4>1, Inside
    <3>2. d # c \/ s # i
      BY <3>1
    <3> QED
      BY <1>1, <1>3, <3>2 DEF Untouched
  <2>3. TypeOK /\ ExchangeInv /\ UNCHANGED <<store, accepted>>
    OBVIOUS
  <2>4. \A s \in Servers, d \in Clients : d \notin ToSet(accepted[s]) =>
          /\ chan'[<<Client(d), Server(s)>>] = chan[<<Client(d), Server(s)>>]
          /\ chan'[<<Server(s), Client(d)>>] = chan[<<Server(s), Client(d)>>]
          /\ \A w \in Places \cup Vias : held'[Client(d)][w][s] = held[Client(d)][w][s]
          /\ Visited(d, s) <= 1 \/ link[d][s] = "refused" =>
               Visited(d, s)' <= 1 \/ link'[d][s] = "refused"
    BY <2>1
  <2>5. \A s \in Servers, j \in Clients : ~(j < Len(accepted[s])) =>
          \A w \in Places \cup Vias : held'[Server(s)][w][j] = held[Server(s)][w][j]
    OBVIOUS
  <2> QED
    BY ONLY <2>2, <2>3, <2>4, <2>5, ExchangeStep
<1>6. QPInv'
  <2>1. \A s \in Servers : Linked(c, s) < 0
    BY DEF Visiting
  <2> QED
    BY <2>1, ClientKeepsQP
<1> QED
  BY <1>4, <1>5, <1>6

\* connect() queues a client that is not queued or accepted yet.
LEMMA ClientComes ==
    ASSUME IInv, NEW c \in Clients, Connect(c)
    PROVE  IInv'
<1>0. TypeOK /\ MemoryInv /\ QueueInv /\ LinkInv /\ ExchangeInv /\ QPInv /\ AlertInv
  BY DEF IInv
<1>1. /\ Client(c) \notin dead /\ ~Running(Client(c)) /\ Call(Client(c)).call = "connect"
      /\ Advance(Client(c))
      /\ UNCHANGED <<store, dead, qp, areas, loaded, listening, accepted, chan, held,
                     recvs, heard, lost>>
  BY DEF Connect, At
<1>2. PICK i \in Servers, k \in 1 .. 6 : Visiting(c, i, k)
  BY <1>0, <1>1, ClientVisits
<1>3. Call(Client(c)).conn = i /\ k = 1 /\ Visited(c, i) = k - 1
  BY <1>1, <1>2 DEF Visiting, VisitStep
<1>4. Visiting(c, i, 1) /\ Visited(c, i) = 0
  BY <1>2, <1>3
<1>5. /\ backlog' = [backlog EXCEPT ![i] = Append(backlog[i], c)]
      /\ link' = [link EXCEPT ![c][i] = "open"]
  BY <1>3 DEF Connect
<1>6. link[c][i] = "closed" /\ c \notin ToSet(accepted[i]) /\ c \notin ToSet(backlog[i])
  BY <1>0, <1>1, <1>4, NotYetOpen
<1>7. /\ backlog \in [Servers -> Seq(Clients)] /\ accepted \in [Servers -> Seq(Clients)]
      /\ link \in [Clients -> [Servers -> {"closed", "open", "refused"}]]
      /\ chan \in [Procs \X Procs -> Seq(Data)] /\ DOMAIN held = Procs
      /\ \A q \in Procs : held[q] \in [Places \cup Vias -> [Conns(q) -> Data \cup {None}]]
  BY <1>0 DEF TypeOK
<1>8. /\ backlog'[i] = Append(backlog[i], c) /\ \A s \in Servers : s # i => backlog'[s] = backlog[s]
      /\ link'[c][i] = "open"
      /\ \A d \in Clients, s \in Servers : d # c \/ s # i => link'[d][s] = link[d][s]
      /\ backlog' \in [Servers -> Seq(Clients)]
      /\ link' \in [Clients -> [Servers -> {"closed", "open", "refused"}]]
  BY <1>5, <1>7
<1>9. /\ \A d \in Clients, s \in Servers :
           /\ d = c => Visited(d, s)' = Visited(d, s) + 1
           /\ d # c => Visited(d, s)' = Visited(d, s)
      /\ \A s \in Servers, l \in Clients : Served(s, l)' = Served(s, l)
      /\ \A d \in Clients, s \in Servers : Visited(d, s) \in Int
  BY <1>0, <1>1, ClientMoves, Counts
<1>10. TypeOK'
  BY <1>0, <1>1, <1>7, <1>8, Names, ExchangeType
<1>11. MemoryInv' /\ AlertInv' /\ ExchangeInv' /\ QPInv'
  BY <1>0, <1>1, <1>4, <1>6, <1>8, Connecting
<1>12. QueueInv'
  <2>1. ASSUME NEW s \in Servers
        PROVE  /\ Len(accepted'[s]) <= NumClients
               /\ \A j \in Clients : j < Len(accepted'[s]) <=> Served(s, j)' >= 1
    BY <1>0, <1>1, <1>9 DEF QueueInv
  <2>2. ASSUME NEW s \in Servers
        PROVE  Distinct(s)' /\ ToSet(backlog'[s]) = ToSet(backlog[s]) \cup {d \in {c} : s = i}
    <3>1. Distinct(s) /\ accepted[s] \in Seq(Clients) /\ backlog[s] \in Seq(Clients)
      BY <1>0, <1>7 DEF QueueInv
    <3>2. CASE s # i
      <4>1. backlog'[s] = backlog[s] /\ accepted'[s] = accepted[s]
        BY <1>1, <1>8, <3>2
      <4> QED
        BY <3>1, <3>2, <4>1 DEF Distinct
    <3>3. CASE s = i
      <4> DEFINE b == backlog[s]
                 m == Len(b)
      <4>0. m \in Nat /\ b \in Seq(Clients)
        BY <3>1
      <4>1. /\ Len(backlog'[s]) = m + 1 /\ backlog'[s][m + 1] = c
            /\ \A k1 \in 1 .. m : backlog'[s][k1] = b[k1]
        <5>1. backlog'[s] = Append(b, c)
          BY <1>8, <3>3
        <5>2. b \in Seq(Clients) /\ c \in Clients
          BY <4>0
        <5> HIDE DEF b
        <5>3. Len(Append(b, c)) = Len(b) + 1 /\ Append(b, c)[Len(b) + 1] = c
              /\ \A k1 \in 1 .. Len(b) : Append(b, c)[k1] = b[k1]
          BY ONLY <5>2, AppendProperties
        <5> QED
          BY <5>1, <5>3
      <4>2. \A k1 \in 1 .. m : b[k1] # c
        BY <1>6, <3>3 DEF ToSet
      <4>3. \A k1 \in 1 .. Len(accepted[s]) : accepted[s][k1] # c
        BY <1>6, <3>3 DEF ToSet
      <4>4. \A x, y \in 1 .. Len(accepted[s]) : accepted[s][x] = accepted[s][y] => x = y
        BY <3>1 DEF Distinct
      <4>5. \A x, y \in 1 .. m : b[x] = b[y] => x = y
        BY <3>1 DEF Distinct
      <4>6. \A x \in 1 .. Len(accepted[s]), y \in 1 .. m : accepted[s][x] # b[y]
        BY <3>1 DEF Distinct
      <4> HIDE DEF b, m
      <4>7. \A x \in 1 .. m + 1 : x \in 1 .. m \/ x = m + 1
        BY <4>0
      <4>8. \A x, y \in 1 .. m + 1 : backlog'[s][x] = backlog'[s][y] => x = y
        BY <4>1, <4>2, <4>5, <4>7
      <4>9. \A x \in 1 .. Len(accepted[s]), y \in 1 .. m + 1 : accepted[s][x] # backlog'[s][y]
        BY <4>1, <4>3, <4>6, <4>7
      <4>10. Distinct(s)'
        BY <1>1, <4>1, <4>4, <4>8, <4>9 DEF Distinct
      <4>11. ToSet(backlog'[s]) = ToSet(b) \cup {c}
        <5>1. backlog'[s] \in Seq(Clients)
          BY <1>8
        <5>2. 1 .. Len(backlog'[s]) = (1 .. m) \cup {m + 1}
          BY <4>0, <4>1
        <5>3. ToSet(backlog'[s]) = {backlog'[s][x] : x \in (1 .. m) \cup {m + 1}}
          <6>1. DOMAIN backlog'[s] = 1 .. Len(backlog'[s])
            BY <5>1
          <6> QED
            BY <5>2, <6>1 DEF ToSet
        <5>4. ToSet(b) = {b[x] : x \in 1 .. m}
          BY <4>0 DEF ToSet, m
        <5> QED
          BY <4>1, <5>3, <5>4
      <4> QED
        BY <3>3, <4>10, <4>11 DEF b
    <3> QED
      BY <3>2, <3>3
  <2>3. ASSUME NEW s \in Servers, NEW d \in Clients
        PROVE  link'[d][s] = "open" <=> d \in ToSet(accepted'[s]) \cup ToSet(backlog'[s])
    <3>1. link[d][s] = "open" <=> d \in ToSet(accepted[s]) \cup ToSet(backlog[s])
      BY <1>0 DEF QueueInv
    <3>2. accepted' = accepted
      BY <1>1
    <3>3. CASE d = c /\ s = i
      BY <1>8, <2>2, <3>3
    <3>4. CASE d # c \/ s # i
      <4>1. link'[d][s] = link[d][s] /\ (d \in ToSet(backlog'[s]) <=> d \in ToSet(backlog[s]))
        BY <1>8, <2>2, <3>4
      <4> QED
        BY <3>1, <3>2, <4>1
    <3> QED
      BY <3>3, <3>4
  <2> QED
    BY <2>1, <2>2, <2>3 DEF QueueInv
<1>13. LinkInv'
  <2>1. ASSUME NEW d \in Clients, NEW s \in Servers
        PROVE  /\ link'[d][s] = "closed" => Visited(d, s)' <= 0
               /\ link'[d][s] = "open" => Visited(d, s)' >= 1
               /\ link'[d][s] = "refused" =>
                   IF store = "Pilaf" THEN Visited(d, s)' = 0 /\ Client(d) \in dead
                   ELSE Visited(d, s)' \in 1 .. 3
    <3>1. /\ link[d][s] = "closed" => Visited(d, s) <= 0
          /\ link[d][s] = "open" => Visited(d, s) >= 1
          /\ link[d][s] = "refused" =>
              IF store = "Pilaf" THEN Visited(d, s) = 0 /\ Client(d) \in dead
              ELSE Visited(d, s) \in 1 .. 3
      BY <1>0 DEF LinkInv
    <3>2. CASE d # c
      <4>1. link'[d][s] = link[d][s] /\ Visited(d, s)' = Visited(d, s)
        BY <1>8, <1>9, <3>2
      <4> QED
        BY <3>1, <4>1
    <3>3. CASE d = c /\ s = i
      <4>1. Visited(d, s)' = 1 /\ link'[d][s] = "open"
        BY <1>4, <1>8, <1>9, <3>3
      <4> QED
        BY <4>1
    <3>4. CASE d = c /\ s # i
      <4>1. link'[d][s] = link[d][s] /\ Visited(d, s)' = Visited(d, s) + 1 /\ Visited(d, s) \in Int
        BY <1>8, <1>9, <3>4
      <4>2. Visited(d, s) < 0 \/ Visited(d, s) >= 6
        BY <1>0, <1>4, <3>4, VisitingOthers
      <4>3. link[d][s] # "refused"
        BY <1>1, <3>1, <3>4, <4>1, <4>2
      <4> QED
        BY <3>1, <4>1, <4>2, <4>3
    <3> QED
      BY <3>2, <3>3, <3>4
  <2>2. ASSUME NEW d \in Clients, Client(d) \in dead
        PROVE  \E s \in Servers : link'[d][s] = "refused"
    <3>1. PICK s \in Servers : link[d][s] = "refused"
      BY <1>0, <2>2 DEF LinkInv
    <3>2. d # c
      BY <1>1, <2>2
    <3> QED
      BY <1>8, <3>1, <3>2
  <2> QED
    BY <1>1, <2>1, <2>2 DEF LinkInv
<1> QED
  BY <1>10, <1>11, <1>12, <1>13 DEF IInv

\* connect() fails: Pilaf's client dies, and another goes on without being known.
LEMMA ClientIsRefused ==
    ASSUME IInv, NEW c \in Clients, Refused(c)
    PROVE  IInv'
<1>0. TypeOK /\ MemoryInv /\ QueueInv /\ LinkInv /\ ExchangeInv /\ QPInv /\ AlertInv
  BY DEF IInv
<1>1. /\ Client(c) \notin dead /\ ~Running(Client(c)) /\ Call(Client(c)).call = "connect"
      /\ UNCHANGED <<store, qp, areas, loaded, listening, backlog, accepted, chan, held,
                     recvs, heard, lost>>
  BY DEF Refused, At
<1>2. PICK i \in Servers, k \in 1 .. 6 : Visiting(c, i, k)
  BY <1>0, <1>1, ClientVisits
<1>3. /\ Call(Client(c)).conn = i /\ k = 1 /\ Visited(c, i) = k - 1
      /\ Call(Client(c)).what = IF store = "Pilaf" THEN "exit" ELSE "go on"
  BY <1>1, <1>2 DEF Visiting, VisitStep
<1>4. Visiting(c, i, 1) /\ Visited(c, i) = 0
  <2>1. k = 1 /\ Visited(c, i) = k - 1
    BY <1>3
  <2> QED
    BY <1>2, <2>1
<1>5. link' = [link EXCEPT ![c][i] = "refused"]
  BY <1>3 DEF Refused
<1>6. link[c][i] = "closed" /\ c \notin ToSet(accepted[i]) /\ c \notin ToSet(backlog[i])
  BY <1>0, <1>1, <1>4, NotYetOpen
<1>7. /\ backlog \in [Servers -> Seq(Clients)] /\ accepted \in [Servers -> Seq(Clients)]
      /\ link \in [Clients -> [Servers -> {"closed", "open", "refused"}]]
      /\ chan \in [Procs \X Procs -> Seq(Data)] /\ DOMAIN held = Procs
      /\ \A q \in Procs : held[q] \in [Places \cup Vias -> [Conns(q) -> Data \cup {None}]]
  BY <1>0 DEF TypeOK
<1>8. /\ link'[c][i] = "refused"
      /\ \A d \in Clients, s \in Servers : d # c \/ s # i => link'[d][s] = link[d][s]
      /\ link' \in [Clients -> [Servers -> {"closed", "open", "refused"}]]
  BY <1>5, <1>7
<1>9. CASE store = "Pilaf"
  <2>1. dead' = dead \cup {Client(c)} /\ pos' = pos
    BY <1>3, <1>9 DEF Refused
  <2>2. link[c][i] # "open"
    BY <1>6
  <2> QED
    BY <1>1, <1>4, <1>8, <1>9, <2>1, <2>2, Dies
<1>10. CASE store # "Pilaf"
  <2>1. dead' = dead /\ Advance(Client(c))
    BY <1>3, <1>10 DEF Refused
  <2>2. /\ \A d \in Clients, s \in Servers :
             /\ d = c => Visited(d, s)' = Visited(d, s) + 1
             /\ d # c => Visited(d, s)' = Visited(d, s)
        /\ \A s \in Servers, l \in Clients : Served(s, l)' = Served(s, l)
        /\ \A d \in Clients, s \in Servers : Visited(d, s) \in Int
    BY <1>0, <1>1, <2>1, ClientMoves, Counts
  <2>3. TypeOK'
    BY <1>0, <1>1, <1>7, <1>8, <2>1, Names, ExchangeType
  <2>4. MemoryInv' /\ AlertInv' /\ ExchangeInv' /\ QPInv'
    BY <1>0, <1>1, <1>4, <1>6, <1>8, <2>1, Connecting
  <2>5. QueueInv'
    <3>1. ASSUME NEW s \in Servers
          PROVE  /\ Len(accepted'[s]) <= NumClients
                 /\ \A j \in Clients : j < Len(accepted'[s]) <=> Served(s, j)' >= 1
                 /\ Distinct(s)'
      <4>1. /\ Len(accepted[s]) <= NumClients
            /\ \A j \in Clients : j < Len(accepted[s]) <=> Served(s, j) >= 1
            /\ Distinct(s)
        BY <1>0 DEF QueueInv
      <4>2. Distinct(s)'
        BY <1>1, <4>1 DEF Distinct
      <4> QED
        BY <1>1, <2>2, <4>1, <4>2
    <3>2. ASSUME NEW s \in Servers, NEW d \in Clients
          PROVE  link'[d][s] = "open" <=> d \in ToSet(accepted'[s]) \cup ToSet(backlog'[s])
      <4>1. link[d][s] = "open" <=> d \in ToSet(accepted[s]) \cup ToSet(backlog[s])
        BY <1>0 DEF QueueInv
      <4>2. accepted' = accepted /\ backlog' = backlog
        BY <1>1
      <4>3. link'[d][s] = "open" <=> link[d][s] = "open"
        BY <1>6, <1>8
      <4> QED
        BY <4>1, <4>2, <4>3
    <3> QED
      BY <3>1, <3>2 DEF QueueInv
  <2>6. LinkInv'
    <3>1. ASSUME NEW d \in Clients, NEW s \in Servers
          PROVE  /\ link'[d][s] = "closed" => Visited(d, s)' <= 0
                 /\ link'[d][s] = "open" => Visited(d, s)' >= 1
                 /\ link'[d][s] = "refused" => Visited(d, s)' \in 1 .. 3
      <4>1. /\ link[d][s] = "closed" => Visited(d, s) <= 0
            /\ link[d][s] = "open" => Visited(d, s) >= 1
            /\ link[d][s] = "refused" =>
                IF store = "Pilaf" THEN Visited(d, s) = 0 /\ Client(d) \in dead
                ELSE Visited(d, s) \in 1 .. 3
        BY <1>0 DEF LinkInv
      <4>2. CASE d # c
        <5>1. link'[d][s] = link[d][s] /\ Visited(d, s)' = Visited(d, s)
          BY <1>8, <2>2, <4>2
        <5> QED
          BY <1>10, <4>1, <5>1
      <4>3. CASE d = c /\ s = i
        <5>1. Visited(d, s)' = 1 /\ link'[d][s] = "refused"
          BY <1>4, <1>8, <2>2, <4>3
        <5> QED
          BY <5>1
      <4>4. CASE d = c /\ s # i
        <5>1. link'[d][s] = link[d][s] /\ Visited(d, s)' = Visited(d, s) + 1 /\ Visited(d, s) \in Int
          BY <1>8, <2>2, <4>4
        <5>2. Visited(d, s) < 0 \/ Visited(d, s) >= 6
          BY <1>0, <1>4, <4>4, VisitingOthers
        <5>3. link[d][s] # "refused"
          BY <1>10, <4>1, <5>1, <5>2
        <5> QED
          BY <4>1, <5>1, <5>2, <5>3
      <4> QED
        BY <4>2, <4>3, <4>4
    <3>2. ASSUME NEW d \in Clients, Client(d) \in dead'
          PROVE  \E s \in Servers : link'[d][s] = "refused"
      <4>1. PICK s \in Servers : link[d][s] = "refused"
        BY <1>0, <2>1, <3>2 DEF LinkInv
      <4>2. d # c
        BY <1>1, <2>1, <3>2
      <4> QED
        BY <1>8, <4>1, <4>2
    <3>3. store' # "Pilaf"
      BY <1>1, <1>10
    <3> QED
      BY <3>1, <3>2, <3>3 DEF LinkInv
  <2> QED
    BY <2>3, <2>4, <2>5, <2>6 DEF IInv
<1> QED
  BY <1>9, <1>10

\* Two sequences that share no member and repeat none.
Apart(a, b) ==
    /\ \A x, y \in 1 .. Len(a) : a[x] = a[y] => x = y
    /\ \A x, y \in 1 .. Len(b) : b[x] = b[y] => x = y
    /\ \A x \in 1 .. Len(a), y \in 1 .. Len(b) : a[x] # b[y]

\* The head of the second goes to the end of the first.
LEMMA MovesOn ==
    ASSUME NEW a \in Seq(Clients), NEW b \in Seq(Clients), b # <<>>, Apart(a, b)
    PROVE  /\ Head(b) \in Clients /\ Head(b) \in ToSet(b) /\ Head(b) \notin ToSet(a)
           /\ Append(a, Head(b)) \in Seq(Clients) /\ Len(Append(a, Head(b))) = Len(a) + 1
           /\ Append(a, Head(b))[Len(a) + 1] = Head(b)
           /\ \A x \in 1 .. Len(a) : Append(a, Head(b))[x] = a[x]
           /\ Tail(b) \in Seq(Clients)
           /\ Apart(Append(a, Head(b)), Tail(b))
           /\ ToSet(Append(a, Head(b))) = ToSet(a) \cup {Head(b)}
           /\ ToSet(Append(a, Head(b))) \cup ToSet(Tail(b)) = ToSet(a) \cup ToSet(b)
<1> DEFINE n == Len(a)
           m == Len(b)
           h == Head(b)
           a2 == Append(a, h)
           b2 == Tail(b)
<1>1. n \in Nat /\ m \in Nat /\ m >= 1 /\ h = b[1] /\ h \in Clients
  BY EmptySeq, HeadTailProperties
<1>2. a2 \in Seq(Clients) /\ Len(a2) = n + 1 /\ a2[n + 1] = h /\ \A x \in 1 .. n : a2[x] = a[x]
  BY <1>1, AppendProperties
<1>3. b2 \in Seq(Clients) /\ Len(b2) = m - 1 /\ \A y \in 1 .. m - 1 : b2[y] = b[y + 1]
  BY HeadTailProperties
<1>4. /\ \A x, y \in 1 .. n : a[x] = a[y] => x = y
      /\ \A x, y \in 1 .. m : b[x] = b[y] => x = y
      /\ \A x \in 1 .. n, y \in 1 .. m : a[x] # b[y]
  BY DEF Apart
<1>5. /\ ToSet(a) = {a[x] : x \in 1 .. n} /\ ToSet(b) = {b[y] : y \in 1 .. m}
  BY DEF ToSet
<1>6. ToSet(a2) = {a2[x] : x \in 1 .. n + 1}
  <2> HIDE DEF a2
  <2>1. DOMAIN a2 = 1 .. n + 1
    BY <1>2
  <2> QED
    BY <2>1 DEF ToSet
<1>7. ToSet(b2) = {b2[y] : y \in 1 .. m - 1}
  <2> HIDE DEF b2
  <2>1. DOMAIN b2 = 1 .. m - 1
    BY <1>3
  <2> QED
    BY <2>1 DEF ToSet
<1> HIDE DEF n, m, h, a2, b2
<1>8. h \in ToSet(b) /\ h \notin ToSet(a)
  <2>1. 1 \in 1 .. m
    BY <1>1
  <2> QED
    BY <1>1, <1>4, <1>5, <2>1
<1>9. \A x \in 1 .. n + 1 : x \in 1 .. n \/ x = n + 1
  BY <1>1
<1>10. ToSet(a2) = ToSet(a) \cup {h}
  <2>1. 1 .. n + 1 = (1 .. n) \cup {n + 1}
    BY <1>1
  <2>2. ToSet(a2) = {a2[x] : x \in (1 .. n) \cup {n + 1}}
    BY <1>6, <2>1
  <2> QED
    BY <1>2, <1>5, <2>2
<1>11. ToSet(b) = ToSet(b2) \cup {h}
  <2>1. \A y \in 1 .. m - 1 : y + 1 \in 1 .. m
    BY <1>1
  <2>2. \A y \in 1 .. m : y = 1 \/ (y - 1 \in 1 .. m - 1 /\ (y - 1) + 1 = y)
    BY <1>1
  <2>3. ASSUME NEW z \in ToSet(b)
        PROVE  z \in ToSet(b2) \cup {h}
    <3>1. PICK y \in 1 .. m : z = b[y]
      BY <1>5
    <3>2. CASE y = 1
      BY <1>1, <3>1, <3>2
    <3>3. CASE y - 1 \in 1 .. m - 1 /\ (y - 1) + 1 = y
      <4>1. z = b2[y - 1]
        BY <1>3, <3>1, <3>3
      <4> QED
        BY <1>7, <3>3, <4>1
    <3> QED
      BY <2>2, <3>2, <3>3
  <2>4. ASSUME NEW z \in ToSet(b2)
        PROVE  z \in ToSet(b)
    <3>1. PICK y \in 1 .. m - 1 : z = b2[y]
      BY <1>7
    <3>2. z = b[y + 1] /\ y + 1 \in 1 .. m
      BY <1>3, <2>1, <3>1
    <3> QED
      BY <1>5, <3>2
  <2> QED
    BY <1>8, <2>3, <2>4
<1>12. Apart(a2, b2)
  <2>1. \A x, y \in 1 .. n + 1 : a2[x] = a2[y] => x = y
    <3>1. \A x \in 1 .. n : a[x] # h
      BY <1>5, <1>8
    <3> QED
      BY <1>2, <1>4, <1>9, <3>1
  <2>2. \A y \in 1 .. m - 1 : y + 1 \in 1 .. m /\ y + 1 # 1
    BY <1>1
  <2>3. ASSUME NEW x \in 1 .. m - 1, NEW y \in 1 .. m - 1, b2[x] = b2[y]
        PROVE  x = y
    <3>1. b[x + 1] = b[y + 1]
      BY <1>3, <2>3
    <3>2. x + 1 = y + 1
      BY <1>4, <2>2, <3>1
    <3> QED
      BY <3>2
  <2>4. ASSUME NEW x \in 1 .. n + 1, NEW y \in 1 .. m - 1
        PROVE  a2[x] # b2[y]
    <3>1. b2[y] = b[y + 1] /\ y + 1 \in 1 .. m /\ y + 1 # 1
      BY <1>3, <2>2
    <3>2. CASE x = n + 1
      <4>1. a2[x] = b[1] /\ 1 \in 1 .. m
        BY <1>1, <1>2, <3>2
      <4> QED
        BY <1>4, <3>1, <4>1
    <3>3. CASE x \in 1 .. n
      BY <1>2, <1>4, <3>1, <3>3
    <3> QED
      BY <1>9, <3>2, <3>3
  <2> QED
    BY <1>2, <1>3, <2>1, <2>3, <2>4 DEF Apart
<1> QED
  BY <1>1, <1>2, <1>3, <1>8, <1>10, <1>11, <1>12 DEF n, m, h, a2, b2

\* A server accepts its j-th client when it has served j of them.
LEMMA AcceptsNext ==
    ASSUME TypeOK, QueueInv, NEW s \in Servers, NEW j \in Clients, Answering(s, j, 1)
    PROVE  Len(accepted[s]) = j /\ Served(s, j) = 0
<1>1. Served(s, j) = 0
  BY DEF Answering
<1>2. accepted[s] \in Seq(Clients) /\ Len(accepted[s]) \in Nat
  BY DEF TypeOK
<1>3. ~(j < Len(accepted[s]))
  BY <1>1 DEF QueueInv
<1>4. ~(Len(accepted[s]) < j)
  <2> SUFFICES ASSUME Len(accepted[s]) < j PROVE FALSE
    OBVIOUS
  <2>1. Len(accepted[s]) \in Clients
    BY <1>2, Sizes DEF Clients
  <2>2. Served(s, Len(accepted[s])) >= ServeLen(store)
    BY <2>1 DEF Answering
  <2>3. Served(s, Len(accepted[s])) >= 1
    <3>1. Served(s, Len(accepted[s])) \in Int
      BY <2>1, Counts
    <3> QED
      BY <2>2, <3>1 DEF ServeLen
  <2>4. Len(accepted[s]) < Len(accepted[s])
    BY <2>1, <2>3 DEF QueueInv
  <2> QED
    BY <1>2, <2>4
<1>5. j \in Nat
  BY DEF Clients
<1> QED
  BY <1>1, <1>2, <1>3, <1>4, <1>5

\* Before anything is sent, the two ends of a connection have met.
LEMMA JustMet ==
    ASSUME NEW c \in Clients, NEW s \in Servers, NEW j \in Clients,
           chan'[<<Client(c), Server(s)>>] = <<>>, chan'[<<Server(s), Client(c)>>] = <<>>,
           \A w \in Places \cup Vias :
             held'[Client(c)][w][s] = None /\ held'[Server(s)][w][j] = None,
           store' \in AllStores, Visited(c, s)' = 1, Served(s, j)' = 1
    PROVE  Met(c, s, j)'
<1>1. /\ ClientSent(store', 1) = 0 /\ ClientGot(store', 1) = 0
      /\ ServerSent(store', 1) = 0 /\ ServerGot(store', 1) = 0
  BY DEF ClientSent, ClientGot, ServerSent, ServerGot, Past
<1>2. \A from, i, words : Carries(<<>>, from, i, words, 0, 0)
  BY DEF Carries
<1>3. \A w, from, i, words : Content(w, from, i, words, 0) = None
  BY DEF Content
<1>4. /\ Flow(Client(c), s, Server(s), ToServer(store), 0, 0)'
      /\ Flow(Server(s), j, Client(c), ToClient(store), 0, 0)'
  BY <1>2 DEF Flow
<1>5. /\ Taken(Client(c), s, Server(s), j, ToClient(store), 0)'
      /\ Taken(Server(s), j, Client(c), s, ToServer(store), 0)'
  BY <1>3 DEF Taken
<1> QED
  BY <1>1, <1>4, <1>5 DEF Met

\* accept() takes the client that came first; nothing is on its connection yet.
LEMMA ServerAccepts ==
    ASSUME IInv, NEW s \in Servers, Accept(s)
    PROVE  IInv'
<1>0. TypeOK /\ MemoryInv /\ QueueInv /\ LinkInv /\ ExchangeInv /\ QPInv /\ AlertInv
  BY DEF IInv
<1> PICK c : c = Head(backlog[s])
  OBVIOUS
<1>1. /\ ~Running(Server(s)) /\ Call(Server(s)).call = "accept" /\ Advance(Server(s))
      /\ backlog[s] # <<>>
      /\ UNCHANGED <<store, dead, qp, areas, loaded, listening, link, chan, held,
                     recvs, heard, lost>>
      /\ accepted' = [accepted EXCEPT ![s] = Append(accepted[s], c)]
      /\ backlog' = [backlog EXCEPT ![s] = Tail(backlog[s])]
  BY DEF Accept, At
<1>2. PICK j \in Clients, k \in 1 .. ServeLen(store) : Answering(s, j, k)
  BY <1>0, <1>1, ServerServes
<1>3. Answering(s, j, 1) /\ 1 \in 1 .. ServeLen(store)
  <2>1. k = 1
    BY <1>1, <1>2 DEF Answering, ServeStep
  <2> QED
    BY <1>2, <2>1
<1>4. Len(accepted[s]) = j /\ Served(s, j) = 0
  BY <1>0, <1>3, AcceptsNext
<1>5. /\ backlog \in [Servers -> Seq(Clients)] /\ accepted \in [Servers -> Seq(Clients)]
      /\ link \in [Clients -> [Servers -> {"closed", "open", "refused"}]]
      /\ chan \in [Procs \X Procs -> Seq(Data)] /\ DOMAIN held = Procs
      /\ \A q \in Procs : held[q] \in [Places \cup Vias -> [Conns(q) -> Data \cup {None}]]
  BY <1>0 DEF TypeOK
<1>6. accepted[s] \in Seq(Clients) /\ backlog[s] \in Seq(Clients) /\ Apart(accepted[s], backlog[s])
  BY <1>0, <1>5 DEF QueueInv, Distinct, Apart
<1>7. /\ c \in Clients /\ c \in ToSet(backlog[s]) /\ c \notin ToSet(accepted[s])
      /\ Append(accepted[s], c) \in Seq(Clients) /\ Len(Append(accepted[s], c)) = j + 1
      /\ Append(accepted[s], c)[j + 1] = c
      /\ \A x \in 1 .. j : Append(accepted[s], c)[x] = accepted[s][x]
      /\ Tail(backlog[s]) \in Seq(Clients)
      /\ Apart(Append(accepted[s], c), Tail(backlog[s]))
      /\ ToSet(Append(accepted[s], c)) = ToSet(accepted[s]) \cup {c}
      /\ ToSet(Append(accepted[s], c)) \cup ToSet(Tail(backlog[s]))
           = ToSet(accepted[s]) \cup ToSet(backlog[s])
  <2>1. /\ Head(backlog[s]) \in Clients /\ Head(backlog[s]) \in ToSet(backlog[s])
        /\ Head(backlog[s]) \notin ToSet(accepted[s])
        /\ Append(accepted[s], Head(backlog[s])) \in Seq(Clients)
        /\ Len(Append(accepted[s], Head(backlog[s]))) = Len(accepted[s]) + 1
        /\ Append(accepted[s], Head(backlog[s]))[Len(accepted[s]) + 1] = Head(backlog[s])
        /\ \A x \in 1 .. Len(accepted[s]) : Append(accepted[s], Head(backlog[s]))[x] = accepted[s][x]
        /\ Tail(backlog[s]) \in Seq(Clients)
        /\ Apart(Append(accepted[s], Head(backlog[s])), Tail(backlog[s]))
        /\ ToSet(Append(accepted[s], Head(backlog[s]))) = ToSet(accepted[s]) \cup {Head(backlog[s])}
        /\ ToSet(Append(accepted[s], Head(backlog[s]))) \cup ToSet(Tail(backlog[s]))
             = ToSet(accepted[s]) \cup ToSet(backlog[s])
    <3>1. backlog[s] # <<>>
      BY <1>1
    <3> QED
      BY ONLY <1>6, <3>1, MovesOn
  <2> QED
    BY <1>4, <2>1
<1>8. /\ Len(accepted'[s]) = j + 1 /\ accepted'[s][j + 1] = c
      /\ \A x \in 1 .. j : accepted'[s][x] = accepted[s][x]
      /\ Apart(accepted'[s], backlog'[s])
      /\ ToSet(accepted'[s]) = ToSet(accepted[s]) \cup {c}
      /\ ToSet(accepted'[s]) \cup ToSet(backlog'[s]) = ToSet(accepted[s]) \cup ToSet(backlog[s])
      /\ accepted' \in [Servers -> Seq(Clients)] /\ backlog' \in [Servers -> Seq(Clients)]
      /\ \A r \in Servers : r # s => accepted'[r] = accepted[r] /\ backlog'[r] = backlog[r]
  <2>1. accepted'[s] = Append(accepted[s], c) /\ backlog'[s] = Tail(backlog[s])
    BY <1>1, <1>5
  <2>2. /\ accepted' \in [Servers -> Seq(Clients)] /\ backlog' \in [Servers -> Seq(Clients)]
        /\ \A r \in Servers : r # s => accepted'[r] = accepted[r] /\ backlog'[r] = backlog[r]
    BY <1>1, <1>5, <1>7
  <2> QED
    BY <1>7, <2>1, <2>2
<1>9. /\ \A r \in Servers, l \in Clients :
           /\ r = s => Served(r, l)' = Served(r, l) + 1
           /\ r # s => Served(r, l)' = Served(r, l)
      /\ \A d \in Clients, r \in Servers :
           Visited(d, r)' = Visited(d, r) /\ Linked(d, r)' = Linked(d, r)
      /\ \A r \in Servers, l \in Clients : Served(r, l) \in Int
      /\ store \in AllStores
  BY <1>0, <1>1, ServerMoves, Counts, Numbers
<1>10. /\ \A l \in Clients : l < j => Served(s, l) >= 1 /\ Served(s, l)' >= 1
       /\ \A l \in Clients : l > j => Served(s, l)' < 1 /\ Served(s, l)' < 4
       /\ Served(s, j)' = 1
  <2>1. /\ \A i \in Clients : i < j => Served(s, i) >= ServeLen(store)
        /\ \A i \in Clients : i > j => Served(s, i) < 0
    BY <1>3 DEF Answering
  <2>2. ServeLen(store) >= 1
    BY DEF ServeLen
  <2>3. ServeLen(store) \in Nat
    BY DEF ServeLen
  <2>4. ASSUME NEW l \in Clients, l < j
        PROVE  Served(s, l) >= 1 /\ Served(s, l)' >= 1
    <3>1. Served(s, l)' = Served(s, l) + 1 /\ Served(s, l) \in Int /\ Served(s, l) >= ServeLen(store)
      BY <1>9, <2>1, <2>4
    <3> QED
      BY <2>2, <2>3, <3>1
  <2>5. ASSUME NEW l \in Clients, l > j
        PROVE  Served(s, l)' < 1 /\ Served(s, l)' < 4
    <3>1. Served(s, l)' = Served(s, l) + 1 /\ Served(s, l) \in Int /\ Served(s, l) < 0
      BY <1>9, <2>1, <2>5
    <3> QED
      BY <3>1
  <2>6. Served(s, j)' = 1
    BY <1>4, <1>9
  <2> QED
    BY <2>4, <2>5, <2>6
<1>11. \A l \in Clients, r \in Servers :
         /\ r # s \/ l < j => /\ l < Len(accepted'[r]) <=> l < Len(accepted[r])
                              /\ l < Len(accepted[r]) => accepted'[r][l + 1] = accepted[r][l + 1]
         /\ r = s /\ l = j => l < Len(accepted'[r]) /\ ~(l < Len(accepted[r]))
         /\ r = s /\ l > j => ~(l < Len(accepted'[r])) /\ ~(l < Len(accepted[r]))
  <2>1. \A l \in Clients : l \in Nat /\ (l < j => l + 1 \in 1 .. j)
    BY DEF Clients
  <2>2. j \in Nat
    BY <2>1
  <2>3. ASSUME NEW l \in Clients, NEW r \in Servers, r # s
        PROVE  accepted'[r] = accepted[r]
    BY <1>8, <2>3
  <2>4. ASSUME NEW l \in Clients
        PROVE  /\ l < Len(accepted'[s]) <=> l < j \/ l = j
               /\ l < Len(accepted[s]) <=> l < j
               /\ l < j => accepted'[s][l + 1] = accepted[s][l + 1]
    <3>1. Len(accepted'[s]) = j + 1 /\ Len(accepted[s]) = j /\ l \in Nat
      BY <1>4, <1>8, <2>1
    <3>2. l < j => l + 1 \in 1 .. j
      BY <2>1
    <3>3. l < j + 1 <=> l < j \/ l = j
      BY <2>2, <3>1
    <3> QED
      BY <1>8, <3>1, <3>2, <3>3
  <2>5. \A l \in Clients : (l = j => ~(l < j)) /\ (l > j => ~(l < j) /\ l # j)
    BY <2>1, <2>2
  <2> QED
    BY <2>3, <2>4, <2>5
<1>12. \A l \in Clients : l < j \/ l = j \/ l > j
  BY DEF Clients
<1>13. TypeOK'
  BY <1>0, <1>1, <1>5, <1>8, Names, ExchangeType
<1>14. MemoryInv' /\ AlertInv'
  <2>1. Served(s, 0) >= -1 /\ (store = "Pilaf" => pos[Server(s)] <= 3 + 10 * NumClients)
    BY <1>0, <1>3, AnsweringEarly
  <2>2. \A r \in Servers, l \in Clients : l < Len(accepted[r]) =>
          l < Len(accepted'[r]) /\ accepted'[r][l + 1] = accepted[r][l + 1]
    BY <1>11, <1>12
  <2> QED
    BY <1>0, <1>1, <2>1, <2>2, ServerBusy
<1>15. QueueInv'
  <2>1. ASSUME NEW r \in Servers
        PROVE  Len(accepted'[r]) <= NumClients /\ Distinct(r)'
    <3>1. CASE r = s
      <4>1. j + 1 <= NumClients
        BY Sizes DEF Clients
      <4>2. Distinct(s)'
        BY <1>8 DEF Apart, Distinct
      <4> QED
        BY <1>8, <3>1, <4>1, <4>2
    <3>2. CASE r # s
      <4>1. Len(accepted[r]) <= NumClients /\ Distinct(r)
        BY <1>0 DEF QueueInv
      <4>2. accepted'[r] = accepted[r] /\ backlog'[r] = backlog[r]
        BY <1>8, <3>2
      <4> QED
        BY <4>1, <4>2 DEF Distinct
    <3> QED
      BY <3>1, <3>2
  <2>2. ASSUME NEW r \in Servers, NEW l \in Clients
        PROVE  l < Len(accepted'[r]) <=> Served(r, l)' >= 1
    <3>1. l < Len(accepted[r]) <=> Served(r, l) >= 1
      BY <1>0 DEF QueueInv
    <3>2. CASE r # s
      <4>1. Served(r, l)' = Served(r, l)
        BY <1>9, <3>2
      <4>2. l < Len(accepted'[r]) <=> l < Len(accepted[r])
        BY <1>11, <3>2
      <4> QED
        BY <3>1, <4>1, <4>2
    <3>3. CASE r = s /\ l < j
      BY <1>10, <1>11, <3>1, <3>3
    <3>4. CASE r = s /\ l = j
      <4>1. Served(r, l)' >= 1
        BY <1>10, <3>4
      <4> QED
        BY <1>11, <3>4, <4>1
    <3>5. CASE r = s /\ l > j
      <4>1. ~(Served(r, l)' >= 1)
        BY <1>9, <1>10, <3>5
      <4> QED
        BY <1>11, <3>5, <4>1
    <3> QED
      BY <1>12, <3>2, <3>3, <3>4, <3>5
  <2>3. ASSUME NEW r \in Servers, NEW d \in Clients
        PROVE  link'[d][r] = "open" <=> d \in ToSet(accepted'[r]) \cup ToSet(backlog'[r])
    <3>1. link[d][r] = "open" <=> d \in ToSet(accepted[r]) \cup ToSet(backlog[r])
      BY <1>0 DEF QueueInv
    <3>2. link' = link
      BY <1>1
    <3> QED
      BY <1>8, <3>1, <3>2
  <2> QED
    BY <2>1, <2>2, <2>3 DEF QueueInv
<1>16. LinkInv'
  BY <1>0, <1>1, <1>9, KeepsLink
<1>17. ExchangeInv'
  <2>1. Unmet(c, s) /\ link[c][s] = "open"
    BY <1>0, <1>7 DEF ExchangeInv, QueueInv
  <2>2. Visited(c, s) = 1
    <3>1. Visited(c, s) >= 1 /\ Visited(c, s) \in Int
      BY <1>0, <1>7, <2>1, Counts DEF LinkInv
    <3>2. Visited(c, s) <= 1
      BY <2>1 DEF Unmet
    <3> QED
      BY <3>1, <3>2
  <2>3. Met(c, s, j)'
    <3>1. /\ chan'[<<Client(c), Server(s)>>] = <<>> /\ chan'[<<Server(s), Client(c)>>] = <<>>
          /\ \A w \in Places \cup Vias : held'[Client(c)][w][s] = None
      BY <1>1, <2>1 DEF Unmet
    <3>2. \A w \in Places \cup Vias : held'[Server(s)][w][j] = None
      BY <1>0, <1>1, <1>11 DEF ExchangeInv
    <3>3. Visited(c, s)' = 1 /\ Served(s, j)' = 1 /\ store' \in AllStores
      <4>1. Visited(c, s)' = 1
        BY <1>7, <1>9, <2>2
      <4> QED
        BY <1>1, <1>9, <1>10, <4>1
    <3> QED
      BY <1>7, <3>1, <3>2, <3>3, JustMet
  <2>4. ASSUME NEW r \in Servers, NEW l \in Clients, r # s \/ l < j
        PROVE  /\ ServerSent(store, Served(r, l)') = ServerSent(store, Served(r, l))
               /\ ServerGot(store, Served(r, l)') = ServerGot(store, Served(r, l))
    <3>1. CASE r # s
      BY <1>9, <3>1
    <3>2. CASE r = s /\ l < j
      <4>1. l # j
        BY <3>2 DEF Clients
      <4>2. /\ ServerSent(store, Served(s, l) + 1) = ServerSent(store, Served(s, l))
            /\ ServerGot(store, Served(s, l) + 1) = ServerGot(store, Served(s, l))
        BY <1>0, <1>3, <4>1, AnsweringOthers
      <4> QED
        BY <1>9, <3>2, <4>2
    <3> QED
      BY <2>4, <3>1, <3>2
  <2>5. ASSUME NEW r \in Servers, NEW l \in Clients, NEW d \in Clients, r # s \/ l < j, Met(d, r, l)
        PROVE  Met(d, r, l)'
    <3>1. Untouched(d, r, l)
      BY <1>1, <1>9, <2>4, <2>5 DEF Untouched
    <3> QED
      BY <1>1, <2>5, <3>1, StaysMet
  <2>6. ASSUME NEW r \in Servers, NEW d \in Clients, d \notin ToSet(accepted'[r])
        PROVE  Unmet(d, r)'
    <3>1. d \notin ToSet(accepted[r])
      BY <1>8, <2>6
    <3>2. Unmet(d, r)
      BY <1>0, <3>1 DEF ExchangeInv
    <3> QED
      BY <1>1, <1>9, <3>2 DEF Unmet
  <2>7. ASSUME NEW r \in Servers, NEW l \in Clients, NEW d \in Clients,
               l < Len(accepted'[r]), accepted'[r][l + 1] = d
        PROVE  Met(d, r, l)'
    <3>1. CASE r # s \/ l < j
      <4>1. l < Len(accepted[r]) /\ accepted[r][l + 1] = d
        BY <1>11, <2>7, <3>1
      <4>2. Met(d, r, l)
        BY <1>0, <4>1 DEF ExchangeInv
      <4> QED
        BY <2>5, <3>1, <4>2
    <3>2. CASE r = s /\ l = j
      <4>1. d = c
        BY <1>8, <2>7, <3>2
      <4> QED
        BY <2>3, <3>2, <4>1
    <3>3. CASE r = s /\ l > j
      BY <1>11, <2>7, <3>3
    <3> QED
      BY <1>12, <3>1, <3>2, <3>3
  <2>8. ASSUME NEW r \in Servers, NEW l \in Clients, ~(l < Len(accepted'[r]))
        PROVE  \A w \in Places \cup Vias : held'[Server(r)][w][l] = None
    <3>1. ~(l < Len(accepted[r]))
      BY <1>11, <1>12, <2>8
    <3> QED
      BY <1>0, <1>1, <3>1 DEF ExchangeInv
  <2> QED
    BY <2>6, <2>7, <2>8 DEF ExchangeInv
<1>18. QPInv'
  <2>1. ASSUME NEW l \in Clients, NEW t \in StoreVias(store)
        PROVE  Alike(Served(s, l), Served(s, l) + 1, ServeReady(store, t))
    <3>1. CASE l = j
      <4>1. Served(s, l) = 0 /\ ServeReady(store, t) \in 5 .. 9
        BY <1>4, <3>1 DEF ServeReady
      <4> QED
        BY <4>1 DEF Alike
    <3>2. CASE l # j
      BY <1>0, <1>3, <3>2, AnsweringOthers
    <3> QED
      BY <3>1, <3>2
  <2>2. ASSUME NEW r \in Servers, NEW l \in Clients
        PROVE  Served(r, l)' < 4 \/ accepted'[r][l + 1] = accepted[r][l + 1]
    <3>1. CASE r # s
      BY <1>8, <3>1
    <3>2. CASE r = s /\ l < j
      <4>1. l < Len(accepted[r])
        BY <1>4, <3>2
      <4> QED
        BY <1>11, <3>2, <4>1
    <3>3. CASE r = s /\ l = j
      <4>1. Served(r, l)' = 1
        BY <1>10, <3>3
      <4> QED
        BY <4>1
    <3>4. CASE r = s /\ l > j
      BY <1>10, <3>4
    <3> QED
      BY <1>12, <3>1, <3>2, <3>3, <3>4
  <2> QED
    BY <1>0, <1>1, <2>1, <2>2, ServerKeepsQP
<1> QED
  BY <1>13, <1>14, <1>15, <1>16, <1>17, <1>18 DEF IInv

\* A server reads and writes when it has accepted the client.
LEMMA AnsweringWhom ==
    ASSUME TypeOK, QueueInv, ExchangeInv, NEW s \in Servers, NEW j \in Clients,
           NEW k \in 1 .. ServeLen(store), Answering(s, j, k), k # 1
    PROVE  \E c \in Clients : /\ j < Len(accepted[s]) /\ accepted[s][j + 1] = c /\ Met(c, s, j)
                              /\ Peer(Server(s), j) = Client(c)
<1>1. Served(s, j) = k - 1
  BY DEF Answering
<1>2. Served(s, j) >= 1
  BY <1>1
<1>3. j < Len(accepted[s])
  BY <1>2 DEF QueueInv
<1>4. accepted[s] \in Seq(Clients) /\ j \in Nat
  BY DEF TypeOK, Clients
<1>5. j + 1 \in 1 .. Len(accepted[s])
  BY <1>3, <1>4
<1>6. accepted[s][j + 1] \in Clients
  BY <1>4, <1>5
<1>7. Met(accepted[s][j + 1], s, j)
  BY <1>3, <1>6 DEF ExchangeInv
<1>8. Peer(Server(s), j) = Client(accepted[s][j + 1])
  BY Names DEF Peer
<1> QED
  BY <1>3, <1>6, <1>7, <1>8

\* A server's read or write disturbs nothing but the exchange.
LEMMA AnsweringKeeps ==
    ASSUME TypeOK, MemoryInv, QueueInv, LinkInv, QPInv, AlertInv, NEW s \in Servers, NEW j \in Clients,
           NEW k \in 1 .. ServeLen(store), Answering(s, j, k), Advance(Server(s)),
           Call(Server(s)).call \in {"read", "write"},
           UNCHANGED <<store, dead, qp, areas, loaded, backlog, accepted, link, recvs, heard>>,
           \A d \in Clients : held'[Client(d)] = held[Client(d)]
    PROVE  MemoryInv' /\ QueueInv' /\ LinkInv' /\ QPInv' /\ AlertInv'
<1>1. /\ \A r \in Servers, l \in Clients :
           /\ r = s => Served(r, l)' = Served(r, l) + 1
           /\ r # s => Served(r, l)' = Served(r, l)
      /\ \A d \in Clients, r \in Servers : Visited(d, r)' = Visited(d, r)
      /\ \A r \in Servers, l \in Clients : Served(r, l) \in Int
  BY ServerMoves, Counts
<1>2. Served(s, j) = k - 1 /\ k # 1 /\ k \in Nat
      /\ \A t \in StoreVias(store) : k # ServeReady(store, t) - 1 /\ k # ServeReady(store, t)
  <2>1. ServeStep(store, j, k, Call(Server(s))) /\ Served(s, j) = k - 1
    BY DEF Answering
  <2>2. k # 1
    BY <2>1 DEF ServeStep
  <2>3. ASSUME NEW t \in StoreVias(store)
        PROVE  k # ServeReady(store, t) - 1 /\ k # ServeReady(store, t)
    BY <2>1 DEF ServeStep
  <2> QED
    BY <2>1, <2>2, <2>3
<1>3. MemoryInv' /\ AlertInv'
  <2>1. Served(s, 0) >= -1 /\ (store = "Pilaf" => pos[Server(s)] <= 3 + 10 * NumClients)
    BY AnsweringEarly
  <2> QED
    BY <2>1, ServerBusy
<1>4. QueueInv'
  <2>1. ASSUME NEW r \in Servers, NEW l \in Clients
        PROVE  Served(r, l)' >= 1 <=> Served(r, l) >= 1
    <3>1. CASE r # s
      BY <1>1, <3>1
    <3>2. CASE r = s /\ l = j
      <4>1. Served(r, l) >= 1 /\ Served(r, l)' = Served(r, l) + 1 /\ Served(r, l) \in Int
        BY <1>1, <1>2, <3>2
      <4> QED
        BY <4>1
    <3>3. CASE r = s /\ l # j
      <4>1. Served(s, l) + 1 >= 1 => Served(s, l) >= 1
        BY <3>3, AnsweringOthers
      <4>2. Served(r, l)' = Served(s, l) + 1 /\ Served(s, l) \in Int
        BY <1>1, <3>3
      <4> QED
        BY <3>3, <4>1, <4>2
    <3> QED
      BY <3>1, <3>2, <3>3
  <2> QED
    BY <2>1, KeepsQueue
<1>5. LinkInv'
  BY <1>1, KeepsLink
<1>6. QPInv'
  <2>1. ASSUME NEW l \in Clients, NEW t \in StoreVias(store)
        PROVE  Alike(Served(s, l), Served(s, l) + 1, ServeReady(store, t))
    <3>1. CASE l = j
      <4>1. ServeReady(store, t) \in Int
        BY DEF ServeReady
      <4>2. Served(s, l) = k - 1 /\ Served(s, l) + 1 = k
        BY <1>2, <3>1
      <4> QED
        BY <1>2, <4>1, <4>2 DEF Alike
    <3>2. CASE l # j
      BY <3>2, AnsweringOthers
    <3> QED
      BY <3>1, <3>2
  <2> QED
    BY <2>1, ServerKeepsQP
<1> QED
  BY <1>3, <1>4, <1>5, <1>6

\* A server's read or write changes what has passed on one connection.
LEMMA AnsweringExchange ==
    ASSUME TypeOK, QueueInv, ExchangeInv, NEW s \in Servers, NEW j \in Clients,
           NEW k \in 1 .. ServeLen(store), Answering(s, j, k), Advance(Server(s)),
           UNCHANGED <<store, accepted, link>>,
           NEW c \in Clients, j < Len(accepted[s]), accepted[s][j + 1] = c, Met(c, s, j)',
           \A d \in Clients, r \in Servers : d # c \/ r # s =>
             /\ chan'[<<Client(d), Server(r)>>] = chan[<<Client(d), Server(r)>>]
             /\ chan'[<<Server(r), Client(d)>>] = chan[<<Server(r), Client(d)>>],
           \A d \in Clients : held'[Client(d)] = held[Client(d)],
           \A r \in Servers, l \in Clients : r # s \/ l # j =>
             \A w \in Places \cup Vias : held'[Server(r)][w][l] = held[Server(r)][w][l]
    PROVE  ExchangeInv'
<1>1. /\ \A r \in Servers, l \in Clients :
           /\ r = s => Served(r, l)' = Served(r, l) + 1
           /\ r # s => Served(r, l)' = Served(r, l)
      /\ \A d \in Clients, r \in Servers : Visited(d, r)' = Visited(d, r)
  BY ServerMoves
<1>2. ASSUME NEW r \in Servers, NEW l \in Clients, r # s \/ l # j
      PROVE  /\ ServerSent(store, Served(r, l)') = ServerSent(store, Served(r, l))
             /\ ServerGot(store, Served(r, l)') = ServerGot(store, Served(r, l))
  <2>1. CASE r # s
    BY <1>1, <2>1
  <2>2. CASE r = s
    <3>1. Served(r, l)' = Served(s, l) + 1
      BY <1>1, <2>2
    <3>2. /\ ServerSent(store, Served(s, l) + 1) = ServerSent(store, Served(s, l))
          /\ ServerGot(store, Served(s, l) + 1) = ServerGot(store, Served(s, l))
      BY <1>2, <2>2, AnsweringOthers
    <3> QED
      BY <2>2, <3>1, <3>2
  <2> QED
    BY <2>1, <2>2
<1>3. \A r \in Servers, d \in Clients : d \notin ToSet(accepted[r]) => d # c \/ r # s
  <2>1. accepted[s] \in Seq(Clients)
    BY DEF TypeOK
  <2>2. c \in ToSet(accepted[s])
    BY ONLY <2>1, j \in Clients, j < Len(accepted[s]), accepted[s][j + 1] = c, Inside
  <2> QED
    BY <2>2
<1>4. ASSUME NEW r \in Servers, NEW l \in Clients, NEW d \in Clients,
             l < Len(accepted[r]) /\ accepted[r][l + 1] = d
      PROVE  Met(d, r, l)' \/ Untouched(d, r, l)
  <2>1. CASE r = s /\ l = j
    <3>1. d = c
      BY <1>4, <2>1
    <3> QED
      BY <2>1, <3>1
  <2>2. CASE r # s \/ l # j
    <3>1. d # c \/ r # s
      <4>1. SUFFICES ASSUME d = c, r = s PROVE FALSE
        OBVIOUS
      <4>2. l = j
        BY <1>4, <4>1, AcceptedOnce
      <4> QED
        BY <2>2, <4>1, <4>2
    <3> QED
      BY <1>1, <1>2, <2>2, <3>1 DEF Untouched
  <2> QED
    BY <2>1, <2>2
<1>5. \A r \in Servers, d \in Clients : d \notin ToSet(accepted[r]) =>
        /\ chan'[<<Client(d), Server(r)>>] = chan[<<Client(d), Server(r)>>]
        /\ chan'[<<Server(r), Client(d)>>] = chan[<<Server(r), Client(d)>>]
        /\ \A w \in Places \cup Vias : held'[Client(d)][w][r] = held[Client(d)][w][r]
        /\ Visited(d, r) <= 1 \/ link[d][r] = "refused" => Visited(d, r)' <= 1 \/ link'[d][r] = "refused"
  BY <1>1, <1>3
<1>6. ASSUME NEW r \in Servers, NEW l \in Clients, ~(l < Len(accepted[r]))
      PROVE  \A w \in Places \cup Vias : held'[Server(r)][w][l] = held[Server(r)][w][l]
  <2>1. r # s \/ l # j
    BY <1>6
  <2> QED
    BY <2>1
<1>7. TypeOK /\ ExchangeInv /\ UNCHANGED <<store, accepted>>
  OBVIOUS
<1> QED
  BY ONLY <1>4, <1>5, <1>6, <1>7, ExchangeStep

\* A server writes to the client that it serves.
LEMMA ServerWrites ==
    ASSUME IInv, NEW s \in Servers, DoWrite(Server(s))
    PROVE  IInv'
<1>0. TypeOK /\ MemoryInv /\ QueueInv /\ LinkInv /\ ExchangeInv /\ QPInv /\ AlertInv
  BY DEF IInv
<1>1. /\ ~Running(Server(s)) /\ Call(Server(s)).call = "write" /\ Advance(Server(s))
      /\ UNCHANGED <<store, dead, qp, areas, loaded, listening, backlog, accepted, link, held,
                     recvs, heard, lost>>
  BY DEF DoWrite, At
<1>2. PICK j \in Clients, k \in 1 .. ServeLen(store) : Answering(s, j, k)
  BY <1>0, <1>1, ServerServes
<1>3. store \in AllStores /\ Served(s, j) \in Int
  BY <1>0, Numbers, Counts
<1>4. /\ Call(Server(s)).conn = j /\ Served(s, j) = k - 1 /\ k # 1 /\ k \in Nat
      /\ ServerSent(store, k - 1) \in 0 .. 2
      /\ Call(Server(s)).what = ToClient(store)[ServerSent(store, k - 1) + 1]
      /\ ServerSent(store, k) = ServerSent(store, k - 1) + 1
      /\ ServerGot(store, k) = ServerGot(store, k - 1)
  BY <1>1, <1>2 DEF Answering, ServeStep
<1>5. PICK c \in Clients : /\ j < Len(accepted[s]) /\ accepted[s][j + 1] = c /\ Met(c, s, j)
                           /\ Peer(Server(s), j) = Client(c)
  BY <1>0, <1>2, <1>4, AnsweringWhom
<1>6. chan' = [chan EXCEPT ![<<Server(s), Client(c)>>] =
                 Append(chan[<<Server(s), Client(c)>>], Datum(Server(s), j, Call(Server(s)).what))]
  BY <1>4, <1>5 DEF DoWrite
<1>7. /\ Served(s, j)' = Served(s, j) + 1
      /\ \A d \in Clients, r \in Servers : Visited(d, r)' = Visited(d, r)
  BY <1>0, <1>1, ServerMoves
<1> DEFINE w == Call(Server(s)).what
           v == Datum(Server(s), j, w)
           there == <<Server(s), Client(c)>>
<1>8. w \in Places \cup Vias /\ v \in Data
  <2>1. w \in Places \cup Vias
    BY <1>3, <1>4, Words
  <2>2. Server(s) \in Procs /\ j \in Conns(Server(s))
    BY Names
  <2> QED
    BY <2>1, <2>2, DatumType
<1>9. chan \in [Procs \X Procs -> Seq(Data)] /\ there \in Procs \X Procs
  BY <1>0, Names DEF TypeOK
<1>10. /\ chan'[there] = Append(chan[there], v)
       /\ \A p, q \in Procs : <<p, q>> # there => chan'[<<p, q>>] = chan[<<p, q>>]
  BY <1>6, <1>9
<1>11. TypeOK'
  <2>1. chan' \in [Procs \X Procs -> Seq(Data)]
    <3>1. Append(chan[there], v) \in Seq(Data)
      BY <1>8, <1>9
    <3> QED
      BY <1>6, <1>9, <3>1
  <2>2. /\ backlog \in [Servers -> Seq(Clients)] /\ accepted \in [Servers -> Seq(Clients)]
        /\ link \in [Clients -> [Servers -> {"closed", "open", "refused"}]]
        /\ DOMAIN held = Procs
        /\ \A q \in Procs : held[q] \in [Places \cup Vias -> [Conns(q) -> Data \cup {None}]]
    BY <1>0 DEF TypeOK
  <2> QED
    BY <1>0, <1>1, <2>1, <2>2, Names, ExchangeType
<1>12. MemoryInv' /\ QueueInv' /\ LinkInv' /\ QPInv' /\ AlertInv'
  BY <1>0, <1>1, <1>2, AnsweringKeeps
<1>13. ExchangeInv'
  <2> DEFINE cs == ClientSent(store, Visited(c, s))
             cg == ClientGot(store, Visited(c, s))
             ss == ServerSent(store, Served(s, j))
             sg == ServerGot(store, Served(s, j))
  <2>1. Met(c, s, j)'
    <3>1. ss' = ss + 1 /\ sg' = sg /\ cs' = cs /\ cg' = cg
      <4>1. Served(s, j)' = k /\ Served(s, j) = k - 1
        BY <1>4, <1>7
      <4> QED
        BY <1>1, <1>4, <1>7, <4>1
    <3>2. ss \in Nat /\ cg \in Nat /\ w = ToClient(store)[ss + 1]
      <4>1. Visited(c, s) \in Int
        BY <1>0, Counts
      <4>2. cg \in Nat
        BY <1>3, <4>1, Counters
      <4> QED
        BY <1>4, <4>2
    <3>3. /\ Flow(Client(c), s, Server(s), ToServer(store), cs, sg)
          /\ Flow(Server(s), j, Client(c), ToClient(store), ss, cg)
          /\ Taken(Client(c), s, Server(s), j, ToClient(store), cg)
          /\ Taken(Server(s), j, Client(c), s, ToServer(store), sg)
      BY <1>5 DEF Met
    <3> HIDE DEF cs, cg, ss, sg
    <3>4. Carries(chan'[there], Server(s), j, ToClient(store), ss + 1, cg)
      <4>1. Carries(chan[there], Server(s), j, ToClient(store), ss, cg)
        BY <3>3 DEF Flow
      <4>2. chan[there] \in Seq(Data) /\ v = Datum(Server(s), j, ToClient(store)[ss + 1])
        BY <1>9, <3>2
      <4> HIDE DEF w, v, there
      <4>3. Carries(Append(chan[there], v), Server(s), j, ToClient(store), ss + 1, cg)
        BY <1>8, <3>2, <4>1, <4>2, Sends
      <4> QED
        BY <1>10, <4>3
    <3>5. Flow(Server(s), j, Client(c), ToClient(store), ss, cg)'
      BY <1>1, <3>1, <3>4 DEF Flow
    <3>6. chan'[<<Client(c), Server(s)>>] = chan[<<Client(c), Server(s)>>]
      BY <1>10, Names
    <3>7. Flow(Client(c), s, Server(s), ToServer(store), cs, sg)'
      BY <1>1, <3>1, <3>3, <3>6 DEF Flow
    <3>8. /\ Taken(Client(c), s, Server(s), j, ToClient(store), cg)'
          /\ Taken(Server(s), j, Client(c), s, ToServer(store), sg)'
      BY <1>1, <3>1, <3>3 DEF Taken
    <3> QED
      BY <3>5, <3>7, <3>8 DEF Met, cs, cg, ss, sg
  <2>2. \A d \in Clients, r \in Servers : d # c \/ r # s =>
          /\ chan'[<<Client(d), Server(r)>>] = chan[<<Client(d), Server(r)>>]
          /\ chan'[<<Server(r), Client(d)>>] = chan[<<Server(r), Client(d)>>]
    BY <1>10, Names
  <2>3. held' = held
    BY <1>1
  <2>4. /\ TypeOK /\ QueueInv /\ ExchangeInv /\ s \in Servers /\ j \in Clients
        /\ k \in 1 .. ServeLen(store) /\ Answering(s, j, k) /\ Advance(Server(s))
        /\ UNCHANGED <<store, accepted, link>>
        /\ c \in Clients /\ j < Len(accepted[s]) /\ accepted[s][j + 1] = c
    BY <1>0, <1>1, <1>2, <1>5
  <2> QED
    BY ONLY <2>1, <2>2, <2>3, <2>4, AnsweringExchange
<1> QED
  BY <1>11, <1>12, <1>13 DEF IInv

\* A server reads what the client that it serves has written.
LEMMA ServerReads ==
    ASSUME IInv, NEW s \in Servers, DoRead(Server(s))
    PROVE  IInv'
<1>0. TypeOK /\ MemoryInv /\ QueueInv /\ LinkInv /\ ExchangeInv /\ QPInv /\ AlertInv
  BY DEF IInv
<1>1. /\ ~Running(Server(s)) /\ Call(Server(s)).call = "read" /\ Advance(Server(s))
      /\ UNCHANGED <<store, dead, qp, areas, loaded, listening, backlog, accepted, link,
                     recvs, heard, lost>>
  BY DEF DoRead, At
<1>2. PICK j \in Clients, k \in 1 .. ServeLen(store) : Answering(s, j, k)
  BY <1>0, <1>1, ServerServes
<1>3. store \in AllStores /\ Served(s, j) \in Int
  BY <1>0, Numbers, Counts
<1>4. /\ Call(Server(s)).conn = j /\ Served(s, j) = k - 1 /\ k # 1 /\ k \in Nat
      /\ ServerGot(store, k - 1) \in 0 .. 1
      /\ Call(Server(s)).what = ToServer(store)[ServerGot(store, k - 1) + 1]
      /\ ServerGot(store, k) = ServerGot(store, k - 1) + 1
      /\ ServerSent(store, k) = ServerSent(store, k - 1)
  BY <1>1, <1>2 DEF Answering, ServeStep
<1>5. PICK c \in Clients : /\ j < Len(accepted[s]) /\ accepted[s][j + 1] = c /\ Met(c, s, j)
                           /\ Peer(Server(s), j) = Client(c)
  BY <1>0, <1>2, <1>4, AnsweringWhom
<1> DEFINE w == Call(Server(s)).what
           here == <<Client(c), Server(s)>>
           v == Head(chan[here])
<1>6. /\ chan[here] # <<>>
      /\ held' = [held EXCEPT ![Server(s)][w][j] = v]
      /\ chan' = [chan EXCEPT ![here] = Tail(chan[here])]
  BY <1>4, <1>5 DEF DoRead
<1>7. /\ Served(s, j)' = Served(s, j) + 1
      /\ \A d \in Clients, r \in Servers : Visited(d, r)' = Visited(d, r)
  BY <1>0, <1>1, ServerMoves
<1>8. w \in Places \cup Vias
  BY <1>3, <1>4, Words
<1>9. chan \in [Procs \X Procs -> Seq(Data)] /\ here \in Procs \X Procs
      /\ Server(s) \in Procs /\ j \in Conns(Server(s))
  BY <1>0, Names DEF TypeOK
<1>10. /\ chan'[here] = Tail(chan[here])
       /\ \A p, q \in Procs : <<p, q>> # here => chan'[<<p, q>>] = chan[<<p, q>>]
  BY <1>6, <1>9
<1> DEFINE cs == ClientSent(store, Visited(c, s))
           cg == ClientGot(store, Visited(c, s))
           ss == ServerSent(store, Served(s, j))
           sg == ServerGot(store, Served(s, j))
<1>11. sg' = sg + 1 /\ ss' = ss /\ cs' = cs /\ cg' = cg
  <2>1. Served(s, j)' = k /\ Served(s, j) = k - 1
    BY <1>4, <1>7
  <2> QED
    BY <1>1, <1>4, <1>7, <2>1
<1>12. sg \in Nat /\ cs \in Nat /\ w = ToServer(store)[sg + 1]
  <2>1. Visited(c, s) \in Int
    BY <1>0, Counts
  <2>2. cs \in Nat
    BY <1>3, <2>1, Counters
  <2> QED
    BY <1>4, <2>2
<1>13. /\ Flow(Client(c), s, Server(s), ToServer(store), cs, sg)
       /\ Flow(Server(s), j, Client(c), ToClient(store), ss, cg)
       /\ Taken(Client(c), s, Server(s), j, ToClient(store), cg)
       /\ Taken(Server(s), j, Client(c), s, ToServer(store), sg)
  BY <1>5 DEF Met
<1> HIDE DEF cs, cg, ss, sg, w, here
<1>14. /\ v = Datum(Client(c), s, w) /\ v \in Data /\ Tail(chan[here]) \in Seq(Data)
       /\ Carries(chan'[here], Client(c), s, ToServer(store), cs, sg + 1)
  <2>1. Carries(chan[here], Client(c), s, ToServer(store), cs, sg) /\ chan[here] \in Seq(Data)
    BY <1>9, <1>13 DEF Flow, here
  <2>2. sg \in Nat /\ cs \in Nat /\ chan[here] # <<>>
    BY <1>6, <1>12
  <2>3. /\ Head(chan[here]) = Datum(Client(c), s, ToServer(store)[sg + 1]) /\ Head(chan[here]) \in Data
        /\ Tail(chan[here]) \in Seq(Data)
        /\ Carries(Tail(chan[here]), Client(c), s, ToServer(store), cs, sg + 1)
    BY ONLY <2>1, <2>2, Receives
  <2> QED
    BY <1>10, <1>12, <2>3
<1> HIDE DEF v
<1>15. /\ held'[Server(s)][w][j] = v
       /\ \A q \in Procs : q # Server(s) => held'[q] = held[q]
       /\ \A u \in Places \cup Vias, l \in Clients :
            u # w \/ l # j => held'[Server(s)][u][l] = held[Server(s)][u][l]
       /\ DOMAIN held' = Procs
       /\ \A q \in Procs : held'[q] \in [Places \cup Vias -> [Conns(q) -> Data \cup {None}]]
  <2>0. DOMAIN held = Procs
    BY <1>0 DEF TypeOK
  <2>1. /\ DOMAIN held' = Procs
        /\ \A q \in Procs : q # Server(s) => held'[q] = held[q]
        /\ held'[Server(s)] = Put(held[Server(s)], w, j, v)
    BY <1>6, <1>9, <2>0 DEF Put
  <2>2. /\ held'[Server(s)][w][j] = v
        /\ \A u \in Places \cup Vias, l \in Conns(Server(s)) :
             u # w \/ l # j => held'[Server(s)][u][l] = held[Server(s)][u][l]
        /\ \A q \in Procs : held'[q] \in [Places \cup Vias -> [Conns(q) -> Data \cup {None}]]
    <3>1. /\ TypeOK /\ Server(s) \in Procs /\ w \in Places \cup Vias /\ j \in Conns(Server(s))
          /\ v \in Data \cup {None}
      BY <1>0, <1>8, <1>9, <1>14
    <3> QED
      BY ONLY <2>1, <3>1, HeldStep
  <2>3. Conns(Server(s)) = Clients
    BY Names
  <2> QED
    BY <2>1, <2>2, <2>3
<1>16. \A d \in Clients : held'[Client(d)] = held[Client(d)]
  BY <1>15, Names
<1>17. TypeOK'
  <2>1. chan' \in [Procs \X Procs -> Seq(Data)]
    BY <1>6, <1>9, <1>14
  <2>2. /\ backlog \in [Servers -> Seq(Clients)] /\ accepted \in [Servers -> Seq(Clients)]
        /\ link \in [Clients -> [Servers -> {"closed", "open", "refused"}]]
    BY <1>0 DEF TypeOK
  <2> QED
    BY <1>0, <1>1, <1>15, <2>1, <2>2, Names, ExchangeType
<1>18. MemoryInv' /\ QueueInv' /\ LinkInv' /\ QPInv' /\ AlertInv'
  BY <1>0, <1>1, <1>2, <1>16, AnsweringKeeps
<1>19. Met(c, s, j)'
  <2>1. Flow(Client(c), s, Server(s), ToServer(store), cs, sg)'
    BY <1>1, <1>11, <1>14 DEF Flow, here
  <2>2. chan'[<<Server(s), Client(c)>>] = chan[<<Server(s), Client(c)>>]
    BY <1>10, Names DEF here
  <2>3. Flow(Server(s), j, Client(c), ToClient(store), ss, cg)'
    BY <1>1, <1>11, <1>13, <2>2 DEF Flow
  <2>4. ASSUME NEW u \in Places \cup Vias
        PROVE  held'[Server(s)][u][j] = Content(u, Client(c), s, ToServer(store), sg + 1)
    <3>1. held[Server(s)][u][j] = Content(u, Client(c), s, ToServer(store), sg)
      BY <1>13 DEF Taken
    <3>2. CASE u = w
      BY <1>12, <1>14, <1>15, <3>2, Collects
    <3>3. CASE u # w
      <4>1. held'[Server(s)][u][j] = held[Server(s)][u][j]
        BY <1>15, <3>3
      <4>2. Content(u, Client(c), s, ToServer(store), sg + 1) = Content(u, Client(c), s, ToServer(store), sg)
        BY <1>12, <3>3, Collects
      <4> QED
        BY <3>1, <4>1, <4>2
    <3> QED
      BY <3>2, <3>3
  <2>5. Taken(Server(s), j, Client(c), s, ToServer(store), sg)'
    BY <1>1, <1>11, <2>4 DEF Taken
  <2>6. Taken(Client(c), s, Server(s), j, ToClient(store), cg)'
    BY <1>1, <1>11, <1>13, <1>16 DEF Taken
  <2> QED
    BY <2>1, <2>3, <2>5, <2>6 DEF Met, cs, cg, ss, sg
<1>20. ExchangeInv'
  <2>1. \A d \in Clients, r \in Servers : d # c \/ r # s =>
          /\ chan'[<<Client(d), Server(r)>>] = chan[<<Client(d), Server(r)>>]
          /\ chan'[<<Server(r), Client(d)>>] = chan[<<Server(r), Client(d)>>]
    <3>1. \A d \in Clients, r \in Servers :
            <<Server(r), Client(d)>> # here /\ (d # c \/ r # s => <<Client(d), Server(r)>> # here)
      BY Names DEF here
    <3>2. \A d \in Clients : Client(d) \in Procs
      BY Names
    <3>3. \A r \in Servers : Server(r) \in Procs
      BY Names
    <3> QED
      BY ONLY <1>10, <3>1, <3>2, <3>3
  <2>2. ASSUME NEW r \in Servers, NEW l \in Clients, r # s \/ l # j, NEW u \in Places \cup Vias
        PROVE  held'[Server(r)][u][l] = held[Server(r)][u][l]
    <3>1. CASE r # s
      <4>1. Server(r) \in Procs /\ Server(r) # Server(s)
        BY <3>1, Names
      <4> QED
        BY <1>15, <4>1
    <3>2. CASE r = s
      BY <1>15, <2>2, <3>2
    <3> QED
      BY <3>1, <3>2
  <2>3. \A r \in Servers, l \in Clients : r # s \/ l # j =>
          \A u \in Places \cup Vias : held'[Server(r)][u][l] = held[Server(r)][u][l]
    BY <2>2
  <2>4. /\ TypeOK /\ QueueInv /\ ExchangeInv /\ s \in Servers /\ j \in Clients
        /\ k \in 1 .. ServeLen(store) /\ Answering(s, j, k) /\ Advance(Server(s))
        /\ UNCHANGED <<store, accepted, link>>
        /\ c \in Clients /\ j < Len(accepted[s]) /\ accepted[s][j + 1] = c
    BY <1>0, <1>1, <1>2, <1>5
  <2> QED
    BY ONLY <1>16, <1>19, <2>1, <2>3, <2>4, AnsweringExchange
<1> QED
  BY <1>17, <1>18, <1>20 DEF IInv

\* Nothing changes.
LEMMA Stutters ==
    ASSUME IInv, UNCHANGED vars
    PROVE  IInv'
<1>0. TypeOK /\ MemoryInv /\ QueueInv /\ LinkInv /\ ExchangeInv /\ QPInv /\ AlertInv
  BY DEF IInv
<1>1. UNCHANGED <<store, pos, dead, qp, areas, loaded, listening, backlog, accepted, link, chan, held,
                  recvs, heard, lost>>
  BY DEF vars, netVars
<1>2. TypeOK'
  BY <1>0, <1>1 DEF TypeOK
<1>3. MemoryInv'
  BY <1>0, <1>1 DEF MemoryInv, Served
<1>4. QueueInv'
  BY <1>0, <1>1 DEF QueueInv, Distinct, Served
<1>5. LinkInv'
  BY <1>0, <1>1 DEF LinkInv, Visited
<1>6. ExchangeInv'
  BY <1>0, <1>1 DEF ExchangeInv, Unmet, Met, Flow, Taken, Visited, Served
<1>7. QPInv'
  <2>1. \A d \in Clients, s \in Servers : Linked(d, s)' = Linked(d, s) /\ Served(s, d)' = Served(s, d)
    BY <1>1 DEF Linked, Served
  <2>2. \A d \in Clients, s \in Servers : Linked(d, s)' \in Int /\ Served(s, d)' \in Int
    BY <1>0, <2>1, Counts
  <2>3. \A d \in Clients, s \in Servers : \A t \in StoreVias(store) :
          Alike(Linked(d, s), Linked(d, s)', LinkReady(t)) /\ Alike(Served(s, d), Served(s, d)', ServeReady(store, t))
    BY <2>1 DEF Alike
  <2> QED
    BY <1>0, <1>1, <2>2, <2>3, KeepsQP
<1>8. AlertInv'
  BY <1>0, <1>1 DEF AlertInv
<1> QED
  BY <1>2, <1>3, <1>4, <1>5, <1>6, <1>7, <1>8 DEF IInv

\* Init implies IInv and every call of every process keeps it.
THEOREM Invariance == Spec => []IInv
<1>1. Init => IInv
  BY Initially
<1>2. IInv /\ [Next]_vars => IInv'
  <2> SUFFICES ASSUME IInv, [Next]_vars PROVE IInv'
    OBVIOUS
  <2>1. ASSUME NEW c \in Clients, RunClient(c)
        PROVE  IInv'
    <3>1. CASE InitCtx(Client(c))
      BY <3>1, ClientInitCtx
    <3>2. CASE Register(Client(c))
      BY <3>2, ClientRegister
    <3>3. CASE DoWrite(Client(c))
      BY <3>3, ClientWrites
    <3>4. CASE DoRead(Client(c))
      BY <3>4, ClientReads
    <3>5. CASE ReadyToReceive(Client(c)) \/ ReadyToSend(Client(c))
      BY <3>5, ClientConnects
    <3>6. CASE PostRecvs(Client(c)) \/ AwaitAlert(c)
      BY <3>6, ClientWaits
    <3>7. CASE Connect(c)
      BY <3>7, ClientComes
    <3>8. CASE Refused(c)
      BY <3>8, ClientIsRefused
    <3>9. CASE ReadRefused(c)
      BY <3>9, ClientSkips
    <3>10. CASE WriteRefused(c)
      BY <3>10, ClientKilled
    <3> QED
      BY <2>1, <3>1, <3>2, <3>3, <3>4, <3>5, <3>6, <3>7, <3>8, <3>9, <3>10 DEF RunClient, Either
  <2>2. ASSUME NEW s \in Servers, RunServer(s)
        PROVE  IInv'
    <3>1. CASE InitCtx(Server(s))
      BY <3>1, ServerInitCtx
    <3>2. CASE Register(Server(s))
      BY <3>2, ServerRegister
    <3>3. CASE DoWrite(Server(s))
      BY <3>3, ServerWrites
    <3>4. CASE DoRead(Server(s))
      BY <3>4, ServerReads
    <3>5. CASE ReadyToReceive(Server(s)) \/ ReadyToSend(Server(s))
      BY <3>5, ServerConnects
    <3>6. CASE PostRecvs(Server(s))
      BY <3>6, ServerPosts
    <3>7. CASE Load(s)
      BY <3>7, ServerLoad
    <3>8. CASE Listen(s) \/ CloseListen(s)
      BY <3>8, ServerListens
    <3>9. CASE Accept(s)
      BY <3>9, ServerAccepts
    <3>10. CASE Alert(s)
      BY <3>10, ServerAlerts
    <3> QED
      BY <2>2, <3>1, <3>2, <3>3, <3>4, <3>5, <3>6, <3>7, <3>8, <3>9, <3>10 DEF RunServer, Either
  <2>3. CASE UNCHANGED vars
    BY <2>3, Stutters
  <2> QED
    BY <2>1, <2>2, <2>3 DEF Next
<1> QED
  BY <1>1, <1>2, PTL DEF Spec

\* Every variable keeps its type; no process runs past the end of its script.
THEOREM TypeCorrect == Spec => []TypeOK
<1>1. IInv => TypeOK
  BY DEF IInv
<1> QED
  BY <1>1, Invariance, PTL

\* A client that is through with a server was served to the end.
LEMMA Completed ==
    ASSUME IInv, NEW c \in Clients, NEW s \in Servers, Visited(c, s) >= 6
    PROVE  \E j \in Clients :
             /\ j < Len(accepted[s]) /\ accepted[s][j + 1] = c /\ Met(c, s, j)
             /\ ClientGot(store, Visited(c, s)) = 3 /\ Served(s, j) >= ServeLen(store)
<1>0. TypeOK /\ MemoryInv /\ QueueInv /\ LinkInv /\ ExchangeInv /\ QPInv /\ AlertInv
  BY DEF IInv
<1>1. Visited(c, s) \in Int /\ store \in AllStores
  BY <1>0, Counts, Numbers
<1>2. link[c][s] # "refused"
  <2>1. link[c][s] = "refused" => Visited(c, s) = 0 \/ Visited(c, s) \in 1 .. 3
    BY <1>0 DEF LinkInv
  <2> QED
    BY <1>1, <2>1
<1>3. Visited(c, s) >= 2
  BY <1>1
<1>4. PICK j \in Clients : j < Len(accepted[s]) /\ accepted[s][j + 1] = c /\ Met(c, s, j)
  BY <1>0, <1>2, <1>3, Accepted
<1>5. Served(s, j) \in Int
  BY <1>0, Counts
<1>6. ClientGot(store, Visited(c, s)) = 3
  BY <1>1 DEF ClientGot, Past
<1>7. ServerSent(store, Served(s, j)) >= 3
  <2>1. Len(chan[<<Server(s), Client(c)>>])
          = ServerSent(store, Served(s, j)) - ClientGot(store, Visited(c, s))
    BY <1>4 DEF Met, Flow, Carries
  <2>2. chan[<<Server(s), Client(c)>>] \in Seq(Data)
    BY <1>0, Names DEF TypeOK
  <2>3. Len(chan[<<Server(s), Client(c)>>]) \in Nat
    BY <2>2
  <2>4. ServerSent(store, Served(s, j)) \in 0 .. 3
    BY <1>1, <1>5, Counters
  <2> QED
    BY <1>6, <2>1, <2>3, <2>4
<1>8. Served(s, j) >= ServeLen(store)
  BY <1>1, <1>5, <1>7 DEF ServerSent, Past, ServeLen
<1> QED
  BY <1>4, <1>6, <1>8

\* Where the loops of the client end.
LEMMA Beyond ==
    ASSUME TypeOK, NEW c \in Clients, NEW s \in Servers
    PROVE  /\ Linked(c, s) >= 0 => Visited(c, s) >= 6
           /\ Running(Client(c)) => /\ Linked(c, s) >= LinkLen(store) /\ Visited(c, s) >= 6
                                    /\ store = "Pilaf" => pos[Client(c)] >= 4 + 10 * NumServers
<1>1. /\ store \in AllStores /\ pos[Client(c)] \in Nat /\ s \in Nat /\ s < NumServers
      /\ NumServers \in Nat
  BY Numbers, Counts, Sizes DEF Servers
<1>2. Linked(c, s) >= 0 => Visited(c, s) >= 6
  BY <1>1 DEF Linked, Visited, LinkAt, VisitAt
<1>3. ASSUME Running(Client(c))
      PROVE  Linked(c, s) >= LinkLen(store) /\ (store = "Pilaf" => pos[Client(c)] >= 4 + 10 * NumServers)
  <2>1. pos[Client(c)] = LinkAt(store, NumServers) + Ends(store)
    BY <1>1, <1>3, ClientScript DEF Running
  <2> QED
    BY <1>1, <2>1 DEF Linked, LinkAt, LinkLen, Ends
<1>4. LinkLen(store) >= 0 /\ LinkLen(store) \in Nat /\ Linked(c, s) \in Int
  BY Counts DEF LinkLen
<1>5. Linked(c, s) >= LinkLen(store) => Linked(c, s) >= 0
  BY <1>4
<1> QED
  BY <1>2, <1>3, <1>5

\* No server is at a read() or write() of server_exch_dest with a client that
\* died during the set-up: a client dies only at a server whose connection was
\* refused, is through with those before it and unknown to those after it.
THEOREM NoExchangeWithDead == Spec => []DeadLeaveNoExchange
<1>1. IInv => DeadLeaveNoExchange
  <2> SUFFICES ASSUME IInv, NEW s \in Servers, At(Server(s), "read") \/ At(Server(s), "write"),
                      Peer(Server(s), Call(Server(s)).conn) \in dead
               PROVE  FALSE
    BY DEF DeadLeaveNoExchange
  <2>0. TypeOK /\ MemoryInv /\ QueueInv /\ LinkInv /\ ExchangeInv /\ QPInv /\ AlertInv
    BY DEF IInv
  <2>1. ~Running(Server(s)) /\ Call(Server(s)).call \in {"read", "write"}
    BY DEF At
  <2>2. PICK j \in Clients, k \in 1 .. ServeLen(store) : Answering(s, j, k)
    BY <2>0, <2>1, ServerServes
  <2>3. Call(Server(s)).conn = j /\ Served(s, j) = k - 1 /\ k # 1
    BY <2>1, <2>2 DEF Answering, ServeStep
  <2>4. PICK c \in Clients : /\ j < Len(accepted[s]) /\ accepted[s][j + 1] = c /\ Met(c, s, j)
                             /\ Peer(Server(s), j) = Client(c)
    BY <2>0, <2>2, <2>3, AnsweringWhom
  <2>5. PICK r \in Servers : link[c][r] = "refused"
    <3>1. Client(c) \in dead
      BY <2>3, <2>4
    <3> QED
      BY <2>0, <3>1 DEF LinkInv
  <2>6. Visited(c, r) \in 0 .. 3
    <3>1. Visited(c, r) = 0 \/ Visited(c, r) \in 1 .. 3
      BY <2>0, <2>5 DEF LinkInv
    <3> QED
      BY <3>1
  <2>7. link[c][s] = "open"
    <3>1. accepted[s] \in Seq(Clients)
      BY <2>0 DEF TypeOK
    <3>3. c \in ToSet(accepted[s])
      BY <2>4, <3>1, Inside
    <3> QED
      BY <2>0, <3>3 DEF QueueInv
  <2>8. Visited(c, s) >= 1 /\ r # s
    BY <2>0, <2>5, <2>7 DEF LinkInv
  <2>9. Visited(c, s) >= 6
    <3>1. pos[Client(c)] \in Nat /\ r \in Nat /\ s \in Nat
      BY <2>0, Counts DEF Servers
    <3> QED
      BY <2>6, <2>8, <3>1 DEF Visited, VisitAt
  <2>10. PICK l \in Clients : /\ l < Len(accepted[s]) /\ accepted[s][l + 1] = c
                              /\ Served(s, l) >= ServeLen(store)
    BY <2>9, Completed
  <2>11. l = j
    BY <2>0, <2>4, <2>10, AcceptedOnce
  <2>12. ServeLen(store) \in Nat /\ k <= ServeLen(store)
    BY DEF ServeLen
  <2> QED
    BY <2>3, <2>10, <2>11, <2>12
<1> QED
  BY <1>1, Invariance, PTL

\* A client of HydraDB that is in run_client was served by every server, and
\* these had filled their tables in setup_buffers, before they listened.
THEOREM TableIsLoaded == Spec => []RunsOnLoadedTable
<1>1. IInv => RunsOnLoadedTable
  <2> SUFFICES ASSUME IInv, store = "HydraDB", NEW c \in Clients, Running(Client(c)), NEW s \in Servers
               PROVE  s \in loaded
    BY DEF RunsOnLoadedTable
  <2>0. TypeOK /\ MemoryInv
    BY DEF IInv
  <2>1. Visited(c, s) >= 6
    BY <2>0, Beyond
  <2>2. PICK j \in Clients : Served(s, j) >= ServeLen(store)
    BY <2>1, Completed
  <2>3. pos[Server(s)] >= 3
    <3>1. pos[Server(s)] \in Nat /\ j \in Nat
      BY <2>0, Counts DEF Clients
    <3> QED
      BY <2>2, <3>1 DEF Served, ServeAt, ServeLen
  <2> QED
    BY <2>0, <2>3 DEF MemoryInv
<1> QED
  BY <1>1, Invariance, PTL

\* What a client's queue pair holds that is ready to send.
LEMMA ReadyPair ==
    ASSUME IInv, NEW c \in Clients, NEW s \in Servers, NEW t \in Vias,
           qp[<<Client(c), s, t>>].state = "rts"
    PROVE  /\ t \in StoreVias(store)
           /\ \E j \in Clients :
                /\ j < Len(accepted[s]) /\ accepted[s][j + 1] = c
                /\ qp[<<Client(c), s, t>>].dest = <<Server(s), j, t>>
                /\ qp[<<Server(s), j, t>>] = [state |-> "rts", dest |-> <<Client(c), s, t>>]
<1>0. TypeOK /\ MemoryInv /\ QueueInv /\ LinkInv /\ ExchangeInv /\ QPInv /\ AlertInv
  BY DEF IInv
<1>1. store \in AllStores /\ Linked(c, s) \in Int /\ \A j \in Clients : Served(s, j) \in Int
  BY <1>0, Numbers, Counts
<1>2. t \in StoreVias(store)
  BY <1>0 DEF QPInv
<1>3. /\ Connected(<<Client(c), s, t>>, Linked(c, s), LinkReady(t), held[Client(c)][t][s])
      /\ \A j \in Clients : Connected(<<Server(s), j, t>>, Served(s, j), ServeReady(store, t),
                                      <<Client(accepted[s][j + 1]), s, t>>)
  BY <1>0, <1>2 DEF QPInv
<1>4. LinkReady(t) \in 2 .. 4 /\ ServeReady(store, t) \in Nat /\ ServeReady(store, t) <= ServeLen(store)
      /\ ServeLen(store) \in Nat
  BY <1>1, <1>2 DEF LinkReady, ServeReady, ServeLen, StoreVias
<1>5. Linked(c, s) >= LinkReady(t) /\ qp[<<Client(c), s, t>>].dest = held[Client(c)][t][s]
  <2>1. ~(Linked(c, s) < LinkReady(t) - 1)
    BY <1>3 DEF Connected
  <2>2. Linked(c, s) # LinkReady(t) - 1
    BY <1>3 DEF Connected
  <2>3. Linked(c, s) >= LinkReady(t)
    BY <1>1, <1>4, <2>1, <2>2
  <2> QED
    BY <1>3, <2>3 DEF Connected
<1>6. Visited(c, s) >= 6
  <2>1. Linked(c, s) >= 0
    BY <1>1, <1>4, <1>5
  <2> QED
    BY <1>0, <2>1, Beyond
<1>7. PICK j \in Clients :
        /\ j < Len(accepted[s]) /\ accepted[s][j + 1] = c /\ Met(c, s, j)
        /\ ClientGot(store, Visited(c, s)) = 3 /\ Served(s, j) >= ServeLen(store)
  BY <1>6, Completed
<1>8. held[Client(c)][t][s] = <<Server(s), j, t>>
  <2>1. Taken(Client(c), s, Server(s), j, ToClient(store), 3)
    BY <1>7 DEF Met
  <2>2. held[Client(c)][t][s] = Content(t, Server(s), j, ToClient(store), 3)
    BY <2>1 DEF Taken
  <2>3. \E k \in 1 .. 3 : ToClient(store)[k] = t
    <3>1. CASE store = "Pilaf"
      <4>1. ToClient(store)[2] = "rc" /\ ToClient(store)[3] = "uc"
        BY <3>1 DEF ToClient
      <4> QED
        BY <4>1 DEF Vias
    <3>2. CASE store # "Pilaf"
      <4>1. ToClient(store)[3] = "rc" /\ t = "rc"
        BY <1>2, <3>2 DEF ToClient, StoreVias
      <4> QED
        BY <4>1
    <3> QED
      BY <3>1, <3>2
  <2> QED
    BY <2>2, <2>3 DEF Content, Datum
<1>9. qp[<<Server(s), j, t>>] = [state |-> "rts", dest |-> <<Client(c), s, t>>]
  <2>0. Served(s, j) \in Int /\ Served(s, j) >= ServeLen(store)
    BY <1>1, <1>7
  <2>1. Served(s, j) >= ServeReady(store, t)
    BY <1>4, <2>0
  <2> QED
    BY <1>3, <1>7, <2>1 DEF Connected
<1> QED
  BY <1>2, <1>5, <1>7, <1>8, <1>9

\* A client's queue pair that is ready to send leads to one that is ready as
\* well and leads back; a client that makes requests has all of them
\* connected and, in Pilaf, RECVs at the other end.
THEOREM PeersAreReady == Spec => []PeerIsReady
<1>1. IInv => PeerIsReady
  <2> SUFFICES ASSUME IInv, NEW c \in Clients, NEW q \in {Client(c)} \X Servers \X Vias
               PROVE  /\ qp[q].state = "rts" =>
                          /\ qp[qp[q].dest] = [state |-> "rts", dest |-> q]
                          /\ Running(Client(c)) /\ q[2] = ServerOf(c) /\ q[3] = "uc" =>
                               qp[q].dest \in recvs
                      /\ Running(Client(c)) /\ qp[q].state # "none" => qp[q].state = "rts"
    BY DEF PeerIsReady
  <2>0. TypeOK /\ MemoryInv /\ QueueInv /\ LinkInv /\ ExchangeInv /\ QPInv /\ AlertInv
    BY DEF IInv
  <2>1. PICK s \in Servers, t \in Vias : q = <<Client(c), s, t>>
    OBVIOUS
  <2>2. q[2] = s /\ q[3] = t
    BY <2>1
  <2>3. ASSUME qp[q].state = "rts"
        PROVE  /\ qp[qp[q].dest] = [state |-> "rts", dest |-> q]
               /\ Running(Client(c)) /\ q[2] = ServerOf(c) /\ q[3] = "uc" => qp[q].dest \in recvs
    <3>0. IInv /\ c \in Clients /\ s \in Servers /\ t \in Vias /\ qp[<<Client(c), s, t>>].state = "rts"
      BY <2>1, <2>3
    <3>1. t \in StoreVias(store)
      BY ONLY <3>0, ReadyPair, Zenon
    <3>2. PICK j \in Clients :
            /\ j < Len(accepted[s]) /\ accepted[s][j + 1] = c
            /\ qp[<<Client(c), s, t>>].dest = <<Server(s), j, t>>
            /\ qp[<<Server(s), j, t>>] = [state |-> "rts", dest |-> <<Client(c), s, t>>]
      BY ONLY <3>0, ReadyPair, Zenon
    <3>3. ASSUME Running(Client(c)), s = ServerOf(c), t = "uc"
          PROVE  <<Server(s), j, t>> \in recvs
      <4>1. store = "Pilaf"
        BY <3>1, <3>3 DEF StoreVias
      <4>2. pos[Client(c)] >= 4 + 10 * NumServers
        BY <2>0, <3>3, <4>1, Beyond
      <4>3. <<Client(c), s, "uc">> \in heard
        BY <2>0, <3>3, <4>1, <4>2 DEF AlertInv
      <4>4. PICK l \in Clients : /\ l < Len(accepted[s]) /\ accepted[s][l + 1] = c
                                 /\ <<Server(s), l, "uc">> \in recvs
        BY <2>0, <4>3 DEF AlertInv
      <4>5. l = j
        BY <2>0, <3>2, <4>4, AcceptedOnce
      <4> QED
        BY <3>3, <4>4, <4>5
    <3> QED
      BY <2>1, <2>2, <3>2, <3>3
  <2>4. ASSUME Running(Client(c)), qp[q].state # "none"
        PROVE  qp[q].state = "rts"
    <3>1. t \in StoreVias(store)
      BY <2>0, <2>1, <2>4 DEF QPInv
    <3>2. Connected(<<Client(c), s, t>>, Linked(c, s), LinkReady(t), held[Client(c)][t][s])
      BY <2>0, <3>1 DEF QPInv
    <3>3. Linked(c, s) >= LinkLen(store) /\ Linked(c, s) \in Int
      BY <2>0, <2>4, Beyond, Counts
    <3>4. LinkLen(store) \in Nat /\ LinkReady(t) \in Nat /\ LinkReady(t) <= LinkLen(store)
      BY <3>1 DEF LinkLen, LinkReady, StoreVias
    <3>5. Linked(c, s) >= LinkReady(t)
      BY <3>3, <3>4
    <3> QED
      BY <2>1, <3>2, <3>5 DEF Connected
  <2> QED
    BY <2>3, <2>4
<1> QED
  BY <1>1, Invariance, PTL

\* What a process holds under a name is what its peer on that connection keeps
\* under that name, in memory that is registered.
LEMMA ClientHolds ==
    ASSUME IInv, NEW c \in Clients, NEW s \in Servers, NEW w \in Places \cup Vias,
           held[Client(c)][w][s] # None
    PROVE  \E j \in Clients :
             /\ accepted[s][j + 1] = c /\ held[Client(c)][w][s] = Datum(Server(s), j, w)
             /\ w \notin Vias => <<Server(s), w>> \in areas
<1>0. TypeOK /\ MemoryInv /\ QueueInv /\ LinkInv /\ ExchangeInv /\ QPInv /\ AlertInv
  BY DEF IInv
<1>1. c \in ToSet(accepted[s])
  BY <1>0 DEF ExchangeInv, Unmet
<1>2. PICK j \in Clients : j < Len(accepted[s]) /\ accepted[s][j + 1] = c /\ Met(c, s, j)
  <2>1. accepted[s] \in Seq(Clients) /\ Len(accepted[s]) <= NumClients
    BY <1>0 DEF TypeOK, QueueInv
  <2>2. PICK x \in 1 .. Len(accepted[s]) : accepted[s][x] = c
    BY <1>1, <2>1 DEF ToSet
  <2>3. Len(accepted[s]) \in Nat
    BY <2>1
  <2>4. x - 1 \in Clients /\ x - 1 < Len(accepted[s]) /\ (x - 1) + 1 = x
    BY <2>1, <2>2, <2>3, Sizes DEF Clients
  <2>5. accepted[s][(x - 1) + 1] = c
    BY <2>2, <2>4
  <2>6. Met(c, s, x - 1)
    BY <1>0, <2>4, <2>5 DEF ExchangeInv
  <2> QED
    BY <2>4, <2>5, <2>6
<1>3. /\ store \in AllStores /\ Visited(c, s) \in Int /\ Served(s, j) \in Int
      /\ pos[Server(s)] \in Nat /\ j \in Nat
  BY <1>0, Numbers, Counts DEF Clients
<1>4. PICK got \in 0 .. 3 : got = ClientGot(store, Visited(c, s))
  BY <1>3, Counters
<1>5. held[Client(c)][w][s] = Content(w, Server(s), j, ToClient(store), got)
  BY <1>2, <1>4 DEF Met, Taken
<1>6. PICK k \in 1 .. got : ToClient(store)[k] = w
  BY <1>5 DEF Content
<1>7. held[Client(c)][w][s] = Datum(Server(s), j, w)
  BY <1>5, <1>6 DEF Content
<1>8. ASSUME w \notin Vias
      PROVE  <<Server(s), w>> \in areas
  <2>1. k \in 1 .. 3
    BY <1>4, <1>6
  <2>2. w = "req" \/ (w = "hash" /\ store # "Pilaf")
    <3>1. CASE store = "Pilaf"
      <4>1. ToClient(store)[1] = "req" /\ ToClient(store)[2] = "rc" /\ ToClient(store)[3] = "uc"
        BY <3>1 DEF ToClient
      <4> QED
        BY <1>6, <1>8, <2>1, <4>1 DEF Vias
    <3>2. CASE store # "Pilaf"
      <4>1. ToClient(store)[1] = "req" /\ ToClient(store)[2] = "hash" /\ ToClient(store)[3] = "rc"
        BY <3>2 DEF ToClient
      <4> QED
        BY <1>6, <1>8, <2>1, <3>2, <4>1 DEF Vias
    <3> QED
      BY <3>1, <3>2
  <2>3. Served(s, j) >= 1
    BY <1>0, <1>2 DEF QueueInv
  <2>4. pos[Server(s)] >= 2 /\ Served(s, 0) >= -1
    BY <1>3, <2>3 DEF Served, ServeAt
  <2> QED
    BY <1>0, <2>2, <2>4 DEF MemoryInv
<1> QED
  BY <1>2, <1>7, <1>8

\* The same for what a server holds.
LEMMA ServerHolds ==
    ASSUME IInv, NEW s \in Servers, NEW j \in Clients, NEW w \in Places \cup Vias,
           held[Server(s)][w][j] # None
    PROVE  /\ accepted[s][j + 1] \in Clients
           /\ held[Server(s)][w][j] = Datum(Client(accepted[s][j + 1]), s, w)
           /\ w \notin Vias => <<Client(accepted[s][j + 1]), w>> \in areas
<1>0. TypeOK /\ MemoryInv /\ QueueInv /\ LinkInv /\ ExchangeInv /\ QPInv /\ AlertInv
  BY DEF IInv
<1>1. j < Len(accepted[s])
  BY <1>0 DEF ExchangeInv
<1>2. accepted[s] \in Seq(Clients) /\ j \in Nat
  BY <1>0 DEF TypeOK, Clients
<1>3. j + 1 \in 1 .. Len(accepted[s])
  BY <1>1, <1>2
<1>4. PICK c \in Clients : accepted[s][j + 1] = c
  BY <1>2, <1>3
<1>5. Met(c, s, j)
  BY <1>0, <1>1, <1>4 DEF ExchangeInv
<1>6. store \in AllStores /\ Served(s, j) \in Int /\ Visited(c, s) \in Int /\ pos[Client(c)] \in Nat
      /\ s \in Nat
  BY <1>0, Numbers, Counts DEF Servers
<1>7. PICK got \in 0 .. 2 : got = ServerGot(store, Served(s, j))
  BY <1>6, Counters
<1>8. held[Server(s)][w][j] = Content(w, Client(c), s, ToServer(store), got)
  BY <1>5, <1>7 DEF Met, Taken
<1>9. PICK k \in 1 .. got : ToServer(store)[k] = w
  BY <1>8 DEF Content
<1>10. held[Server(s)][w][j] = Datum(Client(c), s, w)
  BY <1>8, <1>9 DEF Content
<1>11. ASSUME w \notin Vias
       PROVE  <<Client(c), w>> \in areas
  <2>1. k \in 1 .. 2
    BY <1>7, <1>9
  <2>2. w = "resp"
    <3>1. CASE store = "Pilaf"
      <4>1. ToServer(store)[1] = "rc" /\ ToServer(store)[2] = "uc"
        BY <3>1 DEF ToServer
      <4> QED
        BY <1>9, <1>11, <2>1, <4>1 DEF Vias
    <3>2. CASE store # "Pilaf"
      <4>1. ToServer(store)[1] = "resp" /\ ToServer(store)[2] = "rc"
        BY <3>2 DEF ToServer
      <4> QED
        BY <1>9, <1>11, <2>1, <4>1 DEF Vias
    <3> QED
      BY <3>1, <3>2
  <2>3. Visited(c, s) >= 1
    <3>1. c \in ToSet(accepted[s])
      BY <1>2, <1>3, <1>4 DEF ToSet
    <3>2. link[c][s] = "open"
      BY <1>0, <3>1 DEF QueueInv
    <3> QED
      BY <1>0, <3>2 DEF LinkInv
  <2>4. pos[Client(c)] >= 2
    BY <1>6, <2>3 DEF Visited, VisitAt
  <2> QED
    BY <1>0, <2>2, <2>4 DEF MemoryInv
<1> QED
  BY <1>4, <1>10, <1>11

\* What a process holds under a name is what its peer on that connection keeps
\* under that name, in memory that is registered: no read of client_exch_dest
\* or server_exch_dest takes one message for another.
THEOREM HeldAsMeant == Spec => []HeldIsMeant
<1>1. IInv => HeldIsMeant
  <2> SUFFICES ASSUME IInv, NEW p \in Procs, NEW w \in Places \cup Vias, NEW i \in Conns(p),
                      held[p][w][i] # None
               PROVE  /\ {j \in Conns(Peer(p, i)) : held[p][w][i] = Datum(Peer(p, i), j, w)} # {}
                      /\ w \in Vias =>
                           \E j \in {j \in Conns(Peer(p, i)) : held[p][w][i] = Datum(Peer(p, i), j, w)} :
                             \/ Peer(p, i) \in ClientProcs /\ Server(j) = p
                             \/ /\ Peer(p, i) \in ServerProcs
                                /\ Client(accepted[Peer(p, i)[2]][j + 1]) = p
                      /\ w \notin Vias => <<Peer(p, i), w>> \in areas
    BY DEF HeldIsMeant
  <2>1. ASSUME NEW c \in Clients, p = Client(c)
        PROVE  \E j \in Conns(Peer(p, i)) :
                 /\ held[p][w][i] = Datum(Peer(p, i), j, w)
                 /\ Peer(p, i) \in ServerProcs /\ Client(accepted[Peer(p, i)[2]][j + 1]) = p
                 /\ w \notin Vias => <<Peer(p, i), w>> \in areas
    <3>1. i \in Servers /\ Peer(p, i) = Server(i)
      BY <2>1, Names DEF Peer
    <3>2. Conns(Server(i)) = Clients /\ Server(i) \in ServerProcs /\ Server(i)[2] = i
      BY <3>1, Names
    <3>3. PICK j \in Clients :
            /\ accepted[i][j + 1] = c /\ held[Client(c)][w][i] = Datum(Server(i), j, w)
            /\ w \notin Vias => <<Server(i), w>> \in areas
      BY <2>1, <3>1, ClientHolds
    <3> QED
      BY <2>1, <3>1, <3>2, <3>3
  <2>2. ASSUME NEW s \in Servers, p = Server(s)
        PROVE  \E j \in Conns(Peer(p, i)) :
                 /\ held[p][w][i] = Datum(Peer(p, i), j, w)
                 /\ Peer(p, i) \in ClientProcs /\ Server(j) = p
                 /\ w \notin Vias => <<Peer(p, i), w>> \in areas
    <3>1. i \in Clients /\ Peer(p, i) = Client(accepted[s][i + 1])
      BY <2>2, Names DEF Peer
    <3>2. /\ accepted[s][i + 1] \in Clients
          /\ held[Server(s)][w][i] = Datum(Client(accepted[s][i + 1]), s, w)
          /\ w \notin Vias => <<Client(accepted[s][i + 1]), w>> \in areas
      BY <2>2, <3>1, ServerHolds
    <3>3. Conns(Peer(p, i)) = Servers /\ Peer(p, i) \in ClientProcs
      BY <3>1, <3>2, Names
    <3> QED
      BY <2>2, <3>1, <3>2, <3>3
  <2>3. (\E c \in Clients : p = Client(c)) \/ (\E s \in Servers : p = Server(s))
    BY Names
  <2> QED
    BY <2>1, <2>2, <2>3
<1> QED
  BY <1>1, Invariance, PTL
=============================================================================
