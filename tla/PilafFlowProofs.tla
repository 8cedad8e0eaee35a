--------------------------- MODULE PilafFlowProofs ---------------------------
(***************************************************************************)
(* Theorems about PilafFlow, for any number of clients, any depths of the  *)
(* queues and however many messages are lost. The counts that run_client   *)
(* and run_server keep by hand are related to what the queues and the      *)
(* network hold: each completion that a side will poll for is owed exactly *)
(* once, each RECV that it counts is posted or used, and of each client    *)
(* there is at most one request or answer anywhere.                        *)
(***************************************************************************)
EXTENDS PilafFlow, SequenceTheorems, TLAPS

\* The client has not yet heard the alert.
Waiting(c) == cpc[c] \in {"recvs", "alert"}

\* Where the server works on the requests that it has polled.
Batch == {"refill", "serve", "sendpoll", "reply"}

\* The completions that side q was promised for connection c, here or to come.
Promised(q, c) == due[q][c] + cq[q][c]

\* The requests of c that are not yet answered, and the answers (or the alert)
\* that c has not yet taken.
Taken(c) == IF cn = c /\ spc \in Batch THEN left ELSE 0
Owed(c) == Len(up[c]) + arrived["server"][c] + Taken(c)
Answers(c) == down[c] + arrived["client"][c]

\* Every other work request is signalled: n were posted, and the completion
\* was last polled for when there were old of them.
Balanced(n, old, promised) ==
    IF Even(n) /\ old = n THEN promised = 0 ELSE promised = 1 /\ old < n

\* No completion has to be polled for before the next one is asked for.
Ready(n, old) == Even(n) => old = n

PollInv(c) ==
    /\ Balanced(num_reads[c], old_num_reads[c], Promised("read", c))
    /\ cpc[c] \in {"sends", "complete", "issue"} => Ready(num_reads[c], old_num_reads[c])
    /\ Balanced(num_sends[c], old_num_sends[c], Promised("client", c))
    /\ cpc[c] \in {"complete", "issue"} => Ready(num_sends[c], old_num_sends[c])
    /\ Promised("server", c) =
        IF tot_sends[c] = 0 \/ (cn = c /\ spc = "reply" /\ Even(tot_sends[c])) THEN 0 ELSE 1

\* A count of RECVs is what is posted and what messages have used of it.
RecvInv(c) ==
    /\ posted["server"][c] + arrived["server"][c] = tot_recvs[c]
    /\ tot_recvs[c] >= SDepth \/ (spc = "recvs" /\ c >= cn) \/ (spc = "refill" /\ cn = c)
    /\ cpc[c] = "recvs" => posted["client"][c] = 0 /\ arrived["client"][c] = 0
    /\ cpc[c] = "alert" => posted["client"][c] + arrived["client"][c] = QDepth
    /\ ~Waiting(c) =>
        /\ posted["client"][c] + arrived["client"][c] = num_recvs[c]
        /\ num_recvs[c] >= SDepth - 1
        /\ cpc[c] \in {"reads", "sends", "complete"} => num_recvs[c] >= SDepth

\* A client has one request out at most, which is in one place only; the alert
\* takes its place before the first one.
CallInv(c) ==
    /\ up[c] = <<>> \/ up[c] = << <<c, num_sends[c]>> >>
    /\ Waiting(c) => num_sends[c] = 0 /\ ws_phase[c] = "none" /\ Owed(c) = 0
    /\ tot_sends[c] = 0 => Waiting(c) /\ Answers(c) = 0
    /\ Owed(c) + Answers(c) <= IF Waiting(c) \/ ws_phase[c] = "SEND_1" THEN 1 ELSE 0
    /\ num_sends[c] = done[c] + (IF ws_phase[c] = "SEND_1" THEN 1 ELSE 0)
    /\ tot_sends[c] # 0 => done[c] < tot_sends[c] /\ tot_sends[c] - 1 + Owed(c) <= num_sends[c]
    /\ ~Waiting(c) /\ Answers(c) > 0 => tot_sends[c] - 1 = num_sends[c]

\* The key of an uncrossed request, on its way from the request area to the table.
PlacedInv(c) ==
    ~crossed[c] =>
        /\ \A n \in 1 .. done[c] : <<c, n>> \in placed
        /\ Unserved(c) > 0 => request_area = <<c, num_sends[c]>>
        /\ cn = c /\ spc \in {"sendpoll", "reply"} => key = <<c, num_sends[c]>>
        /\ ~Waiting(c) /\ Answers(c) > 0 => <<c, num_sends[c]>> \in placed

\* How far the server has come with its RECVs and its alerts.
ServerInv ==
    /\ \A c \in Clients :
        /\ spc = "recvs" => tot_sends[c] = 0 /\ (c >= cn => tot_recvs[c] = 0)
        /\ spc = "alert" => (c >= cn <=> tot_sends[c] = 0)
        /\ spc \notin {"recvs", "alert"} => tot_sends[c] # 0
    /\ spc \in Batch => left >= 1 /\ request_area # NoKey
    /\ spc = "sendpoll" => Even(tot_sends[cn])
    /\ spc \in {"sendpoll", "reply"} => key # NoKey
    /\ (\E c \in Clients : arrived["server"][c] > 0) => request_area # NoKey

ConnInv(c) == PollInv(c) /\ RecvInv(c) /\ CallInv(c) /\ PlacedInv(c)

IInv == TypeOK /\ ServerInv /\ \A c \in Clients : ConnInv(c)
-----------------------------------------------------------------------------
USE ClientsAssumption, DepthAssumption, BoundAssumption

\* The queues hold numbers of things.
LEMMA Counts ==
    ASSUME TypeOK
    PROVE  /\ posted \in [Ends -> [Clients -> Nat]] /\ arrived \in [Ends -> [Clients -> Nat]]
           /\ due \in [Signalled -> [Clients -> Nat]] /\ cq \in [Signalled -> [Clients -> Nat]]
           /\ "client" \in Ends /\ "server" \in Ends
           /\ "client" \in Signalled /\ "server" \in Signalled /\ "read" \in Signalled
           /\ \A e \in Ends, c \in Clients : posted[e][c] \in Nat /\ arrived[e][c] \in Nat
           /\ \A q \in Signalled, c \in Clients :
                due[q][c] \in Nat /\ cq[q][c] \in Nat /\ Promised(q, c) \in Nat
           /\ \A c \in Clients :
                /\ num_sends[c] \in Nat /\ old_num_sends[c] \in Nat /\ tot_sends[c] \in Nat
                /\ num_reads[c] \in Nat /\ old_num_reads[c] \in Nat /\ done[c] \in Nat
                /\ down[c] \in Nat /\ up[c] \in Seq(Keys) /\ num_recvs[c] \in 0 .. QDepth
                /\ tot_recvs[c] \in 0 .. QDepth
<1>1. /\ posted \in [Ends -> [Clients -> Nat]] /\ arrived \in [Ends -> [Clients -> Nat]]
      /\ due \in [Signalled -> [Clients -> Nat]] /\ cq \in [Signalled -> [Clients -> Nat]]
      /\ "client" \in Ends /\ "server" \in Ends
      /\ "client" \in Signalled /\ "server" \in Signalled /\ "read" \in Signalled
  BY DEF TypeOK, Ends, Signalled
<1>2. ASSUME NEW e \in Ends, NEW c \in Clients
      PROVE  posted[e][c] \in Nat /\ arrived[e][c] \in Nat
  BY <1>1
<1>3. ASSUME NEW q \in Signalled, NEW c \in Clients
      PROVE  due[q][c] \in Nat /\ cq[q][c] \in Nat /\ Promised(q, c) \in Nat
  <2>1. due[q][c] \in Nat /\ cq[q][c] \in Nat
    BY <1>1
  <2> QED
    BY <2>1 DEF Promised
<1>4. ASSUME NEW c \in Clients
      PROVE  /\ num_sends[c] \in Nat /\ old_num_sends[c] \in Nat /\ tot_sends[c] \in Nat
             /\ num_reads[c] \in Nat /\ old_num_reads[c] \in Nat /\ done[c] \in Nat
             /\ down[c] \in Nat /\ up[c] \in Seq(Keys) /\ num_recvs[c] \in 0 .. QDepth
             /\ tot_recvs[c] \in 0 .. QDepth
  BY DEF TypeOK
<1> QED
  BY <1>1, <1>2, <1>3, <1>4

\* A queue of one message.
LEMMA OneMessage ==
    ASSUME NEW S, NEW m \in S
    PROVE  /\ Append(<<>>, m) = <<m>> /\ Tail(<<m>>) = <<>> /\ Head(<<m>>) = m
           /\ <<m>> # <<>> /\ Len(<<m>>) = 1 /\ Len(<<>>) = 0
  OBVIOUS

\* A sum of nothing, and one more.
LEMMA Sums ==
    /\ \A i, j, k \in Nat : i + j + k = 0 => i = 0 /\ j = 0 /\ k = 0
    /\ \A i, j \in Nat : i + j <= 0 => i = 0 /\ j = 0
    /\ \A n \in Nat : n + 1 \in Nat
    /\ \A n \in Nat : \A i \in 1 .. n + 1 : i \in 1 .. n \/ i = n + 1
  OBVIOUS

\* Every other number is even.
LEMMA Parity == \A n \in Nat : Even(n + 1) <=> ~Even(n)
  BY DEF Even

\* One more of a count that is polled for whenever it is even.
LEMMA Posts ==
    ASSUME NEW n \in Nat, NEW old \in Nat, NEW promised \in Nat,
           Balanced(n, old, promised), Ready(n, old)
    PROVE  Balanced(n + 1, old, IF Even(n) THEN promised + 1 ELSE promised)
<1>1. Even(n + 1) <=> ~Even(n)
  BY Parity
<1> QED
  BY <1>1 DEF Balanced, Ready

\* A wait for a completion: it is owed if it is waited for, and afterwards the
\* next work request may be posted.
LEMMA Polls ==
    ASSUME NEW n \in Nat, NEW old \in Nat, NEW promised \in Nat, Balanced(n, old, promised)
    PROVE  /\ MustPoll(n, old) => promised = 1 /\ Balanced(n, n, 0)
           /\ ~MustPoll(n, old) => Ready(n, old)
           /\ Ready(n, n) /\ promised <= 1
  BY DEF Balanced, Ready, MustPoll, Even

\* All that the invariant of connection d speaks of, but for what the
\* connections share.
At(d) ==
    <<cpc[d], ws_phase[d], num_recvs[d], num_sends[d], old_num_sends[d], num_reads[d],
      old_num_reads[d], done[d], tot_recvs[d], tot_sends[d],
      posted["client"][d], posted["server"][d], arrived["client"][d], arrived["server"][d],
      Promised("client", d), Promised("server", d), Promised("read", d),
      up[d], down[d], crossed[d]>>

Shared == <<spc, cn, left, key, request_area, placed>>

\* A connection is not disturbed by what happens on another one.
LEMMA Elsewhere ==
    ASSUME NEW d \in Clients, ConnInv(d), UNCHANGED At(d), UNCHANGED Shared
    PROVE  ConnInv(d)'
<1> USE DEF At, Shared
<1>1. PollInv(d)'
  BY DEF ConnInv, PollInv
<1>2. RecvInv(d)'
  BY DEF ConnInv, RecvInv, Waiting
<1>3. Owed(d)' = Owed(d) /\ Answers(d)' = Answers(d) /\ Unserved(d)' = Unserved(d)
  BY DEF Owed, Answers, Unserved, Taken
<1>4. CallInv(d)' /\ PlacedInv(d)'
  BY <1>3 DEF ConnInv, CallInv, PlacedInv, Waiting
<1> QED
  BY <1>1, <1>2, <1>4 DEF ConnInv

\* A step of one client, or of the network on its connection.
LEMMA OnOneConnection ==
    ASSUME IInv, NEW c \in Clients, TypeOK', ConnInv(c)', UNCHANGED Shared,
           \A d \in Clients \ {c} : UNCHANGED At(d),
           UNCHANGED <<tot_sends, tot_recvs>>, arrived'["server"] = arrived["server"]
    PROVE  IInv'
<1>1. \A d \in Clients : ConnInv(d)'
  BY Elsewhere DEF IInv
<1>2. ServerInv'
  BY DEF IInv, ServerInv, Shared
<1> QED
  BY <1>1, <1>2 DEF IInv

\* The numbers that the invariant of a connection speaks of.
LEMMA Numbers ==
    ASSUME IInv, NEW c \in Clients
    PROVE  /\ Len(up[c]) \in Nat /\ Taken(c) \in Nat /\ Owed(c) \in Nat /\ Answers(c) \in Nat
           /\ Unserved(c) \in Nat /\ Unserved(c) + Len(up[c]) <= Owed(c)
           /\ Waiting(c) \in BOOLEAN
           /\ left \in 0 .. QDepth /\ (cn = c /\ spc \in Batch => Taken(c) >= 1)
<1>1. TypeOK
  BY DEF IInv
<1>2. /\ Len(up[c]) \in Nat /\ arrived["server"][c] \in Nat /\ arrived["client"][c] \in Nat
      /\ down[c] \in Nat
  BY <1>1, Counts
<1>3. left \in 0 .. QDepth /\ (spc \in Batch => left >= 1)
  BY <1>1 DEF TypeOK, IInv, ServerInv
<1>4. Taken(c) \in Nat
  BY <1>3 DEF Taken
<1>5. Owed(c) \in Nat
  BY <1>2, <1>4 DEF Owed
<1>6. Answers(c) \in Nat
  BY <1>2 DEF Answers
<1>7. Unserved(c) \in Nat /\ Unserved(c) + Len(up[c]) <= Owed(c)
  BY <1>2, <1>3 DEF Unserved, Owed, Taken, Batch
<1>8. cn = c /\ spc \in Batch => Taken(c) >= 1
  BY <1>3 DEF Taken
<1> QED
  BY <1>2, <1>3, <1>4, <1>5, <1>6, <1>7, <1>8 DEF Waiting

LEMMA InitEstablishes == Init => IInv
<1> SUFFICES ASSUME Init PROVE IInv
  OBVIOUS
<1> USE DEF Init
<1>0. 0 \in Clients
  BY DEF Clients
<1>1. TypeOK
  BY <1>0 DEF TypeOK
<1>2. ServerInv
  BY <1>0 DEF ServerInv, Batch, Ends
<1>3. ASSUME NEW c \in Clients PROVE ConnInv(c)
  <2>1. Promised("read", c) = 0 /\ Promised("client", c) = 0 /\ Promised("server", c) = 0
    BY DEF Promised, Signalled
  <2>2. Even(0)
    BY DEF Even
  <2>3. PollInv(c)
    BY <2>1, <2>2 DEF PollInv, Balanced
  <2>4. c >= 0 /\ posted["server"][c] = 0 /\ posted["client"][c] = 0
        /\ arrived["server"][c] = 0 /\ arrived["client"][c] = 0
    BY DEF Ends, Clients
  <2>5. RecvInv(c)
    BY <2>4 DEF RecvInv, Waiting
  <2>6. Owed(c) = 0 /\ Answers(c) = 0 /\ Unserved(c) = 0
    BY <2>4 DEF Owed, Answers, Unserved, Taken, Batch
  <2>7. CallInv(c) /\ PlacedInv(c)
    BY <2>6 DEF CallInv, PlacedInv, Waiting
  <2> QED
    BY <2>3, <2>5, <2>7 DEF ConnInv
<1> QED
  BY <1>1, <1>2, <1>3 DEF IInv
-----------------------------------------------------------------------------
(* The client *)

LEMMA ClientPostRecvsKeeps ==
    ASSUME IInv, NEW c \in Clients, ClientPostRecvs(c)
    PROVE  IInv'
<1> USE DEF ClientPostRecvs, serverVars
<1>1. TypeOK /\ ConnInv(c)
  BY DEF IInv
<1>2. posted \in [Ends -> [Clients -> Nat]] /\ posted["client"][c] \in Nat /\ "client" \in Ends
  BY <1>1, Counts
<1>3. /\ posted' \in [Ends -> [Clients -> Nat]]
      /\ \A e \in Ends, d \in Clients : posted'[e][d] =
            IF e = "client" /\ d = c THEN posted["client"][c] + QDepth ELSE posted[e][d]
  BY <1>2
<1>4. TypeOK'
  BY <1>1, <1>3 DEF TypeOK
<1>5. \A d \in Clients \ {c} : UNCHANGED At(d)
  BY <1>1, <1>3 DEF At, TypeOK, Promised, Ends
<1>6. cpc[c] = "recvs" /\ cpc'[c] = "alert"
  BY <1>1 DEF TypeOK
<1>7. ConnInv(c)'
  <2>1. PollInv(c)'
    BY <1>1, <1>6 DEF ConnInv, PollInv, Promised
  <2>2. RecvInv(c)'
    BY <1>1, <1>2, <1>3, <1>6 DEF ConnInv, RecvInv, Waiting, Ends
  <2>3. Owed(c)' = Owed(c) /\ Answers(c)' = Answers(c) /\ Unserved(c)' = Unserved(c)
        /\ Waiting(c)' = Waiting(c)
    BY <1>6 DEF Owed, Answers, Unserved, Taken, Waiting
  <2>4. CallInv(c)' /\ PlacedInv(c)'
    BY <1>1, <2>3 DEF ConnInv, CallInv, PlacedInv
  <2> QED
    BY <2>1, <2>2, <2>4 DEF ConnInv
<1> QED
  BY <1>4, <1>5, <1>7, OnOneConnection DEF Shared

\* The alert is the one answer that is out, and uses one RECV.
LEMMA ClientAlertedKeeps ==
    ASSUME IInv, NEW c \in Clients, ClientAlerted(c)
    PROVE  IInv'
<1> USE DEF ClientAlerted, serverVars
<1>1. TypeOK /\ ConnInv(c) /\ cpc[c] = "alert" /\ arrived["client"][c] > 0
  BY DEF IInv
<1>2. /\ arrived \in [Ends -> [Clients -> Nat]] /\ arrived["client"][c] \in Nat
      /\ "client" \in Ends /\ "server" \in Ends
      /\ posted["client"][c] \in Nat /\ down[c] \in Nat /\ tot_sends[c] \in Nat /\ done[c] \in Nat
  BY <1>1, Counts
<1>3. /\ arrived' \in [Ends -> [Clients -> Nat]]
      /\ \A e \in Ends, d \in Clients : arrived'[e][d] =
            IF e = "client" /\ d = c THEN arrived["client"][c] - 1 ELSE arrived[e][d]
      /\ arrived'["server"] = arrived["server"]
  BY <1>1, <1>2
<1>4. TypeOK'
  <2>1. QDepth - 1 \in 0 .. QDepth
    OBVIOUS
  <2>2. num_recvs' \in [Clients -> 0 .. QDepth]
    BY <1>1, <2>1 DEF TypeOK
  <2> QED
    BY <1>1, <1>3, <2>2 DEF TypeOK
<1>5. \A d \in Clients \ {c} : UNCHANGED At(d)
  BY <1>1, <1>2, <1>3 DEF At, TypeOK, Promised
<1>6. cpc'[c] = "loop" /\ num_recvs'[c] = QDepth - 1 /\ QDepth - 1 >= SDepth
  BY <1>1 DEF TypeOK
<1>7. ConnInv(c)'
  <2>1. PollInv(c)'
    BY <1>1, <1>6 DEF ConnInv, PollInv, Promised
  <2>2. RecvInv(c)'
    <3>1. posted["client"][c] + arrived["client"][c] = QDepth
      BY <1>1 DEF ConnInv, RecvInv
    <3>2. posted'["client"][c] + arrived'["client"][c] = num_recvs'[c]
      BY <1>2, <1>3, <1>6, <3>1
    <3> QED
      BY <1>1, <1>3, <1>6, <3>2 DEF ConnInv, RecvInv, Waiting
  <2>3. Waiting(c) /\ ~Waiting(c)'
    BY <1>1, <1>6 DEF Waiting
  <2>4. /\ Owed(c) \in Nat /\ Answers(c) \in Nat /\ Answers(c) >= 1
        /\ Owed(c)' = Owed(c) /\ Answers(c)' = Answers(c) - 1 /\ Unserved(c)' = Unserved(c)
    <3>1. Owed(c) \in Nat /\ Answers(c) \in Nat
      BY Numbers
    <3>2. Answers(c) >= 1 /\ Answers(c)' = Answers(c) - 1
      BY <1>1, <1>2, <1>3 DEF Answers
    <3>3. Owed(c)' = Owed(c) /\ Unserved(c)' = Unserved(c)
      BY <1>3 DEF Owed, Unserved, Taken
    <3> QED
      BY <3>1, <3>2, <3>3
  <2>5. CallInv(c)'
    BY <1>1, <1>2, <2>3, <2>4 DEF ConnInv, CallInv
  <2>6. PlacedInv(c)'
    BY <1>1, <2>3, <2>4 DEF ConnInv, CallInv, PlacedInv
  <2> QED
    BY <2>1, <2>2, <2>5, <2>6 DEF ConnInv
<1> QED
  BY <1>3, <1>4, <1>5, <1>7, OnOneConnection DEF Shared

\* RECVs are posted, and counted, before there are too few of them.
LEMMA ClientLoopKeeps ==
    ASSUME IInv, NEW c \in Clients, ClientLoop(c)
    PROVE  IInv'
<1> USE DEF ClientLoop, serverVars
<1>1. TypeOK /\ ConnInv(c) /\ cpc[c] = "loop"
  BY DEF IInv
<1>2. /\ posted \in [Ends -> [Clients -> Nat]] /\ posted["client"][c] \in Nat
      /\ arrived["client"][c] \in Nat /\ num_recvs[c] \in 0 .. QDepth
      /\ "client" \in Ends /\ "server" \in Ends
  BY <1>1, Counts
<1> DEFINE more == IF num_recvs[c] < SDepth THEN QDepth - num_recvs[c] ELSE 0
<1>3. more \in Nat
  BY <1>2
<1>4. /\ posted' \in [Ends -> [Clients -> Nat]]
      /\ \A e \in Ends, d \in Clients : posted'[e][d] =
            IF e = "client" /\ d = c THEN posted["client"][c] + more ELSE posted[e][d]
  <2>1. CASE num_recvs[c] < SDepth
    <3>1. posted' = [posted EXCEPT !["client"][c] = @ + Fill(num_recvs[c])]
      BY <2>1
    <3>2. Fill(num_recvs[c]) = more /\ more \in Nat
      BY <1>3, <2>1 DEF Fill
    <3> HIDE DEF ClientLoop, more
    <3> QED
      BY <1>2, <3>1, <3>2
  <2>2. CASE ~(num_recvs[c] < SDepth)
    BY <1>2, <2>2
  <2> QED
    BY <2>1, <2>2
<1>5. num_recvs' \in [Clients -> 0 .. QDepth] /\ num_recvs'[c] = num_recvs[c] + more
      /\ \A d \in Clients \ {c} : num_recvs'[d] = num_recvs[d]
  <2>1. CASE num_recvs[c] < SDepth
    <3>1. num_recvs' = [num_recvs EXCEPT ![c] = QDepth] /\ num_recvs[c] + more = QDepth
      BY <1>2, <2>1
    <3>2. QDepth \in 0 .. QDepth /\ num_recvs \in [Clients -> 0 .. QDepth]
      BY <1>1 DEF TypeOK
    <3> QED
      BY <3>1, <3>2
  <2>2. CASE ~(num_recvs[c] < SDepth)
    <3>1. num_recvs' = num_recvs /\ more = 0
      BY <2>2
    <3>2. num_recvs \in [Clients -> 0 .. QDepth]
      BY <1>1 DEF TypeOK
    <3> QED
      BY <1>2, <3>1, <3>2
  <2> QED
    BY <2>1, <2>2
<1> HIDE DEF more
<1>6. TypeOK'
  BY <1>1, <1>4, <1>5 DEF TypeOK
<1>7. \A d \in Clients \ {c} : UNCHANGED At(d)
  BY <1>1, <1>2, <1>4, <1>5 DEF At, TypeOK, Promised
<1>8. cpc'[c] = "reads"
  BY <1>1 DEF TypeOK
<1>9. ConnInv(c)'
  <2>1. PollInv(c)'
    BY <1>1, <1>8 DEF ConnInv, PollInv, Promised
  <2>2. num_recvs'[c] >= SDepth
    BY <1>2, <1>5 DEF more
  <2>3. RecvInv(c)'
    BY <1>1, <1>2, <1>3, <1>4, <1>5, <1>8, <2>2 DEF ConnInv, RecvInv, Waiting
  <2>4. Owed(c)' = Owed(c) /\ Answers(c)' = Answers(c) /\ Unserved(c)' = Unserved(c)
        /\ Waiting(c)' = Waiting(c)
    BY <1>1, <1>8 DEF Owed, Answers, Unserved, Taken, Waiting
  <2>5. CallInv(c)' /\ PlacedInv(c)'
    BY <1>1, <2>4 DEF ConnInv, CallInv, PlacedInv
  <2> QED
    BY <2>1, <2>3, <2>5 DEF ConnInv
<1> QED
  BY <1>6, <1>7, <1>9, OnOneConnection DEF Shared

\* The steps of a client that leave its counts and messages alone.
LEMMA ClientGoesOn ==
    ASSUME IInv, NEW c \in Clients, cpc[c] \notin {"recvs", "alert"}, TypeOK',
           UNCHANGED <<num_recvs, num_sends, done, crossed, up, down, posted, arrived,
                       tot_recvs, tot_sends, Shared>>,
           cpc'[c] \notin {"recvs", "alert"},
           ws_phase'[c] = "SEND_1" <=> ws_phase[c] = "SEND_1",
           cpc'[c] \in {"reads", "sends", "complete"} => cpc[c] \in {"reads", "sends", "complete"},
           PollInv(c)', \A d \in Clients \ {c} : UNCHANGED At(d)
    PROVE  IInv'
<1>1. ConnInv(c)
  BY DEF IInv
<1>2. Owed(c)' = Owed(c) /\ Answers(c)' = Answers(c) /\ Unserved(c)' = Unserved(c)
      /\ ~Waiting(c) /\ ~Waiting(c)'
  BY DEF Owed, Answers, Unserved, Taken, Waiting, Shared
<1>3. RecvInv(c)'
  BY <1>1, <1>2 DEF ConnInv, RecvInv, Waiting, Shared
<1>4. CallInv(c)' /\ PlacedInv(c)'
  BY <1>1, <1>2 DEF ConnInv, CallInv, PlacedInv, Shared
<1>5. ConnInv(c)'
  BY <1>3, <1>4 DEF ConnInv
<1> QED
  BY <1>5, OnOneConnection DEF Shared

\* A wait for the completion of a READ ends with the one that is promised.
LEMMA ClientReadsKeeps ==
    ASSUME IInv, NEW c \in Clients, ClientReads(c)
    PROVE  IInv'
<1> USE DEF ClientReads, serverVars
<1>1. TypeOK /\ ConnInv(c) /\ cpc[c] = "reads"
  BY DEF IInv
<1>2. /\ cq \in [Signalled -> [Clients -> Nat]] /\ cq["read"][c] \in Nat /\ due["read"][c] \in Nat
      /\ num_reads[c] \in Nat /\ old_num_reads[c] \in Nat
      /\ "read" \in Signalled /\ "client" \in Signalled /\ "server" \in Signalled
  BY <1>1, Counts
<1>3. cpc'[c] = "sends" /\ \A d \in Clients \ {c} : cpc'[d] = cpc[d]
  BY <1>1 DEF TypeOK
<1>4. Balanced(num_reads[c], old_num_reads[c], Promised("read", c))
  BY <1>1 DEF ConnInv, PollInv
<1>5. Promised("read", c) \in Nat /\ Promised("read", c) = due["read"][c] + cq["read"][c]
  BY <1>2 DEF Promised
<1>6. CASE MustPoll(num_reads[c], old_num_reads[c])
  <2>1. /\ cq["read"][c] > 0 /\ cq' = [cq EXCEPT !["read"][c] = @ - 1]
        /\ old_num_reads' = [old_num_reads EXCEPT ![c] = num_reads[c]]
    BY <1>6
  <2>2. /\ cq' \in [Signalled -> [Clients -> Nat]]
        /\ \A q \in Signalled, d \in Clients : cq'[q][d] =
              IF q = "read" /\ d = c THEN cq["read"][c] - 1 ELSE cq[q][d]
    BY <1>2, <2>1
  <2>3. old_num_reads' \in [Clients -> Nat] /\ old_num_reads'[c] = num_reads[c]
        /\ \A d \in Clients \ {c} : old_num_reads'[d] = old_num_reads[d]
    BY <1>1, <1>2, <2>1 DEF TypeOK
  <2>4. TypeOK'
    BY <1>1, <2>2, <2>3 DEF TypeOK
  <2>5. \A d \in Clients \ {c} : UNCHANGED At(d)
    BY <1>2, <1>3, <2>2, <2>3 DEF At, Promised
  <2>6. Promised("read", c) = 1 /\ Balanced(num_reads[c], num_reads[c], 0)
        /\ Ready(num_reads[c], num_reads[c])
    BY <1>2, <1>4, <1>5, <1>6, Polls
  <2>7. Promised("read", c)' = 0
    BY <1>2, <1>5, <2>2, <2>6 DEF Promised
  <2>8. Promised("client", c)' = Promised("client", c)
        /\ Promised("server", c)' = Promised("server", c)
    BY <1>2, <2>2 DEF Promised
  <2>9. PollInv(c)'
    BY <1>1, <1>3, <2>3, <2>6, <2>7, <2>8 DEF ConnInv, PollInv
  <2> QED
    BY <1>1, <1>3, <2>4, <2>5, <2>9, ClientGoesOn DEF Shared
<1>7. CASE ~MustPoll(num_reads[c], old_num_reads[c])
  <2>1. UNCHANGED <<cq, old_num_reads>>
    BY <1>7
  <2>2. TypeOK'
    BY <1>1, <2>1 DEF TypeOK
  <2>3. \A d \in Clients \ {c} : UNCHANGED At(d)
    BY <1>3, <2>1 DEF At, Promised
  <2>4. Ready(num_reads[c], old_num_reads[c])
    BY <1>2, <1>4, <1>5, <1>7, Polls
  <2>5. PollInv(c)'
    BY <1>1, <1>3, <2>1, <2>4 DEF ConnInv, PollInv, Promised
  <2> QED
    BY <1>1, <1>3, <2>2, <2>3, <2>5, ClientGoesOn DEF Shared
<1> QED
  BY <1>6, <1>7

\* The same for a SEND.
LEMMA ClientSendsKeeps ==
    ASSUME IInv, NEW c \in Clients, ClientSends(c)
    PROVE  IInv'
<1> USE DEF ClientSends, serverVars
<1>1. TypeOK /\ ConnInv(c) /\ cpc[c] = "sends"
  BY DEF IInv
<1>2. /\ cq \in [Signalled -> [Clients -> Nat]] /\ cq["client"][c] \in Nat
      /\ due["client"][c] \in Nat /\ num_sends[c] \in Nat /\ old_num_sends[c] \in Nat
      /\ "read" \in Signalled /\ "client" \in Signalled /\ "server" \in Signalled
  BY <1>1, Counts
<1>3. cpc'[c] = "complete" /\ \A d \in Clients \ {c} : cpc'[d] = cpc[d]
  BY <1>1 DEF TypeOK
<1>4. Balanced(num_sends[c], old_num_sends[c], Promised("client", c))
  BY <1>1 DEF ConnInv, PollInv
<1>5. Promised("client", c) \in Nat /\ Promised("client", c) = due["client"][c] + cq["client"][c]
  BY <1>2 DEF Promised
<1>6. CASE MustPoll(num_sends[c], old_num_sends[c])
  <2>1. /\ cq["client"][c] > 0 /\ cq' = [cq EXCEPT !["client"][c] = @ - 1]
        /\ old_num_sends' = [old_num_sends EXCEPT ![c] = num_sends[c]]
    BY <1>6
  <2>2. /\ cq' \in [Signalled -> [Clients -> Nat]]
        /\ \A q \in Signalled, d \in Clients : cq'[q][d] =
              IF q = "client" /\ d = c THEN cq["client"][c] - 1 ELSE cq[q][d]
    BY <1>2, <2>1
  <2>3. old_num_sends' \in [Clients -> Nat] /\ old_num_sends'[c] = num_sends[c]
        /\ \A d \in Clients \ {c} : old_num_sends'[d] = old_num_sends[d]
    BY <1>1, <1>2, <2>1 DEF TypeOK
  <2>4. TypeOK'
    BY <1>1, <2>2, <2>3 DEF TypeOK
  <2>5. \A d \in Clients \ {c} : UNCHANGED At(d)
    BY <1>2, <1>3, <2>2, <2>3 DEF At, Promised
  <2>6. Promised("client", c) = 1 /\ Balanced(num_sends[c], num_sends[c], 0)
        /\ Ready(num_sends[c], num_sends[c])
    BY <1>2, <1>4, <1>5, <1>6, Polls
  <2>7. Promised("client", c)' = 0
    BY <1>2, <1>5, <2>2, <2>6 DEF Promised
  <2>8. Promised("read", c)' = Promised("read", c)
        /\ Promised("server", c)' = Promised("server", c)
    BY <1>2, <2>2 DEF Promised
  <2>9. PollInv(c)'
    BY <1>1, <1>3, <2>3, <2>6, <2>7, <2>8 DEF ConnInv, PollInv
  <2> QED
    BY <1>1, <1>3, <2>4, <2>5, <2>9, ClientGoesOn DEF Shared
<1>7. CASE ~MustPoll(num_sends[c], old_num_sends[c])
  <2>1. UNCHANGED <<cq, old_num_sends>>
    BY <1>7
  <2>2. TypeOK'
    BY <1>1, <2>1 DEF TypeOK
  <2>3. \A d \in Clients \ {c} : UNCHANGED At(d)
    BY <1>3, <2>1 DEF At, Promised
  <2>4. Ready(num_sends[c], old_num_sends[c])
    BY <1>2, <1>4, <1>5, <1>7, Polls
  <2>5. PollInv(c)'
    BY <1>1, <1>3, <2>1, <2>4 DEF ConnInv, PollInv, Promised
  <2> QED
    BY <1>1, <1>3, <2>2, <2>3, <2>5, ClientGoesOn DEF Shared
<1> QED
  BY <1>6, <1>7

\* A READ that has returned, an issue with nothing to wait for, and the end.
LEMMA ClientMovesKeeps ==
    ASSUME IInv, NEW c \in Clients,
           ClientReadReturns(c) \/ ClientNothingToComplete(c) \/ ClientFinish(c)
    PROVE  IInv'
<1> USE DEF ClientReadReturns, ClientNothingToComplete, ClientFinish, serverVars, nicVars
<1>1. TypeOK /\ ConnInv(c)
  BY DEF IInv
<1>2. /\ cpc[c] \in {"complete", "loop"}
      /\ cpc'[c] = IF cpc[c] = "complete" THEN "issue" ELSE "finished"
      /\ \A d \in Clients \ {c} : cpc'[d] = cpc[d] /\ ws_phase'[d] = ws_phase[d]
      /\ ws_phase'[c] = "SEND_1" <=> ws_phase[c] = "SEND_1"
  BY <1>1 DEF TypeOK
<1>3. TypeOK'
  BY <1>1 DEF TypeOK
<1>4. \A d \in Clients \ {c} : UNCHANGED At(d)
  BY <1>2 DEF At, Promised
<1>5. PollInv(c)'
  BY <1>1, <1>2 DEF ConnInv, PollInv, Promised
<1> QED
  BY <1>2, <1>3, <1>4, <1>5, ClientGoesOn DEF Shared

\* The answer of a PUT is the only thing that is out for its client.
LEMMA ClientPutReturnsKeeps ==
    ASSUME IInv, NEW c \in Clients, ClientPutReturns(c)
    PROVE  IInv'
<1> USE DEF ClientPutReturns, serverVars
<1>1. TypeOK /\ ConnInv(c) /\ cpc[c] = "complete" /\ ws_phase[c] = "SEND_1"
      /\ arrived["client"][c] > 0
  BY DEF IInv
<1>2. /\ arrived \in [Ends -> [Clients -> Nat]] /\ arrived["client"][c] \in Nat
      /\ "client" \in Ends /\ "server" \in Ends
      /\ posted["client"][c] \in Nat /\ down[c] \in Nat /\ tot_sends[c] \in Nat /\ done[c] \in Nat
      /\ num_sends[c] \in Nat /\ num_recvs[c] \in 0 .. QDepth
  BY <1>1, Counts
<1>3. /\ arrived' \in [Ends -> [Clients -> Nat]]
      /\ \A e \in Ends, d \in Clients : arrived'[e][d] =
            IF e = "client" /\ d = c THEN arrived["client"][c] - 1 ELSE arrived[e][d]
      /\ arrived'["server"] = arrived["server"]
  BY <1>1, <1>2
<1>4. posted["client"][c] + arrived["client"][c] = num_recvs[c] /\ num_recvs[c] >= SDepth
  BY <1>1 DEF ConnInv, RecvInv, Waiting
<1>5. num_recvs[c] - 1 \in 0 .. QDepth
  BY <1>2, <1>4
<1>6. /\ num_recvs' \in [Clients -> 0 .. QDepth] /\ num_recvs'[c] = num_recvs[c] - 1
      /\ done' \in [Clients -> Nat] /\ done'[c] = done[c] + 1
      /\ \A d \in Clients \ {c} : num_recvs'[d] = num_recvs[d] /\ done'[d] = done[d]
  <2>1. num_recvs \in [Clients -> 0 .. QDepth] /\ done \in [Clients -> Nat] /\ done[c] + 1 \in Nat
    BY <1>1, <1>2, Sums DEF TypeOK
  <2>2. num_recvs' = [num_recvs EXCEPT ![c] = num_recvs[c] - 1]
        /\ done' = [done EXCEPT ![c] = done[c] + 1]
    OBVIOUS
  <2> HIDE DEF ClientPutReturns
  <2>3. num_recvs' \in [Clients -> 0 .. QDepth] /\ num_recvs'[c] = num_recvs[c] - 1
        /\ \A d \in Clients \ {c} : num_recvs'[d] = num_recvs[d]
    BY <1>5, <2>1, <2>2
  <2>4. done' \in [Clients -> Nat] /\ done'[c] = done[c] + 1
        /\ \A d \in Clients \ {c} : done'[d] = done[d]
    BY <2>1, <2>2
  <2> QED
    BY <2>3, <2>4
<1>7. TypeOK'
  BY <1>1, <1>3, <1>6 DEF TypeOK
<1>8. \A d \in Clients \ {c} : UNCHANGED At(d)
  BY <1>1, <1>2, <1>3, <1>6 DEF At, TypeOK, Promised
<1>9. cpc'[c] = "issue" /\ ws_phase'[c] = "none" /\ ~Waiting(c) /\ ~Waiting(c)'
  BY <1>1 DEF TypeOK, Waiting
<1>10. ConnInv(c)'
  <2>1. PollInv(c)'
    BY <1>1, <1>9 DEF ConnInv, PollInv, Promised
  <2>2. posted'["client"][c] + arrived'["client"][c] = num_recvs'[c]
    BY <1>2, <1>3, <1>4, <1>6
  <2>3. num_recvs'[c] >= SDepth - 1
    BY <1>2, <1>4, <1>6
  <2>4. RecvInv(c)'
    BY <1>1, <1>3, <1>9, <2>2, <2>3 DEF ConnInv, RecvInv, Waiting
  <2>5. Owed(c) \in Nat /\ Answers(c) \in Nat
    BY Numbers
  <2>6. Owed(c) + Answers(c) <= 1
    BY <1>1, <1>9 DEF ConnInv, CallInv
  <2>7. Answers(c) >= 1 /\ Answers(c)' = Answers(c) - 1
    BY <1>1, <1>2, <1>3 DEF Answers
  <2>8. Owed(c)' = Owed(c) /\ Unserved(c)' = Unserved(c)
    BY <1>3 DEF Owed, Unserved, Taken
  <2>9. Owed(c) = 0 /\ Owed(c)' = 0 /\ Answers(c) > 0 /\ Answers(c)' = 0
    BY <2>5, <2>6, <2>7, <2>8
  <2>10. tot_sends[c] # 0 /\ tot_sends[c] - 1 = num_sends[c] /\ num_sends[c] = done[c] + 1
    BY <1>1, <1>9, <2>9 DEF ConnInv, CallInv
  <2>11. CallInv(c)'
    BY <1>1, <1>2, <1>6, <1>9, <2>9, <2>10 DEF ConnInv, CallInv
  <2>12. ASSUME ~crossed[c], NEW n \in 1 .. done'[c]
         PROVE  <<c, n>> \in placed
    <3>1. (\A i \in 1 .. done[c] : <<c, i>> \in placed) /\ <<c, num_sends[c]>> \in placed
      BY <1>1, <1>9, <2>9, <2>12 DEF ConnInv, PlacedInv
    <3>2. n \in 1 .. done[c] \/ n = num_sends[c]
      BY <1>2, <1>6, <2>10, Sums
    <3> QED
      BY <3>1, <3>2
  <2>13. PlacedInv(c)'
    BY <1>1, <2>8, <2>9, <2>12 DEF ConnInv, PlacedInv
  <2> QED
    BY <2>1, <2>4, <2>11, <2>13 DEF ConnInv
<1> QED
  BY <1>3, <1>7, <1>8, <1>10, OnOneConnection DEF Shared

\* A work request of the client, signalled if its number is even.
LEMMA Signals ==
    ASSUME TypeOK, NEW q \in Signalled, NEW c \in Clients, NEW signal \in BOOLEAN,
           SignalIf(q, c, signal), UNCHANGED cq
    PROVE  /\ due' \in [Signalled -> [Clients -> Nat]]
           /\ Promised(q, c)' = IF signal THEN Promised(q, c) + 1 ELSE Promised(q, c)
           /\ \A p \in Signalled, d \in Clients :
                p # q \/ d # c => Promised(p, d)' = Promised(p, d)
<1>1. due \in [Signalled -> [Clients -> Nat]] /\ due[q][c] \in Nat /\ cq[q][c] \in Nat
  BY Counts
<1> DEFINE more == IF signal THEN due[q][c] + 1 ELSE due[q][c]
<1>2. more \in Nat /\ due' = [due EXCEPT ![q][c] = more]
  BY <1>1 DEF SignalIf
<1>3. more = IF signal THEN due[q][c] + 1 ELSE due[q][c]
  OBVIOUS
<1> HIDE DEF more
<1>4. /\ due' \in [Signalled -> [Clients -> Nat]]
      /\ due'[q][c] = more
      /\ \A p \in Signalled, d \in Clients : p # q \/ d # c => due'[p][d] = due[p][d]
  BY <1>1, <1>2
<1>5. Promised(q, c)' = IF signal THEN Promised(q, c) + 1 ELSE Promised(q, c)
  BY <1>1, <1>3, <1>4 DEF Promised
<1>6. ASSUME NEW p \in Signalled, NEW d \in Clients, p # q \/ d # c
      PROVE  Promised(p, d)' = Promised(p, d)
  BY <1>4, <1>6 DEF Promised
<1> QED
  BY <1>4, <1>5, <1>6

\* A client with nothing out calls.
LEMMA ClientPutKeeps ==
    ASSUME IInv, NEW c \in Clients, ClientPut(c)
    PROVE  IInv'
<1> USE DEF ClientPut, serverVars
<1>1. TypeOK /\ ConnInv(c) /\ cpc[c] = "issue" /\ ws_phase[c] = "none"
  BY DEF IInv
<1>2. /\ num_sends[c] \in Nat /\ old_num_sends[c] \in Nat /\ done[c] \in Nat
      /\ tot_sends[c] \in Nat /\ Promised("client", c) \in Nat
      /\ "client" \in Signalled /\ "read" \in Signalled /\ "server" \in Signalled
      /\ Even(num_sends[c]) \in BOOLEAN
  BY <1>1, Counts DEF Even
<1>3. /\ cpc'[c] = "loop" /\ ws_phase'[c] = "SEND_1" /\ ~Waiting(c) /\ ~Waiting(c)'
      /\ \A d \in Clients \ {c} : cpc'[d] = cpc[d] /\ ws_phase'[d] = ws_phase[d]
  BY <1>1 DEF TypeOK, Waiting
<1>4. /\ num_sends' \in [Clients -> Nat] /\ num_sends'[c] = num_sends[c] + 1
      /\ \A d \in Clients \ {c} : num_sends'[d] = num_sends[d]
  <2>1. num_sends \in [Clients -> Nat] /\ num_sends[c] + 1 \in Nat
    BY <1>1, <1>2, Sums DEF TypeOK
  <2>2. num_sends' = [num_sends EXCEPT ![c] = num_sends[c] + 1]
    OBVIOUS
  <2> HIDE DEF ClientPut
  <2> QED
    BY <2>1, <2>2
<1>5. /\ Owed(c) = 0 /\ Answers(c) = 0 /\ up[c] = <<>> /\ Taken(c) = 0
      /\ arrived["server"][c] = 0 /\ Unserved(c) = 0
  <2>1. Owed(c) \in Nat /\ Answers(c) \in Nat /\ Taken(c) \in Nat /\ Unserved(c) \in Nat
        /\ arrived["server"][c] \in Nat /\ Len(up[c]) \in Nat
        /\ Unserved(c) + Len(up[c]) <= Owed(c)
    BY <1>1, Numbers, Counts
  <2>2. Owed(c) + Answers(c) <= 0
    BY <1>1, <1>3 DEF ConnInv, CallInv
  <2>3. Owed(c) = 0 /\ Answers(c) = 0
    BY <2>1, <2>2
  <2>4. Len(up[c]) + arrived["server"][c] + Taken(c) = 0 /\ Unserved(c) + Len(up[c]) <= 0
    BY <2>1, <2>3 DEF Owed
  <2> HIDE DEF ClientPut
  <2>5. Taken(c) = 0 /\ arrived["server"][c] = 0 /\ Unserved(c) = 0 /\ Len(up[c]) = 0
    <3>1. Len(up[c]) = 0 /\ arrived["server"][c] = 0 /\ Taken(c) = 0
      BY <2>1, <2>4, Sums
    <3>2. Unserved(c) = 0
      BY <2>1, <2>4, Sums
    <3> QED
      BY <3>1, <3>2
  <2>6. up[c] = <<>> \/ up[c] = << <<c, num_sends[c]>> >>
    BY <1>1 DEF ConnInv, CallInv
  <2>7. up[c] = <<>>
    BY <2>5, <2>6
  <2> QED
    BY <2>3, <2>5, <2>7
<1>6. <<c, num_sends[c] + 1>> \in Keys
  BY <1>2 DEF Keys
<1>7. /\ up' \in [Clients -> Seq(Keys)] /\ up'[c] = << <<c, num_sends'[c]>> >>
      /\ \A d \in Clients \ {c} : up'[d] = up[d]
  <2>1. up \in [Clients -> Seq(Keys)]
    BY <1>1 DEF TypeOK
  <2>2. Append(up[c], <<c, num_sends[c] + 1>>) = << <<c, num_sends[c] + 1>> >>
    BY <1>5, <1>6, OneMessage
  <2>3. << <<c, num_sends[c] + 1>> >> \in Seq(Keys)
    BY <1>6
  <2>4. up' = [up EXCEPT ![c] = << <<c, num_sends[c] + 1>> >>]
    BY <2>2
  <2> HIDE DEF ClientPut
  <2> QED
    BY <1>4, <2>1, <2>3, <2>4
<1>8. /\ due' \in [Signalled -> [Clients -> Nat]]
      /\ Promised("client", c)' =
            IF Even(num_sends[c]) THEN Promised("client", c) + 1 ELSE Promised("client", c)
      /\ \A p \in Signalled, d \in Clients :
            p # "client" \/ d # c => Promised(p, d)' = Promised(p, d)
  <2>1. SignalIf("client", c, Even(num_sends[c])) /\ UNCHANGED cq
    OBVIOUS
  <2> HIDE DEF ClientPut
  <2> QED
    BY <1>1, <1>2, <2>1, Signals
<1>9. TypeOK'
  BY <1>1, <1>4, <1>7, <1>8 DEF TypeOK
<1>10. \A d \in Clients \ {c} : UNCHANGED At(d)
  BY <1>2, <1>3, <1>4, <1>7, <1>8 DEF At
<1>11. ConnInv(c)'
  <2>1. Balanced(num_sends[c] + 1, old_num_sends[c], Promised("client", c)')
    <3>1. Balanced(num_sends[c], old_num_sends[c], Promised("client", c))
          /\ Ready(num_sends[c], old_num_sends[c])
      BY <1>1 DEF ConnInv, PollInv
    <3>2. Balanced(num_sends[c] + 1, old_num_sends[c],
              IF Even(num_sends[c]) THEN Promised("client", c) + 1 ELSE Promised("client", c))
      BY <1>2, <3>1, Posts
    <3> QED
      BY <1>8, <3>2
  <2>2. PollInv(c)'
    BY <1>1, <1>2, <1>3, <1>4, <1>8, <2>1 DEF ConnInv, PollInv
  <2>3. RecvInv(c)'
    BY <1>1, <1>3 DEF ConnInv, RecvInv, Waiting
  <2>4. Owed(c)' = 1 /\ Answers(c)' = 0 /\ Unserved(c)' = 0
    <3>1. Len(up'[c]) = 1
      BY <1>7
    <3>2. Taken(c)' = 0
      BY <1>5 DEF Taken
    <3>3. Answers(c)' = 0 /\ Unserved(c)' = 0
      BY <1>5 DEF Answers, Unserved
    <3> QED
      BY <1>5, <3>1, <3>2, <3>3 DEF Owed
  <2>5. num_sends[c] = done[c] /\ tot_sends[c] # 0 /\ tot_sends[c] - 1 = num_sends[c]
    BY <1>1, <1>2, <1>3, <1>5 DEF ConnInv, CallInv
  <2>6. CallInv(c)'
    BY <1>2, <1>3, <1>4, <1>7, <2>4, <2>5 DEF CallInv
  <2>7. ~(cn = c /\ spc \in {"sendpoll", "reply"})
    BY <1>5, Numbers DEF Batch
  <2>8. PlacedInv(c)'
    BY <1>1, <2>4, <2>7 DEF ConnInv, PlacedInv
  <2> QED
    BY <2>2, <2>3, <2>6, <2>8 DEF ConnInv
<1> QED
  BY <1>9, <1>10, <1>11, OnOneConnection DEF Shared

\* A READ is asked for.
LEMMA ClientReadKeeps ==
    ASSUME IInv, NEW c \in Clients, ClientRead(c)
    PROVE  IInv'
<1> USE DEF ClientRead, serverVars
<1>1. TypeOK /\ ConnInv(c) /\ cpc[c] = "issue"
  BY DEF IInv
<1>2. /\ num_reads[c] \in Nat /\ old_num_reads[c] \in Nat /\ Promised("read", c) \in Nat
      /\ "client" \in Signalled /\ "read" \in Signalled /\ "server" \in Signalled
      /\ Even(num_reads[c]) \in BOOLEAN
  BY <1>1, Counts DEF Even
<1>3. PICK phase \in {"READ_1", "READ_2", "READ_3"} :
        ws_phase' = [ws_phase EXCEPT ![c] = phase]
  OBVIOUS
<1>4. /\ cpc'[c] = "loop" /\ ws_phase'[c] # "SEND_1" /\ ws_phase[c] # "SEND_1"
      /\ \A d \in Clients \ {c} : cpc'[d] = cpc[d] /\ ws_phase'[d] = ws_phase[d]
  BY <1>1, <1>3 DEF TypeOK
<1>5. /\ num_reads' \in [Clients -> Nat] /\ num_reads'[c] = num_reads[c] + 1
      /\ \A d \in Clients \ {c} : num_reads'[d] = num_reads[d]
  <2>1. num_reads \in [Clients -> Nat] /\ num_reads[c] + 1 \in Nat
    BY <1>1, <1>2, Sums DEF TypeOK
  <2>2. num_reads' = [num_reads EXCEPT ![c] = num_reads[c] + 1]
    OBVIOUS
  <2> HIDE DEF ClientRead
  <2> QED
    BY <2>1, <2>2
<1>6. /\ due' \in [Signalled -> [Clients -> Nat]]
      /\ Promised("read", c)' =
            IF Even(num_reads[c]) THEN Promised("read", c) + 1 ELSE Promised("read", c)
      /\ \A p \in Signalled, d \in Clients :
            p # "read" \/ d # c => Promised(p, d)' = Promised(p, d)
  <2>1. SignalIf("read", c, Even(num_reads[c])) /\ UNCHANGED cq
    OBVIOUS
  <2> HIDE DEF ClientRead
  <2> QED
    BY <1>1, <1>2, <2>1, Signals
<1>7. TypeOK'
  <2>1. landed' \in [Clients -> BOOLEAN] /\ ws_phase' \in
            [Clients -> {"none", "SEND_1", "READ_1", "READ_2", "READ_3"}]
    BY <1>1, <1>3 DEF TypeOK
  <2> QED
    BY <1>1, <1>5, <1>6, <2>1 DEF TypeOK
<1>8. \A d \in Clients \ {c} : UNCHANGED At(d)
  BY <1>2, <1>4, <1>5, <1>6 DEF At
<1>9. PollInv(c)'
  <2>1. Balanced(num_reads[c], old_num_reads[c], Promised("read", c))
        /\ Ready(num_reads[c], old_num_reads[c])
    BY <1>1 DEF ConnInv, PollInv
  <2>2. Balanced(num_reads[c] + 1, old_num_reads[c],
            IF Even(num_reads[c]) THEN Promised("read", c) + 1 ELSE Promised("read", c))
    BY <1>2, <2>1, Posts
  <2>3. Balanced(num_reads[c] + 1, old_num_reads[c], Promised("read", c)')
    BY <1>6, <2>2
  <2> QED
    BY <1>1, <1>2, <1>4, <1>5, <1>6, <2>3 DEF ConnInv, PollInv
<1> QED
  BY <1>1, <1>4, <1>7, <1>8, <1>9, ClientGoesOn DEF Shared

-----------------------------------------------------------------------------
(* The NICs and the network *)

\* What is in flight to the server is the one request that is out.
LEMMA InFlight ==
    ASSUME IInv, NEW c \in Clients, up[c] # <<>>
    PROVE  /\ up[c] = << <<c, num_sends[c]>> >> /\ Len(up[c]) = 1 /\ Tail(up[c]) = <<>>
           /\ Head(up[c]) = <<c, num_sends[c]>> /\ <<c, num_sends[c]>> \in Keys
           /\ Unserved(c) = 0 /\ Owed(c) = 1 /\ Answers(c) = 0 /\ Taken(c) = 0
           /\ arrived["server"][c] = 0
<1>1. TypeOK /\ ConnInv(c)
  BY DEF IInv
<1>2. up[c] = << <<c, num_sends[c]>> >>
  BY <1>1 DEF ConnInv, CallInv
<1>3. up[c] \in Seq(Keys)
  BY <1>1, Counts
<1>4. <<c, num_sends[c]>> \in Keys
  BY <1>2, <1>3
<1>5. Len(up[c]) = 1 /\ Tail(up[c]) = <<>> /\ Head(up[c]) = <<c, num_sends[c]>>
  BY <1>2, <1>4, OneMessage
<1>6. Owed(c) \in Nat /\ Answers(c) \in Nat /\ Taken(c) \in Nat /\ Unserved(c) \in Nat
      /\ arrived["server"][c] \in Nat
  BY <1>1, Numbers, Counts
<1>7. Owed(c) + Answers(c) <= 1
  <2>1. Owed(c) + Answers(c) <= 1 \/ Owed(c) + Answers(c) <= 0
    BY <1>1 DEF ConnInv, CallInv
  <2> QED
    BY <1>6, <2>1
<1>8. Owed(c) = 1 + arrived["server"][c] + Taken(c)
  BY <1>5 DEF Owed
<1>9. Unserved(c) + 1 <= Owed(c)
  BY <1>5, Numbers
<1>10. Owed(c) = 1 /\ Answers(c) = 0
  BY <1>6, <1>7, <1>8
<1>11. Taken(c) = 0 /\ arrived["server"][c] = 0
  BY <1>6, <1>8, <1>10
<1>12. Unserved(c) = 0
  BY <1>6, <1>9, <1>10
<1> QED
  BY <1>2, <1>4, <1>5, <1>10, <1>11, <1>12

\* A message of connection c is gone.
LEMMA LossKeeps ==
    ASSUME IInv, NEW c \in Clients,
           \/ up[c] # <<>> /\ up' = [up EXCEPT ![c] = Tail(@)] /\ UNCHANGED down
           \/ down[c] > 0 /\ down' = [down EXCEPT ![c] = @ - 1] /\ UNCHANGED up,
           lost' = [lost EXCEPT ![c] = TRUE],
           UNCHANGED <<clientVars, serverVars, posted, arrived, due, cq, request_area, crossed>>
    PROVE  IInv'
<1> USE DEF clientVars, serverVars
<1>1. TypeOK /\ ConnInv(c)
  BY DEF IInv
<1>2. /\ down[c] \in Nat /\ num_sends[c] \in Nat /\ done[c] \in Nat /\ tot_sends[c] \in Nat
      /\ Owed(c) \in Nat /\ Answers(c) \in Nat /\ arrived["client"][c] \in Nat
      /\ arrived["server"][c] \in Nat /\ Taken(c) \in Nat
  BY <1>1, Counts, Numbers
<1>3. /\ up' \in [Clients -> Seq(Keys)] /\ down' \in [Clients -> Nat]
      /\ \A d \in Clients \ {c} : up'[d] = up[d] /\ down'[d] = down[d]
      /\ up'[c] = <<>> \/ up'[c] = up[c]
      /\ Owed(c)' <= Owed(c) /\ Answers(c)' <= Answers(c)
      /\ Owed(c)' \in Nat /\ Answers(c)' \in Nat
  <2>1. up \in [Clients -> Seq(Keys)] /\ down \in [Clients -> Nat] /\ Taken(c)' = Taken(c)
    BY <1>1 DEF TypeOK, Taken
  <2>2. CASE up[c] # <<>> /\ up' = [up EXCEPT ![c] = Tail(@)] /\ UNCHANGED down
    <3>0. up[c] # <<>>
      BY <2>2
    <3>1. Tail(up[c]) = <<>> /\ <<>> \in Seq(Keys)
      <4>1. Tail(up[c]) = <<>>
        BY <3>0, InFlight
      <4>2. <<>> \in Seq(Keys)
        OBVIOUS
      <4> QED
        BY <4>1, <4>2
    <3>2. up' \in [Clients -> Seq(Keys)] /\ up'[c] = <<>>
          /\ \A d \in Clients \ {c} : up'[d] = up[d]
      BY <2>1, <2>2, <3>1
    <3>3. Owed(c) = 1 /\ Taken(c) = 0 /\ arrived["server"][c] = 0
      BY <2>2, InFlight
    <3>4. Owed(c)' = 0
      BY <2>1, <3>2, <3>3 DEF Owed
    <3>5. Answers(c)' = Answers(c)
      BY <2>2 DEF Answers
    <3> QED
      BY <1>2, <2>1, <2>2, <3>2, <3>3, <3>4, <3>5
  <2>3. CASE down[c] > 0 /\ down' = [down EXCEPT ![c] = @ - 1] /\ UNCHANGED up
    <3>1. down[c] - 1 \in Nat
      BY <1>2, <2>3
    <3>2. down' \in [Clients -> Nat] /\ down'[c] = down[c] - 1
          /\ \A d \in Clients \ {c} : down'[d] = down[d]
      BY <2>1, <2>3, <3>1
    <3>3. Owed(c)' = Owed(c)
      BY <2>1, <2>3 DEF Owed
    <3>4. Answers(c)' = down[c] - 1 + arrived["client"][c]
      BY <3>2 DEF Answers
    <3>5. Answers(c) = down[c] + arrived["client"][c]
      BY DEF Answers
    <3>6. Answers(c)' <= Answers(c) /\ Answers(c)' \in Nat
      BY <1>2, <3>1, <3>4, <3>5
    <3> QED
      BY <1>2, <2>1, <2>3, <3>2, <3>3, <3>6
  <2> QED
    BY <2>2, <2>3
<1>4. TypeOK'
  BY <1>1, <1>3 DEF TypeOK
<1>5. \A d \in Clients \ {c} : UNCHANGED At(d)
  BY <1>3 DEF At, Promised
<1>6. PollInv(c)' /\ RecvInv(c)'
  BY <1>1 DEF ConnInv, PollInv, RecvInv, Promised, Waiting
<1>7. Waiting(c)' = Waiting(c) /\ Unserved(c)' = Unserved(c)
  BY DEF Waiting, Unserved
<1>8. CallInv(c)'
  <2>1. /\ up'[c] = <<>> \/ up'[c] = << <<c, num_sends'[c]>> >>
        /\ num_sends'[c] = done'[c] + (IF ws_phase'[c] = "SEND_1" THEN 1 ELSE 0)
        /\ ~Waiting(c)' /\ Answers(c)' > 0 => tot_sends'[c] - 1 = num_sends'[c]
    <3>1. Answers(c)' > 0 => Answers(c) > 0
      BY <1>2, <1>3
    <3> QED
      BY <1>1, <1>3, <1>7, <3>1 DEF ConnInv, CallInv
  <2>2. /\ Waiting(c)' => num_sends'[c] = 0 /\ ws_phase'[c] = "none" /\ Owed(c)' = 0
        /\ tot_sends'[c] = 0 => Waiting(c)' /\ Answers(c)' = 0
    <3>1. (Owed(c) = 0 => Owed(c)' = 0) /\ (Answers(c) = 0 => Answers(c)' = 0)
      BY <1>2, <1>3
    <3> QED
      BY <1>1, <1>7, <3>1 DEF ConnInv, CallInv
  <2>3. Owed(c)' + Answers(c)' <= IF Waiting(c)' \/ ws_phase'[c] = "SEND_1" THEN 1 ELSE 0
    <3>1. Owed(c)' + Answers(c)' <= Owed(c) + Answers(c)
      BY <1>2, <1>3
    <3>2. Owed(c) + Answers(c) <= IF Waiting(c)' \/ ws_phase'[c] = "SEND_1" THEN 1 ELSE 0
      BY <1>1, <1>7 DEF ConnInv, CallInv
    <3> QED
      BY <1>2, <1>3, <3>1, <3>2
  <2>4. tot_sends'[c] # 0 => done'[c] < tot_sends'[c]
                             /\ tot_sends'[c] - 1 + Owed(c)' <= num_sends'[c]
    <3>1. tot_sends[c] - 1 + Owed(c)' <= tot_sends[c] - 1 + Owed(c)
      BY <1>2, <1>3
    <3>2. tot_sends[c] # 0 => done[c] < tot_sends[c] /\ tot_sends[c] - 1 + Owed(c) <= num_sends[c]
      BY <1>1 DEF ConnInv, CallInv
    <3>3. tot_sends'[c] = tot_sends[c] /\ done'[c] = done[c] /\ num_sends'[c] = num_sends[c]
      OBVIOUS
    <3> QED
      BY <1>2, <1>3, <3>1, <3>2, <3>3
  <2> QED
    BY <2>1, <2>2, <2>3, <2>4 DEF CallInv
<1>9. PlacedInv(c)'
  BY <1>1, <1>2, <1>3, <1>7 DEF ConnInv, PlacedInv
<1>10. ConnInv(c)'
  BY <1>6, <1>8, <1>9 DEF ConnInv
<1> QED
  BY <1>4, <1>5, <1>10, OnOneConnection DEF Shared

\* The answer, or the alert, lands in a RECV or is gone.
LEMMA DeliverReplyKeeps ==
    ASSUME IInv, NEW c \in Clients, DeliverReply(c)
    PROVE  IInv'
<1>1. TypeOK /\ ConnInv(c) /\ down[c] > 0
  BY DEF IInv, DeliverReply
<1>2. /\ posted \in [Ends -> [Clients -> Nat]] /\ arrived \in [Ends -> [Clients -> Nat]]
      /\ "client" \in Ends /\ "server" \in Ends
      /\ posted["client"][c] \in Nat /\ arrived["client"][c] \in Nat /\ down[c] \in Nat
  BY <1>1, Counts
<1>3. CASE posted["client"][c] > 0
  <2> USE DEF clientVars, serverVars
  <2>1. /\ down' = [down EXCEPT ![c] = @ - 1]
        /\ posted' = [posted EXCEPT !["client"][c] = @ - 1]
        /\ arrived' = [arrived EXCEPT !["client"][c] = @ + 1]
        /\ UNCHANGED <<clientVars, serverVars, due, cq, up, request_area, crossed, lost>>
    BY <1>3 DEF DeliverReply
  <2>2. down[c] - 1 \in Nat /\ posted["client"][c] - 1 \in Nat /\ arrived["client"][c] + 1 \in Nat
    BY <1>1, <1>2, <1>3
  <2>3. down' \in [Clients -> Nat] /\ down'[c] = down[c] - 1
        /\ \A d \in Clients \ {c} : down'[d] = down[d]
    <3>1. down \in [Clients -> Nat] /\ down' = [down EXCEPT ![c] = down[c] - 1]
      BY <1>1, <2>1 DEF TypeOK
    <3> QED
      BY <2>2, <3>1
  <2>4. /\ posted' \in [Ends -> [Clients -> Nat]] /\ posted'["client"][c] = posted["client"][c] - 1
        /\ \A e \in Ends, d \in Clients : e # "client" \/ d # c => posted'[e][d] = posted[e][d]
    BY <1>2, <2>1, <2>2
  <2>5. /\ arrived' \in [Ends -> [Clients -> Nat]]
        /\ arrived'["client"][c] = arrived["client"][c] + 1
        /\ arrived'["server"] = arrived["server"]
        /\ \A e \in Ends, d \in Clients : e # "client" \/ d # c => arrived'[e][d] = arrived[e][d]
    BY <1>2, <2>1, <2>2
  <2>6. TypeOK'
    BY <1>1, <2>1, <2>3, <2>4, <2>5 DEF TypeOK
  <2>7. \A d \in Clients \ {c} : UNCHANGED At(d)
    BY <1>2, <2>1, <2>3, <2>4, <2>5 DEF At, Promised
  <2>8. PollInv(c)'
    BY <1>1, <2>1 DEF ConnInv, PollInv, Promised
  <2>9. posted'["client"][c] + arrived'["client"][c] = posted["client"][c] + arrived["client"][c]
    BY <1>2, <2>4, <2>5
  <2>10. cpc[c] # "recvs"
    BY <1>1, <1>3 DEF ConnInv, RecvInv
  <2>11. RecvInv(c)'
    BY <1>1, <1>2, <2>1, <2>4, <2>5, <2>9, <2>10 DEF ConnInv, RecvInv, Waiting
  <2>12. Answers(c)' = Answers(c)
    <3>1. Answers(c)' = down'[c] + arrived'["client"][c] /\ Answers(c) = down[c] + arrived["client"][c]
      BY DEF Answers
    <3>2. down'[c] = down[c] - 1 /\ arrived'["client"][c] = arrived["client"][c] + 1
      BY <2>3, <2>5
    <3>3. down[c] \in Nat /\ arrived["client"][c] \in Nat
      BY <1>2
    <3>4. down'[c] + arrived'["client"][c] = down[c] + arrived["client"][c]
      BY <3>2, <3>3
    <3> QED
      BY <3>1, <3>4
  <2>13. Owed(c)' = Owed(c) /\ Unserved(c)' = Unserved(c) /\ Waiting(c)' = Waiting(c)
    BY <2>1, <2>5 DEF Owed, Unserved, Waiting, Taken
  <2>14. CallInv(c)' /\ PlacedInv(c)'
    BY <1>1, <2>1, <2>12, <2>13 DEF ConnInv, CallInv, PlacedInv
  <2>15. ConnInv(c)'
    BY <2>8, <2>11, <2>14 DEF ConnInv
  <2> QED
    BY <2>1, <2>5, <2>6, <2>7, <2>15, OnOneConnection DEF Shared
<1>4. CASE ~(posted["client"][c] > 0)
  BY <1>1, <1>4, LossKeeps DEF DeliverReply
<1> QED
  BY <1>3, <1>4

\* A completion is promised until it is polled for, whichever queue it is in.
LEMMA CompleteKeeps ==
    ASSUME IInv, NEW c \in Clients, NEW q \in Signalled, Complete(q, c)
    PROVE  IInv'
<1> USE DEF Complete, clientVars, serverVars
<1>1. TypeOK /\ ConnInv(c)
  BY DEF IInv
<1>2. /\ due \in [Signalled -> [Clients -> Nat]] /\ cq \in [Signalled -> [Clients -> Nat]]
      /\ due[q][c] \in Nat /\ cq[q][c] \in Nat
      /\ "client" \in Signalled /\ "server" \in Signalled /\ "read" \in Signalled
  BY <1>1, Counts
<1>3. /\ due' = [due EXCEPT ![q][c] = due[q][c] - 1]
      /\ cq' = [cq EXCEPT ![q][c] = cq[q][c] + 1]
      /\ due[q][c] - 1 \in Nat /\ cq[q][c] + 1 \in Nat
  BY <1>2
<1>4. /\ due' \in [Signalled -> [Clients -> Nat]] /\ due'[q][c] = due[q][c] - 1
      /\ \A p \in Signalled, d \in Clients : p # q \/ d # c => due'[p][d] = due[p][d]
  <2> HIDE DEF Complete
  <2> QED
    BY <1>2, <1>3
<1>5. /\ cq' \in [Signalled -> [Clients -> Nat]] /\ cq'[q][c] = cq[q][c] + 1
      /\ \A p \in Signalled, d \in Clients : p # q \/ d # c => cq'[p][d] = cq[p][d]
  <2> HIDE DEF Complete
  <2> QED
    BY <1>2, <1>3
<1>6. TypeOK'
  BY <1>1, <1>4, <1>5 DEF TypeOK
<1>7. Promised(q, c)' = Promised(q, c)
  BY <1>2, <1>4, <1>5 DEF Promised
<1>8. \A p \in Signalled, d \in Clients : Promised(p, d)' = Promised(p, d)
  BY <1>4, <1>5, <1>7 DEF Promised
<1>9. \A d \in Clients : UNCHANGED At(d)
  BY <1>2, <1>8 DEF At
<1>10. ConnInv(c)'
  BY <1>1, <1>9, Elsewhere DEF Shared
<1> QED
  BY <1>6, <1>9, <1>10, OnOneConnection DEF Shared

LEMMA ReadLandsKeeps ==
    ASSUME IInv, NEW c \in Clients, ReadLands(c)
    PROVE  IInv'
<1> USE DEF ReadLands, serverVars, nicVars
<1>1. TypeOK /\ ConnInv(c)
  BY DEF IInv
<1>2. TypeOK'
  BY <1>1 DEF TypeOK
<1>3. \A d \in Clients : UNCHANGED At(d)
  BY DEF At, Promised
<1>4. ConnInv(c)'
  BY <1>1, <1>3, Elsewhere DEF Shared
<1> QED
  BY <1>2, <1>3, <1>4, OnOneConnection DEF Shared

\* A request lands on the requests of the connections that wait to be served,
\* which are crossed from then on; none of them is of its own connection.
LEMMA DeliverRequestKeeps ==
    ASSUME IInv, NEW c \in Clients, DeliverRequest(c)
    PROVE  IInv'
<1>1. TypeOK /\ ConnInv(c) /\ up[c] # <<>>
  BY DEF IInv, DeliverRequest
<1>2. /\ posted \in [Ends -> [Clients -> Nat]] /\ arrived \in [Ends -> [Clients -> Nat]]
      /\ "client" \in Ends /\ "server" \in Ends
      /\ posted["server"][c] \in Nat /\ arrived["server"][c] \in Nat
  BY <1>1, Counts
<1>3. CASE posted["server"][c] > 0
  <2> USE DEF clientVars, serverVars
  <2>1. /\ up' = [up EXCEPT ![c] = Tail(@)]
        /\ posted' = [posted EXCEPT !["server"][c] = @ - 1]
        /\ arrived' = [arrived EXCEPT !["server"][c] = @ + 1]
        /\ request_area' = Head(up[c])
        /\ crossed' = [d \in Clients |-> crossed[d] \/ Unserved(d) > 0]
        /\ UNCHANGED <<clientVars, serverVars, due, cq, down, lost>>
    BY <1>3 DEF DeliverRequest
  <2>2. posted["server"][c] - 1 \in Nat /\ arrived["server"][c] + 1 \in Nat
    BY <1>2, <1>3
  <2>3. /\ Tail(up[c]) = <<>> /\ <<>> \in Seq(Keys) /\ request_area' = <<c, num_sends[c]>>
        /\ <<c, num_sends[c]>> \in Keys /\ Unserved(c) = 0 /\ Owed(c) = 1 /\ Answers(c) = 0
        /\ Taken(c) = 0 /\ arrived["server"][c] = 0
    BY <1>1, <2>1, InFlight
  <2>4. up' \in [Clients -> Seq(Keys)] /\ up'[c] = <<>> /\ \A d \in Clients \ {c} : up'[d] = up[d]
    <3>1. up \in [Clients -> Seq(Keys)] /\ up' = [up EXCEPT ![c] = <<>>]
      BY <1>1, <2>1, <2>3 DEF TypeOK
    <3> QED
      BY <2>3, <3>1
  <2>5. /\ posted' \in [Ends -> [Clients -> Nat]] /\ posted'["server"][c] = posted["server"][c] - 1
        /\ \A e \in Ends, d \in Clients : e # "server" \/ d # c => posted'[e][d] = posted[e][d]
    BY <1>2, <2>1, <2>2
  <2>6. /\ arrived' \in [Ends -> [Clients -> Nat]]
        /\ arrived'["server"][c] = arrived["server"][c] + 1
        /\ \A e \in Ends, d \in Clients : e # "server" \/ d # c => arrived'[e][d] = arrived[e][d]
    BY <1>2, <2>1, <2>2
  <2>7. request_area' \in Keys /\ request_area' # NoKey
    BY <2>3 DEF NoKey, Clients
  <2>8. crossed' \in [Clients -> BOOLEAN]
        /\ \A d \in Clients : ~crossed'[d] => ~crossed[d] /\ ~(Unserved(d) > 0)
    BY <1>1, <2>1 DEF TypeOK
  <2>9. TypeOK'
    BY <1>1, <2>1, <2>4, <2>5, <2>6, <2>7, <2>8 DEF TypeOK
  <2>10. ServerInv'
    BY <2>1, <2>7 DEF IInv, ServerInv
  <2>11. ASSUME NEW d \in Clients, d # c PROVE ConnInv(d)'
    <3>1. ConnInv(d)
      BY DEF IInv
    <3>2. /\ posted'["client"][d] = posted["client"][d] /\ posted'["server"][d] = posted["server"][d]
          /\ arrived'["client"][d] = arrived["client"][d]
          /\ arrived'["server"][d] = arrived["server"][d]
          /\ up'[d] = up[d]
      BY <1>2, <2>4, <2>5, <2>6, <2>11
    <3>3. PollInv(d)' /\ RecvInv(d)'
      BY <2>1, <3>1, <3>2 DEF ConnInv, PollInv, RecvInv, Promised, Waiting
    <3>4. Owed(d)' = Owed(d) /\ Answers(d)' = Answers(d) /\ Unserved(d)' = Unserved(d)
          /\ Waiting(d)' = Waiting(d)
      BY <2>1, <3>2 DEF Owed, Answers, Unserved, Waiting, Taken
    <3>5. CallInv(d)'
      BY <2>1, <3>1, <3>2, <3>4 DEF ConnInv, CallInv
    <3>6. PlacedInv(d)'
      BY <2>1, <2>8, <3>1, <3>4 DEF ConnInv, PlacedInv
    <3> QED
      BY <3>3, <3>5, <3>6 DEF ConnInv
  <2>12. ConnInv(c)'
    <3>1. PollInv(c)'
      BY <1>1, <2>1 DEF ConnInv, PollInv, Promised
    <3>2. posted'["server"][c] + arrived'["server"][c]
            = posted["server"][c] + arrived["server"][c]
      BY <1>2, <2>5, <2>6
    <3>3. RecvInv(c)'
      BY <1>1, <1>2, <2>1, <2>5, <2>6, <3>2 DEF ConnInv, RecvInv, Waiting
    <3>4. Answers(c)' = 0 /\ Waiting(c)' = Waiting(c) /\ Taken(c)' = 0
      <4>1. Answers(c)' = Answers(c)
        BY <1>2, <2>1, <2>6 DEF Answers
      <4> QED
        BY <2>1, <2>3, <4>1 DEF Waiting, Taken
    <3>5. Owed(c)' = 1
      BY <2>3, <2>4, <2>6, <3>4 DEF Owed
    <3>6. CallInv(c)'
      BY <1>1, <2>1, <2>3, <2>4, <3>4, <3>5 DEF ConnInv, CallInv
    <3>7. PlacedInv(c)'
      BY <1>1, <2>1, <2>3, <2>8, <3>4 DEF ConnInv, PlacedInv
    <3> QED
      BY <3>1, <3>3, <3>6, <3>7 DEF ConnInv
  <2> QED
    BY <2>9, <2>10, <2>11, <2>12 DEF IInv
<1>4. CASE ~(posted["server"][c] > 0)
  BY <1>1, <1>4, LossKeeps DEF DeliverRequest
<1> QED
  BY <1>3, <1>4

LEMMA NetworkKeeps ==
    ASSUME IInv, NEW c \in Clients, Network(c)
    PROVE  IInv'
<1>1. CASE DeliverRequest(c)
  BY <1>1, DeliverRequestKeeps
<1>2. CASE DeliverReply(c)
  BY <1>2, DeliverReplyKeeps
<1>3. CASE Lose(c)
  BY <1>3, LossKeeps DEF Lose
<1>4. CASE \E q \in Signalled : Complete(q, c)
  BY <1>4, CompleteKeeps
<1>5. CASE ReadLands(c)
  BY <1>5, ReadLandsKeeps
<1> QED
  BY <1>1, <1>2, <1>3, <1>4, <1>5 DEF Network

-----------------------------------------------------------------------------
(* The server *)

\* The next client is in the range, and the one after the last is the first.
LEMMA NextClients ==
    ASSUME NEW i \in Clients
    PROVE  /\ NextClient(i) \in Clients
           /\ i = NumClients - 1 => NextClient(i) = 0
           /\ i # NumClients - 1 => NextClient(i) = i + 1
  BY DEF NextClient, Clients

\* A connection that the server does not serve, before or after its step.
LEMMA Bystander ==
    ASSUME NEW d \in Clients, ConnInv(d), UNCHANGED At(d), UNCHANGED request_area,
           placed \subseteq placed',
           ~(cn = d /\ spc \in Batch), ~(cn' = d /\ spc' \in Batch),
           spc = "recvs" /\ d >= cn => spc' = "recvs" /\ d >= cn'
    PROVE  ConnInv(d)'
<1> USE DEF At
<1>1. PollInv(d)'
  BY DEF ConnInv, PollInv, Batch
<1>2. RecvInv(d)'
  BY DEF ConnInv, RecvInv, Waiting, Batch
<1>3. Owed(d)' = Owed(d) /\ Answers(d)' = Answers(d) /\ Unserved(d)' = Unserved(d)
  BY DEF Owed, Answers, Unserved, Taken, Batch
<1>4. CallInv(d)'
  BY <1>3 DEF ConnInv, CallInv, Waiting
<1>5. PlacedInv(d)'
  BY <1>3 DEF ConnInv, PlacedInv, Waiting, Batch
<1> QED
  BY <1>1, <1>2, <1>4, <1>5 DEF ConnInv

\* A server that works on a batch works on one request, which is the one that
\* its client waits for.
LEMMA Serving ==
    ASSUME IInv, spc \in Batch
    PROVE  /\ left = 1 /\ Taken(cn) = 1 /\ Owed(cn) = 1 /\ Answers(cn) = 0
           /\ arrived["server"][cn] = 0 /\ arrived["client"][cn] = 0 /\ down[cn] = 0
           /\ up[cn] = <<>> /\ ~Waiting(cn) /\ ws_phase[cn] = "SEND_1"
           /\ tot_sends[cn] # 0 /\ tot_sends[cn] = num_sends[cn] /\ num_sends[cn] = done[cn] + 1
           /\ key \in Keys \cup {NoKey} /\ request_area \in Keys \cup {NoKey} /\ cn \in Clients
<1>1. TypeOK /\ cn \in Clients /\ key \in Keys \cup {NoKey} /\ request_area \in Keys \cup {NoKey}
  BY DEF IInv, TypeOK
<1>2. ConnInv(cn)
  BY <1>1 DEF IInv
<1>3. /\ Owed(cn) \in Nat /\ Answers(cn) \in Nat /\ Taken(cn) \in Nat /\ Taken(cn) >= 1
      /\ arrived["server"][cn] \in Nat /\ arrived["client"][cn] \in Nat /\ down[cn] \in Nat
      /\ tot_sends[cn] \in Nat /\ num_sends[cn] \in Nat /\ done[cn] \in Nat
      /\ Len(up[cn]) \in Nat
  BY <1>1, Numbers, Counts
<1>4. Owed(cn) + Answers(cn) <= 1
  <2>1. Owed(cn) + Answers(cn) <= 1 \/ Owed(cn) + Answers(cn) <= 0
    BY <1>2 DEF ConnInv, CallInv
  <2> QED
    BY <1>3, <2>1
<1>5. Owed(cn) = Len(up[cn]) + arrived["server"][cn] + Taken(cn)
  BY DEF Owed
<1>6. Owed(cn) = 1 /\ Answers(cn) = 0
  BY <1>3, <1>4, <1>5
<1>7. Taken(cn) = 1 /\ arrived["server"][cn] = 0 /\ Len(up[cn]) = 0
  BY <1>3, <1>5, <1>6
<1>8. left = 1
  BY <1>7 DEF Taken
<1>9. down[cn] + arrived["client"][cn] = 0
  BY <1>6 DEF Answers
<1>10. down[cn] = 0 /\ arrived["client"][cn] = 0
  BY <1>3, <1>9
<1>11. up[cn] = <<>>
  <2>1. up[cn] = <<>> \/ up[cn] = << <<cn, num_sends[cn]>> >>
    BY <1>2 DEF ConnInv, CallInv
  <2> QED
    BY <1>7, <2>1
<1>12. ~Waiting(cn) /\ ws_phase[cn] = "SEND_1"
  <2>1. ~Waiting(cn)
    BY <1>2, <1>6 DEF ConnInv, CallInv
  <2>2. Owed(cn) + Answers(cn) <= IF ws_phase[cn] = "SEND_1" THEN 1 ELSE 0
    BY <1>2, <2>1 DEF ConnInv, CallInv
  <2> QED
    BY <1>6, <2>1, <2>2
<1>13. tot_sends[cn] # 0 /\ num_sends[cn] = done[cn] + 1 /\ done[cn] < tot_sends[cn]
       /\ tot_sends[cn] - 1 + Owed(cn) <= num_sends[cn]
  BY <1>2, <1>12 DEF ConnInv, CallInv
<1>14. tot_sends[cn] = num_sends[cn]
  BY <1>3, <1>6, <1>13
<1> QED
  BY <1>1, <1>6, <1>7, <1>8, <1>10, <1>11, <1>12, <1>13, <1>14

\* A step of the server at client c.
LEMMA OnServer ==
    ASSUME IInv, NEW c \in Clients, TypeOK', ServerInv', ConnInv(c)',
           UNCHANGED request_area, placed \subseteq placed',
           \A d \in Clients \ {c} :
                /\ UNCHANGED At(d)
                /\ ~(cn = d /\ spc \in Batch) /\ ~(cn' = d /\ spc' \in Batch)
                /\ spc = "recvs" /\ d >= cn => spc' = "recvs" /\ d >= cn'
    PROVE  IInv'
<1>1. ASSUME NEW d \in Clients, d # c PROVE ConnInv(d)'
  BY <1>1, Bystander DEF IInv
<1> QED
  BY <1>1 DEF IInv

LEMMA ServerPostRecvsKeeps ==
    ASSUME IInv, NEW c \in Clients, cn = c, ServerPostRecvs
    PROVE  IInv'
<1> USE DEF ServerPostRecvs, clientVars
<1>1. TypeOK /\ ConnInv(c) /\ ServerInv /\ spc = "recvs"
  BY DEF IInv
<1>2. /\ posted \in [Ends -> [Clients -> Nat]] /\ posted["server"][c] \in Nat
      /\ arrived["server"][c] \in Nat /\ "client" \in Ends /\ "server" \in Ends
  BY <1>1, Counts
<1>3. tot_recvs[c] = 0 /\ \A d \in Clients : tot_sends[d] = 0 /\ (d >= c => tot_recvs[d] = 0)
  <2>1. c >= c
    BY DEF Clients
  <2> QED
    BY <1>1, <2>1 DEF ServerInv
<1>4. posted["server"][c] = 0 /\ arrived["server"][c] = 0
  <2>1. posted["server"][c] + arrived["server"][c] = 0
    BY <1>1, <1>3 DEF ConnInv, RecvInv
  <2> QED
    BY <1>2, <2>1
<1>5. /\ posted' \in [Ends -> [Clients -> Nat]] /\ posted'["server"][c] = QDepth
      /\ \A e \in Ends, d \in Clients : e # "server" \/ d # c => posted'[e][d] = posted[e][d]
  <2>1. posted' = [posted EXCEPT !["server"][c] = QDepth]
    <3>1. posted' = [posted EXCEPT !["server"][c] = posted["server"][c] + QDepth]
      BY <1>2
    <3>2. posted["server"][c] + QDepth = QDepth
      BY <1>4
    <3> QED
      BY <3>1, <3>2
  <2> HIDE DEF ServerPostRecvs
  <2> QED
    BY <1>2, <2>1
<1>6. /\ tot_recvs' \in [Clients -> 0 .. QDepth] /\ tot_recvs'[c] = QDepth
      /\ \A d \in Clients \ {c} : tot_recvs'[d] = tot_recvs[d]
  <2>1. tot_recvs' = [tot_recvs EXCEPT ![c] = QDepth] /\ QDepth \in 0 .. QDepth
        /\ tot_recvs \in [Clients -> 0 .. QDepth]
    BY <1>1, <1>3 DEF TypeOK
  <2> HIDE DEF ServerPostRecvs
  <2> QED
    BY <2>1
<1>7. /\ cn' \in Clients /\ spc' \in {"recvs", "alert"}
      /\ c = NumClients - 1 => cn' = 0 /\ spc' = "alert"
      /\ c # NumClients - 1 => cn' = c + 1 /\ spc' = "recvs"
  BY NextClients
<1>8. TypeOK'
  BY <1>1, <1>5, <1>6, <1>7 DEF TypeOK
<1>9. \A d \in Clients : /\ spc' = "recvs" => (d >= cn' <=> d >= c /\ d # c)
                         /\ spc' = "alert" => d >= cn' /\ (d >= c => d = c)
  BY <1>7 DEF Clients
<1>10. ServerInv'
  <2>1. ASSUME NEW d \in Clients, spc' = "recvs", d >= cn' PROVE tot_recvs'[d] = 0
    BY <1>3, <1>6, <1>9, <2>1
  <2>2. UNCHANGED <<arrived, request_area, tot_sends>>
    OBVIOUS
  <2> QED
    BY <1>1, <1>3, <1>7, <1>9, <2>1, <2>2 DEF ServerInv, Batch
<1>11. ConnInv(c)'
  <2>1. PollInv(c)'
    BY <1>1, <1>7 DEF ConnInv, PollInv, Promised
  <2>2. RecvInv(c)'
    BY <1>1, <1>2, <1>4, <1>5, <1>6 DEF ConnInv, RecvInv, Waiting
  <2>3. Owed(c)' = Owed(c) /\ Answers(c)' = Answers(c) /\ Unserved(c)' = Unserved(c)
    BY <1>1, <1>7 DEF Owed, Answers, Unserved, Taken, Batch
  <2>4. CallInv(c)' /\ PlacedInv(c)'
    BY <1>1, <1>7, <2>3 DEF ConnInv, CallInv, PlacedInv, Waiting
  <2> QED
    BY <2>1, <2>2, <2>4 DEF ConnInv
<1>12. ASSUME NEW d \in Clients \ {c}
       PROVE  /\ UNCHANGED At(d)
              /\ ~(cn = d /\ spc \in Batch) /\ ~(cn' = d /\ spc' \in Batch)
              /\ spc = "recvs" /\ d >= cn => spc' = "recvs" /\ d >= cn'
  BY <1>1, <1>2, <1>5, <1>6, <1>7, <1>9 DEF At, Promised, Batch
<1> QED
  BY <1>8, <1>10, <1>11, <1>12, OnServer

\* The alert goes to a client that has been sent nothing.
LEMMA ServerAlertKeeps ==
    ASSUME IInv, NEW c \in Clients, cn = c, ServerAlert
    PROVE  IInv'
<1> USE DEF ServerAlert, clientVars
<1>1. TypeOK /\ ConnInv(c) /\ ServerInv /\ spc = "alert"
  BY DEF IInv
<1>2. /\ down[c] \in Nat /\ num_sends[c] \in Nat /\ done[c] \in Nat /\ Promised("server", c) \in Nat
      /\ arrived["client"][c] \in Nat /\ arrived["server"][c] \in Nat /\ Unserved(c) \in Nat
      /\ Answers(c) \in Nat /\ Owed(c) \in Nat /\ Len(up[c]) \in Nat
      /\ "client" \in Signalled /\ "server" \in Signalled /\ "read" \in Signalled
  BY <1>1, Counts, Numbers
<1>3. tot_sends[c] = 0 /\ \A d \in Clients : d >= c <=> tot_sends[d] = 0
  <2>1. c >= c
    BY DEF Clients
  <2> QED
    BY <1>1, <2>1 DEF ServerInv
<1>4. /\ Waiting(c) /\ Answers(c) = 0 /\ Owed(c) = 0 /\ num_sends[c] = 0 /\ ws_phase[c] = "none"
      /\ Promised("server", c) = 0 /\ done[c] = 0
  <2>1. Waiting(c) /\ Answers(c) = 0 /\ Promised("server", c) = 0
    BY <1>1, <1>3 DEF ConnInv, CallInv, PollInv
  <2>2. Owed(c) = 0 /\ num_sends[c] = 0 /\ ws_phase[c] = "none"
    BY <1>1, <2>1 DEF ConnInv, CallInv
  <2>3. num_sends[c] = done[c] + 0
    BY <1>1, <2>2 DEF ConnInv, CallInv
  <2> QED
    BY <1>2, <2>1, <2>2, <2>3
<1>5. down[c] = 0 /\ arrived["client"][c] = 0
  <2>1. down[c] + arrived["client"][c] = 0
    BY <1>4 DEF Answers
  <2> QED
    BY <1>2, <2>1
<1>6. down' \in [Clients -> Nat] /\ down'[c] = 1 /\ \A d \in Clients \ {c} : down'[d] = down[d]
  <2>1. down' = [down EXCEPT ![c] = 1] /\ down \in [Clients -> Nat]
    BY <1>1, <1>5 DEF TypeOK
  <2> HIDE DEF ServerAlert
  <2> QED
    BY <2>1
<1>7. /\ tot_sends' \in [Clients -> Nat] /\ tot_sends'[c] = 1
      /\ \A d \in Clients \ {c} : tot_sends'[d] = tot_sends[d]
  <2>1. tot_sends' = [tot_sends EXCEPT ![c] = 1] /\ tot_sends \in [Clients -> Nat]
    BY <1>1, <1>3 DEF TypeOK
  <2> HIDE DEF ServerAlert
  <2> QED
    BY <2>1
<1>8. /\ due' \in [Signalled -> [Clients -> Nat]]
      /\ Promised("server", c)' = 1
      /\ \A p \in Signalled, d \in Clients :
            p # "server" \/ d # c => Promised(p, d)' = Promised(p, d)
  <2>1. SignalIf("server", c, TRUE) /\ UNCHANGED cq
    OBVIOUS
  <2> HIDE DEF ServerAlert
  <2>2. Promised("server", c)' = Promised("server", c) + 1
    BY <1>1, <1>2, <2>1, Signals
  <2>3. /\ due' \in [Signalled -> [Clients -> Nat]]
        /\ \A p \in Signalled, d \in Clients :
            p # "server" \/ d # c => Promised(p, d)' = Promised(p, d)
    BY <1>1, <1>2, <2>1, Signals
  <2> QED
    BY <1>4, <2>2, <2>3
<1>9. /\ cn' \in Clients /\ spc' \in {"alert", "poll"}
      /\ c = NumClients - 1 => spc' = "poll"
      /\ c # NumClients - 1 => cn' = c + 1 /\ spc' = "alert"
  <2>1. 0 \in Clients
    BY DEF Clients
  <2> QED
    BY <2>1, NextClients
<1>10. TypeOK'
  BY <1>1, <1>6, <1>7, <1>8, <1>9 DEF TypeOK
<1>11. \A d \in Clients : /\ spc' = "alert" => (d >= cn' <=> d >= c /\ d # c)
                          /\ spc' = "poll" => (d >= c => d = c)
  BY <1>9 DEF Clients
<1>12. ServerInv'
  <2>1. ASSUME NEW d \in Clients, spc' = "alert" PROVE d >= cn' <=> tot_sends'[d] = 0
    BY <1>3, <1>7, <1>11, <2>1
  <2>2. ASSUME NEW d \in Clients, spc' = "poll" PROVE tot_sends'[d] # 0
    BY <1>3, <1>7, <1>11, <2>2
  <2>3. UNCHANGED <<arrived, request_area>>
    OBVIOUS
  <2> QED
    BY <1>1, <1>9, <2>1, <2>2, <2>3 DEF ServerInv, Batch
<1>13. ConnInv(c)'
  <2>1. PollInv(c)'
    BY <1>1, <1>2, <1>7, <1>8, <1>9 DEF ConnInv, PollInv
  <2>2. RecvInv(c)'
    BY <1>1, <1>9 DEF ConnInv, RecvInv, Waiting
  <2>3. Waiting(c)' /\ Owed(c)' = 0 /\ Unserved(c)' = Unserved(c)
    BY <1>1, <1>4, <1>9 DEF Waiting, Owed, Unserved, Taken, Batch
  <2>4. Answers(c)' = 1
    BY <1>5, <1>6 DEF Answers
  <2>5. CallInv(c)'
    BY <1>1, <1>4, <1>7, <2>3, <2>4 DEF ConnInv, CallInv
  <2>6. PlacedInv(c)'
    BY <1>1, <1>9, <2>3 DEF ConnInv, PlacedInv
  <2> QED
    BY <2>1, <2>2, <2>5, <2>6 DEF ConnInv
<1>14. ASSUME NEW d \in Clients \ {c}
       PROVE  /\ UNCHANGED At(d)
              /\ ~(cn = d /\ spc \in Batch) /\ ~(cn' = d /\ spc' \in Batch)
              /\ spc = "recvs" /\ d >= cn => spc' = "recvs" /\ d >= cn'
  BY <1>1, <1>2, <1>6, <1>7, <1>8, <1>9 DEF At, Batch
<1> QED
  BY <1>10, <1>12, <1>13, <1>14, OnServer

\* A poll takes completions out of the RECV_cq, and the count goes with them.
LEMMA ServerPollKeeps ==
    ASSUME IInv, NEW c \in Clients, cn = c, ServerPoll
    PROVE  IInv'
<1>1. TypeOK /\ ConnInv(c) /\ ServerInv /\ spc = "poll"
  BY DEF IInv, ServerPoll
<1>2. /\ arrived \in [Ends -> [Clients -> Nat]] /\ arrived["server"][c] \in Nat
      /\ posted["server"][c] \in Nat /\ tot_recvs[c] \in 0 .. QDepth /\ Len(up[c]) \in Nat
      /\ "client" \in Ends /\ "server" \in Ends
  BY <1>1, Counts
<1>3. posted["server"][c] + arrived["server"][c] = tot_recvs[c]
  BY <1>1 DEF ConnInv, RecvInv
<1> DEFINE n == IF arrived["server"][c] < QDepth THEN arrived["server"][c] ELSE QDepth
<1>4. n \in 0 .. QDepth /\ n <= arrived["server"][c] /\ n <= tot_recvs[c]
  BY <1>2, <1>3
<1>5. \/ n = 0 /\ cn' = NextClient(c) /\ UNCHANGED <<spc, tot_recvs, left, arrived>>
      \/ /\ n # 0 /\ arrived' = [arrived EXCEPT !["server"][c] = arrived["server"][c] - n]
         /\ tot_recvs' = [tot_recvs EXCEPT ![c] = tot_recvs[c] - n]
         /\ left' = n /\ spc' = "refill" /\ cn' = cn
  BY <1>2 DEF ServerPoll
<1>6. UNCHANGED <<clientVars, tot_sends, key, placed, posted, due, cq, up, down,
                  request_area, lost, crossed>>
  BY DEF ServerPoll
<1> HIDE DEF n
<1> USE DEF clientVars
<1>7. CASE n = 0
  <2>1. cn' = NextClient(c) /\ UNCHANGED <<spc, tot_recvs, left, arrived>>
    BY <1>5, <1>7
  <2>2. cn' \in Clients
    BY <2>1, NextClients
  <2>3. TypeOK'
    BY <1>1, <1>6, <2>1, <2>2 DEF TypeOK
  <2>4. ServerInv'
    BY <1>1, <1>6, <2>1 DEF ServerInv, Batch
  <2>5. ASSUME NEW d \in Clients
        PROVE  /\ UNCHANGED At(d)
               /\ ~(cn = d /\ spc \in Batch) /\ ~(cn' = d /\ spc' \in Batch)
               /\ spc = "recvs" /\ d >= cn => spc' = "recvs" /\ d >= cn'
    BY <1>1, <1>6, <2>1 DEF At, Promised, Batch
  <2>6. ConnInv(c)'
    BY <1>1, <1>6, <2>5, Bystander
  <2> QED
    BY <1>6, <2>3, <2>4, <2>5, <2>6, OnServer
<1>8. CASE n # 0
  <2>1. /\ arrived' = [arrived EXCEPT !["server"][c] = arrived["server"][c] - n]
        /\ tot_recvs' = [tot_recvs EXCEPT ![c] = tot_recvs[c] - n]
        /\ left' = n /\ spc' = "refill" /\ cn' = c
    BY <1>5, <1>8
  <2>2. arrived["server"][c] - n \in Nat /\ tot_recvs[c] - n \in 0 .. QDepth /\ n >= 1
        /\ arrived["server"][c] > 0
    BY <1>2, <1>4, <1>8
  <2>3. /\ arrived' \in [Ends -> [Clients -> Nat]]
        /\ arrived'["server"][c] = arrived["server"][c] - n
        /\ \A e \in Ends, d \in Clients : e # "server" \/ d # c => arrived'[e][d] = arrived[e][d]
    BY <1>2, <2>1, <2>2
  <2>4. /\ tot_recvs' \in [Clients -> 0 .. QDepth] /\ tot_recvs'[c] = tot_recvs[c] - n
        /\ \A d \in Clients \ {c} : tot_recvs'[d] = tot_recvs[d]
    <3>1. tot_recvs \in [Clients -> 0 .. QDepth]
      BY <1>1 DEF TypeOK
    <3> QED
      BY <2>1, <2>2, <3>1
  <2>5. TypeOK'
    BY <1>1, <1>4, <1>6, <2>1, <2>3, <2>4 DEF TypeOK
  <2>6. ServerInv'
    <3>1. request_area' # NoKey
      BY <1>1, <1>6, <2>2 DEF ServerInv
    <3>2. left' >= 1 /\ spc' = "refill" /\ tot_sends' = tot_sends
      BY <1>6, <2>1, <2>2
    <3> QED
      BY <1>1, <3>1, <3>2 DEF ServerInv
  <2>7. ConnInv(c)'
    <3>1. PollInv(c)'
      BY <1>1, <1>6, <2>1 DEF ConnInv, PollInv, Promised
    <3>2. posted'["server"][c] + arrived'["server"][c] = tot_recvs'[c]
      <4>1. posted["server"][c] + (arrived["server"][c] - n) = tot_recvs[c] - n
        BY <1>2, <1>3, <1>4
      <4> QED
        BY <1>6, <2>3, <2>4, <4>1
    <3>3. RecvInv(c)'
      BY <1>1, <1>2, <1>6, <2>1, <2>3, <3>2 DEF ConnInv, RecvInv, Waiting
    <3>4. Owed(c)' = Owed(c)
      <4>1. Owed(c)' = Len(up[c]) + (arrived["server"][c] - n) + n
        BY <1>6, <2>1, <2>3 DEF Owed, Taken, Batch
      <4>2. Owed(c) = Len(up[c]) + arrived["server"][c] + 0
        BY <1>1 DEF Owed, Taken, Batch
      <4> QED
        BY <1>2, <1>4, <4>1, <4>2
    <3>5. Unserved(c)' = Unserved(c)
      <4>1. Unserved(c)' = (arrived["server"][c] - n) + n
        BY <2>1, <2>3 DEF Unserved
      <4>2. Unserved(c) = arrived["server"][c] + 0
        BY <1>1 DEF Unserved
      <4> QED
        BY <1>2, <1>4, <4>1, <4>2
    <3>6. Answers(c)' = Answers(c) /\ Waiting(c)' = Waiting(c)
      BY <1>2, <1>6, <2>3 DEF Answers, Waiting
    <3>7. CallInv(c)' /\ PlacedInv(c)'
      BY <1>1, <1>6, <2>1, <3>4, <3>5, <3>6 DEF ConnInv, CallInv, PlacedInv
    <3> QED
      BY <3>1, <3>3, <3>7 DEF ConnInv
  <2>8. ASSUME NEW d \in Clients \ {c}
        PROVE  /\ UNCHANGED At(d)
               /\ ~(cn = d /\ spc \in Batch) /\ ~(cn' = d /\ spc' \in Batch)
               /\ spc = "recvs" /\ d >= cn => spc' = "recvs" /\ d >= cn'
    BY <1>1, <1>2, <1>6, <2>1, <2>3, <2>4 DEF At, Promised, Batch
  <2> QED
    BY <1>6, <2>5, <2>6, <2>7, <2>8, OnServer
<1> QED
  BY <1>7, <1>8

\* RECVs are posted again before the batch is served.
LEMMA ServerRefillKeeps ==
    ASSUME IInv, NEW c \in Clients, cn = c, ServerRefill
    PROVE  IInv'
<1> USE DEF clientVars
<1>1. TypeOK /\ ConnInv(c) /\ ServerInv /\ spc = "refill" /\ spc' = "serve" /\ cn' = cn
  BY DEF IInv, ServerRefill
<1>2. /\ posted \in [Ends -> [Clients -> Nat]] /\ posted["server"][c] \in Nat
      /\ arrived["server"][c] \in Nat /\ tot_recvs[c] \in 0 .. QDepth
      /\ "client" \in Ends /\ "server" \in Ends
  BY <1>1, Counts
<1>3. posted["server"][c] + arrived["server"][c] = tot_recvs[c]
  BY <1>1 DEF ConnInv, RecvInv
<1>4. UNCHANGED <<clientVars, tot_sends, left, key, placed, arrived, due, cq, up, down,
                  request_area, lost, crossed>>
  BY DEF ServerRefill
<1>5. /\ posted' \in [Ends -> [Clients -> Nat]] /\ tot_recvs' \in [Clients -> 0 .. QDepth]
      /\ \A e \in Ends, d \in Clients : e # "server" \/ d # c => posted'[e][d] = posted[e][d]
      /\ \A d \in Clients \ {c} : tot_recvs'[d] = tot_recvs[d]
      /\ posted'["server"][c] + arrived["server"][c] = tot_recvs'[c] /\ tot_recvs'[c] >= SDepth
  <2>0. tot_recvs \in [Clients -> 0 .. QDepth]
    BY <1>1 DEF TypeOK
  <2>1. CASE tot_recvs[c] < SDepth
    <3> DEFINE more == posted["server"][c] + (QDepth - tot_recvs[c])
    <3>1. posted' = [posted EXCEPT !["server"][c] = more]
          /\ tot_recvs' = [tot_recvs EXCEPT ![c] = QDepth]
      BY <2>1 DEF ServerRefill, Fill
    <3>2. more \in Nat /\ more + arrived["server"][c] = QDepth /\ QDepth \in 0 .. QDepth
      BY <1>2, <1>3
    <3> HIDE DEF more
    <3>3. /\ posted' \in [Ends -> [Clients -> Nat]] /\ posted'["server"][c] = more
          /\ \A e \in Ends, d \in Clients : e # "server" \/ d # c => posted'[e][d] = posted[e][d]
      BY <1>2, <3>1, <3>2
    <3>4. /\ tot_recvs' \in [Clients -> 0 .. QDepth] /\ tot_recvs'[c] = QDepth
          /\ \A d \in Clients \ {c} : tot_recvs'[d] = tot_recvs[d]
      BY <2>0, <3>1, <3>2
    <3> QED
      BY <3>2, <3>3, <3>4
  <2>2. CASE ~(tot_recvs[c] < SDepth)
    <3>1. UNCHANGED <<posted, tot_recvs>>
      BY <2>2 DEF ServerRefill
    <3>2. tot_recvs[c] >= SDepth
      BY <1>2, <2>2
    <3> QED
      BY <1>2, <1>3, <2>0, <3>1, <3>2
  <2> QED
    BY <2>1, <2>2
<1>6. TypeOK'
  BY <1>1, <1>4, <1>5 DEF TypeOK
<1>7. ServerInv'
  BY <1>1, <1>4 DEF ServerInv, Batch
<1>8. ConnInv(c)'
  <2>1. PollInv(c)'
    BY <1>1, <1>4 DEF ConnInv, PollInv, Promised
  <2>2. posted'["client"][c] = posted["client"][c]
    BY <1>2, <1>5
  <2>3. RecvInv(c)'
    BY <1>1, <1>4, <1>5, <2>2 DEF ConnInv, RecvInv, Waiting
  <2>4. Owed(c)' = Owed(c) /\ Answers(c)' = Answers(c) /\ Unserved(c)' = Unserved(c)
        /\ Waiting(c)' = Waiting(c)
    BY <1>1, <1>4 DEF Owed, Answers, Unserved, Taken, Batch, Waiting
  <2>5. CallInv(c)' /\ PlacedInv(c)'
    BY <1>1, <1>4, <2>4 DEF ConnInv, CallInv, PlacedInv
  <2> QED
    BY <2>1, <2>3, <2>5 DEF ConnInv
<1>9. ASSUME NEW d \in Clients \ {c}
      PROVE  /\ UNCHANGED At(d)
             /\ ~(cn = d /\ spc \in Batch) /\ ~(cn' = d /\ spc' \in Batch)
             /\ spc = "recvs" /\ d >= cn => spc' = "recvs" /\ d >= cn'
  BY <1>1, <1>2, <1>4, <1>5 DEF At, Promised, Batch
<1> QED
  BY <1>4, <1>6, <1>7, <1>8, <1>9, OnServer

\* The key that is taken is that of the client, unless its request was crossed.
LEMMA ServerTakeKeyKeeps ==
    ASSUME IInv, NEW c \in Clients, cn = c, ServerTakeKey
    PROVE  IInv'
<1> USE DEF clientVars, nicVars
<1>1. TypeOK /\ ConnInv(c) /\ ServerInv /\ spc = "serve" /\ spc \in Batch
  BY DEF IInv, ServerTakeKey, Batch
<1>2. key' = request_area /\ spc' = (IF Even(tot_sends[c]) THEN "sendpoll" ELSE "reply")
  BY DEF ServerTakeKey
<1>3. UNCHANGED <<clientVars, cn, tot_recvs, tot_sends, left, placed, nicVars>>
  BY DEF ServerTakeKey
<1>4. /\ left = 1 /\ arrived["server"][c] = 0 /\ Answers(c) = 0 /\ tot_sends[c] # 0
      /\ request_area # NoKey /\ request_area \in Keys \cup {NoKey}
  BY <1>1, Serving DEF ServerInv
<1>5. spc' \in {"sendpoll", "reply"} /\ spc' \in Batch
  BY <1>2 DEF Batch
<1>6. TypeOK'
  BY <1>1, <1>2, <1>3, <1>5 DEF TypeOK
<1>7. ServerInv'
  BY <1>1, <1>2, <1>3, <1>4 DEF ServerInv, Batch
<1>8. ConnInv(c)'
  <2>1. PollInv(c)'
    BY <1>1, <1>2, <1>3, <1>4 DEF ConnInv, PollInv, Promised
  <2>2. RecvInv(c)'
    BY <1>1, <1>3, <1>5 DEF ConnInv, RecvInv, Waiting
  <2>3. Owed(c)' = Owed(c) /\ Answers(c)' = Answers(c) /\ Waiting(c)' = Waiting(c)
    BY <1>1, <1>3, <1>5 DEF Owed, Answers, Taken, Waiting
  <2>4. Unserved(c)' = 0 /\ Unserved(c) = 1
    BY <1>1, <1>3, <1>4, <1>5 DEF Unserved
  <2>5. CallInv(c)'
    BY <1>1, <1>3, <2>3 DEF ConnInv, CallInv
  <2>6. PlacedInv(c)'
    BY <1>1, <1>2, <1>3, <1>4, <2>3, <2>4 DEF ConnInv, PlacedInv
  <2> QED
    BY <2>1, <2>2, <2>5, <2>6 DEF ConnInv
<1>9. ASSUME NEW d \in Clients \ {c}
      PROVE  /\ UNCHANGED At(d)
             /\ ~(cn = d /\ spc \in Batch) /\ ~(cn' = d /\ spc' \in Batch)
             /\ spc = "recvs" /\ d >= cn => spc' = "recvs" /\ d >= cn'
  BY <1>1, <1>3 DEF At, Promised
<1> QED
  BY <1>3, <1>6, <1>7, <1>8, <1>9, OnServer

\* The poll before a signalled answer takes the completion of the one before.
LEMMA ServerSendPollKeeps ==
    ASSUME IInv, NEW c \in Clients, cn = c, ServerSendPoll
    PROVE  IInv'
<1> USE DEF clientVars
<1>1. TypeOK /\ ConnInv(c) /\ ServerInv /\ spc = "sendpoll" /\ spc \in Batch /\ spc' = "reply"
      /\ spc' \in Batch /\ cq["server"][c] > 0
  BY DEF IInv, ServerSendPoll, Batch
<1>2. UNCHANGED <<clientVars, cn, tot_recvs, tot_sends, left, key, placed, posted, arrived,
                  due, up, down, request_area, lost, crossed>>
  BY DEF ServerSendPoll
<1>3. /\ cq \in [Signalled -> [Clients -> Nat]] /\ cq["server"][c] \in Nat
      /\ due["server"][c] \in Nat
      /\ "client" \in Signalled /\ "server" \in Signalled /\ "read" \in Signalled
  BY <1>1, Counts
<1>4. tot_sends[c] # 0 /\ Even(tot_sends[c])
  BY <1>1 DEF ServerInv
<1>5. cq["server"][c] - 1 \in Nat /\ cq' = [cq EXCEPT !["server"][c] = cq["server"][c] - 1]
  BY <1>1, <1>3 DEF ServerSendPoll
<1>6. /\ cq' \in [Signalled -> [Clients -> Nat]] /\ cq'["server"][c] = cq["server"][c] - 1
      /\ \A p \in Signalled, d \in Clients : p # "server" \/ d # c => cq'[p][d] = cq[p][d]
  BY <1>3, <1>5
<1>7. Promised("server", c)' = 0
  <2>1. due["server"][c] + cq["server"][c] = 1
    BY <1>1, <1>4 DEF ConnInv, PollInv, Promised
  <2>2. due["server"][c] + (cq["server"][c] - 1) = 0
    BY <1>3, <2>1
  <2> QED
    BY <1>2, <1>6, <2>2 DEF Promised
<1>8. \A p \in Signalled, d \in Clients :
        p # "server" \/ d # c => Promised(p, d)' = Promised(p, d)
  BY <1>2, <1>6 DEF Promised
<1>9. TypeOK'
  BY <1>1, <1>2, <1>6 DEF TypeOK
<1>10. ServerInv'
  BY <1>1, <1>2 DEF ServerInv
<1>11. ConnInv(c)'
  <2>1. PollInv(c)'
    BY <1>1, <1>2, <1>3, <1>4, <1>7, <1>8 DEF ConnInv, PollInv
  <2>2. RecvInv(c)'
    BY <1>1, <1>2 DEF ConnInv, RecvInv, Waiting
  <2>3. Owed(c)' = Owed(c) /\ Answers(c)' = Answers(c) /\ Unserved(c)' = Unserved(c)
        /\ Waiting(c)' = Waiting(c)
    BY <1>1, <1>2 DEF Owed, Answers, Unserved, Taken, Waiting
  <2>4. CallInv(c)' /\ PlacedInv(c)'
    BY <1>1, <1>2, <2>3 DEF ConnInv, CallInv, PlacedInv
  <2> QED
    BY <2>1, <2>2, <2>4 DEF ConnInv
<1>12. ASSUME NEW d \in Clients \ {c}
       PROVE  /\ UNCHANGED At(d)
              /\ ~(cn = d /\ spc \in Batch) /\ ~(cn' = d /\ spc' \in Batch)
              /\ spc = "recvs" /\ d >= cn => spc' = "recvs" /\ d >= cn'
  BY <1>1, <1>2, <1>3, <1>8 DEF At
<1> QED
  BY <1>2, <1>9, <1>10, <1>11, <1>12, OnServer

\* The one request of the client is answered: the batch is done.
LEMMA ServerReplyKeeps ==
    ASSUME IInv, NEW c \in Clients, cn = c, ServerReply
    PROVE  IInv'
<1> USE DEF clientVars
<1>1. TypeOK /\ ConnInv(c) /\ ServerInv /\ spc = "reply" /\ spc \in Batch
  BY DEF IInv, ServerReply, Batch
<1>2. /\ left = 1 /\ Taken(c) = 1 /\ Owed(c) = 1 /\ Answers(c) = 0 /\ arrived["server"][c] = 0
      /\ arrived["client"][c] = 0 /\ down[c] = 0
      /\ up[c] = <<>> /\ ~Waiting(c) /\ ws_phase[c] = "SEND_1" /\ tot_sends[c] # 0
      /\ tot_sends[c] = num_sends[c] /\ num_sends[c] = done[c] + 1
  BY <1>1, Serving
<1>3. key \in Keys
  BY <1>1, Serving DEF ServerInv
<1>4. UNCHANGED <<clientVars, tot_recvs, key, posted, arrived, cq, up, request_area, lost,
                  crossed>>
  BY DEF ServerReply
<1>5. spc' = "poll" /\ cn' \in Clients /\ left' = 0 /\ placed' = placed \cup {key}
  BY <1>2, NextClients DEF ServerReply
<1>6. /\ Promised("server", c) \in Nat /\ tot_sends[c] \in Nat /\ done[c] \in Nat
      /\ num_sends[c] \in Nat
      /\ "client" \in Signalled /\ "server" \in Signalled /\ "read" \in Signalled
      /\ Even(tot_sends[c]) \in BOOLEAN
  BY <1>1, Counts DEF Even
<1>7. down' \in [Clients -> Nat] /\ down'[c] = 1 /\ \A d \in Clients \ {c} : down'[d] = down[d]
  <2>1. down' = [down EXCEPT ![c] = 1] /\ down \in [Clients -> Nat]
    BY <1>1, <1>2 DEF TypeOK, ServerReply
  <2> QED
    BY <2>1
<1>8. /\ tot_sends' \in [Clients -> Nat] /\ tot_sends'[c] = tot_sends[c] + 1
      /\ \A d \in Clients \ {c} : tot_sends'[d] = tot_sends[d]
  <2>1. tot_sends' = [tot_sends EXCEPT ![c] = tot_sends[c] + 1] /\ tot_sends \in [Clients -> Nat]
    BY <1>1 DEF TypeOK, ServerReply
  <2>2. tot_sends[c] + 1 \in Nat
    BY <1>6, Sums
  <2> QED
    BY <2>1, <2>2
<1>9. /\ due' \in [Signalled -> [Clients -> Nat]]
      /\ Promised("server", c)' = 1
      /\ \A p \in Signalled, d \in Clients :
            p # "server" \/ d # c => Promised(p, d)' = Promised(p, d)
  <2>1. SignalIf("server", c, Even(tot_sends[c])) /\ UNCHANGED cq
    BY DEF ServerReply
  <2>2. Promised("server", c)' =
            IF Even(tot_sends[c]) THEN Promised("server", c) + 1 ELSE Promised("server", c)
    BY <1>1, <1>6, <2>1, Signals
  <2>3. Promised("server", c) = IF Even(tot_sends[c]) THEN 0 ELSE 1
    BY <1>1, <1>2 DEF ConnInv, PollInv
  <2>4. /\ due' \in [Signalled -> [Clients -> Nat]]
        /\ \A p \in Signalled, d \in Clients :
            p # "server" \/ d # c => Promised(p, d)' = Promised(p, d)
    BY <1>1, <1>6, <2>1, Signals
  <2> QED
    BY <2>2, <2>3, <2>4
<1>10. TypeOK'
  <2>1. placed' \subseteq Keys /\ left' \in 0 .. QDepth
    BY <1>1, <1>3, <1>5 DEF TypeOK
  <2> QED
    BY <1>1, <1>4, <1>5, <1>7, <1>8, <1>9, <2>1 DEF TypeOK
<1>11. ServerInv'
  <2>1. ASSUME NEW d \in Clients PROVE tot_sends'[d] # 0
    <3>1. tot_sends[d] # 0
      BY <1>1 DEF ServerInv
    <3> QED
      BY <1>6, <1>8, <3>1
  <2> QED
    BY <1>1, <1>4, <1>5, <2>1 DEF ServerInv, Batch
<1>12. ConnInv(c)'
  <2>1. tot_sends'[c] # 0 /\ tot_sends'[c] - 1 = num_sends[c] /\ done[c] < tot_sends'[c]
    BY <1>2, <1>6, <1>8
  <2>2. PollInv(c)'
    BY <1>1, <1>4, <1>5, <1>6, <1>9, <2>1 DEF ConnInv, PollInv
  <2>3. RecvInv(c)'
    BY <1>1, <1>4, <1>5 DEF ConnInv, RecvInv, Waiting
  <2>4. Answers(c)' = 1
    BY <1>2, <1>4, <1>7 DEF Answers
  <2>5. Owed(c)' = 0 /\ Unserved(c)' = 0 /\ ~Waiting(c)'
    <3>1. Len(up[c]) = 0
      BY <1>2
    <3> QED
      BY <1>2, <1>4, <1>5, <3>1 DEF Owed, Unserved, Taken, Batch, Waiting
  <2>6. CallInv(c)'
    BY <1>1, <1>2, <1>4, <1>6, <2>1, <2>4, <2>5 DEF ConnInv, CallInv
  <2>7. PlacedInv(c)'
    BY <1>1, <1>4, <1>5, <2>5 DEF ConnInv, PlacedInv
  <2> QED
    BY <2>2, <2>3, <2>6, <2>7 DEF ConnInv
<1>13. ASSUME NEW d \in Clients \ {c}
       PROVE  /\ UNCHANGED At(d)
              /\ ~(cn = d /\ spc \in Batch) /\ ~(cn' = d /\ spc' \in Batch)
              /\ spc = "recvs" /\ d >= cn => spc' = "recvs" /\ d >= cn'
  BY <1>1, <1>4, <1>5, <1>6, <1>7, <1>8, <1>9 DEF At, Batch
<1> QED
  BY <1>4, <1>5, <1>10, <1>11, <1>12, <1>13, OnServer

LEMMA NextKeeps == IInv /\ [Next]_vars => IInv'
<1> SUFFICES ASSUME IInv, [Next]_vars PROVE IInv'
  OBVIOUS
<1>1. cn \in Clients
  BY DEF IInv, TypeOK
<1>2. CASE Server
  BY <1>1, <1>2, ServerPostRecvsKeeps, ServerAlertKeeps, ServerPollKeeps, ServerRefillKeeps,
     ServerTakeKeyKeeps, ServerSendPollKeeps, ServerReplyKeeps DEF Server
<1>3. ASSUME NEW c \in Clients, Client(c) PROVE IInv'
  BY <1>3, ClientPostRecvsKeeps, ClientAlertedKeeps, ClientLoopKeeps, ClientReadsKeeps,
     ClientSendsKeeps, ClientPutReturnsKeeps, ClientMovesKeeps, ClientPutKeeps, ClientReadKeeps
     DEF Client
<1>4. ASSUME NEW c \in Clients, ClientFinish(c) PROVE IInv'
  BY <1>4, ClientMovesKeeps
<1>5. ASSUME NEW c \in Clients, Network(c) PROVE IInv'
  BY <1>5, NetworkKeeps
<1>6. CASE UNCHANGED vars
  <2> USE <1>6 DEF vars, clientVars, serverVars, nicVars
  <2>1. TypeOK' /\ ServerInv'
    BY DEF IInv, TypeOK, ServerInv
  <2>2. ASSUME NEW c \in Clients PROVE ConnInv(c)'
    <3>1. UNCHANGED At(c) /\ UNCHANGED Shared
      BY DEF At, Promised, Shared
    <3> QED
      BY <3>1, Elsewhere DEF IInv
  <2> QED
    BY <2>1, <2>2 DEF IInv
<1> QED
  BY <1>2, <1>3, <1>4, <1>5, <1>6 DEF Next
-----------------------------------------------------------------------------
\* The inductive invariant holds at every moment, whatever the interleaving and
\* whatever the network loses.
THEOREM Invariance == Spec => []IInv
<1> QED
  BY InitEstablishes, NextKeeps, PTL DEF Spec

THEOREM TypeCorrect == Spec => []TypeOK
<1>1. IInv => TypeOK
  BY DEF IInv
<1> QED
  BY <1>1, Invariance, PTL

\* No poll_cq of run_client or run_server waits for a completion that was never
\* asked for.
THEOREM NoPollStarves == Spec => []PollsAreFed
<1>1. IInv => PollsAreFed
  <2> SUFFICES ASSUME IInv PROVE PollsAreFed
    OBVIOUS
  <2>1. ASSUME NEW c \in Clients
        PROVE  /\ MustPoll(num_reads[c], old_num_reads[c]) => due["read"][c] + cq["read"][c] > 0
               /\ MustPoll(num_sends[c], old_num_sends[c])
                    => due["client"][c] + cq["client"][c] > 0
    <3>1. /\ Balanced(num_reads[c], old_num_reads[c], Promised("read", c))
          /\ Balanced(num_sends[c], old_num_sends[c], Promised("client", c))
      BY DEF IInv, ConnInv, PollInv
    <3>2. /\ num_reads[c] \in Nat /\ old_num_reads[c] \in Nat /\ Promised("read", c) \in Nat
          /\ num_sends[c] \in Nat /\ old_num_sends[c] \in Nat /\ Promised("client", c) \in Nat
      BY Counts DEF IInv
    <3>3. /\ MustPoll(num_reads[c], old_num_reads[c]) => Promised("read", c) = 1
          /\ MustPoll(num_sends[c], old_num_sends[c]) => Promised("client", c) = 1
      BY <3>1, <3>2, Polls
    <3> QED
      BY <3>3 DEF Promised
  <2>2. ASSUME spc = "sendpoll" PROVE due["server"][cn] + cq["server"][cn] > 0
    <3>1. cn \in Clients /\ tot_sends[cn] # 0
      BY <2>2 DEF IInv, TypeOK, ServerInv
    <3>2. Promised("server", cn) = 1
      BY <2>2, <3>1 DEF IInv, ConnInv, PollInv
    <3> QED
      BY <3>2 DEF Promised
  <2> QED
    BY <2>1, <2>2 DEF PollsAreFed
<1> QED
  BY <1>1, Invariance, PTL

\* A completion queue holds one completion at most, so none overflows however
\* long the server runs.
THEOREM NoQueueFills == Spec => []CompletionsAreTaken
<1>1. IInv => CompletionsAreTaken
  <2> SUFFICES ASSUME IInv, NEW q \in Signalled, NEW c \in Clients
               PROVE  Promised(q, c) <= 1
    BY DEF CompletionsAreTaken, Promised
  <2>1. /\ Balanced(num_reads[c], old_num_reads[c], Promised("read", c))
        /\ Balanced(num_sends[c], old_num_sends[c], Promised("client", c))
        /\ Promised("server", c) = 0 \/ Promised("server", c) = 1
    BY DEF IInv, ConnInv, PollInv
  <2>2. /\ num_reads[c] \in Nat /\ old_num_reads[c] \in Nat /\ Promised("read", c) \in Nat
        /\ num_sends[c] \in Nat /\ old_num_sends[c] \in Nat /\ Promised("client", c) \in Nat
    BY Counts DEF IInv
  <2>3. Promised("read", c) <= 1 /\ Promised("client", c) <= 1
    BY <2>1, <2>2, Polls
  <2>4. Promised("server", c) <= 1
    BY <2>1
  <2> QED
    BY <2>3, <2>4 DEF Signalled
<1> QED
  BY <1>1, Invariance, PTL

\* The receive queues never overflow, and the hand-kept counts are backed.
THEOREM NoRecvTooMany == Spec => []RecvsFit
<1>1. IInv => RecvsFit
  <2> SUFFICES ASSUME IInv, NEW c \in Clients
               PROVE  /\ posted["server"][c] <= QDepth /\ posted["client"][c] <= QDepth
                      /\ posted["server"][c] + arrived["server"][c] >= tot_recvs[c]
                      /\ ~Waiting(c) => posted["client"][c] + arrived["client"][c] >= num_recvs[c]
    BY DEF RecvsFit, Waiting, Ends
  <2>1. RecvInv(c)
    BY DEF IInv, ConnInv
  <2>2. /\ posted["server"][c] \in Nat /\ posted["client"][c] \in Nat
        /\ arrived["server"][c] \in Nat /\ arrived["client"][c] \in Nat
        /\ tot_recvs[c] \in 0 .. QDepth /\ num_recvs[c] \in 0 .. QDepth
    BY Counts DEF IInv
  <2>3. posted["server"][c] + arrived["server"][c] = tot_recvs[c]
    BY <2>1 DEF RecvInv
  <2>4. CASE cpc[c] \in {"recvs", "alert"}
    <3>1. posted["client"][c] = 0 \/ posted["client"][c] + arrived["client"][c] = QDepth
      BY <2>1, <2>4 DEF RecvInv
    <3> QED
      BY <2>2, <2>3, <2>4, <3>1 DEF Waiting
  <2>5. CASE ~Waiting(c)
    <3>1. posted["client"][c] + arrived["client"][c] = num_recvs[c]
      BY <2>1, <2>5 DEF RecvInv
    <3> QED
      BY <2>2, <2>3, <3>1
  <2> QED
    BY <2>4, <2>5 DEF Waiting
<1> QED
  BY <1>1, Invariance, PTL

\* No SEND finds an empty receive queue, but the alert of a client that is late:
\* what is lost from then on, the network lost.
THEOREM RecvWaitsForSend == Spec => []RecvIsThere
<1>1. IInv => RecvIsThere
  <2> SUFFICES ASSUME IInv, NEW c \in Clients
               PROVE  /\ Len(up[c]) <= posted["server"][c]
                      /\ cpc[c] # "recvs" => down[c] <= posted["client"][c]
    BY DEF RecvIsThere
  <2>1. ConnInv(c) /\ ServerInv
    BY DEF IInv
  <2>2. /\ posted["server"][c] \in Nat /\ posted["client"][c] \in Nat
        /\ arrived["client"][c] \in Nat /\ down[c] \in Nat
        /\ tot_recvs[c] \in 0 .. QDepth /\ num_recvs[c] \in 0 .. QDepth
        /\ Owed(c) \in Nat /\ Answers(c) \in Nat
    BY Counts, Numbers DEF IInv
  <2>3. ASSUME up[c] # <<>> PROVE Len(up[c]) <= posted["server"][c]
    <3>1. Len(up[c]) = 1 /\ arrived["server"][c] = 0 /\ Taken(c) = 0 /\ Owed(c) = 1
      BY <2>3, InFlight
    <3>2. ~Waiting(c) /\ tot_sends[c] # 0
      BY <2>1, <3>1 DEF ConnInv, CallInv
    <3>3. spc # "recvs" /\ ~(spc = "refill" /\ cn = c)
      <4>1. ~(cn = c /\ spc \in Batch)
        BY <3>1, Numbers
      <4> QED
        BY <2>1, <3>2, <4>1 DEF ServerInv, Batch
    <3>4. tot_recvs[c] >= SDepth /\ posted["server"][c] + 0 = tot_recvs[c]
      BY <2>1, <3>1, <3>3 DEF ConnInv, RecvInv
    <3> QED
      BY <2>2, <3>1, <3>4
  <2>4. ASSUME up[c] = <<>> PROVE Len(up[c]) <= posted["server"][c]
    <3>1. Len(up[c]) = 0
      BY <2>4
    <3> QED
      BY <2>2, <3>1
  <2>5. ASSUME cpc[c] # "recvs" PROVE down[c] <= posted["client"][c]
    <3>1. down[c] + arrived["client"][c] <= 1
      <4>1. Owed(c) + Answers(c) <= 1 \/ Owed(c) + Answers(c) <= 0
        BY <2>1 DEF ConnInv, CallInv
      <4>2. Answers(c) <= 1
        BY <2>2, <4>1
      <4> QED
        BY <4>2 DEF Answers
    <3>2. posted["client"][c] + arrived["client"][c] >= 1
      <4>1. CASE cpc[c] = "alert"
        <5>1. posted["client"][c] + arrived["client"][c] = QDepth
          BY <2>1, <4>1 DEF ConnInv, RecvInv
        <5> QED
          BY <2>2, <5>1
      <4>2. CASE ~Waiting(c)
        <5>1. posted["client"][c] + arrived["client"][c] = num_recvs[c]
              /\ num_recvs[c] >= SDepth - 1
          BY <2>1, <4>2 DEF ConnInv, RecvInv
        <5> QED
          BY <2>2, <5>1
      <4> QED
        BY <2>5, <4>1, <4>2 DEF Waiting
    <3>3. posted["client"][c] \in Nat /\ arrived["client"][c] \in Nat /\ down[c] \in Nat
      BY <2>2
    <3> QED
      BY <3>1, <3>2, <3>3
  <2> QED
    BY <2>3, <2>4, <2>5
<1> QED
  BY <1>1, Invariance, PTL

\* The key of an answered PUT was placed, unless another request landed on it.
THEOREM PlacedUnlessCrossed == Spec => []UncrossedIsPlaced
<1>1. IInv => UncrossedIsPlaced
  BY DEF IInv, ConnInv, PlacedInv, UncrossedIsPlaced
<1> QED
  BY <1>1, Invariance, PTL
-----------------------------------------------------------------------------
(* The refinement *)

\* What the abstract specification sees of the server.
Served == [c \in Clients |-> IF tot_sends[c] = 0 THEN 0 ELSE tot_sends[c] - 1]

\* A client calls when the PUT before has returned.
LEMMA PutIsCall ==
    ASSUME IInv, NEW c \in Clients, ClientPut(c)
    PROVE  Rpc!Call(c)
<1>1. done[c] = num_sends[c]
  <2>1. num_sends[c] = done[c] + 0 /\ done[c] \in Nat
    BY Counts DEF IInv, ConnInv, CallInv, ClientPut
  <2> QED
    BY <2>1
<1>2. num_sends' = [num_sends EXCEPT ![c] = @ + 1] /\ UNCHANGED <<tot_sends, done>>
  BY DEF ClientPut, serverVars
<1> QED
  BY <1>1, <1>2 DEF Rpc!Call

\* An answer returns the call that was served last.
LEMMA PutReturnsIsReturn ==
    ASSUME IInv, NEW c \in Clients, ClientPutReturns(c)
    PROVE  Rpc!Return(c)
<1>1. /\ arrived["client"][c] \in Nat /\ arrived["client"][c] > 0 /\ down[c] \in Nat
      /\ tot_sends[c] \in Nat /\ done[c] \in Nat /\ num_sends[c] \in Nat
      /\ ~Waiting(c) /\ ws_phase[c] = "SEND_1" /\ ConnInv(c)
  BY Counts DEF IInv, ClientPutReturns, Waiting
<1>2. Answers(c) > 0
  BY <1>1 DEF Answers
<1>3. tot_sends[c] # 0 /\ tot_sends[c] - 1 = num_sends[c] /\ num_sends[c] = done[c] + 1
  BY <1>1, <1>2 DEF ConnInv, CallInv
<1>4. done[c] < Served[c]
  BY <1>1, <1>3 DEF Served
<1>5. done' = [done EXCEPT ![c] = @ + 1] /\ UNCHANGED <<num_sends, tot_sends>>
  BY DEF ClientPutReturns, serverVars
<1> QED
  BY <1>4, <1>5 DEF Rpc!Return, Served

\* An answer of the server serves the call that is out.
LEMMA ReplyIsServe ==
    ASSUME IInv, NEW c \in Clients, cn = c, ServerReply
    PROVE  Rpc!Serve(c)
<1>1. tot_sends[c] # 0 /\ tot_sends[c] = num_sends[c]
  BY Serving DEF ServerReply, Batch
<1>2. tot_sends[c] \in Nat /\ tot_sends \in [Clients -> Nat]
  BY Counts DEF IInv, TypeOK
<1>3. Served[c] = tot_sends[c] - 1 /\ Served[c] < num_sends[c]
  BY <1>1, <1>2 DEF Served
<1>4. tot_sends' = [tot_sends EXCEPT ![c] = tot_sends[c] + 1] /\ UNCHANGED <<num_sends, done>>
  BY DEF ServerReply, clientVars
<1>5. Served' = [Served EXCEPT ![c] = Served[c] + 1]
  <2>1. tot_sends'[c] = tot_sends[c] + 1 /\ \A d \in Clients \ {c} : tot_sends'[d] = tot_sends[d]
    BY <1>2, <1>4
  <2>2. Served'[c] = Served[c] + 1
    BY <1>1, <1>2, <1>3, <2>1 DEF Served
  <2>3. \A d \in Clients \ {c} : Served'[d] = Served[d]
    BY <2>1 DEF Served
  <2> QED
    BY <2>2, <2>3 DEF Served
<1> QED
  BY <1>3, <1>4, <1>5 DEF Rpc!Serve, Served

\* The alert serves no call.
LEMMA AlertServesNone ==
    ASSUME IInv, NEW c \in Clients, cn = c, ServerAlert
    PROVE  UNCHANGED <<num_sends, Served, done>>
<1>1. tot_sends[c] = 0
  <2>1. c >= c
    BY DEF Clients
  <2> QED
    BY <2>1 DEF IInv, ServerInv, ServerAlert
<1>2. tot_sends' = [tot_sends EXCEPT ![c] = 1] /\ tot_sends \in [Clients -> Nat]
  BY <1>1 DEF ServerAlert, IInv, TypeOK
<1>3. tot_sends'[c] = 1 /\ \A d \in Clients \ {c} : tot_sends'[d] = tot_sends[d]
  BY <1>2
<1>4. ASSUME NEW d \in Clients
      PROVE  (IF tot_sends'[d] = 0 THEN 0 ELSE tot_sends'[d] - 1)
                = (IF tot_sends[d] = 0 THEN 0 ELSE tot_sends[d] - 1)
  BY <1>1, <1>3
<1>5. Served' = Served
  BY <1>4 DEF Served
<1> QED
  BY <1>5 DEF ServerAlert, clientVars

LEMMA StepRefines == IInv /\ [Next]_vars => [Rpc!RpcNext]_(Rpc!rpcVars)
<1> SUFFICES ASSUME IInv, [Next]_vars PROVE [Rpc!RpcNext]_(Rpc!rpcVars)
  OBVIOUS
<1>1. UNCHANGED <<num_sends, tot_sends, done>> => UNCHANGED Rpc!rpcVars
  BY DEF Rpc!rpcVars
<1>2. cn \in Clients
  BY DEF IInv, TypeOK
<1>3. CASE Server
  <2>1. CASE ServerReply
    BY <1>2, <2>1, ReplyIsServe DEF Rpc!RpcNext
  <2>2. CASE ServerAlert
    BY <1>2, <2>2, AlertServesNone DEF Rpc!rpcVars, Served
  <2>3. CASE ServerPostRecvs \/ ServerPoll \/ ServerRefill \/ ServerTakeKey \/ ServerSendPoll
    BY <1>1, <2>3 DEF ServerPostRecvs, ServerPoll, ServerRefill, ServerTakeKey, ServerSendPoll,
                      clientVars
  <2> QED
    BY <1>3, <2>1, <2>2, <2>3 DEF Server
<1>4. ASSUME NEW c \in Clients, Client(c) \/ ClientFinish(c)
      PROVE  [Rpc!RpcNext]_(Rpc!rpcVars)
  <2>1. CASE ClientPut(c)
    BY <2>1, PutIsCall DEF Rpc!RpcNext
  <2>2. CASE ClientPutReturns(c)
    BY <2>2, PutReturnsIsReturn DEF Rpc!RpcNext
  <2>3. CASE ClientPostRecvs(c) \/ ClientAlerted(c) \/ ClientLoop(c) \/ ClientReads(c)
              \/ ClientSends(c)
    BY <1>1, <2>3 DEF ClientPostRecvs, ClientAlerted, ClientLoop, ClientReads, ClientSends,
                      serverVars
  <2>4. CASE ClientReadReturns(c) \/ ClientNothingToComplete(c) \/ ClientRead(c) \/ ClientFinish(c)
    BY <1>1, <2>4 DEF ClientReadReturns, ClientNothingToComplete, ClientRead, ClientFinish,
                      serverVars
  <2> QED
    BY <1>4, <2>1, <2>2, <2>3, <2>4 DEF Client
<1>5. ASSUME NEW c \in Clients, Network(c)
      PROVE  [Rpc!RpcNext]_(Rpc!rpcVars)
  BY <1>1, <1>5 DEF Network, DeliverRequest, DeliverReply, Lose, Complete, ReadLands,
                    clientVars, serverVars
<1>6. CASE UNCHANGED vars
  BY <1>1, <1>6 DEF vars, clientVars, serverVars
<1> QED
  BY <1>3, <1>4, <1>5, <1>6 DEF Next

\* Each PUT is served at most once and answered only after it was served, for
\* any number of clients and whatever is lost.
THEOREM FlowImplementsRpc == Spec => ImplementsRpc
<1>1. Init => Rpc!RpcInit
  BY DEF Init, Rpc!RpcInit
<1> QED
  BY <1>1, Invariance, StepRefines, PTL DEF Spec, ImplementsRpc, Rpc!RpcSpec
=============================================================================
