-------------------------------- MODULE Bench --------------------------------
(***************************************************************************)
(* The benchmark clients Redis/redis_client_struct.c and                   *)
(* Memcached/memcached.c: threads that call a server in a loop, an alarm   *)
(* that first starts the counting and then ends the loop, and a main that  *)
(* adds up what the threads counted. program, chosen once, says which of   *)
(* the two runs. Memcached's threads and main meet at a barrier before the *)
(* alarm is set, where Redis has the barrier in a comment; Redis exits     *)
(* when a thread cannot connect, Memcached when a thread cannot start or   *)
(* read the event counters; and the two time stamps of a request are       *)
(* variables of the thread in Redis, shared by all threads in Memcached.   *)
(***************************************************************************)
EXTENDS Integers

CONSTANTS
    NumThreads,     \* nthreads
    Programs,       \* the programs to look at
    Times,          \* the values of testtime and warmup to look at
    MaxOps          \* bound: requests that a thread counts

ASSUME ThreadsAssumption == NumThreads \in Nat \ {0}
ASSUME ProgramsAssumption == Programs \subseteq {"Redis", "Memcached"}
ASSUME TimesAssumption == Times \subseteq Nat
ASSUME OpsAssumption == MaxOps \in Nat

VARIABLES
    program, testtime, warmup,
    tpc,                \* where each thread is in my_thread
    mpc,                \* where main is
    i,                  \* the thread that main creates or joins next
    start_counting, execution_status,
    iter,               \* start_count has not run yet
    armed,              \* an alarm is set
    iteration,          \* requests that each thread has counted
    ops,                \* ops[t], which the thread stores when it ends
    stamp,              \* stamp[k]: the threads and rounds of start and end
    samples,            \* how many latencies are added up in lats[t].time
    foreign,            \* history: those not taken between stamps of one request of t
    counted             \* what main has added to totops for each thread

vars == <<program, testtime, warmup, tpc, mpc, i, start_counting, execution_status, iter,
          armed, iteration, ops, stamp, samples, foreign, counted>>
-----------------------------------------------------------------------------
Threads == 0 .. NumThreads - 1
None == <<-1, 0>>               \* a time stamp that was never taken
Stamps == {None} \cup (Threads \X Nat)

\* Mutant: the stamps are shared in either program.
StampShared(t) == 0

\* Where the stamps of a thread are: its own, or those that all threads share.
StampOf(t) == IF program = "Redis" THEN t ELSE 0

TypeOK ==
    /\ program \in Programs /\ testtime \in Times /\ warmup \in Times
    /\ tpc \in [Threads -> {"off", "load", "connect", "barrier", "counters", "loop",
                            "request", "after", "sample", "done"}]
    /\ mpc \in {"create", "barrier", "alarm", "join", "report", "exit"}
    /\ i \in 0 .. NumThreads
    /\ start_counting \in BOOLEAN /\ execution_status \in BOOLEAN
    /\ iter \in BOOLEAN /\ armed \in BOOLEAN
    /\ iteration \in [Threads -> Nat] /\ samples \in [Threads -> Nat]
    /\ ops \in [Threads -> Nat] /\ foreign \in [Threads -> Nat]
    /\ stamp \in [Threads -> [start : Stamps, end : Stamps]]
    /\ counted \in [Threads -> Nat]

Init ==
    /\ program \in Programs /\ testtime \in Times /\ warmup \in Times
    /\ tpc = [t \in Threads |-> "off"]
    /\ mpc = "create" /\ i = 0
    /\ start_counting = FALSE /\ execution_status = TRUE
    /\ iter = TRUE /\ armed = FALSE
    /\ iteration = [t \in Threads |-> 0] /\ ops = [t \in Threads |-> 0]
    /\ stamp = [t \in Threads |-> [start |-> None, end |-> None]]
    /\ samples = [t \in Threads |-> 0] /\ foreign = [t \in Threads |-> 0]
    /\ counted = [t \in Threads |-> 0]

\* The process is there: no thread has called exit() and main has not returned.
Alive == mpc # "exit"
Goto(t, l) == tpc' = [tpc EXCEPT ![t] = l]
config == <<program, testtime, warmup>>
flags == <<start_counting, execution_status, iter, armed>>
counts == <<iteration, ops, stamp, samples, foreign, counted>>
-----------------------------------------------------------------------------
\* Mutant: the first alarm does not set the second one.
StartCountOnce ==
    /\ Alive /\ armed
    /\ start_counting' = TRUE /\ iter' = FALSE /\ armed' = FALSE
    /\ UNCHANGED <<config, execution_status, tpc, mpc, i, counts>>

\* start_count: the first alarm starts the counting and sets the second one,
\* which ends the loops. alarm(0) sets none, and a negative time is one that
\* never comes.
StartCount ==
    /\ Alive /\ armed
    /\ IF iter
       THEN /\ start_counting' = TRUE /\ iter' = FALSE
            /\ armed' = (testtime > warmup)
            /\ UNCHANGED execution_status
       ELSE /\ execution_status' = FALSE /\ armed' = FALSE
            /\ UNCHANGED <<start_counting, iter>>
    /\ UNCHANGED <<config, tpc, mpc, i, counts>>
-----------------------------------------------------------------------------
(***************************************************************************)
(* my_thread                                                               *)
(***************************************************************************)
\* A thread reads the file of keys.
LoadKeys(t) ==
    /\ Alive /\ tpc[t] = "load"
    /\ Goto(t, "connect")
    /\ UNCHANGED <<config, mpc, i, flags, counts>>

RedisConnect(t) ==
    /\ Alive /\ tpc[t] = "connect" /\ program = "Redis"
    /\ Goto(t, "loop")
    /\ UNCHANGED <<config, mpc, i, flags, counts>>

\* A server that cannot be added is only reported.
MemcachedConnect(t) ==
    /\ Alive /\ tpc[t] = "connect" /\ program = "Memcached"
    /\ Goto(t, "barrier")
    /\ UNCHANGED <<config, mpc, i, flags, counts>>

\* Mutant: the barrier is there for main only.
BarrierIgnoresThreads == mpc = "barrier"

\* The barrier opens when all threads and main wait at it.
BarrierIsFull == mpc = "barrier" /\ \A t \in Threads : tpc[t] = "barrier"
OpenBarrier ==
    /\ BarrierIsFull
    /\ tpc' = [t \in Threads |-> IF tpc[t] = "barrier" THEN "counters" ELSE tpc[t]]
    /\ mpc' = "alarm"
    /\ UNCHANGED <<config, i, flags, counts>>

\* Memcached's threads start the processor's event counters.
StartCounters(t) ==
    /\ Alive /\ tpc[t] = "counters"
    /\ Goto(t, "loop")
    /\ UNCHANGED <<config, mpc, i, flags, counts>>

\* The head of the loop: with start_counting set, the request is counted and
\* start is taken.
BeginRequest(t) ==
    /\ Alive /\ tpc[t] = "loop" /\ execution_status
    /\ IF start_counting
       THEN /\ iteration[t] < MaxOps
            /\ iteration' = [iteration EXCEPT ![t] = @ + 1]
            /\ stamp' = [stamp EXCEPT ![StampOf(t)].start = <<t, iteration[t] + 1>>]
       ELSE UNCHANGED <<iteration, stamp>>
    /\ Goto(t, "request")
    /\ UNCHANGED <<config, mpc, i, flags, ops, samples, foreign, counted>>

\* The call of the client library, which returns.
Request(t) ==
    /\ Alive /\ tpc[t] = "request"
    /\ Goto(t, "after")
    /\ UNCHANGED <<config, mpc, i, flags, counts>>

\* Mutant: the last latency is not taken when the loop is about to end.
EndRequestUnlessEnded(t) ==
    /\ Alive /\ tpc[t] = "after"
    /\ IF start_counting /\ execution_status
       THEN /\ stamp' = [stamp EXCEPT ![StampOf(t)].end = <<t, iteration[t]>>]
            /\ Goto(t, "sample")
       ELSE Goto(t, "loop") /\ UNCHANGED stamp
    /\ UNCHANGED <<config, mpc, i, flags, iteration, ops, samples, foreign, counted>>

EndRequest(t) ==
    /\ Alive /\ tpc[t] = "after"
    /\ IF start_counting
       THEN /\ stamp' = [stamp EXCEPT ![StampOf(t)].end = <<t, iteration[t]>>]
            /\ Goto(t, "sample")
       ELSE Goto(t, "loop") /\ UNCHANGED stamp
    /\ UNCHANGED <<config, mpc, i, flags, iteration, ops, samples, foreign, counted>>

\* lats[id].time += end - start, with the stamps read again.
IsOwn(t) ==
    /\ iteration[t] > 0
    /\ stamp[StampOf(t)] = [start |-> <<t, iteration[t]>>, end |-> <<t, iteration[t]>>]
TakeSample(t) ==
    /\ Alive /\ tpc[t] = "sample"
    /\ samples' = [samples EXCEPT ![t] = @ + 1]
    /\ foreign' = IF IsOwn(t) THEN foreign ELSE [foreign EXCEPT ![t] = @ + 1]
    /\ Goto(t, "loop")
    /\ UNCHANGED <<config, mpc, i, flags, iteration, ops, stamp, counted>>

EndThread(t) ==
    /\ Alive /\ tpc[t] = "loop" /\ ~execution_status
    /\ ops' = [ops EXCEPT ![t] = iteration[t]]
    /\ Goto(t, "done")
    /\ UNCHANGED <<config, mpc, i, flags, iteration, stamp, samples, foreign, counted>>

\* A call of a thread fails and the process exits: there is no file of keys,
\* no connection (in Redis), no event counters or no result of them.
ThreadFails(t) ==
    /\ Alive
    /\ \/ tpc[t] = "load"
       \/ tpc[t] = "connect" /\ program = "Redis"
       \/ tpc[t] = "counters"
       \/ tpc[t] = "loop" /\ ~execution_status /\ program = "Memcached"
    /\ mpc' = "exit"
    /\ UNCHANGED <<config, tpc, i, flags, counts>>

Thread(t) ==
    \/ LoadKeys(t) \/ RedisConnect(t) \/ MemcachedConnect(t) \/ StartCounters(t)
    \/ BeginRequest(t) \/ Request(t) \/ EndRequest(t) \/ TakeSample(t) \/ EndThread(t)
-----------------------------------------------------------------------------
(***************************************************************************)
(* main                                                                    *)
(***************************************************************************)
\* Mutant: one thread more is created.
CreateThreadTooMany ==
    /\ mpc = "create" /\ i <= NumThreads
    /\ Goto(i, "load")
    /\ i' = i + 1
    /\ UNCHANGED <<config, mpc, flags, counts>>

CreateThread ==
    /\ mpc = "create" /\ i < NumThreads
    /\ Goto(i, "load")
    /\ i' = i + 1
    /\ UNCHANGED <<config, mpc, flags, counts>>

\* A barrier or a thread cannot be created.
CreateFails ==
    /\ mpc = "create" /\ i < NumThreads
    /\ mpc' = "exit"
    /\ UNCHANGED <<config, tpc, i, flags, counts>>

RedisCreated ==
    /\ mpc = "create" /\ i = NumThreads /\ program = "Redis"
    /\ mpc' = "alarm"
    /\ UNCHANGED <<config, tpc, i, flags, counts>>

MemcachedCreated ==
    /\ mpc = "create" /\ i = NumThreads /\ program = "Memcached"
    /\ mpc' = "barrier"
    /\ UNCHANGED <<config, tpc, i, flags, counts>>

SetAlarm ==
    /\ mpc = "alarm"
    /\ armed' = (warmup > 0)
    /\ mpc' = "join" /\ i' = 0
    /\ UNCHANGED <<config, tpc, start_counting, execution_status, iter, counts>>

\* Mutant: main adds up without waiting for the threads.
JoinWithoutWaiting ==
    /\ mpc = "join" /\ i < NumThreads
    /\ counted' = [counted EXCEPT ![i] = ops[i]]
    /\ i' = i + 1
    /\ UNCHANGED <<config, tpc, mpc, flags, iteration, ops, stamp, samples, foreign>>

JoinThread ==
    /\ mpc = "join" /\ i < NumThreads
    /\ tpc[i] = "done"
    /\ counted' = [counted EXCEPT ![i] = ops[i]]
    /\ i' = i + 1
    /\ UNCHANGED <<config, tpc, mpc, flags, iteration, ops, stamp, samples, foreign>>

Report ==
    /\ mpc = "join" /\ i = NumThreads
    /\ mpc' = "report"
    /\ UNCHANGED <<config, tpc, i, flags, counts>>

Main ==
    \/ CreateThread \/ RedisCreated \/ MemcachedCreated \/ OpenBarrier
    \/ SetAlarm \/ JoinThread \/ Report

Next ==
    \/ StartCount \/ Main \/ CreateFails
    \/ \E t \in Threads : Thread(t) \/ ThreadFails(t)

\* Alarms strike, the operating system runs main and the threads, and the
\* calls of the client libraries return. No call need fail.
Fairness == WF_vars(StartCount) /\ WF_vars(Main) /\ \A t \in Threads : WF_vars(Thread(t))

Spec == Init /\ [][Next]_vars
FairSpec == Spec /\ Fairness
-----------------------------------------------------------------------------
\* Memcached: no thread is counted while another still loads its keys or
\* connects, because the alarm is set behind the barrier.
CountsTogether ==
    program = "Memcached" /\ start_counting =>
        \A t \in Threads : tpc[t] \notin {"off", "load", "connect", "barrier"}

\* What the latencies are divided by: between two requests a thread has added
\* one latency for every request it has counted, and at most one more, of the
\* request in which the first alarm struck.
RequestsAreSampled ==
    \A t \in Threads : tpc[t] \in {"loop", "done"} =>
        samples[t] - iteration[t] \in {0, 1}

\* Redis: but for that one, each latency is between two stamps of one request
\* of the thread itself.
SamplesAreOwn ==
    program = "Redis" =>
        \A t \in Threads : tpc[t] \in {"loop", "done"} =>
            foreign[t] = samples[t] - iteration[t]

\* What main reports is what all threads have counted, when none counts any
\* more; and the time it divides by is not zero.
ReportIsComplete ==
    mpc = "report" =>
        /\ testtime > warmup
        /\ \A t \in Threads : tpc[t] = "done" /\ counted[t] = iteration[t]

\* With a warm-up, and a test time beyond it, the program ends.
ProgramEnds == 0 < warmup /\ warmup < testtime => <>(mpc \in {"report", "exit"})

=============================================================================
