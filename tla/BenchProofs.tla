------------------------------ MODULE BenchProofs ------------------------------
(***************************************************************************)
(* Theorems about Bench, for any number of threads, any times and any      *)
(* number of requests. The invariant has five parts beside the types: what *)
(* the alarms have done so far, who has passed the barrier, how latencies  *)
(* and requests of a thread are balanced in each place of its loop, whose  *)
(* stamps it finds there in Redis, and what main may rely on when it adds  *)
(* a thread's counts.                                                      *)
(***************************************************************************)
EXTENDS Bench, TLAPS

Early == {"off", "load", "connect", "barrier"}
Fresh == Early \cup {"counters"}
Busy == {"request", "after", "sample"}
Idle == {"loop", "done"}
Zero(t) == iteration[t] = 0 /\ samples[t] = 0 /\ foreign[t] = 0

AlarmInv ==
    /\ mpc \in {"create", "barrier", "alarm"} => ~armed /\ iter
    /\ iter => ~start_counting /\ execution_status
    /\ armed /\ ~iter => warmup < testtime
    /\ ~execution_status => warmup < testtime

BarrierInv ==
    program = "Memcached" /\ (armed \/ start_counting \/ mpc \in {"alarm", "join", "report"}) =>
        \A t \in Threads : tpc[t] \notin Early

CountOf(t) ==
    /\ ~start_counting \/ tpc[t] \in Fresh => Zero(t)
    /\ ~start_counting => tpc[t] # "sample"
    /\ tpc[t] \in Idle => samples[t] - iteration[t] \in {0, 1}
    /\ tpc[t] \in Busy => iteration[t] - samples[t] \in {0, 1}
CountInv == \A t \in Threads : CountOf(t)

StampsOf(t) ==
    /\ tpc[t] \in Idle => foreign[t] = samples[t] - iteration[t]
    /\ tpc[t] \in Busy =>
        \/ Zero(t)
        \/ /\ iteration[t] > 0 /\ stamp[t].start = <<t, iteration[t]>>
           /\ foreign[t] = samples[t] - iteration[t] + 1
    /\ tpc[t] = "sample" => stamp[t].end = <<t, iteration[t]>>
StampInv == program = "Redis" => \A t \in Threads : StampsOf(t)

JoinInv ==
    /\ mpc = "report" => i = NumThreads
    /\ \A t \in Threads :
        /\ tpc[t] = "done" => ~execution_status /\ ops[t] = iteration[t]
        /\ mpc \in {"join", "report"} /\ t < i => tpc[t] = "done" /\ counted[t] = iteration[t]

IInv == TypeOK /\ AlarmInv /\ BarrierInv /\ CountInv /\ StampInv /\ JoinInv

USE ThreadsAssumption, TimesAssumption
    DEF Threads, Goto, Alive, config, flags, counts, Early, Fresh, Busy, Idle, Zero

\* All counts are zero and no flag is set.
LEMMA InitEstablishes == Init => IInv
<1> SUFFICES ASSUME Init PROVE IInv
  OBVIOUS
<1>1. TypeOK
  BY 0 \in 0 .. NumThreads DEF Init, TypeOK, Stamps
<1>2. AlarmInv /\ BarrierInv
  BY DEF Init, AlarmInv, BarrierInv
<1>3. CountInv /\ StampInv
  BY DEF Init, CountInv, CountOf, StampInv, StampsOf
<1>4. JoinInv
  BY DEF Init, JoinInv
<1> QED
  BY <1>1, <1>2, <1>3, <1>4 DEF IInv

\* One lemma per action of main and the alarm.
LEMMA StartCountKeeps ==
    ASSUME IInv, StartCount
    PROVE  IInv'
<1>1. TypeOK'
  <2>1. armed' \in BOOLEAN
    <3>1. CASE testtime > warmup
      BY <3>1 DEF IInv, StartCount, TypeOK
    <3>2. CASE ~(testtime > warmup)
      <4>1. (testtime > warmup) = FALSE
        BY <3>2
      <4>2. armed' = FALSE
        BY <4>1 DEF StartCount
      <4> QED
        BY <4>2
    <3> QED
      BY <3>1, <3>2
  <2>2. UNCHANGED <<config, tpc, mpc, i, counts>>
    BY DEF StartCount
  <2>3. start_counting' \in BOOLEAN /\ execution_status' \in BOOLEAN /\ iter' \in BOOLEAN
    BY DEF IInv, StartCount, TypeOK
  <2> QED
    BY <2>1, <2>2, <2>3 DEF IInv, TypeOK
<1>2. AlarmInv'
  BY DEF IInv, StartCount, TypeOK, AlarmInv
<1>3. BarrierInv'
  BY DEF IInv, StartCount, TypeOK, AlarmInv, BarrierInv
<1>4. CountInv'
  BY DEF IInv, StartCount, TypeOK, AlarmInv, CountInv, CountOf
<1>5. StampInv'
  BY DEF IInv, StartCount, TypeOK, AlarmInv, CountInv, CountOf, StampInv, StampsOf
<1>6. JoinInv'
  BY DEF IInv, StartCount, TypeOK, AlarmInv, JoinInv
<1> QED
  BY <1>1, <1>2, <1>3, <1>4, <1>5, <1>6 DEF IInv

LEMMA CreateThreadKeeps ==
    ASSUME IInv, CreateThread
    PROVE  IInv'
<1>1. TypeOK'
  <2>1. i \in Threads /\ i' \in 0 .. NumThreads
    BY DEF IInv, CreateThread, TypeOK
  <2>2. tpc' = [tpc EXCEPT ![i] = "load"] /\ UNCHANGED <<config, mpc, flags, counts>>
    BY DEF CreateThread
  <2> QED
    BY <2>1, <2>2 DEF IInv, TypeOK
<1>2. AlarmInv'
  BY DEF IInv, CreateThread, TypeOK, AlarmInv
<1>3. BarrierInv'
  BY DEF IInv, CreateThread, TypeOK, AlarmInv, BarrierInv
<1>4. CountInv'
  BY DEF IInv, CreateThread, TypeOK, AlarmInv, CountInv, CountOf
<1>5. StampInv'
  BY DEF IInv, CreateThread, TypeOK, AlarmInv, CountInv, CountOf, StampInv, StampsOf
<1>6. JoinInv'
  BY DEF IInv, CreateThread, TypeOK, AlarmInv, JoinInv
<1> QED
  BY <1>1, <1>2, <1>3, <1>4, <1>5, <1>6 DEF IInv

LEMMA RedisCreatedKeeps ==
    ASSUME IInv, RedisCreated
    PROVE  IInv'
<1>1. TypeOK'
  BY DEF IInv, RedisCreated, TypeOK
<1>2. AlarmInv'
  BY DEF IInv, RedisCreated, TypeOK, AlarmInv
<1>3. BarrierInv'
  BY DEF IInv, RedisCreated, TypeOK, AlarmInv, BarrierInv
<1>4. CountInv'
  BY DEF IInv, RedisCreated, TypeOK, AlarmInv, CountInv, CountOf
<1>5. StampInv'
  BY DEF IInv, RedisCreated, TypeOK, AlarmInv, CountInv, CountOf, StampInv, StampsOf
<1>6. JoinInv'
  BY DEF IInv, RedisCreated, TypeOK, AlarmInv, JoinInv
<1> QED
  BY <1>1, <1>2, <1>3, <1>4, <1>5, <1>6 DEF IInv

LEMMA MemcachedCreatedKeeps ==
    ASSUME IInv, MemcachedCreated
    PROVE  IInv'
<1>1. TypeOK'
  BY DEF IInv, MemcachedCreated, TypeOK
<1>2. AlarmInv'
  BY DEF IInv, MemcachedCreated, TypeOK, AlarmInv
<1>3. BarrierInv'
  BY DEF IInv, MemcachedCreated, TypeOK, AlarmInv, BarrierInv
<1>4. CountInv'
  BY DEF IInv, MemcachedCreated, TypeOK, AlarmInv, CountInv, CountOf
<1>5. StampInv'
  BY DEF IInv, MemcachedCreated, TypeOK, AlarmInv, CountInv, CountOf, StampInv, StampsOf
<1>6. JoinInv'
  BY DEF IInv, MemcachedCreated, TypeOK, AlarmInv, JoinInv
<1> QED
  BY <1>1, <1>2, <1>3, <1>4, <1>5, <1>6 DEF IInv

LEMMA OpenBarrierKeeps ==
    ASSUME IInv, OpenBarrier
    PROVE  IInv'
<1>1. TypeOK'
  BY DEF IInv, OpenBarrier, TypeOK, BarrierIsFull
<1>2. AlarmInv'
  BY DEF IInv, OpenBarrier, TypeOK, AlarmInv, BarrierIsFull
<1>3. BarrierInv'
  BY DEF IInv, OpenBarrier, TypeOK, AlarmInv, BarrierInv, BarrierIsFull
<1>4. CountInv'
  BY DEF IInv, OpenBarrier, TypeOK, AlarmInv, CountInv, CountOf, BarrierIsFull
<1>5. StampInv'
  BY DEF IInv, OpenBarrier, TypeOK, AlarmInv, CountInv, CountOf, StampInv, StampsOf, BarrierIsFull
<1>6. JoinInv'
  BY DEF IInv, OpenBarrier, TypeOK, AlarmInv, JoinInv, BarrierIsFull
<1> QED
  BY <1>1, <1>2, <1>3, <1>4, <1>5, <1>6 DEF IInv

LEMMA SetAlarmKeeps ==
    ASSUME IInv, SetAlarm
    PROVE  IInv'
<1>1. TypeOK'
  <2>1. armed' \in BOOLEAN
    <3>1. CASE warmup > 0
      BY <3>1 DEF SetAlarm
    <3>2. CASE ~(warmup > 0)
      BY <3>2 DEF SetAlarm
    <3> QED
      BY <3>1, <3>2
  <2>2. mpc' = "join" /\ i' = 0 /\ UNCHANGED <<config, tpc, start_counting, execution_status, iter, counts>>
    BY DEF SetAlarm
  <2> QED
    BY <2>1, <2>2, 0 \in 0 .. NumThreads DEF IInv, TypeOK
<1>2. AlarmInv'
  BY DEF IInv, SetAlarm, TypeOK, AlarmInv
<1>3. BarrierInv'
  BY DEF IInv, SetAlarm, TypeOK, AlarmInv, BarrierInv
<1>4. CountInv'
  BY DEF IInv, SetAlarm, TypeOK, AlarmInv, CountInv, CountOf
<1>5. StampInv'
  BY DEF IInv, SetAlarm, TypeOK, AlarmInv, CountInv, CountOf, StampInv, StampsOf
<1>6. JoinInv'
  BY DEF IInv, SetAlarm, TypeOK, AlarmInv, JoinInv
<1> QED
  BY <1>1, <1>2, <1>3, <1>4, <1>5, <1>6 DEF IInv

LEMMA JoinThreadKeeps ==
    ASSUME IInv, JoinThread
    PROVE  IInv'
<1>1. TypeOK'
  <2>1. i \in Threads /\ i' \in 0 .. NumThreads
    BY DEF IInv, JoinThread, TypeOK
  <2>2. counted' = [counted EXCEPT ![i] = ops[i]] /\ ops[i] \in Nat
    BY <2>1 DEF IInv, JoinThread, TypeOK
  <2>3. UNCHANGED <<config, tpc, mpc, flags, iteration, ops, stamp, samples, foreign>>
    BY DEF JoinThread
  <2> QED
    BY <2>1, <2>2, <2>3 DEF IInv, TypeOK
<1>2. AlarmInv'
  BY DEF IInv, JoinThread, TypeOK, AlarmInv
<1>3. BarrierInv'
  BY DEF IInv, JoinThread, TypeOK, AlarmInv, BarrierInv
<1>4. CountInv'
  BY DEF IInv, JoinThread, TypeOK, AlarmInv, CountInv, CountOf
<1>5. StampInv'
  BY DEF IInv, JoinThread, TypeOK, AlarmInv, CountInv, CountOf, StampInv, StampsOf
<1>6. JoinInv'
  <2>1. mpc = "join" /\ i \in Threads /\ i' = i + 1 /\ tpc[i] = "done" /\ ops[i] = iteration[i]
    BY DEF IInv, JoinThread, TypeOK, JoinInv
  <2>2. UNCHANGED <<tpc, mpc, execution_status, iteration, ops>>
    BY DEF JoinThread
  <2>3. ASSUME NEW t \in Threads, t < i'
        PROVE  tpc[t] = "done" /\ counted'[t] = iteration[t]
    <3>1. counted' = [counted EXCEPT ![i] = ops[i]] /\ counted \in [Threads -> Nat]
      BY DEF IInv, JoinThread, TypeOK
    <3>2. CASE t = i
      BY <2>1, <3>1, <3>2
    <3>3. CASE t # i
      <4>1. t < i
        BY <2>1, <2>3, <3>3 DEF IInv, TypeOK
      <4> QED
        BY <2>1, <3>1, <3>3, <4>1 DEF IInv, JoinInv
    <3> QED
      BY <3>2, <3>3
  <2>4. \A t \in Threads : tpc[t] = "done" => ~execution_status /\ ops[t] = iteration[t]
    BY DEF IInv, JoinInv
  <2> QED
    BY <2>1, <2>2, <2>3, <2>4 DEF JoinInv
<1> QED
  BY <1>1, <1>2, <1>3, <1>4, <1>5, <1>6 DEF IInv

LEMMA ReportKeeps ==
    ASSUME IInv, Report
    PROVE  IInv'
<1>1. TypeOK'
  BY DEF IInv, Report, TypeOK
<1>2. AlarmInv'
  BY DEF IInv, Report, TypeOK, AlarmInv
<1>3. BarrierInv'
  BY DEF IInv, Report, TypeOK, AlarmInv, BarrierInv
<1>4. CountInv'
  BY DEF IInv, Report, TypeOK, AlarmInv, CountInv, CountOf
<1>5. StampInv'
  BY DEF IInv, Report, TypeOK, AlarmInv, CountInv, CountOf, StampInv, StampsOf
<1>6. JoinInv'
  BY DEF IInv, Report, TypeOK, AlarmInv, JoinInv
<1> QED
  BY <1>1, <1>2, <1>3, <1>4, <1>5, <1>6 DEF IInv

\* One lemma per action of a thread.
LEMMA LoadKeysKeeps ==
    ASSUME IInv, NEW t \in Threads, LoadKeys(t)
    PROVE  IInv'
<1>1. TypeOK'
  BY DEF IInv, LoadKeys, TypeOK
<1>2. AlarmInv'
  BY DEF IInv, LoadKeys, TypeOK, AlarmInv
<1>3. BarrierInv'
  BY DEF IInv, LoadKeys, TypeOK, AlarmInv, BarrierInv
<1>4. CountInv'
  BY DEF IInv, LoadKeys, TypeOK, AlarmInv, CountInv, CountOf
<1>5. StampInv'
  BY DEF IInv, LoadKeys, TypeOK, AlarmInv, CountInv, CountOf, StampInv, StampsOf
<1>6. JoinInv'
  BY DEF IInv, LoadKeys, TypeOK, AlarmInv, JoinInv
<1> QED
  BY <1>1, <1>2, <1>3, <1>4, <1>5, <1>6 DEF IInv

LEMMA RedisConnectKeeps ==
    ASSUME IInv, NEW t \in Threads, RedisConnect(t)
    PROVE  IInv'
<1>1. TypeOK'
  BY DEF IInv, RedisConnect, TypeOK
<1>2. AlarmInv'
  BY DEF IInv, RedisConnect, TypeOK, AlarmInv
<1>3. BarrierInv'
  BY DEF IInv, RedisConnect, TypeOK, AlarmInv, BarrierInv
<1>4. CountInv'
  <2> SUFFICES ASSUME NEW u \in Threads PROVE CountOf(u)'
    BY DEF CountInv
  <2>1. CountOf(u) /\ (u = t => tpc[u] = "connect")
    BY DEF IInv, TypeOK, CountInv, RedisConnect
  <2>2. UNCHANGED <<flags, counts>>
    BY DEF RedisConnect
  <2>3. tpc'[u] = tpc[u] \/ (u = t /\ tpc'[u] = "loop")
    BY DEF IInv, TypeOK, RedisConnect
  <2>4. Zero(u) => samples[u] - iteration[u] \in {0, 1}
    OBVIOUS
  <2> QED
    BY <2>1, <2>2, <2>3, <2>4 DEF CountOf
<1>5. StampInv'
  <2> SUFFICES ASSUME NEW u \in Threads PROVE StampsOf(u)'
    BY DEF StampInv
  <2>1. program = "Redis" /\ StampsOf(u) /\ CountOf(u) /\ (u = t => tpc[u] = "connect")
    BY DEF IInv, StampInv, CountInv, RedisConnect
  <2>2. UNCHANGED <<flags, counts>>
    BY DEF RedisConnect
  <2>3. tpc'[u] = tpc[u] \/ (u = t /\ tpc'[u] = "loop")
    BY DEF IInv, TypeOK, RedisConnect
  <2>4. Zero(u) => foreign[u] = samples[u] - iteration[u]
    OBVIOUS
  <2> QED
    BY <2>1, <2>2, <2>3, <2>4 DEF StampsOf, CountOf
<1>6. JoinInv'
  BY DEF IInv, RedisConnect, TypeOK, AlarmInv, JoinInv
<1> QED
  BY <1>1, <1>2, <1>3, <1>4, <1>5, <1>6 DEF IInv

LEMMA MemcachedConnectKeeps ==
    ASSUME IInv, NEW t \in Threads, MemcachedConnect(t)
    PROVE  IInv'
<1>1. TypeOK'
  BY DEF IInv, MemcachedConnect, TypeOK
<1>2. AlarmInv'
  BY DEF IInv, MemcachedConnect, TypeOK, AlarmInv
<1>3. BarrierInv'
  BY DEF IInv, MemcachedConnect, TypeOK, AlarmInv, BarrierInv
<1>4. CountInv'
  BY DEF IInv, MemcachedConnect, TypeOK, AlarmInv, CountInv, CountOf
<1>5. StampInv'
  BY DEF IInv, MemcachedConnect, TypeOK, AlarmInv, CountInv, CountOf, StampInv, StampsOf
<1>6. JoinInv'
  BY DEF IInv, MemcachedConnect, TypeOK, AlarmInv, JoinInv
<1> QED
  BY <1>1, <1>2, <1>3, <1>4, <1>5, <1>6 DEF IInv

LEMMA StartCountersKeeps ==
    ASSUME IInv, NEW t \in Threads, StartCounters(t)
    PROVE  IInv'
<1>1. TypeOK'
  BY DEF IInv, StartCounters, TypeOK
<1>2. AlarmInv'
  BY DEF IInv, StartCounters, TypeOK, AlarmInv
<1>3. BarrierInv'
  BY DEF IInv, StartCounters, TypeOK, AlarmInv, BarrierInv
<1>4. CountInv'
  <2> SUFFICES ASSUME NEW u \in Threads PROVE CountOf(u)'
    BY DEF CountInv
  <2>1. CountOf(u) /\ (u = t => tpc[u] = "counters")
    BY DEF IInv, TypeOK, CountInv, StartCounters
  <2>2. UNCHANGED <<flags, counts>>
    BY DEF StartCounters
  <2>3. tpc'[u] = tpc[u] \/ (u = t /\ tpc'[u] = "loop")
    BY DEF IInv, TypeOK, StartCounters
  <2>4. Zero(u) => samples[u] - iteration[u] \in {0, 1}
    OBVIOUS
  <2> QED
    BY <2>1, <2>2, <2>3, <2>4 DEF CountOf
<1>5. StampInv'
  <2> SUFFICES ASSUME program' = "Redis", NEW u \in Threads PROVE StampsOf(u)'
    BY DEF StampInv
  <2>1. StampsOf(u) /\ CountOf(u) /\ (u = t => tpc[u] = "counters")
    BY DEF IInv, StampInv, CountInv, StartCounters
  <2>2. UNCHANGED <<flags, counts>>
    BY DEF StartCounters
  <2>3. tpc'[u] = tpc[u] \/ (u = t /\ tpc'[u] = "loop")
    BY DEF IInv, TypeOK, StartCounters
  <2>4. Zero(u) => foreign[u] = samples[u] - iteration[u]
    OBVIOUS
  <2> QED
    BY <2>1, <2>2, <2>3, <2>4 DEF StampsOf, CountOf
<1>6. JoinInv'
  BY DEF IInv, StartCounters, TypeOK, AlarmInv, JoinInv
<1> QED
  BY <1>1, <1>2, <1>3, <1>4, <1>5, <1>6 DEF IInv

LEMMA BeginRequestKeeps ==
    ASSUME IInv, NEW t \in Threads, BeginRequest(t)
    PROVE  IInv'
<1>1. TypeOK'
  <2>1. iteration' \in [Threads -> Nat] /\ stamp' \in [Threads -> [start : Stamps, end : Stamps]]
    <3>1. /\ iteration \in [Threads -> Nat]
          /\ stamp \in [Threads -> [start : Stamps, end : Stamps]]
          /\ program \in {"Redis", "Memcached"}
      BY ProgramsAssumption DEF IInv, TypeOK
    <3>2. StampOf(t) \in Threads
      BY DEF StampOf
    <3>3. iteration[t] + 1 \in Nat /\ <<t, iteration[t] + 1>> \in Stamps
      BY <3>1 DEF Stamps
    <3>4. iteration' = iteration \/ iteration' = [iteration EXCEPT ![t] = iteration[t] + 1]
      BY DEF BeginRequest
    <3>5. \/ stamp' = stamp
          \/ stamp' = [stamp EXCEPT ![StampOf(t)].start = <<t, iteration[t] + 1>>]
      BY DEF BeginRequest
    <3>6. iteration' \in [Threads -> Nat]
      BY <3>1, <3>3, <3>4
    <3> QED
      BY <3>1, <3>2, <3>3, <3>5, <3>6
  <2>2. tpc' = [tpc EXCEPT ![t] = "request"]
    BY DEF BeginRequest
  <2>3. UNCHANGED <<config, mpc, i, flags, ops, samples, foreign, counted>>
    BY DEF BeginRequest
  <2> QED
    BY <2>1, <2>2, <2>3 DEF IInv, TypeOK
<1>2. AlarmInv'
  BY DEF IInv, BeginRequest, TypeOK, AlarmInv
<1>3. BarrierInv'
  BY DEF IInv, BeginRequest, TypeOK, AlarmInv, BarrierInv
<1>4. CountInv'
  <2> SUFFICES ASSUME NEW u \in Threads PROVE CountOf(u)'
    BY DEF CountInv
  <2>1. CountOf(u) /\ iteration[u] \in Nat /\ samples[u] \in Nat
    BY DEF IInv, TypeOK, CountInv
  <2>2. UNCHANGED <<start_counting, samples, foreign>>
    BY DEF BeginRequest
  <2>3. CASE u # t
    <3>1. tpc'[u] = tpc[u] /\ iteration'[u] = iteration[u]
      BY <2>3 DEF IInv, TypeOK, BeginRequest
    <3> QED
      BY <2>1, <2>2, <3>1 DEF CountOf
  <2>4. CASE u = t
    <3>1. tpc[u] = "loop" /\ tpc'[u] = "request"
      BY <2>4 DEF IInv, TypeOK, BeginRequest
    <3>2. CASE start_counting
      <4>1. iteration'[u] = iteration[u] + 1
        BY <2>4, <3>2 DEF IInv, TypeOK, BeginRequest
      <4> QED
        BY <2>1, <2>2, <3>1, <3>2, <4>1 DEF CountOf
    <3>3. CASE ~start_counting
      <4>1. iteration'[u] = iteration[u]
        BY <3>3 DEF BeginRequest
      <4> QED
        BY <2>1, <2>2, <3>1, <3>3, <4>1 DEF CountOf
    <3> QED
      BY <3>2, <3>3
  <2> QED
    BY <2>3, <2>4
<1>5. StampInv'
  <2> SUFFICES ASSUME program' = "Redis", NEW u \in Threads PROVE StampsOf(u)'
    BY DEF StampInv
  <2>1. /\ CountOf(u) /\ StampsOf(u) /\ StampOf(t) = t
        /\ iteration[u] \in Nat /\ samples[u] \in Nat /\ foreign[u] \in Nat
    BY DEF IInv, TypeOK, CountInv, StampInv, StampOf, BeginRequest
  <2>2. UNCHANGED <<start_counting, samples, foreign>>
    BY DEF BeginRequest
  <2>3. CASE u # t
    <3>1. tpc'[u] = tpc[u] /\ iteration'[u] = iteration[u] /\ stamp'[u] = stamp[u]
      BY <2>1, <2>3 DEF IInv, TypeOK, BeginRequest
    <3> QED
      BY <2>1, <2>2, <3>1 DEF StampsOf
  <2>4. CASE u = t
    <3>1. tpc[u] = "loop" /\ tpc'[u] = "request"
      BY <2>4 DEF IInv, TypeOK, BeginRequest
    <3>2. CASE start_counting
      <4>1. iteration'[u] = iteration[u] + 1
        BY <2>4, <3>2 DEF IInv, TypeOK, BeginRequest
      <4>2. stamp'[u].start = <<u, iteration'[u]>>
        BY <2>1, <2>4, <3>2, <4>1 DEF IInv, TypeOK, BeginRequest
      <4> QED
        BY <2>1, <2>2, <3>1, <4>1, <4>2 DEF StampsOf
    <3>3. CASE ~start_counting
      <4>1. UNCHANGED <<iteration, stamp>>
        BY <3>3 DEF BeginRequest
      <4> QED
        BY <2>1, <2>2, <3>1, <3>3, <4>1 DEF StampsOf, CountOf
    <3> QED
      BY <3>2, <3>3
  <2> QED
    BY <2>3, <2>4
<1>6. JoinInv'
  BY DEF IInv, BeginRequest, TypeOK, AlarmInv, JoinInv
<1> QED
  BY <1>1, <1>2, <1>3, <1>4, <1>5, <1>6 DEF IInv

LEMMA RequestKeeps ==
    ASSUME IInv, NEW t \in Threads, Request(t)
    PROVE  IInv'
<1>1. TypeOK'
  BY DEF IInv, Request, TypeOK
<1>2. AlarmInv'
  BY DEF IInv, Request, TypeOK, AlarmInv
<1>3. BarrierInv'
  BY DEF IInv, Request, TypeOK, AlarmInv, BarrierInv
<1>4. CountInv'
  BY DEF IInv, Request, TypeOK, AlarmInv, CountInv, CountOf
<1>5. StampInv'
  BY DEF IInv, Request, TypeOK, AlarmInv, CountInv, CountOf, StampInv, StampsOf
<1>6. JoinInv'
  BY DEF IInv, Request, TypeOK, AlarmInv, JoinInv
<1> QED
  BY <1>1, <1>2, <1>3, <1>4, <1>5, <1>6 DEF IInv

LEMMA EndRequestKeeps ==
    ASSUME IInv, NEW t \in Threads, EndRequest(t)
    PROVE  IInv'
<1>1. TypeOK'
  <2>1. stamp' \in [Threads -> [start : Stamps, end : Stamps]]
    <3>1. iteration \in [Threads -> Nat] /\ stamp \in [Threads -> [start : Stamps, end : Stamps]]
      BY DEF IInv, TypeOK
    <3>2. StampOf(t) \in Threads
      BY DEF StampOf
    <3>3. <<t, iteration[t]>> \in Stamps
      BY <3>1 DEF Stamps
    <3>4. \/ UNCHANGED stamp
          \/ stamp' = [stamp EXCEPT ![StampOf(t)].end = <<t, iteration[t]>>]
      BY DEF EndRequest
    <3> QED
      BY <3>1, <3>2, <3>3, <3>4
  <2>2. \/ tpc' = [tpc EXCEPT ![t] = "sample"]
        \/ tpc' = [tpc EXCEPT ![t] = "loop"]
    BY DEF EndRequest
  <2>3. UNCHANGED <<config, mpc, i, flags, iteration, ops, samples, foreign, counted>>
    BY DEF EndRequest
  <2> QED
    BY <2>1, <2>2, <2>3 DEF IInv, TypeOK
<1>2. AlarmInv'
  BY DEF IInv, EndRequest, TypeOK, AlarmInv
<1>3. BarrierInv'
  BY DEF IInv, EndRequest, TypeOK, AlarmInv, BarrierInv
<1>4. CountInv'
  BY DEF IInv, EndRequest, TypeOK, AlarmInv, CountInv, CountOf
<1>5. StampInv'
  <2> SUFFICES ASSUME program' = "Redis", NEW u \in Threads PROVE StampsOf(u)'
    BY DEF StampInv
  <2>1. /\ CountOf(u) /\ StampsOf(u) /\ StampOf(t) = t
        /\ iteration[u] \in Nat /\ samples[u] \in Nat /\ foreign[u] \in Nat
    BY DEF IInv, TypeOK, CountInv, StampInv, StampOf, EndRequest
  <2>2. UNCHANGED <<start_counting, iteration, samples, foreign>>
    BY DEF EndRequest
  <2>3. CASE u # t
    <3>1. tpc'[u] = tpc[u] /\ stamp'[u] = stamp[u]
      BY <2>1, <2>3 DEF IInv, TypeOK, EndRequest
    <3> QED
      BY <2>1, <2>2, <3>1 DEF StampsOf
  <2>4. CASE u = t
    <3>1. tpc[u] = "after"
      BY <2>4 DEF EndRequest
    <3>2. CASE start_counting
      <4>1. tpc'[u] = "sample"
        BY <2>4, <3>2 DEF IInv, TypeOK, EndRequest
      <4>2. stamp'[u].start = stamp[u].start /\ stamp'[u].end = <<u, iteration[u]>>
        BY <2>1, <2>4, <3>2 DEF IInv, TypeOK, EndRequest
      <4> QED
        BY <2>1, <2>2, <3>1, <4>1, <4>2 DEF StampsOf
    <3>3. CASE ~start_counting
      <4>1. tpc'[u] = "loop" /\ Zero(u)
        BY <2>1, <2>4, <3>1, <3>3 DEF IInv, TypeOK, EndRequest, CountOf
      <4> QED
        BY <2>2, <4>1 DEF StampsOf
    <3> QED
      BY <3>2, <3>3
  <2> QED
    BY <2>3, <2>4
<1>6. JoinInv'
  BY DEF IInv, EndRequest, TypeOK, AlarmInv, JoinInv
<1> QED
  BY <1>1, <1>2, <1>3, <1>4, <1>5, <1>6 DEF IInv

LEMMA TakeSampleKeeps ==
    ASSUME IInv, NEW t \in Threads, TakeSample(t)
    PROVE  IInv'
<1>1. TypeOK'
  <2>1. samples' \in [Threads -> Nat] /\ foreign' \in [Threads -> Nat]
    <3>1. samples \in [Threads -> Nat] /\ foreign \in [Threads -> Nat]
      BY DEF IInv, TypeOK
    <3>2. samples[t] + 1 \in Nat /\ foreign[t] + 1 \in Nat
      BY <3>1
    <3>3. samples' = [samples EXCEPT ![t] = samples[t] + 1]
      BY DEF TakeSample
    <3>4. foreign' = foreign \/ foreign' = [foreign EXCEPT ![t] = foreign[t] + 1]
      BY DEF TakeSample
    <3>5. samples' \in [Threads -> Nat]
      BY <3>1, <3>2, <3>3
    <3> QED
      BY <3>1, <3>2, <3>4, <3>5
  <2>2. tpc' = [tpc EXCEPT ![t] = "loop"]
    BY DEF TakeSample
  <2>3. UNCHANGED <<config, mpc, i, flags, iteration, ops, stamp, counted>>
    BY DEF TakeSample
  <2> QED
    BY <2>1, <2>2, <2>3 DEF IInv, TypeOK
<1>2. AlarmInv'
  BY DEF IInv, TakeSample, TypeOK, AlarmInv
<1>3. BarrierInv'
  BY DEF IInv, TakeSample, TypeOK, AlarmInv, BarrierInv
<1>4. CountInv'
  <2> SUFFICES ASSUME NEW u \in Threads PROVE CountOf(u)'
    BY DEF CountInv
  <2>1. CountOf(u) /\ iteration[u] \in Nat /\ samples[u] \in Nat
    BY DEF IInv, TypeOK, CountInv
  <2>2. UNCHANGED <<start_counting, iteration>>
    BY DEF TakeSample
  <2>3. CASE u # t
    <3>1. tpc'[u] = tpc[u] /\ samples'[u] = samples[u] /\ foreign'[u] = foreign[u]
      BY <2>3 DEF IInv, TypeOK, TakeSample
    <3> QED
      BY <2>1, <2>2, <3>1 DEF CountOf
  <2>4. CASE u = t
    <3>1. tpc[u] = "sample" /\ tpc'[u] = "loop" /\ samples'[u] = samples[u] + 1
      BY <2>4 DEF IInv, TypeOK, TakeSample
    <3> QED
      BY <2>1, <2>2, <3>1 DEF CountOf
  <2> QED
    BY <2>3, <2>4
<1>5. StampInv'
  <2> SUFFICES ASSUME program' = "Redis", NEW u \in Threads PROVE StampsOf(u)'
    BY DEF StampInv
  <2>1. /\ StampsOf(u) /\ StampOf(t) = t
        /\ iteration[u] \in Nat /\ samples[u] \in Nat /\ foreign[u] \in Nat
    BY DEF IInv, TypeOK, StampInv, StampOf, TakeSample
  <2>2. UNCHANGED <<iteration, stamp>>
    BY DEF TakeSample
  <2>3. CASE u # t
    <3>1. tpc'[u] = tpc[u] /\ samples'[u] = samples[u] /\ foreign'[u] = foreign[u]
      BY <2>3 DEF IInv, TypeOK, TakeSample
    <3> QED
      BY <2>1, <2>2, <3>1 DEF StampsOf
  <2>4. CASE u = t
    <3>1. tpc[u] = "sample" /\ tpc'[u] = "loop" /\ samples'[u] = samples[u] + 1
      BY <2>4 DEF IInv, TypeOK, TakeSample
    <3>2. CASE IsOwn(t)
      <4>1. foreign'[u] = foreign[u] /\ iteration[u] > 0
        BY <2>4, <3>2 DEF TakeSample, IsOwn
      <4> QED
        BY <2>1, <2>2, <3>1, <4>1 DEF StampsOf
    <3>3. CASE ~IsOwn(t)
      <4>1. foreign'[u] = foreign[u] + 1
        BY <2>4, <3>3 DEF IInv, TypeOK, TakeSample
      <4>2. Zero(u)
        <5>1. stamp[u] = [start |-> stamp[u].start, end |-> stamp[u].end]
          BY DEF IInv, TypeOK
        <5> QED
          BY <2>1, <2>4, <3>1, <3>3, <5>1 DEF StampsOf, IsOwn
      <4> QED
        BY <2>2, <3>1, <4>1, <4>2 DEF StampsOf
    <3> QED
      BY <3>2, <3>3
  <2> QED
    BY <2>3, <2>4
<1>6. JoinInv'
  BY DEF IInv, TakeSample, TypeOK, AlarmInv, JoinInv
<1> QED
  BY <1>1, <1>2, <1>3, <1>4, <1>5, <1>6 DEF IInv

LEMMA EndThreadKeeps ==
    ASSUME IInv, NEW t \in Threads, EndThread(t)
    PROVE  IInv'
<1>1. TypeOK'
  BY DEF IInv, EndThread, TypeOK
<1>2. AlarmInv'
  BY DEF IInv, EndThread, TypeOK, AlarmInv
<1>3. BarrierInv'
  BY DEF IInv, EndThread, TypeOK, AlarmInv, BarrierInv
<1>4. CountInv'
  BY DEF IInv, EndThread, TypeOK, AlarmInv, CountInv, CountOf
<1>5. StampInv'
  BY DEF IInv, EndThread, TypeOK, AlarmInv, CountInv, CountOf, StampInv, StampsOf
<1>6. JoinInv'
  BY DEF IInv, EndThread, TypeOK, AlarmInv, JoinInv
<1> QED
  BY <1>1, <1>2, <1>3, <1>4, <1>5, <1>6 DEF IInv

\* A process that exits leaves all it has counted as it was.
LEMMA FailureKeeps ==
    ASSUME IInv, CreateFails \/ \E t \in Threads : ThreadFails(t)
    PROVE  IInv'
<1>1. mpc' = "exit" /\ UNCHANGED <<config, tpc, i, flags, counts>>
  BY DEF CreateFails, ThreadFails
<1>2. TypeOK'
  BY <1>1 DEF IInv, TypeOK
<1>3. AlarmInv' /\ BarrierInv'
  BY <1>1 DEF IInv, AlarmInv, BarrierInv
<1>4. CountInv' /\ StampInv'
  BY <1>1 DEF IInv, CountInv, CountOf, StampInv, StampsOf
<1>5. JoinInv'
  BY <1>1 DEF IInv, JoinInv
<1> QED
  BY <1>2, <1>3, <1>4, <1>5 DEF IInv

\* Every step keeps the invariant.
LEMMA NextKeeps == IInv /\ [Next]_vars => IInv'
<1> SUFFICES ASSUME IInv, [Next]_vars PROVE IInv'
  OBVIOUS
<1>1. CASE StartCount
  BY <1>1, StartCountKeeps
<1>2. CASE Main
  BY <1>2, CreateThreadKeeps, RedisCreatedKeeps, MemcachedCreatedKeeps, OpenBarrierKeeps,
     SetAlarmKeeps, JoinThreadKeeps, ReportKeeps DEF Main
<1>3. CASE \E t \in Threads : Thread(t)
  <2> SUFFICES ASSUME NEW t \in Threads, Thread(t) PROVE IInv'
    BY <1>3
  <2> QED
    BY LoadKeysKeeps, RedisConnectKeeps, MemcachedConnectKeeps, StartCountersKeeps,
       BeginRequestKeeps, RequestKeeps, EndRequestKeeps, TakeSampleKeeps, EndThreadKeeps DEF Thread
<1>4. CASE UNCHANGED vars
  <2>1. TypeOK' /\ AlarmInv' /\ BarrierInv' /\ JoinInv'
    BY <1>4 DEF vars, IInv, TypeOK, AlarmInv, BarrierInv, JoinInv
  <2>2. CountInv' /\ StampInv'
    BY <1>4 DEF vars, IInv, CountInv, CountOf, StampInv, StampsOf
  <2> QED
    BY <2>1, <2>2 DEF IInv
<1>5. CASE CreateFails \/ \E t \in Threads : ThreadFails(t)
  BY <1>5, FailureKeeps
<1> QED
  BY <1>1, <1>2, <1>3, <1>4, <1>5 DEF Next

\* The inductive invariant holds at every moment: every action of main, of the
\* threads and of the timer keeps it.
THEOREM Invariance == Spec => []IInv
<1> QED
  BY InitEstablishes, NextKeeps, PTL DEF Spec

\* The types, for any number of threads.
THEOREM TypeCorrect == Spec => []TypeOK
<1>1. IInv => TypeOK
  BY DEF IInv
<1> QED
  BY <1>1, Invariance, PTL

\* Memcached's barrier keeps the counting from starting while a thread still
\* loads its keys or connects: the alarm is set behind it.
THEOREM BarrierHoldsCounting == Spec => []CountsTogether
<1>1. IInv => CountsTogether
  BY DEF IInv, BarrierInv, CountsTogether
<1> QED
  BY <1>1, Invariance, PTL

\* Wherever the alarms strike, the latencies a thread has added are as many as
\* the requests it has counted, or one more.
THEOREM SamplesMatchRequests == Spec => []RequestsAreSampled
<1>1. IInv => RequestsAreSampled
  BY DEF IInv, CountInv, CountOf, RequestsAreSampled
<1> QED
  BY <1>1, Invariance, PTL

\* In Redis every latency but that one more is between two stamps of one
\* request of the thread, whatever the other threads do.
THEOREM SamplesOfOneThread == Spec => []SamplesAreOwn
<1>1. IInv => SamplesAreOwn
  BY DEF IInv, StampInv, StampsOf, SamplesAreOwn
<1> QED
  BY <1>1, Invariance, PTL

\* Main reports when all threads have ended, adds what each has counted, and
\* has a positive time to divide by.
THEOREM ReportOfAllThreads == Spec => []ReportIsComplete
<1>1. IInv => ReportIsComplete
  <2> SUFFICES ASSUME IInv, mpc = "report"
               PROVE  testtime > warmup /\ \A t \in Threads : tpc[t] = "done" /\ counted[t] = iteration[t]
    BY DEF ReportIsComplete
  <2>1. \A t \in Threads : tpc[t] = "done" /\ counted[t] = iteration[t]
    BY DEF IInv, JoinInv
  <2>2. testtime > warmup
    BY <2>1 DEF IInv, TypeOK, AlarmInv, JoinInv
  <2> QED
    BY <2>1, <2>2
<1> QED
  BY <1>1, Invariance, PTL
=============================================================================
