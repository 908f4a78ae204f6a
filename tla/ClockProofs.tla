---------------------------- MODULE ClockProofs ----------------------------
(***************************************************************************)
(* Proof that sys_sleep() sleeps for the time it was asked for (Ticks.tla, *)
(* as MCSleep runs it), for any number of sleepers and any width of the    *)
(* counter.                                                                *)
(***************************************************************************)
EXTENDS MCSleep, TLAPS

\* The fields of Ticks, for any number of sleepers.
ClockTypes ==
  /\ ticks \in 0..(UINT - 1)
  /\ at \in [Sleepers -> {"user", "sleeping", "woken"}]
  /\ doomed \in [Sleepers -> BOOLEAN]
  /\ n \in [Sleepers -> Nat] /\ ticks0 \in [Sleepers -> 0..(UINT - 1)]
  /\ elapsed \in [Sleepers -> Nat] /\ late \in [Sleepers -> Nat]
  /\ answer \in [Sleepers -> {"none", "0", "-1"}]

\* One call of sys_sleep().  The unsigned difference ticks - ticks0 is the
\* time that has really passed; a sleeper is woken by each tick, so it is
\* never asleep when its time is over.
OneSleep(p) ==
  /\ n[p] + MaxLate < UINT
  /\ at[p] # "user" => (ticks - ticks0[p]) % UINT = elapsed[p]
  /\ at[p] = "sleeping" => elapsed[p] < n[p]
  /\ at[p] = "woken" => late[p] <= MaxLate /\ elapsed[p] <= n[p] + late[p]
  /\ answer[p] = "0" => at[p] = "user" /\ n[p] <= elapsed[p] /\ elapsed[p] <= n[p] + MaxLate
  /\ answer[p] = "-1" => at[p] = "user" /\ doomed[p]

ClockInv == ClockTypes /\ \A p \in Sleepers : OneSleep(p)

\* The difference of two unsigned counters.
LEMMA Difference ==
  ASSUME NEW U \in Nat \ {0}, NEW t \in 0..(U - 1), NEW s \in 0..(U - 1)
  PROVE  /\ (t - s) % U = IF s <= t THEN t - s ELSE t - s + U
         /\ (t - s) % U \in 0..(U - 1)
<1>1. CASE s <= t
  BY <1>1
<1>2. CASE s > t
  <2> (t - s) % U = t - s + U
    BY <1>2
  <2> QED
    BY <1>2
<1> QED
  BY <1>1, <1>2

\* ticks++, also where it wraps around to 0.
LEMMA TickCounted ==
  ASSUME NEW U \in Nat \ {0}, NEW t \in 0..(U - 1), NEW s \in 0..(U - 1)
  PROVE  /\ (t + 1) % U \in 0..(U - 1)
         /\ ((t - s) % U) + 1 < U => (((t + 1) % U) - s) % U = ((t - s) % U) + 1
<1> DEFINE m == (t + 1) % U
           c == (t - s) % U
           d == (m - s) % U
<1>1. m \in 0..(U - 1) /\ m = IF t + 1 < U THEN t + 1 ELSE 0
  <2>1. CASE t + 1 < U
    BY <2>1
  <2>2. CASE t + 1 = U
    BY <2>2
  <2> QED
    BY <2>1, <2>2
<1>2. c = IF s <= t THEN t - s ELSE t - s + U
  BY Difference
<1>3. d = IF s <= m THEN m - s ELSE m - s + U
  <2> HIDE DEF m
  <2> QED
    BY <1>1, Difference
<1> HIDE DEF m, c, d
<1>4. c + 1 < U => d = c + 1
  BY <1>1, <1>2, <1>3
<1> QED
  BY <1>1, <1>4 DEF m, c, d

\* The clock starts with nobody asleep.
LEMMA ClockStarts == Clock!Init => ClockInv
  BY ClockAssumption DEF Clock!Init, ClockInv, ClockTypes, OneSleep

\* A timer interrupt makes every sleeper one tick older and wakes it.
LEMMA Keeps_timer == ASSUME ClockInv, Clock!timer PROVE ClockInv'
<1>0. ClockTypes /\ \A p \in Sleepers : OneSleep(p)
  BY DEF ClockInv
<1>1. /\ \A p \in Sleepers : at[p] = "woken" => late[p] < MaxLate
      /\ ticks' = (ticks + 1) % UINT
      /\ at' = [p \in Sleepers |-> IF at[p] = "sleeping" THEN "woken" ELSE at[p]]
      /\ elapsed' = [p \in Sleepers |-> IF at[p] = "user" \/ elapsed[p] = UINT
                                         THEN elapsed[p] ELSE elapsed[p] + 1]
      /\ late' = [p \in Sleepers |-> IF at[p] = "woken" THEN late[p] + 1 ELSE 0]
      /\ UNCHANGED <<doomed, n, ticks0, answer>>
  BY DEF Clock!timer, Clock!Awake
<1>2. ticks' \in 0..(UINT - 1)
  BY <1>0, <1>1, ClockAssumption, TickCounted DEF ClockTypes
<1>3. ClockTypes'
  BY <1>0, <1>1, <1>2 DEF ClockTypes
<1>4. ASSUME NEW p \in Sleepers PROVE OneSleep(p)'
  <2>1. OneSleep(p)
    BY <1>0
  <2>2. CASE at[p] = "user"
    BY <1>0, <1>1, <2>1, <2>2 DEF OneSleep, ClockTypes
  <2>3. CASE at[p] # "user"
    <3>1. elapsed[p] <= n[p] + MaxLate - 1 /\ elapsed[p] + 1 < UINT
      BY <1>0, <1>1, <2>1, <2>3, ClockAssumption DEF OneSleep, ClockTypes
    <3>2. elapsed'[p] = elapsed[p] + 1 /\ at'[p] = "woken"
      BY <1>0, <1>1, <2>3, <3>1, ClockAssumption DEF ClockTypes
    <3>3. (ticks' - ticks0[p]) % UINT = elapsed'[p]
      <4>1. ticks0[p] \in 0..(UINT - 1) /\ ticks \in 0..(UINT - 1)
        BY <1>0 DEF ClockTypes
      <4>2. (ticks - ticks0[p]) % UINT = elapsed[p]
        BY <2>1, <2>3 DEF OneSleep
      <4> QED
        BY <1>1, <3>1, <3>2, <4>1, <4>2, ClockAssumption, TickCounted
    <3>4. late'[p] <= MaxLate /\ elapsed'[p] <= n[p] + late'[p]
      BY <1>0, <1>1, <2>1, <2>3, <3>2, ClockAssumption DEF OneSleep, ClockTypes
    <3> QED
      BY <1>1, <2>1, <2>3, <3>2, <3>3, <3>4 DEF OneSleep
  <2> QED
    BY <2>2, <2>3
<1> QED
  BY <1>3, <1>4 DEF ClockInv

\* The call itself: no time has passed yet.
LEMMA Keeps_sys_sleep ==
  ASSUME ClockInv, NEW p \in Sleepers, NEW k \in SleepArgs, Clock!sys_sleep(p, k)
  PROVE  ClockInv'
<1>0. ClockTypes /\ \A q \in Sleepers : OneSleep(q)
  BY DEF ClockInv
<1>1. (ticks - ticks) % UINT = 0
  BY <1>0, ClockAssumption, Difference DEF ClockTypes
<1>2. k \in Nat /\ k + MaxLate < UINT /\ MaxLate \in Nat
  BY ClockAssumption
<1>3. ClockTypes'
  BY <1>0, <1>2 DEF Clock!sys_sleep, ClockTypes
<1>4. OneSleep(p)'
  BY <1>0, <1>1, <1>2 DEF Clock!sys_sleep, Clock!Waiting, ClockTypes, OneSleep
<1>5. ASSUME NEW q \in Sleepers, q # p PROVE OneSleep(q)'
  BY <1>0, <1>5 DEF Clock!sys_sleep, ClockTypes, OneSleep
<1> QED
  BY <1>3, <1>4, <1>5 DEF ClockInv

\* The loop of sys_sleep() compares the time that has really passed.
LEMMA Keeps_sys_sleep_woken ==
  ASSUME ClockInv, NEW p \in Sleepers, Clock!sys_sleep_woken(p)
  PROVE  ClockInv'
<1>0. ClockTypes /\ \A q \in Sleepers : OneSleep(q)
  BY DEF ClockInv
<1>1. ClockTypes'
  BY <1>0 DEF Clock!sys_sleep_woken, ClockTypes
<1>2. OneSleep(p)'
  BY <1>0, ClockAssumption DEF Clock!sys_sleep_woken, Clock!Waiting, ClockTypes, OneSleep
<1>3. ASSUME NEW q \in Sleepers, q # p PROVE OneSleep(q)'
  BY <1>0, <1>3 DEF Clock!sys_sleep_woken, ClockTypes, OneSleep
<1> QED
  BY <1>1, <1>2, <1>3 DEF ClockInv

\* kill() wakes a sleeper before its time; what it then returns is -1.
LEMMA Keeps_clock_kill ==
  ASSUME ClockInv, NEW p \in Sleepers, Clock!kill(p)
  PROVE  ClockInv'
<1>0. ClockTypes /\ \A q \in Sleepers : OneSleep(q)
  BY DEF ClockInv
<1>1. ClockTypes'
  BY <1>0 DEF Clock!kill, ClockTypes
<1>2. OneSleep(p)'
  BY <1>0, ClockAssumption DEF Clock!kill, ClockTypes, OneSleep
<1>3. ASSUME NEW q \in Sleepers, q # p PROVE OneSleep(q)'
  BY <1>0, <1>3 DEF Clock!kill, ClockTypes, OneSleep
<1> QED
  BY <1>1, <1>2, <1>3 DEF ClockInv

\* SleepsInTime, for any number of sleepers, any width of ticks and any sleep
\* that is shorter than the counter: sys_sleep(n) returns 0 after n ticks and
\* no later than the process is scheduled, -1 only if it was killed, also
\* where ticks wraps around in between (sysproc.c, trap.c).
THEOREM SleepsAlwaysInTime == MCSpec => []SleepsInTime
<1>1. MCInit => ClockInv
  BY ClockStarts DEF MCInit
<1>2. ClockInv /\ [MCNext]_<<vars, clock, journal, machine>> => ClockInv'
  <2> SUFFICES ASSUME ClockInv, [MCNext]_<<vars, clock, journal, machine>> PROVE ClockInv'
    OBVIOUS
  <2>1. CASE Clock!Next
    BY <2>1, Keeps_timer, Keeps_sys_sleep, Keeps_sys_sleep_woken, Keeps_clock_kill DEF Clock!Next
  <2>2. CASE UNCHANGED clock
    BY <2>2 DEF clock, ClockInv, ClockTypes, OneSleep
  <2> QED
    BY <2>1, <2>2 DEF MCNext
<1>3. ClockInv => SleepsInTime
  BY ClockAssumption DEF ClockInv, ClockTypes, OneSleep, SleepsInTime, Clock!SleepsInTime
<1> QED
  BY <1>1, <1>2, <1>3, PTL DEF MCSpec
=============================================================================
