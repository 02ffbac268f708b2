------------------------- MODULE GossipTimingProofs -------------------------
(***************************************************************************)
(* How long the gossip loop sleeps between two rounds, for all intervals   *)
(* and timeouts that TimingAssumption admits, and however long branches    *)
(* take.                                                                   *)
(*                                                                         *)
(* RoundGap bounds the past; the invariant has to bound what is still to   *)
(* come (Schedule): the time slept together with what is left of the       *)
(* present sleep, or with the sleep that follows the branch that runs.  A  *)
(* pass that ends without a round adds a sleep only while last_round_time  *)
(* is younger than the interval, and the time slept is part of its age.    *)
(***************************************************************************)
EXTENDS GossipTiming, Integers, TLAPS

\* The longest interval since the last round, the present one included: the
\* scheduler may have become idle at this very moment.
Interval == AtLeast(longest, CurrentInterval)

Sleeps(n) == IDLE_ROUND_INTERVAL * n

TimerBranches == {"request", "answer", "merge", "bans", "event"}

\* The age of the last round includes the time slept since.
Aged ==
  /\ slept <= sinceRound \/ sinceRound = LongestInterval
  /\ attached => longest >= CurrentInterval

Schedule ==
  served < MaxServed =>
    /\ busy = Waiting => slept + sleepLeft <= Interval + Sleeps(served) + IDLE_ROUND_INTERVAL
    /\ busy.branch \in TimerBranches => slept <= longest + Sleeps(served)
    /\ slept <= longest + Sleeps(served) + IDLE_ROUND_INTERVAL

Inv == TypeOK /\ Aged /\ Schedule
-----------------------------------------------------------------------------
(* Arithmetic.                                                             *)

LEMMA Constants ==
  /\ ACTIVE_ROUND_INTERVAL \in Nat /\ IDLE_ROUND_INTERVAL \in Nat /\ DEEP_ROUND_INTERVAL \in Nat
  /\ ACTIVE_ROUND_INTERVAL > 0 /\ IDLE_ROUND_INTERVAL > 0 /\ DEEP_ROUND_INTERVAL > 0
  /\ ACTIVE_ROUND_INTERVAL <= IDLE_ROUND_INTERVAL
  /\ IDLE_TIMEOUT \in Nat /\ BAN_CHECK_INTERVAL \in Nat /\ BAN_CHECK_INTERVAL > 0
  /\ SYNC_TIMEOUT \in Nat /\ MaxServed \in Nat /\ MaxMissed \in Nat /\ MaxMissed > 0 /\ Prompt \in Nat
BY TimingAssumption

LEMMA Limits ==
  /\ LongestInterval \in Nat
  /\ LongestInterval >= IDLE_ROUND_INTERVAL /\ LongestInterval >= DEEP_ROUND_INTERVAL
  /\ Cap \in Nat /\ BranchCap \in Nat
<1>1. LongestInterval \in Nat /\ LongestInterval >= IDLE_ROUND_INTERVAL /\ LongestInterval >= DEEP_ROUND_INTERVAL
  BY Constants DEF LongestInterval, AtLeast
<1>2. IDLE_ROUND_INTERVAL * (MaxServed + 1) \in Nat
  BY Constants
<1> QED
  BY <1>1, <1>2, Constants DEF Cap, BranchCap, AtLeast

LEMMA SleepsStep ==
  ASSUME NEW n \in Nat
  PROVE  /\ Sleeps(n) \in Nat
         /\ Sleeps(n + 1) = Sleeps(n) + IDLE_ROUND_INTERVAL
         /\ IDLE_ROUND_INTERVAL * (n + 1) = Sleeps(n) + IDLE_ROUND_INTERVAL
BY Constants DEF Sleeps

\* A new sleep is positive and no longer than the idle one, and no interval
\* is longer than the longest.
LEMMA IntervalType ==
  ASSUME TypeOK
  PROVE  /\ CurrentInterval \in Nat /\ CurrentInterval <= LongestInterval
         /\ SleepInterval \in 1..IDLE_ROUND_INTERVAL
         /\ Interval \in Nat /\ Interval >= CurrentInterval /\ Interval >= longest
<1>1. SleepInterval \in 1..IDLE_ROUND_INTERVAL
  BY Constants DEF SleepInterval
<1>2. Recommended(pm.state) \in Nat /\ Recommended(pm.state) <= LongestInterval
  BY Constants, Limits DEF Recommended, TypeOK, PowerManagers, PowerStates
<1>3. CurrentInterval \in Nat /\ CurrentInterval <= LongestInterval
  BY <1>1, <1>2, Constants, Limits DEF CurrentInterval
<1> QED
  BY <1>1, <1>3 DEF Interval, AtLeast, TypeOK

\* ... after a step as well.
LEMMA IntervalNext ==
  ASSUME TypeOK'
  PROVE  Interval' \in Nat /\ Interval' >= longest'
<1>1. SleepInterval' \in Nat
  BY Constants DEF SleepInterval
<1>2. Recommended(pm.state)' \in Nat
  BY Constants DEF Recommended, TypeOK, PowerManagers, PowerStates
<1>3. CurrentInterval' \in Nat
  BY <1>1, <1>2 DEF CurrentInterval
<1> QED
  BY <1>3 DEF Interval, AtLeast, TypeOK

\* The counters are natural numbers.
LEMMA Counters ==
  ASSUME TypeOK
  PROVE  /\ sinceRound \in Nat /\ sinceRound <= LongestInterval
         /\ sleepLeft \in Nat /\ slept \in Nat /\ longest \in Nat
         /\ served \in Nat /\ served <= MaxServed /\ Sleeps(served) \in Nat
<1>1. served \in Nat /\ served <= MaxServed
  BY Constants DEF TypeOK
<1>2. Sleeps(served) \in Nat
  BY <1>1, SleepsStep
<1>3. sinceRound \in Nat /\ sinceRound <= LongestInterval /\ slept \in Nat
  BY Limits DEF TypeOK
<1>4. sleepLeft \in Nat /\ longest \in Nat
  BY Constants DEF TypeOK
<1> QED
  BY <1>1, <1>2, <1>3, <1>4
-----------------------------------------------------------------------------
(* Types.                                                                  *)

LEMMA WokenType ==
  ASSUME NEW n \in PowerManagers
  PROVE  /\ Woken(n) \in PowerManagers /\ Woken(n).state = "Active" /\ Woken(n).mode = "HighPower"
         /\ [Woken(n) EXCEPT !.pending = FALSE] \in PowerManagers
         /\ [Woken(n) EXCEPT !.pending = FALSE].state = "Active"
         /\ [Woken(n) EXCEPT !.pending = FALSE].mode = "HighPower"
<1>1. 0 \in 0..IDLE_SLEEP_TIMEOUT /\ "Active" \in PowerStates
  BY PowerAssumption DEF PowerStates
<1> DEFINE u == Woken(n)
<1>2. u \in PowerManagers /\ u.state = "Active" /\ u.mode = "HighPower"
  BY <1>1 DEF Woken, PowerManagers
<1> HIDE DEF u
<1>3. /\ [u EXCEPT !.pending = FALSE] \in PowerManagers
      /\ [u EXCEPT !.pending = FALSE].state = u.state /\ [u EXCEPT !.pending = FALSE].mode = u.mode
  BY <1>2 DEF PowerManagers
<1> QED
  BY <1>2, <1>3 DEF u

\* The calls of the power manager keep its type, and the two ways it tells
\* its state in step.
LEMMA PowerTypes ==
  ASSUME NEW m \in PowerManagers, m.state = "Active" <=> m.mode = "HighPower", NEW w
  PROVE  /\ \A s \in PowerStates : /\ SetState(m, s) \in PowerManagers
                                   /\ SetState(m, s).state = "Active" <=> SetState(m, s).mode = "HighPower"
         /\ Woken(m) \in PowerManagers /\ Woken(m).state = "Active" /\ Woken(m).mode = "HighPower"
         /\ PowerTick(m, w).pm \in PowerManagers
         /\ PowerTick(m, w).pm.state = "Active" <=> PowerTick(m, w).pm.mode = "HighPower"
<1>1. \A s \in PowerStates : /\ SetState(m, s) \in PowerManagers
                             /\ SetState(m, s).state = "Active" <=> SetState(m, s).mode = "HighPower"
  BY DEF SetState, PowerManagers, PowerStates
<1>2. /\ PowerTick(m, w).pm \in PowerManagers
      /\ PowerTick(m, w).pm.state = "Active" <=> PowerTick(m, w).pm.mode = "HighPower"
  <2> DEFINE dozing == IF m.idleFor >= IDLE_SLEEP_TIMEOUT /\ ~Asleep(m)
                       THEN [m EXCEPT !.state = "LowPower", !.mode = "SynchronizedLowPower"]
                       ELSE m
             goToSleep == Asleep(dozing) /\ ~dozing.emitted
             wake == Asleep(dozing) /\ dozing.pending /\ w
             marked == [dozing EXCEPT !.emitted = @ \/ goToSleep]
  <2>1. dozing \in PowerManagers /\ (dozing.state = "Active" <=> dozing.mode = "HighPower")
    BY DEF PowerManagers, PowerStates
  <2>2. PowerTick(m, w).pm = IF wake THEN [Woken(dozing) EXCEPT !.pending = FALSE] ELSE marked
    BY DEF PowerTick
  <2> HIDE DEF dozing
  <2>3. marked \in PowerManagers /\ marked.state = dozing.state /\ marked.mode = dozing.mode
    <3>1. (dozing.emitted \/ goToSleep) \in BOOLEAN
      OBVIOUS
    <3> HIDE DEF goToSleep
    <3> QED
      BY <2>1, <3>1 DEF PowerManagers
  <2> HIDE DEF wake, marked
  <2> QED
    BY <2>1, <2>2, <2>3, WokenType
<1> QED
  BY <1>1, <1>2, WokenType

\* A call of the host other than set_state ends with a manager of the type.
LEMMA CallTypes ==
  ASSUME TypeOK, NEW r \in {PowerTick(pm, AwakeWindow), RecordIncoming(pm, AwakeWindow), RecordOutbound(pm, AwakeWindow)}
  PROVE  r.pm \in PowerManagers /\ (r.pm.state = "Active" <=> r.pm.mode = "HighPower")
<1> DEFINE w == AwakeWindow
           n == [Woken(pm) EXCEPT !.pending = FALSE]
           t == PowerTick(pm, w)
<1>1. pm \in PowerManagers /\ (pm.state = "Active" <=> pm.mode = "HighPower")
  BY DEF TypeOK
<1> HIDE DEF w
<1>2. n \in PowerManagers /\ (n.state = "Active" <=> n.mode = "HighPower")
  BY <1>1, WokenType
<1>3. CASE r = t
  BY <1>1, <1>3, PowerTypes
<1>4. CASE r = PowerTick(n, w)
  <2> HIDE DEF n
  <2> QED
    BY <1>2, <1>4, PowerTypes
<1>5. CASE r = RecordOutbound(pm, w)
  <2>1. t.pm \in PowerManagers /\ (t.pm.state = "Active" <=> t.pm.mode = "HighPower")
    BY <1>1, PowerTypes
  <2>2. r.pm = IF Asleep(t.pm) /\ ~w THEN [t.pm EXCEPT !.pending = TRUE] ELSE Woken(t.pm)
    BY <1>5 DEF RecordOutbound, PowerTick
  <2> DEFINE u == t.pm
  <2> HIDE DEF t
  <2>4. [u EXCEPT !.pending = TRUE] \in PowerManagers /\ [u EXCEPT !.pending = TRUE].state = u.state
        /\ [u EXCEPT !.pending = TRUE].mode = u.mode
    BY <2>1 DEF PowerManagers
  <2>5. Woken(u) \in PowerManagers /\ Woken(u).state = "Active" /\ Woken(u).mode = "HighPower"
    BY <2>1, PowerTypes
  <2> QED
    BY <2>1, <2>2, <2>4, <2>5
<1> QED
  BY <1>3, <1>4, <1>5 DEF w, RecordIncoming

Branches == [branch : {"none", "round", "request", "answer", "merge", "bans", "event"}, time : 0..BranchCap]

LEMMA TypeInit == Init => TypeOK
<1> SUFFICES ASSUME Init PROVE TypeOK
  OBVIOUS
<1>1. pm \in PowerManagers /\ pm.state = "Active" /\ pm.mode = "HighPower"
  BY PowerAssumption DEF Init, NewPowerManager, PowerManagers, PowerStates
<1>2. busy \in Branches /\ busy = Waiting
  BY Limits DEF Init, Waiting, Branches
<1>3. due \in [Timers -> 0..MaxMissed]
  BY Constants DEF Init
<1> QED
  BY <1>1, <1>2, <1>3, Constants, Limits DEF Init, TypeOK, Branches

LEMMA NextPassType ==
  ASSUME TypeOK, NextPass
  PROVE  sleepLeft' \in 0..IDLE_ROUND_INTERVAL /\ busy' \in Branches /\ busy' = Waiting
BY IntervalType, Constants, Limits DEF NextPass, Waiting, Branches

LEMMA TakeType ==
  ASSUME NEW b \in {"round", "request", "bans", "event"}, Take(b)
  PROVE  sleepLeft' \in 0..IDLE_ROUND_INTERVAL /\ busy' \in Branches /\ busy'.branch = b
BY Constants, Limits DEF Take, Branches

LEMMA ServeType ==
  ASSUME TypeOK, NEW b \in {"request", "bans", "event"}, Serve(b)
  PROVE  Take(b) /\ served' \in 0..MaxServed
BY Constants DEF Serve, AtMost, TypeOK

LEMMA TickType == TypeOK /\ Tick => TypeOK'
<1> SUFFICES ASSUME TypeOK, Tick PROVE TypeOK'
  OBVIOUS
<1>1. clock' \in 0..(BAN_CHECK_INTERVAL - 1)
  BY Constants DEF Tick, TypeOK
<1>2. due' \in [Timers -> 0..MaxMissed]
  <2>1. due \in [Timers -> 0..MaxMissed]
    BY DEF TypeOK
  <2>2. ASSUME NEW t \in Timers PROVE (IF FallsDue(t) THEN AtMost(due[t] + 1, MaxMissed) ELSE due[t]) \in 0..MaxMissed
    BY <2>1, Constants DEF AtMost
  <2> QED
    BY <2>2 DEF Tick
<1>3. busy \in Branches /\ (busy.branch = "none" => busy = Waiting)
  BY DEF TypeOK, Branches
<1>4. sleepLeft' \in 0..IDLE_ROUND_INTERVAL /\ slept' \in 0..(Cap + 1)
  BY Constants, Limits, <1>3 DEF Tick, TimeMayPass, TypeOK, AtMost
<1>5. busy' \in Branches /\ (busy'.branch = "none" => busy' = Waiting)
  <2>1. CASE busy = Waiting
    BY <1>3, <2>1 DEF Tick
  <2>2. CASE busy # Waiting
    <3>1. AtMost(busy.time + 1, BranchCap) \in 0..BranchCap
      BY <1>3, Limits DEF Branches, AtMost
    <3>2. busy' = [busy EXCEPT !.time = AtMost(busy.time + 1, BranchCap)]
      BY <2>2 DEF Tick
    <3> QED
      BY <1>3, <2>2, <3>1, <3>2 DEF Branches
  <2> QED
    BY <2>1, <2>2
<1>6. sinceRound' \in 0..LongestInterval /\ sinceActive' \in 0..IDLE_TIMEOUT
  BY Constants, Limits DEF Tick, TypeOK, AtMost
<1>7. pm' \in PowerManagers /\ (pm'.state = "Active" <=> pm'.mode = "HighPower")
  <2>1. AtMost(pm.idleFor + 1, IDLE_SLEEP_TIMEOUT) \in 0..IDLE_SLEEP_TIMEOUT
    BY PowerAssumption DEF TypeOK, PowerManagers, AtMost
  <2> QED
    BY <2>1 DEF Tick, TypeOK, PowerManagers
<1>8. longest' \in Nat
  BY IntervalType DEF Tick, Interval
<1> QED
  BY <1>1, <1>2, <1>4, <1>5, <1>6, <1>7, <1>8 DEF Tick, TypeOK, Branches

LEMMA LeavesType ==
  ASSUME TypeOK, NEW m \in PowerManagers, m.state = "Active" <=> m.mode = "HighPower", Leaves(m)
  PROVE  TypeOK'
<1>1. Recommended(m.state) \in Nat
  BY Constants DEF Recommended, PowerManagers, PowerStates
<1>2. longest' \in Nat
  BY <1>1 DEF Leaves, AtLeast, TypeOK
<1> QED
  BY <1>2 DEF Leaves, TypeOK

LEMMA HostType ==
  ASSUME TypeOK
  PROVE  /\ \A s \in PowerStates : HostSetsState(s) =>
              \E m \in PowerManagers : (m.state = "Active" <=> m.mode = "HighPower") /\ Leaves(m)
         /\ HostCalls =>
              \E m \in PowerManagers : (m.state = "Active" <=> m.mode = "HighPower") /\ Leaves(m)
<1>1. ASSUME NEW s \in PowerStates, HostSetsState(s)
      PROVE  \E m \in PowerManagers : (m.state = "Active" <=> m.mode = "HighPower") /\ Leaves(m)
  <2>1. SetState(pm, s) \in PowerManagers /\ (SetState(pm, s).state = "Active" <=> SetState(pm, s).mode = "HighPower")
    BY PowerTypes DEF TypeOK
  <2> QED
    BY <1>1, <2>1 DEF HostSetsState
<1>2. ASSUME HostCalls
      PROVE  \E m \in PowerManagers : (m.state = "Active" <=> m.mode = "HighPower") /\ Leaves(m)
  <2>1. PICK r \in {PowerTick(pm, AwakeWindow), RecordIncoming(pm, AwakeWindow), RecordOutbound(pm, AwakeWindow)} :
          Leaves(r.pm)
    BY <1>2 DEF HostCalls
  <2>2. r.pm \in PowerManagers /\ (r.pm.state = "Active" <=> r.pm.mode = "HighPower")
    BY CallTypes
  <2> QED
    BY <2>1, <2>2
<1> QED
  BY <1>1, <1>2

LEMMA TypeStep == TypeOK /\ [Next]_vars => TypeOK'
<1> SUFFICES ASSUME TypeOK, [Next]_vars PROVE TypeOK'
  OBVIOUS
<1>1. due \in [Timers -> 0..MaxMissed]
  BY DEF TypeOK
<1>2. ASSUME SleepEnds PROVE TypeOK'
  <2>1. sleepLeft' \in 0..IDLE_ROUND_INTERVAL /\ busy' \in Branches /\ (busy'.branch = "none" => busy' = Waiting)
    BY <1>2, NextPassType, TakeType DEF SleepEnds
  <2> QED
    BY <1>2, <2>1 DEF SleepEnds, historyVars, TypeOK, Branches
<1>3. ASSUME RoundEnds PROVE TypeOK'
  <2>1. sleepLeft' \in 0..IDLE_ROUND_INTERVAL /\ busy' \in Branches /\ busy' = Waiting
    BY <1>3, NextPassType DEF RoundEnds
  <2> QED
    BY <1>3, <2>1, IntervalType, Constants, Limits DEF RoundEnds, TypeOK, Branches
<1>4. ASSUME NEW b \in {"request", "bans", "event"}, Serve(b)
      PROVE  /\ sleepLeft' \in 0..IDLE_ROUND_INTERVAL /\ busy' \in Branches /\ busy'.branch # "none"
             /\ served' \in 0..MaxServed
  BY <1>4, ServeType, TakeType
<1>5. ASSUME NEW t \in Timers, due[t] > 0, due' = [due EXCEPT ![t] = @ - 1] PROVE due' \in [Timers -> 0..MaxMissed]
  BY <1>1, <1>5, Constants
<1>6. ASSUME SyncTimer PROVE TypeOK'
  <2>1. due' \in [Timers -> 0..MaxMissed]
    BY <1>5, <1>6 DEF SyncTimer, Timers
  <2> QED
    BY <1>4, <1>6, <2>1 DEF SyncTimer, TypeOK, Branches
<1>7. ASSUME BanCheckTimer PROVE TypeOK'
  <2>1. due' \in [Timers -> 0..MaxMissed]
    BY <1>5, <1>7 DEF BanCheckTimer, Timers
  <2> QED
    BY <1>4, <1>7, <2>1 DEF BanCheckTimer, TypeOK, Branches
<1>8. ASSUME TopologyEvent PROVE TypeOK'
  <2>1. queue' \in 0..1
    BY <1>8 DEF TopologyEvent, TypeOK
  <2> QED
    BY <1>4, <1>8, <2>1 DEF TopologyEvent, TypeOK, Branches
<1>9. ASSUME RequestSent \/ ResponseReceived PROVE TypeOK'
  BY <1>9, Limits DEF RequestSent, ResponseReceived, historyVars, TypeOK
<1>10. ASSUME BranchEnds PROVE TypeOK'
  BY <1>10, NextPassType DEF BranchEnds, historyVars, TypeOK, Branches
<1>11. ASSUME Publish PROVE TypeOK'
  BY <1>11 DEF Publish, historyVars, TypeOK
<1>12. ASSUME UNCHANGED vars PROVE TypeOK'
  BY <1>12 DEF vars, historyVars, TypeOK
<1> QED
  BY <1>2, <1>3, <1>6, <1>7, <1>8, <1>9, <1>10, <1>11, <1>12, TickType, HostType, LeavesType DEF Next, Select
-----------------------------------------------------------------------------
(* The schedule.                                                           *)

LEMMA InvInit == Init => Inv
<1> SUFFICES ASSUME Init PROVE Inv
  OBVIOUS
<1>1. TypeOK
  BY TypeInit
<1>2. CurrentInterval = ACTIVE_ROUND_INTERVAL
  BY Constants, TimingAssumption DEF Init, CurrentInterval, SleepInterval, IsIdle, Recommended, NewPowerManager
<1>3. Interval = ACTIVE_ROUND_INTERVAL
  BY <1>2, Constants DEF Interval, AtLeast, Init
<1>4. Sleeps(served) \in Nat
  BY <1>1, Counters
<1> QED
  BY <1>1, <1>2, <1>3, <1>4, Constants, Limits DEF Init, Inv, Aged, Schedule, TimerBranches, Waiting

\* What the interval depends on, apart from the longest one so far.
Timeless == UNCHANGED <<sinceActive, attached, pm>>

LEMMA TimelessStep == Timeless => CurrentInterval' = CurrentInterval
BY DEF Timeless, CurrentInterval, SleepInterval, IsIdle

\* A tick takes from the sleep what it adds to the time slept.
LEMMA TickStep ==
  ASSUME Inv, Tick
  PROVE  Inv'
<1>1. TypeOK /\ TypeOK'
  BY TickType DEF Inv
<1>2. /\ longest' = Interval /\ served' = served /\ attached' = attached
      /\ sinceRound' = AtMost(sinceRound + 1, LongestInterval)
  BY DEF Tick, Interval
<1>3. Interval \in Nat /\ Interval' \in Nat /\ Interval' >= Interval /\ longest <= Interval
  BY <1>1, <1>2, IntervalType, IntervalNext
<1>4. \/ busy = Waiting /\ busy' = Waiting /\ sleepLeft > 0 /\ sleepLeft' = sleepLeft - 1 /\ slept' <= slept + 1
      \/ busy # Waiting /\ busy'.branch = busy.branch /\ slept' = slept /\ busy' # Waiting
  <2>1. CASE busy = Waiting
    <3>1. slept' <= slept + 1
      BY <1>1, <2>1, Counters, Limits DEF Tick, AtMost
    <3> QED
      BY <2>1, <3>1 DEF Tick, TimeMayPass
  <2>2. CASE busy # Waiting
    <3>1. busy'.branch = busy.branch /\ slept' = slept
      BY <1>1, <2>2 DEF Tick, TypeOK
    <3> QED
      BY <1>1, <2>2, <3>1 DEF TypeOK, Waiting
  <2> QED
    BY <2>1, <2>2
<1>5. Sleeps(served)' = Sleeps(served) /\ Sleeps(served) \in Nat /\ Waiting.branch = "none"
  BY <1>1, <1>2, Counters DEF Sleeps, Waiting
<1>6. slept' \in Nat
  BY <1>1, Limits DEF TypeOK
<1>7. Schedule'
  <2>1. /\ slept \in Nat /\ sleepLeft \in Nat /\ longest \in Nat /\ served \in Nat
        /\ IDLE_ROUND_INTERVAL \in Nat /\ MaxServed \in Nat
    BY <1>1, Counters, Constants
  <2>2. Schedule
    BY DEF Inv
  <2> QED
    BY <1>2, <1>3, <1>4, <1>5, <1>6, <2>1, <2>2 DEF Schedule, TimerBranches
<1>8. slept' <= sinceRound' \/ sinceRound' = LongestInterval
  <2>1. slept \in Nat /\ sinceRound \in Nat /\ sinceRound <= LongestInterval /\ LongestInterval \in Nat
    BY <1>1, Counters, Limits
  <2>2. slept' <= slept + 1
    BY <1>4, <1>6, <2>1
  <2> QED
    BY <1>2, <1>6, <2>1, <2>2 DEF Inv, Aged, AtMost
<1>9. attached' => longest' >= CurrentInterval'
  <2>1. ASSUME attached PROVE CurrentInterval' = CurrentInterval
    <3>1. pm'.state = pm.state
      BY <1>1 DEF Tick, TypeOK, PowerManagers
    <3> QED
      BY <1>2, <2>1, <3>1 DEF CurrentInterval
  <2> QED
    BY <1>1, <1>2, <2>1, IntervalType
<1> QED
  BY <1>1, <1>7, <1>8, <1>9 DEF Inv, Aged

\* A pass without a round: the interval is not over, so less than it was slept.
LEMMA SleepEndsStep ==
  ASSUME Inv, SleepEnds
  PROVE  Inv'
<1>1. TypeOK /\ TypeOK'
  BY TypeStep DEF Inv, Next, Select
<1>2. UNCHANGED <<sinceRound, slept, longest, served, attached>> /\ Timeless /\ busy = Waiting
  BY DEF SleepEnds, historyVars, Timeless
<1>3. CurrentInterval' = CurrentInterval /\ Interval' = Interval /\ Sleeps(served)' = Sleeps(served)
  BY <1>2, TimelessStep DEF Interval, Sleeps
<1>4. Waiting.branch = "none"
  BY DEF Waiting
<1>5. CASE Take("round")
  <2>1. busy'.branch = "round"
    BY <1>5, TakeType
  <2> QED
    BY <1>1, <1>2, <1>3, <1>4, <2>1 DEF Inv, Aged, Schedule, TimerBranches
<1>6. CASE sinceRound < CurrentInterval /\ NextPass
  <2>1. slept < CurrentInterval
    BY <1>1, <1>6, IntervalType, Counters, Limits DEF Inv, Aged
  <2>2. busy' = Waiting /\ sleepLeft' = SleepInterval
    BY <1>6 DEF NextPass
  <2>3. slept + SleepInterval <= Interval + Sleeps(served) + IDLE_ROUND_INTERVAL
    BY <1>1, <2>1, IntervalType, Counters, Constants
  <2> QED
    BY <1>1, <1>2, <1>3, <1>4, <2>2, <2>3 DEF Inv, Aged, Schedule, TimerBranches
<1> QED
  BY <1>5, <1>6 DEF SleepEnds

LEMMA RoundEndsStep ==
  ASSUME Inv, RoundEnds
  PROVE  Inv'
<1>1. TypeOK /\ TypeOK'
  BY TypeStep DEF Inv, Next
<1>2. /\ busy' = Waiting /\ sleepLeft' = SleepInterval /\ slept' = 0 /\ sinceRound' = 0
      /\ longest' = CurrentInterval /\ Timeless
  BY DEF RoundEnds, NextPass, Timeless
<1>3. CurrentInterval' = CurrentInterval /\ Interval' \in Nat /\ Sleeps(served)' \in Nat
  <2>1. served' \in Nat /\ Sleeps(served)' = Sleeps(served')
    BY <1>1, Constants DEF TypeOK, Sleeps
  <2> QED
    BY <1>1, <1>2, <2>1, TimelessStep, IntervalNext, SleepsStep
<1>4. SleepInterval \in 1..IDLE_ROUND_INTERVAL /\ CurrentInterval \in Nat
  BY <1>1, IntervalType
<1> QED
  BY <1>1, <1>2, <1>3, <1>4, Constants DEF Inv, Aged, Schedule, TimerBranches, Waiting

\* A branch of a timer or an event is taken: it is counted, and its sleep is
\* allowed for.
LEMMA ServeStep ==
  ASSUME Inv, TypeOK', NEW b \in {"request", "bans", "event"}, Serve(b), Timeless,
         UNCHANGED <<sinceRound, slept, longest>>
  PROVE  Inv'
<1>1. TypeOK /\ busy'.branch = b /\ busy' # Waiting /\ b \in TimerBranches
  BY TakeType, ServeType DEF Inv, Waiting, TimerBranches
<1>2. CurrentInterval' = CurrentInterval
  BY TimelessStep
<1>3. served' = AtMost(served + 1, MaxServed) /\ served' \in Nat
  BY Constants DEF Serve, TypeOK
<1>4. served' < MaxServed => served' = served + 1 /\ served < MaxServed
  BY <1>1, <1>3, Counters, Constants DEF AtMost
<1>5. Sleeps(served)' = Sleeps(served') /\ Sleeps(served') \in Nat
  BY <1>3, SleepsStep DEF Sleeps
<1>6. served' < MaxServed => Sleeps(served') = Sleeps(served) + IDLE_ROUND_INTERVAL
  BY <1>1, <1>4, Counters, SleepsStep
<1>7. Schedule'
  BY <1>1, <1>4, <1>5, <1>6, Counters, Constants DEF Inv, Schedule
<1> QED
  BY <1>1, <1>2, <1>7 DEF Inv, Aged, Timeless

\* ... and when it returns, the next sleep is within what is allowed.
LEMMA BranchEndsStep ==
  ASSUME Inv, BranchEnds
  PROVE  Inv'
<1>1. TypeOK /\ TypeOK'
  BY TypeStep DEF Inv, Next
<1>2. /\ busy' = Waiting /\ sleepLeft' = SleepInterval /\ busy.branch \in TimerBranches
      /\ UNCHANGED <<sinceRound, slept, longest, served, attached>> /\ Timeless
  BY DEF BranchEnds, NextPass, historyVars, Timeless, TimerBranches
<1>3. CurrentInterval' = CurrentInterval /\ Interval' = Interval /\ Sleeps(served)' = Sleeps(served)
  BY <1>2, TimelessStep DEF Interval, Sleeps
<1>4. Interval \in Nat /\ longest <= Interval /\ SleepInterval \in 1..IDLE_ROUND_INTERVAL
  BY <1>1, IntervalType
<1>5. Waiting.branch \notin TimerBranches
  BY DEF Waiting, TimerBranches
<1>6. Schedule'
  BY <1>1, <1>2, <1>3, <1>4, <1>5, Counters, Constants DEF Inv, Schedule
<1> QED
  BY <1>1, <1>2, <1>3, <1>6 DEF Inv, Aged

\* A call of the power manager may raise the interval.
LEMMA LeavesStep ==
  ASSUME Inv, NEW m \in PowerManagers, m.state = "Active" <=> m.mode = "HighPower", Leaves(m)
  PROVE  Inv'
<1>1. TypeOK /\ TypeOK'
  BY LeavesType DEF Inv
<1>2. /\ UNCHANGED <<sleepLeft, busy, sinceRound, attached, slept, served>> /\ attached
      /\ pm' = m /\ longest' = AtLeast(longest, Recommended(m.state))
  BY DEF Leaves
<1>3. CurrentInterval' = Recommended(m.state)
  BY <1>2 DEF CurrentInterval
<1>4. Recommended(m.state) \in Nat
  BY Constants DEF Recommended, PowerManagers, PowerStates
<1>5. Interval = longest
  BY <1>1, <1>2, IntervalType, Counters DEF Inv, Aged, Interval, AtLeast
<1>6. longest' \in Nat /\ longest' >= longest /\ longest' >= CurrentInterval' /\ Interval' = longest'
  BY <1>1, <1>2, <1>3, <1>4, Counters DEF AtLeast, Interval
<1>7. Sleeps(served)' = Sleeps(served) /\ Sleeps(served) \in Nat
  BY <1>1, <1>2, Counters DEF Sleeps
<1>8. Schedule'
  BY <1>1, <1>2, <1>5, <1>6, <1>7, Counters, Constants DEF Inv, Schedule
<1> QED
  BY <1>1, <1>2, <1>6, <1>8 DEF Inv, Aged

LEMMA InvStep == Inv /\ [Next]_vars => Inv'
<1> SUFFICES ASSUME Inv, [Next]_vars PROVE Inv'
  OBVIOUS
<1>1. TypeOK /\ TypeOK'
  BY TypeStep DEF Inv
<1>2. ASSUME Publish \/ UNCHANGED vars PROVE Inv'
  <2>1. UNCHANGED <<sleepLeft, busy, sinceRound, attached, slept, longest, served>> /\ Timeless
    BY <1>2 DEF Publish, vars, historyVars, Timeless
  <2>2. CurrentInterval' = CurrentInterval /\ Interval' = Interval /\ Sleeps(served)' = Sleeps(served)
    BY <2>1, TimelessStep DEF Interval, Sleeps
  <2> QED
    BY <1>1, <2>1, <2>2 DEF Inv, Aged, Schedule
<1>3. ASSUME RequestSent \/ ResponseReceived PROVE Inv'
  <2>1. /\ UNCHANGED <<sleepLeft, sinceRound, attached, slept, longest, served>> /\ Timeless
        /\ busy.branch \in TimerBranches /\ busy'.branch \in TimerBranches /\ busy' # Waiting
    BY <1>3 DEF RequestSent, ResponseReceived, TimerBranches, historyVars, Timeless, Waiting
  <2>2. CurrentInterval' = CurrentInterval /\ Sleeps(served)' = Sleeps(served)
    BY <2>1, TimelessStep DEF Sleeps
  <2> QED
    BY <1>1, <2>1, <2>2 DEF Inv, Aged, Schedule, TimerBranches
<1>4. ASSUME SyncTimer \/ BanCheckTimer \/ TopologyEvent PROVE Inv'
  <2>1. /\ Serve("request") \/ Serve("bans") \/ Serve("event")
        /\ Timeless /\ UNCHANGED <<sinceRound, slept, longest>>
    BY <1>4 DEF SyncTimer, BanCheckTimer, TopologyEvent, Timeless
  <2> QED
    BY <1>1, <2>1, ServeStep
<1> QED
  BY <1>1, <1>2, <1>3, <1>4, TickStep, SleepEndsStep, RoundEndsStep, BranchEndsStep, HostType, LeavesStep
     DEF Next, Select
-----------------------------------------------------------------------------
\* The state of the loop, its scheduler and the power manager stays within
\* its type.
THEOREM TypeCorrect == Spec => []TypeOK
BY TypeInit, TypeStep, PTL DEF Spec

\* Between two rounds of run_gossip_loop the loop sleeps no longer than the
\* longest interval in force, one sleep for every branch of a timer or a
\* topology event, and one more: whichever branch of select! is taken when
\* several are ready, however many ticks a timer has missed, however long the
\* branches take, and whenever the power state changes.
THEOREM RoundsAreTimely == Spec => []RoundGap
<1>1. Inv => RoundGap
  <2> SUFFICES ASSUME Inv, served < MaxServed PROVE slept <= longest + IDLE_ROUND_INTERVAL * (served + 1)
    BY DEF RoundGap
  <2>1. served \in Nat /\ slept <= longest + Sleeps(served) + IDLE_ROUND_INTERVAL
    BY Counters DEF Inv, Schedule
  <2>2. IDLE_ROUND_INTERVAL * (served + 1) = Sleeps(served) + IDLE_ROUND_INTERVAL
    BY <2>1, SleepsStep
  <2>3. longest \in Nat /\ Sleeps(served) \in Nat /\ slept \in Nat
    BY Counters DEF Inv
  <2> HIDE DEF Inv
  <2> DEFINE q == IDLE_ROUND_INTERVAL * (served + 1)
  <2>4. q = Sleeps(served) + IDLE_ROUND_INTERVAL
    BY <2>2
  <2> HIDE DEF q
  <2>5. slept <= longest + q
    BY <2>1, <2>3, <2>4, Constants
  <2> QED
    BY <2>5 DEF q
<1> QED
  BY <1>1, InvInit, InvStep, PTL DEF Spec
=============================================================================
