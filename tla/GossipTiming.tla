---------------------------- MODULE GossipTiming ----------------------------
(***************************************************************************)
(* When gossip rounds happen: the select! loop of run_gossip_loop          *)
(* (gossip/protocol.rs), GossipScheduler (gossip/round.rs) and the         *)
(* PowerManager that may be attached to it.  What a round and a            *)
(* synchronization do is module GossipMesh.                                *)
(*                                                                         *)
(* Time passes in ticks.  The loop is prompt while it waits: when a branch *)
(* is ready, no time passes.  Every pass of the loop makes a new sleep, so *)
(* a branch that is taken throws away what had passed of the sleep.  A     *)
(* branch that was taken waits for locks, the database and connections,    *)
(* and may take any time or never return; only the wait for the answer to  *)
(* a request has a limit.                                                  *)
(*                                                                         *)
(* Nothing can call record_activity on the scheduler, which belongs to the *)
(* loop: the last activity is its creation.                                *)
(***************************************************************************)
EXTENDS PowerManager

CONSTANTS ACTIVE_ROUND_INTERVAL, IDLE_ROUND_INTERVAL, IDLE_TIMEOUT,
          DEEP_ROUND_INTERVAL,              \* recommended in DeepSleep
          SYNC_INTERVAL, BAN_CHECK_INTERVAL, SYNC_TIMEOUT,
          WAKE_INTERVAL, WAKE_WINDOW,
          MaxMissed,                        \* missed ticks of a timer are counted up to here
          MaxServed,                        \* and the branches since a round up to there
          Prompt                            \* how fast a branch returns that returns in time

ASSUME TimingAssumption ==
  /\ {ACTIVE_ROUND_INTERVAL, IDLE_ROUND_INTERVAL, DEEP_ROUND_INTERVAL, IDLE_TIMEOUT, SYNC_INTERVAL,
      BAN_CHECK_INTERVAL, WAKE_INTERVAL, MaxMissed} \subseteq Nat \ {0}
  /\ {SYNC_TIMEOUT, WAKE_WINDOW, MaxServed, Prompt} \subseteq Nat
  /\ ACTIVE_ROUND_INTERVAL <= IDLE_ROUND_INTERVAL
  /\ BAN_CHECK_INTERVAL % SYNC_INTERVAL = 0 /\ BAN_CHECK_INTERVAL % WAKE_INTERVAL = 0

AtLeast(x, y) == IF x > y THEN x ELSE y
AtMost(x, y) == IF x < y THEN x ELSE y

\* The longest interval; how far the time in sleeps is told, and that in the
\* present branch.
LongestInterval == AtLeast(IDLE_ROUND_INTERVAL, DEEP_ROUND_INTERVAL)
Cap == LongestInterval + IDLE_ROUND_INTERVAL * (MaxServed + 1)
BranchCap == AtLeast(SYNC_TIMEOUT, Prompt + 1)

Timers == {"sync", "bans"}

VARIABLES clock,        \* modulo BAN_CHECK_INTERVAL
          due,          \* for every timer, the ticks that were not served
          sleepLeft,    \* what is left of the sleep of this pass
          busy,         \* the branch that runs, and for how long
          sinceRound,   \* the age of last_round_time, up to the longest interval
          sinceActive,  \* that of last_active_msg_time, up to IDLE_TIMEOUT
          queue,        \* topology events to be received
          attached,     \* has the scheduler a power manager?
          pm,           \* the power manager
          slept,        \* history: time in sleeps since the last round ended, as
                        \* long as fewer than MaxServed branches were taken
          longest,      \* history: the longest interval in force since then
          served        \* history: branches of timers and events taken since then

historyVars == <<slept, longest, served>>
vars == <<clock, due, sleepLeft, busy, sinceRound, sinceActive, queue, attached, pm, historyVars>>

Waiting == [branch |-> "none", time |-> 0]

\* is_idle
IsIdle == sinceActive >= IDLE_TIMEOUT

\* The duration in the sleep of select!, which does not ask the power manager.
SleepInterval == IF IsIdle THEN IDLE_ROUND_INTERVAL ELSE ACTIVE_ROUND_INTERVAL

\* recommended_round_interval
Recommended(state) ==
  CASE state = "Active" -> ACTIVE_ROUND_INTERVAL
    [] state = "LowPower" -> IDLE_ROUND_INTERVAL
    [] state = "DeepSleep" -> DEEP_ROUND_INTERVAL

\* current_interval
CurrentInterval == IF attached THEN Recommended(pm.state) ELSE SleepInterval

\* is_awake_window
AwakeWindow == clock % WAKE_INTERVAL < WAKE_WINDOW

\* The first tick of a tokio interval is at once.
Init ==
  /\ clock = 0 /\ due = [t \in Timers |-> 1]
  /\ sleepLeft = ACTIVE_ROUND_INTERVAL /\ busy = Waiting
  /\ sinceRound = 0 /\ sinceActive = 0 /\ queue = 0
  /\ attached \in BOOLEAN /\ pm = NewPowerManager
  /\ slept = 0 /\ longest = ACTIVE_ROUND_INTERVAL /\ served = 0

\* May time pass?  Not while the loop is about to take a branch, nor when the
\* time for an answer is over.
TimeMayPass ==
  \/ busy = Waiting /\ sleepLeft > 0 /\ queue = 0 /\ \A t \in Timers : due[t] = 0
  \/ busy # Waiting /\ (busy.branch = "answer" => busy.time < SYNC_TIMEOUT)

\* Faulty variant of FallsDue: the period of synchronizations is taken in
\* milliseconds.
FallsDueTooOften(t) == IF t = "sync" THEN TRUE ELSE clock' = 0

\* A timer that falls due while an earlier tick is waiting makes up for it
\* later (MissedTickBehavior::Burst).
FallsDue(t) == IF t = "sync" THEN clock' % SYNC_INTERVAL = 0 ELSE clock' = 0

Tick ==
  /\ TimeMayPass
  /\ clock' = (clock + 1) % BAN_CHECK_INTERVAL
  /\ due' = [t \in Timers |-> IF FallsDue(t) THEN AtMost(due[t] + 1, MaxMissed) ELSE due[t]]
  /\ \/ /\ busy = Waiting
        /\ sleepLeft' = sleepLeft - 1
        /\ slept' = IF served < MaxServed THEN AtMost(slept + 1, Cap + 1) ELSE slept
        /\ UNCHANGED busy
     \/ /\ busy # Waiting
        /\ busy' = [busy EXCEPT !.time = AtMost(@ + 1, BranchCap)]
        /\ UNCHANGED <<sleepLeft, slept>>
  /\ sinceRound' = AtMost(sinceRound + 1, LongestInterval)
  /\ sinceActive' = AtMost(sinceActive + 1, IDLE_TIMEOUT)
  /\ pm' = [pm EXCEPT !.idleFor = AtMost(@ + 1, IDLE_SLEEP_TIMEOUT)]
  /\ longest' = AtLeast(longest, CurrentInterval)
  /\ UNCHANGED <<queue, attached, served>>
-----------------------------------------------------------------------------
(* The loop *)

\* Faulty variant of NextPass: the sleep is as long as the power manager asks.
NextPassRecommended == sleepLeft' = CurrentInterval /\ busy' = Waiting

\* The next pass of the loop, with a new sleep.
NextPass == sleepLeft' = SleepInterval /\ busy' = Waiting

\* A branch of select! is taken; the sleep is dropped.
Take(branch) == busy = Waiting /\ busy' = [branch |-> branch, time |-> 0] /\ sleepLeft' = 0

\* The sleep is over: a round, if it is time for one.
SleepEnds ==
  /\ busy = Waiting /\ sleepLeft = 0
  /\ \/ sinceRound >= CurrentInterval /\ Take("round")
     \/ sinceRound < CurrentInterval /\ NextPass
  /\ UNCHANGED <<clock, due, sinceRound, sinceActive, queue, attached, pm, historyVars>>

\* execute_fanout_round returns; round_executed.
RoundEnds ==
  /\ busy.branch = "round"
  /\ NextPass
  /\ sinceRound' = 0 /\ slept' = 0 /\ longest' = CurrentInterval /\ served' = 0
  /\ UNCHANGED <<clock, due, sinceActive, queue, attached, pm>>

Serve(branch) == Take(branch) /\ served' = AtMost(served + 1, MaxServed)

\* anti_entropy_timer: the locks and the request, without a limit.
SyncTimer ==
  /\ due["sync"] > 0
  /\ due' = [due EXCEPT !["sync"] = @ - 1]
  /\ Serve("request")
  /\ UNCHANGED <<clock, sinceRound, sinceActive, queue, attached, pm, slept, longest>>

\* The request is sent and the transport locked again: the wait for the answer.
RequestSent ==
  /\ busy.branch = "request"
  /\ busy' = [branch |-> "answer", time |-> 0]
  /\ UNCHANGED <<clock, due, sleepLeft, sinceRound, sinceActive, queue, attached, pm, historyVars>>

\* A response of the peer: the lock of the gossip state, without a limit again.
ResponseReceived ==
  /\ busy.branch = "answer"
  /\ busy' = [branch |-> "merge", time |-> 0]
  /\ UNCHANGED <<clock, due, sleepLeft, sinceRound, sinceActive, queue, attached, pm, historyVars>>

\* ban_check_timer
BanCheckTimer ==
  /\ due["bans"] > 0
  /\ due' = [due EXCEPT !["bans"] = @ - 1]
  /\ Serve("bans")
  /\ UNCHANGED <<clock, sinceRound, sinceActive, queue, attached, pm, slept, longest>>

\* An event of the topology bus.
TopologyEvent ==
  /\ queue > 0
  /\ queue' = queue - 1
  /\ Serve("event")
  /\ UNCHANGED <<clock, due, sinceRound, sinceActive, attached, pm, slept, longest>>

\* The branch returns: no peer or a failed request, no answer in time or
\* something else, the response merged, the rows of the ended bans removed,
\* the event handled.
BranchEnds ==
  /\ busy.branch \in {"request", "answer", "merge", "bans", "event"}
  /\ NextPass
  /\ UNCHANGED <<clock, due, sinceRound, sinceActive, queue, attached, pm, historyVars>>

\* Somebody publishes an event.
Publish ==
  /\ queue = 0
  /\ queue' = 1
  /\ UNCHANGED <<clock, due, sleepLeft, busy, sinceRound, sinceActive, attached, pm, historyVars>>
-----------------------------------------------------------------------------
(* The host and the power manager *)

\* A call leaves manager new.
Leaves(new) ==
  /\ attached
  /\ pm' = new
  /\ longest' = AtLeast(longest, Recommended(new.state))
  /\ UNCHANGED <<clock, due, sleepLeft, busy, sinceRound, sinceActive, queue, attached, slept, served>>

\* set_state
HostSetsState(s) == Leaves(SetState(pm, s))

\* tick, record_incoming_transaction, record_outbound_transaction.  Of the
\* PowerDecision they return the loop sees nothing.
HostCalls ==
  \E r \in {PowerTick(pm, AwakeWindow), RecordIncoming(pm, AwakeWindow), RecordOutbound(pm, AwakeWindow)} :
    Leaves(r.pm)
-----------------------------------------------------------------------------
\* select! takes a branch that is ready.
Select == SleepEnds \/ SyncTimer \/ BanCheckTimer \/ TopologyEvent

Next ==
  \/ Tick \/ Select
  \/ RequestSent \/ ResponseReceived \/ RoundEnds \/ BranchEnds
  \/ Publish
  \/ \E s \in PowerStates : HostSetsState(s)
  \/ HostCalls

Spec == Init /\ [][Next]_vars

\* Time passes, and the runtime polls the loop.  That a branch returns is
\* guaranteed only for the wait for an answer, which is under a timeout.
FairSpec ==
  /\ Spec
  /\ WF_vars(Tick) /\ WF_vars(Select)
  /\ WF_vars(busy.branch = "answer" /\ (ResponseReceived \/ BranchEnds))
-----------------------------------------------------------------------------
TypeOK ==
  /\ clock \in 0..(BAN_CHECK_INTERVAL - 1) /\ due \in [Timers -> 0..MaxMissed]
  /\ sleepLeft \in 0..IDLE_ROUND_INTERVAL
  /\ busy \in [branch : {"none", "round", "request", "answer", "merge", "bans", "event"}, time : 0..BranchCap]
  /\ busy.branch = "none" => busy = Waiting
  /\ sinceRound \in 0..LongestInterval /\ sinceActive \in 0..IDLE_TIMEOUT
  /\ queue \in 0..1 /\ attached \in BOOLEAN /\ pm \in PowerManagers
  /\ pm.state = "Active" <=> pm.mode = "HighPower"
  /\ slept \in 0..(Cap + 1) /\ longest \in Nat /\ served \in 0..MaxServed

\* Between two rounds the loop sleeps at most for the longest interval that
\* was in force, one sleep for every branch of a timer or an event, each of
\* which throws away what had passed of the sleep, and one more.  Whatever
\* comes on top of this is time spent inside of the branches.
RoundGap == served < MaxServed => slept <= longest + IDLE_ROUND_INTERVAL * (served + 1)

\* Rounds go on for ever if from some time on there are no more topology
\* events and every branch returns within Prompt, except for the wait for an
\* answer, which may take all of its time: neither the timers and the ticks
\* they missed nor changes of the power state stop the rounds.
RoundsRecur ==
  <>[](queue = 0 /\ (busy.branch = "answer" \/ busy.time <= Prompt)) => []<>(busy.branch = "round")
=============================================================================
