---------------------------- MODULE PowerManager ----------------------------
(***************************************************************************)
(* PowerManager of src/transport/power.rs, as a value and the operators    *)
(* that compute its next value.  The clock it is called with matters in    *)
(* two ways: whether it is in the synchronized wake window, and for how    *)
(* long no activity was recorded (idleFor).  now_ms, which only the duty   *)
(* cycle of BLE advertisements reads, is left out.                         *)
(***************************************************************************)
EXTENDS Naturals

CONSTANT IDLE_SLEEP_TIMEOUT

ASSUME PowerAssumption == IDLE_SLEEP_TIMEOUT \in Nat \ {0}

PowerStates == {"Active", "LowPower", "DeepSleep"}
Asleep(pm) == pm.mode = "SynchronizedLowPower"

NewPowerManager ==
  [state |-> "Active", mode |-> "HighPower", idleFor |-> 0, pending |-> FALSE, emitted |-> FALSE]

\* The assignments that every way of waking up makes.
Woken(pm) ==
  [pm EXCEPT !.state = "Active", !.mode = "HighPower", !.idleFor = 0, !.emitted = FALSE]

\* set_state.  It leaves pending_outbound_transaction and sleep_flag_emitted
\* as they are.
SetState(pm, s) ==
  [pm EXCEPT !.state = s, !.mode = IF s = "Active" THEN "HighPower" ELSE "SynchronizedLowPower"]

\* tick: the manager, and what the PowerDecision says.
PowerTick(pm, window) ==
  LET dozing == IF pm.idleFor >= IDLE_SLEEP_TIMEOUT /\ ~Asleep(pm)
                THEN [pm EXCEPT !.state = "LowPower", !.mode = "SynchronizedLowPower"]
                ELSE pm
      goToSleep == Asleep(dozing) /\ ~dozing.emitted
      wake == Asleep(dozing) /\ dozing.pending /\ window
  IN  [pm |-> IF wake THEN [Woken(dozing) EXCEPT !.pending = FALSE]
              ELSE [dozing EXCEPT !.emitted = @ \/ goToSleep],
       goToSleep |-> goToSleep, wake |-> wake]

\* record_incoming_transaction
RecordIncoming(pm, window) == PowerTick([Woken(pm) EXCEPT !.pending = FALSE], window)

\* record_outbound_transaction: asleep and outside of the window the
\* transaction waits; else the manager wakes up.
RecordOutbound(pm, window) ==
  LET ticked == PowerTick(pm, window)
  IN  [ticked EXCEPT !.pm = IF Asleep(@) /\ ~window THEN [@ EXCEPT !.pending = TRUE] ELSE Woken(@)]

PowerManagers ==
  [state : PowerStates, mode : {"HighPower", "SynchronizedLowPower"},
   idleFor : 0..IDLE_SLEEP_TIMEOUT, pending : BOOLEAN, emitted : BOOLEAN]
=============================================================================
