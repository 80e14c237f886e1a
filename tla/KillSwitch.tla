----------------------------- MODULE KillSwitch -----------------------------
(***************************************************************************)
(* backend/core/risk/kill_switch.py: the KillSwitch that stops new entries *)
(* after a daily loss, a burst of slippage events or a gateway outage, and *)
(* the sliding-window CircuitBreaker it owns.                              *)
(*                                                                         *)
(* Every operation of the class is one action: the object lives in one     *)
(* event loop and none of its methods awaits.  Time is the `now` argument  *)
(* the callers pass, a clock that never runs backwards, in seconds; its    *)
(* unit in an instance is whatever the constants make it.                  *)
(***************************************************************************)
EXTENDS Integers, Sequences

CONSTANTS
  Threshold,          \* CircuitBreaker.threshold
  Window,             \* CircuitBreaker.window_seconds
  DisconnectSeconds,  \* KillSwitch.GATEWAY_DISCONNECT_SECONDS
  Cooldown,           \* KillSwitch.COOLDOWN_HOURS
  LossPct,            \* -KillSwitch.DAILY_LOSS_PCT, in percent
  Balances,           \* account balances the callers report
  MaxTime,            \* bound on the clock
  None                \* Python's None

ASSUME ThresholdAssumption == Threshold \in Nat \ {0}
ASSUME DurationAssumption ==
  /\ Window \in Nat
  /\ DisconnectSeconds \in Nat
  /\ Cooldown \in Nat
ASSUME BalanceAssumption == Balances \subseteq Int /\ LossPct \in Nat
ASSUME BoundAssumption == MaxTime \in Nat

\* TripReason
Reasons == {"daily_loss", "slippage", "gateway_disconnect", "manual"}

ASSUME NoneAssumption == None \notin Int /\ None \notin Reasons

VARIABLES
  now,            \* the clock
  base,           \* _daily_pnl_base
  isActive,       \* _state.is_active: new entries are blocked
  triggeredAt,    \* _state.triggered_at
  reason,         \* _state.reason
  cooldownUntil,  \* _state.cooldown_until
  events,         \* _slippage_breaker._events, oldest first
  downSince,      \* _gateway_disconnect_since
  slips,          \* history: times of the slippage events since the last effective reset
  lastTrip        \* history: time of the latest trip, whatever happened since

state == <<isActive, triggeredAt, reason, cooldownUntil>>
vars == <<now, base, isActive, triggeredAt, reason, cooldownUntil, events,
          downSince, slips, lastTrip>>

Time == 0..MaxTime

(***************************************************************************)
(* Helpers                                                                 *)
(***************************************************************************)

\* Faulty variant: an event exactly as old as the window is dropped.
StalePrefixInclusive(q, k, cutoff) ==
  /\ \A i \in 1..k : q[i] <= cutoff
  /\ k < Len(q) => q[k + 1] > cutoff

\* The popleft loop of CircuitBreaker.record stops at the first entry that is
\* not older than the cutoff: it drops the first k entries of q.
StalePrefix(q, k, cutoff) ==
  /\ \A i \in 1..k : q[i] < cutoff
  /\ k < Len(q) => q[k + 1] >= cutoff

\* Faulty variant: the burst needs one event more than the threshold.
ThresholdExceeded(q) == Len(q) > Threshold

\* CircuitBreaker.record returns whether the deque has grown to the threshold.
ThresholdReached(q) == Len(q) >= Threshold

\* record_loss: the balance lost at least LossPct percent of the base.
LossLimitReached(balance) ==
  /\ base # None
  /\ base > 0
  /\ (balance - base) * 100 <= -(LossPct * base)

\* Faulty variant: the cooldown is subtracted.
TripBackwards(why) ==
  /\ isActive' = TRUE
  /\ triggeredAt' = now
  /\ reason' = why
  /\ cooldownUntil' = now - Cooldown
  /\ lastTrip' = now

\* Faulty variant: a trip while the switch is on keeps the running cooldown.
TripOnce(why) ==
  /\ isActive' = TRUE
  /\ triggeredAt' = now
  /\ reason' = why
  /\ cooldownUntil' = IF isActive THEN cooldownUntil ELSE now + Cooldown
  /\ lastTrip' = now

\* trip: whatever the state was, it is frozen anew.
Trip(why) ==
  /\ isActive' = TRUE
  /\ triggeredAt' = now
  /\ reason' = why
  /\ cooldownUntil' = now + Cooldown
  /\ lastTrip' = now

NoTrip == UNCHANGED <<state, lastTrip>>

(***************************************************************************)
(* Actions                                                                 *)
(***************************************************************************)

Init ==
  /\ now = 0
  /\ base = None
  /\ isActive = FALSE
  /\ triggeredAt = None
  /\ reason = None
  /\ cooldownUntil = None
  /\ events = <<>>
  /\ downSince = None
  /\ slips = <<>>
  /\ lastTrip = None

Tick ==
  /\ now < MaxTime
  /\ now' = now + 1
  /\ UNCHANGED <<base, state, events, downSince, slips, lastTrip>>

SetAccountBase(b) ==
  /\ base' = b
  /\ UNCHANGED <<now, state, events, downSince, slips, lastTrip>>

RecordLoss(balance) ==
  /\ IF LossLimitReached(balance) THEN Trip("daily_loss") ELSE NoTrip
  /\ UNCHANGED <<now, base, events, downSince, slips>>

\* MaxTime + 1 also bounds the number of slippage events an instance records.
RecordSlippage ==
  /\ Len(slips) <= MaxTime
  /\ LET q == Append(events, now) IN
     \E k \in 0..Len(q) : /\ StalePrefix(q, k, now - Window)
                          /\ events' = SubSeq(q, k + 1, Len(q))
  /\ slips' = Append(slips, now)
  /\ IF ThresholdReached(events') THEN Trip("slippage") ELSE NoTrip
  /\ UNCHANGED <<now, base, downSince>>

GatewayUp ==
  /\ downSince' = None
  /\ UNCHANGED <<now, base, state, events, slips, lastTrip>>

GatewayDown ==
  \/ /\ downSince = None
     /\ downSince' = now
     /\ UNCHANGED <<now, base, state, events, slips, lastTrip>>
  \/ /\ downSince # None
     /\ IF now - downSince >= DisconnectSeconds
        THEN Trip("gateway_disconnect")
        ELSE NoTrip
     /\ UNCHANGED <<now, base, events, downSince, slips>>

TripManual ==
  /\ Trip("manual")
  /\ UNCHANGED <<now, base, events, downSince, slips>>

\* Faulty variant: the operator may reset at any time.
ResetAtOnce ==
  /\ isActive
  /\ isActive' = FALSE
  /\ triggeredAt' = None
  /\ reason' = None
  /\ cooldownUntil' = None
  /\ events' = <<>>
  /\ downSince' = None
  /\ slips' = <<>>
  /\ UNCHANGED <<now, base, lastTrip>>

\* reset: True at once when inactive, refused during the cooldown.
Reset ==
  /\ isActive
  /\ now >= cooldownUntil
  /\ isActive' = FALSE
  /\ triggeredAt' = None
  /\ reason' = None
  /\ cooldownUntil' = None
  /\ events' = <<>>
  /\ downSince' = None
  /\ slips' = <<>>
  /\ UNCHANGED <<now, base, lastTrip>>

Next ==
  \/ Tick
  \/ \E b \in Balances : SetAccountBase(b)
  \/ \E b \in Balances : RecordLoss(b)
  \/ RecordSlippage
  \/ GatewayUp
  \/ GatewayDown
  \/ TripManual
  \/ Reset

Spec == Init /\ [][Next]_vars

(***************************************************************************)
(* Properties                                                              *)
(***************************************************************************)

\* The variables have the types the class gives them.
TypeOK ==
  /\ now \in Time
  /\ base \in Balances \cup {None}
  /\ isActive \in BOOLEAN
  /\ triggeredAt \in Time \cup {None}
  /\ reason \in Reasons \cup {None}
  /\ cooldownUntil \in Nat \cup {None}
  /\ events \in Seq(Time)
  /\ downSince \in Time \cup {None}
  /\ slips \in Seq(Time)
  /\ lastTrip \in Time \cup {None}

\* After any trip, whatever is recorded or reset afterwards, entries stay
\* blocked for the whole cooldown counted from the latest trip
\* (kill_switch.py:118 sets it, :131 must refuse every earlier reset, and no
\* other method may shorten it).
Blackout ==
  lastTrip # None /\ now < lastTrip + Cooldown => isActive

\* While the switch is on, its frozen state tells one story: it carries the
\* reason and time of the latest trip and the end of that trip's cooldown.
StateAgreesWithLatestTrip ==
  /\ isActive => /\ triggeredAt = lastTrip
                 /\ lastTrip # None
                 /\ reason # None
                 /\ cooldownUntil = lastTrip + Cooldown
  /\ ~isActive => triggeredAt = None /\ reason = None /\ cooldownUntil = None

\* The sliding window forgets nothing too early and keeps nothing too long:
\* after any run of events, the deque is exactly the suffix of all events
\* since the last reset that lie within Window of the newest one.
WindowIsExact ==
  slips # <<>> =>
    \E k \in 0..Len(slips) :
      /\ events = SubSeq(slips, k + 1, Len(slips))
      /\ \A i \in 1..Len(slips) : i <= k <=> slips[i] < slips[Len(slips)] - Window

\* A burst of Threshold slippage events inside one window, at any time since
\* the switch was last cleared, has left the switch on: evicting old events
\* must never lose a burst, and only a reset may clear it.
BurstTrips ==
  \A i \in 1..Len(slips) :
    i + Threshold - 1 <= Len(slips) /\ slips[i + Threshold - 1] - slips[i] <= Window
      => isActive

=============================================================================
