-------------------------- MODULE ReconnectPolicy --------------------------
(***************************************************************************)
(* DefaultReconnectPolicy against the clock, driven as the reconnect       *)
(* orchestrator drives it: backoff, the window of maxElapsedMs, and the    *)
(* correction for the time the machine slept while a timer was armed.      *)
(* Time is counted in ticks; the machine is awake or asleep.  "awake" and  *)
(* "sleeps" are history variables: what the policy tries to measure.       *)
(***************************************************************************)
EXTENDS Integers

CONSTANTS
  BaseDelay,       \* baseMs
  MaxDelay,        \* maxMs
  MaxElapsed,      \* maxElapsedMs
  Exponential,     \* exponential
  FullJitter,      \* jitter = full
  DriftThreshold,  \* SLEEP_DRIFT_THRESHOLD_MS
  SleepIn,         \* the states in which the machine may fall asleep
  SleepLengths,    \* how long a sleep may last
  MaxSleeps,       \* bound: sleeps per window
  MaxAttempt,      \* bound: attempts in one window
  MaxNow           \* bound: the clock

ASSUME TimeAssumption ==
  /\ BaseDelay \in Nat /\ MaxDelay \in Nat /\ MaxElapsed \in Nat
  /\ DriftThreshold \in Nat /\ MaxNow \in Nat /\ MaxSleeps \in Nat
  /\ MaxAttempt \in Nat /\ SleepLengths \subseteq Nat
ASSUME ModeAssumption == Exponential \in BOOLEAN /\ FullJitter \in BOOLEAN

NotStarted == -1   \* windowStartedAt = null

VARIABLES
  state,            \* ready, waiting for the timer, attempting, exhausted
  now,              \* ReconnectClock.now()
  attempt, windowStartedAt, suspended,   \* DefaultReconnectPolicy
  expectedFireAt,   \* of the armed timer
  awake,            \* history: time awake since the window started
  sleeps            \* history: sleeps since the window started

policyVars == <<state, now, attempt, windowStartedAt, suspended,
                expectedFireAt, awake, sleeps>>

States == {"ready", "waiting", "attempting", "exhausted"}

PolicyTypeOK ==
  /\ state \in States
  /\ now \in Nat
  /\ attempt \in Nat
  /\ windowStartedAt \in Nat \cup {NotStarted}
  /\ suspended \in Nat
  /\ expectedFireAt \in Nat
  /\ awake \in Nat
  /\ sleeps \in Nat

PolicyInit ==
  /\ state = "ready"
  /\ now = 0
  /\ attempt = 0 /\ windowStartedAt = NotStarted /\ suspended = 0
  /\ expectedFireAt = 0
  /\ awake = 0 /\ sleeps = 0

-----------------------------------------------------------------------------
(* Slips: what a definition below would be if the code had it wrong.  No   *)
(* action uses them; each property is checked to tell them apart.          *)

\* A late timer is not taken for a sleep.
DriftIgnored == 0

\* The whole wait counts as sleep, not only what came after its end.
DriftFromStart == IF windowStartedAt = NotStarted THEN 0
                                                  ELSE now - windowStartedAt

-----------------------------------------------------------------------------
Lesser(m, n) == IF m < n THEN m ELSE n

CappedDelay(n) ==
  Lesser(IF Exponential THEN BaseDelay * 2 ^ (n - 1) ELSE BaseDelay, MaxDelay)

BackoffDelays(n) ==
  IF FullJitter THEN 0 .. CappedDelay(n) ELSE {CappedDelay(n)}

\* startWindow(): what windowStartedAt is once a decision was asked for.
WindowStart == IF windowStartedAt = NotStarted THEN now ELSE windowStartedAt

\* getElapsedMs(), with "lost" ticks recorded as suspended.
ElapsedLess(lost) ==
  IF now - WindowStart - lost < 0 THEN 0 ELSE now - WindowStart - lost

Elapsed == ElapsedLess(suspended)

\* scheduleNextAttempt: a delay that would reach the end of the window.
ReachesEnd(delay) == Elapsed + delay >= MaxElapsed

\* How late the timer fired; only what exceeds the threshold was sleep.
Drift == now - expectedFireAt

\* reset()
ResetPolicy == attempt' = 0 /\ windowStartedAt' = NotStarted /\ suspended' = 0

\* scheduleReconnect: scheduleNextAttempt and the timer it arms.
ScheduleNextAttempt ==
  /\ attempt < MaxAttempt
  /\ windowStartedAt' = WindowStart
  /\ IF Elapsed >= MaxElapsed
     THEN state' = "exhausted" /\ UNCHANGED <<attempt, expectedFireAt>>
     ELSE /\ attempt' = attempt + 1
          /\ \E delay \in BackoffDelays(attempt + 1) :
               IF ReachesEnd(delay)
               THEN state' = "exhausted" /\ UNCHANGED expectedFireAt
               ELSE state' = "waiting" /\ expectedFireAt' = now + delay
  /\ UNCHANGED <<now, suspended, awake, sleeps>>

\* A retryable close of the READY session, or of a reconnect attempt.
SessionLost == state = "ready" /\ ScheduleNextAttempt
AttemptClosed == state = "attempting" /\ ScheduleNextAttempt

\* register_ok of a reconnect attempt, or of a later connect(): reset().
Established ==
  /\ state \in {"attempting", "exhausted"}
  /\ state' = "ready"
  /\ ResetPolicy
  /\ awake' = 0 /\ sleeps' = 0
  /\ UNCHANGED <<now, expectedFireAt>>

\* The reconnect task: the drift of a late timer is not active time.
TimerFires ==
  /\ state = "waiting"
  /\ now >= expectedFireAt
  /\ suspended' =
       IF Drift > DriftThreshold THEN suspended + Drift ELSE suspended
  /\ state' = IF ElapsedLess(suspended') < MaxElapsed THEN "attempting"
                                                      ELSE "exhausted"
  /\ windowStartedAt' = WindowStart
  /\ UNCHANGED <<now, attempt, expectedFireAt, awake, sleeps>>

\* While the machine is awake a timer fires when it is due.
AwakeTick ==
  /\ now < MaxNow
  /\ state = "waiting" => now < expectedFireAt
  /\ now' = now + 1
  /\ awake' = IF windowStartedAt = NotStarted THEN awake ELSE awake + 1
  /\ UNCHANGED <<state, attempt, windowStartedAt, suspended, expectedFireAt,
                 sleeps>>

\* Asleep: the clock goes on, timers and sockets do not.
Sleep ==
  /\ state \in SleepIn
  /\ sleeps < MaxSleeps
  /\ \E length \in SleepLengths :
       /\ now + length <= MaxNow
       /\ now' = now + length
  /\ sleeps' = sleeps + 1
  /\ UNCHANGED <<state, attempt, windowStartedAt, suspended, expectedFireAt,
                 awake>>

PolicyNext ==
  \/ SessionLost \/ AttemptClosed \/ Established \/ TimerFires
  \/ AwakeTick \/ Sleep

PolicySpec == PolicyInit /\ [][PolicyNext]_policyVars

-----------------------------------------------------------------------------
(* Properties *)

\* What is deducted as sleep was really spent inside the window, so the
\* clamp of getElapsedMs at 0 never hides time; reset() leaves nothing of
\* one window to the next.
SuspendedWithinWindow ==
  IF windowStartedAt = NotStarted
  THEN suspended = 0 /\ attempt = 0
  ELSE suspended + windowStartedAt <= now

\* The deduction is for sleep only: the policy never counts less than the
\* time the program was awake, so a window ends after MaxElapsed of it.
AwakeTimeCounts == awake <= Elapsed

\* What a window may count: the time awake and, for each sleep, a delay that
\* was slept through and a drift too small to be told from a late timer.
Countable == awake + sleeps * (MaxDelay + DriftThreshold)

\* The other direction: a sleep hardly shortens a window.  Reconnecting ends
\* only when the time awake, a delay and a drift threshold for each sleep and
\* the delay that would cross the end make up MaxElapsed, however long the
\* machine slept, if it sleeps while a timer is armed.
\* scheduleNextAttempt, recordSuspendedDuration, the reconnect task.
SleepSparesTheWindow == state = "exhausted" => MaxElapsed <= Countable + MaxDelay
=============================================================================
