--------------------------- MODULE ConnectionProofs ---------------------------
(***************************************************************************)
(* Who may connect, and until when: the reconnect window of the gateway    *)
(* client by the clock (ReconnectPolicy), and the connections of one       *)
(* OpenClaw account (AccountConnection).  The two modules share no names;  *)
(* each has a part of its own here.                                        *)
(***************************************************************************)
EXTENDS ReconnectPolicy, AccountConnection, TLAPS

-----------------------------------------------------------------------------
(* The reconnect window, for every budget, backoff, jitter and drift       *)
(* threshold, and for sleeps of any length at any time.                    *)

\* What the provers are not able to know of 2 ^ n, which takes an induction.
PowersOfTwo == \A n \in Nat : 2 ^ n \in Nat

\* While a window is open, the time awake and the time deducted fit between
\* its start and now.
TimeIsAccounted ==
  IF windowStartedAt = NotStarted
  THEN awake = 0 /\ suspended = 0 /\ attempt = 0
  ELSE awake + suspended + windowStartedAt <= now

\* While a timer is armed the machine is awake only until it is due, so that
\* the drift deducted when it fires is none of that time.
AwakeUntilDue ==
  state = "waiting" =>
    /\ windowStartedAt # NotStarted
    /\ awake + suspended + windowStartedAt <= expectedFireAt

\* The inductive invariant.
PolicyInv == PolicyTypeOK /\ TimeIsAccounted /\ AwakeUntilDue

-----------------------------------------------------------------------------
\* A backoff delay is a natural number.
LEMMA DelaysAreNatural ==
  ASSUME PowersOfTwo, NEW n \in Nat \ {0}, NEW delay \in BackoffDelays(n)
  PROVE  delay \in Nat /\ delay <= MaxDelay
<1>1. n - 1 \in Nat
  OBVIOUS
<1>2. PICK power \in Nat : power = 2 ^ (n - 1)
  BY <1>1 DEF PowersOfTwo
<1>3. BaseDelay * 2 ^ (n - 1) \in Nat
  BY <1>2, TimeAssumption
<1>4. CappedDelay(n) \in Nat /\ CappedDelay(n) <= MaxDelay
  BY <1>3, TimeAssumption DEF CappedDelay, Lesser
<1>5. BackoffDelays(n) \subseteq 0 .. CappedDelay(n)
  BY <1>4 DEF BackoffDelays
<1>6. delay \in 0 .. CappedDelay(n)
  BY <1>5
<1> HIDE DEF CappedDelay
<1> QED
  BY <1>4, <1>6, TimeAssumption

\* The time the policy counts is the time since the window started, less what
\* was deducted; a window that has not started counts none.
LEMMA WhatElapsed ==
  ASSUME PolicyTypeOK, TimeIsAccounted
  PROVE  /\ WindowStart \in Nat /\ Elapsed \in Nat
         /\ awake + suspended + WindowStart <= now
         /\ Elapsed = now - WindowStart - suspended
  BY DEF PolicyTypeOK, TimeIsAccounted, WindowStart, Elapsed, ElapsedLess,
     NotStarted

\* A retryable close: the window opens, and a timer is armed inside it.
LEMMA ScheduleInv ==
  ASSUME PowersOfTwo, PolicyInv, ScheduleNextAttempt
  PROVE  PolicyInv'
<1> USE DEF PolicyInv
<1>1. /\ windowStartedAt' = WindowStart
      /\ UNCHANGED <<now, suspended, awake, sleeps>>
      /\ WindowStart # NotStarted
  BY WhatElapsed DEF ScheduleNextAttempt, NotStarted
<1>2. CASE state' = "exhausted" /\ UNCHANGED expectedFireAt
           /\ attempt' \in {attempt, attempt + 1}
  BY <1>1, <1>2, WhatElapsed DEF PolicyTypeOK, States, TimeIsAccounted,
     AwakeUntilDue
<1>3. ASSUME NEW delay \in BackoffDelays(attempt + 1),
             attempt' = attempt + 1, state' = "waiting", ~ReachesEnd(delay),
             expectedFireAt' = now + delay
      PROVE  PolicyInv'
  <2>1. delay \in Nat
    BY DelaysAreNatural DEF PolicyTypeOK
  <2>2. PolicyTypeOK'
    BY <1>1, <1>3, <2>1, WhatElapsed DEF PolicyTypeOK, States
  <2>3. TimeIsAccounted' /\ AwakeUntilDue'
    BY <1>1, <1>3, <2>1, WhatElapsed DEF PolicyTypeOK, TimeIsAccounted,
       AwakeUntilDue
  <2> QED
    BY <2>2, <2>3
<1>4. \/ /\ state' = "exhausted" /\ UNCHANGED expectedFireAt
         /\ attempt' \in {attempt, attempt + 1}
      \/ \E delay \in BackoffDelays(attempt + 1) :
           /\ attempt' = attempt + 1 /\ state' = "waiting"
           /\ ~ReachesEnd(delay) /\ expectedFireAt' = now + delay
  <2>1. CASE Elapsed >= MaxElapsed
    BY <2>1 DEF ScheduleNextAttempt
  <2>2. CASE ~(Elapsed >= MaxElapsed)
    BY <2>2 DEF ScheduleNextAttempt
  <2> QED
    BY <2>1, <2>2
<1> QED
  BY <1>2, <1>3, <1>4

\* A late timer: only the time after it was due is deducted.
LEMMA TimerFiresInv ==
  ASSUME PolicyInv, TimerFires
  PROVE  PolicyInv'
<1> USE DEF PolicyInv
<1>1. /\ windowStartedAt' = windowStartedAt /\ windowStartedAt \in Nat
      /\ now >= expectedFireAt /\ state' \in {"attempting", "exhausted"}
      /\ awake + suspended + windowStartedAt <= expectedFireAt
      /\ UNCHANGED <<now, attempt, expectedFireAt, awake, sleeps>>
  BY DEF TimerFires, WindowStart, PolicyTypeOK, AwakeUntilDue, NotStarted
<1>2. suspended' \in {suspended, suspended + (now - expectedFireAt)}
  BY DEF TimerFires, Drift
<1>3. /\ now \in Nat /\ expectedFireAt \in Nat /\ awake \in Nat
      /\ suspended \in Nat
  BY DEF PolicyTypeOK
<1>4. suspended' \in Nat /\ awake + suspended' + windowStartedAt <= now
  <2>1. CASE suspended' = suspended
    BY <1>1, <1>3, <2>1
  <2>2. CASE suspended' = suspended + (now - expectedFireAt)
    <3>1. now - expectedFireAt \in Nat
      BY <1>1, <1>3
    <3>2. suspended' \in Nat
      BY <1>3, <2>2, <3>1
    <3>3. awake + suspended' + windowStartedAt <= now
      BY <1>1, <1>3, <2>2
    <3> QED
      BY <3>2, <3>3
  <2> QED
    BY <1>2, <2>1, <2>2
<1>5. PolicyTypeOK'
  BY <1>1, <1>4 DEF PolicyTypeOK, States
<1>6. TimeIsAccounted'
  BY <1>1, <1>4 DEF TimeIsAccounted, NotStarted
<1>7. AwakeUntilDue'
  BY <1>1 DEF AwakeUntilDue
<1> QED
  BY <1>5, <1>6, <1>7

\* Time passes, awake or asleep.
LEMMA TimePassesInv ==
  ASSUME PolicyInv, AwakeTick \/ Sleep
  PROVE  PolicyInv'
<1> USE DEF PolicyInv, PolicyTypeOK, States, TimeIsAccounted, AwakeUntilDue,
            NotStarted
<1>1. CASE AwakeTick
  BY <1>1 DEF AwakeTick
<1>2. CASE Sleep
  <2>1. PICK length \in SleepLengths : now' = now + length
    BY <1>2 DEF Sleep
  <2>2. length \in Nat
    BY TimeAssumption
  <2> QED
    BY <1>2, <2>1, <2>2 DEF Sleep
<1> QED
  BY <1>1, <1>2

LEMMA NextPolicyInv ==
  ASSUME PowersOfTwo, PolicyInv, [PolicyNext]_policyVars
  PROVE  PolicyInv'
<1>1. CASE SessionLost \/ AttemptClosed
  BY <1>1, ScheduleInv DEF SessionLost, AttemptClosed
<1>2. CASE Established
  BY <1>2 DEF Established, ResetPolicy, PolicyInv, PolicyTypeOK, States,
     TimeIsAccounted, AwakeUntilDue
<1>3. CASE UNCHANGED policyVars
  BY <1>3 DEF policyVars, PolicyInv, PolicyTypeOK, TimeIsAccounted,
     AwakeUntilDue
<1> QED
  BY <1>1, <1>2, <1>3, TimerFiresInv, TimePassesInv DEF PolicyNext

LEMMA PolicyInvariant ==
  ASSUME PowersOfTwo
  PROVE  PolicySpec => []PolicyInv
<1>1. PolicyInit => PolicyInv
  BY DEF PolicyInit, PolicyInv, PolicyTypeOK, States, TimeIsAccounted,
     AwakeUntilDue, NotStarted
<1>2. PolicyInv /\ [PolicyNext]_policyVars => PolicyInv'
  BY NextPolicyInv
<1> QED
  BY <1>1, <1>2, PTL DEF PolicySpec

\* The policy never counts less than the time the program was awake: what it
\* deducts was sleep, however long and however often the machine slept.
THEOREM AwakeTimeIsCounted ==
  ASSUME PowersOfTwo
  PROVE  PolicySpec => []AwakeTimeCounts
<1>1. PolicyInv => AwakeTimeCounts
  BY WhatElapsed DEF PolicyInv, AwakeTimeCounts, PolicyTypeOK
<1> QED
  BY <1>1, PolicyInvariant, PTL

\* What is deducted was spent inside the window, so the clamp at 0 never hides
\* time, and reset() leaves nothing of one window to the next.
THEOREM SleepIsInTheWindow ==
  ASSUME PowersOfTwo
  PROVE  PolicySpec => []SuspendedWithinWindow
<1>1. PolicyInv => SuspendedWithinWindow
  BY DEF PolicyInv, TimeIsAccounted, PolicyTypeOK, SuspendedWithinWindow
<1> QED
  BY <1>1, PolicyInvariant, PTL

-----------------------------------------------------------------------------
(* A machine that sleeps while a reconnect timer is armed.                 *)

\* What the policy counts of an open window, were it to ask now.
Counted == now - windowStartedAt - suspended

\* What is left of the window when the armed timer is due.
CountedWhenDue == expectedFireAt - windowStartedAt - suspended

\* The time that one sleep may cost: the delay and the drift threshold.
SleepCost == MaxDelay + DriftThreshold

\* The policy counts no more than it may; while a timer is armed, either the
\* machine has not slept through its end, or a sleep has paid for it.
SleepIsPaid ==
  /\ state # "waiting" /\ windowStartedAt # NotStarted => Counted <= Countable
  /\ state = "waiting" =>
       /\ windowStartedAt # NotStarted
       /\ CountedWhenDue <= Countable + MaxDelay
       /\ \/ now <= expectedFireAt /\ Counted <= Countable
          \/ CountedWhenDue <= Countable - SleepCost + MaxDelay
  /\ SleepSparesTheWindow

\* Countable is a number that only a sleep and the time awake add to.
LEMMA CountableGrows ==
  ASSUME PolicyTypeOK
  PROVE  /\ Countable \in Nat /\ SleepCost \in Nat
         /\ UNCHANGED <<awake, sleeps>> => Countable' = Countable
         /\ awake' = awake + 1 /\ UNCHANGED sleeps =>
              Countable' = Countable + 1
         /\ sleeps' = sleeps + 1 /\ UNCHANGED awake =>
              Countable' = Countable + SleepCost
<1>1. SleepCost \in Nat /\ awake \in Nat /\ sleeps \in Nat
  BY TimeAssumption DEF SleepCost, PolicyTypeOK
<1>2. ASSUME NEW n \in Nat, NEW c \in Nat
      PROVE  n * c \in Nat /\ (n + 1) * c = n * c + c
  OBVIOUS
<1>3. Countable = awake + sleeps * SleepCost /\ sleeps * SleepCost \in Nat
  BY <1>1, <1>2 DEF Countable, SleepCost
<1>4. Countable' = awake' + sleeps' * SleepCost
  BY DEF Countable, SleepCost
<1>5. (sleeps + 1) * SleepCost = sleeps * SleepCost + SleepCost
  BY <1>1, <1>2
<1> QED
  BY <1>1, <1>3, <1>4, <1>5

\* Reconnecting is given up only when the window has paid for it, and a timer
\* is armed for one delay at the most.
LEMMA SchedulePaid ==
  ASSUME PowersOfTwo, PolicyInv, SleepIsPaid, state # "waiting",
         ScheduleNextAttempt
  PROVE  SleepIsPaid'
<1>1. /\ windowStartedAt' = WindowStart /\ WindowStart \in Nat
      /\ UNCHANGED <<now, suspended, awake, sleeps>>
      /\ now \in Nat /\ suspended \in Nat /\ attempt \in Nat
      /\ Elapsed = now - WindowStart - suspended
  BY WhatElapsed DEF ScheduleNextAttempt, PolicyInv, PolicyTypeOK
<1>2. Countable' = Countable /\ Countable \in Nat
  BY <1>1, CountableGrows DEF PolicyInv
<1>3. Elapsed <= Countable
  <2>1. CASE windowStartedAt = NotStarted
    BY <1>1, <1>2, <2>1 DEF WindowStart, PolicyInv, TimeIsAccounted
  <2>2. CASE windowStartedAt # NotStarted
    BY <1>1, <2>2 DEF WindowStart, SleepIsPaid, Counted
  <2> QED
    BY <2>1, <2>2
<1>4. Counted' = Elapsed
  BY <1>1 DEF Counted
<1>5. windowStartedAt' # NotStarted
  BY <1>1 DEF NotStarted
<1>6. CASE Elapsed >= MaxElapsed
  <2>1. state' = "exhausted"
    BY <1>6 DEF ScheduleNextAttempt
  <2>2. MaxElapsed <= Countable + MaxDelay
    BY <1>1, <1>2, <1>3, <1>6, TimeAssumption
  <2> QED
    BY <1>2, <1>3, <1>4, <2>1, <2>2 DEF SleepIsPaid, SleepSparesTheWindow
<1>7. CASE ~(Elapsed >= MaxElapsed)
  <2>1. PICK delay \in BackoffDelays(attempt + 1) :
          IF ReachesEnd(delay)
          THEN state' = "exhausted" /\ UNCHANGED expectedFireAt
          ELSE state' = "waiting" /\ expectedFireAt' = now + delay
    BY <1>7 DEF ScheduleNextAttempt
  <2>2. delay \in Nat /\ delay <= MaxDelay
    BY <1>1, DelaysAreNatural
  <2>3. CASE ReachesEnd(delay)
    <3>1. MaxElapsed <= Countable + MaxDelay
      BY <1>1, <1>2, <1>3, <2>2, <2>3, TimeAssumption DEF ReachesEnd
    <3> QED
      BY <1>2, <1>3, <1>4, <2>1, <2>3, <3>1 DEF SleepIsPaid,
         SleepSparesTheWindow
  <2>4. CASE ~ReachesEnd(delay)
    <3>1. state' = "waiting" /\ now <= expectedFireAt'
      BY <1>1, <2>1, <2>2, <2>4
    <3>2. CountedWhenDue' <= Countable + MaxDelay
      BY <1>1, <1>2, <1>3, <2>1, <2>2, <2>4, TimeAssumption DEF CountedWhenDue
    <3> QED
      BY <1>1, <1>2, <1>3, <1>4, <1>5, <3>1, <3>2 DEF SleepIsPaid,
         SleepSparesTheWindow
  <2> QED
    BY <2>3, <2>4
<1> QED
  BY <1>6, <1>7

\* A timer that fires late: what was slept is deducted, or within the cost.
LEMMA TimerFiresPaid ==
  ASSUME PolicyInv, SleepIsPaid, TimerFires
  PROVE  SleepIsPaid'
<1>1. /\ state = "waiting" /\ now >= expectedFireAt
      /\ windowStartedAt' = windowStartedAt /\ windowStartedAt \in Nat
      /\ state' \in {"attempting", "exhausted"}
      /\ suspended' = IF now - expectedFireAt > DriftThreshold
                      THEN suspended + (now - expectedFireAt) ELSE suspended
      /\ UNCHANGED <<now, awake, sleeps>>
      /\ now \in Nat /\ suspended \in Nat /\ expectedFireAt \in Nat
  BY DEF TimerFires, Drift, WindowStart, PolicyInv, PolicyTypeOK,
     AwakeUntilDue, NotStarted
<1>2. Countable' = Countable /\ Countable \in Nat
  BY <1>1, CountableGrows DEF PolicyInv
<1>3. Counted' <= Countable
  <2>1. CASE now <= expectedFireAt /\ Counted <= Countable
    BY <1>1, <2>1, TimeAssumption DEF Counted
  <2>2. CASE CountedWhenDue <= Countable - SleepCost + MaxDelay
    <3>1. CountedWhenDue <= Countable - DriftThreshold
      BY <1>1, <1>2, <2>2, TimeAssumption DEF CountedWhenDue, SleepCost
    <3> QED
      BY <1>1, <1>2, <3>1, TimeAssumption DEF Counted, CountedWhenDue
  <2> QED
    BY <1>1, <2>1, <2>2 DEF SleepIsPaid
<1>4. CASE state' = "exhausted"
  <2>1. ElapsedLess(suspended') >= MaxElapsed
    BY <1>4, TimeAssumption DEF TimerFires, ElapsedLess, PolicyInv,
       PolicyTypeOK, WindowStart
  <2>2. ElapsedLess(suspended') = IF Counted' < 0 THEN 0 ELSE Counted'
    BY <1>1 DEF ElapsedLess, WindowStart, Counted, NotStarted
  <2>3. MaxElapsed <= Countable
    BY <1>1, <1>2, <1>3, <2>1, <2>2, TimeAssumption DEF Counted
  <2>4. MaxElapsed <= Countable + MaxDelay
    BY <1>2, <2>3, TimeAssumption
  <2> QED
    BY <1>1, <1>2, <1>3, <1>4, <2>4 DEF SleepIsPaid, SleepSparesTheWindow
<1>5. CASE state' = "attempting"
  BY <1>1, <1>2, <1>3, <1>5 DEF SleepIsPaid, SleepSparesTheWindow
<1> QED
  BY <1>1, <1>4, <1>5

LEMMA TimePassesPaid ==
  ASSUME PolicyInv, SleepIsPaid, SleepIn = {"waiting"}, AwakeTick \/ Sleep
  PROVE  SleepIsPaid'
<1>1. /\ now \in Nat /\ suspended \in Nat /\ expectedFireAt \in Nat
      /\ windowStartedAt \in Nat \cup {NotStarted}
      /\ Countable \in Nat /\ SleepCost \in Nat
      /\ UNCHANGED <<state, windowStartedAt, suspended, expectedFireAt>>
  BY CountableGrows DEF PolicyInv, PolicyTypeOK, AwakeTick, Sleep
<1>2. CASE AwakeTick
  <2>1. /\ now' = now + 1 /\ (state = "waiting" => now < expectedFireAt)
        /\ Countable' = IF windowStartedAt = NotStarted THEN Countable
                                                       ELSE Countable + 1
    BY <1>2, CountableGrows DEF AwakeTick, PolicyInv
  <2>2. windowStartedAt # NotStarted => Counted' = Counted + 1
    BY <1>1, <2>1 DEF Counted, NotStarted
  <2>3. CountedWhenDue' = CountedWhenDue
    BY <1>1 DEF CountedWhenDue
  <2>4. windowStartedAt # NotStarted =>
          Counted \in Int /\ CountedWhenDue \in Int
    BY <1>1 DEF Counted, CountedWhenDue
  <2>5. SleepSparesTheWindow'
    BY <1>1, <2>1, TimeAssumption DEF SleepIsPaid, SleepSparesTheWindow
  <2>6. state' # "waiting" /\ windowStartedAt' # NotStarted =>
          Counted' <= Countable'
    BY <1>1, <2>1, <2>2, <2>4 DEF SleepIsPaid
  <2>7. state' = "waiting" =>
          /\ windowStartedAt' # NotStarted
          /\ CountedWhenDue' <= Countable' + MaxDelay
          /\ \/ now' <= expectedFireAt' /\ Counted' <= Countable'
             \/ CountedWhenDue' <= Countable' - SleepCost + MaxDelay
    BY <1>1, <2>1, <2>2, <2>3, <2>4, TimeAssumption DEF SleepIsPaid
  <2> QED
    BY <2>5, <2>6, <2>7 DEF SleepIsPaid, SleepCost
<1>3. CASE Sleep
  <2>1. state = "waiting" /\ Countable' = Countable + SleepCost
    BY <1>3, CountableGrows DEF Sleep, PolicyInv
  <2>2. /\ windowStartedAt # NotStarted
        /\ CountedWhenDue' = CountedWhenDue /\ CountedWhenDue \in Int
        /\ CountedWhenDue <= Countable + MaxDelay
    BY <1>1, <2>1 DEF SleepIsPaid, CountedWhenDue
  <2>3. SleepCost' = SleepCost
    BY DEF SleepCost
  <2>4. /\ CountedWhenDue' <= Countable' + MaxDelay
        /\ CountedWhenDue' <= Countable' - SleepCost' + MaxDelay
    BY <1>1, <2>1, <2>2, <2>3, TimeAssumption
  <2> QED
    BY <1>1, <2>1, <2>2, <2>4 DEF SleepIsPaid, SleepSparesTheWindow
<1> QED
  BY <1>2, <1>3

\* A reconnect window ends for time that was awake, not slept: each sleep costs
\* it one delay and one drift threshold at the most.
THEOREM WindowsOutlastSleep ==
  ASSUME PowersOfTwo, SleepIn = {"waiting"}
  PROVE  PolicySpec => []SleepSparesTheWindow
<1>1. PolicyInit => SleepIsPaid
  BY DEF PolicyInit, SleepIsPaid, SleepSparesTheWindow, NotStarted
<1>2. PolicyInv /\ SleepIsPaid /\ [PolicyNext]_policyVars => SleepIsPaid'
  <2> SUFFICES ASSUME PolicyInv, SleepIsPaid, [PolicyNext]_policyVars
               PROVE  SleepIsPaid'
    OBVIOUS
  <2>1. CASE SessionLost \/ AttemptClosed
    BY <2>1, SchedulePaid DEF SessionLost, AttemptClosed
  <2>2. CASE Established
    BY <2>2 DEF Established, ResetPolicy, SleepIsPaid, SleepSparesTheWindow,
       NotStarted
  <2>3. CASE UNCHANGED policyVars
    BY <2>3 DEF policyVars, SleepIsPaid, SleepSparesTheWindow, Counted,
       CountedWhenDue, Countable, SleepCost
  <2> QED
    BY <2>1, <2>2, <2>3, TimerFiresPaid, TimePassesPaid DEF PolicyNext
<1>3. SleepIsPaid => SleepSparesTheWindow
  BY DEF SleepIsPaid
<1> QED
  BY <1>1, <1>2, <1>3, PolicyInvariant, PTL DEF PolicySpec

-----------------------------------------------------------------------------
(* The account, for every number of starts, probes and timeouts: what a    *)
(* stopped account leaves, and which probes can meet a runtime that        *)
(* connects.                                                               *)

Starting == {"booting", "cancelling", "starting"}

\* The bridge that is registered runs; it stops on behalf of one of the two
\* calls that may stop it, and a start in flight has a bridge that runs or one
\* that is being stopped.
BridgeInv ==
  /\ registered <=> running
  /\ running => closing = "no" /\ startPc \in Starting \cup {"up"}
  /\ stopping <=> closing # "no"
  /\ closing # "no" <=> stopPc = "closing" \/ startPc = "closing"
  /\ startPc \in Starting => running \/ closing # "no"
  /\ closing = "cancelling" => startPc # "booting"
  /\ closing = "disconnecting" => startPc \notin {"booting", "cancelling"}
  /\ startPc = "settling" => stopPc = "none"

\* The runtime is connected only for a bridge that runs or was just asked to
\* stop, and says so; a start that was rejected has let go of its connection.
RuntimeInv ==
  /\ online => running \/ closing \in {"asked", "cancelling"}
  /\ online => lifecycle \in {"starting", "ready", "reconnecting"}
  /\ outcome = "rejected" => ~online
  /\ startPc \in {"booting", "cancelling"} =>
       outcome = "pending" /\ lifecycle = "idle" /\ ~online

\* The status is kept in step for a bridge that runs or stops only, and tells
\* probes to wait while a start waits for a probe.
StatusInv ==
  /\ loop => running \/ closing # "no"
  /\ startPc = "settling" => phase = "connecting"
  /\ startPc = "stopped" /\ stopPc = "none" => phase = "idle" /\ snapshot # "up"

\* A probe that shares a connection is where the probe that opened it is.
SharedInv ==
  /\ \A p \in Probes :
       IF leader[p] = None THEN pc[p] \notin {"connecting", "settling"}
       ELSE /\ leader[leader[p]] = leader[p]
            /\ pc[leader[p]] = pc[p]
            /\ pc[p] \in {"connecting", "settling", "done"}
  /\ \A p \in open : pc[p] = "connecting" /\ leader[p] = p

\* A probe that an abort reaches: nobody's but its own connection is at stake.
Cancellable(p) ==
  /\ pc[p] \in {"creating", "connecting", "settling", "done"}
  /\ leader[p] \in {p, None}

\* Who knows of a probe: the coordinator, its bridge, or nobody any more.  A
\* running bridge has cancelled the one the coordinator knows of.
KnownInv ==
  /\ \A p \in Probes : pc[p] = "creating" => p \in overwritten \cup {owner}
  /\ open \subseteq overwritten \cup unheeded \cup bridged \cup {owner}
  /\ owner # None => Cancellable(owner)
  /\ \A p \in bridged : pc[p] \in {"asking", "connecting", "settling", "done"}
  /\ \A p \in Probes : pc[p] = "asking" => p \in bridged /\ startPc # "settling"
  /\ \A p \in cancelled :
       p \notin open /\ pc[p] \in {"creating", "settling", "done"}
  /\ running \/ startPc = "settling" => owner \in cancelled \cup {None}
  /\ startPc \in {"booting", "cancelling"} \/ (online /\ running) =>
       bridged \cap open \subseteq unheeded

\* The inductive invariant.
AccountInv ==
  /\ TypeOK /\ BridgeInv /\ RuntimeInv /\ StatusInv
  /\ SharedInv /\ KnownInv

-----------------------------------------------------------------------------
(* Types. *)

\* A step that leaves the probes alone.
LEMMA PublishTypes ==
  ASSUME NEW s, NEW ph \in Phases, NEW override, NEW life,
         life \in {"idle", "starting", "ready", "reconnecting", "stopping",
                   "failed"},
         Publish(s, ph, override, life)
  PROVE  {phase', shown'} \subseteq Phases /\ snapshot' \in {"down", "up"}
  BY DEF Publish, PhaseOf, Phases

LEMMA CancelTypes ==
  ASSUME TypeOK, NEW P \in SUBSET Probes, Cancel(P)
  PROVE  /\ pc' \in [Probes -> {"unused", "waiting", "asking", "creating",
                               "connecting", "settling", "done"}]
         /\ open' \subseteq Probes /\ cancelled' \subseteq Probes
  BY DEF Cancel, TypeOK

\* The types of the account, and of its probes.
AccountTypes ==
  /\ {phase, shown} \subseteq Phases
  /\ snapshot \in {"none", "down", "up"}
  /\ {registered, signalled, running, stopping, loop, online} \subseteq BOOLEAN
  /\ startPc \in {"stopped", "settling", "booting", "cancelling", "starting",
                  "up", "closing"}
  /\ stopPc \in {"none", "closing"}
  /\ starts \in 0..MaxStarts
  /\ closing \in {"no", "asked", "cancelling", "disconnecting"}
  /\ lifecycle \in {"idle", "starting", "ready", "reconnecting", "stopping",
                    "failed"}
  /\ outcome \in {"pending", "fulfilled", "rejected"}

ProbeTypes ==
  /\ owner \in Probes \cup {None}
  /\ pc \in [Probes -> {"unused", "waiting", "asking", "creating",
                        "connecting", "settling", "done"}]
  /\ leader \in [Probes -> Probes \cup {None}]
  /\ limit \in [Probes -> Timeouts \cup {None}]
  /\ bridged \subseteq Probes /\ open \subseteq Probes
  /\ cancelled \subseteq Probes
  /\ overwritten \subseteq Probes /\ unheeded \subseteq Probes

LEMMA TypesAreTwo == TypeOK <=> AccountTypes /\ ProbeTypes
  BY DEF TypeOK, AccountTypes, ProbeTypes

LEMMA NextAccountTypes ==
  ASSUME TypeOK, Next
  PROVE  AccountTypes'
<1> USE DEF AccountTypes
<1>0. AccountTypes
  BY TypesAreTwo
<1>1. CASE StartAccount
  <2>0. starts \in 0..MaxStarts
    BY <1>0
  <2>1. starts' \in 0..MaxStarts
    BY <1>1, <2>0, BoundsAreNumbers DEF StartAccount
  <2>2. UNCHANGED stopPc /\ signalled' = FALSE
    BY <1>1 DEF StartAccount
  <2>3. CASE owner = None
    BY <1>0, <1>1, <2>1, <2>2, <2>3 DEF StartAccount, MakeBridge, Phases
  <2>4. CASE owner # None
    BY <1>0, <1>1, <2>1, <2>2, <2>4 DEF StartAccount, Phases, bridgeVars,
       runtimeVars
  <2> QED
    BY <2>3, <2>4
<1>2. CASE Signal
  BY <1>0, <1>2 DEF Signal, coordVars, bridgeVars, runtimeVars
<1>3. CASE StopAccount
  BY <1>0, <1>3 DEF StopAccount, BridgeStop, Phases, runtimeVars
<1>4. CASE ProbeSettledOrNot
  BY <1>0, <1>4 DEF ProbeSettledOrNot, MakeBridge, Phases
<1>5. CASE RuntimeStart
  BY <1>0, <1>5 DEF RuntimeStart, coordVars, bridgeVars, runtimeVars
<1>6. CASE LifecycleStart
  BY <1>0, <1>6 DEF LifecycleStart, coordVars, bridgeVars
<1>7. CASE BridgeStarted
  BY <1>0, <1>7, PublishTypes DEF BridgeStarted, runtimeVars
<1>8. CASE BridgeStartFails
  BY <1>0, <1>8 DEF BridgeStartFails, Reset, PhaseOf, Phases, runtimeVars
<1>9. CASE AccountEnds
  BY <1>0, <1>9 DEF AccountEnds, BridgeStop, Reset, Phases, runtimeVars
<1>10. CASE RuntimeStop
  BY <1>0, <1>10 DEF RuntimeStop, coordVars, channelVars, runtimeVars
<1>11. CASE LifecycleStop
  BY <1>0, <1>11 DEF LifecycleStop, coordVars, channelVars
<1>12. CASE BridgeStopped
  BY <1>0, <1>12 DEF BridgeStopped, Reset, Publish, PhaseOf, Phases
<1>13. CASE GatewayMoves
  BY <1>0, <1>13 DEF GatewayMoves, coordVars, channelVars, bridgeVars
<1>14. CASE StatusTick
  BY <1>0, <1>14, PublishTypes DEF StatusTick, channelVars, runtimeVars
<1>15. ASSUME NEW p \in Probes, ProbeAccount(p) \/ ProbeGoesOn(p)
       PROVE  AccountTypes'
  <2>1. UNCHANGED <<phase, snapshot, channelVars, bridgeVars, runtimeVars>>
    BY <1>15 DEF ProbeAccount, ProbeGoesOn, ProbeWaited, ProbeCreated,
       ProbeBridge, ProbeFinishes, ProbeSettles, coordVars
  <2> QED
    BY <1>0, <2>1 DEF channelVars, bridgeVars, runtimeVars
<1> QED
  BY <1>1, <1>2, <1>3, <1>4, <1>5, <1>6, <1>7, <1>8, <1>9, <1>10, <1>11,
     <1>12, <1>13, <1>14, <1>15 DEF Next, AccountGoesOn

LEMMA NextProbeTypes ==
  ASSUME AccountInv, Next
  PROVE  ProbeTypes'
<1> USE DEF ProbeTypes
<1>0. ProbeTypes /\ TypeOK
  BY TypesAreTwo DEF AccountInv
<1>a. ActiveProbes \subseteq Probes
  <2>1. \A p \in Probes :
          pc[p] \in {"connecting", "settling"} => leader[p] \in Probes
    BY <1>0 DEF AccountInv, SharedInv
  <2> QED
    BY <1>0, <2>1 DEF ActiveProbes
<1>1. CASE StartAccount
  <2>1. CASE owner = None
    BY <1>0, <1>1, <2>1 DEF StartAccount, MakeBridge
  <2>2. CASE owner # None
    <3>1. Cancel({owner}) /\ {owner} \in SUBSET Probes
      BY <1>0, <1>1, <2>2 DEF StartAccount
    <3> QED
      BY <1>0, <1>1, <2>2, <3>1, CancelTypes DEF StartAccount
  <2> QED
    BY <2>1, <2>2
<1>2. CASE ProbeSettledOrNot
  BY <1>0, <1>2 DEF ProbeSettledOrNot, MakeBridge
<1>3. CASE RuntimeStart \/ RuntimeStop
  <2>1. /\ Cancel(ActiveProbes)
        /\ UNCHANGED <<owner, leader, limit, bridged, overwritten, unheeded>>
    BY <1>3 DEF RuntimeStart, RuntimeStop, coordVars
  <2> QED
    BY <1>0, <1>a, <2>1, CancelTypes
<1>4. CASE UNCHANGED <<owner, probeVars>>
  BY <1>0, <1>4 DEF probeVars
<1>5. ASSUME NEW p \in Probes, ProbeAccount(p)
      PROVE  ProbeTypes'
  BY <1>0, <1>5 DEF ProbeAccount, At
<1>6. ASSUME NEW p \in Probes, ProbeWaited(p) \/ ProbeCreated(p)
      PROVE  ProbeTypes'
  BY <1>0, <1>6 DEF ProbeWaited, ProbeCreated, At, Connect, FinishProbe,
     coordVars
<1>7. ASSUME NEW p \in Probes, ProbeBridge(p)
      PROVE  ProbeTypes'
  BY <1>0, <1>a, <1>7 DEF ProbeBridge, At, Connect, coordVars
<1>8. ASSUME NEW p \in Probes, ProbeFinishes(p) \/ ProbeSettles(p)
      PROVE  ProbeTypes'
  BY <1>0, <1>8 DEF ProbeFinishes, ProbeSettles, FinishProbe, coordVars
<1> QED
  BY <1>1, <1>2, <1>3, <1>4, <1>5, <1>6, <1>7, <1>8
  DEF Next, AccountGoesOn, ProbeGoesOn, Signal, StopAccount, LifecycleStart,
      BridgeStarted, BridgeStartFails, AccountEnds, LifecycleStop,
      BridgeStopped, GatewayMoves, StatusTick, coordVars

-----------------------------------------------------------------------------
(* The account. *)

\* The account does not depend on its probes.
LEMMA NextBridgeInv ==
  ASSUME AccountInv, Next
  PROVE  BridgeInv'
<1> USE DEF BridgeInv, Starting
<1>0. BridgeInv /\ AccountTypes
  BY TypesAreTwo DEF AccountInv
<1>1. CASE StartAccount
  BY <1>0, <1>1 DEF StartAccount, MakeBridge, bridgeVars, AccountTypes
<1>2. CASE Signal
  BY <1>0, <1>2 DEF Signal, bridgeVars
<1>3. CASE StopAccount
  BY <1>0, <1>3 DEF StopAccount, BridgeStop
<1>4. CASE ProbeSettledOrNot
  BY <1>0, <1>4 DEF ProbeSettledOrNot, MakeBridge
<1>5. CASE RuntimeStart
  BY <1>0, <1>5 DEF RuntimeStart, bridgeVars
<1>6. CASE LifecycleStart
  BY <1>0, <1>6 DEF LifecycleStart, bridgeVars
<1>7. CASE BridgeStarted
  BY <1>0, <1>7 DEF BridgeStarted
<1>8. CASE BridgeStartFails
  BY <1>0, <1>8 DEF BridgeStartFails, Reset
<1>9. CASE AccountEnds
  BY <1>0, <1>9 DEF AccountEnds, BridgeStop, Reset
<1>10. CASE RuntimeStop
  BY <1>0, <1>10 DEF RuntimeStop, channelVars
<1>11. CASE LifecycleStop
  BY <1>0, <1>11 DEF LifecycleStop, channelVars
<1>12. CASE BridgeStopped
  BY <1>0, <1>12 DEF BridgeStopped, StartIsOver, Reset
<1>13. CASE UNCHANGED <<channelVars, running, stopping, closing>>
  BY <1>0, <1>13 DEF channelVars
<1> QED
  BY <1>1, <1>2, <1>3, <1>4, <1>5, <1>6, <1>7, <1>8, <1>9, <1>10, <1>11,
     <1>12, <1>13
  DEF Next, AccountGoesOn, GatewayMoves, StatusTick, ProbeAccount,
      ProbeGoesOn, ProbeWaited, ProbeCreated, ProbeBridge, ProbeFinishes,
      ProbeSettles, bridgeVars

LEMMA NextRuntimeInv ==
  ASSUME AccountInv, Next
  PROVE  RuntimeInv'
<1> USE DEF RuntimeInv
<1>0. BridgeInv /\ RuntimeInv /\ AccountTypes
  BY TypesAreTwo DEF AccountInv
<1>a. ASSUME MakeBridge, startPc \in {"stopped", "settling"}, stopPc = "none"
      PROVE  RuntimeInv'
  <2>1. ~online
    BY <1>0, <1>a DEF BridgeInv, Starting
  <2>2. ~online' /\ outcome' = "pending" /\ lifecycle' = "idle"
    BY <1>a, <2>1 DEF MakeBridge
  <2> QED
    BY <2>2
<1>1. CASE StartAccount
  <2>1. CASE owner = None
    BY <1>1, <1>a, <2>1 DEF StartAccount
  <2>2. CASE owner # None
    BY <1>0, <1>1, <2>2 DEF StartAccount, bridgeVars, runtimeVars
  <2> QED
    BY <2>1, <2>2
<1>2. CASE Signal
  BY <1>0, <1>2 DEF Signal, bridgeVars, runtimeVars
<1>3. CASE StopAccount
  BY <1>0, <1>3 DEF StopAccount, BridgeStop, runtimeVars, BridgeInv
<1>4. CASE ProbeSettledOrNot
  BY <1>0, <1>4, <1>a DEF ProbeSettledOrNot, BridgeInv
<1>5. CASE RuntimeStart
  BY <1>0, <1>5 DEF RuntimeStart, bridgeVars, runtimeVars
<1>6. CASE LifecycleStart
  BY <1>0, <1>6 DEF LifecycleStart, bridgeVars, BridgeInv, Starting, AccountTypes
<1>7. CASE BridgeStarted
  BY <1>0, <1>7 DEF BridgeStarted, runtimeVars
<1>8. CASE BridgeStartFails
  BY <1>0, <1>8 DEF BridgeStartFails, Reset, runtimeVars
<1>9. CASE AccountEnds
  BY <1>0, <1>9 DEF AccountEnds, BridgeStop, Reset, runtimeVars, BridgeInv
<1>10. CASE RuntimeStop
  BY <1>0, <1>10 DEF RuntimeStop, channelVars, runtimeVars
<1>11. CASE LifecycleStop
  BY <1>0, <1>11 DEF LifecycleStop, channelVars, BridgeInv
<1>12. CASE BridgeStopped
  BY <1>0, <1>12 DEF BridgeStopped, Reset, BridgeInv
<1>13. CASE GatewayMoves
  BY <1>0, <1>13 DEF GatewayMoves, channelVars, bridgeVars
<1>14. CASE UNCHANGED <<channelVars, running, closing, runtimeVars>>
  BY <1>0, <1>14 DEF channelVars, runtimeVars
<1> QED
  BY <1>1, <1>2, <1>3, <1>4, <1>5, <1>6, <1>7, <1>8, <1>9, <1>10, <1>11,
     <1>12, <1>13, <1>14
  DEF Next, AccountGoesOn, StatusTick, ProbeAccount, ProbeGoesOn, ProbeWaited,
      ProbeCreated, ProbeBridge, ProbeFinishes, ProbeSettles, bridgeVars

LEMMA NextStatusInv ==
  ASSUME AccountInv, Next
  PROVE  StatusInv'
<1> USE DEF StatusInv
<1>0. BridgeInv /\ StatusInv /\ AccountTypes
  BY TypesAreTwo DEF AccountInv
<1>1. CASE StartAccount
  BY <1>0, <1>1 DEF StartAccount, MakeBridge, bridgeVars, BridgeInv
<1>2. CASE Signal
  BY <1>0, <1>2 DEF Signal, coordVars, bridgeVars
<1>3. CASE StopAccount
  BY <1>0, <1>3 DEF StopAccount, BridgeStop, BridgeInv, Starting
<1>4. CASE ProbeSettledOrNot
  BY <1>0, <1>4 DEF ProbeSettledOrNot, MakeBridge
<1>5. CASE RuntimeStart \/ LifecycleStart
  BY <1>0, <1>5 DEF RuntimeStart, LifecycleStart, coordVars, bridgeVars
<1>6. CASE BridgeStarted
  BY <1>0, <1>6 DEF BridgeStarted, BridgeInv, Starting
<1>7. CASE BridgeStartFails
  BY <1>0, <1>7 DEF BridgeStartFails, Reset
<1>8. CASE AccountEnds
  BY <1>0, <1>8 DEF AccountEnds, BridgeStop, Reset, BridgeInv
<1>9. CASE RuntimeStop \/ LifecycleStop
  BY <1>0, <1>9 DEF RuntimeStop, LifecycleStop, coordVars, channelVars
<1>10. CASE BridgeStopped
  BY <1>0, <1>10 DEF BridgeStopped, Reset, BridgeInv, Publish, PhaseOf
<1>11. CASE StatusTick
  BY <1>0, <1>11 DEF StatusTick, channelVars, BridgeInv, Starting
<1>12. CASE UNCHANGED <<phase, snapshot, channelVars, bridgeVars>>
  BY <1>0, <1>12 DEF channelVars, bridgeVars
<1> QED
  BY <1>1, <1>2, <1>3, <1>4, <1>5, <1>6, <1>7, <1>8, <1>9, <1>10, <1>11, <1>12
  DEF Next, AccountGoesOn, GatewayMoves, ProbeAccount, ProbeGoesOn,
      ProbeWaited, ProbeCreated, ProbeBridge, ProbeFinishes, ProbeSettles,
      coordVars

-----------------------------------------------------------------------------
(* The probes. *)

LEMMA ActiveAreLeaders ==
  ASSUME TypeOK, SharedInv, NEW p \in ActiveProbes
  PROVE  p \in Probes /\ leader[p] = p /\ pc[p] \in {"connecting", "settling"}
<1>1. PICK q \in bridged : pc[q] \in {"connecting", "settling"} /\ p = leader[q]
  BY DEF ActiveProbes
<1>2. q \in Probes
  BY <1>1 DEF TypeOK
<1>3. leader[q] # None /\ leader[q] \in Probes
  BY <1>1, <1>2, TypesAreTwo DEF SharedInv, ProbeTypes
<1> QED
  BY <1>1, <1>2, <1>3 DEF SharedInv

\* An abort moves what shares a connection together, and leaves none of the
\* connections of the probes that it cancels.
LEMMA CancelMoves ==
  ASSUME TypeOK, SharedInv, NEW P \in SUBSET Probes, Cancel(P)
  PROVE  \A p \in Probes :
           pc'[p] = IF pc[p] = "connecting" /\ leader[p] \in P
                    THEN "settling" ELSE pc[p]
  BY DEF Cancel

LEMMA CancelShared ==
  ASSUME TypeOK, SharedInv, NEW P \in SUBSET Probes, Cancel(P),
         UNCHANGED leader
  PROVE  SharedInv'
<1>0. leader \in [Probes -> Probes \cup {None}]
  BY TypesAreTwo DEF ProbeTypes
<1>1. ASSUME NEW p \in Probes, leader[p] = None
      PROVE  pc'[p] \notin {"connecting", "settling"}
  BY <1>1, CancelMoves DEF SharedInv
<1>2. ASSUME NEW p \in Probes, leader[p] # None
      PROVE  /\ leader[leader[p]] = leader[p]
             /\ pc'[leader[p]] = pc'[p]
             /\ pc'[p] \in {"connecting", "settling", "done"}
  <2>1. leader[p] \in Probes
    BY <1>0, <1>2
  <2>2. /\ leader[leader[p]] = leader[p] /\ pc[leader[p]] = pc[p]
        /\ pc[p] \in {"connecting", "settling", "done"}
    BY <1>2 DEF SharedInv
  <2> QED
    BY <2>1, <2>2, CancelMoves
<1>3. ASSUME NEW p \in open'
      PROVE  pc'[p] = "connecting" /\ leader[p] = p
  <2>1. p \in open /\ p \notin P /\ p \in Probes
    BY <1>3 DEF Cancel, TypeOK
  <2> QED
    BY <2>1, CancelMoves DEF SharedInv
<1> QED
  BY <1>1, <1>2, <1>3 DEF SharedInv

\* A probe that nobody shares a connection with goes on alone.
LEMMA MoveShared ==
  ASSUME TypeOK, SharedInv, NEW p \in Probes, leader[p] = None,
         NEW where, where \notin {"connecting", "settling"}, At(p, where),
         UNCHANGED <<leader, open>>
  PROVE  SharedInv'
<1>0. /\ leader \in [Probes -> Probes \cup {None}]
      /\ DOMAIN pc = Probes /\ open \subseteq Probes
  BY TypesAreTwo DEF ProbeTypes
<1>1. pc' = [pc EXCEPT ![p] = where]
  BY DEF At
<1>2. ASSUME NEW q \in Probes
      PROVE  (IF leader[q] = None THEN pc[q] \notin {"connecting", "settling"}
              ELSE /\ leader[leader[q]] = leader[q]
                   /\ pc[leader[q]] = pc[q]
                   /\ pc[q] \in {"connecting", "settling", "done"})'
  <2>1. CASE q = p
    BY <1>0, <1>1, <2>1
  <2>2. CASE q # p /\ leader[q] = None
    BY <1>0, <1>1, <2>2 DEF SharedInv
  <2>3. CASE q # p /\ leader[q] # None
    <3>1. leader[q] \in Probes /\ leader[leader[q]] = leader[q]
          /\ pc[leader[q]] = pc[q] /\ pc[q] \in {"connecting", "settling", "done"}
      BY <1>0, <2>3 DEF SharedInv
    <3>2. leader[q] # p
      BY <2>3, <3>1
    <3> QED
      BY <1>0, <1>1, <2>3, <3>1, <3>2
  <2> QED
    BY <2>1, <2>2, <2>3
<1>3. ASSUME NEW q \in open
      PROVE  pc'[q] = "connecting" /\ leader[q] = q
  <2>1. q # p /\ q \in Probes
    BY <1>0, <1>3 DEF SharedInv, TypeOK
  <2> QED
    BY <1>0, <1>1, <2>1 DEF SharedInv
<1> QED
  BY <1>2, <1>3 DEF SharedInv

\* A probe that has none yet is given a connection, of its own or another's.
LEMMA JoinShared ==
  ASSUME TypeOK, SharedInv, NEW p \in Probes, leader[p] = None,
         NEW q \in Probes, NEW where \in {"connecting", "settling"},
         q = p \/ (leader[q] = q /\ pc[q] = where),
         pc' = [pc EXCEPT ![p] = where],
         leader' = [leader EXCEPT ![p] = q],
         open' = open \/ (open' = open \cup {p} /\ q = p /\ where = "connecting")
  PROVE  SharedInv'
<1>0. /\ leader \in [Probes -> Probes \cup {None}] /\ None \notin Probes
      /\ DOMAIN pc = Probes /\ open \subseteq Probes
  BY TypesAreTwo, NoneIsNoProbe DEF ProbeTypes
<1>1. leader'[p] = q /\ leader'[q] = q /\ pc'[p] = where /\ pc'[q] = where
  BY <1>0
<1>2. ASSUME NEW r \in Probes
      PROVE  (IF leader[r] = None THEN pc[r] \notin {"connecting", "settling"}
              ELSE /\ leader[leader[r]] = leader[r]
                   /\ pc[leader[r]] = pc[r]
                   /\ pc[r] \in {"connecting", "settling", "done"})'
  <2>1. CASE r = p
    BY <1>0, <1>1, <2>1
  <2>2. CASE r # p /\ leader[r] = None
    BY <1>0, <2>2 DEF SharedInv
  <2>3. CASE r # p /\ leader[r] # None
    <3>1. leader[r] \in Probes /\ leader[leader[r]] = leader[r]
          /\ pc[leader[r]] = pc[r] /\ pc[r] \in {"connecting", "settling", "done"}
      BY <1>0, <2>3 DEF SharedInv
    <3>2. leader[r] # p
      BY <2>3, <3>1
    <3> QED
      BY <1>0, <2>3, <3>1, <3>2
  <2> QED
    BY <2>1, <2>2, <2>3
<1>3. ASSUME NEW r \in open'
      PROVE  pc'[r] = "connecting" /\ leader'[r] = r
  <2>1. CASE r = p /\ q = p /\ where = "connecting"
    BY <1>1, <2>1
  <2>2. CASE r \in open
    <3>1. pc[r] = "connecting" /\ leader[r] = r /\ r \in Probes
      BY <1>0, <2>2 DEF SharedInv
    <3>2. r # p
      BY <1>0, <3>1
    <3> QED
      BY <1>0, <3>1, <3>2
  <2> QED
    BY <1>3, <2>1, <2>2
<1> QED
  BY <1>2, <1>3 DEF SharedInv

LEMMA NextSharedInv ==
  ASSUME AccountInv, Next
  PROVE  SharedInv'
<1>0. /\ TypeOK /\ SharedInv /\ leader \in [Probes -> Probes \cup {None}]
      /\ pc \in [Probes -> {"unused", "waiting", "asking", "creating",
                           "connecting", "settling", "done"}]
      /\ open \subseteq Probes
  BY TypesAreTwo DEF AccountInv, ProbeTypes
<1>a. \A p \in Probes :
        pc[p] \in {"unused", "waiting", "asking", "creating"} => leader[p] = None
  BY <1>0 DEF SharedInv
<1>b. ActiveProbes \in SUBSET Probes
  BY <1>0, ActiveAreLeaders
<1>1. CASE StartAccount
  <2>1. CASE owner = None
    <3>1. UNCHANGED <<pc, leader, open>>
      BY <1>1, <2>1 DEF StartAccount
    <3> QED
      BY <1>0, <3>1 DEF SharedInv
  <2>2. CASE owner # None
    <3>1. Cancel({owner}) /\ {owner} \in SUBSET Probes /\ UNCHANGED leader
      BY <1>0, <1>1, <2>2 DEF StartAccount, TypeOK
    <3> QED
      BY <1>0, <3>1, CancelShared
  <2> QED
    BY <2>1, <2>2
<1>2. CASE RuntimeStart \/ RuntimeStop
  <2>1. Cancel(ActiveProbes) /\ UNCHANGED leader
    BY <1>2 DEF RuntimeStart, RuntimeStop
  <2> QED
    BY <1>0, <1>b, <2>1, CancelShared
<1>3. CASE UNCHANGED <<pc, leader, open>>
  BY <1>0, <1>3 DEF SharedInv
<1>4. ASSUME NEW p \in Probes, ProbeAccount(p)
      PROVE  SharedInv'
  <2>1. PICK where \in {"asking", "done", "waiting", "creating"} : At(p, where)
    BY <1>4 DEF ProbeAccount
  <2>2. leader[p] = None /\ UNCHANGED <<leader, open>>
    BY <1>a, <1>4 DEF ProbeAccount
  <2> QED
    BY <1>0, <2>1, <2>2, MoveShared
<1>5. ASSUME NEW p \in Probes, ProbeWaited(p)
      PROVE  SharedInv'
  <2>1. At(p, "done") /\ leader[p] = None /\ UNCHANGED <<leader, open>>
    BY <1>a, <1>5 DEF ProbeWaited
  <2> QED
    BY <1>0, <2>1, MoveShared
<1>6. ASSUME NEW p \in Probes, ProbeCreated(p)
      PROVE  SharedInv'
  <2>0. leader[p] = None
    BY <1>a, <1>6 DEF ProbeCreated
  <2>1. CASE p \in cancelled
    <3>1. At(p, "done") /\ UNCHANGED <<leader, open>>
      BY <1>6, <2>1 DEF ProbeCreated
    <3> QED
      BY <1>0, <2>0, <3>1, MoveShared
  <2>2. CASE p \notin cancelled
    <3>1. /\ pc' = [pc EXCEPT ![p] = "connecting"]
          /\ leader' = [leader EXCEPT ![p] = p] /\ open' = open \cup {p}
      BY <1>6, <2>2 DEF ProbeCreated, Connect, At
    <3> QED
      BY <1>0, <2>0, <3>1, JoinShared
  <2> QED
    BY <2>1, <2>2
<1>7. ASSUME NEW p \in Probes, ProbeBridge(p)
      PROVE  SharedInv'
  <2>0. leader[p] = None
    BY <1>a, <1>7 DEF ProbeBridge
  <2>1. CASE At(p, "done") /\ UNCHANGED <<leader, open>>
    BY <1>0, <2>0, <2>1, MoveShared
  <2>2. ASSUME NEW q \in ActiveProbes, pc' = [pc EXCEPT ![p] = pc[q]],
               leader' = [leader EXCEPT ![p] = q], UNCHANGED open
        PROVE  SharedInv'
    <3>1. q \in Probes /\ leader[q] = q /\ pc[q] \in {"connecting", "settling"}
      BY <1>0, ActiveAreLeaders
    <3> QED
      BY <1>0, <2>0, <2>2, <3>1, JoinShared
  <2>3. CASE Connect(p)
    <3>1. /\ pc' = [pc EXCEPT ![p] = "connecting"]
          /\ leader' = [leader EXCEPT ![p] = p] /\ open' = open \cup {p}
      BY <2>3 DEF Connect, At
    <3> QED
      BY <1>0, <2>0, <3>1, JoinShared
  <2> QED
    BY <1>7, <2>1, <2>2, <2>3 DEF ProbeBridge
<1>8. ASSUME NEW p \in Probes, ProbeFinishes(p)
      PROVE  SharedInv'
  <2>1. /\ p \in open /\ open' = open \ {p} /\ UNCHANGED leader
        /\ pc' = [q \in Probes |-> IF leader[q] = p THEN "settling" ELSE pc[q]]
    BY <1>8 DEF ProbeFinishes
  <2>2. leader[p] = p /\ p # None
    BY <1>0, <2>1, NoneIsNoProbe DEF SharedInv
  <2>3. ASSUME NEW q \in Probes
        PROVE  (IF leader[q] = None THEN pc[q] \notin {"connecting", "settling"}
                ELSE /\ leader[leader[q]] = leader[q]
                     /\ pc[leader[q]] = pc[q]
                     /\ pc[q] \in {"connecting", "settling", "done"})'
    <3>1. CASE leader[q] = None
      BY <1>0, <2>1, <2>2, <3>1 DEF SharedInv
    <3>2. CASE leader[q] # None
      <4>1. leader[q] \in Probes /\ leader[leader[q]] = leader[q]
            /\ pc[leader[q]] = pc[q] /\ pc[q] \in {"connecting", "settling", "done"}
        BY <1>0, <3>2 DEF SharedInv
      <4> QED
        BY <2>1, <3>2, <4>1
    <3> QED
      BY <3>1, <3>2
  <2>4. ASSUME NEW q \in open'
        PROVE  pc'[q] = "connecting" /\ leader[q] = q
    BY <1>0, <2>1 DEF SharedInv
  <2> QED
    BY <2>1, <2>3, <2>4 DEF SharedInv
<1>9. ASSUME NEW p \in Probes, ProbeSettles(p)
      PROVE  SharedInv'
  <2>1. /\ pc[p] = "settling" /\ UNCHANGED <<leader, open>>
        /\ pc' = [q \in Probes |-> IF leader[q] = leader[p] THEN "done" ELSE pc[q]]
    BY <1>9 DEF ProbeSettles
  <2>2. leader[p] \in Probes /\ leader[p] # None /\ pc[leader[p]] = "settling"
    BY <1>0, <2>1 DEF SharedInv
  <2>3. ASSUME NEW q \in Probes
        PROVE  (IF leader[q] = None THEN pc[q] \notin {"connecting", "settling"}
                ELSE /\ leader[leader[q]] = leader[q]
                     /\ pc[leader[q]] = pc[q]
                     /\ pc[q] \in {"connecting", "settling", "done"})'
    <3>1. CASE leader[q] = None
      BY <1>0, <2>1, <2>2, <3>1 DEF SharedInv
    <3>2. CASE leader[q] # None
      <4>1. leader[q] \in Probes /\ leader[leader[q]] = leader[q]
            /\ pc[leader[q]] = pc[q] /\ pc[q] \in {"connecting", "settling", "done"}
        BY <1>0, <3>2 DEF SharedInv
      <4> QED
        BY <2>1, <3>2, <4>1
    <3> QED
      BY <3>1, <3>2
  <2>4. ASSUME NEW q \in open
        PROVE  pc'[q] = "connecting" /\ leader[q] = q
    <3>1. q \in Probes /\ pc[q] = "connecting" /\ leader[q] = q
      BY <1>0 DEF SharedInv
    <3>2. leader[q] # leader[p]
      BY <2>2, <3>1
    <3> QED
      BY <2>1, <3>1, <3>2
  <2> QED
    BY <2>1, <2>3, <2>4 DEF SharedInv
<1> QED
  BY <1>1, <1>2, <1>3, <1>4, <1>5, <1>6, <1>7, <1>8, <1>9
  DEF Next, AccountGoesOn, ProbeGoesOn, Signal, StopAccount, ProbeSettledOrNot,
      LifecycleStart, BridgeStarted, BridgeStartFails, AccountEnds,
      LifecycleStop, BridgeStopped, GatewayMoves, StatusTick, probeVars

\* Cancelling probes of which an abort reaches the connection.
LEMMA CancelKnown ==
  ASSUME TypeOK, SharedInv, KnownInv, NEW P \in SUBSET Probes, Cancel(P),
         \A p \in P : Cancellable(p)
  PROVE  /\ \A p \in Probes :
              /\ pc'[p] = "creating" <=> pc[p] = "creating"
              /\ pc'[p] = "asking" <=> pc[p] = "asking"
              /\ Cancellable(p) /\ UNCHANGED leader => Cancellable(p)'
              /\ p \in bridged =>
                   pc'[p] \in {"asking", "connecting", "settling", "done"}
         /\ \A p \in cancelled' :
              p \notin open' /\ pc'[p] \in {"creating", "settling", "done"}
         /\ open' \subseteq open /\ cancelled \subseteq cancelled'
<1>0. None \notin Probes /\ cancelled \subseteq Probes
  BY TypesAreTwo, NoneIsNoProbe DEF ProbeTypes
<1>1. \A p \in Probes :
        pc'[p] = IF pc[p] = "connecting" /\ leader[p] \in P
                 THEN "settling" ELSE pc[p]
  BY CancelMoves
<1>2. open' = open \ P /\ cancelled' = cancelled \cup P
  BY DEF Cancel
<1>3. ASSUME NEW p \in P
      PROVE  p \notin open' /\ pc'[p] \in {"creating", "settling", "done"}
  <2>1. CASE pc[p] = "connecting"
    <3>1. leader[p] = p
      BY <2>1 DEF Cancellable, SharedInv
    <3> QED
      BY <1>1, <1>2, <2>1, <3>1
  <2>2. CASE pc[p] # "connecting"
    BY <1>1, <1>2, <2>2 DEF Cancellable
  <2> QED
    BY <2>1, <2>2
<1>4. ASSUME NEW p \in cancelled
      PROVE  p \notin open' /\ pc'[p] \in {"creating", "settling", "done"}
  BY <1>0, <1>1, <1>2 DEF KnownInv
<1>5. ASSUME NEW p \in Probes
      PROVE  /\ pc'[p] = "creating" <=> pc[p] = "creating"
             /\ pc'[p] = "asking" <=> pc[p] = "asking"
             /\ Cancellable(p) /\ UNCHANGED leader => Cancellable(p)'
             /\ p \in bridged =>
                  pc'[p] \in {"asking", "connecting", "settling", "done"}
  BY <1>1 DEF Cancellable, KnownInv
<1> QED
  BY <1>2, <1>3, <1>4, <1>5

\* A step of the account alone brings no connection up that was not due.
LEMMA AccountKnown ==
  ASSUME KnownInv, UNCHANGED <<owner, probeVars>>,
         startPc' = "settling" => startPc = "settling",
         running' => running,
         startPc' \in {"booting", "cancelling"} \/ (online' /\ running') =>
           startPc \in {"booting", "cancelling"} \/ (online /\ running)
  PROVE  KnownInv'
  BY DEF KnownInv, Cancellable, probeVars

LEMMA NextKnownInv ==
  ASSUME AccountInv, Next
  PROVE  KnownInv'
<1>0. /\ TypeOK /\ SharedInv /\ KnownInv /\ BridgeInv /\ RuntimeInv /\ StatusInv
      /\ None \notin Probes
  BY NoneIsNoProbe DEF AccountInv
<1>t. AccountTypes /\ ProbeTypes
  BY <1>0, TypesAreTwo
<1>a. \A p \in Probes :
        pc[p] \in {"unused", "waiting", "asking", "creating"} =>
          leader[p] = None /\ p \notin open
  BY <1>0 DEF SharedInv
<1>1. CASE StartAccount
  <2>0. startPc = "stopped" /\ ~running /\ NobodyAsks
    BY <1>0, <1>1 DEF StartAccount, BridgeInv, Starting
  <2>1. CASE owner = None
    <3>1. UNCHANGED <<owner, pc, leader, open, cancelled, overwritten>>
      BY <1>1, <2>1 DEF StartAccount
    <3>2. bridged' = {} /\ unheeded' = unheeded \cup (open \cap bridged)
      BY <1>1, <2>1 DEF StartAccount, MakeBridge
    <3> QED
      BY <1>0, <2>0, <2>1, <3>1, <3>2 DEF KnownInv, Cancellable, NobodyAsks
  <2>2. CASE owner # None
    <3>1. /\ Cancel({owner}) /\ startPc' = "settling"
          /\ UNCHANGED <<owner, leader, bridged, overwritten, unheeded, running>>
      BY <1>1, <2>2 DEF StartAccount, bridgeVars
    <3>2. {owner} \in SUBSET Probes /\ Cancellable(owner)
      BY <1>0, <1>t, <2>2 DEF ProbeTypes, KnownInv
    <3>3. owner \in cancelled'
      BY <3>1 DEF Cancel
    <3>4. /\ \A p \in Probes :
              /\ pc'[p] = "creating" <=> pc[p] = "creating"
              /\ pc'[p] = "asking" <=> pc[p] = "asking"
              /\ Cancellable(p) => Cancellable(p)'
              /\ p \in bridged =>
                   pc'[p] \in {"asking", "connecting", "settling", "done"}
          /\ \A p \in cancelled' :
               p \notin open' /\ pc'[p] \in {"creating", "settling", "done"}
          /\ open' \subseteq open /\ cancelled \subseteq cancelled'
      BY <1>0, <3>1, <3>2, CancelKnown
    <3>5. Cancellable(owner)'
      BY <3>1, <3>2, <3>4 DEF Cancellable
    <3> QED
      BY <1>0, <1>t, <2>0, <3>1, <3>3, <3>4, <3>5
      DEF KnownInv, NobodyAsks, ProbeTypes
  <2> QED
    BY <2>1, <2>2
<1>2. CASE ProbeSettledOrNot
  <2>1. /\ startPc = "settling" /\ startPc' = "booting"
        /\ bridged' = {} /\ unheeded' = unheeded \cup (open \cap bridged)
        /\ UNCHANGED <<owner, pc, leader, open, cancelled, overwritten>>
    BY <1>2 DEF ProbeSettledOrNot, MakeBridge
  <2> QED
    BY <1>0, <2>1 DEF KnownInv, Cancellable
<1>3. CASE RuntimeStart \/ RuntimeStop
  <2>1. /\ Cancel(ActiveProbes)
        /\ UNCHANGED <<owner, leader, bridged, overwritten, unheeded, running,
                       online>>
        /\ startPc' = "settling" <=> startPc = "settling"
        /\ startPc' \in {"booting", "cancelling"} =>
             startPc \in {"booting", "cancelling"}
    BY <1>3 DEF RuntimeStart, RuntimeStop, coordVars, channelVars, bridgeVars,
       runtimeVars
  <2>2. ActiveProbes \in SUBSET Probes /\ \A p \in ActiveProbes : Cancellable(p)
    BY <1>0, ActiveAreLeaders DEF Cancellable
  <2>3. /\ \A p \in Probes :
             /\ pc'[p] = "creating" <=> pc[p] = "creating"
             /\ pc'[p] = "asking" <=> pc[p] = "asking"
             /\ Cancellable(p) => Cancellable(p)'
             /\ p \in bridged =>
                  pc'[p] \in {"asking", "connecting", "settling", "done"}
        /\ \A p \in cancelled' :
             p \notin open' /\ pc'[p] \in {"creating", "settling", "done"}
        /\ open' \subseteq open /\ cancelled \subseteq cancelled'
    BY <1>0, <2>1, <2>2, CancelKnown
  <2>4. owner' # None => Cancellable(owner)'
    <3>1. owner # None => owner \in Probes /\ Cancellable(owner)
      BY <1>0, <1>t DEF KnownInv, ProbeTypes
    <3> QED
      BY <2>1, <2>3, <3>1 DEF Cancellable
  <2> QED
    BY <1>0, <1>t, <2>1, <2>3, <2>4 DEF KnownInv, ProbeTypes
<1>4. CASE Signal \/ StopAccount \/ AccountEnds
  BY <1>0, <1>4, AccountKnown DEF Signal, StopAccount, AccountEnds, BridgeStop,
     Reset, coordVars, bridgeVars, runtimeVars
<1>5. CASE LifecycleStart
  BY <1>0, <1>5, AccountKnown DEF LifecycleStart, coordVars, bridgeVars
<1>6. CASE BridgeStarted \/ BridgeStartFails
  BY <1>0, <1>6, AccountKnown DEF BridgeStarted, BridgeStartFails, Reset,
     runtimeVars
<1>7. CASE LifecycleStop \/ BridgeStopped
  <2>1. CASE LifecycleStop
    BY <1>0, <2>1, AccountKnown DEF LifecycleStop, coordVars, channelVars
  <2>2. CASE BridgeStopped
    BY <1>0, <2>2, AccountKnown DEF BridgeStopped, Reset
  <2> QED
    BY <1>7, <2>1, <2>2
<1>8. CASE GatewayMoves \/ StatusTick
  BY <1>0, <1>t, <1>8, AccountKnown DEF GatewayMoves, StatusTick, coordVars,
     channelVars, bridgeVars, runtimeVars, RuntimeInv
<1>9. ASSUME NEW p \in Probes, ProbeAccount(p)
      PROVE  KnownInv'
  <2>1. /\ pc[p] = "unused" /\ leader[p] = None /\ p \notin open
        /\ p \notin bridged /\ p \notin cancelled /\ p # owner
        /\ UNCHANGED <<startPc, running, online, leader, open, cancelled, unheeded>>
    BY <1>0, <1>a, <1>9
    DEF ProbeAccount, channelVars, bridgeVars, runtimeVars, KnownInv, Cancellable
  <2>2. CASE registered
    <3>1. /\ pc' = [pc EXCEPT ![p] = "asking"] /\ bridged' = bridged \cup {p}
          /\ UNCHANGED <<owner, overwritten>>
      BY <1>9, <2>2 DEF ProbeAccount, At
    <3>2. startPc # "settling"
      BY <1>0, <2>2 DEF BridgeInv, Starting
    <3> QED
      BY <1>0, <1>t, <2>1, <3>1, <3>2 DEF KnownInv, Cancellable, ProbeTypes
  <2>3. CASE UNCHANGED <<bridged, owner, overwritten>>
             /\ (At(p, "done") \/ At(p, "waiting"))
    BY <1>0, <1>t, <2>1, <2>3 DEF KnownInv, Cancellable, ProbeTypes, At
  <2>4. CASE /\ ~registered /\ phase # "connecting" /\ At(p, "creating")
             /\ owner' = p /\ overwritten' = overwritten \cup ({owner} \ {None})
             /\ UNCHANGED bridged
    <3>1. ~running /\ startPc # "settling"
      BY <1>0, <2>4 DEF BridgeInv, StatusInv
    <3>2. pc' = [pc EXCEPT ![p] = "creating"]
      BY <2>4 DEF At
    <3> QED
      BY <1>0, <1>t, <2>1, <2>4, <3>1, <3>2 DEF KnownInv, Cancellable, ProbeTypes
  <2> QED
    BY <1>9, <2>2, <2>3, <2>4 DEF ProbeAccount
<1>10. ASSUME NEW p \in Probes, ProbeWaited(p)
       PROVE  KnownInv'
  <2>1. /\ pc[p] = "waiting" /\ pc' = [pc EXCEPT ![p] = "done"]
        /\ UNCHANGED <<owner, startPc, running, online, bridged, leader, open,
                       cancelled, overwritten, unheeded>>
    BY <1>10 DEF ProbeWaited, At, coordVars, channelVars, bridgeVars, runtimeVars
  <2> QED
    BY <1>0, <1>t, <2>1 DEF KnownInv, Cancellable, ProbeTypes
<1>11. ASSUME NEW p \in Probes, ProbeCreated(p)
       PROVE  KnownInv'
  <2>1. /\ pc[p] = "creating" /\ leader[p] = None /\ p \notin open
        /\ p \notin bridged /\ p \in overwritten \cup {owner}
        /\ UNCHANGED <<startPc, running, online, bridged, cancelled,
                       overwritten, unheeded>>
    BY <1>0, <1>a, <1>11
    DEF ProbeCreated, channelVars, bridgeVars, runtimeVars, KnownInv
  <2>2. CASE p \in cancelled
    <3>1. /\ pc' = [pc EXCEPT ![p] = "done"] /\ UNCHANGED <<leader, open>>
          /\ owner' = IF owner = p THEN None ELSE owner
      BY <1>11, <2>2 DEF ProbeCreated, At, FinishProbe
    <3> QED
      BY <1>0, <1>t, <2>1, <2>2, <3>1 DEF KnownInv, Cancellable, ProbeTypes
  <2>3. CASE p \notin cancelled
    <3>1. /\ pc' = [pc EXCEPT ![p] = "connecting"] /\ UNCHANGED owner
          /\ leader' = [leader EXCEPT ![p] = p] /\ open' = open \cup {p}
      BY <1>11, <2>3 DEF ProbeCreated, Connect, At
    <3> QED
      BY <1>0, <1>t, <2>1, <2>3, <3>1 DEF KnownInv, Cancellable, ProbeTypes
  <2> QED
    BY <2>2, <2>3
<1>12. ASSUME NEW p \in Probes, ProbeBridge(p)
       PROVE  KnownInv'
  <2>1. /\ pc[p] = "asking" /\ leader[p] = None /\ p \notin open
        /\ p \in bridged /\ p \notin cancelled /\ p # owner
        /\ startPc # "booting"
        /\ UNCHANGED <<owner, startPc, running, online, bridged, cancelled,
                       overwritten>>
    BY <1>0, <1>a, <1>12
    DEF ProbeBridge, coordVars, channelVars, bridgeVars, runtimeVars, KnownInv,
        Cancellable
  <2>2. CASE At(p, "done") /\ UNCHANGED <<leader, open, unheeded>>
    BY <1>0, <1>t, <2>1, <2>2 DEF KnownInv, Cancellable, ProbeTypes, At
  <2>3. ASSUME NEW q \in ActiveProbes, pc' = [pc EXCEPT ![p] = pc[q]],
               leader' = [leader EXCEPT ![p] = q], UNCHANGED <<open, unheeded>>
        PROVE  KnownInv'
    <3>1. pc[q] \in {"connecting", "settling"}
      BY <1>0, ActiveAreLeaders
    <3> QED
      BY <1>0, <1>t, <2>1, <2>3, <3>1 DEF KnownInv, Cancellable, ProbeTypes
  <2>4. CASE /\ lifecycle \notin {"ready", "starting", "reconnecting", "stopping"}
             /\ Connect(p)
             /\ unheeded' = IF startPc = "cancelling"
                            THEN unheeded \cup {p} ELSE unheeded
    <3>1. /\ pc' = [pc EXCEPT ![p] = "connecting"]
          /\ leader' = [leader EXCEPT ![p] = p] /\ open' = open \cup {p}
      BY <2>4 DEF Connect, At
    <3>2. ~online
      BY <1>0, <2>4 DEF RuntimeInv
    <3> QED
      BY <1>0, <1>t, <2>1, <2>4, <3>1, <3>2 DEF KnownInv, Cancellable, ProbeTypes
  <2> QED
    BY <1>12, <2>2, <2>3, <2>4 DEF ProbeBridge
<1>13. ASSUME NEW p \in Probes, ProbeFinishes(p)
       PROVE  KnownInv'
  <2>1. /\ open' = open \ {p} /\ leader[p] = p /\ p # None
        /\ pc' = [q \in Probes |-> IF leader[q] = p THEN "settling" ELSE pc[q]]
        /\ UNCHANGED <<owner, startPc, running, online, bridged, leader,
                       cancelled, overwritten, unheeded>>
    BY <1>0, <1>13 DEF ProbeFinishes, coordVars, channelVars, bridgeVars,
       runtimeVars, SharedInv
  <2> QED
    BY <1>0, <1>t, <2>1 DEF KnownInv, Cancellable, ProbeTypes
<1>14. ASSUME NEW p \in Probes, ProbeSettles(p)
       PROVE  KnownInv'
  <2>1. /\ pc[p] = "settling" /\ leader[p] # None
        /\ pc' = [q \in Probes |-> IF leader[q] = leader[p] THEN "done" ELSE pc[q]]
        /\ owner' = IF owner = p THEN None ELSE owner
        /\ UNCHANGED <<startPc, running, online, bridged, leader, open,
                       cancelled, overwritten, unheeded>>
    BY <1>0, <1>14 DEF ProbeSettles, FinishProbe, channelVars, bridgeVars,
       runtimeVars, SharedInv
  <2>2. p \notin open
    BY <1>0, <2>1 DEF SharedInv
  <2> QED
    BY <1>0, <1>t, <2>1, <2>2 DEF KnownInv, Cancellable, ProbeTypes
<1> QED
  BY <1>1, <1>2, <1>3, <1>4, <1>5, <1>6, <1>7, <1>8, <1>9, <1>10, <1>11,
     <1>12, <1>13, <1>14 DEF Next, AccountGoesOn, ProbeGoesOn

-----------------------------------------------------------------------------
(* The theorems. *)

LEMMA InitAccountInv == Init => AccountInv
<1> SUFFICES ASSUME Init PROVE AccountInv
  OBVIOUS
<1> USE DEF Init
<1>1. TypeOK
  <2>1. AccountTypes
    <3>1. {registered, signalled, running, stopping, loop, online} \subseteq BOOLEAN
      OBVIOUS
    <3>2. starts \in 0..MaxStarts /\ {phase, shown} \subseteq Phases
      BY BoundsAreNumbers DEF Phases
    <3> QED
      BY <3>1, <3>2 DEF AccountTypes
  <2>2. ProbeTypes
    BY DEF ProbeTypes
  <2> QED
    BY <2>1, <2>2, TypesAreTwo
<1>2. BridgeInv /\ RuntimeInv /\ StatusInv
  BY DEF BridgeInv, RuntimeInv, StatusInv, Starting
<1>3. SharedInv /\ KnownInv
  BY DEF SharedInv, KnownInv
<1> QED
  BY <1>1, <1>2, <1>3 DEF AccountInv

LEMMA StutterAccountInv ==
  ASSUME AccountInv, UNCHANGED vars
  PROVE  AccountInv'
<1>0. TypeOK /\ BridgeInv /\ RuntimeInv /\ StatusInv /\ SharedInv /\ KnownInv
  BY DEF AccountInv
<1> USE DEF vars, coordVars, channelVars, bridgeVars, runtimeVars, probeVars
<1>1. TypeOK'
  BY <1>0 DEF TypeOK
<1>2. BridgeInv' /\ RuntimeInv' /\ StatusInv'
  BY <1>0 DEF BridgeInv, RuntimeInv, StatusInv
<1>3. SharedInv' /\ KnownInv'
  BY <1>0 DEF SharedInv, KnownInv, Cancellable
<1> QED
  BY <1>1, <1>2, <1>3 DEF AccountInv

LEMMA NextAccountInv == AccountInv /\ [Next]_vars => AccountInv'
<1>1. ASSUME AccountInv, Next
      PROVE  AccountInv'
  <2>1. AccountTypes /\ ProbeTypes => TypeOK
    BY TypesAreTwo
  <2>2. AccountTypes' /\ ProbeTypes'
    BY <1>1, NextAccountTypes, NextProbeTypes DEF AccountInv
  <2>3. TypeOK'
    BY <2>2 DEF TypeOK, AccountTypes, ProbeTypes
  <2> QED
    BY <1>1, <2>3, NextBridgeInv, NextRuntimeInv, NextStatusInv, NextSharedInv,
       NextKnownInv DEF AccountInv
<1> QED
  BY <1>1, StutterAccountInv

LEMMA AccountInvHolds == Spec => []AccountInv
  BY InitAccountInv, NextAccountInv, PTL DEF Spec

\* The variables of the coordinator, the account, its bridge, its runtime and
\* its probes keep their types, in every behaviour.
THEOREM AccountTypeCorrect == Spec => []TypeOK
<1>1. AccountInv => TypeOK
  BY DEF AccountInv
<1> QED
  BY <1>1, AccountInvHolds, PTL

\* Whatever starts, stops and probes an account sees, a runtime that connects
\* meets no other connections than those of probes that the coordinator lost
\* sight of, or that asked a bridge that had not started its runtime yet or is
\* gone.  The others are cancelled before the runtime connects, or do not
\* connect.
THEOREM OtherRivalsAreCancelled == Spec => []RivalsAreUnseen
<1>1. ASSUME AccountInv, online, ~stopping
      PROVE  open \subseteq overwritten \cup unheeded
  <2>1. running
    BY <1>1 DEF AccountInv, RuntimeInv, BridgeInv
  <2>2. owner \in cancelled \cup {None}
    BY <1>1, <2>1 DEF AccountInv, KnownInv
  <2>3. owner \notin open
    BY <1>1, <2>2, NoneIsNoProbe DEF AccountInv, KnownInv, TypeOK
  <2>4. bridged \cap open \subseteq unheeded
    BY <1>1, <2>1 DEF AccountInv, KnownInv
  <2> QED
    BY <1>1, <2>3, <2>4 DEF AccountInv, KnownInv
<1>2. AccountInv => RivalsAreUnseen
  BY <1>1 DEF RivalsAreUnseen
<1> QED
  BY <1>2, AccountInvHolds, PTL

\* An account whose start and stop have returned, in whichever order they did,
\* has no bridge, no connection and no status loop left, and its coordinator
\* lets probes through.
THEOREM StoppedAccountLetsGo == Spec => []StoppedAccountIsFree
<1>1. ASSUME AccountInv, startPc = "stopped", stopPc = "none"
      PROVE  ~registered /\ ~online /\ ~loop /\ phase = "idle" /\ snapshot # "up"
  <2>1. ~running /\ closing = "no" /\ ~registered
    BY <1>1 DEF AccountInv, BridgeInv, Starting
  <2> QED
    BY <1>1, <2>1 DEF AccountInv, RuntimeInv, StatusInv
<1>2. AccountInv => StoppedAccountIsFree
  BY <1>1 DEF StoppedAccountIsFree
<1> QED
  BY <1>2, AccountInvHolds, PTL
=============================================================================
