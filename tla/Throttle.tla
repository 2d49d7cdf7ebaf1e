------------------------------ MODULE Throttle ------------------------------
(***************************************************************************)
(* The budget of background work (crates/ozd-app/src/throttle.rs): tasks   *)
(* charge the bytes they moved and sleep off the debt, while the rate is   *)
(* halved under foreground load and creeps back when it is quiet.  Tokens  *)
(* are counted in 1/TPS of a byte, so that refills are whole numbers; the  *)
(* rate is rounded down where the code halves a float.                     *)
(***************************************************************************)
EXTENDS Clock

CONSTANTS
  BgMax, BgMin, Busy,  \* max_bytes_per_sec, min_bytes_per_sec, fg_busy_ops_per_sec
  BgTasks, Chunks,     \* GC, scrub, resilver and heal; the bytes they charge at once
  FgOps,               \* bound on foreground operations
  Reloads, MaxReloads, \* configurations a SIGHUP may bring; bound on SIGHUPs
  MaxPanics            \* bound on charges that panic

\* Nothing validates the limits: a configuration may have its minimum above its
\* maximum, and a reloaded one zeros.  (A maximum of 0 at the start turns the
\* throttle off: acquire() returns at once.)
ASSUME ThrottleAssumption ==
  /\ BgMax \in Nat \ {0} /\ BgMin \in Nat \ {0} /\ Busy \in Nat
  /\ IsFiniteSet(BgTasks) /\ FgOps \in Nat /\ MaxReloads \in Nat /\ MaxPanics \in Nat
  /\ IsFiniteSet(Chunks) /\ Chunks \subseteq Nat \ {0} /\ Chunks # {}
  /\ IsFiniteSet(Reloads) /\ \A c \in Reloads : c.max \in Nat /\ c.min \in Nat

VARIABLES
  rate, tokens, refilled, observed, seenFg,  \* State: rate, tokens, last_refill, last_obs, last_fg_ops
  fg,                                        \* puts + gets of the metrics
  task,                                      \* tasks: at work, about to charge (bytes, and the clock as read), or asleep
  reloads,                                   \* how many more SIGHUPs the reload task takes; it does not outlive a panic
  panics,                                    \* charges that panicked so far
  spent, twice,                              \* history: bytes of the charges that returned; ticks that were refilled twice
  came                                       \* history: configurations that were applied

throttleVars == <<rate, tokens, refilled, observed, seenFg, fg, task, reloads, panics, spent, twice, came>>

\* new(): the full rate and one second of burst.
ThrottleInit ==
  /\ rate = BgMax /\ tokens = BgMax * TPS /\ refilled = 0 /\ observed = 0 /\ seenFg = 0
  /\ fg = 0 /\ task = [t \in BgTasks |-> [bytes |-> 0, at |-> 0, fg |-> 0, wake |-> 0]]
  /\ reloads = MaxReloads /\ panics = 0 /\ spent = 0 /\ twice = 0 /\ came = {}

\* acquire(): the clock and the counters are read before the lock is taken.
Charge(t) == \E n \in Chunks :
  /\ task[t].bytes = 0 /\ task[t].wake <= now
  /\ task' = [task EXCEPT ![t] = [bytes |-> n, at |-> now, fg |-> fg, wake |-> 0]]
  /\ UNCHANGED <<now, rate, tokens, refilled, observed, seenFg, fg, reloads, panics, spent, twice, came>>

\* Mutant: the rate is halved without end.
AdjustedNoFloor(q, win) ==
  IF AtLeast(q.fg - seenFg, 0) * TPS > Busy * win THEN AtLeast(rate \div 2, 1) ELSE AtMost(rate + BgMax \div 10, BgMax)

\* The AIMD step of a window of at least one second.
Adjusted(q, win) ==
  IF AtLeast(q.fg - seenFg, 0) * TPS > Busy * win THEN AtLeast(rate \div 2, BgMin) ELSE AtMost(rate + BgMax \div 10, BgMax)

\* acquire_delay(): adjust, refill up to one second's worth, charge, and sleep
\* while the balance is negative.  An older clock than the last one refills
\* nothing, but turns last_refill back.  At a rate of 0 the sleep would be
\* infinite: from_secs_f64 panics, the balance is charged, and the loop that
\* called it goes on without a pause.
Acquire(t) ==
  LET q == task[t]
      win == AtLeast(q.at - observed, 0)
      r == IF win >= TPS THEN Adjusted(q, win) ELSE rate
      balance == AtMost(tokens + r * AtLeast(q.at - refilled, 0), r * TPS) - q.bytes * TPS
      pause == IF r = 0 THEN 0 ELSE CeilDiv(AtLeast(- balance, 0), r) IN
  /\ q.bytes # 0
  /\ rate' = r /\ tokens' = balance /\ refilled' = q.at
  /\ IF win >= TPS THEN observed' = q.at /\ seenFg' = q.fg ELSE UNCHANGED <<observed, seenFg>>
  /\ task' = [task EXCEPT ![t] = [bytes |-> 0, at |-> 0, fg |-> 0, wake |-> now + pause]]
  /\ IF r = 0 THEN panics < MaxPanics /\ panics' = panics + 1 /\ UNCHANGED spent
     ELSE spent' = spent + q.bytes /\ UNCHANGED panics
  /\ twice' = twice + AtLeast(refilled - q.at, 0)
  /\ UNCHANGED <<now, fg, reloads, came>>

Foreground ==
  /\ fg < FgOps /\ fg' = fg + 1
  /\ UNCHANGED <<now, rate, tokens, refilled, observed, seenFg, task, reloads, panics, spent, twice, came>>

\* SIGHUP: update_config only clamps the rate of the moment; the limits
\* themselves stay.  clamp panics when the minimum is above the maximum, and
\* the reload task with it.
UpdateConfig == \E c \in Reloads :
  /\ reloads > 0
  /\ IF c.min > c.max THEN reloads' = 0 /\ UNCHANGED <<rate, came>>
     ELSE reloads' = reloads - 1 /\ rate' = AtLeast(c.min, AtMost(rate, c.max)) /\ came' = came \cup {c}
  /\ UNCHANGED <<now, tokens, refilled, observed, seenFg, fg, task, panics, spent, twice>>

ThrottleNext ==
  \/ \E t \in BgTasks : Charge(t) \/ Acquire(t)
  \/ Foreground \/ UpdateConfig
  \/ ClockTick /\ UNCHANGED throttleVars

-----------------------------------------------------------------------------
\* How far the rate may have gone: a reload lifts it to its minimum at most and
\* lowers it to its maximum at least, and the limits of the start take it back.
Highest == Max({BgMax, BgMin} \cup {c.min : c \in came})
Lowest == Min({BgMax, BgMin} \cup {c.max : c \in came})

\* Background work keeps to its budget however many tasks share it and however
\* the rate moves: what was charged is at most one second of burst, the ceiling
\* for the time that passed, the time refilled twice because a task was held up
\* between reading the clock and the lock, and one chunk for every task.  The
\* ceiling is that of the start: a reload with a lower maximum does not lower it.
BudgetKept ==
  spent * TPS <= Highest * (TPS + now + twice) + Cardinality(BgTasks) * Max(Chunks) * TPS

\* Nor is it starved, as long as no reload brought a maximum of 0: no task is
\* put to sleep for longer than paying off, at the lowest rate, one chunk of
\* every task times the ratio of the highest rate to the lowest.  The ratio is
\* there because a sleep is computed from the rate of the moment: when the rate
\* falls meanwhile, the tasks wake up with the debt unpaid and charge again.
NeverStarved ==
  Lowest > 0 => \A t \in BgTasks :
    task[t].wake - now <= CeilDiv(Cardinality(BgTasks) * (Max(Chunks) * TPS) * Highest, Lowest * Lowest)

\* Background work is paced: never above its budget, never stopped.
Paced == BudgetKept /\ NeverStarved
=============================================================================
