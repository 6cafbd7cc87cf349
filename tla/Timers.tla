------------------------------- MODULE Timers -------------------------------
(***************************************************************************)
(* The timers of libnano2's NetDaemon (nanosoft/netdaemon.cpp: callAt,     *)
(* processTimers): a std::priority_queue ordered by "expires < t.expires", *)
(* whose top is the timer that expires LAST, and a counter beside it.      *)
(* Times are relative: left[t] is the number of seconds until t expires.   *)
(* The clock is read once for a pass, so that it stands still in one.      *)
(***************************************************************************)
EXTENDS Integers, FiniteSets

CONSTANTS
  Timer,       \* the calls of setTimer() that a run of the program makes
  Rearming,    \* those whose callback sets them again, as AsyncDNS::timer does
  MaxDelay,    \* bound: how far ahead a timer is set
  MaxLate      \* bound: how late a timer is told apart from a later one

ASSUME RearmingAssumption == Rearming \subseteq Timer
ASSUME BoundsAssumption == MaxDelay \in Nat \ {0} /\ MaxLate \in Nat

VARIABLES
  pending,     \* the timers in the queue
  left,        \* the seconds until each of them expires
  timerCount,  \* NetDaemon::timerCount
  fired,       \* history: the timers that were called for the last time
  in_pass      \* the loop of processTimers() is running

vars == <<pending, left, timerCount, fired, in_pass>>

-----------------------------------------------------------------------------

Init ==
  /\ pending = {}
  /\ left = [t \in Timer |-> 0]
  /\ timerCount = 0
  /\ fired = {}
  /\ in_pass = FALSE

Due(t) == left[t] <= 0

(* What timers.top() may be. *)
Top(t) == t \in pending /\ \A u \in pending : left[u] <= left[t]

(* Mutant of CallAt: the timer is queued and not counted. *)
CallAtUncounted(t, delay) ==
  /\ t \notin pending \union fired
  /\ pending' = pending \union {t}
  /\ left' = [left EXCEPT ![t] = delay]
  /\ UNCHANGED <<timerCount, fired, in_pass>>

(* setTimer(time(0) + delay), by any handler or callback, at any time. *)
CallAt(t, delay) ==
  /\ t \notin pending \union fired
  /\ pending' = pending \union {t}
  /\ left' = [left EXCEPT ![t] = delay]
  /\ timerCount' = timerCount + 1
  /\ UNCHANGED <<fired, in_pass>>

(* run() calls processTimers() after epoll_wait(), at least every 200 ms.  *)
BeginPass ==
  /\ ~in_pass
  /\ in_pass' = TRUE
  /\ UNCHANGED <<pending, left, timerCount, fired>>

(* The top is popped, then its callback runs; a rearming one sets a timer  *)
(* again, unless it has nothing left to wait for.                          *)
Fire(t) ==
  /\ in_pass /\ timerCount > 0
  /\ Top(t) /\ Due(t)
  /\ \/ /\ pending' = pending \ {t}
        /\ timerCount' = timerCount - 1
        /\ fired' = fired \union {t}
        /\ UNCHANGED left
     \/ /\ t \in Rearming
        /\ \E delay \in 1..MaxDelay : left' = [left EXCEPT ![t] = delay]
        /\ UNCHANGED <<pending, timerCount, fired>>
  /\ UNCHANGED in_pass

(* Mutant of EndPass: an "if" where the code has a "while". *)
EndPassAtOnce ==
  /\ in_pass
  /\ in_pass' = FALSE
  /\ UNCHANGED <<pending, left, timerCount, fired>>

(* The loop ends when no timer is left, or when the top is not due. *)
EndPass ==
  /\ in_pass
  /\ timerCount = 0 \/ \E t \in Timer : Top(t) /\ ~Due(t)
  /\ in_pass' = FALSE
  /\ UNCHANGED <<pending, left, timerCount, fired>>

Tick ==
  /\ ~in_pass
  /\ left' = [t \in Timer |-> IF t \in pending /\ left[t] > -MaxLate
                                THEN left[t] - 1 ELSE left[t]]
  /\ UNCHANGED <<pending, timerCount, fired, in_pass>>

Next ==
  \/ \E t \in Timer : (\E delay \in 0..MaxDelay : CallAt(t, delay)) \/ Fire(t)
  \/ BeginPass
  \/ EndPass
  \/ Tick

(* epoll_wait() returns within sleep_time, callbacks return, time passes.  *)
Fairness ==
  /\ WF_vars(BeginPass)
  /\ WF_vars(\E t \in Timer : Fire(t))
  /\ WF_vars(EndPass)
  /\ SF_vars(Tick)

Spec == Init /\ [][Next]_vars /\ Fairness

-----------------------------------------------------------------------------

TypeOK ==
  /\ pending \in SUBSET Timer
  /\ left \in [Timer -> Int]
  /\ timerCount \in Nat
  /\ fired \in SUBSET Timer
  /\ in_pass \in BOOLEAN

(* The counter that guards timers.top() counts the queue: top() and pop()  *)
(* are never called on an empty one, although callbacks push in the loop.  *)
CountExact == TypeOK /\ timerCount = Cardinality(pending)

(* A pass leaves a due timer waiting only behind one that expires later.   *)
LateOnlyBehindLater ==
  [][in_pass /\ ~in_pass' /\ (\E t \in pending : Due(t))
       => \E u \in pending : ~Due(u)]_vars

(* A callback sets its timer again. *)
Rearms == \E t \in pending : left'[t] > left[t]

(* Every timer is called at last, although the queue is in the wrong       *)
(* order, unless callbacks set their timers again and again for ever.      *)
AllFire ==
  \A t \in Timer : (t \in pending ~> t \in fired) \/ []<><<Rearms>>_vars
=============================================================================
