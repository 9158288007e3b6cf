------------------------------- MODULE Timers -------------------------------
(***************************************************************************)
(* The two timer queues of kernel/time: low resolution timers (ktimer.c,   *)
(* counted in jiffies) and high resolution timers (hrtimer.c, in           *)
(* nanoseconds), both run by the timer interrupt (clockevents.c).          *)
(*                                                                         *)
(* A queue is a singly linked list kept in order of expiry.  A timer that  *)
(* expires is unlinked and its function called; the function may start or  *)
(* cancel any timer, its own included.  The whole tick runs with           *)
(* interrupts off (the interrupt gate cleared the flag that irq_restore    *)
(* puts back), so calls from a thread come between two ticks.              *)
(*                                                                         *)
(* One unit of time is a tick.  The clock of the high resolution timers is *)
(* the one derived from the tick counter, so nothing expires between two   *)
(* ticks that would not expire at the second of them.                      *)
(***************************************************************************)
EXTENDS Integers, FiniteSets, Sequences

CONSTANTS
  KTimers,        \* the galio_ktimer_t objects
  HTimers,        \* the galio_hrtimer_t objects
  NoTimer,        \* NULL
  TickLimit,      \* 2^32: the tick counter is a u32
  MaxDelay        \* bound: a timer function starts a timer at most this far ahead

ASSUME TimersAssumption ==
  /\ IsFiniteSet(KTimers) /\ IsFiniteSet(HTimers)
  /\ KTimers \cap HTimers = {} /\ NoTimer \notin KTimers \cup HTimers
  /\ TickLimit \in Nat \ {0} /\ MaxDelay \in Nat \ {0}

Timer == KTimers \cup HTimers

VARIABLES
  ticks,      \* the PIT's tick counter
  timers,     \* heads of the two queues; next, active and expires of every timer
  phase,      \* "thread" between ticks, or the queue the tick is running
  fired,      \* the timers whose function was called in the last tick
  order       \* the pairs of pending hrtimers of which the first was started before
              \* the second, by their last starts

timerVars == <<ticks, timers, phase, fired, order>>

List == INSTANCE LinkedQueue WITH Element <- Timer, NULL <- NoTimer

Kind(t) == IF t \in KTimers THEN "ktimer" ELSE "hrtimer"
Queue(tm, kind) == [head |-> tm.head[kind], next |-> tm.next]
Chain(tm, kind) == [n \in 1..List!Length(Queue(tm, kind)) |-> List!At(Queue(tm, kind))[n - 1]]

\* galio_ktimer_init and galio_hrtimer_init of every timer; both lists empty.
TimersInit ==
  /\ ticks = 0
  /\ timers = [head |-> [kind \in {"ktimer", "hrtimer"} |-> NoTimer],
               next |-> [t \in Timer |-> NoTimer],
               active |-> [t \in Timer |-> FALSE],
               expires |-> [t \in Timer |-> 0]]
  /\ phase = "thread"
  /\ fired = {}
  /\ order = {}

-----------------------------------------------------------------------------
(* The queues. *)

\* The first timer of a queue is taken off.
PopHead(tm, t) ==
  [tm EXCEPT !.head[Kind(t)] = tm.next[t], !.next[t] = NoTimer, !.active[t] = FALSE]

\* The timer before t in its queue, NoTimer when there is none.
Before(tm, t) ==
  LET pred == {u \in List!Members(Queue(tm, Kind(t))) : tm.next[u] = t}
  IN  IF pred = {} THEN NoTimer ELSE CHOOSE u \in pred : TRUE

\* t is looked for along the list, bypassed if found, and marked inactive anyway.
CancelActive(tm, t) ==
  IF tm.head[Kind(t)] = t THEN PopHead(tm, t)
  ELSE LET u == Before(tm, t)
           bypass == IF u = NoTimer THEN tm.next ELSE [tm.next EXCEPT ![u] = tm.next[t]]
       IN  [tm EXCEPT !.next = [bypass EXCEPT ![t] = NoTimer], !.active[t] = FALSE]

galio_ktimer_cancel(tm, t) == IF tm.active[t] THEN CancelActive(tm, t) ELSE tm
galio_hrtimer_cancel(tm, t) == IF tm.active[t] THEN CancelActive(tm, t) ELSE tm

\* t, which is in no list, is linked behind the timer u, or in front of the list.
LinkBehind(tm, t, u, e) ==
  [tm EXCEPT !.head[Kind(t)] = IF u = NoTimer THEN t ELSE @,
             !.next = IF u = NoTimer THEN [@ EXCEPT ![t] = tm.head[Kind(t)]]
                      ELSE [@ EXCEPT ![t] = tm.next[u], ![u] = t],
             !.expires[t] = e,
             !.active[t] = TRUE]

\* The walk for the place of a timer that expires at e: past the head unless e is
\* before it, and then past each timer that expires earlier, or with it if ties are
\* passed too.
PlaceFor(tm, chain, e, ties) ==
  LET Passes(j) == tm.expires[chain[j]] < e \/ (ties /\ tm.expires[chain[j]] = e) IN
  IF Len(chain) = 0 \/ e < tm.expires[chain[1]] THEN NoTimer
  ELSE chain[CHOOSE k \in 1..Len(chain) :
               /\ \A j \in 2..k : Passes(j)
               /\ k = Len(chain) \/ ~Passes(k + 1)]

KPlace(tm, e) == PlaceFor(tm, Chain(tm, "ktimer"), e, FALSE)
\* A mutant of HPlace: the timer goes in front of those that expire with it.
BugHPlace(tm, e) == PlaceFor(tm, Chain(tm, "hrtimer"), e, FALSE)
HPlace(tm, e) == PlaceFor(tm, Chain(tm, "hrtimer"), e, TRUE)

InsertK(tm, t, e) == LinkBehind(tm, t, KPlace(tm, e), e)
InsertH(tm, t, e) == LinkBehind(tm, t, HPlace(tm, e), e)

\* A pending timer is removed first, then placed by its new expiry.
galio_ktimer_start(tm, t, e) == InsertK(galio_ktimer_cancel(tm, t), t, e)
galio_hrtimer_start(tm, t, e) == InsertH(galio_hrtimer_cancel(tm, t), t, e)

TimerStarted(tm, t, e) == IF t \in KTimers THEN galio_ktimer_start(tm, t, e)
                     ELSE galio_hrtimer_start(tm, t, e)
TimerCancelled(tm, t) == IF t \in KTimers THEN galio_ktimer_cancel(tm, t)
                    ELSE galio_hrtimer_cancel(tm, t)

\* The order of starts when t is pending no more, and when it is started last of those
\* pending in tm.
Without(R, t) == {p \in R : p[1] # t /\ p[2] # t}
StartedLast(R, tm, t) ==
  IF t \in KTimers THEN R
  ELSE Without(R, t) \cup ({u \in HTimers \ {t} : tm.active[u]} \X {t})

-----------------------------------------------------------------------------
(* Calls from a thread, with one of the timers in T. *)

StartTimer(T) == \E t \in T, e \in 0..(TickLimit + MaxDelay - 1) :
  /\ phase = "thread"
  /\ timers' = TimerStarted(timers, t, e)
  /\ order' = StartedLast(order, timers, t)
  /\ UNCHANGED <<ticks, phase, fired>>

CancelTimer(T) == \E t \in T :
  /\ phase = "thread"
  /\ timers' = TimerCancelled(timers, t)
  /\ order' = Without(order, t)
  /\ UNCHANGED <<ticks, phase, fired>>

-----------------------------------------------------------------------------
(* The tick. *)

\* pit_handler counts the tick and kernel_time_tick calls galio_clockevents_tick.
Tick ==
  /\ phase = "thread"
  /\ ticks' = (ticks + 1) % TickLimit
  /\ phase' = "ktimer"
  /\ fired' = {}
  /\ UNCHANGED <<timers, order>>

\* The times at which a timer function may start t: for an hrtimer not the present
\* one, as the function "is responsible for updating _softexpires" (hrtimer.c:138).
Later(t) == (ticks + (IF t \in KTimers THEN 0 ELSE 1)) .. (ticks + MaxDelay)

\* What the function of timer t does, tm being the queues without t: nothing, a
\* start or a cancel of a timer in T.  Returning GALIO_HRTIMER_RESTART is a start of t.
Callback(tm, t, T) ==
  \/ timers' = tm /\ order' = Without(order, t)
  \/ \E u \in T : \E e \in Later(u) :
       /\ timers' = TimerStarted(tm, u, e)
       /\ order' = StartedLast(Without(order, t), tm, u)
  \/ \E u \in T \ {t} :
       /\ timers' = TimerCancelled(tm, u)
       /\ order' = Without(Without(order, t), u)

KDue(e) == ticks > e

\* A mutant of HDue: a timer fires in the tick after the one it expires in.
BugHDue(e) == ticks > e
HDue(e) == ticks >= e

\* One round of the loop: the first timer, when its time has come.
galio_ktimer_run_pending(T) ==
  LET t == timers.head["ktimer"] IN
  /\ phase = "ktimer"
  /\ t # NoTimer /\ KDue(timers.expires[t])
  /\ Callback(PopHead(timers, t), t, T)
  /\ fired' = fired \cup {t}
  /\ UNCHANGED <<ticks, phase>>

galio_hrtimer_run_queues(T) ==
  LET t == timers.head["hrtimer"] IN
  /\ phase = "hrtimer"
  /\ t # NoTimer /\ HDue(timers.expires[t])
  /\ Callback(PopHead(timers, t), t, T)
  /\ fired' = fired \cup {t}
  /\ UNCHANGED <<ticks, phase>>

\* galio_clockevents_tick: the loop over one queue ends, the next one begins.
QueueDone(kind, next) ==
  LET t == timers.head[kind] IN
  /\ phase = kind
  /\ t # NoTimer => ~(IF kind = "ktimer" THEN KDue(timers.expires[t]) ELSE HDue(timers.expires[t]))
  /\ phase' = next
  /\ UNCHANGED <<ticks, timers, fired, order>>

galio_clockevents_tick == QueueDone("ktimer", "hrtimer") \/ QueueDone("hrtimer", "thread")

TimersNext(T) ==
  \/ StartTimer(T) \/ CancelTimer(T) \/ Tick
  \/ galio_ktimer_run_pending(T) \/ galio_hrtimer_run_queues(T) \/ galio_clockevents_tick

TimersSpec == TimersInit /\ [][TimersNext(Timer)]_timerVars

-----------------------------------------------------------------------------
(* Properties. *)

TimersTypeOK ==
  /\ ticks \in 0..(TickLimit - 1)
  /\ phase \in {"thread", "ktimer", "hrtimer"}
  /\ fired \subseteq Timer
  /\ timers.head \in [{"ktimer", "hrtimer"} -> Timer \cup {NoTimer}]
  /\ timers.next \in [Timer -> Timer \cup {NoTimer}]
  /\ timers.active \in [Timer -> BOOLEAN]
  /\ timers.expires \in [Timer -> 0..(TickLimit + MaxDelay)]

\* Each queue ends, holds exactly the timers marked active, and is in order of expiry,
\* through every start of a queued timer, cancel, and call made by a timer function.
QueuesSound == \A kind \in {"ktimer", "hrtimer"} :
  /\ List!Terminates(Queue(timers, kind))
  /\ List!Members(Queue(timers, kind)) = {t \in Timer : Kind(t) = kind /\ timers.active[t]}
  /\ \A t \in List!Members(Queue(timers, kind)) :
       timers.next[t] # NoTimer => timers.expires[t] <= timers.expires[timers.next[t]]

\* When the tick is through with a queue no timer in it is overdue, though it looks at
\* the first only: a jiffies timer's time is past at the next tick after its expiry, a
\* high resolution timer's at the first tick not before it.
NothingOverdue ==
  [][/\ phase = "ktimer" /\ phase' = "hrtimer" =>
          \A t \in KTimers : timers.active[t] => timers.expires[t] >= ticks
     /\ phase = "hrtimer" /\ phase' = "thread" =>
          \A t \in HTimers : timers.active[t] => timers.expires[t] > ticks]_timerVars

\* In one tick no function is called twice, though functions start their own timers
\* again (at once, in the case of jiffies timers): the loops end.
OncePerTick ==
  \A t \in fired : phase = Kind(t) /\ timers.active[t]
     => IF t \in KTimers THEN ~KDue(timers.expires[t]) ELSE ~HDue(timers.expires[t])

\* High resolution timers that expire together run in the order they were started.
FirstStartedFirst == \A p \in order :
  timers.expires[p[1]] = timers.expires[p[2]]
    => LET c == Chain(timers, "hrtimer") IN
       \E m, n \in DOMAIN c : m < n /\ c[m] = p[1] /\ c[n] = p[2]

\* The timer queues are in order, and what the tick takes from them is called once and
\* in the order it was started (ktimer.c:56-152, hrtimer.c:51-147).
TimersRight == TimersTypeOK /\ QueuesSound /\ OncePerTick /\ FirstStartedFirst
=============================================================================
