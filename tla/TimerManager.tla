--------------------------- MODULE TimerManager ---------------------------
(***************************************************************************)
(* salhelper::Timer and its TimerManager thread, salhelper/source/timer.cxx*)
(* with the lock of the application that NeoOffice takes around every      *)
(* timer handler.  The queue is the linked list of the code: m_pHead and   *)
(* one m_pNext in each timer.  One lock scope is one action, except where a*)
(* thread keeps m_Lock while it looks at the clock.                        *)
(*                                                                         *)
(* Times are the TTimeValues of the code, seconds and nanoseconds, which   *)
(* are compared field by field and are not always normalized.              *)
(*                                                                         *)
(* Salhelper asks its clients for nothing, but survives only careful ones: *)
(* clients that do not set the time of a timer in the queue, do not start a*)
(* repeating timer while its handler runs, and stop a timer that they have *)
(* started before they drop it, unless it does not repeat and has left the *)
(* queue.  CONSTANT Careful restricts the client to those.  Even they do   *)
(* not survive one race: a handler that is running when its timer is       *)
(* stopped is followed by Rearm, which starts the timer again, and when the*)
(* client then drops the timer the manager may fire it while it is being   *)
(* destroyed.  What the program does after that is not modelled.           *)
(***************************************************************************)
EXTENDS Integers, FiniteSets

CONSTANTS Timers,
          Null,      \* the null pointer, and the absence of a thread
          PerSecond, \* how many nanoseconds a second has
          TimeOuts,  \* possible m_aTimeOut; Zero is the empty one
          Period,    \* the other m_aRepeatDelta than Zero
          TimePoints,\* the absolute times that clients set
          StartTime, \* the clock when the manager is made
          MaxTime,   \* bound: the last time of the clock
          MaxCalls,  \* bound: calls the client makes
          Careful    \* whether clients keep to the discipline above

\* The normalized times, and those that a sum of two of them may be.
Instants == [Seconds : Nat, Nanosec : 0..PerSecond - 1]
TimeValues == [Seconds : Nat, Nanosec : 0..2 * PerSecond - 2]
Zero == [Seconds |-> 0, Nanosec |-> 0]

ASSUME TimerAssumption ==
    /\ Null \notin Timers /\ IsFiniteSet(Timers)
    /\ PerSecond \in Nat \ {0} /\ MaxCalls \in Nat /\ Careful \in BOOLEAN
    /\ TimeOuts \subseteq Instants /\ Period \in Instants \ {Zero}
    /\ TimePoints \subseteq Instants /\ StartTime \in Instants /\ MaxTime \in Instants

VARIABLES now,
          m_pHead, m_pNext,       \* the queue
          m_aExpired, m_aTimeOut, m_aRepeatDelta,
          m_notEmpty,
          locked,                 \* the manager is inside m_Lock
          solar,                  \* who has the application's lock
          appRunning,             \* ImplApplicationIsRunning()
          pc, deadline, firing,   \* the manager thread, and its pTimer
          refs,                   \* the reference count of each timer
          life,                   \* alive, dying (in ~Timer) or freed
          starting,               \* the timer a client's start() has looked up
          calls,                  \* calls made so far
          dropped,                \* the timers the client has released
          wanted,                 \* those it has started and not stopped since
          carried                 \* a time was stored that is not normalized

queue == <<m_pHead, m_pNext>>
times == <<m_aExpired, m_aTimeOut, m_aRepeatDelta>>
manager == <<locked, pc, deadline, firing>>
objects == <<refs, life>>
history == <<wanted, carried>>
vars == <<now, queue, times, m_notEmpty, solar, appRunning, manager, objects, starting, calls, dropped,
          history>>

\* A wait without a delay.
Never == [Seconds |-> MaxTime.Seconds + 1000, Nanosec |-> 0]

(***************************************************************************)
(* TTimeValue                                                              *)
(***************************************************************************)

\* operator<
Before(a, b) == a.Seconds < b.Seconds \/ (a.Seconds = b.Seconds /\ a.Nanosec < b.Nanosec)
\* normalize, of a sum of two normalized times
Normal(a) == IF a.Nanosec < PerSecond THEN a
             ELSE [Seconds |-> a.Seconds + 1, Nanosec |-> a.Nanosec - PerSecond]
\* The sum of the fields, and addTime, which normalizes it.
RawSum(a, b) == [Seconds |-> a.Seconds + b.Seconds, Nanosec |-> a.Nanosec + b.Nanosec]
Sum(a, b) == Normal(RawSum(a, b))

TypeOK ==
    /\ now \in Instants
    /\ m_pHead \in Timers \cup {Null}
    /\ m_pNext \in [Timers -> Timers \cup {Null}]
    /\ m_aExpired \in [Timers -> TimeValues] /\ m_aTimeOut \in [Timers -> Instants]
    /\ m_aRepeatDelta \in [Timers -> {Zero, Period}]
    /\ appRunning \in BOOLEAN
    /\ m_notEmpty \in BOOLEAN /\ locked \in BOOLEAN
    /\ solar \in {Null, "manager", "client"}
    /\ pc \in {"top", "wait", "check", "solar", "shot", "rearm", "drop", "destroy"}
    /\ deadline \in Instants /\ firing \in Timers \cup {Null}
    /\ refs \in [Timers -> 0..2] /\ life \in [Timers -> {"alive", "dying", "freed"}]
    /\ starting \in Timers \cup {Null} /\ calls \in 0..MaxCalls
    /\ dropped \subseteq Timers /\ wanted \subseteq Timers
    /\ carried \in BOOLEAN

Init ==
    /\ now = StartTime
    /\ m_pHead = Null /\ m_pNext = [t \in Timers |-> Null]
    /\ m_aExpired = [t \in Timers |-> Zero] /\ m_aTimeOut \in [Timers -> TimeOuts]
    /\ m_aRepeatDelta \in [Timers -> {Zero, Period}]
    /\ appRunning \in BOOLEAN
    /\ m_notEmpty = FALSE /\ locked = FALSE /\ solar = Null
    /\ pc = "top" /\ deadline = Zero /\ firing = Null
    /\ refs = [t \in Timers |-> 1] /\ life = [t \in Timers |-> "alive"]
    /\ starting = Null /\ calls = 0 /\ dropped = {}
    /\ wanted = {} /\ carried = FALSE

(***************************************************************************)
(* The list                                                                *)
(***************************************************************************)

\* The pointers m_pHead, m_pHead->m_pNext, ..., as far as there are timers;
\* a walk that has not come to Null by then never does.
Walk[n \in Nat] == IF n = 0 THEN m_pHead
                   ELSE IF Walk[n - 1] = Null THEN Null ELSE m_pNext[Walk[n - 1]]

Size == Cardinality(Timers)
Terminates == Walk[Size] = Null
Ticking == {Walk[n] : n \in 0..Size} \ {Null}      \* lookupTimer

\* Where registerTimer stops with the expiry times e: the first position whose
\* timer expires later than t.
Stops(t, e, n) == Walk[n] # Null => Before(e[t], e[Walk[n]])
Position(t, e) ==
    CHOOSE n \in 0..Size : Stops(t, e, n) /\ \A k \in 0..(n - 1) : ~Stops(t, e, k)

\* Link t before position n, with the stores in the order of the code.
InsertAt(t, n) ==
    LET next == [m_pNext EXCEPT ![t] = Walk[n]]
    IN IF n = 0 THEN m_pHead' = t /\ m_pNext' = next
                ELSE m_pHead' = m_pHead /\ m_pNext' = [next EXCEPT ![Walk[n - 1]] = t]

\* A slip: the thread is only told of a timer when it had none.
RegisterTellsIfEmpty(t, e) ==
    /\ {n \in 0..Size : Stops(t, e, n)} # {}
    /\ InsertAt(t, Position(t, e))
    /\ m_notEmpty' = (m_notEmpty \/ m_pHead = Null)

\* registerTimer; in a list without an end it may never come back.
RegisterTimer(t, e) ==
    /\ {n \in 0..Size : Stops(t, e, n)} # {}
    /\ InsertAt(t, Position(t, e))
    /\ m_notEmpty' = (m_notEmpty \/ m_pHead' = t)

\* unregisterTimer
UnregisterTimer(t) ==
    /\ t \in Ticking \/ Terminates
    /\ IF t \notin Ticking THEN UNCHANGED queue
       ELSE IF m_pHead = t THEN m_pHead' = m_pNext[t] /\ UNCHANGED m_pNext
       ELSE LET prev == CHOOSE p \in Ticking : m_pNext[p] = t
            IN m_pNext' = [m_pNext EXCEPT ![prev] = m_pNext[t]] /\ UNCHANGED m_pHead

(***************************************************************************)
(* TimerManager::run and checkForTimeout                                   *)
(***************************************************************************)

\* getRemainingTime, as the time when it is over: it takes the fields apart
\* with a borrow, and is empty for a time that is before the present one.
End(e) == IF Before(e, now) THEN now ELSE Normal(e)

\* The delay is read and m_notEmpty reset under one lock.
ComputeDelay ==
    /\ pc = "top"
    /\ deadline' = IF m_pHead = Null THEN Never ELSE End(m_aExpired[m_pHead])
    /\ m_notEmpty' = FALSE
    /\ pc' = "wait"
    /\ UNCHANGED <<now, queue, times, solar, appRunning, locked, firing, objects, starting, calls, dropped, history>>

\* A slip: a wait without the delay.
WaitForSignal ==
    /\ pc = "wait" /\ m_notEmpty
    /\ pc' = "check" /\ locked' = TRUE /\ deadline' = Zero
    /\ UNCHANGED <<now, queue, times, m_notEmpty, solar, appRunning, firing,
                   objects, starting, calls, dropped, history>>

\* m_notEmpty.wait, until it is set or the delay is over, which ends with it.
Wait ==
    /\ pc = "wait" /\ (m_notEmpty \/ ~Before(now, deadline))
    /\ pc' = "check" /\ locked' = TRUE /\ deadline' = Zero
    /\ UNCHANGED <<now, queue, times, m_notEmpty, solar, appRunning, firing,
                   objects, starting, calls, dropped, history>>

IsExpired(t) == ~Before(now, m_aExpired[t])

\* Slips in checkForTimeout: the timer stays in the queue; it is not acquired;
\* m_Lock is kept while the thread waits for the application's lock.
CheckVariant(unlink, acquire, keep) ==
    /\ pc = "check"
    /\ IF m_pHead # Null /\ IsExpired(m_pHead)
         THEN /\ firing' = m_pHead /\ m_pHead' = IF unlink THEN m_pNext[m_pHead] ELSE m_pHead
              /\ refs' = [refs EXCEPT ![m_pHead] = @ + IF acquire THEN 1 ELSE 0]
              /\ pc' = "solar" /\ locked' = keep
         ELSE pc' = "top" /\ locked' = FALSE /\ UNCHANGED <<m_pHead, firing, refs>>
    /\ UNCHANGED <<now, m_pNext, times, m_notEmpty, solar, appRunning, deadline, life,
                   starting, calls, dropped, history>>
CheckKeepsTimer == CheckVariant(FALSE, TRUE, FALSE)
CheckWithoutRef == CheckVariant(TRUE, FALSE, FALSE)
CheckKeepsLock == CheckVariant(TRUE, TRUE, TRUE)

\* The head of the queue is taken out when it has expired.
CheckForTimeout ==
    /\ pc = "check"
    /\ locked' = FALSE
    /\ IF m_pHead # Null /\ IsExpired(m_pHead)
         THEN /\ firing' = m_pHead /\ m_pHead' = m_pNext[m_pHead]
              /\ refs' = [refs EXCEPT ![m_pHead] = @ + 1]
              /\ pc' = "solar"
         ELSE pc' = "top" /\ UNCHANGED <<m_pHead, firing, refs>>
    /\ UNCHANGED <<now, m_pNext, times, m_notEmpty, solar, appRunning, deadline, life, starting, calls, dropped, history>>

\* The manager has acquired a timer whose destruction had begun.
Gone == firing # Null /\ pc # "destroy" /\ life[firing] # "alive"

\* Application_acquireSolarMutex; it does nothing when no application runs.
\* With a timer that is being destroyed the manager goes no further here.
AcquireSolar ==
    /\ pc = "solar" /\ ~Gone
    /\ IF appRunning THEN solar = Null /\ solar' = "manager" ELSE UNCHANGED solar
    /\ pc' = "shot"
    /\ UNCHANGED <<now, queue, times, m_notEmpty, appRunning, locked, deadline, firing,
                   objects, starting, calls, dropped, history>>

\* onShot returns; Application_releaseSolarMutex.
OnShot ==
    /\ pc = "shot"
    /\ solar' = IF solar = "manager" THEN Null ELSE solar
    /\ pc' = "rearm"
    /\ UNCHANGED <<now, queue, times, m_notEmpty, appRunning, locked, deadline, firing,
                   objects, starting, calls, dropped, history>>

\* The timer is put back if it has a period, whatever a client has done to it
\* since it was taken out, with a time that is not normalized.
Rearm ==
    /\ pc = "rearm"
    /\ IF m_aRepeatDelta[firing] # Zero
         THEN LET expired == RawSum(now, m_aRepeatDelta[firing])
              IN  /\ m_aExpired' = [m_aExpired EXCEPT ![firing] = expired]
                  /\ RegisterTimer(firing, m_aExpired')
                  /\ carried' = (carried \/ expired # Normal(expired))
         ELSE UNCHANGED <<m_aExpired, queue, m_notEmpty, carried>>
    /\ pc' = "drop"
    /\ UNCHANGED <<now, m_aTimeOut, m_aRepeatDelta, solar, appRunning, locked, deadline,
                   firing, objects, starting, calls, dropped, wanted>>

\* A slip: the manager keeps its reference.
DropNothing ==
    /\ pc = "drop" /\ pc' = "top" /\ firing' = Null
    /\ UNCHANGED <<now, queue, times, m_notEmpty, solar, appRunning, locked, deadline,
                   objects, starting, calls, dropped, history>>

\* The reference of the manager is the last one when the client has dropped its own.
Drop ==
    /\ pc = "drop"
    /\ refs' = [refs EXCEPT ![firing] = @ - 1]
    /\ IF refs[firing] = 1
         THEN life' = [life EXCEPT ![firing] = "dying"] /\ pc' = "destroy" /\ UNCHANGED firing
         ELSE UNCHANGED life /\ pc' = "top" /\ firing' = Null
    /\ UNCHANGED <<now, queue, times, m_notEmpty, solar, appRunning, locked, deadline, starting, calls, dropped, history>>

\* ~Timer in the manager's thread.
ManagerDestroy ==
    /\ pc = "destroy"
    /\ UnregisterTimer(firing)
    /\ life' = [life EXCEPT ![firing] = "freed"]
    /\ pc' = "top" /\ firing' = Null
    /\ UNCHANGED <<now, times, m_notEmpty, solar, appRunning, locked, deadline, refs, starting, calls, dropped, history>>

Manager ==
    \/ ComputeDelay \/ Wait \/ CheckForTimeout \/ AcquireSolar \/ OnShot \/ Rearm
    \/ Drop \/ ManagerDestroy

(***************************************************************************)
(* A client thread                                                         *)
(***************************************************************************)

Dying == {t \in Timers : life[t] = "dying" /\ ~(pc = "destroy" /\ firing = t)}
ClientIdle == starting = Null /\ Dying = {}
ClientHas(t) == t \notin dropped
Call == ClientIdle /\ calls < MaxCalls /\ calls' = calls + 1
AtRest(t) == t \notin Ticking /\ firing # t

\* Timer::start: isTicking is one lock scope, registerTimer another.  A timer
\* in the queue is left there.
StartLookup(t) ==
    /\ Call /\ ClientHas(t) /\ ~locked
    /\ Careful => firing # t \/ m_aRepeatDelta[t] = Zero
    /\ t \in Ticking \/ Terminates
    /\ starting' = IF t \in Ticking THEN Null ELSE t
    /\ wanted' = wanted \cup {t}
    /\ UNCHANGED <<now, queue, times, m_notEmpty, solar, appRunning, manager, objects, dropped, carried>>

StartRegister ==
    /\ starting # Null /\ ~locked
    /\ m_aExpired' = IF m_aTimeOut[starting] = Zero THEN m_aExpired
                     ELSE [m_aExpired EXCEPT ![starting] = Sum(now, m_aTimeOut[starting])]
    /\ RegisterTimer(starting, m_aExpired')
    /\ starting' = Null
    /\ UNCHANGED <<now, m_aTimeOut, m_aRepeatDelta, solar, appRunning, manager, objects, calls, dropped, history>>

Stop(t) ==
    /\ Call /\ ClientHas(t) /\ ~locked
    /\ UnregisterTimer(t)
    /\ wanted' = wanted \ {t}
    /\ UNCHANGED <<now, times, m_notEmpty, solar, appRunning, manager, objects, starting, dropped, carried>>

\* setRemainingTime; it looks at no lock and no queue, as those below.
SetRemainingTime(t) ==
    /\ Call /\ ClientHas(t) /\ (Careful => AtRest(t))
    /\ \E d \in TimeOuts, r \in {Zero, Period} :
          /\ m_aExpired' = [m_aExpired EXCEPT ![t] = Sum(now, d)]
          /\ m_aRepeatDelta' = [m_aRepeatDelta EXCEPT ![t] = r]
    /\ UNCHANGED <<now, queue, m_aTimeOut, m_notEmpty, solar, appRunning, manager,
                   objects, starting, dropped, history>>

\* addTime
AddTime(t) ==
    /\ Call /\ ClientHas(t) /\ (Careful => AtRest(t))
    /\ \E d \in TimeOuts \ {Zero} : m_aExpired' = [m_aExpired EXCEPT ![t] = Sum(Normal(@), d)]
    /\ UNCHANGED <<now, queue, m_aTimeOut, m_aRepeatDelta, m_notEmpty, solar, appRunning, manager,
                   objects, starting, dropped, history>>

\* setAbsoluteTime
SetAbsoluteTime(t) ==
    /\ Call /\ ClientHas(t) /\ (Careful => AtRest(t))
    /\ \E time \in TimePoints : m_aExpired' = [m_aExpired EXCEPT ![t] = time]
    /\ m_aTimeOut' = [m_aTimeOut EXCEPT ![t] = Zero]
    /\ m_aRepeatDelta' = [m_aRepeatDelta EXCEPT ![t] = Zero]
    /\ UNCHANGED <<now, queue, m_notEmpty, solar, appRunning, manager, objects, starting, dropped, history>>

\* The client drops its reference; the last one runs ~Timer.
ClientRelease(t) ==
    /\ Call /\ ClientHas(t)
    /\ Careful /\ t \in wanted => t \notin Ticking /\ m_aRepeatDelta[t] = Zero
    /\ dropped' = dropped \cup {t}
    /\ refs' = [refs EXCEPT ![t] = @ - 1]
    /\ life' = IF refs[t] = 1 THEN [life EXCEPT ![t] = "dying"] ELSE life
    /\ UNCHANGED <<now, queue, times, m_notEmpty, solar, appRunning, manager, starting, history>>

ClientDestroy(t) ==
    /\ t \in Dying /\ ~locked
    /\ UnregisterTimer(t)
    /\ life' = [life EXCEPT ![t] = "freed"]
    /\ UNCHANGED <<now, times, m_notEmpty, solar, appRunning, manager, refs, starting, calls, dropped, history>>

\* The client's code runs with the application's lock or without it.
TakeSolar ==
    /\ Call /\ solar = Null /\ solar' = "client"
    /\ UNCHANGED <<now, queue, times, m_notEmpty, appRunning, manager, objects, starting, dropped, history>>

DropSolar ==
    /\ ClientIdle /\ solar = "client" /\ solar' = Null
    /\ UNCHANGED <<now, queue, times, m_notEmpty, appRunning, manager, objects, starting, calls, dropped, history>>

InCall == StartRegister \/ (\E t \in Timers : ClientDestroy(t)) \/ DropSolar

Client ==
    \/ InCall \/ TakeSolar
    \/ \E t \in Timers : \/ StartLookup(t) \/ Stop(t) \/ SetRemainingTime(t)
                         \/ AddTime(t) \/ SetAbsoluteTime(t) \/ ClientRelease(t)

Tick == /\ Before(now, MaxTime) /\ now' = Sum(now, [Seconds |-> 0, Nanosec |-> 1])
        /\ UNCHANGED <<queue, times, m_notEmpty, solar, appRunning, manager, objects, starting, calls, dropped,
                       history>>

Next == Manager \/ Client \/ Tick

Spec == Init /\ [][Next]_vars

\* The manager thread runs, time passes, and a client that is inside a call or
\* has the application's lock goes on; nothing makes a client call.  The bound
\* on its calls stands for a client that does not keep the lock busy for ever.
Fairness == WF_vars(Manager) /\ WF_vars(InCall) /\ WF_vars(Tick)
FairSpec == Spec /\ Fairness

(***************************************************************************)
(* Properties                                                              *)
(***************************************************************************)

\* "sorted-queue data": m_pHead is the timer that expires first, as
\* expiresBefore compares.  And the list ends: no timer was linked into it
\* twice, which would make every later walk of it an endless loop inside m_Lock.
SortedQueue ==
    /\ Terminates
    /\ \A n \in 0..(Size - 1) :
         Walk[n] # Null /\ Walk[n + 1] # Null
             => ~Before(m_aExpired[Walk[n + 1]], m_aExpired[Walk[n]])

\* The manager sleeps past no timer of the queue: between the computation of the
\* delay and the wait no registration gets lost, and order and delay agree.
\* Only when Rearm has stored a time that is not normalized may the manager
\* sleep past a timer, and then it wakes up in the second the timer is due.
NeverOversleeps ==
    pc = "wait" /\ ~m_notEmpty /\ Before(now, deadline) =>
        \A t \in Ticking : LET due == Normal(m_aExpired[t])
                           IN  Before(due, deadline) => carried /\ due.Seconds = deadline.Seconds

\* The manager acquires and fires no timer that is being destroyed, but for a
\* repeating one that its client had stopped, and that the manager has put back
\* nevertheless, before the client dropped it; and the queue has none that is gone.
NoUseAfterFree ==
    /\ Gone => firing \in dropped \ wanted /\ m_aRepeatDelta[firing] # Zero
    /\ \A t \in Ticking : life[t] # "freed"

\* A timer that has expired leaves the queue: its handler runs or it is stopped.
DueTimersLeave ==
    \A t \in Timers : (t \in Ticking /\ IsExpired(t)) ~> (t \notin Ticking \/ ~IsExpired(t) \/ Gone)

\* start and ~Timer come back even when the client has the application's lock
\* and the manager wants it for a handler.
ClientCallsReturn == ~ClientIdle ~> (ClientIdle \/ Gone)
=============================================================================
