---------------------------- MODULE Event_proof -----------------------------
(***************************************************************************)
(* The event's safety properties, proved for any number of waiters and of  *)
(* calls of set().                                                         *)
(***************************************************************************)
EXTENDS Event, TLAPS

USE EventAssumption

(* The deadline of a wait is exactly timeout milliseconds away and its     *)
(* nanoseconds are in range, so pthread_cond_timedwait() never answers     *)
(* EINVAL: one carry suffices.                                             *)
THEOREM WaitTimeExact ==
  ASSUME NEW now \in [sec : Nat, usec : Nat], now.usec < 1000000, NEW timeout \in Nat
  PROVE  LET d == WaitTime(now, timeout)
         IN  /\ 0 <= d.nsec /\ d.nsec < Second
             /\ d.sec * Second + d.nsec = now.sec * Second + now.usec * 1000 + timeout * 1000000
<1> DEFINE s == timeout \div 1000
           ms == timeout % 1000
           nsec == ms * 1000000 + now.usec * 1000
<1>1. s \in Nat /\ ms \in Nat /\ ms < 1000 /\ timeout = 1000 * s + ms
  BY SMT
<1>2. nsec \in Nat /\ nsec < 2 * Second
  BY <1>1, SMT DEF Second
<1>3. CASE nsec >= Second
  BY <1>1, <1>2, <1>3, SMT DEF Second, WaitTime
<1>4. CASE nsec < Second
  BY <1>1, <1>2, <1>4, SMT DEF Second, WaitTime
<1> QED
  BY <1>2, <1>3, <1>4, SMT DEF Second

(* wait() never has its deadline refused: it sleeps. *)
LEMMA Sleeps ==
  ASSUME NEW w \in Waiters, WaitSleep(w)
  PROVE  Moves(w, "out", "asleep") /\ ~is_signalled /\ UNCHANGED <<is_signalled, ans, sets, clears>>
<1>1. ASSUME NEW usec \in Clocks, NEW timeout \in Timeouts
      PROVE  WaitTime([sec |-> 0, usec |-> usec], timeout).nsec < Second
  <2>1. usec \in Nat /\ usec < 1000000 /\ timeout \in Nat
    BY ClockAssumption, SMT
  <2>2. ASSUME NEW now \in [sec : Nat, usec : Nat], now.usec < 1000000
        PROVE  WaitTime(now, timeout).nsec < Second
    BY <2>1, <2>2, WaitTimeExact, SMT
  <2> QED
    BY <2>1, <2>2, SMT
<1> QED
  BY <1>1 DEF WaitSleep

(* Steps may be counted because each raises or lowers the flag.            *)
Counted == TypeOK /\ EachSetTakenOnce /\ NoWaitFails

LEMMA CountedStep ==
  ASSUME Counted, [Next]_vars
  PROVE  Counted'
<1> USE DEF Counted, TypeOK, EachSetTakenOnce, NoWaitFails, Moves, Asleep
<1>1. CASE Set
  BY <1>1 DEF Set
<1>2. CASE Unset
  BY <1>2 DEF Unset
<1>3. ASSUME NEW w \in Waiters, WaitNow(w) PROVE Counted'
  BY <1>3 DEF WaitNow, TakeSignal
<1>4. ASSUME NEW w \in Waiters, WaitSleep(w) PROVE Counted'
  BY <1>4, Sleeps
<1>5. ASSUME NEW w \in Waiters, WakeSpuriously(w) PROVE Counted'
  BY <1>5 DEF WakeSpuriously
<1>6. ASSUME NEW w \in Waiters, Expire(w) PROVE Counted'
  BY <1>6 DEF Expire
<1>7. ASSUME NEW w \in Waiters, ReturnTimeout(w) PROVE Counted'
  BY <1>7 DEF ReturnTimeout
<1>8. ASSUME NEW w \in Waiters, Resume(w) PROVE Counted'
  <2>1. CASE is_signalled
    BY <1>8, <2>1 DEF Resume, TakeSignal
  <2>2. CASE ~is_signalled
    BY <1>8, <2>2 DEF Resume
  <2> QED
    BY <2>1, <2>2
<1>9. CASE UNCHANGED vars
  BY <1>9 DEF vars
<1> QED
  BY <1>1, <1>2, <1>3, <1>4, <1>5, <1>6, <1>7, <1>8, <1>9 DEF Next, Stopped

(* The types hold, and every set() that raises the flag lets exactly one   *)
(* wait() answer EVENT_OK, is undone by a set(false), or is still there;   *)
(* no wait() fails.                                                        *)
THEOREM SetsAreTakenOnce == Spec => [](TypeOK /\ EachSetTakenOnce /\ NoWaitFails)
<1>1. ASSUME Init PROVE Counted
  <2>1. state \in [Waiters -> {"out", "asleep", "woken", "expired", "aborted"}]
    BY <1>1 DEF Init
  <2>2. ans \in [Waiters -> {"none", "EVENT_OK", "EVENT_TIMEOUT", "EVENT_FAILED"}]
    BY <1>1 DEF Init
  <2>3. is_signalled = FALSE /\ sets = 0 /\ clears = 0
    BY <1>1 DEF Init
  <2>4. MaxSets \in Nat
    BY DEF EventAssumption
  <2>5. sets \in 0 .. MaxSets /\ clears \in 0 .. MaxSets
    BY <2>3, <2>4
  <2>6. TypeOK
    BY <2>1, <2>2, <2>3, <2>5 DEF TypeOK
  <2>7. NoWaitFails
    BY <1>1 DEF Init, NoWaitFails
  <2> QED
    BY <2>3, <2>6, <2>7 DEF Counted, EachSetTakenOnce, NoWaitFails
<1>2. Counted /\ [Next]_vars => Counted'
  BY CountedStep
<1> QED
  BY <1>1, <1>2, PTL DEF Spec, Counted

LEMMA StrandedStep ==
  ASSUME AutoReset, TypeOK, NoStrandedWaiter, [Next]_vars
  PROVE  NoStrandedWaiter'
<1> USE DEF TypeOK, NoStrandedWaiter, Asleep, Moves
<1>1. CASE Set
  BY <1>1 DEF Set
<1>2. CASE Unset
  BY <1>2 DEF Unset
<1>3. ASSUME NEW w \in Waiters, WaitNow(w) PROVE NoStrandedWaiter'
  BY <1>3 DEF WaitNow, TakeSignal
<1>4. ASSUME NEW w \in Waiters, WaitSleep(w) PROVE NoStrandedWaiter'
  BY <1>4, Sleeps
<1>5. ASSUME NEW w \in Waiters, WakeSpuriously(w) PROVE NoStrandedWaiter'
  BY <1>5 DEF WakeSpuriously
<1>6. ASSUME NEW w \in Waiters, Expire(w) PROVE NoStrandedWaiter'
  BY <1>6 DEF Expire
<1>7. ASSUME NEW w \in Waiters, ReturnTimeout(w) PROVE NoStrandedWaiter'
  BY <1>7 DEF ReturnTimeout
<1>8. ASSUME NEW w \in Waiters, Resume(w) PROVE NoStrandedWaiter'
  BY <1>8 DEF Resume, TakeSignal
<1>9. CASE UNCHANGED vars
  BY <1>9 DEF vars
<1> QED
  BY <1>1, <1>2, <1>3, <1>4, <1>5, <1>6, <1>7, <1>8, <1>9 DEF Next, Stopped

(* Waking one sleeper is enough for an event that resets itself (the only  *)
(* kind the driver makes): nobody sleeps on beside a raised flag.          *)
THEOREM NobodyIsStranded == ASSUME AutoReset PROVE Spec => []NoStrandedWaiter
<1>1. Init => NoStrandedWaiter
  BY DEF Init, NoStrandedWaiter
<1>2. TypeOK /\ NoStrandedWaiter /\ [Next]_vars => NoStrandedWaiter'
  BY StrandedStep
<1> QED
  BY <1>1, <1>2, SetsAreTakenOnce, PTL DEF Spec

(* The assertion in wait() holds as long as one thread waits, nobody calls *)
(* set(false) and no wake-up is spurious: what main() of ttlidar_node      *)
(* relies on.                                                              *)
THEOREM AssertionHolds ==
  ASSUME ~Spurious, ~Resets, \A v, w \in Waiters : v = w
  PROVE  Spec => []AssertHolds
<1> DEFINE Woken == AssertHolds /\ \A w \in Waiters : state[w] = "woken" => is_signalled
<1>1. Init => Woken
  BY DEF Init, AssertHolds, Running
<1>2. ASSUME TypeOK, Woken, [Next]_vars PROVE Woken'
  <2> USE DEF TypeOK, AssertHolds, Running, Moves, Asleep
  <2>1. CASE Set
    BY <1>2, <2>1 DEF Set
  <2>2. CASE Unset
    BY <1>2, <2>2 DEF Unset
  <2>3. ASSUME NEW w \in Waiters,
               WaitNow(w) \/ WakeSpuriously(w) \/ Expire(w) \/ ReturnTimeout(w)
        PROVE  Woken'
    BY <1>2, <2>3 DEF WaitNow, TakeSignal, WakeSpuriously, Expire, ReturnTimeout
  <2>4. ASSUME NEW w \in Waiters, Resume(w) PROVE Woken'
    BY <1>2, <2>4 DEF Resume, TakeSignal
  <2>5. ASSUME NEW w \in Waiters, WaitSleep(w) PROVE Woken'
    BY <1>2, <2>5, Sleeps
  <2>6. CASE UNCHANGED vars
    BY <1>2, <2>6 DEF vars
  <2> QED
    BY <1>2, <2>1, <2>2, <2>3, <2>4, <2>5, <2>6 DEF Next, Stopped
<1> QED
  BY <1>1, <1>2, SetsAreTakenOnce, PTL DEF Spec

LEMMA SimpleInit == Init => Simple!EInit
BY DEF Init, Simple!EInit

LEMMA SimpleStep ==
  ASSUME AutoReset, TypeOK, [Next]_vars
  PROVE  [Simple!ENext]_(Simple!evars)
<1> USE DEF TypeOK, Moves
<1> DEFINE waiting == {w \in Waiters : state[w] # "out"}
<1>1. CASE Set
  <2>1. waiting' = waiting
    BY <1>1 DEF Set, Asleep
  <2> QED
    BY <1>1, <2>1 DEF Set, Simple!ENext, Simple!EventSet
<1>2. CASE Unset
  BY <1>2 DEF Unset, Simple!ENext, Simple!EventReset
<1>3. ASSUME NEW w \in Waiters, WaitNow(w) PROVE Simple!Take(w)
  <2>1. waiting' = waiting \ {w}
    BY <1>3 DEF WaitNow
  <2> QED
    BY <1>3, <2>1 DEF WaitNow, TakeSignal, Simple!Take
<1>4. ASSUME NEW w \in Waiters, WaitSleep(w) PROVE Simple!Block(w)
  <2>1. waiting' = waiting \cup {w}
    BY <1>4, Sleeps
  <2> QED
    BY <1>4, <2>1, Sleeps DEF Simple!Block
<1>5. ASSUME NEW w \in Waiters, WakeSpuriously(w) \/ Expire(w) PROVE UNCHANGED Simple!evars
  <2>1. waiting' = waiting
    BY <1>5 DEF WakeSpuriously, Expire
  <2> QED
    BY <1>5, <2>1 DEF WakeSpuriously, Expire, Simple!evars
<1>6. ASSUME NEW w \in Waiters, ReturnTimeout(w) PROVE Simple!Expire(w)
  <2>1. waiting' = waiting \ {w} /\ w \in waiting
    BY <1>6 DEF ReturnTimeout
  <2> QED
    BY <1>6, <2>1 DEF ReturnTimeout, Simple!Expire
<1>7. ASSUME NEW w \in Waiters, Resume(w) PROVE Simple!Take(w) \/ UNCHANGED Simple!evars
  <2>1. CASE is_signalled
    <3>1. waiting' = waiting \ {w}
      BY <1>7, <2>1 DEF Resume
    <3> QED
      BY <1>7, <2>1, <3>1 DEF Resume, TakeSignal, Simple!Take
  <2>2. CASE ~is_signalled
    <3>1. waiting' = waiting
      BY <1>7, <2>2 DEF Resume
    <3> QED
      BY <1>7, <2>2, <3>1 DEF Resume, Simple!evars
  <2> QED
    BY <2>1, <2>2
<1>8. CASE UNCHANGED vars
  BY <1>8 DEF vars, Simple!evars
<1> QED
  BY <1>1, <1>2, <1>3, <1>4, <1>5, <1>6, <1>7, <1>8
     DEF Next, Stopped, Simple!ENext

(* The flag, the mutex and the condition variable implement the one-step   *)
(* event that TTlidarDriver is modelled with.                              *)
THEOREM ImplementsEvent == ASSUME AutoReset PROVE Spec => IsAutoResetEvent
<1>1. TypeOK /\ [Next]_vars => [Simple!ENext]_(Simple!evars)
  BY SimpleStep
<1> QED
  BY <1>1, SimpleInit, SetsAreTakenOnce, PTL DEF Spec, IsAutoResetEvent, Simple!ESpec

=============================================================================
