------------------------------- MODULE Event --------------------------------
(***************************************************************************)
(* Class Event on POSIX: a flag _is_signalled guarded by the mutex         *)
(* _cond_locker, and the condition variable _cond_var.  What happens while *)
(* the mutex is held is one step; a waiter gives the mutex up in           *)
(* pthread_cond_timedwait(), and between its wake-up and the moment it     *)
(* holds the mutex again other threads go on.                              *)
(***************************************************************************)
EXTENDS Integers

CONSTANTS
  Waiters,     (* The threads that call wait().                            *)
  AutoReset,   (* _isAutoReset                                             *)
  Resets,      (* Somebody calls set(false); the driver never does.        *)
  Spurious,    (* pthread_cond_timedwait() may return 0 without a signal,  *)
               (* which POSIX allows.                                      *)
  MaxSets,     (* Bound: calls of set() that find the event not signalled. *)
  Clocks,      (* Bound: the microseconds gettimeofday() may answer.       *)
  Timeouts     (* Bound: the milliseconds wait() may be asked for.         *)

ASSUME EventAssumption ==
  /\ AutoReset \in BOOLEAN /\ Resets \in BOOLEAN /\ Spurious \in BOOLEAN
  /\ MaxSets \in Nat

ASSUME ClockAssumption ==
  /\ \A usec \in Clocks : usec \in Nat /\ usec < 1000000
  /\ Timeouts \subseteq Nat

VARIABLES
  is_signalled,  (* _is_signalled                                          *)
  state,         (* where each waiter is                                   *)
  ans,           (* what each waiter's latest wait() answered              *)
  sets,          (* history: calls of set() that changed the flag          *)
  clears         (* history: how often the flag went down                  *)

vars == <<is_signalled, state, ans, sets, clears>>

Init ==
  /\ is_signalled = FALSE
  /\ state = [w \in Waiters |-> "out"]
  /\ ans = [w \in Waiters |-> "none"]
  /\ sets = 0 /\ clears = 0

(* An assertion that fails ends the process. *)
Running == \A w \in Waiters : state[w] # "aborted"

Asleep == {w \in Waiters : state[w] = "asleep"}

Moves(w, from, to) ==
  /\ Running
  /\ state[w] = from
  /\ state' = [state EXCEPT ![w] = to]

(* Fault: set() raises the flag and wakes nobody. *)
SetSilently ==
  /\ Running
  /\ ~is_signalled
  /\ sets < MaxSets
  /\ sets' = sets + 1
  /\ is_signalled' = TRUE
  /\ UNCHANGED <<state, ans, clears>>

(* set(): a flag that is down is raised, and one sleeper, if there is any, *)
(* is woken.  A flag that is up stays up and nobody is woken.              *)
Set ==
  /\ Running
  /\ ~is_signalled
  /\ sets < MaxSets
  /\ sets' = sets + 1
  /\ is_signalled' = TRUE
  /\ \/ Asleep = {} /\ UNCHANGED state
     \/ \E w \in Asleep : state' = [state EXCEPT ![w] = "woken"]
  /\ UNCHANGED <<ans, clears>>

(* set(false): only a flag that is up changes. *)
Unset ==
  /\ Resets /\ Running
  /\ is_signalled
  /\ is_signalled' = FALSE
  /\ clears' = clears + 1
  /\ UNCHANGED <<state, ans, sets>>

(* The end of a wait that was signalled. *)
TakeSignal(w) ==
  /\ ans' = [ans EXCEPT ![w] = "EVENT_OK"]
  /\ \/ AutoReset /\ is_signalled' = FALSE /\ clears' = clears + 1
     \/ ~AutoReset /\ UNCHANGED <<is_signalled, clears>>
  /\ UNCHANGED sets

(* wait() finds the flag up. *)
WaitNow(w) ==
  /\ Moves(w, "out", "out")
  /\ is_signalled
  /\ TakeSignal(w)

Second == 1000000000

(* Fault: the nanoseconds are not carried into the seconds. *)
WaitTimeNoCarry(now, timeout) ==
  [sec |-> timeout \div 1000 + now.sec,
   nsec |-> (timeout % 1000) * 1000000 + now.usec * 1000]

(* The absolute time at which wait(timeout) gives up: milliseconds added   *)
(* to seconds and microseconds, as seconds and nanoseconds.                *)
WaitTime(now, timeout) ==
  LET nsec == (timeout % 1000) * 1000000 + now.usec * 1000
      sec == timeout \div 1000 + now.sec
  IN  IF nsec >= Second
        THEN [sec |-> sec + 1, nsec |-> nsec - Second]
        ELSE [sec |-> sec, nsec |-> nsec]

(* wait() finds the flag down and sleeps.  pthread_cond_timedwait() takes  *)
(* no deadline whose nanoseconds reach a second: it answers EINVAL at once *)
(* and wait() EVENT_FAILED.                                                *)
WaitSleep(w) ==
  /\ ~is_signalled
  /\ \E usec \in Clocks, timeout \in Timeouts :
       IF WaitTime([sec |-> 0, usec |-> usec], timeout).nsec < Second
         THEN Moves(w, "out", "asleep") /\ UNCHANGED ans
         ELSE Moves(w, "out", "out") /\ ans' = [ans EXCEPT ![w] = "EVENT_FAILED"]
  /\ UNCHANGED <<is_signalled, sets, clears>>

WakeSpuriously(w) ==
  /\ Spurious
  /\ Moves(w, "asleep", "woken")
  /\ UNCHANGED <<is_signalled, ans, sets, clears>>

(* The deadline passes: a later signal goes to somebody else. *)
Expire(w) ==
  /\ Moves(w, "asleep", "expired")
  /\ UNCHANGED <<is_signalled, ans, sets, clears>>

(* Fault: a wait that times out clears a signal that came late. *)
ExpiredTakesSignal(w) ==
  /\ Moves(w, "expired", "out")
  /\ ans' = [ans EXCEPT ![w] = "EVENT_TIMEOUT"]
  /\ is_signalled' = FALSE
  /\ UNCHANGED <<sets, clears>>

(* Fault: a wait that times out goes on as if it was signalled. *)
ExpiredFallsThrough(w) ==
  /\ Moves(w, "expired", "out")
  /\ TakeSignal(w)

(* The waiter whose deadline passed holds the mutex again and returns.     *)
ReturnTimeout(w) ==
  /\ Moves(w, "expired", "out")
  /\ ans' = [ans EXCEPT ![w] = "EVENT_TIMEOUT"]
  /\ UNCHANGED <<is_signalled, sets, clears>>

(* Fault: a woken waiter leaves the flag up. *)
ResumeKeepsSignal(w) ==
  /\ \/ is_signalled /\ Moves(w, "woken", "out") /\ ans' = [ans EXCEPT ![w] = "EVENT_OK"]
     \/ ~is_signalled /\ Moves(w, "woken", "aborted") /\ UNCHANGED ans
  /\ UNCHANGED <<is_signalled, sets, clears>>

(* A woken waiter holds the mutex again: assert(_is_signalled), and the    *)
(* flag is taken.                                                          *)
Resume(w) ==
  \/ /\ is_signalled
     /\ Moves(w, "woken", "out")
     /\ TakeSignal(w)
  \/ /\ ~is_signalled
     /\ Moves(w, "woken", "aborted")
     /\ UNCHANGED <<is_signalled, ans, sets, clears>>

(* The process has ended. *)
Stopped == ~Running /\ UNCHANGED vars

Next ==
  \/ Set \/ Unset
  \/ \E w \in Waiters :
       WaitNow(w) \/ WaitSleep(w) \/ WakeSpuriously(w) \/ Expire(w) \/ ReturnTimeout(w) \/ Resume(w)
  \/ Stopped

Spec == Init /\ [][Next]_vars

(* A waiter that may have the mutex gets it in the end. *)
Fairness == \A w \in Waiters : WF_vars(Resume(w) \/ ReturnTimeout(w))

FairSpec == Spec /\ Fairness

-----------------------------------------------------------------------------
TypeOK ==
  /\ is_signalled \in BOOLEAN
  /\ state \in [Waiters -> {"out", "asleep", "woken", "expired", "aborted"}]
  /\ ans \in [Waiters -> {"none", "EVENT_OK", "EVENT_TIMEOUT", "EVENT_FAILED"}]
  /\ sets \in 0 .. MaxSets
  /\ clears \in 0 .. MaxSets

(* No set() is lost and none counts twice: each lets exactly one wait()    *)
(* answer EVENT_OK (or is undone by a set(false)) or is still there for    *)
(* the next, although a wait may time out just when the signal comes.      *)
EachSetTakenOnce ==
  /\ is_signalled => sets = clears + 1
  /\ ~is_signalled => sets = clears

(* Whatever the time of day and the timeout, the deadline is one the       *)
(* system takes: no wait() ends in EVENT_FAILED without having waited.     *)
NoWaitFails == \A w \in Waiters : ans[w] # "EVENT_FAILED"

(* Nobody sleeps beside a raised flag unless another waiter was woken that *)
(* will take it: one pthread_cond_signal() is enough.                      *)
NoStrandedWaiter ==
  is_signalled /\ Asleep # {} => \E w \in Waiters : state[w] = "woken"

(* A raised flag that somebody sleeps for is taken. *)
SignalIsTaken == is_signalled /\ Asleep # {} ~> ~is_signalled

(* To its callers this is an auto-reset event; a waiter that was woken and *)
(* not yet resumed still waits, and the assertion only ever stops it.      *)
Simple == INSTANCE AutoResetEvent
  WITH mark <- is_signalled, answer <- ans, waiting <- {w \in Waiters : state[w] # "out"}

IsAutoResetEvent == Simple!ESpec

(* Where pthread_cond_timedwait() answers 0 the event is signalled. The    *)
(* code does not keep this when the wake-up is spurious, or when another   *)
(* thread's wait() took the signal first.                                  *)
AssertHolds == Running

=============================================================================
