--------------------------- MODULE AutoResetEvent ---------------------------
(***************************************************************************)
(* What class Event promises: set() leaves a mark, and each mark lets one  *)
(* wait() answer EVENT_OK.  TTlidarDriver uses the event in this form      *)
(* (EventBlock, EventTake, EventTimeout, PublishSignal).                   *)
(***************************************************************************)
CONSTANT Waiters

VARIABLES
  mark,      (* a set() nobody has taken yet                  *)
  waiting,   (* the waiters inside wait()                     *)
  answer     (* what each waiter's latest wait() answered     *)

evars == <<mark, waiting, answer>>

EInit == mark = FALSE /\ waiting = {} /\ answer = [w \in Waiters |-> "none"]

EventSet == mark' = TRUE /\ UNCHANGED <<waiting, answer>>

EventReset == mark' = FALSE /\ UNCHANGED <<waiting, answer>>

Block(w) == ~mark /\ waiting' = waiting \cup {w} /\ UNCHANGED <<mark, answer>>

(* wait() takes the mark, whether it had to block or not. *)
Take(w) ==
  /\ mark /\ mark' = FALSE
  /\ waiting' = waiting \ {w}
  /\ answer' = [answer EXCEPT ![w] = "EVENT_OK"]

Expire(w) ==
  /\ w \in waiting
  /\ waiting' = waiting \ {w}
  /\ answer' = [answer EXCEPT ![w] = "EVENT_TIMEOUT"]
  /\ UNCHANGED mark

ENext == EventSet \/ EventReset \/ \E w \in Waiters : Block(w) \/ Take(w) \/ Expire(w)

ESpec == EInit /\ [][ENext]_evars

=============================================================================
