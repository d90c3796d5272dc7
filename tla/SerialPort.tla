----------------------------- MODULE SerialPort -----------------------------
(***************************************************************************)
(* Class raw_serial: the descriptors it holds, the bytes the kernel has    *)
(* queued for it, and waitfordata(), in which a thread waits for a number  *)
(* of bytes, for its time to pass or for cancelOperation(), which writes   *)
(* to a pipe that the waiter selects on too.                               *)
(*                                                                         *)
(* The driver opens, flushes and closes the port while nobody reads it     *)
(* (PortTurnsOverUnread of TTlidarDriver_proof). The bytes are left out.   *)
(***************************************************************************)
EXTENDS Integers

CONSTANTS
  Readers,     (* The threads that wait for bytes and read them: the scan  *)
               (* thread, and whoever calls setMotorRpm() during a scan.   *)
  Wants,       (* What they wait for: data_count.                          *)
  MaxQueue,    (* Bound: bytes in the queue.                               *)
  MaxCancels   (* Bound: unread bytes in the pipe.                         *)

ASSUME PortAssumption ==
  /\ Wants \subseteq 1 .. MaxQueue
  /\ MaxQueue \in Nat /\ MaxCancels \in Nat

VARIABLES
  serial_fd,    (* serial_fd, or -1                                        *)
  selfpipe,     (* _selfpipe: its read and its write end                   *)
  is_opened,    (* _is_serial_opened                                       *)
  open_fds,     (* the descriptors the process has open for the port       *)
  queue,        (* bytes received and not read                             *)
  pipe,         (* bytes in the pipe                                       *)
  state,        (* where each reader is                                    *)
  want,         (* data_count                                              *)
  input_set,    (* input_set of the reader's waitfordata()                 *)
  size,         (* *returned_size, once the answer is OK: nobody looks at  *)
                (* it otherwise                                            *)
  answer,       (* what its latest waitfordata() answered                  *)
  taken         (* history: how many of the bytes that were announced to a *)
                (* reader the others took before it, *returned_size at the *)
                (* most                                                    *)

descriptors == <<serial_fd, selfpipe, is_opened, open_fds>>
readers == <<state, want, input_set, size, answer, taken>>
vars == <<descriptors, queue, pipe, readers>>

None == -1
NoPipe == [rd |-> None, wr |-> None]

(* One more than the port needs. *)
Fds == 0 .. 3

(* open() and pipe() return the lowest descriptors that are free. *)
Lowest(used) == CHOOSE f \in Fds \ used : \A g \in Fds \ used : f <= g

Held == {serial_fd, selfpipe.rd, selfpipe.wr} \ {None}

Idle == \A r \in Readers : state[r] = "idle"

Init ==
  /\ serial_fd = None /\ selfpipe = NoPipe /\ is_opened = FALSE
  /\ open_fds = {}
  /\ queue = 0 /\ pipe = 0
  /\ state = [r \in Readers |-> "idle"]
  /\ want = [r \in Readers |-> 0]
  /\ input_set = [r \in Readers |-> {}]
  /\ size = [r \in Readers |-> 0]
  /\ answer = [r \in Readers |-> "none"]
  /\ taken = [r \in Readers |-> 0]

-----------------------------------------------------------------------------
(* The kernel empties the queue and the pipe with the last descriptor. *)
Closed ==
  /\ serial_fd' = None /\ selfpipe' = NoPipe /\ is_opened' = FALSE
  /\ open_fds' = open_fds \ Held
  /\ queue' = 0 /\ pipe' = 0

(* The port opens; the pipe may fail, which open() does not tell. *)
Opened(kept) ==
  LET fd == Lowest(kept)
      rd == Lowest(kept \cup {fd})
      wr == Lowest(kept \cup {fd, rd})
  IN  /\ serial_fd' = fd /\ is_opened' = TRUE
      /\ \/ selfpipe' = NoPipe /\ open_fds' = kept \cup {fd}
         \/ selfpipe' = [rd |-> rd, wr |-> wr] /\ open_fds' = kept \cup {fd, rd, wr}
      /\ queue' = 0 /\ pipe' = 0

(* Fault: a port that is open already is opened over. *)
OpenOver ==
  /\ Idle
  /\ Opened(open_fds)
  /\ UNCHANGED readers

(* open(): a port that is open is closed first. The device cannot be       *)
(* opened, or cannot be made non-blocking and is closed again, or opens.   *)
Open ==
  /\ Idle
  /\ Closed \/ Opened(IF is_opened THEN open_fds \ Held ELSE open_fds)
  /\ UNCHANGED readers

(* Fault: the port is closed under a thread that waits. *)
CloseAtOnce ==
  /\ Closed
  /\ UNCHANGED readers

Close ==
  /\ Idle
  /\ Closed
  /\ UNCHANGED readers

(* Fault: the queue is discarded while a thread is about to read. *)
FlushAtOnce ==
  /\ queue' = 0
  /\ UNCHANGED <<descriptors, pipe, readers>>

Flush ==
  /\ Idle
  /\ queue' = 0
  /\ UNCHANGED <<descriptors, pipe, readers>>

(* A byte arrives from the device. *)
Arrive ==
  /\ is_opened
  /\ queue < MaxQueue
  /\ queue' = queue + 1
  /\ UNCHANGED <<descriptors, pipe, readers>>

(* cancelOperation() writes to the pipe, if there is one. *)
CancelOperation ==
  /\ selfpipe.wr # None /\ pipe < MaxCancels
  /\ pipe' = pipe + 1
  /\ UNCHANGED <<descriptors, queue, readers>>

-----------------------------------------------------------------------------
(* waitfordata() of reader r.                                              *)

Answer(r, ans) ==
  /\ state' = [state EXCEPT ![r] = IF ans = "OK" THEN "read" ELSE "idle"]
  /\ answer' = [answer EXCEPT ![r] = ans]
  /\ size' = [size EXCEPT ![r] = IF ans = "OK" THEN queue ELSE 0]
  /\ input_set' = [input_set EXCEPT ![r] = {}]
  /\ UNCHANGED taken

(* Fault: exactly as many bytes as are wanted do not suffice. *)
EnoughIsMore(n) == queue > n

Enough(n) == queue >= n

(* A port that is closed answers ANS_DEV_ERR, after FD_SET() of -1. *)
WaitClosed(r) ==
  /\ state[r] = "idle" /\ ~is_opened
  /\ Answer(r, "DEV_ERR")
  /\ UNCHANGED <<descriptors, queue, pipe, want>>

(* The bytes may be there already, or the descriptor may be dead; else the *)
(* reader goes on to select() on the port and the pipe.                    *)
WaitForData(r, n) ==
  /\ state[r] = "idle" /\ is_opened
  /\ want' = [want EXCEPT ![r] = n]
  /\ \/ Enough(n) /\ Answer(r, "OK")
     \/ Answer(r, "DEV_ERR")
     \/ /\ ~Enough(n)
        /\ state' = [state EXCEPT ![r] = "select"]
        /\ input_set' = [input_set EXCEPT ![r] = {serial_fd, selfpipe.rd} \ {None}]
        /\ UNCHANGED <<size, answer, taken>>
  /\ UNCHANGED <<descriptors, queue, pipe>>

(* What select() finds ready of what it was asked about. *)
Ready(r) ==
  {f \in input_set[r] : \/ f = serial_fd /\ queue > 0
                        \/ f = selfpipe.rd /\ pipe > 0}

(* select() fails, or the port does not tell how many bytes it has. *)
SelectFails(r) ==
  /\ state[r] = "select"
  /\ Answer(r, "DEV_ERR")
  /\ UNCHANGED <<descriptors, queue, pipe, want>>

(* The time has passed, and nothing is ready. *)
SelectExpires(r) ==
  /\ state[r] = "select"
  /\ Ready(r) = {}
  /\ Answer(r, "TIMEOUT")
  /\ UNCHANGED <<descriptors, queue, pipe, want>>

(* Fault: one byte is taken from the pipe, whatever is in it. *)
SelectCancelledOnce(r) ==
  /\ state[r] = "select"
  /\ Ready(r) # {}
  /\ selfpipe.rd \in Ready(r) \cup {None}
  /\ pipe' = pipe - 1
  /\ Answer(r, "TIMEOUT")
  /\ UNCHANGED <<descriptors, queue, want>>

(* The pipe is ready: it is emptied and the wait is over. Without a pipe   *)
(* FD_ISSET() of -1 can be TRUE.                                           *)
SelectCancelled(r) ==
  /\ state[r] = "select"
  /\ Ready(r) # {}
  /\ selfpipe.rd \in Ready(r) \cup {None}
  /\ pipe' = 0
  /\ Answer(r, "TIMEOUT")
  /\ UNCHANGED <<descriptors, queue, want>>

(* Bytes have come: they suffice, or the reader sleeps for as long as the  *)
(* rest should take and asks select() again, with the set that it left.    *)
SelectReady(r) ==
  /\ state[r] = "select"
  /\ serial_fd \in Ready(r) /\ selfpipe.rd \notin Ready(r)
  /\ \/ Enough(want[r]) /\ Answer(r, "OK")
     \/ /\ ~Enough(want[r])
        /\ input_set' = [input_set EXCEPT ![r] = Ready(r)]
        /\ UNCHANGED <<state, size, answer, taken>>
  /\ UNCHANGED <<descriptors, queue, pipe, want>>

(* The other readers that were told of their bytes miss those that r took. *)
TakenFrom(r, got) ==
  [q \in Readers |->
     IF q = r \/ state[q] # "read" THEN 0
     ELSE IF taken[q] + got < size[q] THEN taken[q] + got ELSE size[q]]

(* recvdata() of what was waited for, or of all that had come: read()      *)
(* gives what there is, and nobody looks at how much that was.             *)
RecvData(r) ==
  /\ state[r] = "read"
  /\ state' = [state EXCEPT ![r] = "idle"]
  /\ \E n \in {want[r], size[r]} : LET got == IF n < queue THEN n ELSE queue IN
       queue' = queue - got /\ taken' = TakenFrom(r, got)
  /\ UNCHANGED <<descriptors, pipe, want, input_set, size, answer>>

SelectReturns(r) ==
  SelectFails(r) \/ SelectExpires(r) \/ SelectCancelled(r) \/ SelectReady(r)

Next ==
  \/ Open \/ Close \/ Flush \/ Arrive \/ CancelOperation
  \/ \E r \in Readers :
       \/ WaitClosed(r)
       \/ \E n \in Wants : WaitForData(r, n)
       \/ SelectReturns(r)
       \/ RecvData(r)

Spec == Init /\ [][Next]_vars

(* select() returns when a descriptor is ready and when its time passes.   *)
Fairness ==
  \A r \in Readers :
    WF_vars(SelectExpires(r) \/ SelectCancelled(r) \/ SelectReady(r))

FairSpec == Spec /\ Fairness
-----------------------------------------------------------------------------
TypeOK ==
  /\ serial_fd \in Fds \cup {None}
  /\ selfpipe \in [rd : Fds \cup {None}, wr : Fds \cup {None}]
  /\ is_opened \in BOOLEAN
  /\ open_fds \subseteq Fds
  /\ queue \in 0 .. MaxQueue
  /\ pipe \in 0 .. MaxCancels
  /\ state \in [Readers -> {"idle", "select", "read"}]
  /\ want \in [Readers -> 0 .. MaxQueue]
  /\ size \in [Readers -> 0 .. MaxQueue]
  /\ input_set \in [Readers -> SUBSET Fds]
  /\ answer \in [Readers -> {"none", "OK", "TIMEOUT", "DEV_ERR"}]
  /\ taken \in [Readers -> 0 .. MaxQueue]

(* However open() fails, and however often the port is opened and closed,  *)
(* the process has no descriptor open that the object does not hold, and   *)
(* the object holds none that is closed.                                   *)
NoDescriptorLeaks ==
  /\ open_fds = Held
  /\ is_opened <=> serial_fd # None

(* Of the bytes that were announced to a reader only those are missing     *)
(* when it reads that another reader took in the meantime: no flush and no *)
(* close comes between the wait and the read.  _recvPacket() and           *)
(* _waitforResponse() do not look at what recvdata() answers, and take     *)
(* what their buffer held before for the bytes that are missing, which     *)
(* happens when setMotorRpm() reads beside the scan thread.                *)
PromisedBytesAreThere ==
  \A r \in Readers :
    state[r] = "read" => want[r] <= size[r] /\ size[r] <= queue + taken[r]

(* A reader selects on the open port, never on a descriptor that was       *)
(* closed or reused under it.                                              *)
SelectsOnOpenPort ==
  \A r \in Readers : state[r] = "select" =>
    /\ is_opened
    /\ input_set[r] \subseteq open_fds
    /\ serial_fd \in input_set[r]

(* A wait ends, by bytes, time or cancelling, unless it is left with some  *)
(* of the bytes it wants: then select() returns at once every time, its    *)
(* time never passes, and the pipe is no longer looked at.                 *)
WaitEnds ==
  \A r \in Readers :
    state[r] = "select" ~> state[r] # "select" \/ queue \in 1 .. want[r] - 1
=============================================================================
