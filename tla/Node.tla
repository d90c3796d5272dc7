-------------------------------- MODULE Node --------------------------------
(***************************************************************************)
(* main() of ttlidar_node on top of the driver: connect, start the scan,   *)
(* fetch and publish until the node is shut down, disconnect, delete.  The *)
(* steps of main() are joined with those of the driver's calls; the scan   *)
(* thread runs beside it.                                                  *)
(***************************************************************************)
EXTENDS TTlidarDriver

(* main() is the only client, and it starts one scan thread. *)
ASSUME NodeAssumption ==
  /\ Clients = {Controller}
  /\ MaxThreads >= 1

VARIABLES
  at,       (* the statement of main()                                     *)
  ok,       (* ros::ok()                                                   *)
  message   (* points_count of the latest message, or -1                   *)

node == <<at, ok, message>>
nvars == <<vars, node>>

NodeInit == Init /\ at = "connect" /\ ok = TRUE /\ message = -1

(* main() goes on from one statement to another. *)
NGoto(from, to) == at = from /\ at' = to

-----------------------------------------------------------------------------
(* SIGINT, or the master, ends the node at any time. *)
Shutdown ==
  /\ ok /\ ok' = FALSE
  /\ UNCHANGED <<vars, at, message>>

(* A node that cannot connect deletes the driver and returns. *)
NodeConnect ==
  /\ at = "connect"
  /\ Connect
  /\ at' = IF is_connected' THEN "start" ELSE "failed"
  /\ UNCHANGED <<ok, message>>

(* Its answer is ignored. *)
NodeStartScan ==
  /\ \/ NGoto("start", "starting") /\ StartCheck
     \/ NGoto("starting", "loop") /\ StartScan
  /\ UNCHANGED <<ok, message>>

(* Fault: the loop does not ask whether the node was shut down. *)
NodeGrabAlways ==
  /\ NGoto("loop", "grab") /\ GrabScanData(Controller)
  /\ UNCHANGED <<ok, message>>

(* while (ros::ok()) *)
NodeGrab ==
  /\ ok
  /\ NGoto("loop", "grab") /\ GrabScanData(Controller)
  /\ UNCHANGED <<ok, message>>

(* grabScanData() answers RESULT_OPERATION_TIMEOUT: nothing is published. *)
NodeGrabTimeout ==
  /\ NGoto("grab", "loop") /\ EventTimeout(Controller)
  /\ UNCHANGED <<ok, message>>

(* It answers RESULT_OK: publish_scan(), of no points when there are none. *)
NodePublish ==
  /\ NGoto("grab", "loop") /\ CopyEnd(Controller)
  /\ message' = copy[Controller].n
  /\ UNCHANGED ok

NodeDisconnect ==
  /\ ~ok
  /\ NGoto("loop", "disconnect") /\ Disconnect
  /\ UNCHANGED <<ok, message>>

(* After disconnect() has returned the destructor calls it again. *)
NodeDelete ==
  /\ NGoto("disconnect", "delete") \/ NGoto("failed", "delete")
  /\ Delete
  /\ UNCHANGED <<ok, message>>

(* Inside the calls. *)
NodeWait == EventBlock(Controller) \/ EventTake(Controller)
NodeCopy == GrabLock(Controller) \/ CopyBegin(Controller) \/ CopyRetest(Controller)
NodeStopping == JoinScanThread \/ CommandLock \/ CommandIgnored \/ CloseSerial

NodeInside ==
  /\ NodeWait \/ NodeCopy \/ NodeStopping
  /\ UNCHANGED node

(* What the device decides while disconnect() awaits a response. *)
NodeResponse == ResponseSome /\ UNCHANGED node

(* Beside them. *)
ScanThread(t) == (ThreadStep(t) \/ ReceiveSome(t)) /\ UNCHANGED node

(* main() has returned. *)
NodeReturned == Deleted /\ UNCHANGED node

Main ==
  \/ NodeConnect \/ NodeStartScan \/ NodeGrab \/ NodeGrabTimeout \/ NodePublish
  \/ NodeDisconnect \/ NodeDelete \/ NodeInside

NodeNext ==
  Shutdown \/ Main \/ NodeResponse \/ (\E t \in Threads : ScanThread(t)) \/ NodeReturned

NodeSpec == NodeInit /\ [][NodeNext]_nvars

(* main() and the scan thread run when they can; the device need not send, *)
(* and a wait that has a part of its bytes need not end. A reception or a  *)
(* response looks at the clock between two waits, so it ends when its      *)
(* waits do. The mutex promises no order, but the scan thread leaves it    *)
(* alone for the whole of every reception: who wants it then is assumed to *)
(* get it.                                                                 *)
NodeFairness ==
  /\ WF_nvars(Main)
  /\ SF_nvars(GrabLock(Controller) /\ UNCHANGED node)
  /\ SF_nvars(ResponseEnd /\ UNCHANGED node)
  /\ \A t \in Threads :
       /\ WF_nvars(ThreadStep(t) /\ UNCHANGED node)
       /\ SF_nvars(ReceiveEnd(t) /\ UNCHANGED node)

FairNodeSpec == NodeSpec /\ NodeFairness
-----------------------------------------------------------------------------
(* Properties.                                                             *)

(* main() is inside the calls that its statement makes, and the driver is  *)
(* connected from the first of them on.                                    *)
CallsInOrder ==
  LET here == pc[Controller]
      stopping == {"join", "command", "response", "partial", "close"}
  IN  /\ at \in {"connect", "failed", "start", "loop"} => here = "idle"
      /\ at = "starting" => here = "start"
      /\ at = "grab" => here \in {"wait", "blocked", "woken", "copy", "retest", "copying"}
      /\ at = "disconnect" =>
           here = "idle" \/ (here \in stopping /\ call = "disconnect")
      /\ at = "delete" => here \in stopping \cup {"deleted"} /\ call = "delete"
      /\ at \in {"start", "starting", "loop", "grab", "disconnect"} => is_connected

(* The statements of main() and the calls it is in go together: it is      *)
(* never in two calls, and makes none but connect() on a driver that is    *)
(* not connected; and no message has more points than a turn.              *)
NodeTypeOK ==
  /\ at \in {"connect", "failed", "start", "starting", "loop", "grab", "disconnect", "delete"}
  /\ ok \in BOOLEAN
  /\ message \in -1 .. MaxPoints
  /\ CallsInOrder

(* The node that has returned leaves nothing behind: no scan thread runs   *)
(* in the memory that was freed, each was joined, and the port is closed.  *)
CleanExit ==
  pc[Controller] = "deleted" =>
    /\ \A t \in Threads : tpc[t] = "none" \/ (tpc[t] = "exited" /\ t \in joined)
    /\ ~serial_open

(* The count that grabScanData() clears is the one it copied, or has as    *)
(* much of as the caller's array holds: no scan that is handed over        *)
(* between the two is discarded.                                           *)
NoScanDiscarded ==
  pc[Controller] \in {"retest", "copying"} => copy[Controller].n = Min2(Room, buff_count)

(* A node that is shut down returns, although the scan thread may be       *)
(* anywhere, main() may be waiting for a scan, and the destructor joins a  *)
(* thread that disconnect() has joined before; unless the device falls     *)
(* silent for good in the middle of a frame, or of the response that       *)
(* disconnect() awaits: then disconnect() never comes back.                *)
NodeReturns == ~ok ~> (pc[Controller] = "deleted" \/ []Stalled)

(* While the node runs no scan stays in the slot: it is published, or a    *)
(* later one takes its place.                                              *)
ScansAreTaken == buff_count # 0 ~> (buff_count = 0 \/ ~ok)
=============================================================================
