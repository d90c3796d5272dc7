---------------------------- MODULE DriverMailbox ----------------------------
(***************************************************************************)
(* The two scan buffers, the flag, the count, the event and _lock together *)
(* implement the one-slot mailbox, as long as startScan() creates no more  *)
(* than one scan thread (ttlidar_node calls it once).                      *)
(***************************************************************************)
EXTENDS TTlidarDriver

Scans == [version : 0 .. MaxPackets, n : 1 .. MaxPoints]

(* Not a scan: a scan has at least one point. *)
NoScan == [version |-> 0, n |-> 0]

(* The published buffer is the slot until a fetch begins to copy it. *)
Slot ==
  IF buff_count = 0 \/ \E c \in Clients : pc[c] = "copying"
    THEN NoScan
    ELSE [version |-> buffers[flag], n |-> buff_count]

(* What client c's memcpy() yields, read from the buffer as it now is. *)
Taken(c) ==
  IF pc[c] = "copying" /\ copy[c].n # 0
    THEN [version |-> buffers[copy[c].from], n |-> copy[c].n]
    ELSE NoScan

Mailbox == INSTANCE ScanMailbox WITH slot <- Slot, taken <- [c \in Clients |-> Taken(c)]

(* The driver's hand-over is a mailbox: two lock-protected steps of the    *)
(* scan thread, the unprotected stores into the other buffer and the       *)
(* memcpy() under the lock look to the callers like one replacement and    *)
(* one fetch.                                                              *)
IsMailbox == Mailbox!MSpec

=============================================================================
