----------------------------- MODULE ScanMailbox -----------------------------
(***************************************************************************)
(* What grabScanData() promises its callers: a mailbox with one slot.  A   *)
(* new scan replaces the one in the slot, fetched or not; a fetch empties  *)
(* the slot in one step and hands out the first Room points of what it     *)
(* found there, so each scan is fetched at most once, whole, and never     *)
(* after a later one.                                                      *)
(***************************************************************************)
EXTENDS Integers

CONSTANTS Clients, Scans, NoScan, Room

VARIABLES
  slot,    (* the scan to be fetched, or NoScan                   *)
  taken    (* what each client's fetch holds until it returns     *)

mvars == <<slot, taken>>

FirstPoints(s) == [s EXCEPT !.n = IF Room < s.n THEN Room ELSE s.n]

MInit == slot = NoScan /\ taken = [c \in Clients |-> NoScan]

(* A reception that brought no points leaves the slot empty. *)
Put(s) == slot' = s /\ UNCHANGED taken

Take(c) ==
  /\ slot # NoScan /\ taken[c] = NoScan
  /\ slot' = NoScan
  /\ taken' = [taken EXCEPT ![c] = FirstPoints(slot)]

Return(c) ==
  /\ taken[c] # NoScan
  /\ taken' = [taken EXCEPT ![c] = NoScan]
  /\ UNCHANGED slot

MNext ==
  \/ \E s \in Scans \cup {NoScan} : Put(s)
  \/ \E c \in Clients : Take(c) \/ Return(c)

MSpec == MInit /\ [][MNext]_mvars

=============================================================================
