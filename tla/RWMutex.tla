------------------------------ MODULE RWMutex ------------------------------
(***************************************************************************)
(* sync.RWMutex of the Go runtime, as internal/base/queue/queue.go uses    *)
(* it.  The runtime is not part of the repository; what is kept is the     *)
(* part of its contract that the queue depends on:                         *)
(*                                                                         *)
(*   - Lock first announces the writer, then waits for the readers that    *)
(*     already hold the lock;                                              *)
(*   - from the announcement on, a new RLock blocks, so that a stream of   *)
(*     readers cannot starve the writer;                                   *)
(*   - Unlock hands the read lock to every reader that was blocked, before *)
(*     another writer can announce itself.                                 *)
(***************************************************************************)
CONSTANTS Threads,  (* the goroutines that use the mutex *)
          None      (* stands for "no writer"            *)

VARIABLES readers,  (* goroutines that hold the read lock                 *)
          blocked,  (* goroutines that wait inside RLock                  *)
          writer    (* the goroutine that announced itself in Lock or None *)

mutexVars == <<readers, blocked, writer>>

MutexTypeOK ==
  /\ readers \subseteq Threads
  /\ blocked \subseteq Threads
  /\ writer \in Threads \cup {None}

MutexInit ==
  /\ readers = {}
  /\ blocked = {}
  /\ writer = None

(* RLock: the caller owns the read lock once it is in readers. *)
RLock(t) ==
  \/ /\ writer = None
     /\ readers' = readers \cup {t}
     /\ UNCHANGED <<blocked, writer>>
  \/ /\ writer # None
     /\ blocked' = blocked \cup {t}
     /\ UNCHANGED <<readers, writer>>

RUnlock(t) ==
  /\ readers' = readers \ {t}
  /\ UNCHANGED <<blocked, writer>>

(* First half of Lock: from here on no new reader gets in. *)
Announce(t) ==
  /\ writer = None
  /\ writer' = t
  /\ UNCHANGED <<readers, blocked>>

(* Lock has returned to t. *)
HoldsWrite(t) == writer = t /\ readers = {}

(* Unlock by the holder: every blocked reader is let in at once. *)
Unlock(t) ==
  /\ HoldsWrite(t)
  /\ writer' = None
  /\ readers' = blocked
  /\ blocked' = {}
=============================================================================
