---------------------------- MODULE AsyncQueue ----------------------------
(***************************************************************************)
(* What the interface Service[T] of internal/base/queue/queue.go promises  *)
(* to the rest of the program: a message that Send accepted is finished    *)
(* exactly once and in the order of acceptance, nothing is accepted after  *)
(* Close, and the worker stops only when everything accepted is finished.  *)
(***************************************************************************)
EXTENDS Naturals, Sequences

CONSTANT Messages

VARIABLES sent,      (* the accepted messages, in the order of acceptance *)
          finished,  (* the finished messages, in the order of finishing  *)
          open,      (* Close has not taken effect                        *)
          stopped    (* the worker has stopped                            *)

absVars == <<sent, finished, open, stopped>>

AbsInit ==
  /\ sent = <<>>
  /\ finished = <<>>
  /\ open = TRUE
  /\ stopped = FALSE

Accept(m) ==
  /\ open
  /\ sent' = Append(sent, m)
  /\ UNCHANGED <<finished, open, stopped>>

Finish ==
  /\ Len(finished) < Len(sent)
  /\ finished' = Append(finished, sent[Len(finished) + 1])
  /\ UNCHANGED <<sent, open, stopped>>

Shut ==
  /\ open
  /\ open' = FALSE
  /\ UNCHANGED <<sent, finished, stopped>>

Stop ==
  /\ ~open /\ ~stopped
  /\ finished = sent
  /\ stopped' = TRUE
  /\ UNCHANGED <<sent, finished, open>>

AbsNext ==
  \/ \E m \in Messages : Accept(m)
  \/ Finish
  \/ Shut
  \/ Stop

AbsSafety == AbsInit /\ [][AbsNext]_absVars

(* What was accepted is finished, and after Close the worker stops. *)
AbsFairness == WF_absVars(Finish) /\ WF_absVars(Stop)
=============================================================================
