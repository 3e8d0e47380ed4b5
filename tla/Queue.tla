------------------------------- MODULE Queue -------------------------------
(***************************************************************************)
(* The in-process message queue of internal/base/queue/queue.go, one       *)
(* instance of which carries the activities, the events, the inbox         *)
(* notifications and the external notifications of the server.             *)
(*                                                                         *)
(* A buffered channel is guarded by an RWMutex.  Send holds the read lock  *)
(* while it waits for room in the channel, the worker takes the read lock  *)
(* for every message to fetch the handler, RegisterHandler and Close take  *)
(* the write lock.  Every step between two lock or channel operations of a *)
(* goroutine is one action; pc says where in its call a goroutine is.      *)
(***************************************************************************)
EXTENDS Naturals, Sequences, FiniteSets

CONSTANTS Senders,      (* goroutines that call Send                           *)
          Closers,      (* goroutines that call Close                          *)
          Registrars,   (* goroutines that call RegisterHandler                *)
          Worker,       (* the goroutine of startWorker                        *)
          Cancellable,  (* the senders whose context can be cancelled          *)
          Capacity,     (* bufferSize of New                                   *)
          MaxSends,     (* bound: calls of Send per sender                     *)
          Registered,   (* a handler was registered before the first call      *)
          None          (* no goroutine                                        *)

Threads == Senders \cup Closers \cup Registrars \cup {Worker}

ASSUME QueueAssumption ==
  /\ Capacity \in Nat \ {0}
  /\ MaxSends \in Nat
  /\ Registered \in BOOLEAN
  /\ Cancellable \subseteq Senders
  /\ None \notin Threads
  /\ Worker \notin Senders \cup Closers \cup Registrars
  /\ Senders \cap Closers = {}
  /\ Senders \cap Registrars = {}
  /\ Closers \cap Registrars = {}

(* The k-th message of sender s. *)
Messages == Senders \X (1..MaxSends)

VARIABLES readers, blocked, writer,  (* mu                                           *)
          chan,        (* the messages in the channel                                *)
          chanClosed,  (* close(q.queue) was called                                  *)
          closed,      (* q.closed                                                   *)
          handlerSet,  (* q.handler # nil                                            *)
          pc,          (* where each goroutine is                                    *)
          issued,      (* how many calls of Send each sender has begun               *)
          cancelled,   (* the senders whose context is done                          *)
          sent,        (* history: every message enqueued, in order                  *)
          received,    (* history: the messages the worker received, in order       *)
          dropped,     (* history: positions in received that had no handler         *)
          early        (* history: issued at the time the handler was registered     *)

mutex == <<readers, blocked, writer>>
history == <<sent, received, dropped, early>>
vars == <<mutex, chan, chanClosed, closed, handlerSet, pc, issued, cancelled, history>>

Mu == INSTANCE RWMutex

PCs == {"idle", "check", "select",            \* Send
        "lock", "locking", "close", "wait",   \* Close; RegisterHandler uses the first two
        "done",
        "recv", "read", "handle", "exited"}   \* the worker

TypeOK ==
  /\ Mu!MutexTypeOK
  /\ chan \in Seq(Messages)
  /\ Len(chan) \in 0..Capacity
  /\ chanClosed \in BOOLEAN
  /\ closed \in BOOLEAN
  /\ handlerSet \in BOOLEAN
  /\ pc \in [Threads -> PCs]
  /\ issued \in [Senders -> 0..MaxSends]
  /\ cancelled \subseteq Cancellable
  /\ sent \in Seq(Messages)
  /\ received \in Seq(Messages)
  /\ dropped \subseteq Nat
  /\ early \in [Senders -> 0..MaxSends]

Init ==
  /\ Mu!MutexInit
  /\ chan = <<>>
  /\ chanClosed = FALSE
  /\ closed = FALSE
  /\ handlerSet = Registered
  /\ pc = [t \in Threads |-> IF t = Worker THEN "recv" ELSE "idle"]
  /\ issued = [s \in Senders |-> 0]
  /\ cancelled = {}
  /\ sent = <<>>
  /\ received = <<>>
  /\ dropped = {}
  /\ early = [s \in Senders |-> 0]

Goto(t, from, to) ==
  /\ pc[t] = from
  /\ pc' = [pc EXCEPT ![t] = to]

-----------------------------------------------------------------------------
(* Send *)

SendCall(s) ==
  /\ issued[s] < MaxSends
  /\ Goto(s, "idle", "check")
  /\ issued' = [issued EXCEPT ![s] = @ + 1]
  /\ Mu!RLock(s)
  /\ UNCHANGED <<chan, chanClosed, closed, handlerSet, cancelled, history>>

(* q.closed: the message is dropped and the caller does not learn it. *)
SendRejected(s) ==
  /\ s \in readers
  /\ closed
  /\ Goto(s, "check", "idle")
  /\ Mu!RUnlock(s)
  /\ UNCHANGED <<chan, chanClosed, closed, handlerSet, issued, cancelled, history>>

(* Mutant: the read lock is given back before the select. *)
SendOpenUnlocked(s) ==
  /\ s \in readers
  /\ ~closed
  /\ Goto(s, "check", "select")
  /\ Mu!RUnlock(s)
  /\ UNCHANGED <<chan, chanClosed, closed, handlerSet, issued, cancelled, history>>

(* Mutant: q.closed is not looked at. *)
SendOpenUnchecked(s) ==
  /\ s \in readers
  /\ Goto(s, "check", "select")
  /\ UNCHANGED <<mutex, chan, chanClosed, closed, handlerSet, issued, cancelled, history>>

SendOpen(s) ==
  /\ s \in readers
  /\ ~closed
  /\ Goto(s, "check", "select")
  /\ UNCHANGED <<mutex, chan, chanClosed, closed, handlerSet, issued, cancelled, history>>

(* Mutant: a full channel loses its oldest message instead of making the
   sender wait. *)
SendEnqueueLossy(s) ==
  LET msg == <<s, issued[s]>> IN
  /\ Goto(s, "select", "idle")
  /\ chan' = IF Len(chan) < Capacity THEN Append(chan, msg) ELSE Append(Tail(chan), msg)
  /\ sent' = Append(sent, msg)
  /\ Mu!RUnlock(s)
  /\ UNCHANGED <<chanClosed, closed, handlerSet, issued, cancelled, received, dropped, early>>

SendEnqueue(s) ==
  LET msg == <<s, issued[s]>> IN
  /\ Len(chan) < Capacity
  /\ Goto(s, "select", "idle")
  /\ chan' = Append(chan, msg)
  /\ sent' = Append(sent, msg)
  /\ Mu!RUnlock(s)
  /\ UNCHANGED <<chanClosed, closed, handlerSet, issued, cancelled, received, dropped, early>>

(* select: ctx.Done() is ready. *)
SendCancelled(s) ==
  /\ s \in cancelled
  /\ Goto(s, "select", "idle")
  /\ Mu!RUnlock(s)
  /\ UNCHANGED <<chan, chanClosed, closed, handlerSet, issued, cancelled, history>>

(* The caller's context is cancelled, at any time. *)
Cancel(s) ==
  /\ s \in Cancellable \ cancelled
  /\ cancelled' = cancelled \cup {s}
  /\ UNCHANGED <<mutex, chan, chanClosed, closed, handlerSet, pc, issued, history>>

-----------------------------------------------------------------------------
(* RegisterHandler and Close: both begin with mu.Lock(). *)

LockCall(t) ==
  /\ Goto(t, "idle", "lock")
  /\ UNCHANGED <<mutex, chan, chanClosed, closed, handlerSet, issued, cancelled, history>>

LockAnnounce(t) ==
  /\ Goto(t, "lock", "locking")
  /\ Mu!Announce(t)
  /\ UNCHANGED <<chan, chanClosed, closed, handlerSet, issued, cancelled, history>>

RegisterHandler(r) ==
  /\ Goto(r, "locking", "done")
  /\ Mu!Unlock(r)
  /\ handlerSet' = TRUE
  /\ early' = IF handlerSet THEN early ELSE issued
  /\ UNCHANGED <<chan, chanClosed, closed, issued, cancelled, sent, received, dropped>>

(* The queue is closed already: Close returns at once. *)
CloseAgain(c) ==
  /\ closed
  /\ Goto(c, "locking", "done")
  /\ Mu!Unlock(c)
  /\ UNCHANGED <<chan, chanClosed, closed, handlerSet, issued, cancelled, history>>

CloseFirst(c) ==
  /\ ~closed
  /\ Goto(c, "locking", "close")
  /\ Mu!Unlock(c)
  /\ closed' = TRUE
  /\ UNCHANGED <<chan, chanClosed, handlerSet, issued, cancelled, history>>

CloseChannel(c) ==
  /\ Goto(c, "close", "wait")
  /\ chanClosed' = TRUE
  /\ UNCHANGED <<mutex, chan, closed, handlerSet, issued, cancelled, history>>

(* wg.Wait() returns when the worker is gone. *)
CloseReturn(c) ==
  /\ pc[Worker] = "exited"
  /\ Goto(c, "wait", "done")
  /\ UNCHANGED <<mutex, chan, chanClosed, closed, handlerSet, issued, cancelled, history>>

-----------------------------------------------------------------------------
(* startWorker and processMessage *)

WorkerReceive ==
  /\ chan # <<>>
  /\ Goto(Worker, "recv", "read")
  /\ chan' = Tail(chan)
  /\ received' = Append(received, Head(chan))
  /\ Mu!RLock(Worker)
  /\ UNCHANGED <<chanClosed, closed, handlerSet, issued, cancelled, sent, dropped, early>>

(* Mutant: the worker looks at q.handler before it waits for the message: after
   the message before it, or when it was started. *)
WorkerDropStale ==
  /\ Worker \in readers
  /\ ~Registered
  /\ 1..(Len(received) - 1) \subseteq dropped
  /\ Goto(Worker, "read", "recv")
  /\ dropped' = dropped \cup {Len(received)}
  /\ Mu!RUnlock(Worker)
  /\ UNCHANGED <<chan, chanClosed, closed, handlerSet, issued, cancelled, sent, received, early>>

WorkerDrop ==
  /\ Worker \in readers
  /\ ~handlerSet
  /\ Goto(Worker, "read", "recv")
  /\ dropped' = dropped \cup {Len(received)}
  /\ Mu!RUnlock(Worker)
  /\ UNCHANGED <<chan, chanClosed, closed, handlerSet, issued, cancelled, sent, received, early>>

WorkerFetchHandler ==
  /\ Worker \in readers
  /\ handlerSet
  /\ Goto(Worker, "read", "handle")
  /\ Mu!RUnlock(Worker)
  /\ UNCHANGED <<chan, chanClosed, closed, handlerSet, issued, cancelled, history>>

(* Mutant: a message whose handler fails is tried again, for ever. *)
WorkerRetry ==
  /\ Goto(Worker, "handle", "handle")
  /\ UNCHANGED <<mutex, chan, chanClosed, closed, handlerSet, issued, cancelled, history>>

(* The handler returns; its error is only logged. *)
WorkerHandled ==
  /\ Goto(Worker, "handle", "recv")
  /\ UNCHANGED <<mutex, chan, chanClosed, closed, handlerSet, issued, cancelled, history>>

(* Mutant: the worker stops as soon as the channel is closed. *)
WorkerExitEarly ==
  /\ chanClosed
  /\ Goto(Worker, "recv", "exited")
  /\ UNCHANGED <<mutex, chan, chanClosed, closed, handlerSet, issued, cancelled, history>>

WorkerExit ==
  /\ chan = <<>>
  /\ chanClosed
  /\ Goto(Worker, "recv", "exited")
  /\ UNCHANGED <<mutex, chan, chanClosed, closed, handlerSet, issued, cancelled, history>>

-----------------------------------------------------------------------------
SendStep(s) ==
  SendRejected(s) \/ SendOpen(s) \/ SendEnqueue(s) \/ SendCancelled(s)

CloseStep(c) ==
  LockAnnounce(c) \/ CloseAgain(c) \/ CloseFirst(c) \/ CloseChannel(c) \/ CloseReturn(c)

RegisterStep(r) == LockAnnounce(r) \/ RegisterHandler(r)

WorkerStep ==
  WorkerReceive \/ WorkerDrop \/ WorkerFetchHandler \/ WorkerHandled \/ WorkerExit

(* No call is in progress, none is left to make and the worker is idle: the
   states in which nothing need happen any more. *)
Quiescent ==
  /\ \A s \in Senders : pc[s] = "idle"
  /\ \A t \in Closers \cup Registrars : pc[t] \in {"idle", "done"}
  /\ chan = <<>>
  /\ pc[Worker] \in {"recv", "exited"}
  /\ UNCHANGED vars

(* The worker waits for the read lock behind an announced writer, and the writer
   for a sender that has the read lock and waits for the worker to make room. *)
Jammed ==
  /\ Worker \in blocked
  /\ Len(chan) = Capacity
  /\ \E s \in Senders \ cancelled : pc[s] = "select"

(* ... and nobody moves any more, unless a context is cancelled. *)
Stuck == Jammed /\ UNCHANGED vars

Next ==
  \/ \E s \in Senders : SendCall(s) \/ Cancel(s) \/ SendStep(s)
  \/ \E t \in Closers \cup Registrars : LockCall(t)
  \/ \E c \in Closers : CloseStep(c)
  \/ \E r \in Registrars : RegisterStep(r)
  \/ WorkerStep
  \/ Quiescent
  \/ Stuck

(* The Go scheduler lets every runnable goroutine go on.  Nobody is obliged
   to begin a call, and nobody is obliged to cancel a context. *)
Fairness ==
  /\ \A s \in Senders : WF_vars(SendStep(s))
  /\ \A c \in Closers : WF_vars(CloseStep(c))
  /\ \A r \in Registrars : WF_vars(RegisterStep(r))
  /\ WF_vars(WorkerStep)

Safety == Init /\ [][Next]_vars

Spec == Safety /\ Fairness

-----------------------------------------------------------------------------
(* Properties *)

(* A message is finished when processMessage has returned. *)
Finished ==
  IF pc[Worker] \in {"read", "handle"}
    THEN SubSeq(received, 1, Len(received) - 1)
    ELSE received

(* Go panics on a send on a closed channel and on a second close of a channel.
   However many goroutines call Send and Close, neither happens: the race that
   TestQueue_SendCloseRace is about. *)
NoPanic ==
  /\ \A s \in Senders : pc[s] = "select" => ~chanClosed
  /\ \A c \in Closers : pc[c] = "close" => ~chanClosed

(* No message is lost, duplicated or overtaken between Send and the worker:
   what the worker received, followed by what is in the channel, is what was
   accepted, in the order of acceptance. *)
Conserved == sent = received \o chan

(* Only a message whose Send began before the first RegisterHandler took effect
   can be thrown away for want of a handler, however late either of them and the
   worker get hold of the lock: whoever sends after RegisterHandler has returned
   is sure that the handler will see the message. *)
HandledOnceRegistered ==
  handlerSet => \A i \in dropped : received[i][2] <= early[received[i][1]]

(* The worker is gone, and with it the Close that waits for it, only when
   everything ever accepted is finished, and nothing can be accepted later. *)
DrainedOnExit ==
  pc[Worker] = "exited" =>
    /\ chan = <<>>
    /\ \A s \in Senders : pc[s] # "select"

(* A call of RegisterHandler returns: it "can be called at any time". *)
RegisterReturns ==
  \A r \in Registrars : pc[r] = "lock" ~> pc[r] = "done"

(* Every call returns, of Send, of Close ("gracefully shuts down the queue") and
   of RegisterHandler, although no context need ever be done: the jam is the only
   way in which goroutines wait for one another for ever. *)
CallsReturn ==
  /\ \A s \in Senders : pc[s] = "check" ~> (pc[s] = "idle" \/ Jammed)
  /\ \A t \in Closers \cup Registrars : pc[t] = "lock" ~> (pc[t] = "done" \/ Jammed)

(* The queue implements what Service[T] promises: it accepts nothing after Close
   and finishes what it accepted once and in order; and unless it jams it
   finishes all of it. *)
Promise == INSTANCE AsyncQueue
             WITH finished <- Finished,
                  open <- ~closed,
                  stopped <- pc[Worker] = "exited"

ImplementsPromise == Promise!AbsSafety /\ ([]~Jammed => Promise!AbsFairness)

-----------------------------------------------------------------------------
(* The inductive invariant: who is inside the mutex, what has been closed,
   and what has happened to the messages. *)

ProgramCounters ==
  /\ \A s \in Senders : pc[s] \in {"idle", "check", "select"}
  /\ \A c \in Closers : pc[c] \in {"idle", "lock", "locking", "close", "wait", "done"}
  /\ \A r \in Registrars : pc[r] \in {"idle", "lock", "locking", "done"}
  /\ pc[Worker] \in {"recv", "read", "handle", "exited"}

(* A goroutine is inside the mutex exactly when its pc says so, and select is
   reached only with the read lock held. *)
LockDiscipline ==
  /\ readers \cap blocked = {}
  /\ \A t \in readers \cup blocked : pc[t] \in {"check", "select", "read"}
  /\ \A s \in Senders : pc[s] = "select" => s \in readers
  /\ \A t \in Threads : pc[t] = "locking" <=> writer = t

CallsIssued ==
  \A s \in Senders : pc[s] \in {"check", "select"} => issued[s] \in 1..MaxSends

(* closed is set before the channel is closed, once, and only when no sender is
   between its check of closed and the end of its select. *)
CloseProtocol ==
  /\ \A s \in Senders : pc[s] = "select" => ~closed
  /\ \A c \in Closers : pc[c] \in {"close", "wait"} => closed
  /\ \A c \in Closers : pc[c] = "close" => ~chanClosed
  /\ \A c, d \in Closers : pc[c] = "close" /\ pc[d] = "close" => c = d
  /\ chanClosed => closed
  /\ pc[Worker] = "exited" => chanClosed /\ chan = <<>>

(* What is in the channel or was received was issued before. *)
SentIssued == \A i \in DOMAIN sent : sent[i][2] <= issued[sent[i][1]]

DropHistory ==
  /\ dropped \subseteq 1..Len(received)
  /\ pc[Worker] \in {"read", "handle"} => Len(received) \in Nat \ {0}
  /\ HandledOnceRegistered

Inv ==
  /\ TypeOK
  /\ ProgramCounters
  /\ LockDiscipline
  /\ CallsIssued
  /\ CloseProtocol
  /\ Conserved
  /\ SentIssued
  /\ DropHistory
=============================================================================
