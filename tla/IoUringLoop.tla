----------------------------- MODULE IoUringLoop -----------------------------
(***************************************************************************)
(* The event loop (io_uring_loop.cpp) as a record and the operations on it.  *)
(* Modules that run on the loop keep the record in a variable and build their *)
(* steps from these operators: a callback maps the loop to its next value.    *)
(*                                                                           *)
(* A request is a record with a type.  A completion pairs a request with      *)
(* whether its result is what the caller hopes for (data, success).           *)
(***************************************************************************)
EXTENDS Naturals, Sequences

CONSTANT QueueDepth    (* entries of the submission queue: 256 in the code *)

ASSUME QueueDepthAssumption == QueueDepth \in Nat \ {0}

(* work_queue_     what post appended                                        *)
(* current_work    what process_work_queue swapped out and has not run yet    *)
(* event_fd_       whether the eventfd's counter is above zero                *)
(* sq              requests prepared since the last submission               *)
(* kernel          requests submitted and not completed                       *)
(* cq              completions not yet handled                                *)
(* phase           inside io_uring_submit_and_wait, in process_work_queue, in  *)
(*                 the loop over the completions, or dead of a null pointer    *)
LoopPhases == {"wait", "work", "cqes", "crashed"}

EventfdRead == [type |-> "EVENTFD"]

(* run posts the first read of the eventfd and submits it. *)
InitialLoop ==
  [work_queue_  |-> << >>,
   current_work |-> << >>,
   event_fd_    |-> FALSE,
   sq           |-> << >>,
   kernel       |-> {EventfdRead},
   cq           |-> << >>,
   phase        |-> "wait"]

-----------------------------------------------------------------------------
(* post, in the two steps another thread can be caught between. *)
PushWork(l, w) == [l EXCEPT !.work_queue_ = Append(@, w)]

SignalEventfd(l) == [l EXCEPT !.event_fd_ = TRUE]

post(l, w) == SignalEventfd(PushWork(l, w))

(* submit_accept, submit_read, submit_write, submit_connect, submit_timeout:   *)
(* without a free entry the request and its callback are dropped in silence.    *)
submit(l, q) == IF Len(l.sq) < QueueDepth THEN [l EXCEPT !.sq = Append(@, q)] ELSE l

(* The one submission that does not look whether it got an entry. *)
post_eventfd_read(l) ==
  IF Len(l.sq) < QueueDepth
  THEN [l EXCEPT !.sq = Append(@, EventfdRead)]
  ELSE [l EXCEPT !.phase = "crashed"]

-----------------------------------------------------------------------------
(* run, piece by piece.  io_uring_submit_and_wait returns with a completion,   *)
(* and process_work_queue takes the whole queue before any is looked at.       *)
CanWake(l) == l.phase = "wait" /\ l.cq # << >>

process_work_queue(l) ==
  [l EXCEPT !.current_work = l.work_queue_,
            !.work_queue_ = << >>,
            !.phase = IF l.work_queue_ = << >> THEN "cqes" ELSE "work"]

CanRunWork(l) == l.phase = "work"

TakeWork(l) ==
  [l EXCEPT !.current_work = Tail(@),
            !.phase = IF Tail(l.current_work) = << >> THEN "cqes" ELSE "work"]

(* io_uring_for_each_cqe reads the tail of the queue again in every iteration: *)
(* completions that arrive meanwhile are handled in the same round.            *)
CanHandleCqe(l) == l.phase = "cqes" /\ l.cq # << >>

TakeCqe(l) == [l EXCEPT !.cq = Tail(@)]

CanSubmit(l) == l.phase = "cqes" /\ l.cq = << >>

SubmitAndWait(l) ==
  [l EXCEPT !.kernel = @ \cup {l.sq[k] : k \in DOMAIN l.sq},
            !.sq = << >>,
            !.phase = "wait"]

(* The kernel completes a request; a read of the eventfd takes its counter. *)
Complete(l, q, ok) ==
  [l EXCEPT !.kernel = @ \ {q},
            !.cq = Append(@, [request |-> q, ok |-> ok]),
            !.event_fd_ = IF q = EventfdRead THEN FALSE ELSE @]
=============================================================================
