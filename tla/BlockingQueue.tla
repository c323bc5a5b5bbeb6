---------------------------- MODULE BlockingQueue ----------------------------
(***************************************************************************)
(* Common::Queue, the queue between a gateway's thread and a handler's:    *)
(* push appends under the mutex and notifies after it has let go of it;    *)
(* pop waits on the condition variable until there is something or the     *)
(* time is up.  What happens under the mutex is one step.  A wait may also *)
(* end with neither, as condition variables do.  One thread pushes and one *)
(* pops.                                                                   *)
(***************************************************************************)
EXTENDS Naturals, Sequences

VARIABLES data_queue,
          pushing,  \* whether push has let go of the mutex and not notified yet
          popping   \* "checking" the predicate of wait_for, "waiting" in it,
                    \* or "out" of pop with a value

queueVars == <<data_queue, pushing, popping>>

Init ==
    /\ data_queue = <<>>
    /\ pushing = FALSE
    /\ popping = "checking"

PushBack(value) ==
    /\ ~pushing
    /\ data_queue' = Append(data_queue, value)
    /\ pushing' = TRUE
    /\ UNCHANGED popping

\* Nobody is woken unless somebody waits at that moment.
Woken(at) == IF at = "waiting" THEN "checking" ELSE at

NotifyOne ==
    /\ pushing
    /\ pushing' = FALSE
    /\ popping' = Woken(popping)
    /\ UNCHANGED data_queue

\* A slip: the wait starts without a look at the queue.
MayWaitAlways == TRUE

\* The predicate is evaluated before the first wait, so a push that notified
\* while nobody waited is not missed.
MayWait == data_queue = <<>>

Wait ==
    /\ popping = "checking"
    /\ MayWait
    /\ popping' = "waiting"
    /\ UNCHANGED <<data_queue, pushing>>

\* wait_for ends by itself; after the last check pop returns false, and its
\* caller comes back.
TimedOut ==
    /\ popping = "waiting"
    /\ popping' = "checking"
    /\ UNCHANGED <<data_queue, pushing>>

PopFront ==
    /\ popping = "checking"
    /\ data_queue # <<>>
    /\ popping' = "out"
    /\ data_queue' = Tail(data_queue)
    /\ UNCHANGED pushing

PopAgain ==
    /\ popping = "out"
    /\ popping' = "checking"
    /\ UNCHANGED <<data_queue, pushing>>

=============================================================================
