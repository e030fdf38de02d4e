------------------------------ MODULE Dispatch ------------------------------
(***************************************************************************)
(* The futures of one event in Listener.extra_events (api/dispatch.py) and *)
(* Client.wait_for() (client/bot.py), which takes events from them until   *)
(* one passes its check.  Every waiter is one call of it: it has at most   *)
(* one future at a time.                                                   *)
(***************************************************************************)
EXTENDS Naturals, Sequences, SequencesExt

CONSTANTS Waiters,      \* calls of wait_for()
          MaxEvents     \* bound: dispatches of the event

ASSUME MaxEventsAssumption == MaxEvents \in Nat

Events == 1..MaxEvents
None == 0                       \* the other values of a future
Undone == MaxEvents + 1
Cancelled == MaxEvents + 2

VARIABLES dispatched,   \* dispatches so far
          extra,        \* extra_events: the waiters whose futures it lists
          fut,          \* the future of each waiter: its result, or Undone, Cancelled
          waiter,       \* each waiter
          passes        \* the events that its check takes

dispatchVars == <<dispatched, extra, fut, waiter, passes>>

DispatchInit ==
    /\ dispatched = 0 /\ extra = << >>
    /\ fut = [w \in Waiters |-> None]
    /\ waiter = [w \in Waiters |-> [at |-> "idle", timed |-> FALSE, got |-> 0, since |-> 0, missed |-> {}]]
    /\ passes \in [Waiters -> SUBSET Events]

Pending(w) == fut[w] = Undone
Over == {"returned", "timedOut", "cancelled"}
Looping == {"waiting", "checking"}
To(w, at) == waiter' = [waiter EXCEPT ![w].at = at]

----------------------------------------------------------------------------

\* Listener.dispatch(): the futures that are not done get the event, and the list is
\* emptied.  (missed is a history: the events that found a waiter between two futures.)
DispatchFirst(n) ==
    /\ dispatched' = n
    /\ fut' = [w \in Waiters |-> IF extra # << >> /\ w = Head(extra) /\ Pending(w) THEN n ELSE fut[w]]
    /\ extra' = << >> /\ UNCHANGED <<waiter, passes>>
dispatch(n) ==
    /\ dispatched' = n
    /\ fut' = [w \in Waiters |-> IF w \in Range(extra) /\ Pending(w) THEN n ELSE fut[w]]
    /\ extra' = << >>
    /\ waiter' = [w \in Waiters |->
           IF waiter[w].at \in Looping /\ ~Pending(w) THEN [waiter[w] EXCEPT !.missed = @ \cup {n}] ELSE waiter[w]]
    /\ UNCHANGED passes

\* Listener.add()
add(w) ==
    /\ fut' = [fut EXCEPT ![w] = Undone]
    /\ extra' = Append(extra, w)

\* Without a timeout, which is the default, the call may wait for ever.
wait_for(w, timed) ==
    /\ waiter[w].at = "idle"
    /\ waiter' = [waiter EXCEPT ![w].at = "waiting", ![w].timed = timed, ![w].since = dispatched + 1]
    /\ add(w)
    /\ UNCHANGED <<dispatched, passes>>

\* The check has been made: the event is returned, or the next one is waited for.
DecideUnchecked(w, e) ==
    waiter' = [waiter EXCEPT ![w].at = "returned", ![w].got = e] /\ UNCHANGED <<fut, extra>>
Decide(w, e) ==
    \/ /\ e \in passes[w]
       /\ waiter' = [waiter EXCEPT ![w].at = "returned", ![w].got = e]
       /\ UNCHANGED <<fut, extra>>
    \/ e \notin passes[w] /\ To(w, "waiting") /\ add(w)

\* The task goes on after its future has got an event.  An asynchronous check is
\* awaited.
Resume(w) ==
    /\ waiter[w].at = "waiting" /\ fut[w] \in Events
    /\ \/ Decide(w, fut[w])
       \/ To(w, "checking") /\ UNCHANGED <<fut, extra>>
    /\ UNCHANGED <<dispatched, passes>>

Checked(w) ==
    /\ waiter[w].at = "checking" /\ Decide(w, fut[w])
    /\ UNCHANGED <<dispatched, passes>>

\* asyncio.wait_for() cancels the future, and raises TimeoutError a step later.  Each
\* future has the whole timeout before it.
Timeout(w) ==
    /\ waiter[w].timed /\ waiter[w].at = "waiting" /\ Pending(w)
    /\ fut' = [fut EXCEPT ![w] = Cancelled] /\ To(w, "timeout")
    /\ UNCHANGED <<dispatched, extra, passes>>

\* Mutant: the wait starts again.
TimedOutAgain(w) ==
    /\ waiter[w].at = "timeout" /\ To(w, "waiting")
    /\ fut' = [fut EXCEPT ![w] = Undone]
    /\ extra' = Append(RemoveFirst(extra, w), w) /\ UNCHANGED <<dispatched, passes>>

\* except TimeoutError: the list may have been emptied meanwhile.  Before Python 3.11 asyncio
\* raises another TimeoutError, which passes by here: the future stays in the list.
TimedOut(w) ==
    /\ waiter[w].at = "timeout"
    /\ extra' \in {RemoveFirst(extra, w), extra}
    /\ To(w, "timedOut")
    /\ UNCHANGED <<dispatched, fut, passes>>

\* The caller's task is cancelled: its future stays in the list until the next dispatch.
Cancel(w) ==
    /\ waiter[w].at \in Looping
    /\ fut' = [fut EXCEPT ![w] = IF Pending(w) THEN Cancelled ELSE @] /\ To(w, "cancelled")
    /\ UNCHANGED <<dispatched, extra, passes>>

WaiterStep(w) == Resume(w) \/ Checked(w) \/ Timeout(w) \/ TimedOut(w)

----------------------------------------------------------------------------
(* Properties *)

DispatchType ==
    /\ dispatched \in 0..MaxEvents /\ fut \in [Waiters -> None..Cancelled]
    /\ \A w \in Waiters : waiter[w].at \in {"idle", "timeout"} \cup Looping \cup Over

\* Every waiter whose future is pending is in the list, once, so that the next dispatch
\* reaches it; what else is in the list has been cancelled: timeouts, cancellations and
\* dispatches in any order leave no future that nobody waits for.
FuturesAgree ==
    /\ IsInjective(extra)
    /\ \A w \in Waiters : Pending(w) <=> w \in Range(extra) /\ waiter[w].at = "waiting"
    /\ \A w \in Range(extra) : fut[w] \in {Undone, Cancelled}

\* wait_for() returns the first event since its call that passes its check, but for
\* those dispatched while it had no future: between a result and its task's next step,
\* or while its check was awaited.
ReturnsFirst ==
    \A w \in Waiters : waiter[w].at = "returned" =>
        /\ waiter[w].got \in passes[w] /\ waiter[w].got >= waiter[w].since
        /\ \A e \in passes[w] : waiter[w].since <= e /\ e < waiter[w].got => e \in waiter[w].missed

\* A call that has been given an event its check takes returns it, unless it is cancelled;
\* and a call with a timeout ends, unless events come for ever, as the timeout starts anew
\* with every one that does not pass.  Without a timeout nothing ends a wait for an event
\* that does not come.
WaitEnds == \A w \in Waiters :
    /\ waiter[w].at \in Looping /\ fut[w] \in passes[w] ~> waiter[w].at \in Over
    /\ \/ waiter[w].at \in Looping /\ waiter[w].timed ~> waiter[w].at \in Over
       \/ []<><<dispatched' # dispatched>>_dispatched
=============================================================================
