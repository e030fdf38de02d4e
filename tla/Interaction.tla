---------------------------- MODULE Interaction ----------------------------
(***************************************************************************)
(* An interaction from its dispatch to the end of its command: the event   *)
(* reaches the waiters (Dispatch) and starts the command's coroutine in    *)
(* its wrapper (client/models/command.py), which autodefer() may decorate  *)
(* (utils/utils.py); all of them respond through one context (Context).    *)
(***************************************************************************)
EXTENDS Dispatch, Context

CONSTANT Scenes \* bounds, one per behaviour: how many events there are, whether the last is
                \* the interaction, who waits, with a timeout or without, how often users call
                \* the context's methods, and how many requests may fail

ASSUME InteractionAssumption ==
    /\ Tasks = {"wrapper", "inner"} \cup Waiters /\ Waiters \cap {"wrapper", "inner"} = {}
    /\ \A s \in Scenes : s.events \in 0..MaxEvents /\ s.waiters \subseteq Waiters /\ s.timed \subseteq BOOLEAN

VARIABLES scene,        \* one of Scenes
          wrapper,      \* the task that the dispatch starts
          inner,        \* the coroutine of the user, in the wrapper or a task of its own
          used          \* such calls

vars == <<dispatchVars, contextVars, scene, wrapper, inner, used>>
commandVars == <<scene, wrapper, inner>>

Followed(n) == scene.interaction /\ n = scene.events
Init ==
    /\ DispatchInit /\ ContextInit
    /\ scene \in Scenes
    /\ \A w \in Waiters : passes[w] \subseteq (IF w \in scene.waiters THEN 1..scene.events ELSE {})
    /\ wrapper = [at |-> "off", part |-> "base"] /\ inner = "off"
    /\ used = 0

----------------------------------------------------------------------------
(* The dispatch *)

\* The coroutine of the command, or of one of its subcommands: decorated, it is a
\* task beside the wrapper, which sleeps.
Start(part) ==
    /\ inner' = "run"
    /\ \E at \in {"sleep", "await"} : wrapper' = [at |-> at, part |-> part]

\* __raw_interaction_event(): the waiters' futures first, then the command.
raw_interaction_event ==
    /\ dispatched < scene.events /\ dispatch(dispatched + 1)
    /\ IF Followed(dispatched + 1) THEN Start("base") ELSE UNCHANGED <<wrapper, inner>>
    /\ UNCHANGED <<contextVars, scene, used>>

----------------------------------------------------------------------------
(* The wrapper *)

\* A result: the next coroutine of the command, if it has one.
Next_coroutine ==
    \/ wrapper' = [wrapper EXCEPT !.at = "ended"] /\ UNCHANGED inner
    \/ ctx.kind = "command" /\ wrapper.part = "base" /\ Start("sub")

\* An error: the error callback, if it has one, then StopCommand.
StopCommand ==
    /\ \/ wrapper' = [wrapper EXCEPT !.at = "ended"]
       \/ ctx.kind = "command" /\ wrapper' = [wrapper EXCEPT !.at = "error"]
    /\ UNCHANGED inner

Outcome == (inner = "returned" /\ Next_coroutine) \/ (inner = "raised" /\ StopCommand)

\* autodefer(): after its delay.
deferring_unawaited ==
    /\ wrapper.at = "sleep" /\ wrapper' = [wrapper EXCEPT !.at = "await"]
    /\ IF inner = "run" /\ ~ctx.deferred /\ ~ctx.responded THEN defer("wrapper", FALSE) ELSE UNCHANGED <<ctx, calls>>
    /\ UNCHANGED <<inner, discord, faults, blurred>>
deferring_never ==
    /\ wrapper.at = "sleep" /\ UNCHANGED contextVars
    /\ IF inner # "run" THEN Outcome
       ELSE wrapper' = [wrapper EXCEPT !.at = "await"] /\ UNCHANGED inner
deferring_func ==
    /\ wrapper.at = "sleep"
    /\ IF inner # "run" THEN Outcome /\ UNCHANGED contextVars
       ELSE IF ctx.deferred \/ ctx.responded
       THEN wrapper' = [wrapper EXCEPT !.at = "await"] /\ UNCHANGED <<inner, contextVars>>
       ELSE /\ \E edit_origin \in BOOLEAN : (edit_origin => ctx.kind = "component") /\ defer("wrapper", edit_origin)
            /\ wrapper' = [wrapper EXCEPT !.at = "defer"]
            /\ UNCHANGED <<inner, discord, faults, blurred>>
\* If its defer() raises, the coroutine goes on alone.
Deferred ==
    /\ wrapper.at = "defer" /\ ~InCall("wrapper")
    /\ \/ /\ calls["wrapper"].outcome = "returned"
          /\ wrapper' = [wrapper EXCEPT !.at = "await"] /\ UNCHANGED inner
       \/ calls["wrapper"].outcome = "raised" /\ StopCommand
    /\ UNCHANGED contextVars

Awaited == wrapper.at = "await" /\ Outcome /\ UNCHANGED contextVars

WrapperStep == (deferring_func \/ Deferred \/ Awaited) /\ UNCHANGED <<dispatchVars, scene, used>>

----------------------------------------------------------------------------
(* What users do *)

Respond(t) ==
    /\ used < scene.calls /\ used' = used + 1
    /\ Begin(t) /\ UNCHANGED <<dispatchVars, commandVars>>

UserCalls ==
    \/ inner = "run" /\ Respond("inner")
    \/ wrapper.at = "error" /\ Respond("wrapper")
    \/ \E w \in Waiters : waiter[w].at = "returned" /\ Followed(waiter[w].got) /\ Respond(w)

\* A coroutine ends; the error callback ends.
CoroutineEnds ==
    /\ \/ /\ inner = "run" /\ ~InCall("inner") /\ inner' \in {"returned", "raised"} /\ UNCHANGED wrapper
       \/ /\ wrapper.at = "error" /\ ~InCall("wrapper")
          /\ wrapper' = [wrapper EXCEPT !.at = "ended"] /\ UNCHANGED inner
    /\ UNCHANGED <<dispatchVars, contextVars, scene, used>>

----------------------------------------------------------------------------

\* wait_for() before the last event is dispatched (bound): nobody waits for nothing.
Waits(w) ==
    \/ WaiterStep(w) \/ Cancel(w)
    \/ dispatched < scene.events /\ \E timed \in scene.timed : wait_for(w, timed)
Others == UNCHANGED <<contextVars, commandVars, used>>
Aside == UNCHANGED <<dispatchVars, commandVars, used>>
Next ==
    \/ raw_interaction_event \/ WrapperStep \/ UserCalls \/ CoroutineEnds
    \/ \E w \in scene.waiters : Waits(w) /\ Others
    \/ \E t \in Tasks : (Serve(t) \/ (faults < scene.faults /\ ServeFault(t)) \/ Answer(t)) /\ Aside
    \/ wrapper.at # "off" /\ Expire /\ Aside
Spec == Init /\ [][Next]_vars

\* The event loop runs tasks and timers, and Discord answers; no user has to do anything.
Fairness ==
    /\ WF_vars(WrapperStep)
    /\ \A w \in Waiters : WF_vars(WaiterStep(w) /\ Others)
    /\ \A t \in Tasks : WF_vars((Serve(t) \/ Answer(t)) /\ Aside)
FairSpec == Spec /\ Fairness

----------------------------------------------------------------------------
(* Properties *)

TypeOK ==
    /\ DispatchType /\ ContextType
    /\ wrapper.at \in {"off", "sleep", "defer", "await", "error", "ended"}
    /\ inner \in {"off", "run", "returned", "raised"} /\ (InCall("inner") => inner = "run")
    /\ InCall("wrapper") => wrapper.at \in {"defer", "error"}

\* A decorated command that is still running after the delay has an answer, whoever gives it
\* and whatever else responds: unless a request has failed, or the interaction has
\* expired before anybody responded, which ends it too.
AutodeferAnswers == wrapper.at = "sleep" ~> inner # "run" \/ discord.answer # "none" \/ faults > 0
=============================================================================
