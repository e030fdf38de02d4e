------------------------------ MODULE Context ------------------------------
(***************************************************************************)
(* One context (client/context.py) and the methods by which its tasks      *)
(* respond to the interaction, against a Discord that accepts one initial  *)
(* response.  An answer carries no content but whether the user is shown   *)
(* what a call has sent.                                                   *)
(***************************************************************************)
EXTENDS Naturals

CONSTANT Tasks          \* tasks that have the context

VARIABLES ctx,          \* the context: what kind, responded, deferred, callback, message
          discord,      \* the interaction: its answer, its message, whether it shows "thinking"
          calls,        \* the call that each task is in
          faults,       \* requests that have failed
          blurred       \* history: an initial response has failed

contextVars == <<ctx, discord, calls, faults, blurred>>

Idle == [at |-> "idle", outcome |-> "returned"]
InCall(t) == calls[t].at # "idle"
Initial == {"create", "original"}      \* stages of an initial response
Open == discord.answer \in {"none", "expired"}

ContextInit ==
    /\ \E kind \in {"command", "component"} :
         ctx = [kind |-> kind, responded |-> FALSE, deferred |-> FALSE, callback |-> "none",
                message |-> IF kind = "component" THEN "its own" ELSE "none"]
    /\ discord = [answer |-> "none", original |-> FALSE, thinking |-> FALSE]
    /\ calls = [t \in Tasks |-> Idle]
    /\ faults = 0 /\ blurred = FALSE

----------------------------------------------------------------------------
(* The methods up to their first request.  clear is a history: no other initial *)
(* response overlaps the call and none has failed; popup() and the edit() of a   *)
(* component, which do not look at responded, come first.                        *)

Overlapped == \E u \in Tasks : calls[u].at \in Initial
Asks(t, method, request, about) ==
    LET mine == [at |-> request, method |-> method, about |-> about, served |-> "no", gives |-> "none", shown |-> FALSE,
                 clear |-> ~Overlapped /\ ~blurred /\ (method \in {"popup", "edit"} => ~ctx.responded)]
    IN  calls' = [u \in Tasks |->
            IF u = t THEN mine
            ELSE IF InCall(u) /\ request = "create" THEN [calls[u] EXCEPT !.clear = FALSE]
            ELSE calls[u]]

Create(t, method, type) == Asks(t, method, "create", type)

sendSwapped(t) ==
    LET callback == IF ctx.deferred THEN ctx.callback ELSE "message"
    IN  /\ ctx' = [ctx EXCEPT !.callback = callback]
        /\ IF ctx.responded THEN Create(t, "send", callback) ELSE Asks(t, "send", "followup", "none")
send(t) ==
    LET callback == IF ctx.deferred THEN ctx.callback ELSE "message"
    IN  /\ ctx' = [ctx EXCEPT !.callback = callback]
        /\ IF ctx.responded THEN Asks(t, "send", "followup", "none") ELSE Create(t, "send", callback)

\* Once responded, defer() does nothing.
deferAtOnce(t, edit_origin) ==
    /\ ~ctx.responded
    /\ LET callback == IF edit_origin THEN "deferred update" ELSE "deferred message"
       IN  /\ ctx' = [ctx EXCEPT !.deferred = TRUE, !.callback = callback, !.responded = TRUE]
           /\ Create(t, "defer", callback)
defer(t, edit_origin) ==
    /\ ~ctx.responded
    /\ LET callback == IF edit_origin THEN "deferred update" ELSE "deferred message"
       IN  /\ ctx' = [ctx EXCEPT !.deferred = TRUE, !.callback = callback]
           /\ Create(t, "defer", callback)

edit(t) ==
    IF ctx.kind = "command"
    THEN /\ UNCHANGED ctx
         /\ Asks(t, "edit", "edit", IF ctx.deferred /\ ctx.message # "none" THEN ctx.message ELSE "original")
    ELSE IF ~ctx.deferred
         THEN ctx' = [ctx EXCEPT !.callback = "update"] /\ Create(t, "edit", "update")
         ELSE /\ UNCHANGED ctx
              /\ IF ctx.callback # "deferred update" THEN Asks(t, "edit", "followup", "none")
                 ELSE Asks(t, "edit", "edit", "original")

delete(t) ==
    /\ ctx.kind = "command" /\ UNCHANGED ctx
    /\ Asks(t, "delete", "delete", IF ctx.responded /\ ctx.message # "none" THEN ctx.message ELSE "original")

popup(t) == UNCHANGED ctx /\ Create(t, "popup", "modal")

Begin(t) ==
    /\ ~InCall(t)
    /\ \/ send(t) \/ edit(t) \/ delete(t) \/ popup(t)
       \/ \E edit_origin \in BOOLEAN : (edit_origin => ctx.kind = "component") /\ defer(t, edit_origin)
    /\ UNCHANGED <<discord, faults, blurred>>

----------------------------------------------------------------------------
(* Discord *)

Accepts(c) ==
    CASE c.at = "create" -> discord.answer = "none"
      [] c.at = "followup" -> ~Open
      [] OTHER -> c.about = "original" => discord.original

\* The first followup of a deferred message takes its place.
Effect(c) ==
    CASE c.at = "create" -> [answer |-> c.about, original |-> c.about # "modal", thinking |-> c.about = "deferred message"]
      [] c.at \in {"followup", "edit"} -> [discord EXCEPT !.thinking = FALSE]
      [] c.at = "delete" /\ c.about = "original" -> [discord EXCEPT !.original = FALSE, !.thinking = FALSE]
      [] OTHER -> discord

Answered(c) == [c EXCEPT !.served = "ok",
    !.gives = IF c.at = "followup" /\ ~discord.thinking THEN "followup" ELSE IF c.at = "edit" THEN c.about ELSE "original",
    !.shown = @ \/ c.at \in {"followup", "edit"} \/ c.about \in {"message", "update"}]

Serve(t) ==
    LET c == calls[t]
    IN  /\ InCall(t) /\ c.served = "no"
        /\ IF Accepts(c)
           THEN discord' = Effect(c) /\ calls' = [calls EXCEPT ![t] = Answered(c)]
           ELSE /\ calls' = [calls EXCEPT ![t].served = IF Open THEN "unknown" ELSE "refused"]
                /\ UNCHANGED discord
        /\ UNCHANGED <<ctx, faults, blurred>>

\* A request that fails, before or after it has had its effect: with Discord's error or
\* with that of the connection.
ServeFault(t) ==
    LET c == calls[t]
    IN  /\ InCall(t) /\ c.served = "no"
        /\ faults' = faults + 1
        /\ \/ calls' = [calls EXCEPT ![t].served = "failed"] /\ UNCHANGED discord
           \/ /\ calls' = [calls EXCEPT ![t].served = "broken"]
              /\ discord' \in {discord} \cup (IF Accepts(c) THEN {Effect(c)} ELSE {})
        /\ UNCHANGED <<ctx, blurred>>

\* Nobody has answered within three seconds.
Expire ==
    /\ discord.answer = "none" /\ discord' = [discord EXCEPT !.answer = "expired"]
    /\ UNCHANGED <<ctx, calls, faults, blurred>>

----------------------------------------------------------------------------
(* The methods after an answer *)

\* Whether it has raised is kept of a defer(): autodefer() goes by it.
End(t, outcome) == calls' = [calls EXCEPT ![t] =
    [at |-> "idle", outcome |-> IF @.method = "defer" THEN outcome ELSE "returned"]]

\* Any error but the LibraryException of get_original_interaction_response() is raised,
\* and CommandContext.edit() only warns of a response that is not known.
Raises(c) ==
    \/ c.served = "broken"
    \/ c.served \in {"refused", "failed"} /\ c.at # "original"
    \/ c.served = "unknown" /\ c.at # "original" /\ ~(ctx.kind = "command" /\ c.method = "edit")

Raised(t) ==
    /\ Raises(calls[t]) /\ End(t, "raised")
    /\ blurred' = (blurred \/ (calls[t].served \in {"broken", "failed"} /\ calls[t].at \in Initial))
    /\ UNCHANGED ctx

\* After an initial response its message is asked for; only then is it known as such.
Created(t) ==
    LET c == calls[t]
    IN  /\ c.at = "create" /\ ~Raises(c)
        /\ IF c.method = "popup" THEN ctx' = [ctx EXCEPT !.responded = TRUE] /\ End(t, "returned")
           ELSE /\ calls' = [calls EXCEPT ![t] = [c EXCEPT !.at = "original", !.about = "original", !.served = "no"]]
                /\ UNCHANGED ctx
        /\ UNCHANGED blurred

FinishedUnmarked(t) ==
    LET c == calls[t]
    IN  /\ c.at # "create" /\ ~Raises(c) /\ End(t, "returned")
        /\ ctx' = [ctx EXCEPT !.message = c.gives] /\ UNCHANGED blurred

Finished(t) ==
    LET c == calls[t]
        responds == c.at = "original" \/ (c.at = "edit" /\ ctx.kind = "component")
        message == IF c.at = "delete" THEN "none"
                   ELSE IF c.served = "ok" /\ ~(c.method = "edit" /\ c.at = "followup") THEN c.gives ELSE ctx.message
    IN  /\ c.at # "create" /\ ~Raises(c) /\ End(t, "returned")
        /\ ctx' = [ctx EXCEPT !.responded = @ \/ responds, !.message = message]
        /\ UNCHANGED blurred

Answer(t) ==
    /\ InCall(t) /\ calls[t].served # "no"
    /\ Raised(t) \/ Created(t) \/ Finished(t)
    /\ UNCHANGED <<discord, faults>>

----------------------------------------------------------------------------
(* Properties *)

ContextType ==
    /\ ctx.message \in {"none", "its own", "original", "followup"} /\ faults \in Nat
    /\ ctx.callback \in {"none", "message", "update", "deferred message", "deferred update"}
    /\ \A t \in Tasks : calls[t].at \in {"idle", "followup", "edit", "delete"} \cup Initial

\* A context that says it has responded has: however its tasks interleave and
\* whatever fails, no later call sends a followup that nobody can see.
RespondedAnswered == ctx.responded => ~Open

\* An initial response is refused as a second one only if another overlapped it, or one
\* had failed before: or if it is a popup(), or the edit() of a component, after another.
RefusedOnlyRaced == \A t \in Tasks :
    InCall(t) /\ calls[t].at = "create" /\ calls[t].clear => calls[t].served # "refused"

\* A send() shows its message in time, whether it is the first response, follows one or
\* follows a deferral: unless it overlapped a deferral or one had failed, when it repeats the
\* deferral instead, without its message, or is refused.
SendShows == \A t \in Tasks :
    /\ InCall(t) /\ calls[t].method = "send" /\ calls[t].clear /\ discord.answer # "expired"
    /\ calls[t].served \in {"ok", "refused", "unknown"}
    => calls[t].shown
=============================================================================
