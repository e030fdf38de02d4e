------------------------- MODULE InteractionProofs -------------------------
(***************************************************************************)
(* What is claimed of contexts and of waiters, proved of Interaction for   *)
(* any waiters, scenes and numbers of calls, events and faults: one        *)
(* invariant for what a context and Discord know of each other, one for    *)
(* where the command's tasks are, one for the waiters and one for initial  *)
(* responses that race.                                                    *)
(***************************************************************************)
EXTENDS Interaction, TLAPS

Callbacks == {"message", "update", "deferred message", "deferred update"}
Messages == {"none", "its own", "original", "followup"}
Answers == Callbacks \cup {"modal"}

Contexts == [kind : {"command", "component"}, responded : BOOLEAN, deferred : BOOLEAN,
             callback : Callbacks \cup {"none"}, message : Messages]
Interactions == [answer : Answers \cup {"none", "expired"}, original : BOOLEAN, thinking : BOOLEAN]
Resting == [at : {"idle"}, outcome : {"returned", "raised"}]
Requests == [at : {"create", "original", "followup", "edit", "delete"},
             method : {"send", "defer", "edit", "delete", "popup"},
             about : Answers \cup Messages,
             served : {"no", "ok", "refused", "unknown", "failed", "broken"},
             gives : Messages, shown : BOOLEAN, clear : BOOLEAN]

Types ==
  /\ ctx \in Contexts /\ (ctx.deferred => ctx.callback # "none")
  /\ discord \in Interactions /\ (discord.original => ~Open)
  /\ calls \in [Tasks -> Resting \cup Requests]

\* What a request is about follows from where it is made: an initial response is never
\* empty, and the edit() of a command asks for nothing else.
AboutInv(c, kind) ==
  /\ c.at = "create" => c.about \in Answers
  /\ c.at = "edit" => c.about \in Messages
  /\ c.method = "edit" /\ kind = "command" => c.at = "edit"
  /\ c.at = "edit" /\ kind = "component" => c.about = "original"

\* Where responded is about to be set, Discord has the response.
AnsweredInv(c, kind, answered) ==
  /\ c.at = "create" /\ c.served = "ok" => answered
  /\ c.at = "original" => answered
  /\ c.at = "edit" /\ kind = "component" /\ c.served = "ok" => answered

CallInv == \A t \in Tasks : InCall(t) => AboutInv(calls[t], ctx.kind) /\ AnsweredInv(calls[t], ctx.kind, ~Open)

ContextInv == Types /\ CallInv /\ RespondedAnswered

----------------------------------------------------------------------------

LEMMA InitInv == Init => ContextInv
<1> SUFFICES ASSUME Init PROVE ContextInv
  OBVIOUS
<1>1. PICK kind \in {"command", "component"} :
          ctx = [kind |-> kind, responded |-> FALSE, deferred |-> FALSE, callback |-> "none",
                 message |-> IF kind = "component" THEN "its own" ELSE "none"]
  BY DEF Init, ContextInit
<1>2. ctx \in Contexts /\ ~ctx.deferred /\ ~ctx.responded
  BY <1>1 DEF Contexts, Callbacks, Messages
<1>3. discord \in Interactions /\ ~discord.original
  BY DEF Init, ContextInit, Interactions, Answers, Callbacks
<1>4. calls = [t \in Tasks |-> [at |-> "idle", outcome |-> "returned"]]
  BY DEF Init, ContextInit, Idle
<1>5. calls \in [Tasks -> Resting \cup Requests] /\ \A t \in Tasks : ~InCall(t)
  BY <1>4 DEF Resting, InCall
<1> QED BY <1>2, <1>3, <1>5 DEF ContextInv, Types, CallInv, RespondedAnswered

\* A method may begin with any request that is about what it should be.
LEMMA AsksKeeps ==
  ASSUME ContextInv, NEW t \in Tasks, UNCHANGED discord,
         NEW method \in {"send", "defer", "edit", "delete", "popup"},
         NEW request \in {"create", "followup", "edit", "delete"},
         NEW about \in Answers \cup Messages,
         Asks(t, method, request, about),
         request = "create" => about \in Answers,
         request = "edit" => about \in Messages,
         method = "edit" /\ ctx.kind = "command" => request = "edit",
         request = "edit" /\ ctx.kind = "component" => about = "original",
         ctx' \in Contexts, ctx'.kind = ctx.kind, ctx'.responded = ctx.responded,
         ctx'.deferred => ctx'.callback # "none"
  PROVE  ContextInv'
<1> DEFINE mine == [at |-> request, method |-> method, about |-> about, served |-> "no", gives |-> "none", shown |-> FALSE,
                    clear |-> ~Overlapped /\ ~blurred /\ (method \in {"popup", "edit"} => ~ctx.responded)]
           other(u) == IF InCall(u) /\ request = "create" THEN [calls[u] EXCEPT !.clear = FALSE] ELSE calls[u]
<1>1. calls' = [u \in Tasks |-> IF u = t THEN mine ELSE other(u)]
  <2>1. calls' = [u \in Tasks |-> IF u = t THEN mine
                    ELSE IF InCall(u) /\ request = "create" THEN [calls[u] EXCEPT !.clear = FALSE] ELSE calls[u]]
    BY DEF Asks
  <2> QED BY <2>1
<1>2. mine \in Requests
  <2>1. (~Overlapped /\ ~blurred /\ (method \in {"popup", "edit"} => ~ctx.responded)) \in BOOLEAN
    OBVIOUS
  <2> QED BY <2>1 DEF Requests, Messages
<1>3. ASSUME NEW u \in Tasks
      PROVE  /\ other(u) \in Resting \cup Requests
             /\ other(u).at = calls[u].at
             /\ InCall(u) => /\ other(u).method = calls[u].method
                             /\ other(u).about = calls[u].about
                             /\ other(u).served = calls[u].served
  <2>1. calls[u] \in Resting \cup Requests
    BY DEF ContextInv, Types
  <2>2. CASE InCall(u) /\ request = "create"
    <3>1. other(u) = [calls[u] EXCEPT !.clear = FALSE] /\ calls[u] \in Requests
      BY <2>1, <2>2 DEF InCall, Resting
    <3> HIDE DEF other
    <3> QED BY <3>1 DEF Requests
  <2>3. CASE ~(InCall(u) /\ request = "create")
    <3>1. other(u) = calls[u]
      BY <2>3
    <3> HIDE DEF other
    <3> QED BY <2>1, <3>1
  <2> QED BY <2>2, <2>3
<1>4. Open' = Open
  BY DEF Open
<1>5. Types'
  <2>1. calls' \in [Tasks -> Resting \cup Requests]
    BY <1>1, <1>2, <1>3
  <2> QED BY <2>1, <1>4 DEF ContextInv, Types
<1>6. CallInv'
  <2> SUFFICES ASSUME NEW u \in Tasks, InCall(u)'
               PROVE  AboutInv(calls'[u], ctx'.kind) /\ AnsweredInv(calls'[u], ctx'.kind, ~Open')
    BY DEF CallInv, AboutInv
  <2>1. CASE u = t
    <3>1. calls'[u] = mine
      BY <1>1, <2>1
    <3> QED BY <3>1, <1>4 DEF AboutInv, AnsweredInv, ContextInv, Types, Contexts
  <2>2. CASE u # t
    <3>1. calls'[u] = other(u)
      BY <1>1, <2>2
    <3>2. InCall(u)
      BY <3>1, <1>3 DEF InCall
    <3> HIDE DEF other
    <3> QED BY <3>1, <3>2, <1>3, <1>4 DEF AboutInv, AnsweredInv, ContextInv, CallInv
  <2> QED BY <2>1, <2>2
<1>7. RespondedAnswered'
  BY <1>4 DEF RespondedAnswered, ContextInv
<1> QED BY <1>5, <1>6, <1>7 DEF ContextInv

\* Every method begins with such a request.
LEMMA CallbackKept ==
  ASSUME ContextInv, NEW callback \in Callbacks, NEW deferred \in BOOLEAN,
         ctx' = [ctx EXCEPT !.deferred = deferred, !.callback = callback]
  PROVE  /\ ctx' \in Contexts /\ ctx'.kind = ctx.kind /\ ctx'.responded = ctx.responded
         /\ ctx'.callback # "none"
BY DEF ContextInv, Types, Contexts, Callbacks

LEMMA SendKeeps ==
  ASSUME ContextInv, NEW t \in Tasks, UNCHANGED discord, send(t)
  PROVE  ContextInv'
<1> DEFINE callback == IF ctx.deferred THEN ctx.callback ELSE "message"
<1>1. callback \in Callbacks /\ ctx.deferred \in BOOLEAN
  BY DEF ContextInv, Types, Contexts, Callbacks
<1>2. /\ ctx' = [ctx EXCEPT !.callback = callback]
      /\ IF ctx.responded THEN Asks(t, "send", "followup", "none") ELSE Asks(t, "send", "create", callback)
  BY DEF send, Create
<1>3. ctx' = [ctx EXCEPT !.deferred = ctx.deferred, !.callback = callback]
  BY <1>2 DEF ContextInv, Types, Contexts
<1> HIDE DEF callback
<1>4. /\ ctx' \in Contexts /\ ctx'.kind = ctx.kind /\ ctx'.responded = ctx.responded
      /\ ctx'.callback # "none"
  BY <1>1, <1>3, CallbackKept
<1>5. CASE ctx.responded
  <2>1. Asks(t, "send", "followup", "none") /\ "none" \in Answers \cup Messages
    BY <1>2, <1>5 DEF Messages
  <2> QED BY <1>4, <2>1, AsksKeeps
<1>6. CASE ~ctx.responded
  <2>1. Asks(t, "send", "create", callback) /\ callback \in Answers /\ callback \in Answers \cup Messages
    BY <1>1, <1>2, <1>6 DEF Answers
  <2> QED BY <1>4, <2>1, AsksKeeps
<1> QED BY <1>5, <1>6

LEMMA DeferKeeps ==
  ASSUME ContextInv, NEW t \in Tasks, UNCHANGED discord,
         NEW edit_origin \in BOOLEAN, defer(t, edit_origin)
  PROVE  ContextInv'
<1> DEFINE callback == IF edit_origin THEN "deferred update" ELSE "deferred message"
<1>1. callback \in Callbacks /\ callback \in Answers /\ callback \in Answers \cup Messages
  BY DEF Callbacks, Answers
<1>2. ctx' = [ctx EXCEPT !.deferred = TRUE, !.callback = callback] /\ Asks(t, "defer", "create", callback)
  BY DEF defer, Create
<1> HIDE DEF callback
<1>3. /\ ctx' \in Contexts /\ ctx'.kind = ctx.kind /\ ctx'.responded = ctx.responded
      /\ ctx'.callback # "none"
  BY <1>1, <1>2, CallbackKept
<1> QED BY <1>1, <1>2, <1>3, AsksKeeps

\* The methods that leave the context alone until they are answered.
LEMMA SameContext ==
  ASSUME ContextInv, UNCHANGED ctx
  PROVE  ctx' \in Contexts /\ ctx'.kind = ctx.kind /\ ctx'.responded = ctx.responded /\ (ctx'.deferred => ctx'.callback # "none")
BY DEF ContextInv, Types

LEMMA EditKeeps ==
  ASSUME ContextInv, NEW t \in Tasks, UNCHANGED discord, edit(t)
  PROVE  ContextInv'
<1> DEFINE message == IF ctx.deferred /\ ctx.message # "none" THEN ctx.message ELSE "original"
<1>1. message \in Messages /\ message \in Answers \cup Messages
  BY DEF ContextInv, Types, Contexts, Messages
<1>2. {"none", "original", "update"} \subseteq Answers \cup Messages /\ "update" \in Answers /\ "original" \in Messages
      /\ "update" \in Callbacks /\ ctx.deferred \in BOOLEAN
  BY DEF Answers, Messages, Callbacks, ContextInv, Types, Contexts
<1>3. CASE ctx.kind = "command"
  <2>1. UNCHANGED ctx /\ Asks(t, "edit", "edit", message)
    BY <1>3 DEF edit
  <2> HIDE DEF message
  <2> QED BY <1>1, <1>3, <2>1, SameContext, AsksKeeps
<1>4. CASE ctx.kind # "command" /\ ~ctx.deferred
  <2>1. ctx' = [ctx EXCEPT !.callback = "update"] /\ Asks(t, "edit", "create", "update")
    BY <1>4 DEF edit, Create
  <2>2. ctx' = [ctx EXCEPT !.deferred = ctx.deferred, !.callback = "update"]
    BY <2>1 DEF ContextInv, Types, Contexts
  <2>3. /\ ctx' \in Contexts /\ ctx'.kind = ctx.kind /\ ctx'.responded = ctx.responded
        /\ ctx'.callback # "none"
    BY <1>2, <2>2, CallbackKept
  <2> QED BY <1>2, <1>4, <2>1, <2>3, AsksKeeps
<1>5. CASE ctx.kind # "command" /\ ctx.deferred /\ ctx.callback # "deferred update"
  <2>1. UNCHANGED ctx /\ Asks(t, "edit", "followup", "none")
    BY <1>5 DEF edit
  <2> QED BY <1>2, <1>5, <2>1, SameContext, AsksKeeps
<1>6. CASE ctx.kind # "command" /\ ctx.deferred /\ ctx.callback = "deferred update"
  <2>1. UNCHANGED ctx /\ Asks(t, "edit", "edit", "original")
    BY <1>6 DEF edit
  <2> QED BY <1>2, <1>6, <2>1, SameContext, AsksKeeps
<1> QED BY <1>3, <1>4, <1>5, <1>6

LEMMA DeleteKeeps ==
  ASSUME ContextInv, NEW t \in Tasks, UNCHANGED discord, delete(t)
  PROVE  ContextInv'
<1> DEFINE message == IF ctx.responded /\ ctx.message # "none" THEN ctx.message ELSE "original"
<1>1. message \in Answers \cup Messages
  BY DEF ContextInv, Types, Contexts, Messages
<1>2. UNCHANGED ctx /\ Asks(t, "delete", "delete", message)
  BY DEF delete
<1> HIDE DEF message
<1> QED BY <1>1, <1>2, SameContext, AsksKeeps

LEMMA PopupKeeps ==
  ASSUME ContextInv, NEW t \in Tasks, UNCHANGED discord, popup(t)
  PROVE  ContextInv'
<1>1. UNCHANGED ctx /\ Asks(t, "popup", "create", "modal") /\ "modal" \in Answers /\ "modal" \in Answers \cup Messages
  BY DEF popup, Create, Answers
<1> QED BY <1>1, SameContext, AsksKeeps

LEMMA BeginKeeps ==
  ASSUME ContextInv, NEW t \in Tasks, Begin(t)
  PROVE  ContextInv'
<1> USE DEF Begin
<1>1. CASE send(t) BY <1>1, SendKeeps
<1>2. CASE edit(t) BY <1>2, EditKeeps
<1>3. CASE delete(t) BY <1>3, DeleteKeeps
<1>4. CASE popup(t) BY <1>4, PopupKeeps
<1>5. ASSUME NEW edit_origin \in BOOLEAN, defer(t, edit_origin) PROVE ContextInv'
  BY <1>5, DeferKeeps
<1> QED BY <1>1, <1>2, <1>3, <1>4, <1>5

----------------------------------------------------------------------------
(* Discord's side *)

\* What is left of a step that only moves on the call of t, or none: the others'
\* claims stand as long as an interaction that was answered stays so.
LEMMA OthersKeep ==
  ASSUME ContextInv, NEW t \in Tasks, NEW c \in Resting \cup Requests,
         calls' = [calls EXCEPT ![t] = c],
         ctx' \in Contexts, ctx'.kind = ctx.kind, ctx'.deferred => ctx'.callback # "none",
         discord' \in Interactions, discord'.original => ~Open',
         ~Open => ~Open',
         ctx'.responded => ~Open',
         c.at # "idle" => AboutInv(c, ctx.kind) /\ AnsweredInv(c, ctx.kind, ~Open')
  PROVE  ContextInv'
<1>1. Types'
  BY DEF ContextInv, Types
<1>2. CallInv'
  <2> SUFFICES ASSUME NEW u \in Tasks, InCall(u)'
               PROVE  AboutInv(calls'[u], ctx'.kind) /\ AnsweredInv(calls'[u], ctx'.kind, ~Open')
    BY DEF CallInv, AboutInv
  <2>1. CASE u = t
    <3>1. calls'[u] = c
      BY <2>1 DEF ContextInv, Types
    <3> QED BY <3>1 DEF AboutInv, AnsweredInv, InCall
  <2>2. CASE u # t
    <3>1. calls'[u] = calls[u] /\ InCall(u)
      BY <2>2 DEF ContextInv, Types, InCall
    <3> QED BY <3>1 DEF AboutInv, AnsweredInv, ContextInv, CallInv
  <2> QED BY <2>1, <2>2
<1>3. RespondedAnswered'
  BY DEF RespondedAnswered
<1> QED BY <1>1, <1>2, <1>3 DEF ContextInv

\* A request that is accepted leaves the interaction answered.
LEMMA EffectAnswers ==
  ASSUME ContextInv, NEW c \in Requests, Accepts(c), AboutInv(c, ctx.kind), AnsweredInv(c, ctx.kind, ~Open), discord' = Effect(c)
  PROVE  /\ discord' \in Interactions /\ (discord'.original => ~Open')
         /\ (~Open => ~Open') /\ (c.at \in {"create", "followup"} => ~Open')
         /\ (c.at = "edit" /\ c.about = "original" => ~Open')
<1> USE DEF Requests, Interactions
<1>1. CASE c.at = "create"
  <2> DEFINE original == c.about # "modal"
             thinking == c.about = "deferred message"
  <2>1. discord' = [answer |-> c.about, original |-> original, thinking |-> thinking]
    BY <1>1 DEF Effect
  <2>2. c.about \in Answers /\ c.about \notin {"none", "expired"}
    BY <1>1 DEF AboutInv, Answers, Callbacks
  <2>3. original \in BOOLEAN /\ thinking \in BOOLEAN
    OBVIOUS
  <2> HIDE DEF original, thinking
  <2>4. discord' \in Interactions /\ discord'.answer = c.about
    BY <2>1, <2>2, <2>3
  <2> QED BY <1>1, <2>2, <2>4 DEF Open
<1>2. CASE c.at \in {"followup", "edit"}
  <2>1. discord' = [discord EXCEPT !.thinking = FALSE]
    BY <1>2 DEF Effect
  <2>2. (c.at = "followup" => ~Open) /\ (c.at = "edit" /\ c.about = "original" => discord.original)
    BY <1>2 DEF Accepts
  <2> QED BY <1>2, <2>1, <2>2 DEF Open, ContextInv, Types
<1>3. CASE c.at \in {"delete", "original"}
  <2>1. discord' = [discord EXCEPT !.original = FALSE, !.thinking = FALSE] \/ discord' = discord
    BY <1>3 DEF Effect
  <2> QED BY <1>3, <2>1 DEF Open, ContextInv, Types
<1> QED BY <1>1, <1>2, <1>3

LEMMA CallTypes ==
  ASSUME ContextInv, NEW t \in Tasks, InCall(t)
  PROVE  calls[t] \in Requests /\ AboutInv(calls[t], ctx.kind) /\ AnsweredInv(calls[t], ctx.kind, ~Open)
BY DEF ContextInv, Types, CallInv, InCall, Resting

\* Whether a request has been served says nothing of what it is about.
LEMMA ServedTypes ==
  ASSUME NEW c \in Requests, NEW kind, AboutInv(c, kind),
         NEW served \in {"ok", "refused", "unknown", "failed", "broken"}
  PROVE  /\ [c EXCEPT !.served = served] \in Requests
         /\ AboutInv([c EXCEPT !.served = served], kind)
BY DEF Requests, AboutInv

LEMMA ServeKeeps ==
  ASSUME ContextInv, NEW t \in Tasks, Serve(t)
  PROVE  ContextInv'
<1> DEFINE c == calls[t]
<1>1. InCall(t) /\ c.served = "no" /\ UNCHANGED ctx
  BY DEF Serve
<1>2. c \in Requests /\ AboutInv(c, ctx.kind) /\ AnsweredInv(c, ctx.kind, ~Open)
  BY <1>1, CallTypes
<1>3. ctx' \in Contexts /\ ctx'.kind = ctx.kind /\ (ctx'.deferred => ctx'.callback # "none") /\ (ctx'.responded => ~Open)
  BY <1>1 DEF ContextInv, Types, RespondedAnswered
<1>4. CASE Accepts(c)
  <2> DEFINE d == Answered(c)
  <2>1. discord' = Effect(c) /\ calls' = [calls EXCEPT ![t] = d]
    BY <1>4 DEF Serve
  <2>2. /\ discord' \in Interactions /\ (discord'.original => ~Open')
        /\ (~Open => ~Open') /\ (c.at \in {"create", "followup"} => ~Open')
        /\ (c.at = "edit" /\ c.about = "original" => ~Open')
    BY <1>2, <1>4, <2>1, EffectAnswers
  <2>3. d \in Requests /\ d.at = c.at /\ d.about = c.about /\ d.method = c.method
    <3> DEFINE gives == IF c.at = "followup" /\ ~discord.thinking THEN "followup" ELSE IF c.at = "edit" THEN c.about ELSE "original"
               shown == c.shown \/ c.at \in {"followup", "edit"} \/ c.about \in {"message", "update"}
    <3>1. d = [c EXCEPT !.served = "ok", !.gives = gives, !.shown = shown]
      BY <1>2 DEF Answered, Requests
    <3>2. gives \in Messages
      BY <1>2 DEF AboutInv, Messages
    <3>3. shown \in BOOLEAN
      BY <1>2 DEF Requests
    <3> HIDE DEF d, gives, shown
    <3> QED BY <1>2, <3>1, <3>2, <3>3 DEF Requests
  <2>4. AboutInv(d, ctx.kind) /\ AnsweredInv(d, ctx.kind, ~Open')
    <3> HIDE DEF d
    <3> QED BY <1>1, <1>2, <2>2, <2>3 DEF AboutInv, AnsweredInv
  <2> HIDE DEF d
  <2> QED BY <1>3, <2>1, <2>2, <2>3, <2>4, OthersKeep
<1>5. CASE ~Accepts(c)
  <2>1. PICK served \in {"unknown", "refused"} : calls' = [calls EXCEPT ![t].served = served]
    BY <1>5 DEF Serve
  <2> DEFINE d == [c EXCEPT !.served = served]
  <2>2. calls' = [calls EXCEPT ![t] = d] /\ UNCHANGED discord
    BY <1>5, <2>1 DEF Serve
  <2>3. d \in Requests /\ AboutInv(d, ctx.kind) /\ d.at = c.at /\ d.served # "ok"
    <3>1. d \in Requests /\ AboutInv(d, ctx.kind)
      BY <1>2, ServedTypes
    <3>2. d.at = c.at /\ d.served # "ok"
      BY <1>2 DEF Requests
    <3> QED BY <3>1, <3>2
  <2>4. AnsweredInv(d, ctx.kind, ~Open')
    <3> HIDE DEF d
    <3> QED BY <1>2, <2>2, <2>3 DEF AnsweredInv, Open
  <2> HIDE DEF d
  <2> QED BY <1>3, <2>2, <2>3, <2>4, OthersKeep DEF ContextInv, Types, Open
<1> QED BY <1>4, <1>5

\* A request that fails may have had its effect.
LEMMA FaultKeeps ==
  ASSUME ContextInv, NEW t \in Tasks, ServeFault(t)
  PROVE  ContextInv'
<1> DEFINE c == calls[t]
<1>1. InCall(t) /\ c.served = "no" /\ UNCHANGED ctx
  BY DEF ServeFault
<1>2. c \in Requests /\ AboutInv(c, ctx.kind) /\ AnsweredInv(c, ctx.kind, ~Open)
  BY <1>1, CallTypes
<1>3. ctx' \in Contexts /\ ctx'.kind = ctx.kind /\ (ctx'.deferred => ctx'.callback # "none") /\ (ctx'.responded => ~Open)
  BY <1>1 DEF ContextInv, Types, RespondedAnswered
<1>4. PICK served \in {"failed", "broken"} : calls' = [calls EXCEPT ![t].served = served]
  BY DEF ServeFault
<1> DEFINE d == [c EXCEPT !.served = served]
<1>5. calls' = [calls EXCEPT ![t] = d] /\ d \in Requests /\ AboutInv(d, ctx.kind) /\ d.at = c.at /\ d.served # "ok"
  <2>1. calls' = [calls EXCEPT ![t] = d]
    BY <1>4
  <2>2. d \in Requests /\ AboutInv(d, ctx.kind)
    BY <1>2, ServedTypes
  <2>3. d.at = c.at /\ d.served # "ok"
    BY <1>2 DEF Requests
  <2> QED BY <2>1, <2>2, <2>3
<1>6. discord' \in Interactions /\ (discord'.original => ~Open') /\ (~Open => ~Open')
  <2>1. CASE discord' = discord
    BY <2>1 DEF ContextInv, Types, Open
  <2>2. CASE Accepts(c) /\ discord' = Effect(c)
    BY <1>2, <2>2, EffectAnswers
  <2> QED BY <2>1, <2>2 DEF ServeFault
<1> HIDE DEF d
<1>7. AnsweredInv(d, ctx.kind, ~Open')
  BY <1>2, <1>5, <1>6 DEF AnsweredInv
<1> QED BY <1>3, <1>5, <1>6, <1>7, OthersKeep

LEMMA ExpireKeeps ==
  ASSUME ContextInv, Expire
  PROVE  ContextInv'
<1>1. Open /\ ~discord.original /\ ~ctx.responded /\ UNCHANGED <<ctx, calls>>
  BY DEF Expire, Open, ContextInv, Types, RespondedAnswered
<1>2. discord' \in Interactions /\ ~discord'.original /\ discord'.answer = "expired"
  BY <1>1 DEF Expire, ContextInv, Types, Interactions
<1>3. Types' /\ Open'
  BY <1>1, <1>2 DEF ContextInv, Types, Open
<1>4. CallInv'
  <2> SUFFICES ASSUME NEW u \in Tasks, InCall(u)'
               PROVE  AboutInv(calls'[u], ctx'.kind) /\ AnsweredInv(calls'[u], ctx'.kind, ~Open')
    BY DEF CallInv, AboutInv, AnsweredInv
  <2>1. InCall(u)
    BY <1>1 DEF InCall
  <2> QED BY <1>1, <1>3, <2>1, CallTypes DEF AboutInv, AnsweredInv
<1> QED BY <1>1, <1>3, <1>4 DEF ContextInv, RespondedAnswered

----------------------------------------------------------------------------
(* After an answer *)

LEMMA EndTypes ==
  ASSUME ContextInv, NEW t \in Tasks, NEW outcome \in {"returned", "raised"}, End(t, outcome)
  PROVE  \E c \in Resting : calls' = [calls EXCEPT ![t] = c] /\ c.at = "idle"
<1> DEFINE result == IF calls[t].method = "defer" THEN outcome ELSE "returned"
           c == [at |-> "idle", outcome |-> result]
<1>1. result \in {"returned", "raised"}
  OBVIOUS
<1>2. calls' = [calls EXCEPT ![t] = c]
  BY DEF End, ContextInv, Types
<1> HIDE DEF result
<1>3. c \in Resting /\ c.at = "idle"
  BY <1>1 DEF Resting
<1> QED BY <1>2, <1>3

\* What has not raised was answered with success, if it is about to set responded.
LEMMA NotRaised ==
  ASSUME ContextInv, NEW t \in Tasks, InCall(t), calls[t].served # "no", ~Raises(calls[t]),
         calls[t].at \in {"create", "original"} \/ (calls[t].at = "edit" /\ ctx.kind = "component")
  PROVE  ~Open
<1>1. calls[t] \in Requests /\ AboutInv(calls[t], ctx.kind) /\ AnsweredInv(calls[t], ctx.kind, ~Open)
  BY CallTypes
<1>2. CASE calls[t].at = "original"
  BY <1>1, <1>2 DEF AnsweredInv
<1>3. CASE calls[t].at # "original"
  <2>1. calls[t].served = "ok"
    BY <1>1, <1>3 DEF Raises, Requests, AboutInv
  <2> QED BY <1>1, <1>3, <2>1 DEF AnsweredInv
<1> QED BY <1>2, <1>3

\* A method that ends: only the context and its own call change.
LEMMA EndKeeps ==
  ASSUME ContextInv, NEW t \in Tasks, NEW outcome \in {"returned", "raised"}, End(t, outcome), UNCHANGED discord,
         ctx' \in Contexts, ctx'.kind = ctx.kind, ctx'.deferred => ctx'.callback # "none",
         ctx'.responded => ~Open
  PROVE  ContextInv'
<1>1. PICK c \in Resting : calls' = [calls EXCEPT ![t] = c] /\ c.at = "idle"
  BY EndTypes
<1>2. Open' = Open /\ discord' \in Interactions /\ (discord'.original => ~Open')
  BY DEF Open, ContextInv, Types
<1> QED BY <1>1, <1>2, OthersKeep

LEMMA CreatedKeeps ==
  ASSUME ContextInv, NEW t \in Tasks, InCall(t), calls[t].served # "no", UNCHANGED discord, Created(t)
  PROVE  ContextInv'
<1>1. calls[t].at = "create" /\ ~Open
  BY NotRaised DEF Created
<1>2. calls[t] \in Requests /\ AboutInv(calls[t], ctx.kind)
  BY CallTypes
<1>3. CASE calls[t].method = "popup"
  <2>1. ctx' = [ctx EXCEPT !.responded = TRUE] /\ End(t, "returned")
    BY <1>3 DEF Created
  <2>2. ctx' \in Contexts /\ ctx'.kind = ctx.kind /\ (ctx'.deferred => ctx'.callback # "none")
    BY <2>1 DEF ContextInv, Types, Contexts
  <2> QED BY <1>1, <2>1, <2>2, EndKeeps
<1>4. CASE calls[t].method # "popup"
  <2> DEFINE d == [calls[t] EXCEPT !.at = "original", !.about = "original", !.served = "no"]
  <2>1. calls' = [calls EXCEPT ![t] = d] /\ UNCHANGED ctx
    BY <1>4 DEF Created
  <2>2. d \in Requests /\ d.at = "original" /\ d.method = calls[t].method
    BY <1>2 DEF Requests, Messages
  <2> HIDE DEF d
  <2>3. AboutInv(d, ctx.kind) /\ AnsweredInv(d, ctx.kind, ~Open')
    BY <1>1, <1>2, <2>2 DEF AboutInv, AnsweredInv, Open
  <2> QED BY <1>1, <2>1, <2>2, <2>3, OthersKeep DEF ContextInv, Types, Open
<1> QED BY <1>3, <1>4

LEMMA FinishedKeeps ==
  ASSUME ContextInv, NEW t \in Tasks, InCall(t), calls[t].served # "no", UNCHANGED discord, Finished(t)
  PROVE  ContextInv'
<1> DEFINE c == calls[t]
           responds == c.at = "original" \/ (c.at = "edit" /\ ctx.kind = "component")
           responded == ctx.responded \/ responds
           message == IF c.at = "delete" THEN "none"
                      ELSE IF c.served = "ok" /\ ~(c.method = "edit" /\ c.at = "followup") THEN c.gives ELSE ctx.message
<1>1. ctx' = [ctx EXCEPT !.responded = responded, !.message = message] /\ End(t, "returned") /\ ~Raises(c)
  BY DEF Finished, ContextInv, Types, Contexts
<1>2. responded \in BOOLEAN /\ message \in Messages
  BY CallTypes DEF Requests, ContextInv, Types, Contexts, Messages
<1>3. responded => ~Open
  BY <1>1, NotRaised DEF ContextInv, RespondedAnswered
<1> HIDE DEF responded, message
<1>4. ctx' \in Contexts /\ ctx'.kind = ctx.kind /\ (ctx'.deferred => ctx'.callback # "none") /\ ctx'.responded = responded
  BY <1>1, <1>2 DEF ContextInv, Types, Contexts
<1> QED BY <1>1, <1>3, <1>4, EndKeeps

LEMMA AnswerKeeps ==
  ASSUME ContextInv, NEW t \in Tasks, Answer(t)
  PROVE  ContextInv'
<1>1. InCall(t) /\ calls[t].served # "no" /\ UNCHANGED discord
  BY DEF Answer
<1>2. CASE Raised(t)
  <2>1. End(t, "raised") /\ UNCHANGED ctx
    BY <1>2 DEF Raised
  <2> QED BY <1>1, <2>1, EndKeeps DEF ContextInv, Types, RespondedAnswered
<1>3. CASE Created(t)
  BY <1>1, <1>3, CreatedKeeps
<1>4. CASE Finished(t)
  BY <1>1, <1>4, FinishedKeeps
<1> QED BY <1>2, <1>3, <1>4 DEF Answer

----------------------------------------------------------------------------
(* The whole *)

LEMMA SameKeeps ==
  ASSUME ContextInv, UNCHANGED contextVars
  PROVE  ContextInv'
BY DEF ContextInv, Types, CallInv, AboutInv, AnsweredInv, RespondedAnswered, Open, InCall, contextVars

\* The wrapper responds by defer() only.
LEMMA WrapperKeeps ==
  ASSUME ContextInv, WrapperStep
  PROVE  ContextInv'
<1>1. CASE UNCHANGED contextVars
  BY <1>1, SameKeeps
<1>2. CASE ~UNCHANGED contextVars
  <2>1. PICK edit_origin \in BOOLEAN : defer("wrapper", edit_origin) /\ UNCHANGED discord
    BY <1>2 DEF WrapperStep, deferring_func, Deferred, Awaited
  <2>2. "wrapper" \in Tasks
    BY InteractionAssumption
  <2> QED BY <2>1, <2>2, DeferKeeps
<1> QED BY <1>1, <1>2

LEMMA NextKeeps ==
  ASSUME ContextInv, [Next]_vars
  PROVE  ContextInv'
<1>1. CASE raw_interaction_event
  BY <1>1, SameKeeps DEF raw_interaction_event
<1>2. CASE WrapperStep
  BY <1>2, WrapperKeeps
<1>3. CASE UserCalls
  <2>1. PICK t \in Tasks : Respond(t)
    BY <1>3, InteractionAssumption DEF UserCalls
  <2> QED BY <2>1, BeginKeeps DEF Respond
<1>4. CASE CoroutineEnds
  BY <1>4, SameKeeps DEF CoroutineEnds
<1>5. CASE \E w \in scene.waiters : Waits(w) /\ Others
  BY <1>5, SameKeeps DEF Others
<1>6. ASSUME NEW t \in Tasks, Serve(t) \/ ServeFault(t) \/ Answer(t) PROVE ContextInv'
  BY <1>6, ServeKeeps, FaultKeeps, AnswerKeeps
<1>7. CASE Expire
  BY <1>7, ExpireKeeps
<1>8. CASE UNCHANGED vars
  BY <1>8, SameKeeps DEF vars
<1> QED BY <1>1, <1>2, <1>3, <1>4, <1>5, <1>6, <1>7, <1>8 DEF Next

----------------------------------------------------------------------------
(* The waiters *)

\* list.remove() of an element that the list has at most once.
LEMMA RemoveOnce ==
  ASSUME NEW S, NEW s \in Seq(S), IsInjective(s), NEW e
  PROVE  /\ RemoveFirst(s, e) \in Seq(S) /\ IsInjective(RemoveFirst(s, e))
         /\ Range(RemoveFirst(s, e)) = Range(s) \ {e}
<1>1. CASE \A i \in 1..Len(s) : s[i] # e
  <2>1. RemoveFirst(s, e) = s
    BY <1>1 DEF RemoveFirst
  <2> QED BY <1>1, <2>1 DEF Range
<1>2. CASE \E i \in 1..Len(s) : s[i] = e
  <2>1. PICK i \in 1..Len(s) : s[i] = e
    BY <1>2
  <2> DEFINE at == {j \in 1..Len(s) : s[j] = e}
             r == SubSeq(s, 1, i - 1) \o SubSeq(s, i + 1, Len(s))
  <2>2. at = {i}
    BY <2>1 DEF IsInjective
  <2>3. SelectInSeq(s, LAMBDA v : v = e) = i
    <3>1. SelectInSeq(s, LAMBDA v : v = e) = Min(at)
      BY <2>2 DEF SelectInSeq
    <3>2. Min({i}) = i
      BY DEF Min
    <3> QED BY <2>2, <3>1, <3>2
  <2>4. RemoveFirst(s, e) = r
    BY <1>2, <2>3 DEF RemoveFirst, RemoveAt
  <2>5. /\ r \in Seq(S) /\ Len(r) = Len(s) - 1
        /\ \A k \in 1..Len(s) - 1 : r[k] = s[IF k < i THEN k ELSE k + 1]
    <3> DEFINE p == SubSeq(s, 1, i - 1)
               q == SubSeq(s, i + 1, Len(s))
    <3>1. p \in Seq(S) /\ Len(p) = i - 1 /\ \A k \in 1..i - 1 : p[k] = s[k]
      OBVIOUS
    <3>2. q \in Seq(S) /\ Len(q) = Len(s) - i /\ \A k \in 1..Len(s) - i : q[k] = s[k + i]
      OBVIOUS
    <3>3. r = p \o q
      OBVIOUS
    <3> HIDE DEF p, q, r
    <3>4. r \in Seq(S) /\ Len(r) = Len(s) - 1
      BY <3>1, <3>2, <3>3
    <3>5. ASSUME NEW k \in 1..Len(s) - 1 PROVE r[k] = s[IF k < i THEN k ELSE k + 1]
      <4>1. r[k] = IF k <= Len(p) THEN p[k] ELSE q[k - Len(p)]
        BY <3>1, <3>2, <3>3
      <4> QED BY <3>1, <3>2, <4>1
    <3> QED BY <3>4, <3>5
  <2> HIDE DEF r
  <2>6. Range(s) \ {e} \subseteq Range(r)
    <3> SUFFICES ASSUME NEW k \in 1..Len(s), k # i PROVE s[k] \in Range(r)
      BY <2>1 DEF Range
    <3> DEFINE j == IF k < i THEN k ELSE k - 1
    <3>1. j \in 1..Len(s) - 1 /\ (IF j < i THEN j ELSE j + 1) = k
      OBVIOUS
    <3> HIDE DEF j
    <3>2. r[j] = s[k] /\ j \in DOMAIN r
      BY <2>5, <3>1
    <3> QED BY <3>2 DEF Range
  <2>7. Range(r) \subseteq Range(s) \ {e}
    <3> SUFFICES ASSUME NEW k \in 1..Len(s) - 1 PROVE r[k] \in Range(s) \ {e}
      BY <2>5 DEF Range
    <3> DEFINE j == IF k < i THEN k ELSE k + 1
    <3>1. j \in 1..Len(s) /\ j # i /\ r[k] = s[j]
      BY <2>5
    <3> HIDE DEF j
    <3> QED BY <2>1, <3>1 DEF IsInjective, Range
  <2>8. IsInjective(r)
    <3> SUFFICES ASSUME NEW k \in 1..Len(s) - 1, NEW l \in 1..Len(s) - 1, r[k] = r[l] PROVE k = l
      BY <2>5 DEF IsInjective
    <3> DEFINE from(m) == IF m < i THEN m ELSE m + 1
    <3>1. from(k) \in 1..Len(s) /\ from(l) \in 1..Len(s) /\ s[from(k)] = s[from(l)]
      BY <2>5
    <3>2. from(k) = from(l)
      <4> HIDE DEF from
      <4> QED BY <3>1 DEF IsInjective
    <3> QED BY <3>2
  <2> QED BY <2>4, <2>5, <2>6, <2>7, <2>8
<1> QED BY <1>1, <1>2
LEMMA AppendOnce ==
  ASSUME NEW S, NEW s \in Seq(S), IsInjective(s), NEW e \in S, e \notin Range(s)
  PROVE  Append(s, e) \in Seq(S) /\ IsInjective(Append(s, e)) /\ Range(Append(s, e)) = Range(s) \cup {e}
BY DEF IsInjective, Range

\* What the code can hold of a waiter and of its future.
WaiterStates == [at : {"idle", "timeout"} \cup Looping \cup Over, timed : BOOLEAN, got : 0..MaxEvents,
          since : 0..MaxEvents, missed : SUBSET Events]

WaiterTypes ==
  /\ dispatched \in 0..MaxEvents /\ extra \in Seq(Waiters) /\ fut \in [Waiters -> None..Cancelled]
  /\ waiter \in [Waiters -> WaiterStates]
  /\ passes \in [Waiters -> SUBSET Events]

\* A waiter's future goes with where its task is and with the list.
Fits(f, at, listed) ==
  /\ f = Undone <=> listed /\ at = "waiting"
  /\ listed => f \in {Undone, Cancelled}
  /\ at = "idle" => f = None
  /\ at = "checking" => f \in Events
  /\ at = "waiting" => f = Undone \/ f \in Events

\* Of the events since its call, a waiter has missed, or will not take, all but the one
\* that its future holds.
Seen(f, r, n, takes) ==
  /\ r.at \in Looping => LET held == IF f = Undone THEN n + 1 ELSE f IN
       /\ r.since <= held /\ held <= n + 1
       /\ \A e \in takes : r.since <= e /\ e <= n /\ e # held => e \in r.missed
  /\ r.at = "returned" =>
       /\ r.got \in takes /\ r.got >= r.since
       /\ \A e \in takes : r.since <= e /\ e < r.got => e \in r.missed

WaitInv ==
  /\ WaiterTypes /\ IsInjective(extra)
  /\ \A w \in Waiters : /\ Fits(fut[w], waiter[w].at, w \in Range(extra))
                        /\ Seen(fut[w], waiter[w], dispatched, passes[w])

LEMMA InitWaits == Init => WaitInv
<1> SUFFICES ASSUME Init PROVE WaitInv
  OBVIOUS
<1>1. WaiterTypes
  BY MaxEventsAssumption DEF Init, DispatchInit, WaiterTypes, WaiterStates, None, Cancelled, Looping, Over, Events
<1>2. IsInjective(extra) /\ Range(extra) = {}
  BY DEF Init, DispatchInit, IsInjective, Range
<1>3. ASSUME NEW w \in Waiters
      PROVE  Fits(fut[w], waiter[w].at, w \in Range(extra)) /\ Seen(fut[w], waiter[w], dispatched, passes[w])
  BY <1>2, MaxEventsAssumption DEF Init, DispatchInit, Fits, Seen, Looping, None, Undone, Events
<1> QED BY <1>1, <1>2, <1>3 DEF WaitInv

\* A step of one waiter, which leaves the others and the events alone.
LEMMA OneWaits ==
  ASSUME WaitInv, NEW w \in Waiters, UNCHANGED <<dispatched, passes>>,
         NEW f \in None..Cancelled,
         NEW r \in WaiterStates,
         fut' = [fut EXCEPT ![w] = f], waiter' = [waiter EXCEPT ![w] = r],
         extra' \in Seq(Waiters), IsInjective(extra'), Range(extra') \ {w} = Range(extra) \ {w},
         Fits(f, r.at, w \in Range(extra')), Seen(f, r, dispatched, passes[w])
  PROVE  WaitInv'
<1>1. WaiterTypes'
  BY DEF WaitInv, WaiterTypes
<1>2. ASSUME NEW v \in Waiters
      PROVE  Fits(fut'[v], waiter'[v].at, v \in Range(extra')) /\ Seen(fut'[v], waiter'[v], dispatched', passes'[v])
  <2>1. CASE v = w
    BY <2>1 DEF WaitInv, WaiterTypes
  <2>2. CASE v # w
    <3>1. fut'[v] = fut[v] /\ waiter'[v] = waiter[v] /\ (v \in Range(extra') <=> v \in Range(extra))
      BY <2>2 DEF WaitInv, WaiterTypes
    <3> QED BY <3>1 DEF WaitInv, Fits
  <2> QED BY <2>1, <2>2
<1> QED BY <1>1, <1>2 DEF WaitInv, Fits, Seen

LEMMA AddWaits ==
  ASSUME WaitInv, NEW w \in Waiters, w \notin Range(extra)
  PROVE  LET s == Append(extra, w) IN
         /\ s \in Seq(Waiters) /\ IsInjective(s) /\ Range(s) \ {w} = Range(extra) \ {w} /\ w \in Range(s)
BY AppendOnce DEF WaitInv, WaiterTypes

LEMMA Values ==
  /\ Undone \in None..Cancelled /\ Cancelled \in None..Cancelled /\ Undone \notin Events /\ Cancelled \notin Events
  /\ None \notin Events /\ Undone # None /\ Cancelled # None /\ Undone # Cancelled /\ Events \subseteq None..Cancelled
  /\ Events \subseteq 0..MaxEvents
BY MaxEventsAssumption DEF Undone, Cancelled, None, Events

LEMMA Wait_forKeeps ==
  ASSUME WaitInv, NEW w \in Waiters, NEW timed \in BOOLEAN, wait_for(w, timed), dispatched < MaxEvents
  PROVE  WaitInv'
<1> DEFINE r == [waiter[w] EXCEPT !.at = "waiting", !.timed = timed, !.since = dispatched + 1]
<1>1. waiter[w].at = "idle" /\ waiter[w] \in WaiterStates
  BY DEF wait_for, WaitInv, WaiterTypes
<1>2. w \notin Range(extra)
  BY <1>1, Values DEF WaitInv, Fits
<1>3. waiter' = [waiter EXCEPT ![w] = r] /\ fut' = [fut EXCEPT ![w] = Undone] /\ extra' = Append(extra, w)
      /\ UNCHANGED <<dispatched, passes>>
  BY DEF wait_for, add
<1>4. r.at = "waiting" /\ r.since = dispatched + 1 /\ r \in WaiterStates
  <2>1. "waiting" \in Looping /\ dispatched + 1 \in 0..MaxEvents
    BY MaxEventsAssumption DEF WaitInv, WaiterTypes, Looping
  <2> QED BY <1>1, <2>1 DEF WaiterStates
<1> HIDE DEF r
<1>5. Fits(Undone, r.at, TRUE) /\ Seen(Undone, r, dispatched, passes[w])
  BY <1>4, Values, MaxEventsAssumption DEF Fits, Seen, Looping, WaitInv, WaiterTypes, Events
<1> QED BY <1>2, <1>3, <1>4, <1>5, AddWaits, OneWaits, Values

LEMMA Waiter ==
  ASSUME WaitInv, NEW w \in Waiters
  PROVE  /\ waiter[w] \in WaiterStates /\ fut[w] \in None..Cancelled
         /\ extra \in Seq(Waiters) /\ IsInjective(extra) /\ dispatched \in 0..MaxEvents /\ passes[w] \subseteq Events
         /\ Fits(fut[w], waiter[w].at, w \in Range(extra)) /\ Seen(fut[w], waiter[w], dispatched, passes[w])
BY DEF WaitInv, WaiterTypes

\* The task moves to another place without an event.
LEMMA MovedKeeps ==
  ASSUME WaitInv, NEW w \in Waiters, UNCHANGED <<dispatched, passes>>,
         NEW f \in None..Cancelled, NEW at \in {"timeout", "timedOut", "cancelled", "checking"},
         fut' = [fut EXCEPT ![w] = f], To(w, at),
         extra' \in Seq(Waiters), IsInjective(extra'), Range(extra') \ {w} = Range(extra) \ {w},
         Fits(f, at, w \in Range(extra')),
         at = "checking" => waiter[w].at = "waiting" /\ f = fut[w]
  PROVE  WaitInv'
<1> DEFINE r == [waiter[w] EXCEPT !.at = at]
<1>1. waiter[w] \in WaiterStates /\ Seen(fut[w], waiter[w], dispatched, passes[w])
  BY Waiter
<1>2. waiter' = [waiter EXCEPT ![w] = r]
  BY DEF To
<1>3. r \in WaiterStates /\ r.at = at /\ r.since = waiter[w].since /\ r.missed = waiter[w].missed
  BY <1>1 DEF WaiterStates, Looping, Over
<1> HIDE DEF r
<1>4. Seen(f, r, dispatched, passes[w])
  BY <1>1, <1>3 DEF Seen, Looping
<1> QED BY <1>2, <1>3, <1>4, OneWaits

LEMMA DecideKeeps ==
  ASSUME WaitInv, NEW w \in Waiters, waiter[w].at \in Looping, fut[w] \in Events, Decide(w, fut[w]),
         UNCHANGED <<dispatched, passes>>
  PROVE  WaitInv'
<1> DEFINE e == fut[w]
<1>1. /\ waiter[w] \in WaiterStates /\ dispatched \in 0..MaxEvents /\ passes[w] \subseteq Events
      /\ Seen(e, waiter[w], dispatched, passes[w]) /\ w \notin Range(extra)
      /\ extra \in Seq(Waiters) /\ IsInjective(extra) /\ fut \in [Waiters -> None..Cancelled]
  BY Waiter, Values DEF Fits, WaitInv, WaiterTypes
<1>2. e # Undone /\ e \in 0..MaxEvents
  BY Values
<1>3. CASE e \in passes[w] /\ waiter' = [waiter EXCEPT ![w].at = "returned", ![w].got = e] /\ UNCHANGED <<fut, extra>>
  <2> DEFINE r == [waiter[w] EXCEPT !.at = "returned", !.got = e]
  <2>1. waiter' = [waiter EXCEPT ![w] = r] /\ fut' = [fut EXCEPT ![w] = e]
    BY <1>1, <1>3
  <2>2. /\ r \in WaiterStates /\ r.at = "returned" /\ r.got = e
        /\ r.since = waiter[w].since /\ r.missed = waiter[w].missed
    BY <1>1, <1>2 DEF WaiterStates, Over
  <2> HIDE DEF r
  <2>3. Seen(e, r, dispatched, passes[w])
    <3>1. /\ waiter[w].since <= e /\ e <= dispatched + 1
          /\ \A k \in passes[w] : waiter[w].since <= k /\ k <= dispatched /\ k # e => k \in waiter[w].missed
      BY <1>1, <1>2 DEF Seen
    <3>2. r.got \in passes[w] /\ r.got >= r.since
      BY <1>1, <1>2, <1>3, <2>2, <3>1 DEF WaiterStates
    <3>3. ASSUME NEW k \in passes[w], r.since <= k, k < r.got PROVE k \in r.missed
      <4>1. k \in Int /\ e \in Int /\ k < e
        BY <1>1, <1>2, <2>2, <3>3 DEF Events
      <4>2. k <= dispatched /\ k # e
        BY <1>1, <3>1, <4>1
      <4> QED BY <2>2, <3>1, <3>3, <4>2
    <3>4. r.at \notin Looping
      BY <2>2 DEF Looping
    <3> QED BY <3>2, <3>3, <3>4 DEF Seen
  <2>4. Fits(e, r.at, w \in Range(extra'))
    BY <1>1, <1>2, <1>3, <2>2 DEF Fits
  <2> QED BY <1>1, <1>2, <1>3, <2>1, <2>2, <2>3, <2>4, OneWaits, Values
<1>4. CASE e \notin passes[w] /\ To(w, "waiting") /\ add(w)
  <2> DEFINE r == [waiter[w] EXCEPT !.at = "waiting"]
  <2>1. waiter' = [waiter EXCEPT ![w] = r] /\ fut' = [fut EXCEPT ![w] = Undone] /\ extra' = Append(extra, w)
    BY <1>4 DEF To, add
  <2>2. /\ r \in WaiterStates /\ r.at = "waiting" /\ r.since = waiter[w].since /\ r.missed = waiter[w].missed
    BY <1>1 DEF WaiterStates, Looping
  <2> HIDE DEF r
  <2>3. Seen(Undone, r, dispatched, passes[w])
    <3>1. /\ r.since <= e /\ e <= dispatched + 1
          /\ \A k \in passes[w] : r.since <= k /\ k <= dispatched => k \in r.missed
      BY <1>1, <1>2, <1>4, <2>2 DEF Seen
    <3>2. r.since <= dispatched + 1
      BY <1>1, <1>2, <2>2, <3>1 DEF WaiterStates
    <3> QED BY <1>1, <2>2, <3>1, <3>2 DEF Seen, Looping
  <2>4. Fits(Undone, r.at, TRUE)
    BY <2>2, Values DEF Fits
  <2> QED BY <1>1, <2>1, <2>2, <2>3, <2>4, AddWaits, OneWaits, Values
<1> QED BY <1>3, <1>4 DEF Decide

LEMMA WaiterKeeps ==
  ASSUME WaitInv, NEW w \in Waiters, WaiterStep(w) \/ Cancel(w)
  PROVE  WaitInv'
<1>1. /\ waiter[w] \in WaiterStates /\ Fits(fut[w], waiter[w].at, w \in Range(extra))
      /\ extra \in Seq(Waiters) /\ IsInjective(extra) /\ fut \in [Waiters -> None..Cancelled]
      /\ UNCHANGED <<dispatched, passes>>
  BY Waiter DEF WaitInv, WaiterTypes, WaiterStep, Resume, Checked, Timeout, TimedOut, Cancel
<1>2. CASE Resume(w)
  <2>1. CASE Decide(w, fut[w])
    BY <1>1, <1>2, <2>1, DecideKeeps DEF Resume, Looping
  <2>2. CASE To(w, "checking") /\ UNCHANGED <<fut, extra>>
    <3>1. fut' = [fut EXCEPT ![w] = fut[w]] /\ fut[w] \in Events /\ waiter[w].at = "waiting"
      BY <1>1, <1>2, <2>2 DEF Resume
    <3>2. Fits(fut[w], "checking", w \in Range(extra'))
      BY <1>1, <2>2, <3>1, Values DEF Fits
    <3> QED BY <1>1, <2>2, <3>1, <3>2, MovedKeeps, Values
  <2> QED BY <1>2, <2>1, <2>2 DEF Resume
<1>3. CASE Checked(w)
  BY <1>1, <1>3, DecideKeeps DEF Checked, Looping, Fits
<1>4. CASE Timeout(w)
  <2>1. fut' = [fut EXCEPT ![w] = Cancelled] /\ To(w, "timeout") /\ UNCHANGED extra
    BY <1>4 DEF Timeout
  <2>2. Fits(Cancelled, "timeout", w \in Range(extra'))
    BY Values DEF Fits
  <2> QED BY <1>1, <2>1, <2>2, MovedKeeps, Values
<1>5. CASE TimedOut(w)
  <2>1. waiter[w].at = "timeout" /\ extra' \in {RemoveFirst(extra, w), extra} /\ To(w, "timedOut") /\ UNCHANGED fut
    BY <1>5 DEF TimedOut
  <2>2. /\ extra' \in Seq(Waiters) /\ IsInjective(extra') /\ Range(extra') \subseteq Range(extra)
        /\ Range(extra') \ {w} = Range(extra) \ {w}
    BY <1>1, <2>1, RemoveOnce
  <2>3. Fits(fut[w], "timedOut", w \in Range(extra')) /\ fut' = [fut EXCEPT ![w] = fut[w]]
    BY <1>1, <2>1, <2>2 DEF Fits
  <2>4. fut[w] \in None..Cancelled
    BY <1>1
  <2> QED BY <1>1, <2>1, <2>2, <2>3, <2>4, MovedKeeps
<1>6. CASE Cancel(w)
  <2> DEFINE f == IF Pending(w) THEN Cancelled ELSE fut[w]
  <2>1. fut' = [fut EXCEPT ![w] = f] /\ To(w, "cancelled") /\ UNCHANGED extra
    BY <1>6 DEF Cancel
  <2>2. f \in None..Cancelled
    BY <1>1, Values
  <2>3. Fits(f, "cancelled", w \in Range(extra'))
    BY <1>1, <2>1, Values DEF Fits, Pending
  <2> HIDE DEF f
  <2> QED BY <1>1, <2>1, <2>2, <2>3, MovedKeeps
<1> QED BY <1>2, <1>3, <1>4, <1>5, <1>6 DEF WaiterStep

\* Listener.dispatch() settles every future that is pending, and empties the list.
LEMMA DispatchKeeps ==
  ASSUME WaitInv, dispatched < MaxEvents, dispatch(dispatched + 1)
  PROVE  WaitInv'
<1> DEFINE n == dispatched + 1
           futOf(w) == IF w \in Range(extra) /\ Pending(w) THEN n ELSE fut[w]
           misses(w) == waiter[w].at \in Looping /\ ~Pending(w)
           waiterOf(w) == IF misses(w) THEN [waiter[w] EXCEPT !.missed = @ \cup {n}] ELSE waiter[w]
<1>1. dispatched \in 0..MaxEvents /\ n \in Events /\ n \in None..Cancelled /\ n # Undone
  BY Values, MaxEventsAssumption DEF WaitInv, WaiterTypes, Events
<1>2. /\ dispatched' = n /\ UNCHANGED passes /\ extra' = << >>
      /\ fut' = [w \in Waiters |-> futOf(w)] /\ waiter' = [w \in Waiters |-> waiterOf(w)]
  BY DEF dispatch
<1>3. ASSUME NEW w \in Waiters
      PROVE  /\ waiterOf(w) \in WaiterStates /\ futOf(w) \in None..Cancelled
             /\ Fits(futOf(w), waiterOf(w).at, FALSE) /\ Seen(futOf(w), waiterOf(w), n, passes[w])
  <2>1. /\ waiter[w] \in WaiterStates /\ fut[w] \in None..Cancelled /\ passes[w] \subseteq Events
        /\ Fits(fut[w], waiter[w].at, w \in Range(extra)) /\ Seen(fut[w], waiter[w], dispatched, passes[w])
    BY Waiter
  <2>2. CASE Pending(w)
    <3>1. futOf(w) = n /\ waiterOf(w) = waiter[w] /\ fut[w] = Undone /\ waiter[w].at = "waiting"
      BY <2>1, <2>2 DEF Pending, Fits
    <3> HIDE DEF futOf, waiterOf, n
    <3>2. Fits(n, "waiting", FALSE)
      BY <1>1, Values DEF Fits
    <3>3. Seen(n, waiter[w], n, passes[w])
      BY <1>1, <2>1, <3>1 DEF Seen, Looping, n, WaiterStates, Events
    <3> QED BY <1>1, <2>1, <3>1, <3>2, <3>3
  <2>3. CASE ~Pending(w) /\ waiter[w].at \in Looping
    <3>1. futOf(w) = fut[w] /\ waiterOf(w) = [waiter[w] EXCEPT !.missed = @ \cup {n}] /\ fut[w] # Undone
      BY <2>1, <2>3 DEF Pending
    <3>2. /\ waiterOf(w) \in WaiterStates /\ waiterOf(w).at = waiter[w].at /\ waiterOf(w).since = waiter[w].since
          /\ waiterOf(w).missed = waiter[w].missed \cup {n}
      <4> HIDE DEF waiterOf, n
      <4> QED BY <1>1, <2>1, <3>1 DEF WaiterStates
    <3> HIDE DEF futOf, waiterOf
    <3>3. Fits(fut[w], waiter[w].at, FALSE)
      BY <2>1, <3>1 DEF Fits
    <3>4. waiter[w].at # "returned"
      BY <2>3 DEF Looping
    <3>5. fut[w] <= n + 1
      BY <1>1, <2>1, <2>3, <3>1 DEF Seen
    <3>6. Seen(fut[w], waiterOf(w), n, passes[w])
      BY <1>1, <2>1, <2>3, <3>1, <3>2, <3>4, <3>5 DEF Seen, Events
    <3> QED BY <2>1, <3>1, <3>2, <3>3, <3>6
  <2>4. CASE ~Pending(w) /\ waiter[w].at \notin Looping
    <3>1. futOf(w) = fut[w] /\ waiterOf(w) = waiter[w]
      BY <2>4
    <3> HIDE DEF futOf, waiterOf
    <3>2. Fits(fut[w], waiter[w].at, FALSE)
      BY <2>1, <2>4 DEF Fits, Pending
    <3>3. Seen(fut[w], waiter[w], n, passes[w])
      BY <2>1, <2>4 DEF Seen
    <3> QED BY <2>1, <3>1, <3>2, <3>3
  <2> QED BY <2>2, <2>3, <2>4
<1>4. IsInjective(extra') /\ Range(extra') = {} /\ extra' \in Seq(Waiters)
  BY <1>2 DEF IsInjective, Range
<1> HIDE DEF n, futOf, waiterOf
<1>5. WaiterTypes'
  BY <1>1, <1>2, <1>3, <1>4, Values DEF WaitInv, WaiterTypes
<1>6. ASSUME NEW w \in Waiters
      PROVE  Fits(fut'[w], waiter'[w].at, w \in Range(extra')) /\ Seen(fut'[w], waiter'[w], dispatched', passes'[w])
  <2>1. fut'[w] = futOf(w) /\ waiter'[w] = waiterOf(w) /\ dispatched' = n /\ passes'[w] = passes[w]
    BY <1>2
  <2>2. Fits(futOf(w), waiterOf(w).at, w \in Range(extra'))
    BY <1>3, <1>4 DEF Fits
  <2> QED BY <1>3, <2>1, <2>2
<1> QED BY <1>4, <1>5, <1>6 DEF WaitInv, Fits, Seen

----------------------------------------------------------------------------
(* The command *)

\* Which task is in a call goes with where the wrapper and the coroutine are; both start with
\* the last event.
CommandInv ==
  /\ scene \in Scenes /\ faults \in Nat
  /\ wrapper \in [at : {"off", "sleep", "defer", "await", "error", "ended"}, part : {"base", "sub"}]
  /\ inner \in {"off", "run", "returned", "raised"} /\ (wrapper.at = "off" => inner = "off")
  /\ wrapper.at # "off" => dispatched = scene.events
  /\ InCall("inner") => inner = "run"
  /\ InCall("wrapper") => wrapper.at \in {"defer", "error"}

LEMMA InitCommand == Init => CommandInv
<1> SUFFICES ASSUME Init PROVE CommandInv
  OBVIOUS
<1>1. \A t \in Tasks : ~InCall(t)
  BY DEF Init, ContextInit, Idle, InCall
<1>2. ~InCall("inner") /\ ~InCall("wrapper")
  BY <1>1, InteractionAssumption
<1> QED BY <1>2 DEF Init, ContextInit, CommandInv

\* A call of one task leaves the others in theirs.
LEMMA OthersIn ==
  ASSUME ContextInv, NEW t \in Tasks, Begin(t) \/ (\E edit_origin \in BOOLEAN : defer(t, edit_origin))
  PROVE  \A u \in Tasks \ {t} : InCall(u)' <=> InCall(u)
<1>1. PICK method, request, about : Asks(t, method, request, about)
  BY DEF Begin, send, defer, edit, delete, popup, Create
<1>2. ASSUME NEW u \in Tasks \ {t}
      PROVE  calls'[u] = calls[u] \/ (InCall(u) /\ calls'[u] = [calls[u] EXCEPT !.clear = FALSE])
  BY <1>1 DEF Asks
<1>3. ASSUME NEW u \in Tasks \ {t}, InCall(u) PROVE calls[u] \in Requests
  BY <1>3, CallTypes
<1> QED BY <1>2, <1>3 DEF InCall, Requests

\* A task that is answered, or is not, is in its call or out of it.
LEMMA StaysOut ==
  ASSUME ContextInv, NEW t \in Tasks, Serve(t) \/ ServeFault(t) \/ Answer(t)
  PROVE  \A u \in Tasks : InCall(u)' => InCall(u)
<1>1. InCall(t)
  BY DEF Serve, ServeFault, Answer
<1>2. \A u \in Tasks \ {t} : calls'[u] = calls[u]
  BY DEF Serve, ServeFault, Answer, Raised, Created, Finished, End, ContextInv, Types
<1> QED BY <1>1, <1>2 DEF InCall

LEMMA NextCommand ==
  ASSUME ContextInv, CommandInv, [Next]_vars
  PROVE  CommandInv'
<1>0. /\ {"inner", "wrapper"} \subseteq Tasks /\ scene.events \in 0..MaxEvents
      /\ Waiters \cap {"wrapper", "inner"} = {}
  BY InteractionAssumption DEF CommandInv
<1> DEFINE Places == [at : {"off", "sleep", "defer", "await", "error", "ended"}, part : {"base", "sub"}]
<1>1. CASE raw_interaction_event
  <2>1. UNCHANGED <<contextVars, scene>> /\ dispatched < scene.events /\ dispatched' = dispatched + 1
    BY <1>1 DEF raw_interaction_event, dispatch
  <2>2. wrapper.at = "off" /\ inner = "off" /\ ~InCall("inner") /\ ~InCall("wrapper")
    BY <1>0, <2>1 DEF CommandInv
  <2>3. ~InCall("inner")' /\ ~InCall("wrapper")'
    BY <2>1, <2>2 DEF InCall, contextVars
  <2>4. CASE UNCHANGED <<wrapper, inner>>
    BY <2>1, <2>2, <2>3, <2>4 DEF CommandInv, contextVars
  <2>5. CASE Followed(dispatched + 1) /\ Start("base")
    BY <2>1, <2>3, <2>5 DEF CommandInv, contextVars, Start, Followed
  <2> QED BY <1>1, <2>4, <2>5 DEF raw_interaction_event
<1>2. CASE WrapperStep
  <2>1. UNCHANGED <<dispatched, scene, faults>> /\ wrapper.at # "off" /\ wrapper'.at # "off" /\ wrapper' \in Places
        /\ inner' \in {inner, "run"}
    BY <1>2 DEF WrapperStep, dispatchVars, deferring_func, Deferred, Awaited, contextVars, Outcome, Next_coroutine,
                StopCommand, Start, CommandInv
  <2>2. CASE deferring_func /\ inner = "run" /\ ~UNCHANGED contextVars
    <3>1. /\ \E edit_origin \in BOOLEAN : defer("wrapper", edit_origin)
          /\ wrapper' = [wrapper EXCEPT !.at = "defer"] /\ UNCHANGED inner
      BY <2>2 DEF deferring_func
    <3>2. InCall("inner")' <=> InCall("inner")
      BY <1>0, <3>1, OthersIn
    <3>3. wrapper'.at = "defer"
      BY <3>1 DEF CommandInv
    <3> QED BY <2>1, <3>1, <3>2, <3>3 DEF CommandInv
  <2>3. CASE UNCHANGED contextVars
    <3>1. ~InCall("wrapper")
      BY <1>2, <2>3 DEF WrapperStep, deferring_func, Deferred, Awaited, CommandInv
    <3>2. ~InCall("wrapper")' /\ (InCall("inner")' <=> InCall("inner"))
      BY <2>3, <3>1 DEF InCall, contextVars
    <3> QED BY <2>1, <3>2 DEF CommandInv
  <2> QED BY <1>2, <2>2, <2>3 DEF WrapperStep, deferring_func, Deferred, Awaited
<1>3. CASE UserCalls
  <2>1. PICK t \in Tasks : /\ Respond(t) /\ (t = "inner" => inner = "run") /\ (t = "wrapper" => wrapper.at = "error")
    BY <1>0, <1>3, InteractionAssumption DEF UserCalls
  <2>2. UNCHANGED <<dispatched, scene, wrapper, inner, faults>> /\ Begin(t)
    BY <2>1 DEF Respond, Begin, dispatchVars, commandVars
  <2>3. \A u \in Tasks \ {t} : InCall(u)' <=> InCall(u)
    BY <2>2, OthersIn
  <2> QED BY <1>0, <2>1, <2>2, <2>3 DEF CommandInv
<1>4. CASE CoroutineEnds
  <2>1. UNCHANGED <<dispatched, contextVars, scene>>
    BY <1>4 DEF CoroutineEnds, dispatchVars
  <2>2. InCall("inner")' <=> InCall("inner")
    BY <2>1 DEF InCall, contextVars
  <2>3. InCall("wrapper")' <=> InCall("wrapper")
    BY <2>1 DEF InCall, contextVars
  <2> QED BY <1>4, <2>1, <2>2, <2>3 DEF CoroutineEnds, CommandInv, contextVars
<1>5. CASE UNCHANGED <<contextVars, commandVars>> /\ (dispatched' = dispatched \/ UNCHANGED vars)
  <2>1. UNCHANGED <<dispatched, scene, wrapper, inner, faults>> /\ (InCall("inner")' <=> InCall("inner"))
        /\ (InCall("wrapper")' <=> InCall("wrapper"))
    BY <1>5 DEF contextVars, commandVars, InCall, vars, dispatchVars
  <2> QED BY <2>1 DEF CommandInv
<1>6. ASSUME NEW t \in Tasks, Serve(t) \/ ServeFault(t) \/ Answer(t), Aside PROVE CommandInv'
  <2>1. \A u \in Tasks : InCall(u)' => InCall(u)
    BY <1>6, StaysOut
  <2>2. UNCHANGED <<dispatched, scene, wrapper, inner>>
    BY <1>6 DEF Aside, dispatchVars, commandVars
  <2>3. faults' \in Nat
    BY <1>6 DEF Serve, ServeFault, Answer, CommandInv
  <2> QED BY <1>0, <2>1, <2>2, <2>3 DEF CommandInv
<1>7. CASE Expire /\ Aside
  BY <1>7 DEF Expire, Aside, dispatchVars, commandVars, CommandInv, InCall
<1>8. CASE \E w \in scene.waiters : Waits(w) /\ Others
  BY <1>5, <1>8 DEF Others, Waits, WaiterStep, Resume, Checked, Timeout, TimedOut, Cancel, wait_for
<1>9. CASE UNCHANGED vars
  BY <1>5, <1>9 DEF vars, commandVars
<1> QED BY <1>1, <1>2, <1>3, <1>4, <1>6, <1>7, <1>8, <1>9 DEF Next

----------------------------------------------------------------------------
(* Initial responses that race *)

\* A call whose initial response Discord has, or may have.
Answerer(c) == c.at = "original" \/ (c.at = "create" /\ c.served \in {"ok", "broken"})

\* A call that is clear is the only one in an initial response; until it is served nothing
\* has answered, and a send() among them carries its message.
Alone(t, of) == of[t].clear => \A u \in Tasks \ {t} : of[u].at \notin Initial
First(c, open) == c.at = "create" /\ c.clear => c.served # "refused" /\ (c.served = "no" => open)
Shows(c, answer, responded) ==
  c.method = "send" /\ c.clear /\ answer # "expired" =>
    /\ c.at \in Initial \cup {"followup"}
    /\ c.at = "create" => c.about = "message" /\ c.served # "unknown" /\ (c.served = "ok" => c.shown)
    /\ c.at = "original" => c.shown
    /\ c.at = "followup" => responded /\ c.served \notin {"refused", "unknown"} /\ (c.served = "ok" => c.shown)
Heard(c, answer) == c.at = "create" /\ c.served \in {"ok", "refused", "unknown"} => answer # "none"

RaceInv ==
  /\ ~Open => ctx.responded \/ blurred \/ \E u \in Tasks : Answerer(calls[u])
  /\ ctx.deferred /\ discord.answer = "none" => blurred \/ Overlapped
  /\ \A t \in Tasks : InCall(t) => /\ Alone(t, calls) /\ First(calls[t], Open)
                                   /\ Shows(calls[t], discord.answer, ctx.responded) /\ Heard(calls[t], discord.answer)

LEMMA InitRace == Init => RaceInv
<1> SUFFICES ASSUME Init PROVE RaceInv
  OBVIOUS
<1>1. PICK kind \in {"command", "component"} :
          ctx = [kind |-> kind, responded |-> FALSE, deferred |-> FALSE, callback |-> "none",
                 message |-> IF kind = "component" THEN "its own" ELSE "none"]
  BY DEF Init, ContextInit
<1>2. ~ctx.deferred /\ Open
  BY <1>1 DEF Init, ContextInit, Open
<1>3. \A t \in Tasks : ~InCall(t)
  BY DEF Init, ContextInit, Idle, InCall
<1> QED BY <1>2, <1>3 DEF RaceInv

\* A call that begins.
LEMMA AsksRace ==
  ASSUME ContextInv, RaceInv, NEW t \in Tasks, ~InCall(t), UNCHANGED <<discord, blurred>>,
         NEW method, NEW request \in {"create", "followup", "edit", "delete"}, NEW about,
         Asks(t, method, request, about),
         ctx'.responded = ctx.responded,
         ctx'.deferred => ctx.deferred \/ request = "create",
         request = "create" => ~ctx.responded \/ method \in {"popup", "edit"},
         method = "send" => request = "create" \/ (request = "followup" /\ ctx.responded),
         method = "send" /\ request = "create" /\ ~ctx.deferred => about = "message"
  PROVE  RaceInv'
<1> DEFINE clear == ~Overlapped /\ ~blurred /\ (method \in {"popup", "edit"} => ~ctx.responded)
           mine == [at |-> request, method |-> method, about |-> about, served |-> "no", gives |-> "none", shown |-> FALSE,
                    clear |-> clear]
           other(u) == IF InCall(u) /\ request = "create" THEN [calls[u] EXCEPT !.clear = FALSE] ELSE calls[u]
<1>1. calls' = [u \in Tasks |-> IF u = t THEN mine ELSE other(u)]
  BY DEF Asks
<1>2. ASSUME NEW u \in Tasks \ {t}
      PROVE  /\ calls'[u].at = calls[u].at
             /\ InCall(u) => /\ calls'[u].served = calls[u].served
                             /\ request = "create" => ~calls'[u].clear
             /\ request # "create" => calls'[u] = calls[u]
  <2>1. calls[u] \in Resting \cup Requests
    BY DEF ContextInv, Types
  <2>2. calls'[u] = other(u)
    BY <1>1
  <2>3. CASE InCall(u) /\ request = "create"
    <3>1. calls'[u] = [calls[u] EXCEPT !.clear = FALSE] /\ calls[u] \in Requests
      BY <2>1, <2>2, <2>3 DEF InCall, Resting
    <3> QED BY <2>3, <3>1 DEF Requests
  <2>4. CASE ~(InCall(u) /\ request = "create")
    BY <2>2, <2>4
  <2> QED BY <2>3, <2>4
<1>3. calls'[t] = mine /\ mine.clear = clear /\ mine.at = request /\ mine.served = "no" /\ mine.method = method /\ mine.about = about
  BY <1>1
<1> HIDE DEF mine
<1>4. Open' = Open /\ (Open => discord.answer \in {"none", "expired"})
  BY DEF Open
<1>5. clear => ~Overlapped /\ ~blurred /\ (request = "create" => ~ctx.responded)
  OBVIOUS
<1> HIDE DEF clear
<1>6. \A u \in Tasks : Answerer(calls[u]) => u # t /\ calls[u].at \in Initial /\ InCall(u)
  BY DEF Answerer, Initial, InCall
<1>7. ~Open' => ctx'.responded \/ blurred' \/ \E u \in Tasks : Answerer(calls'[u])
  <2> SUFFICES ASSUME NEW u \in Tasks, Answerer(calls[u]) PROVE Answerer(calls'[u])
    BY <1>4 DEF RaceInv
  <2> QED BY <1>2, <1>6 DEF Answerer
<1>8. ctx'.deferred /\ discord'.answer = "none" => blurred' \/ \E u \in Tasks : calls'[u].at \in Initial
  <2>1. CASE request = "create"
    BY <1>3, <2>1 DEF Initial
  <2>2. CASE ctx.deferred /\ discord.answer = "none"
    <3>1. blurred \/ \E u \in Tasks : calls[u].at \in Initial
      BY <2>2 DEF RaceInv, Overlapped
    <3> QED BY <1>2, <3>1 DEF InCall, Initial
  <2> QED BY <2>1, <2>2
<1>9. ASSUME NEW u \in Tasks, calls'[u].at # "idle"
      PROVE  /\ Alone(u, calls') /\ First(calls'[u], Open)
             /\ Shows(calls'[u], discord.answer, ctx'.responded) /\ Heard(calls'[u], discord.answer)
  <2>1. CASE u = t
    <3>1. clear => \A v \in Tasks \ {t} : calls'[v].at \notin Initial
      BY <1>2, <1>5 DEF Overlapped
    <3>2. clear /\ request = "create" => Open
      BY <1>5, <1>6 DEF RaceInv, Overlapped
    <3>3. clear /\ request = "create" /\ discord.answer # "expired" => ~ctx.deferred
      BY <1>4, <1>5, <3>2 DEF RaceInv
    <3>4. Alone(t, calls') /\ First(mine, Open) /\ Heard(mine, discord.answer)
      BY <1>3, <3>1, <3>2 DEF Alone, First, Heard
    <3>5. Shows(mine, discord.answer, ctx'.responded)
      BY <1>3, <3>3 DEF Shows, Initial
    <3> QED BY <1>3, <2>1, <3>4, <3>5
  <2>2. CASE u # t /\ request = "create"
    <3>1. ~calls'[u].clear /\ InCall(u) /\ calls'[u].at = calls[u].at /\ calls'[u].served = calls[u].served
      BY <1>2, <1>9, <2>2 DEF InCall
    <3> QED BY <3>1 DEF Alone, First, Shows, Heard, RaceInv
  <2>3. CASE u # t /\ request # "create"
    <3>1. calls'[u] = calls[u] /\ InCall(u) /\ calls'[t].at \notin Initial
      BY <1>2, <1>3, <1>9, <2>3 DEF InCall, Initial
    <3>2. Alone(u, calls')
      BY <1>2, <3>1 DEF Alone, RaceInv
    <3> QED BY <3>1, <3>2 DEF RaceInv
  <2> QED BY <2>1, <2>2, <2>3
<1> QED BY <1>4, <1>7, <1>8, <1>9 DEF RaceInv, InCall, Overlapped, Alone, First, Shows, Heard

\* A call that moves on, or ends.
LEMMA MovesRace ==
  ASSUME ContextInv, RaceInv, NEW t \in Tasks, InCall(t), NEW d \in Resting \cup Requests,
         calls' = [calls EXCEPT ![t] = d],
         ctx.responded => ctx'.responded, ctx'.deferred = ctx.deferred, blurred => blurred',
         d.at \in Initial => calls[t].at \in Initial,
         \/ discord'.answer = discord.answer
         \/ /\ discord.answer = "none" /\ discord'.answer \notin {"none", "expired"}
            /\ calls[t].at = "create" /\ Answerer(d),
         ~Open /\ Answerer(calls[t]) => ctx'.responded \/ blurred' \/ Answerer(d),
         discord'.answer = "none" /\ calls[t].at \in Initial => blurred' \/ d.at \in Initial,
         d.at # "idle" => /\ d.clear => calls[t].clear
                          /\ First(d, Open') /\ Shows(d, discord'.answer, ctx'.responded) /\ Heard(d, discord'.answer)
  PROVE  RaceInv'
<1>1. calls'[t] = d /\ \A u \in Tasks \ {t} : calls'[u] = calls[u]
  BY DEF ContextInv, Types
<1>2. /\ discord'.answer = discord.answer => Open' = Open
      /\ discord'.answer # discord.answer => ~Open' /\ Answerer(d) /\ calls[t].at \in Initial
  BY DEF Open, Initial
<1>3. ~Open' => ctx'.responded \/ blurred' \/ \E u \in Tasks : Answerer(calls'[u])
  <2>1. CASE Answerer(d)
    BY <1>1, <2>1
  <2>2. CASE ~Answerer(d)
    <3>1. ~Open' => ~Open
      BY <1>2, <2>2
    <3> QED BY <1>1, <3>1, <2>2 DEF RaceInv
  <2> QED BY <2>1, <2>2
<1>4. ctx'.deferred /\ discord'.answer = "none" => blurred' \/ \E u \in Tasks : calls'[u].at \in Initial
  BY <1>1 DEF RaceInv, Overlapped
<1>5. ASSUME NEW u \in Tasks, calls'[u].at # "idle"
      PROVE  /\ Alone(u, calls') /\ First(calls'[u], Open')
             /\ Shows(calls'[u], discord'.answer, ctx'.responded) /\ Heard(calls'[u], discord'.answer)
  <2>1. CASE u = t
    <3>1. Alone(t, calls)
      BY DEF RaceInv
    <3> QED BY <1>1, <1>5, <2>1, <3>1 DEF Alone
  <2>2. CASE u # t
    <3>1. /\ calls'[u] = calls[u] /\ Alone(u, calls) /\ First(calls[u], Open)
          /\ Shows(calls[u], discord.answer, ctx.responded) /\ Heard(calls[u], discord.answer)
      BY <1>1, <1>5, <2>2 DEF RaceInv, InCall
    <3>2. Alone(u, calls')
      BY <1>1, <2>2, <3>1 DEF Alone
    <3>3. Heard(calls[u], discord'.answer)
      BY <3>1 DEF Heard
    <3>4. CASE discord'.answer = discord.answer
      BY <1>2, <3>1, <3>2, <3>3, <3>4 DEF First, Shows
    <3>5. CASE discord'.answer # discord.answer
      <4>1. ~calls[u].clear
        BY <1>2, <2>2, <3>1, <3>5 DEF Alone
      <4> QED BY <3>1, <3>2, <3>3, <4>1 DEF First, Shows
    <3> QED BY <3>4, <3>5
  <2> QED BY <2>1, <2>2
<1> QED BY <1>3, <1>4, <1>5 DEF RaceInv, InCall, Overlapped, Alone, First, Shows, Heard

LEMMA BeginRace ==
  ASSUME ContextInv, RaceInv, NEW t \in Tasks, Begin(t)
  PROVE  RaceInv'
<1>1. ~InCall(t) /\ UNCHANGED <<discord, blurred>> /\ ctx \in Contexts
  BY DEF Begin, ContextInv, Types
<1>2. CASE send(t)
  <2> DEFINE callback == IF ctx.deferred THEN ctx.callback ELSE "message"
  <2>1. ctx' = [ctx EXCEPT !.callback = callback]
    BY <1>2 DEF send
  <2>2. ctx'.responded = ctx.responded /\ ctx'.deferred = ctx.deferred
    BY <1>1, <2>1 DEF Contexts
  <2>3. CASE ctx.responded
    <3>1. Asks(t, "send", "followup", "none")
      BY <1>2, <2>3 DEF send
    <3> QED BY <1>1, <2>2, <2>3, <3>1, AsksRace
  <2>4. CASE ~ctx.responded
    <3>1. Asks(t, "send", "create", callback)
      BY <1>2, <2>4 DEF send, Create
    <3> QED BY <1>1, <2>2, <2>4, <3>1, AsksRace
  <2> QED BY <2>3, <2>4
<1>3. ASSUME NEW edit_origin \in BOOLEAN, defer(t, edit_origin) PROVE RaceInv'
  <2>1. PICK about : Asks(t, "defer", "create", about)
    BY <1>3 DEF defer, Create
  <2>2. ctx'.responded = ctx.responded /\ ~ctx.responded
    BY <1>1, <1>3 DEF defer, Contexts
  <2> QED BY <1>1, <2>1, <2>2, AsksRace
<1>4. CASE edit(t)
  <2>0. PICK request \in {"create", "followup", "edit"} : \E about : Asks(t, "edit", request, about)
    BY <1>4 DEF edit, Create
  <2>1. PICK about : Asks(t, "edit", request, about)
    BY <2>0
  <2>2. ctx'.responded = ctx.responded /\ ctx'.deferred = ctx.deferred
    BY <1>1, <1>4 DEF edit, Contexts
  <2> QED BY <1>1, <2>1, <2>2, AsksRace
<1>5. CASE delete(t)
  <2>1. PICK about : Asks(t, "delete", "delete", about)
    BY <1>5 DEF delete
  <2>2. UNCHANGED ctx
    BY <1>5 DEF delete
  <2> QED BY <1>1, <2>1, <2>2, AsksRace
<1>6. CASE popup(t)
  <2>1. Asks(t, "popup", "create", "modal") /\ UNCHANGED ctx
    BY <1>6 DEF popup, Create
  <2> QED BY <1>1, <2>1, AsksRace
<1> QED BY <1>2, <1>3, <1>4, <1>5, <1>6 DEF Begin

LEMMA DeferRace ==
  ASSUME ContextInv, RaceInv, NEW t \in Tasks, ~InCall(t), UNCHANGED <<discord, blurred>>,
         NEW edit_origin \in BOOLEAN, defer(t, edit_origin)
  PROVE  RaceInv'
<1>1. PICK about : Asks(t, "defer", "create", about)
  BY DEF defer, Create
<1>2. ctx'.responded = ctx.responded /\ ~ctx.responded
  BY DEF defer, Contexts, ContextInv, Types
<1> QED BY <1>1, <1>2, AsksRace

\* What the invariant says of one call.
LEMMA CallRace ==
  ASSUME ContextInv, RaceInv, NEW t \in Tasks, InCall(t)
  PROVE  /\ calls[t] \in Requests /\ AnsweredInv(calls[t], ctx.kind, ~Open) /\ AboutInv(calls[t], ctx.kind)
         /\ First(calls[t], Open) /\ Shows(calls[t], discord.answer, ctx.responded) /\ Heard(calls[t], discord.answer)
         /\ ctx.responded => ~Open
BY CallTypes DEF RaceInv, ContextInv, RespondedAnswered

\* Whether a request has been served says nothing of what it is otherwise.
LEMMA ServedKeeps ==
  ASSUME NEW c \in Requests, NEW served \in {"ok", "refused", "unknown", "failed", "broken"},
         NEW d, d = [c EXCEPT !.served = served]
  PROVE  /\ d \in Requests /\ d.served = served
         /\ d.at = c.at /\ d.method = c.method /\ d.about = c.about /\ d.shown = c.shown /\ d.clear = c.clear
BY DEF Requests

\* What the effect of a request leaves of the interaction's answer.
LEMMA EffectAnswer ==
  ASSUME ContextInv, NEW c \in Requests, AboutInv(c, ctx.kind), Accepts(c), discord' = Effect(c)
  PROVE  \/ c.at # "create" /\ discord'.answer = discord.answer
         \/ /\ c.at = "create" /\ discord.answer = "none" /\ discord'.answer \notin {"none", "expired"}
<1> USE DEF Requests, Interactions
<1>1. CASE c.at = "create"
  <2>1. discord'.answer = c.about /\ discord.answer = "none"
    BY <1>1 DEF Effect, Accepts
  <2> QED BY <1>1, <2>1 DEF AboutInv, Answers, Callbacks
<1>2. CASE c.at # "create"
  <2>1. \/ discord' = [discord EXCEPT !.thinking = FALSE]
        \/ discord' = [discord EXCEPT !.original = FALSE, !.thinking = FALSE]
        \/ discord' = discord
    BY <1>2 DEF Effect
  <2> QED BY <1>2, <2>1 DEF ContextInv, Types
<1> QED BY <1>1, <1>2

LEMMA ServeRace ==
  ASSUME ContextInv, RaceInv, NEW t \in Tasks, Serve(t)
  PROVE  RaceInv'
<1> DEFINE c == calls[t]
<1>1. InCall(t) /\ c.served = "no" /\ UNCHANGED <<ctx, blurred>>
  BY DEF Serve
<1>2. /\ c \in Requests /\ AnsweredInv(c, ctx.kind, ~Open) /\ AboutInv(c, ctx.kind)
      /\ First(c, Open) /\ Shows(c, discord.answer, ctx.responded) /\ Heard(c, discord.answer)
      /\ ctx.responded => ~Open
  BY <1>1, CallRace
<1>3. CASE Accepts(c)
  <2> DEFINE d == Answered(c)
  <2>1. discord' = Effect(c) /\ calls' = [calls EXCEPT ![t] = d]
    BY <1>3 DEF Serve
  <2>2. /\ d \in Requests /\ d.at = c.at /\ d.method = c.method /\ d.about = c.about /\ d.clear = c.clear
        /\ d.served = "ok" /\ d.shown = (c.shown \/ c.at \in {"followup", "edit"} \/ c.about \in {"message", "update"})
    <3> DEFINE gives == IF c.at = "followup" /\ ~discord.thinking THEN "followup" ELSE IF c.at = "edit" THEN c.about ELSE "original"
               shown == c.shown \/ c.at \in {"followup", "edit"} \/ c.about \in {"message", "update"}
    <3>1. d = [c EXCEPT !.served = "ok", !.gives = gives, !.shown = shown]
      BY <1>2 DEF Answered, Requests
    <3>2. gives \in Messages /\ shown \in BOOLEAN
      BY <1>2 DEF AboutInv, Messages, Requests
    <3> HIDE DEF d, gives
    <3>3. shown = (c.shown \/ c.at \in {"followup", "edit"} \/ c.about \in {"message", "update"})
      OBVIOUS
    <3> HIDE DEF shown
    <3> QED BY <1>2, <3>1, <3>2, <3>3 DEF Requests
  <2> HIDE DEF d
  <2>3. \/ c.at # "create" /\ discord'.answer = discord.answer
        \/ /\ c.at = "create" /\ discord.answer = "none" /\ discord'.answer \notin {"none", "expired"}
    BY <1>2, <1>3, <2>1, EffectAnswer
  <2>4. First(d, Open') /\ Heard(d, discord'.answer)
    BY <2>2, <2>3 DEF First, Heard
  <2>5. Shows(d, discord'.answer, ctx'.responded)
    BY <1>1, <1>2, <2>2, <2>3 DEF Shows, Requests
  <2>6. Answerer(c) => Answerer(d)
    BY <2>2 DEF Answerer
  <2>7. d.at = "create" => Answerer(d)
    BY <2>2 DEF Answerer
  <2> QED BY <1>1, <2>1, <2>2, <2>3, <2>4, <2>5, <2>6, <2>7, MovesRace
<1>4. CASE ~Accepts(c)
  <2> DEFINE served == IF Open THEN "unknown" ELSE "refused"
             d == [c EXCEPT !.served = served]
  <2>1. calls' = [calls EXCEPT ![t] = d] /\ UNCHANGED discord
    BY <1>4 DEF Serve
  <2>2. /\ d \in Requests /\ d.served = served
        /\ d.at = c.at /\ d.method = c.method /\ d.about = c.about /\ d.shown = c.shown /\ d.clear = c.clear
    <3>1. served \in {"unknown", "refused"} /\ d = [c EXCEPT !.served = served]
      OBVIOUS
    <3> HIDE DEF d, served
    <3> QED BY <1>2, <3>1, ServedKeeps
  <2> HIDE DEF d
  <2>3. /\ c.at = "create" => discord.answer # "none"
        /\ c.at = "followup" => Open
    BY <1>4 DEF Accepts
  <2>4. First(d, Open') /\ Heard(d, discord'.answer)
    BY <1>1, <1>2, <2>1, <2>2, <2>3 DEF First, Heard
  <2>5. Shows(d, discord'.answer, ctx'.responded)
    <3>1. c.at = "create" /\ c.clear => discord.answer = "expired"
      BY <1>1, <1>2, <2>3 DEF First, Open
    <3> QED BY <1>1, <1>2, <2>1, <2>2, <2>3, <3>1 DEF Shows
  <2>6. Answerer(c) => Answerer(d)
    BY <1>1, <2>2 DEF Answerer
  <2> QED BY <1>1, <2>1, <2>2, <2>4, <2>5, <2>6, MovesRace
<1> QED BY <1>3, <1>4

LEMMA FaultRace ==
  ASSUME ContextInv, RaceInv, NEW t \in Tasks, ServeFault(t)
  PROVE  RaceInv'
<1> DEFINE c == calls[t]
<1>1. InCall(t) /\ c.served = "no" /\ UNCHANGED <<ctx, blurred>>
  BY DEF ServeFault
<1>2. /\ c \in Requests /\ AnsweredInv(c, ctx.kind, ~Open) /\ AboutInv(c, ctx.kind)
      /\ First(c, Open) /\ Shows(c, discord.answer, ctx.responded) /\ Heard(c, discord.answer)
      /\ ctx.responded => ~Open
  BY <1>1, CallRace
<1>3. PICK served \in {"failed", "broken"} :
        /\ calls' = [calls EXCEPT ![t].served = served]
        /\ \/ UNCHANGED discord
           \/ Accepts(c) /\ discord' = Effect(c) /\ served = "broken"
  BY DEF ServeFault
<1> DEFINE d == [c EXCEPT !.served = served]
<1>4. calls' = [calls EXCEPT ![t] = d]
  BY <1>3
<1>5. /\ d \in Requests /\ d.served = served
      /\ d.at = c.at /\ d.method = c.method /\ d.about = c.about /\ d.shown = c.shown /\ d.clear = c.clear
  <2>1. d = [c EXCEPT !.served = served]
    OBVIOUS
  <2> HIDE DEF d
  <2> QED BY <1>2, <2>1, ServedKeeps
<1> HIDE DEF d
<1>6. \/ discord'.answer = discord.answer
      \/ /\ c.at = "create" /\ discord.answer = "none" /\ discord'.answer \notin {"none", "expired"} /\ served = "broken"
  BY <1>2, <1>3, EffectAnswer
<1>7. First(d, Open') /\ Heard(d, discord'.answer)
  BY <1>5 DEF First, Heard
<1>8. Shows(d, discord'.answer, ctx'.responded)
  BY <1>1, <1>2, <1>5, <1>6 DEF Shows
<1>9. Answerer(c) => Answerer(d)
  BY <1>1, <1>5 DEF Answerer
<1>10. c.at = "create" /\ served = "broken" => Answerer(d)
  BY <1>5 DEF Answerer
<1> QED BY <1>1, <1>4, <1>5, <1>6, <1>7, <1>8, <1>9, <1>10, MovesRace

LEMMA ExpireRace ==
  ASSUME ContextInv, RaceInv, Expire
  PROVE  RaceInv'
<1>1. Open' /\ discord'.answer = "expired" /\ UNCHANGED <<ctx, calls, blurred>>
  BY DEF Expire, Open, ContextInv, Types, Interactions
<1>2. ASSUME NEW u \in Tasks, InCall(u)
      PROVE  /\ Alone(u, calls) /\ First(calls[u], TRUE)
             /\ Shows(calls[u], "expired", ctx.responded) /\ Heard(calls[u], "expired")
  BY <1>2 DEF RaceInv, First, Shows, Heard
<1> QED BY <1>1, <1>2 DEF RaceInv, InCall, Overlapped, Alone, First, Shows, Heard

\* An initial response that has been accepted, or may have been.
LEMMA AnsweredWell ==
  ASSUME ContextInv, RaceInv, NEW t \in Tasks, InCall(t), calls[t].served # "no", calls[t].at \in Initial
  PROVE  /\ Raises(calls[t]) /\ Answerer(calls[t]) => calls[t].served \in {"broken", "failed"}
         /\ Raises(calls[t]) /\ discord.answer = "none" => calls[t].served \in {"broken", "failed"}
         /\ ~Raises(calls[t]) /\ calls[t].at = "create" => calls[t].served = "ok"
         /\ ~Raises(calls[t]) => discord.answer # "none"
<1>1. /\ calls[t] \in Requests /\ AnsweredInv(calls[t], ctx.kind, ~Open) /\ AboutInv(calls[t], ctx.kind)
      /\ Heard(calls[t], discord.answer)
  BY CallRace
<1>2. CASE calls[t].at = "create"
  BY <1>1, <1>2 DEF Requests, Raises, Answerer, Heard, AboutInv
<1>3. CASE calls[t].at = "original"
  <2>1. ~Open
    BY <1>1, <1>3 DEF AnsweredInv
  <2> QED BY <1>1, <1>3, <2>1 DEF Requests, Raises, Open
<1> QED BY <1>2, <1>3 DEF Initial

LEMMA RaisedRace ==
  ASSUME ContextInv, RaceInv, NEW t \in Tasks, InCall(t), calls[t].served # "no", UNCHANGED discord, Raised(t)
  PROVE  RaceInv'
<1>1. PICK d \in Resting : calls' = [calls EXCEPT ![t] = d] /\ d.at = "idle"
  BY EndTypes DEF Raised
<1>2. UNCHANGED ctx /\ Raises(calls[t]) /\ (blurred => blurred')
      /\ (calls[t].served \in {"broken", "failed"} /\ calls[t].at \in Initial => blurred')
  BY DEF Raised
<1>3. Answerer(calls[t]) => calls[t].at \in Initial
  BY DEF Answerer, Initial
<1>4. Answerer(calls[t]) => blurred'
  BY <1>2, <1>3, AnsweredWell
<1>5. discord'.answer = "none" /\ calls[t].at \in Initial => blurred'
  BY <1>2, AnsweredWell
<1>6. d.at \notin Initial
  BY <1>1 DEF Initial
<1> QED BY <1>1, <1>2, <1>4, <1>5, <1>6, MovesRace

LEMMA CreatedRace ==
  ASSUME ContextInv, RaceInv, NEW t \in Tasks, InCall(t), calls[t].served # "no", UNCHANGED discord, Created(t)
  PROVE  RaceInv'
<1>1. calls[t].at = "create" /\ calls[t].at \in Initial /\ ~Raises(calls[t]) /\ UNCHANGED blurred
  BY DEF Created, Initial
<1>2. calls[t].served = "ok" /\ discord.answer # "none"
  BY <1>1, AnsweredWell
<1>3. CASE calls[t].method = "popup"
  <2>1. PICK d \in Resting : calls' = [calls EXCEPT ![t] = d] /\ d.at = "idle"
    BY <1>3, EndTypes DEF Created
  <2>2. ctx'.responded /\ ctx'.deferred = ctx.deferred
    BY <1>3 DEF Created, ContextInv, Types, Contexts
  <2>3. d.at \notin Initial
    BY <2>1 DEF Initial
  <2> QED BY <1>1, <1>2, <2>1, <2>2, <2>3, MovesRace
<1>4. CASE calls[t].method # "popup"
  <2> DEFINE c == calls[t]
             d == [c EXCEPT !.at = "original", !.about = "original", !.served = "no"]
  <2>1. calls' = [calls EXCEPT ![t] = d] /\ UNCHANGED ctx
    BY <1>4 DEF Created
  <2>2. c \in Requests /\ Shows(c, discord.answer, ctx.responded)
    BY CallRace
  <2>3. /\ d \in Requests /\ d.at = "original" /\ d.method = c.method /\ d.shown = c.shown /\ d.clear = c.clear
    BY <2>2 DEF Requests, Messages
  <2> HIDE DEF d
  <2>4. Answerer(d) /\ First(d, Open') /\ Heard(d, discord'.answer) /\ d.at \in Initial
    BY <2>3 DEF Answerer, First, Heard, Initial
  <2>5. Shows(d, discord'.answer, ctx'.responded)
    BY <1>1, <1>2, <2>1, <2>2, <2>3 DEF Shows, Initial
  <2> QED BY <1>1, <2>1, <2>3, <2>4, <2>5, MovesRace
<1> QED BY <1>3, <1>4

LEMMA FinishedRace ==
  ASSUME ContextInv, RaceInv, NEW t \in Tasks, InCall(t), calls[t].served # "no", UNCHANGED discord, Finished(t)
  PROVE  RaceInv'
<1>1. PICK d \in Resting : calls' = [calls EXCEPT ![t] = d] /\ d.at = "idle"
  BY EndTypes DEF Finished
<1>2. calls[t].at # "create" /\ ~Raises(calls[t]) /\ UNCHANGED blurred
  BY DEF Finished
<1>3. /\ ctx.responded => ctx'.responded
      /\ calls[t].at = "original" => ctx'.responded
      /\ ctx'.deferred = ctx.deferred
  BY DEF Finished, ContextInv, Types, Contexts
<1>4. Answerer(calls[t]) => ctx'.responded
  BY <1>2, <1>3 DEF Answerer
<1>5. calls[t].at \in Initial => discord.answer # "none"
  BY <1>2, AnsweredWell
<1>6. d.at \notin Initial
  BY <1>1 DEF Initial
<1> QED BY <1>1, <1>2, <1>3, <1>4, <1>5, <1>6, MovesRace

LEMMA SameRace ==
  ASSUME RaceInv, UNCHANGED contextVars
  PROVE  RaceInv'
BY DEF RaceInv, InCall, Overlapped, Answerer, Alone, First, Shows, Heard, Open, contextVars

LEMMA NextRace ==
  ASSUME ContextInv, RaceInv, CommandInv, [Next]_vars
  PROVE  RaceInv'
<1>1. CASE raw_interaction_event
  BY <1>1, SameRace DEF raw_interaction_event
<1>2. CASE WrapperStep
  <2>1. CASE UNCHANGED contextVars
    BY <2>1, SameRace
  <2>2. CASE ~UNCHANGED contextVars
    <3>1. PICK edit_origin \in BOOLEAN :
            defer("wrapper", edit_origin) /\ UNCHANGED <<discord, blurred>> /\ wrapper.at = "sleep"
      BY <1>2, <2>2 DEF WrapperStep, deferring_func, Deferred, Awaited
    <3>2. "wrapper" \in Tasks /\ ~InCall("wrapper")
      BY <3>1, InteractionAssumption DEF CommandInv
    <3> QED BY <3>1, <3>2, DeferRace
  <2> QED BY <2>1, <2>2
<1>3. CASE UserCalls
  <2>1. PICK t \in Tasks : Respond(t)
    BY <1>3, InteractionAssumption DEF UserCalls
  <2> QED BY <2>1, BeginRace DEF Respond
<1>4. CASE CoroutineEnds
  BY <1>4, SameRace DEF CoroutineEnds
<1>5. CASE \E w \in scene.waiters : Waits(w) /\ Others
  BY <1>5, SameRace DEF Others
<1>6. ASSUME NEW t \in Tasks, Serve(t) \/ ServeFault(t) PROVE RaceInv'
  BY <1>6, ServeRace, FaultRace
<1>7. ASSUME NEW t \in Tasks, Answer(t) PROVE RaceInv'
  BY <1>7, RaisedRace, CreatedRace, FinishedRace DEF Answer
<1>8. CASE Expire
  BY <1>8, ExpireRace
<1>9. CASE UNCHANGED vars
  BY <1>9, SameRace DEF vars
<1> QED BY <1>1, <1>2, <1>3, <1>4, <1>5, <1>6, <1>7, <1>8, <1>9 DEF Next

----------------------------------------------------------------------------
(* The theorems *)

LEMMA NextWaits ==
  ASSUME CommandInv, WaitInv, [Next]_vars
  PROVE  WaitInv'
<1>1. scene.events \in 0..MaxEvents /\ scene.waiters \subseteq Waiters /\ scene.timed \subseteq BOOLEAN
  BY InteractionAssumption DEF CommandInv
<1>2. CASE raw_interaction_event
  <2>1. dispatched < MaxEvents /\ dispatch(dispatched + 1)
    BY <1>1, <1>2, MaxEventsAssumption DEF raw_interaction_event, WaitInv, WaiterTypes
  <2> QED BY <2>1, DispatchKeeps
<1>3. ASSUME NEW w \in scene.waiters, Waits(w) PROVE WaitInv'
  <2>1. w \in Waiters
    BY <1>1
  <2>2. CASE WaiterStep(w) \/ Cancel(w)
    BY <2>1, <2>2, WaiterKeeps
  <2>3. CASE dispatched < scene.events /\ \E timed \in scene.timed : wait_for(w, timed)
    <3>1. dispatched < MaxEvents
      BY <1>1, <2>3, MaxEventsAssumption DEF WaitInv, WaiterTypes
    <3>2. PICK timed \in BOOLEAN : wait_for(w, timed)
      BY <1>1, <2>3
    <3> QED BY <2>1, <3>1, <3>2, Wait_forKeeps
  <2> QED BY <1>3, <2>2, <2>3 DEF Waits
<1>4. CASE UNCHANGED dispatchVars
  BY <1>4 DEF dispatchVars, WaitInv, WaiterTypes, Fits, Seen
<1> QED BY <1>2, <1>3, <1>4 DEF Next, WrapperStep, UserCalls, Respond, CoroutineEnds, Aside, vars

IInv == ContextInv /\ CommandInv /\ WaitInv /\ RaceInv

\* The four invariants hold together: each is kept by a step that finds all of them.
THEOREM Invariance == Spec => []IInv
<1>1. Init => IInv
  BY InitInv, InitCommand, InitWaits, InitRace DEF IInv
<1>2. IInv /\ [Next]_vars => IInv'
  BY NextKeeps, NextCommand, NextWaits, NextRace DEF IInv
<1> QED BY <1>1, <1>2, PTL DEF Spec

\* The variables have their types, and a task is in a call of the context only where the
\* wrapper (client/models/command.py) and the coroutine let it be.
THEOREM TypeCorrect == Spec => []TypeOK
<1>1. IInv => TypeOK
  <2> SUFFICES ASSUME IInv PROVE TypeOK
    OBVIOUS
  <2>1. DispatchType
    BY DEF IInv, WaitInv, WaiterTypes, WaiterStates, DispatchType
  <2>2. ContextType
    BY DEF IInv, ContextInv, Types, Contexts, Callbacks, Messages, Resting, Requests, CommandInv, ContextType, Initial
  <2> QED BY <2>1, <2>2 DEF IInv, CommandInv, TypeOK
<1> QED BY <1>1, Invariance, PTL

\* A context that says it has responded has (client/context.py): no later call of it
\* sends a followup that nobody can see.
THEOREM Responds == Spec => []RespondedAnswered
<1>1. IInv => RespondedAnswered
  BY DEF IInv, ContextInv
<1> QED BY <1>1, Invariance, PTL

\* An initial response is refused as a second one only if it raced another, or one had failed
\* (client/context.py).
THEOREM RefusesOnlyRaced == Spec => []RefusedOnlyRaced
<1>1. IInv => RefusedOnlyRaced
  BY DEF IInv, RaceInv, First, RefusedOnlyRaced
<1> QED BY <1>1, Invariance, PTL

\* A send() that raced no other initial response shows its message, or comes after the three
\* seconds (client/context.py).
THEOREM SendsShow == Spec => []SendShows
<1>1. IInv => SendShows
  <2> SUFFICES ASSUME IInv, NEW t \in Tasks, InCall(t), calls[t].method = "send", calls[t].clear,
                      discord.answer # "expired", calls[t].served \in {"ok", "refused", "unknown"}
               PROVE  calls[t].shown
    BY DEF SendShows
  <2>1. Shows(calls[t], discord.answer, ctx.responded) /\ First(calls[t], Open)
    BY DEF IInv, RaceInv
  <2> QED BY <2>1 DEF Shows, First, Initial
<1> QED BY <1>1, Invariance, PTL

\* The pending futures of wait_for() (client/bot.py) are those that Listener.extra_events
\* (api/dispatch.py) lists, each once: every one is reached by the next dispatch.
THEOREM FuturesListed == Spec => []FuturesAgree
<1>1. IInv => FuturesAgree
  <2> SUFFICES ASSUME IInv PROVE FuturesAgree
    OBVIOUS
  <2>1. Range(extra) \subseteq Waiters
    BY DEF IInv, WaitInv, WaiterTypes, Range
  <2> QED BY <2>1 DEF IInv, WaitInv, Fits, FuturesAgree, Pending
<1> QED BY <1>1, Invariance, PTL

\* wait_for() (client/bot.py) returns the first event since its call that passes its check,
\* but for those dispatched while it had no future.
THEOREM FirstReturned == Spec => []ReturnsFirst
<1>1. IInv => ReturnsFirst
  BY DEF IInv, WaitInv, Seen, ReturnsFirst
<1> QED BY <1>1, Invariance, PTL
=============================================================================
