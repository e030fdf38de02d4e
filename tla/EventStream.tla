---------------------------- MODULE EventStream ----------------------------
(***************************************************************************)
(* What the gateway connection promises to the bot, whatever happens to    *)
(* the connections it is made of: the bot follows one session at a time    *)
(* and sees the events of that session one by one, in order.               *)
(***************************************************************************)
EXTENDS Naturals

VARIABLES
  live,     \* the client has not ended
  session,  \* the session the bot follows, 0 before the first
  seen,     \* how many events of that session it has seen
  backlog   \* how many more Discord has recorded for it

vars == <<live, session, seen, backlog>>

Init == live = TRUE /\ session = 0 /\ seen = 0 /\ backlog = 0

\* Discord records one more event.
Publish ==
  /\ backlog' = backlog + 1
  /\ UNCHANGED <<live, session, seen>>

\* The bot is given the next event; handling it may end the client.
Deliver ==
  /\ live /\ backlog > 0
  /\ seen' = seen + 1 /\ backlog' = backlog - 1
  /\ live' \in BOOLEAN
  /\ UNCHANGED session

\* The session is abandoned for one that the bot has not seen yet.
Abandon ==
  /\ backlog' = 0
  /\ UNCHANGED <<live, session, seen>>

\* READY, the first event of another session.
Switch ==
  /\ live /\ session' # session /\ session' \in Nat \ {0}
  /\ seen' = 1 /\ backlog' \in Nat
  /\ UNCHANGED live

End ==
  /\ live /\ live' = FALSE
  /\ UNCHANGED <<session, seen, backlog>>

Next == Publish \/ Deliver \/ Abandon \/ Switch \/ End

Spec     == Init /\ [][Next]_vars
FairSpec == Spec /\ WF_vars(Deliver)
=============================================================================
