------------------------------ MODULE Gateway ------------------------------
(***************************************************************************)
(* The connection manager of the library: WebSocketClient in               *)
(* src/interactions/api/gateway/client.py, with the part of Client         *)
(* (client/bot.py) that starts it, stops it and cleans up after it.        *)
(*                                                                         *)
(* asyncio runs one task at a time and switches only where a task awaits,  *)
(* so a step is the code a task runs between two awaits.  The tasks are    *)
(*   "main"  run(), the _receive task run() waits for, _handle_stream();   *)
(*   "hb"    the task _task of run_heartbeat();                            *)
(*   u       one of Users: bot code calling _update_presence() or          *)
(*           request_guild_members().                                      *)
(* Discord and the network are the Server* actions.  The ones named in     *)
(* Faults disturb the connection, MaxFaults times at most.                 *)
(***************************************************************************)
EXTENDS Naturals, Sequences, SequencesExt

CONSTANTS
  Users,            \* tasks of the bot's own code that send packets
  Faults,           \* what Discord, the network and the user may do
  MaxFaults,        \* bound: disturbances of the connection in a behaviour
  MaxSeq,           \* bound: events of one session
  MaxInbox,         \* bound: frames sent and not yet received
  HandshakeYields   \* whether send_str() of IDENTIFY/RESUME may suspend

AllFaults == {"close", "fatal", "drop", "refuse", "reconnect", "invalid",
              "beat", "lateAck", "split", "badEvent", "stop"}

ASSUME GatewayAssumption ==
  /\ Users \cap {"main", "hb", "nobody"} = {}
  /\ Faults \subseteq AllFaults
  /\ MaxFaults \in Nat /\ MaxSeq \in Nat /\ MaxInbox \in Nat
  /\ HandshakeYields \in BOOLEAN

Tasks == {"main", "hb"} \cup Users

\* What a frame holds, as far as __receive_packet() and _handle_stream()
\* tell frames apart; s is the sequence number, 0 when there is none: events
\* have one.
Ops == {"READY", "RESUMED", "EVENT", "BAD_EVENT", "PART", "ACK", "HEARTBEAT",
        "RECONNECT", "INVALID", "INVALID_RESUMABLE",
        "CLOSE_1000", "CLOSE_OTHER", "CLOSE_4000"}
Numbered == {"READY", "EVENT", "BAD_EVENT"}
Frame == {f \in [op : Ops, s : Nat] : f.s # 0 <=> f.op \in Numbered}
Closes == {"CLOSE_1000", "CLOSE_OTHER", "CLOSE_4000"}

VARIABLES
  pc,          \* where each task is suspended
  inReceive,   \* main is in the _receive task, which a stop cancels
  resume,      \* to_resume of main's pending _reconnect()
  owner,       \* the task that holds reconnect_lock, or "nobody"
  closed,      \* Event __closed: set while the connection may be read
  hbEvent,     \* Event __heartbeat_event: set to end the heartbeat loop
  ack,         \* Event __heartbeater.event: the last heartbeat was answered
  ready,       \* Event ready
  closing,     \* Event _closing_lock
  stopped,     \* Client._stop() was called and closed the HTTP session
  client,      \* _client is not None
  shaken,      \* IDENTIFY or RESUME went out on this connection
  up,          \* the transport of this connection is alive
  inbox,       \* frames sent to this connection and not yet received
  buffer,      \* bytes __receive_packet() holds: from which connection
  session_id,  \* session_id and resume_url, 0 while they are None
  sequence,    \* sequence
  handled,     \* history: the last event of session_id given to the bot
  srvSession,  \* Discord: the live session, 0 when none
  srvLast,     \* Discord: the last event of that session
  attached,    \* Discord: this connection receives the session's events
  hbPending,   \* Discord: a heartbeat not yet acknowledged
  budget       \* disturbances left

localVars   == <<inReceive, resume, buffer>>
eventVars   == <<closed, hbEvent, ack, ready>>
stopVars    == <<closing, stopped>>
connVars    == <<client, shaken, up, inbox, attached, hbPending>>
sessionVars == <<session_id, sequence, handled>>
serverVars  == <<srvSession, srvLast, budget>>
netVars     == <<connVars, serverVars>>
vars == <<pc, localVars, owner, eventVars, stopVars, netVars, sessionVars>>

Finished == {"returned", "raised", "loggedOut"}
Running  == pc["main"] # "loggedOut"
HbAlive  == pc["hb"] \notin {"none", "done"}

Init ==
  /\ pc = [t \in Tasks |-> IF t = "main" THEN "connect"
                           ELSE IF t = "hb" THEN "none" ELSE "idle"]
  /\ inReceive = FALSE /\ resume = FALSE
  /\ owner = "nobody" /\ closed = FALSE
  /\ hbEvent = FALSE /\ ack = FALSE /\ ready = FALSE
  /\ closing = FALSE /\ stopped = FALSE
  /\ client = FALSE /\ shaken = FALSE /\ up = FALSE
  /\ inbox = <<>> /\ attached = FALSE /\ hbPending = FALSE
  /\ buffer = "empty"
  /\ session_id = 0 /\ sequence = 0 /\ handled = 0
  /\ srvSession = 0 /\ srvLast = 0
  /\ budget = MaxFaults

Go(t, from, to) == pc[t] = from /\ pc' = [pc EXCEPT ![t] = to]
Fault(f)        == f \in Faults /\ budget > 0 /\ budget' = budget - 1

\* What a mistake in the code could make of the operators below: an event or
\* the lock left as it was, the lock not waited for, a "s" not recorded, the
\* heartbeat loop left after the first heartbeat.
GateUntouched        == UNCHANGED closed
HbEventUntouched     == UNCHANGED hbEvent
ReleaseForgotten     == UNCHANGED owner
AcquireUnlocked(t)   == owner' = t
RecordedNever(frame) == sequence
AfterSendOnce(t)     == IF t = "main" THEN "gate" ELSE "idle"

Release == owner' = "nobody"

\* reconnect_lock is a FIFO asyncio.Lock; which waiter is next is left open.
Acquire(t) == owner = "nobody" /\ owner' = t

\* Event __closed, cleared while nothing may be read from the connection.
ShutGate == closed' = FALSE
OpenGate == closed' = TRUE

\* run_heartbeat() clears __heartbeat_event before its loop tests it.
Rearm == hbEvent' = FALSE

\* _reconnect() withdraws ready before it waits for the lock.
ClearReady == ready' = FALSE

----------------------------------------------------------------------------
(* The handshake, common to run() and _reconnect().                        *)

\* A new WebSocket whose HELLO has arrived; the heartbeat task is created.
NewConnection ==
  /\ client' = TRUE /\ up' = TRUE /\ shaken' = FALSE
  /\ inbox' = <<>> /\ attached' = FALSE /\ hbPending' = FALSE

\* Discord's answer to RESUME: the missed events, or INVALID_SESSION.
Missed == [i \in 1..(srvLast - sequence) |-> [op |-> "EVENT", s |-> sequence + i]]

SendIdentify ==
  /\ shaken' = TRUE /\ attached' = TRUE
  /\ srvSession' = srvSession + 1 /\ srvLast' = 0
  /\ UNCHANGED <<client, up, inbox, hbPending, budget>>

SendResume ==
  /\ shaken' = TRUE
  /\ \/ /\ session_id = srvSession
        /\ attached' = TRUE
        /\ inbox' = (inbox \o Missed) \o <<[op |-> "RESUMED", s |-> 0]>>
        /\ UNCHANGED budget
     \/ /\ IF session_id = srvSession THEN Fault("invalid") ELSE UNCHANGED budget
        /\ attached' = FALSE
        /\ inbox' = Append(inbox, [op |-> "INVALID", s |-> 0])
  /\ UNCHANGED <<client, up, hbPending, srvSession, srvLast>>

----------------------------------------------------------------------------
(* run() up to its loop: the lock is not taken here.                       *)

RunConnect ==
  /\ pc["main"] = "connect"
  /\ pc' = [pc EXCEPT !["main"] = "identify", !["hb"] = "start"]
  /\ NewConnection
  /\ UNCHANGED <<localVars, owner, eventVars, stopVars, sessionVars,
                 serverVars>>

RunConnectFails ==
  /\ Go("main", "connect", "raised")
  /\ \/ stopped /\ UNCHANGED budget
     \/ Fault("refuse")
  /\ UNCHANGED <<localVars, owner, eventVars, stopVars, connVars, sessionVars,
                 srvSession, srvLast>>

RunIdentify ==
  /\ up
  /\ Go("main", "identify", "gate")
  /\ SendIdentify
  /\ OpenGate /\ ack' = TRUE /\ inReceive' = TRUE
  /\ UNCHANGED <<resume, buffer, owner, hbEvent, ready, stopVars, sessionVars>>

RunIdentifyFails ==
  /\ ~up
  /\ Go("main", "identify", "raised")
  /\ UNCHANGED <<localVars, owner, eventVars, stopVars, netVars, sessionVars>>

----------------------------------------------------------------------------
(* _reconnect(), run by main or by the heartbeat task.                     *)

\* Called: everything before the lock.
CallReconnect(toResume) ==
  /\ pc' = [pc EXCEPT !["main"] = "rcLock"]
  /\ ClearReady /\ resume' = toResume

RcLock(t) ==
  /\ Running
  /\ Go(t, "rcLock", "rcClose")
  /\ Acquire(t) /\ ShutGate
  /\ UNCHANGED <<localVars, hbEvent, ack, ready, stopVars, netVars,
                 sessionVars>>

\* _client.close() has returned.  A receive() pending on the connection was
\* woken with CLOSING and waits for __closed.  Cancelling _task ends a
\* heartbeat task that is suspended elsewhere; when t is that task itself,
\* the cancellation strikes at its next await, ws_connect().
RcClose(t) ==
  /\ Running /\ pc[t] = "rcClose"
  /\ pc' = [p \in Tasks |->
              IF p = t THEN "rcConnect"
              ELSE IF p = "hb" /\ HbAlive THEN "done"
              ELSE IF p = "main" /\ pc[p] = "receive" THEN "gate"
              ELSE pc[p]]
  /\ client' = FALSE /\ shaken' = FALSE /\ up' = FALSE
  /\ inbox' = <<>> /\ attached' = FALSE /\ hbPending' = FALSE
  /\ buffer' = IF buffer = "empty" THEN "empty" ELSE "stale"
  /\ hbEvent' = FALSE
  /\ UNCHANGED <<inReceive, resume, owner, closed, ack, ready, stopVars,
                 sessionVars, serverVars>>

HbCancelled ==
  /\ Running
  /\ Go("hb", "rcConnect", "done")
  /\ Release
  /\ UNCHANGED <<localVars, eventVars, stopVars, netVars, sessionVars>>

RcConnect ==
  /\ pc["main"] = "rcConnect"
  /\ resume => session_id # 0
  /\ pc' = [pc EXCEPT !["main"] = "rcSend", !["hb"] = "start"]
  /\ NewConnection
  /\ UNCHANGED <<localVars, owner, eventVars, stopVars, sessionVars,
                 serverVars>>

\* ws_connect() raises: the HTTP session was closed (another request may have
\* opened a new one), the URL is "None?v=10...", the network refuses, or the
\* connection closes before HELLO.
RcConnectFails ==
  /\ Go("main", "rcConnect", "raised")
  /\ \/ (stopped \/ (resume /\ session_id = 0)) /\ UNCHANGED budget
     \/ Fault("refuse")
  /\ Release
  /\ UNCHANGED <<localVars, eventVars, stopVars, connVars, sessionVars,
                 srvSession, srvLast>>

\* IDENTIFY or RESUME is sent and _reconnect() returns: the _receive task goes
\* on with the bytes it holds, while after _handle_stream() run() starts a new
\* one, which holds none: a complete message has always emptied the buffer.
RcSend ==
  /\ up
  /\ Go("main", "rcSend", "gate")
  /\ IF resume THEN SendResume ELSE SendIdentify
  /\ OpenGate /\ hbEvent' = TRUE /\ inReceive' = TRUE
  /\ Release
  /\ UNCHANGED <<resume, buffer, ack, ready, stopVars, sessionVars>>

RcSendFails ==
  /\ ~up
  /\ Go("main", "rcSend", "raised")
  /\ Release
  /\ UNCHANGED <<localVars, eventVars, stopVars, netVars, sessionVars>>

----------------------------------------------------------------------------
(* __receive_packet() and _handle_stream().                                *)

PassGate ==
  /\ closed
  /\ Go("main", "gate", "receive")
  /\ UNCHANGED <<localVars, owner, eventVars, stopVars, netVars, sessionVars>>

\* The next frame is taken off the connection.
Take(ops) ==
  /\ pc["main"] = "receive" /\ inbox # <<>> /\ Head(inbox).op \in ops
  /\ inbox' = Tail(inbox)
  /\ UNCHANGED <<owner, closed, hbEvent, stopVars, client, shaken, up, attached,
                 hbPending, serverVars>>

ReceiveClose ==
  /\ Take({"CLOSE_1000", "CLOSE_OTHER"})
  /\ CallReconnect(Head(inbox).op # "CLOSE_1000")
  /\ UNCHANGED <<inReceive, buffer, ack, sessionVars>>

ReceiveFatal ==
  /\ Take({"CLOSE_4000"})
  /\ Go("main", "receive", "raised")
  /\ UNCHANGED <<localVars, ack, ready, sessionVars>>

\* The transport is gone: receive() returns CLOSED.
ReceiveClosed ==
  /\ pc["main"] = "receive" /\ inbox = <<>> /\ ~up
  /\ IF closed THEN CallReconnect(TRUE)
     ELSE Go("main", "receive", "gate") /\ UNCHANGED <<resume, ready>>
  /\ UNCHANGED <<inReceive, buffer, owner, closed, hbEvent, ack, stopVars,
                 netVars, sessionVars>>

\* Bytes that do not end a zlib message are kept for the next frame.
ReceivePart ==
  /\ Take({"PART"})
  /\ Go("main", "receive", "gate")
  /\ buffer' = IF buffer = "empty" THEN "current" ELSE buffer
  /\ UNCHANGED <<inReceive, resume, ack, ready, sessionVars>>

\* Decompressing bytes of two connections raises zlib.error.
ReceiveCorrupt ==
  /\ Take(Ops \ (Closes \cup {"PART"})) /\ buffer = "stale"
  /\ Go("main", "receive", "raised")
  /\ UNCHANGED <<localVars, ack, ready, sessionVars>>

Recorded(frame) == IF frame.s # 0 THEN frame.s ELSE sequence

\* A complete message: "s" is recorded before anything else is done with it.
Handle(ops) ==
  /\ Take(ops) /\ buffer # "stale" /\ buffer' = "empty"
  /\ sequence' = Recorded(Head(inbox))
  /\ handled' = IF Head(inbox).s # 0 THEN Head(inbox).s ELSE handled

HandleEvent ==
  /\ Handle({"EVENT", "RESUMED"})
  /\ Go("main", "receive", "gate")
  /\ UNCHANGED <<inReceive, resume, ack, ready, session_id>>

\* A processor raises on an event it cannot apply; nothing catches it.
HandleBadEvent ==
  /\ Handle({"BAD_EVENT"})
  /\ Go("main", "receive", "raised")
  /\ UNCHANGED <<inReceive, resume, ack, ready, session_id>>

HandleReady ==
  /\ Handle({"READY"})
  /\ Go("main", "receive", "gate")
  /\ ready' = TRUE /\ session_id' = srvSession
  /\ UNCHANGED <<inReceive, resume, ack>>

HandleAck ==
  /\ Handle({"ACK"})
  /\ Go("main", "receive", "gate")
  /\ ack' = TRUE
  /\ UNCHANGED <<inReceive, resume, ready, session_id>>

HandleReconnect ==
  /\ Handle({"RECONNECT", "INVALID", "INVALID_RESUMABLE"})
  /\ CallReconnect(Head(inbox).op # "INVALID")
  /\ inReceive' = FALSE
  /\ UNCHANGED <<ack, session_id>>

HandleHeartbeat ==
  /\ Handle({"HEARTBEAT"})
  /\ Go("main", "receive", "lock")
  /\ inReceive' = FALSE
  /\ UNCHANGED <<resume, ack, ready, session_id>>

----------------------------------------------------------------------------
(* The heartbeat task, and _send_packet().                                 *)

\* run_heartbeat() up to the lock of the first heartbeat.
HbStart ==
  /\ Running
  /\ HandshakeYields \/ pc["main"] \notin {"identify", "rcSend"}
  /\ Go("hb", "start", "lock")
  /\ Rearm /\ ack' = FALSE
  /\ UNCHANGED <<localVars, owner, closed, ready, stopVars, netVars,
                 sessionVars>>

\* The interval is over: the loop's test, then a heartbeat or _reconnect(True).
\* Without the fault "lateAck" an ACK never takes a whole interval; sending
\* the first IDENTIFY never does.
HbTimeout ==
  /\ Running /\ pc["hb"] = "sleep" /\ ~hbEvent /\ pc["main"] # "identify"
  /\ \/ /\ ack
        /\ pc' = [pc EXCEPT !["hb"] = "lock"] /\ ack' = FALSE /\ UNCHANGED ready
     \/ /\ ~ack /\ "lateAck" \in Faults
        /\ pc' = [pc EXCEPT !["hb"] = "rcLock"] /\ ClearReady /\ UNCHANGED ack
  /\ UNCHANGED <<localVars, owner, closed, hbEvent, stopVars, netVars,
                 sessionVars>>

HbEnd ==
  /\ Running /\ hbEvent
  /\ Go("hb", "sleep", "done")
  /\ UNCHANGED <<localVars, owner, eventVars, stopVars, netVars, sessionVars>>

\* A user's call, from a handler: no handler runs before READY.
Call(u) ==
  /\ Running /\ session_id # 0
  /\ Go(u, "idle", "lock")
  /\ UNCHANGED <<localVars, owner, eventVars, stopVars, netVars, sessionVars>>

\* The lock, and for a user's packet _ratelimiter.block(), which may sleep.
SendLock(t) ==
  /\ Running
  /\ Go(t, "lock", "send")
  /\ Acquire(t)
  /\ UNCHANGED <<localVars, eventVars, stopVars, netVars, sessionVars>>

AfterSend(t) == IF t = "main" THEN "gate" ELSE IF t = "hb" THEN "sleep" ELSE "idle"

\* Without a connection the packet is dropped silently.
Send(t) ==
  /\ Running /\ (client => up)
  /\ Go(t, "send", AfterSend(t))
  /\ hbPending' = IF t \in Users THEN hbPending ELSE client
  /\ inReceive' = IF t = "main" THEN TRUE ELSE inReceive
  /\ Release
  /\ UNCHANGED <<resume, buffer, eventVars, stopVars, client, shaken, up, inbox,
                 attached, sessionVars, serverVars>>

\* send_str() raises on a dead transport.  run_heartbeat() turns that into a
\* stop of the whole client; in main it ends run(); a user's call fails.
SendFails(t) ==
  /\ Running /\ client /\ ~up
  /\ Go(t, "send", IF t = "main" THEN "raised" ELSE IF t = "hb" THEN "done" ELSE "idle")
  /\ closing' = IF t = "hb" THEN TRUE ELSE closing
  /\ Release
  /\ UNCHANGED <<localVars, eventVars, stopped, netVars, sessionVars>>

----------------------------------------------------------------------------
(* Client._stop(), the end of run(), Client._login() and Client._logout(). *)

Stop ==
  /\ "stop" \in Faults /\ Running /\ ~stopped
  /\ ready' = FALSE /\ closing' = TRUE /\ stopped' = TRUE
  /\ up' = FALSE /\ attached' = FALSE
  /\ UNCHANGED <<pc, localVars, owner, closed, hbEvent, ack, client, shaken,
                 inbox, hbPending, sessionVars, serverVars>>

\* run() cancels the _receive task, wherever it is suspended, and returns.
RunReturns ==
  /\ closing /\ inReceive
  /\ pc["main"] \in {"gate", "receive", "rcLock", "rcClose", "rcConnect", "rcSend"}
  /\ pc' = [pc EXCEPT !["main"] = "returned"]
  /\ owner' = IF owner = "main" THEN "nobody" ELSE owner
  /\ UNCHANGED <<localVars, eventVars, stopVars, netVars, sessionVars>>

\* run() raised while closing: the handler of _login() reads a name-mangled
\* __heartbeat_event, an AttributeError, so that it closes the connection
\* but never waits for _task.
LoginHandler ==
  /\ Go("main", "raised", "returned")
  /\ client' = (client /\ ~closing) /\ up' = (up /\ ~closing)
  /\ UNCHANGED <<localVars, owner, eventVars, stopVars, shaken, inbox, attached,
                 hbPending, sessionVars, serverVars>>

\* WebSocketClient.close(), then the event loop stops for good.
Logout ==
  /\ Go("main", "returned", "loggedOut")
  /\ closed' = TRUE /\ up' = FALSE /\ attached' = FALSE
  /\ UNCHANGED <<localVars, owner, hbEvent, ack, ready, stopVars, client,
                 shaken, inbox, hbPending, sessionVars, serverVars>>

----------------------------------------------------------------------------
(* Discord and the network.                                                *)

\* The client has the first part of a message whose rest was not sent.
Half == \/ inbox # <<>> /\ Last(inbox).op = "PART"
        \/ inbox = <<>> /\ buffer = "current"

ServerSends(op, s) ==
  /\ up /\ Len(inbox) < MaxInbox
  /\ inbox' = Append(inbox, [op |-> op, s |-> s])
  /\ UNCHANGED <<pc, localVars, owner, eventVars, stopVars, client, shaken, up,
                 sessionVars, srvSession>>

ServerReady ==
  /\ attached /\ srvLast = 0 /\ srvLast' = 1
  /\ ServerSends("READY", 1)
  /\ UNCHANGED <<attached, hbPending, budget>>

ServerEvent ==
  /\ attached /\ srvLast > 0 /\ srvLast < MaxSeq /\ srvLast' = srvLast + 1
  /\ ServerSends("EVENT", srvLast + 1)
  /\ UNCHANGED <<attached, hbPending, budget>>

ServerBadEvent ==
  /\ attached /\ ~Half /\ srvLast > 0 /\ srvLast < MaxSeq /\ srvLast' = srvLast + 1
  /\ Fault("badEvent") /\ ServerSends("BAD_EVENT", srvLast + 1)
  /\ UNCHANGED <<attached, hbPending>>

ServerPart ==
  /\ attached /\ ~Half /\ srvLast > 0 /\ srvLast < MaxSeq
  /\ Fault("split") /\ ServerSends("PART", 0)
  /\ UNCHANGED <<attached, hbPending, srvLast>>

ServerAck ==
  /\ attached /\ ~Half /\ hbPending /\ hbPending' = FALSE
  /\ ServerSends("ACK", 0)
  /\ UNCHANGED <<attached, srvLast, budget>>

\* Discord asks for a heartbeat, or for a new connection.
ServerAsks ==
  /\ attached /\ ~Half
  /\ \/ Fault("beat") /\ ServerSends("HEARTBEAT", 0)
     \/ Fault("reconnect") /\ ServerSends("RECONNECT", 0)
  /\ UNCHANGED <<attached, hbPending, srvLast>>

ServerInvalidates ==
  /\ attached /\ ~Half /\ attached' = FALSE
  /\ Fault("invalid")
  /\ \E op \in {"INVALID", "INVALID_RESUMABLE"} :
       (op = "INVALID" \/ srvLast > 0) /\ ServerSends(op, 0)
  /\ UNCHANGED <<hbPending, srvLast>>

ServerCloses ==
  /\ attached /\ attached' = FALSE
  /\ \/ Fault("close") /\ \E op \in {"CLOSE_1000", "CLOSE_OTHER"} : ServerSends(op, 0)
     \/ Fault("fatal") /\ ServerSends("CLOSE_4000", 0)
  /\ UNCHANGED <<hbPending, srvLast>>

\* The transport dies; the frames in flight from some point on are lost.
Drop ==
  /\ up /\ Fault("drop")
  /\ \E n \in 0..Len(inbox) : inbox' = SubSeq(inbox, 1, n)
  /\ up' = FALSE /\ attached' = FALSE
  /\ UNCHANGED <<pc, localVars, owner, eventVars, stopVars, client, shaken,
                 hbPending, sessionVars, srvSession, srvLast>>

----------------------------------------------------------------------------

Main ==
  \/ RunConnect \/ RunConnectFails \/ RunIdentify \/ RunIdentifyFails
  \/ RcConnect \/ RcConnectFails \/ RcSend \/ RcSendFails
  \/ PassGate \/ ReceiveClose \/ ReceiveFatal \/ ReceiveClosed \/ ReceivePart
  \/ ReceiveCorrupt \/ HandleEvent \/ HandleBadEvent \/ HandleReady \/ HandleAck
  \/ HandleReconnect \/ HandleHeartbeat
  \/ RunReturns \/ LoginHandler \/ Logout

Heartbeat == HbCancelled \/ HbStart \/ HbTimeout \/ HbEnd

Locked(t) == RcLock(t) \/ SendLock(t)

Unlocks(t) == RcClose(t) \/ Send(t) \/ SendFails(t)

Answers == ServerReady \/ ServerAck

Environment ==
  \/ ServerEvent \/ ServerBadEvent \/ ServerPart \/ ServerAsks
  \/ ServerInvalidates \/ ServerCloses \/ Drop \/ Stop
  \/ \E u \in Users : Call(u)

Next ==
  \/ Main \/ Heartbeat \/ Environment \/ Answers
  \/ \E t \in Tasks : Locked(t) \/ Unlocks(t)

\* asyncio runs every task that can go on, timers expire, reconnect_lock serves
\* its waiters in order, and Discord acknowledges the heartbeats it receives.
Fairness ==
  /\ WF_vars(Main) /\ WF_vars(Heartbeat) /\ WF_vars(ServerReady) /\ WF_vars(ServerAck)
  /\ \A t \in Tasks : SF_vars(Locked(t)) /\ WF_vars(Unlocks(t))

Spec == Init /\ [][Next]_vars
FairSpec == Spec /\ Fairness

----------------------------------------------------------------------------
(* Properties.                                                             *)

MainPcs == {"connect", "identify", "gate", "receive", "lock", "send", "rcLock",
            "rcClose", "rcConnect", "rcSend"} \cup Finished
HbPcs   == {"none", "start", "lock", "send", "sleep", "rcLock", "rcClose",
            "rcConnect", "done"}

PcType ==
  /\ pc \in [Tasks -> MainPcs \cup HbPcs \cup {"idle"}]
  /\ pc["main"] \in MainPcs /\ pc["hb"] \in HbPcs
  /\ \A u \in Users : pc[u] \in {"idle", "lock", "send"}

FlagType ==
  /\ inReceive \in BOOLEAN /\ resume \in BOOLEAN /\ closed \in BOOLEAN
  /\ hbEvent \in BOOLEAN /\ ack \in BOOLEAN /\ ready \in BOOLEAN
  /\ closing \in BOOLEAN /\ stopped \in BOOLEAN /\ client \in BOOLEAN
  /\ shaken \in BOOLEAN /\ up \in BOOLEAN /\ attached \in BOOLEAN
  /\ hbPending \in BOOLEAN

DataType ==
  /\ owner \in Tasks \cup {"nobody"}
  /\ buffer \in {"empty", "current", "stale"}
  /\ inbox \in Seq(Frame)
  /\ session_id \in Nat /\ sequence \in Nat /\ handled \in Nat
  /\ srvSession \in Nat /\ srvLast \in Nat /\ budget \in 0..MaxFaults

\* The values the state of the client, of Discord and of the network takes.
TypeOK == PcType /\ FlagType /\ DataType

Live == pc["main"] \notin Finished

\* While __closed lets the _receive task read, _client is a connection on
\* which IDENTIFY or RESUME went out: no receive() on None, and none that
\* steals the HELLO a handshake waits for.
GateOpensOnSession == closed /\ Live => client /\ shaken

\* A packet of the bot's own code never goes out on a connection that has not
\* been identified, though reconnections run in two other tasks.
PacketsFollowHandshake ==
  \A u \in Users : pc[u] = "send" /\ client /\ Live => shaken

\* While the client reads from a connection its heartbeat task is at work and
\* nothing has told it to end: the __heartbeat_event.set() with which
\* _reconnect() ends must not reach the task _reconnect() has just created.
HeartbeatSurvives ==
  closed /\ Live /\ ~closing => HbAlive /\ (pc["hb"] = "sleep" => ~hbEvent)

\* Across any number of reconnections the bot is given the events of a
\* session in order, none lost and none twice, although what RESUME asks for is
\* all that decides what it gets again.
EventsInOrder ==
  [][handled' # handled =>
       \/ session_id' # session_id /\ handled' = 1
       \/ session_id' = session_id /\ handled' = handled + 1]_vars

\* A client whose connection no longer gets the events of a session gets to
\* read one that does, or run() ends: it does not hang in between.
Recovers ==
  (Live /\ session_id # 0 /\ ~attached) ~> ((attached /\ closed) \/ closing \/ ~Live)

\* The heartbeat goes on while the client is connected.
BeatsForever == []<>(pc["hb"] = "send" \/ ~closed \/ ~Live \/ closing)

\* What the bot sees is the abstract event stream: with FairSpec also that an
\* event of its session reaches it.
Stream == INSTANCE EventStream WITH
  live    <- Live,
  session <- session_id,
  seen    <- handled,
  backlog <- IF session_id = srvSession THEN srvLast - handled ELSE 0

IsEventStream == Stream!Spec
IsFairEventStream == Stream!FairSpec
=============================================================================
