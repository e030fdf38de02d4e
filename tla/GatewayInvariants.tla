------------------------- MODULE GatewayInvariants --------------------------
(*****************************************************************************)
(* Why the properties of Gateway hold: the invariants that every step keeps. *)
(* They are checked by TLC together with the properties and used by the      *)
(* proofs.                                                                   *)
(*****************************************************************************)
EXTENDS Gateway

\* The stages of _reconnect() and _send_packet() that hold reconnect_lock, and
\* those of _reconnect() alone.
Rebuilding == {"rcClose", "rcConnect", "rcSend"}
Holding    == Rebuilding \cup {"send"}

\* reconnect_lock is held by exactly the task its owner names.
LockInv == \A t \in Tasks : pc[t] \in Holding <=> owner = t

\* run() before its loop: no lock, no reconnection, no user, no session.
StartInv ==
  /\ pc["main"] = "connect" => ~closed /\ ~client /\ pc["hb"] = "none"
  /\ pc["main"] = "identify" =>
       /\ ~closed /\ client
       /\ pc["hb"] \in {"start", "lock", "send", "sleep", "done"}
  /\ pc["main"] \in {"connect", "identify"} => session_id = 0
  /\ pc["main"] \in {"connect", "identify"} \cup Finished \/ srvSession > 0
  /\ session_id = 0 => \A u \in Users : pc[u] = "idle"

\* The gate is shut while a connection is replaced, and a connection that was
\* not identified is one that a handshake still holds.
GateInv ==
  Live => /\ \A t \in Tasks : pc[t] \in Rebuilding => ~closed
          /\ closed => client /\ shaken
          /\ client /\ ~shaken => pc["main"] \in {"identify", "rcSend"}
          /\ pc["main"] = "rcSend" => client

\* The last event the bot saw of the session Discord holds.
Base == IF session_id = srvSession THEN handled ELSE 0

\* The events of q continue, without a gap, the first b events of a session
\* of which Discord has recorded the first last; READY is the first of all.
Continues(q, b, last) ==
  /\ \A i \in 1..Len(q) : q[i].s # 0 => q[i].s > b /\ q[i].s <= last
  /\ \A i, j \in 1..Len(q) :
       i < j /\ q[i].s # 0 /\ q[j].s # 0 => q[i].s < q[j].s
  /\ \A i \in 1..Len(q) :
       q[i].s > b + 1 => \E j \in 1..Len(q) : j < i /\ q[j].s = q[i].s - 1
  /\ \A i \in 1..Len(q) : q[i].op = "READY" <=> q[i].s = 1

\* They go as far as that record.
Reaches(q, b, last) == last = b \/ \E j \in 1..Len(q) : q[j].s # 0 /\ q[j].s = last

\* What is on its way to the client follows what it has handled, and reaches
\* the last event of the session while Discord still sends to it.
InboxInv ==
  Live => /\ Continues(inbox, Base, srvLast)
          /\ attached => Reaches(inbox, Base, srvLast)

\* What the client knows of its session against what Discord records.
SessionInv ==
  /\ sequence = handled
  /\ session_id <= srvSession
  /\ srvSession = 0 => srvLast = 0 /\ handled = 0 /\ inbox = <<>> /\ ~attached
  /\ session_id = srvSession /\ session_id > 0 => handled > 0 /\ handled <= srvLast
  /\ pc["main"] \in {"connect", "identify", "rcSend"} => inbox = <<>> /\ ~attached
  /\ pc["main"] = "rcSend" /\ resume => session_id # 0

\* The heartbeat task, once it has started, has not been told to end; it is
\* only missing while the gate is shut.
BeatInv ==
  /\ pc["hb"] \in {"lock", "send", "sleep", "rcLock", "rcClose", "rcConnect"} => ~hbEvent
  /\ Live /\ ~closing /\ ~HbAlive => ~closed
  /\ pc["main"] \in {"identify", "rcSend"} => pc["hb"] = "start"

\* The inductive invariant: what GateOpensOnSession, PacketsFollowHandshake,
\* EventsInOrder and the refinement of EventStream need.
Inv ==
  TypeOK /\ LockInv /\ StartInv /\ GateInv /\ SessionInv /\ InboxInv
=============================================================================
