----------------------------- MODULE RateLimit -----------------------------
(***************************************************************************)
(* How the packets of a bot keep to the limit of the gateway: WSRateLimit  *)
(* in src/interactions/api/gateway/ratelimit.py, as _send_packet() of      *)
(* client.py calls it: holding reconnect_lock, which heartbeats need too.  *)
(*                                                                         *)
(* Computing and sending take no time: the clock, whose unit is its own    *)
(* resolution, goes on when no task can.  A sleep ends when it should, or  *)
(* one tick later.                                                         *)
(***************************************************************************)
EXTENDS Naturals, Sequences, SequencesExt

CONSTANTS
  Users,       \* tasks of the bot that send packets
  MaxPackets,  \* max: the packets of one window
  Period,      \* per_second: how long a window lasts
  MaxTime      \* bound: when the last packet is sent

ASSUME RateAssumption ==
  /\ "hb" \notin Users
  /\ MaxPackets \in Nat \ {0} /\ Period \in Nat \ {0} /\ MaxTime \in Nat

Tasks == Users \cup {"hb"}

VARIABLES
  now,            \* time()
  pc,             \* what each task does in _send_packet()
  queue,          \* the tasks that wait for reconnect_lock, in order
  remaining,      \* remaining
  current_limit,  \* current_limit
  until,          \* when the task that sleeps in block() wakes up
  opened,         \* history: when remaining was last set to max
  used,           \* history: packets let through since, MaxPackets + 1 for more
  hbSince,        \* history: since when the heartbeat waits
  ahead           \* history: tasks that had the lock or waited for it before it

limitVars == <<remaining, current_limit, opened, used>>
beatVars == <<hbSince, ahead>>
vars == <<now, pc, queue, limitVars, until, beatVars>>

\* time() starts far from 0, where current_limit does.
Init ==
  /\ now = Period + 1
  /\ pc = [t \in Tasks |-> "idle"]
  /\ queue = <<>>
  /\ remaining = MaxPackets /\ current_limit = 0
  /\ until = 0
  /\ opened = 0 /\ used = 0
  /\ hbSince = 0 /\ ahead = 0

\* One more packet of the window.
OneMore == IF used > MaxPackets THEN used ELSE used + 1

Sleeping == \E u \in Users : pc[u] = "sleep"

\* What mistakes in the code could make of the operators below: a window that
\* is over as soon as time passes; a full sleep whatever has passed of the
\* window; no sleep; the packets of the last window added to those of the next.
LeftAtOnce  == IF now > current_limit THEN MaxPackets ELSE remaining
WholePeriod == IF current_limit + Period > now THEN Period ELSE 0
NoRemainder == 0
TwiceMax    == IF now > current_limit + Period THEN remaining + MaxPackets ELSE remaining

\* remaining as delay sees it, once the window that is over has been reset.
Left == IF now > current_limit + Period THEN MaxPackets ELSE remaining

\* What delay returns when nothing is left, 0 at the end of the window.
Remainder == IF current_limit + Period > now THEN current_limit + Period - now ELSE 0

----------------------------------------------------------------------------
(* _send_packet().                                                         *)

Call(t) ==
  /\ pc[t] = "idle" /\ now < MaxTime
  /\ pc' = [pc EXCEPT ![t] = "wait"]
  /\ queue' = Append(queue, t)
  /\ hbSince' = IF t = "hb" THEN now ELSE hbSince
  /\ ahead' = IF t = "hb" THEN Len(queue) + (IF Sleeping THEN 1 ELSE 0) ELSE ahead
  /\ UNCHANGED <<now, until, limitVars>>

\* The next task gets reconnect_lock.
Admit(t, to) ==
  /\ ~Sleeping /\ queue # <<>> /\ Head(queue) = t
  /\ queue' = Tail(queue)
  /\ pc' = [pc EXCEPT ![t] = to]
  /\ UNCHANGED <<now, beatVars>>

\* A heartbeat is not counted.
Heartbeat == Admit("hb", "idle") /\ UNCHANGED <<until, limitVars>>

\* A packet that is counted: the first one and the last one of a window set
\* the time from which its end is reckoned.
Pass(u) ==
  /\ Left > 0 /\ Admit(u, "idle")
  /\ remaining' = Left - 1
  /\ current_limit' = IF Left = MaxPackets \/ Left = 1 THEN now ELSE current_limit
  /\ opened' = IF Left = MaxPackets THEN now ELSE opened
  /\ used' = IF Left = MaxPackets THEN 1 ELSE OneMore
  /\ UNCHANGED until

\* Nothing is left of the window: block() sleeps, with both locks.
Sleep(u) ==
  /\ Left = 0 /\ Remainder > 0 /\ Admit(u, "sleep")
  /\ until' \in {now + Remainder, now + Remainder + 1}
  /\ UNCHANGED limitVars

\* At the very end of the window delay is 0 and nothing is counted.
PassAtEnd(u) ==
  /\ Left = 0 /\ Remainder = 0 /\ Admit(u, "idle")
  /\ used' = OneMore
  /\ UNCHANGED <<remaining, current_limit, opened, until>>

\* After the sleep the packet goes out, uncounted.
WakeUp(u) ==
  /\ pc[u] = "sleep" /\ now >= until
  /\ pc' = [pc EXCEPT ![u] = "idle"]
  /\ used' = OneMore
  /\ UNCHANGED <<now, queue, remaining, current_limit, until, opened, beatVars>>

\* The task is cancelled: both locks are released.
Cancel(u) ==
  /\ \/ pc[u] = "sleep" /\ UNCHANGED queue
     \/ /\ pc[u] = "wait"
        /\ \E i \in 1..Len(queue) : queue[i] = u /\ queue' = RemoveAt(queue, i)
  /\ pc' = [pc EXCEPT ![u] = "idle"]
  /\ UNCHANGED <<now, until, beatVars, limitVars>>

\* A task can go on: it has the lock, or its sleep is over.
Ready == IF Sleeping THEN now >= until ELSE queue # <<>>

Tick ==
  /\ ~Ready /\ (now < MaxTime \/ Sleeping)
  /\ now' = now + 1
  /\ UNCHANGED <<pc, queue, until, beatVars, limitVars>>

Next ==
  \/ \E t \in Tasks : Call(t)
  \/ \E u \in Users : Pass(u) \/ Sleep(u) \/ PassAtEnd(u) \/ WakeUp(u) \/ Cancel(u)
  \/ Heartbeat \/ Tick

Spec == Init /\ [][Next]_vars

----------------------------------------------------------------------------
(* Properties.                                                             *)

\* The values the limiter and its callers take; only one task sleeps.
TypeOK ==
  /\ now \in Nat /\ until \in Nat /\ hbSince \in Nat /\ ahead \in Nat
  /\ pc \in [Tasks -> {"idle", "wait", "sleep"}]
  /\ pc["hb"] # "sleep"
  /\ \A u, v \in Users : pc[u] = "sleep" /\ pc[v] = "sleep" => u = v
  /\ queue \in Seq(Tasks)
  /\ remaining \in 0..MaxPackets /\ current_limit \in 0..now
  /\ opened \in Nat /\ used \in Nat

\* From the packet that opens a window, max packets go out within per_second,
\* whoever sleeps, is cancelled or wakes up late: the packets that block()
\* does not count all go out when that time is over.
WindowQuota == now < opened + Period => used <= MaxPackets

\* A window opens when the one before is over.
WindowsApart == [][opened' # opened => opened' > opened + Period]_vars

\* A heartbeat that finds no more packets before it than fill a window and one,
\* the one whose task sleeps, waits for one sleep at most, though it takes the
\* lock that this task sleeps with.  With more before it a second sleep may
\* come first: nothing in the code bounds how many tasks send.
HeartbeatDelay ==
  pc["hb"] = "wait" /\ ahead <= MaxPackets + 1 => now <= hbSince + Period + 1
=============================================================================
