-------------------------- MODULE RateLimitProofs --------------------------
(***************************************************************************)
(* Proofs about RateLimit, for any tasks, limits and periods.              *)
(***************************************************************************)
EXTENDS RateLimit, SequenceTheorems, TLAPS

\* What the proofs need to know of the values of the limiter.
LimitType ==
  /\ now \in Nat /\ now > Period
  /\ remaining \in 0..MaxPackets
  /\ current_limit \in Nat /\ current_limit <= now
  /\ opened \in Nat /\ opened <= current_limit
  /\ used \in Nat /\ until \in Nat

\* Nothing is let through uncounted before current_limit + Period: what is
\* left and what went out make up the window, and who sleeps does so for long
\* enough.
WindowInv ==
  /\ remaining = MaxPackets => opened = 0
  /\ remaining > 0 => used + remaining = MaxPackets
  /\ remaining = 0 /\ now < current_limit + Period => used = MaxPackets
  /\ Sleeping => remaining = 0 /\ until >= current_limit + Period

LimitInv == LimitType /\ WindowInv

\* A packet that is counted, with or without the opening of a window.
LEMMA PassKeeps ==
  ASSUME LimitInv, NEW u \in Users, Pass(u)
  PROVE  LimitInv' /\ (opened' # opened => opened' > opened + Period)
<1> USE RateAssumption DEF LimitInv, LimitType, WindowInv
<1>1. ~Sleeping /\ Left > 0 /\ UNCHANGED <<now, until>> /\ pc' = [pc EXCEPT ![u] = "idle"]
  BY DEF Pass, Admit
<1>2. ~Sleeping'
  BY <1>1 DEF Sleeping
<1>3. CASE Left = MaxPackets
  <2>1. /\ remaining' = MaxPackets - 1 /\ used' = 1
        /\ current_limit' = now /\ opened' = now
    BY <1>3 DEF Pass
  <2>2. now > opened + Period
    BY <1>3 DEF Left
  <2> QED
    BY <1>1, <1>2, <2>1, <2>2
<1>4. CASE Left # MaxPackets
  <2>1. Left = remaining
    BY <1>4 DEF Left
  <2>2. /\ remaining' = remaining - 1 /\ used' = OneMore /\ opened' = opened
        /\ current_limit' = IF remaining = 1 THEN now ELSE current_limit
    BY <1>4, <2>1 DEF Pass
  <2>3. OneMore = used + 1
    BY <1>1, <2>1 DEF OneMore
  <2> QED
    BY <1>1, <1>2, <1>4, <2>1, <2>2, <2>3
<1> QED
  BY <1>3, <1>4

\* Every step keeps the invariant and the windows apart.
LEMMA LimitStep ==
  ASSUME LimitInv, [Next]_vars
  PROVE  LimitInv' /\ (opened' # opened => opened' > opened + Period)
<1> USE RateAssumption DEF LimitInv, LimitType, WindowInv, limitVars
<1>1. ASSUME NEW t \in Tasks, Call(t) PROVE LimitInv' /\ opened' = opened
  <2>1. Sleeping' => Sleeping
    BY <1>1 DEF Call, Sleeping
  <2> QED
    BY <1>1, <2>1 DEF Call
<1>2. ASSUME NEW u \in Users, Sleep(u) PROVE LimitInv' /\ opened' = opened
  <2>1. remaining = 0 /\ now + Remainder >= current_limit + Period /\ Remainder \in Nat
    BY <1>2 DEF Sleep, Left, Remainder
  <2>2. until' \in Nat /\ until' >= current_limit + Period
    BY <1>2, <2>1 DEF Sleep
  <2> QED
    BY <1>2, <2>1, <2>2 DEF Sleep, Admit
<1>3. ASSUME NEW u \in Users, PassAtEnd(u) PROVE LimitInv' /\ opened' = opened
  <2>1. remaining = 0 /\ now >= current_limit + Period
    BY <1>3 DEF PassAtEnd, Left, Remainder
  <2>2. ~Sleeping'
    BY <1>3 DEF PassAtEnd, Admit, Sleeping
  <2> QED
    BY <1>3, <2>1, <2>2 DEF PassAtEnd, Admit, OneMore
<1>4. ASSUME NEW u \in Users, WakeUp(u) PROVE LimitInv' /\ opened' = opened
  <2>1. Sleeping
    BY <1>4 DEF WakeUp, Sleeping
  <2>2. now >= current_limit + Period /\ remaining = 0
    BY <1>4, <2>1 DEF WakeUp
  <2> QED
    BY <1>4, <2>1, <2>2 DEF WakeUp, OneMore
<1>5. ASSUME NEW u \in Users, Cancel(u) PROVE LimitInv' /\ opened' = opened
  <2>1. Sleeping' => Sleeping
    BY <1>5 DEF Cancel, Sleeping
  <2> QED
    BY <1>5, <2>1 DEF Cancel
<1>6. CASE Heartbeat
  <2>1. Sleeping' => Sleeping
    BY <1>6 DEF Heartbeat, Admit, Sleeping
  <2> QED
    BY <1>6, <2>1 DEF Heartbeat, Admit
<1>7. CASE Tick
  BY <1>7 DEF Tick, Sleeping
<1>8. CASE UNCHANGED vars
  BY <1>8 DEF vars, Sleeping
<1> QED
  BY <1>1, <1>2, <1>3, <1>4, <1>5, <1>6, <1>7, <1>8, PassKeeps DEF Next

LEMMA LimitInvariant == Spec => []LimitInv
<1>1. Init => LimitInv
  BY RateAssumption DEF Init, LimitInv, LimitType, WindowInv, Sleeping, Tasks
<1>2. LimitInv /\ [Next]_vars => LimitInv'
  BY LimitStep
<1> QED
  BY <1>1, <1>2, PTL DEF Spec

\* WindowQuota is an invariant: no more than max packets within per_second of
\* the one that opened the window.
THEOREM QuotaKept == Spec => []WindowQuota
<1>1. LimitInv => WindowQuota
  BY RateAssumption DEF LimitInv, LimitType, WindowInv, WindowQuota
<1> QED
  BY <1>1, LimitInvariant, PTL

\* WindowsApart holds of every step: remaining is set to max only when
\* per_second has passed since the last window was opened.
THEOREM WindowsKeepApart == Spec => WindowsApart
<1>1. LimitInv /\ [Next]_vars => [opened' # opened => opened' > opened + Period]_vars
  BY LimitStep
<1> QED
  BY <1>1, LimitInvariant, PTL DEF Spec, WindowsApart

\* A sequence without one of its elements: those behind it move up.
LEMMA Removed ==
  ASSUME NEW S, NEW q \in Seq(S), NEW i \in 1..Len(q)
  PROVE  /\ RemoveAt(q, i) \in Seq(S) /\ Len(RemoveAt(q, i)) = Len(q) - 1
         /\ \A k \in 1..Len(q) - 1 : RemoveAt(q, i)[k] = q[IF k < i THEN k ELSE k + 1]
<1> DEFINE a == SubSeq(q, 1, i - 1)
           b == SubSeq(q, i + 1, Len(q))
           r == RemoveAt(q, i)
<1>1. a \in Seq(S) /\ Len(a) = i - 1 /\ \A k \in 1..i - 1 : a[k] = q[k]
  OBVIOUS
<1>2. b \in Seq(S) /\ Len(b) = Len(q) - i /\ \A k \in 1..Len(q) - i : b[k] = q[k + i]
  OBVIOUS
<1>3. r = a \o b
  BY DEF RemoveAt
<1> HIDE DEF a, b, r
<1>4. r \in Seq(S) /\ Len(r) = Len(q) - 1
  BY <1>1, <1>2, <1>3
<1>5. ASSUME NEW k \in 1..Len(q) - 1 PROVE r[k] = q[IF k < i THEN k ELSE k + 1]
  <2>1. r[k] = IF k <= Len(a) THEN a[k] ELSE b[k - Len(a)]
    BY <1>1, <1>2, <1>3
  <2> QED BY <1>1, <1>2, <2>1
<1>6. r \in Seq(S) /\ Len(r) = Len(q) - 1 /\ \A k \in 1..Len(q) - 1 : r[k] = q[IF k < i THEN k ELSE k + 1]
  BY <1>4, <1>5
<1> QED BY <1>6 DEF r

\* The callers' part of TypeOK.
CallerType ==
  /\ pc \in [Tasks -> {"idle", "wait", "sleep"}]
  /\ pc["hb"] # "sleep"
  /\ \A u, v \in Users : pc[u] = "sleep" /\ pc[v] = "sleep" => u = v
  /\ queue \in Seq(Tasks) /\ hbSince \in Nat /\ ahead \in Nat

\* The lock lets one task sleep at a time, and that is never the heartbeat.
LEMMA CallerStep ==
  ASSUME CallerType, LimitType, [Next]_vars
  PROVE  CallerType'
<1> USE RateAssumption DEF CallerType, Tasks, beatVars
<1>1. ASSUME NEW t \in Tasks, NEW to, Admit(t, to) PROVE queue' \in Seq(Tasks)
  BY <1>1 DEF Admit
<1>2. ASSUME NEW t \in Tasks, Call(t) PROVE CallerType'
  <2>1. queue' \in Seq(Tasks)
    BY <1>2 DEF Call
  <2> QED
    BY <1>2, <2>1 DEF Call, LimitType
<1>3. ASSUME NEW u \in Users, Admit(u, "idle") PROVE CallerType'
  BY <1>1, <1>3 DEF Admit
<1>4. ASSUME NEW u \in Users, Admit(u, "sleep") PROVE CallerType'
  <2>1. \A v \in Users : pc[v] # "sleep"
    BY <1>4 DEF Admit, Sleeping
  <2> QED
    BY <1>1, <1>4, <2>1 DEF Admit
<1>5. CASE Heartbeat
  BY <1>1, <1>5 DEF Heartbeat, Admit
<1>6. ASSUME NEW u \in Users, WakeUp(u) PROVE CallerType'
  BY <1>6 DEF WakeUp
<1>7. ASSUME NEW u \in Users, Cancel(u) PROVE CallerType'
  <2>1. ASSUME NEW i \in 1..Len(queue) PROVE RemoveAt(queue, i) \in Seq(Tasks)
    BY Removed
  <2>2. queue' \in Seq(Tasks)
    BY <1>7, <2>1, Zenon DEF Cancel
  <2> QED
    BY <1>7, <2>2 DEF Cancel
<1>8. CASE Tick \/ UNCHANGED vars
  BY <1>8 DEF Tick, vars
<1> QED
  BY <1>2, <1>3, <1>4, <1>5, <1>6, <1>7, <1>8
     DEF Next, Pass, Sleep, PassAtEnd

\* TypeOK is an invariant: one task at most sleeps, and never the heartbeat.
THEOREM TypeCorrect == Spec => []TypeOK
<1>1. Init => CallerType
  BY RateAssumption DEF Init, CallerType, Tasks
<1>2. CallerType /\ LimitInv /\ [Next]_vars => CallerType'
  BY CallerStep DEF LimitInv
<1>3. CallerType /\ LimitInv => TypeOK
  BY DEF CallerType, LimitInv, LimitType, TypeOK
<1> QED
  BY <1>1, <1>2, <1>3, LimitInvariant, PTL DEF Spec

----------------------------------------------------------------------------
(* The heartbeat's wait *)

\* Who waits for the lock is in its queue, once.
QueueInv ==
  /\ IsInjective(queue) /\ hbSince <= now
  /\ \A t \in Tasks : pc[t] = "wait" <=> t \in Range(queue)

\* A sleep ends with its window, or one tick later.
SleepInv == Sleeping => now <= until /\ until <= current_limit + Period + 1

\* A heartbeat that has waited for some time has other tasks before it, at most as many as
\* fill a window: the sleep of the window that was full when it came, or others instead when
\* that is cancelled, and then at once those that fit into the next window.
Before(i, since) ==
  \/ /\ i - 1 <= MaxPackets /\ remaining = 0
     /\ current_limit <= since /\ now <= current_limit + Period + 1
  \/ /\ i - 1 <= remaining /\ ~Sleeping
     /\ now <= since + Period + 1 /\ now <= current_limit + Period

HeartbeatInv == pc["hb"] = "wait" /\ now > hbSince /\ ahead <= MaxPackets + 1 =>
  \E i \in 1..Len(queue) : queue[i] = "hb" /\ Before(i, hbSince)

\* While a heartbeat waits it has no more tasks before it than when it asked for the lock,
\* the one that sleeps counted with those in the queue.
Asleep == IF Sleeping THEN 1 ELSE 0
AheadInv == \A i \in 1..Len(queue) : queue[i] = "hb" => i - 1 + Asleep <= ahead

DelayInv == QueueInv /\ SleepInv /\ AheadInv /\ HeartbeatInv

\* What a task that gets the lock leaves of the queue.
LEMMA AdmitQueue ==
  ASSUME CallerType, QueueInv, NEW t \in Tasks, NEW to \in {"idle", "sleep"}, Admit(t, to)
  PROVE  /\ QueueInv'
         /\ t # "hb" => \A i \in 1..Len(queue) : queue[i] = "hb" => i - 1 \in 1..Len(queue') /\ queue'[i - 1] = "hb"
         /\ t # "hb" => pc'["hb"] = pc["hb"]
<1>1. /\ queue \in Seq(Tasks) /\ queue # << >> /\ queue[1] = t /\ queue' = Tail(queue)
      /\ pc' = [pc EXCEPT ![t] = to] /\ UNCHANGED <<now, beatVars>> /\ pc \in [Tasks -> {"idle", "wait", "sleep"}]
  BY DEF Admit, CallerType
<1>2. /\ queue' \in Seq(Tasks) /\ Len(queue') = Len(queue) - 1
      /\ \A k \in 1..Len(queue) - 1 : queue'[k] = queue[k + 1]
  BY <1>1
<1>3. IsInjective(queue')
  <2> SUFFICES ASSUME NEW k \in 1..Len(queue) - 1, NEW l \in 1..Len(queue) - 1, queue'[k] = queue'[l] PROVE k = l
    BY <1>2 DEF IsInjective
  <2>1. k + 1 \in 1..Len(queue) /\ l + 1 \in 1..Len(queue) /\ queue[k + 1] = queue[l + 1]
    BY <1>1, <1>2
  <2>2. k + 1 = l + 1
    BY <1>1, <2>1 DEF QueueInv, IsInjective
  <2> QED BY <2>2
<1>4. ASSUME NEW v \in Tasks PROVE v \in Range(queue') <=> v \in Range(queue) /\ v # t
  <2>1. ASSUME NEW k \in 1..Len(queue) - 1 PROVE queue[k + 1] # t /\ queue[k + 1] \in Range(queue)
    BY <1>1 DEF QueueInv, IsInjective, Range
  <2>2. ASSUME NEW k \in 1..Len(queue), queue[k] # t PROVE queue[k] \in Range(queue')
    <3>1. k - 1 \in 1..Len(queue) - 1 /\ queue'[k - 1] = queue[k]
      BY <1>1, <1>2, <2>2
    <3> QED BY <1>2, <3>1 DEF Range
  <2> QED BY <1>1, <1>2, <2>1, <2>2 DEF Range
<1>5. QueueInv'
  <2>1. ASSUME NEW v \in Tasks PROVE pc'[v] = "wait" <=> v \in Range(queue')
    BY <1>1, <1>4 DEF QueueInv
  <2> QED BY <1>1, <1>3, <2>1 DEF QueueInv, beatVars
<1>6. ASSUME t # "hb", NEW i \in 1..Len(queue), queue[i] = "hb"
      PROVE  i - 1 \in 1..Len(queue') /\ queue'[i - 1] = "hb"
  BY <1>1, <1>2, <1>6
<1> QED BY <1>1, <1>5, <1>6 DEF Tasks

LEMMA CallDelay ==
  ASSUME LimitInv, CallerType, DelayInv, NEW t \in Tasks, Call(t)
  PROVE  DelayInv'
<1>1. /\ queue \in Seq(Tasks) /\ queue' = Append(queue, t) /\ pc' = [pc EXCEPT ![t] = "wait"] /\ pc[t] = "idle"
      /\ UNCHANGED <<now, until, limitVars>> /\ hbSince' = (IF t = "hb" THEN now ELSE hbSince)
      /\ ahead' = (IF t = "hb" THEN Len(queue) + Asleep ELSE ahead)
      /\ pc \in [Tasks -> {"idle", "wait", "sleep"}]
  BY DEF Call, CallerType, Asleep
<1>2. t \notin Range(queue)
  BY <1>1 DEF DelayInv, QueueInv
<1>3. IsInjective(queue') /\ Range(queue') = Range(queue) \cup {t}
  BY <1>1, <1>2 DEF DelayInv, QueueInv, IsInjective, Range
<1>4. QueueInv'
  <2>1. ASSUME NEW v \in Tasks PROVE pc'[v] = "wait" <=> v \in Range(queue')
    BY <1>1, <1>3 DEF DelayInv, QueueInv
  <2> QED BY <1>1, <1>3, <2>1 DEF DelayInv, QueueInv, LimitInv, LimitType
<1>5. Sleeping' <=> Sleeping
  BY <1>1 DEF Sleeping, Tasks
<1>6. SleepInv'
  BY <1>1, <1>5 DEF DelayInv, SleepInv, limitVars
<1>8. AheadInv'
  <2> SUFFICES ASSUME NEW i \in 1..Len(queue'), queue'[i] = "hb" PROVE i - 1 + Asleep' <= ahead'
    BY DEF AheadInv
  <2>1. Asleep' = Asleep /\ Asleep \in Nat
    BY <1>5 DEF Asleep
  <2>2. CASE i = Len(queue) + 1
    BY <1>1, <2>1, <2>2
  <2>3. CASE i # Len(queue) + 1
    <3>1. i \in 1..Len(queue) /\ queue[i] = "hb"
      BY <1>1, <2>3
    <3>2. t # "hb"
      BY <1>2, <3>1 DEF Range
    <3> QED BY <1>1, <2>1, <3>1, <3>2 DEF DelayInv, AheadInv
  <2> QED BY <2>2, <2>3
<1>7. HeartbeatInv'
  <2>1. CASE t = "hb"
    BY <1>1, <2>1 DEF HeartbeatInv, LimitInv, LimitType
  <2>2. CASE t # "hb"
    <3> SUFFICES ASSUME pc'["hb"] = "wait", now' > hbSince', ahead' <= MaxPackets + 1
                 PROVE  \E i \in 1..Len(queue') : queue'[i] = "hb" /\ Before(i, hbSince)'
      BY DEF HeartbeatInv
    <3>1. PICK i \in 1..Len(queue) : queue[i] = "hb" /\ Before(i, hbSince)
      BY <1>1, <2>2 DEF DelayInv, HeartbeatInv, Tasks
    <3>2. i \in 1..Len(queue') /\ queue'[i] = "hb"
      BY <1>1, <3>1
    <3> QED BY <1>1, <1>5, <2>2, <3>1, <3>2 DEF Before, limitVars
  <2> QED BY <2>1, <2>2
<1> QED BY <1>4, <1>6, <1>7, <1>8 DEF DelayInv

\* While nothing goes to sleep, a packet that goes out lets the heartbeat move up.
LEMMA AdmitDelay ==
  ASSUME LimitInv, CallerType, DelayInv, NEW u \in Users, Pass(u) \/ Sleep(u) \/ PassAtEnd(u)
  PROVE  DelayInv'
<1> USE RateAssumption DEF beatVars
<1>1. PICK to \in {"idle", "sleep"} : Admit(u, to)
  BY DEF Pass, Sleep, PassAtEnd
<1>2. u \in Tasks /\ u # "hb" /\ ~Sleeping /\ UNCHANGED <<now, beatVars>> /\ CallerType'
  <2>1. [Next]_vars
    BY DEF Next
  <2> QED BY <1>1, <2>1, CallerStep DEF Admit, Tasks, LimitInv
<1>3. /\ QueueInv' /\ pc'["hb"] = pc["hb"]
      /\ \A i \in 1..Len(queue) : queue[i] = "hb" => i - 1 \in 1..Len(queue') /\ queue'[i - 1] = "hb"
  BY <1>1, <1>2, AdmitQueue DEF DelayInv
<1>4. /\ now \in Nat /\ current_limit \in Nat /\ remaining \in 0..MaxPackets /\ current_limit <= now
      /\ hbSince \in Nat
  BY DEF LimitInv, LimitType, CallerType
<1>5. SleepInv'
  <2>1. CASE Sleep(u)
    <3>1. Remainder = current_limit + Period - now /\ Remainder > 0 /\ UNCHANGED current_limit
          /\ until' \in {now + Remainder, now + Remainder + 1}
      BY <2>1 DEF Sleep, Remainder, limitVars
    <3> QED BY <1>2, <1>4, <3>1 DEF SleepInv
  <2>2. CASE Pass(u) \/ PassAtEnd(u)
    <3>1. ~Sleeping'
      BY <1>2, <2>2 DEF Pass, PassAtEnd, Admit, Sleeping, CallerType, Tasks
    <3> QED BY <3>1 DEF SleepInv
  <2> QED BY <2>1, <2>2
<1>7. AheadInv'
  <2> SUFFICES ASSUME NEW k \in 1..Len(queue'), queue'[k] = "hb" PROVE k - 1 + Asleep' <= ahead'
    BY DEF AheadInv
  <2>1. k + 1 \in 1..Len(queue) /\ queue[k + 1] = "hb"
    BY <1>1 DEF Admit, CallerType
  <2>2. k + Asleep <= ahead /\ Asleep = 0 /\ Asleep' \in {0, 1}
    BY <1>2, <2>1 DEF DelayInv, AheadInv, Asleep
  <2>3. k \in Nat /\ ahead \in Nat /\ ahead' = ahead
    BY <1>2 DEF CallerType, beatVars
  <2>4. CASE Asleep' = 0
    BY <2>2, <2>3, <2>4
  <2>5. CASE Asleep' = 1
    BY <2>2, <2>3, <2>5
  <2> QED BY <2>2, <2>4, <2>5
<1>6. HeartbeatInv'
  <2> SUFFICES ASSUME pc["hb"] = "wait", now > hbSince, ahead <= MaxPackets + 1
               PROVE  \E i \in 1..Len(queue') : queue'[i] = "hb" /\ Before(i, hbSince)'
    BY <1>2, <1>3 DEF HeartbeatInv
  <2>1. PICK i \in 1..Len(queue) : queue[i] = "hb" /\ Before(i, hbSince)
    BY DEF DelayInv, HeartbeatInv
  <2>2. i - 1 \in 1..Len(queue') /\ queue'[i - 1] = "hb"
    BY <1>3, <2>1
  <2>3. Before(i - 1, hbSince)'
    <3>1. CASE Sleep(u) \/ PassAtEnd(u)
      <4>1. Left = 0 /\ remaining = 0 /\ UNCHANGED <<remaining, current_limit>>
        BY <1>4, <3>1 DEF Sleep, PassAtEnd, Left, limitVars
      <4>2. i - 1 > 0
        BY <2>2
      <4> QED BY <1>2, <1>4, <2>1, <4>1, <4>2 DEF Before
    <3>2. CASE Pass(u)
      <4>1. /\ Left > 0 /\ remaining' = Left - 1
            /\ current_limit' = IF Left = MaxPackets \/ Left = 1 THEN now ELSE current_limit
        BY <3>2 DEF Pass
      <4>2. ~Sleeping'
        BY <1>2, <3>2 DEF Pass, Admit, Sleeping
      <4>3. i - 1 <= Left /\ now <= hbSince + Period + 1 /\ (Left # MaxPackets => now <= current_limit + Period)
        BY <1>2, <1>4, <2>1, <4>1 DEF Before, Left
      <4>4. i \in Nat /\ Left \in 0..MaxPackets /\ MaxPackets \in Nat /\ Period \in Nat
        BY <1>4 DEF Left, CallerType
      <4>5. i - 2 <= Left - 1 /\ now <= current_limit' + Period
        BY <1>4, <4>1, <4>3, <4>4
      <4>6. (i - 1) - 1 <= remaining'
        BY <1>4, <4>1, <4>4, <4>5
      <4> QED BY <1>2, <1>4, <4>2, <4>3, <4>5, <4>6 DEF Before
    <3> QED BY <3>1, <3>2
  <2> QED BY <2>2, <2>3
<1> QED BY <1>3, <1>5, <1>6, <1>7 DEF DelayInv

LEMMA HeartbeatSent ==
  ASSUME LimitInv, CallerType, DelayInv, Heartbeat
  PROVE  DelayInv'
<1>1. Admit("hb", "idle") /\ ~Sleeping /\ UNCHANGED <<until, limitVars>>
  BY DEF Heartbeat, Admit
<1>2. QueueInv'
  BY <1>1, AdmitQueue DEF DelayInv, Tasks
<1>3. pc'["hb"] # "wait" /\ ~Sleeping'
  BY <1>1 DEF Admit, CallerType, Sleeping, Tasks
<1>4. AheadInv'
  <2>1. "hb" \notin Range(queue')
    BY <1>2, <1>3 DEF QueueInv, Tasks
  <2> QED BY <1>2, <2>1 DEF QueueInv, AheadInv, Range, Admit
<1> QED BY <1>2, <1>3, <1>4 DEF DelayInv, SleepInv, HeartbeatInv

\* A sleep that ends, or is cancelled, leaves the lock to the next task.
LEMMA WakeDelay ==
  ASSUME LimitInv, CallerType, DelayInv, NEW u \in Users, pc[u] = "sleep", pc' = [pc EXCEPT ![u] = "idle"],
         UNCHANGED <<now, queue, remaining, current_limit, until, beatVars>>
  PROVE  DelayInv'
<1> USE DEF beatVars
<1>1. u \in Tasks /\ u # "hb" /\ Sleeping /\ pc \in [Tasks -> {"idle", "wait", "sleep"}]
  BY RateAssumption DEF Tasks, Sleeping, CallerType
<1>2. QueueInv'
  <2>1. ASSUME NEW v \in Tasks PROVE pc'[v] = "wait" <=> v \in Range(queue')
    BY <1>1 DEF DelayInv, QueueInv
  <2> QED BY <2>1 DEF DelayInv, QueueInv
<1>3. SleepInv'
  BY <1>1 DEF DelayInv, SleepInv
<1>4. HeartbeatInv'
  <2> SUFFICES ASSUME pc["hb"] = "wait", now > hbSince, ahead <= MaxPackets + 1
               PROVE  \E i \in 1..Len(queue') : queue'[i] = "hb" /\ Before(i, hbSince)'
    BY <1>1 DEF HeartbeatInv, Tasks
  <2>1. PICK i \in 1..Len(queue) : queue[i] = "hb" /\ Before(i, hbSince)
    BY DEF DelayInv, HeartbeatInv
  <2> QED BY <1>1, <2>1 DEF Before
<1>5. AheadInv'
  <2>1. Asleep = 1 /\ Asleep' \in {0, 1}
    BY <1>1 DEF Asleep
  <2>2. ASSUME NEW i \in 1..Len(queue), queue[i] = "hb" PROVE i - 1 + Asleep' <= ahead'
    <3>1. i <= ahead /\ i \in Nat /\ ahead \in Nat /\ ahead' = ahead
      BY <2>1, <2>2 DEF DelayInv, AheadInv, CallerType
    <3>2. CASE Asleep' = 0
      BY <3>1, <3>2
    <3>3. CASE Asleep' = 1
      BY <3>1, <3>3
    <3> QED BY <2>1, <3>2, <3>3
  <2> QED BY <1>1, <2>2 DEF AheadInv
<1> QED BY <1>2, <1>3, <1>4, <1>5 DEF DelayInv

LEMMA CancelDelay ==
  ASSUME LimitInv, CallerType, DelayInv, NEW u \in Users, Cancel(u)
  PROVE  DelayInv'
<1> USE DEF beatVars
<1>1. /\ pc' = [pc EXCEPT ![u] = "idle"] /\ UNCHANGED <<now, until, beatVars, remaining, current_limit>>
      /\ u \in Tasks /\ u # "hb" /\ pc \in [Tasks -> {"idle", "wait", "sleep"}] /\ queue \in Seq(Tasks)
  BY RateAssumption DEF Cancel, limitVars, CallerType, Tasks
<1>2. CASE pc[u] = "sleep" /\ UNCHANGED queue
  BY <1>1, <1>2, WakeDelay
<1>3. CASE pc[u] = "wait" /\ \E j \in 1..Len(queue) : queue[j] = u /\ queue' = RemoveAt(queue, j)
  <2>1. PICK j \in 1..Len(queue) : queue[j] = u /\ queue' = RemoveAt(queue, j)
    BY <1>3
  <2>2. /\ queue' \in Seq(Tasks) /\ Len(queue') = Len(queue) - 1
        /\ \A k \in 1..Len(queue) - 1 : queue'[k] = queue[IF k < j THEN k ELSE k + 1]
    BY <1>1, <2>1, Removed
  <2>3. ASSUME NEW k \in 1..Len(queue), k # j
        PROVE  \E l \in 1..Len(queue) - 1 : l <= k /\ queue'[l] = queue[k]
    <3>1. CASE k < j
      <4>1. k \in 1..Len(queue) - 1 /\ queue'[k] = queue[k]
        BY <1>1, <2>2, <3>1
      <4> QED BY <4>1
    <3>2. CASE k > j
      <4> DEFINE l == k - 1
      <4>1. l \in 1..Len(queue) - 1 /\ l <= k /\ l + 1 = k /\ ~(l < j)
        <5>1. Len(queue) \in Nat
          BY <1>1
        <5> QED BY <3>2, <5>1
      <4> HIDE DEF l
      <4>2. queue'[l] = queue[IF l < j THEN l ELSE l + 1]
        BY <2>2, <4>1
      <4>3. queue'[l] = queue[k]
        BY <4>1, <4>2
      <4> QED BY <4>1, <4>3
    <3> QED BY <2>3, <3>1, <3>2
  <2>4. IsInjective(queue')
    <3> SUFFICES ASSUME NEW k \in 1..Len(queue) - 1, NEW l \in 1..Len(queue) - 1, queue'[k] = queue'[l] PROVE k = l
      BY <2>2 DEF IsInjective
    <3> DEFINE from(m) == IF m < j THEN m ELSE m + 1
    <3>1. from(k) \in 1..Len(queue) /\ from(l) \in 1..Len(queue) /\ queue[from(k)] = queue[from(l)]
      BY <1>1, <2>2
    <3>2. from(k) = from(l)
      <4> HIDE DEF from
      <4> QED BY <1>1, <3>1 DEF DelayInv, QueueInv, IsInjective
    <3> QED BY <3>2
  <2>5. ASSUME NEW v \in Tasks PROVE v \in Range(queue') <=> v \in Range(queue) /\ v # u
    <3>1. ASSUME NEW k \in 1..Len(queue) - 1 PROVE queue'[k] # u /\ queue'[k] \in Range(queue)
      <4> DEFINE m == IF k < j THEN k ELSE k + 1
      <4>1. m \in 1..Len(queue) /\ m # j /\ queue'[k] = queue[m]
        BY <1>1, <2>2
      <4> HIDE DEF m
      <4> QED BY <1>1, <2>1, <4>1 DEF DelayInv, QueueInv, IsInjective, Range
    <3>2. ASSUME NEW k \in 1..Len(queue), queue[k] # u PROVE queue[k] \in Range(queue')
      <4>1. PICK l \in 1..Len(queue) - 1 : queue'[l] = queue[k]
        BY <2>1, <2>3, <3>2
      <4> QED BY <2>2, <4>1 DEF Range
    <3>3. DOMAIN queue = 1..Len(queue) /\ DOMAIN queue' = 1..Len(queue) - 1
      BY <1>1, <2>2
    <3> QED BY <3>1, <3>2, <3>3 DEF Range
  <2>6. QueueInv'
    <3>1. ASSUME NEW v \in Tasks PROVE pc'[v] = "wait" <=> v \in Range(queue')
      BY <1>1, <2>5 DEF DelayInv, QueueInv
    <3> QED BY <1>1, <2>4, <3>1 DEF DelayInv, QueueInv
  <2>7. Sleeping' <=> Sleeping
    BY <1>1, <1>3 DEF Sleeping, Tasks
  <2>8. SleepInv'
    BY <1>1, <2>7 DEF DelayInv, SleepInv
  <2>9. HeartbeatInv'
    <3> SUFFICES ASSUME pc["hb"] = "wait", now > hbSince, ahead <= MaxPackets + 1
                 PROVE  \E i \in 1..Len(queue') : queue'[i] = "hb" /\ Before(i, hbSince)'
      BY <1>1 DEF HeartbeatInv, Tasks
    <3>1. PICK i \in 1..Len(queue) : queue[i] = "hb" /\ Before(i, hbSince)
      BY DEF DelayInv, HeartbeatInv
    <3>2. PICK l \in 1..Len(queue') : l <= i /\ queue'[l] = "hb"
      <4>1. i # j
        BY <1>1, <2>1, <3>1
      <4> QED BY <2>2, <2>3, <3>1, <4>1
    <3>3. i \in Nat /\ l \in Nat /\ MaxPackets \in Nat /\ remaining \in Nat
      BY <1>1, <2>2, RateAssumption DEF LimitInv, LimitType
    <3>4. Before(l, hbSince)'
      BY <1>1, <2>7, <3>1, <3>2, <3>3 DEF Before
    <3> QED BY <3>2, <3>4
  <2>10. AheadInv'
    <3> SUFFICES ASSUME NEW l \in 1..Len(queue'), queue'[l] = "hb" PROVE l - 1 + Asleep' <= ahead'
      BY DEF AheadInv
    <3> DEFINE m == IF l < j THEN l ELSE l + 1
    <3>1. m \in 1..Len(queue) /\ queue[m] = "hb" /\ l <= m
      BY <1>1, <2>2
    <3>2. m - 1 + Asleep <= ahead /\ Asleep' = Asleep /\ Asleep \in Nat
      <4> HIDE DEF m
      <4> QED BY <2>7, <3>1 DEF DelayInv, AheadInv, Asleep
    <3>3. ahead' = ahead /\ ahead \in Nat
      BY <1>1 DEF CallerType, beatVars
    <3> QED BY <3>1, <3>2, <3>3
  <2> QED BY <2>6, <2>8, <2>9, <2>10 DEF DelayInv
<1> QED BY <1>2, <1>3 DEF Cancel

\* Time goes on while somebody sleeps, or nobody waits.
LEMMA TickDelay ==
  ASSUME LimitInv, CallerType, DelayInv, Tick
  PROVE  DelayInv'
<1> USE DEF beatVars
<1>1. /\ now' = now + 1 /\ UNCHANGED <<pc, queue, until, beatVars, remaining, current_limit>>
      /\ Sleeping => now < until
      /\ ~Sleeping => queue = << >>
      /\ now \in Nat /\ until \in Nat /\ current_limit \in Nat /\ current_limit <= now /\ hbSince \in Nat
      /\ remaining \in Nat
  BY DEF Tick, limitVars, Ready, LimitInv, LimitType, CallerType
<1>2. QueueInv' /\ SleepInv' /\ (Sleeping' <=> Sleeping)
  BY <1>1 DEF DelayInv, QueueInv, SleepInv, Sleeping
<1>4. AheadInv'
  BY <1>1, <1>2 DEF DelayInv, AheadInv, Asleep, beatVars
<1>3. HeartbeatInv'
  <2> SUFFICES ASSUME pc["hb"] = "wait", ahead <= MaxPackets + 1
               PROVE  \E i \in 1..Len(queue) : queue[i] = "hb" /\ Before(i, hbSince)'
    BY <1>1 DEF HeartbeatInv, beatVars
  <2>1. PICK i \in 1..Len(queue) : queue[i] = "hb"
    BY DEF DelayInv, QueueInv, Range, Tasks, CallerType
  <2>2. Sleeping
    BY <1>1, <2>1
  <2>3. /\ remaining = 0 /\ now < until /\ until <= current_limit + Period + 1
    BY <1>1, <2>2 DEF DelayInv, SleepInv, LimitInv, WindowInv
  <2>4. i - 1 <= MaxPackets
    BY <2>1, <2>2, RateAssumption DEF DelayInv, AheadInv, Asleep, CallerType
  <2>5. current_limit <= hbSince
    <3>1. CASE now > hbSince
      BY <2>2, <3>1 DEF DelayInv, HeartbeatInv, Before
    <3>2. CASE ~(now > hbSince)
      BY <1>1, <3>2
    <3> QED BY <3>1, <3>2
  <2>6. Before(i, hbSince)'
    BY <1>1, <2>3, <2>4, <2>5, RateAssumption DEF Before
  <2> QED BY <2>1, <2>6
<1> QED BY <1>2, <1>3, <1>4 DEF DelayInv

\* A heartbeat waits for one sleep of another task at most (api/gateway/ratelimit.py, called
\* under reconnect_lock by client.py), whatever the tasks do, if those it found before it in the
\* queue and in block() are no more than fill a window and one.
THEOREM HeartbeatWaits == Spec => []HeartbeatDelay
<1>1. Init => CallerType /\ DelayInv
  <2> SUFFICES ASSUME Init PROVE CallerType /\ DelayInv
    OBVIOUS
  <2>1. ~Sleeping /\ queue = << >> /\ pc["hb"] = "idle" /\ \A t \in Tasks : pc[t] # "wait"
    BY DEF Init, Sleeping, Tasks
  <2>2. IsInjective(queue) /\ Range(queue) = {} /\ hbSince <= now
    BY RateAssumption DEF Init, IsInjective, Range
  <2> QED BY <2>1, <2>2, RateAssumption DEF Init, CallerType, Tasks, DelayInv, QueueInv, SleepInv, AheadInv, HeartbeatInv
<1>2. CallerType /\ LimitInv /\ [Next]_vars => CallerType'
  BY CallerStep DEF LimitInv
<1>3. CallerType /\ LimitInv /\ DelayInv /\ [Next]_vars => DelayInv'
  <2> SUFFICES ASSUME CallerType, LimitInv, DelayInv, [Next]_vars PROVE DelayInv'
    OBVIOUS
  <2>1. ASSUME NEW u \in Users, WakeUp(u) PROVE DelayInv'
    BY <2>1, WakeDelay DEF WakeUp
  <2>2. CASE UNCHANGED vars
    BY <2>2 DEF vars, limitVars, beatVars, DelayInv, QueueInv, SleepInv, AheadInv, Asleep, HeartbeatInv, Sleeping, Before
  <2> QED BY <2>1, <2>2, CallDelay, AdmitDelay, HeartbeatSent, CancelDelay, TickDelay DEF Next
<1>4. CallerType /\ LimitInv /\ DelayInv => HeartbeatDelay
  <2> SUFFICES ASSUME CallerType, LimitInv, DelayInv, pc["hb"] = "wait", now > hbSince, ahead <= MaxPackets + 1
               PROVE  now <= hbSince + Period + 1
    BY RateAssumption DEF HeartbeatDelay, CallerType, LimitInv, LimitType
  <2>1. PICK i : Before(i, hbSince)
    BY DEF DelayInv, HeartbeatInv
  <2> QED BY <2>1, RateAssumption DEF Before, CallerType, LimitInv, LimitType
<1> QED BY <1>1, <1>2, <1>3, <1>4, LimitInvariant, PTL DEF Spec
=============================================================================
