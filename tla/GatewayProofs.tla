--------------------------- MODULE GatewayProofs ----------------------------
(*****************************************************************************)
(* Proofs about Gateway, for any set of users, any faults and any bounds:    *)
(* the types, who holds reconnect_lock, when the connection may be read, and *)
(* the heartbeat.                                                            *)
(*****************************************************************************)
EXTENDS GatewayInvariants, SequenceTheorems, TLAPS

----------------------------------------------------------------------------
(* Types.                                                                  *)

\* Every task stays within the stages of its code.
LEMMA PcStep ==
  ASSUME TypeOK, [Next]_vars
  PROVE  PcType'
<1> USE GatewayAssumption DEF TypeOK, PcType, Tasks, MainPcs, HbPcs, Finished,
         localVars, eventVars, stopVars, connVars, sessionVars, serverVars,
         netVars
<1>1. CASE RunConnect
  BY <1>1 DEF RunConnect, NewConnection
<1>2. CASE RunConnectFails
  BY <1>2 DEF RunConnectFails, Go, Fault
<1>3. CASE RunIdentify
  BY <1>3 DEF RunIdentify, Go, SendIdentify, OpenGate
<1>4. CASE RunIdentifyFails
  BY <1>4 DEF RunIdentifyFails, Go
<1>5. CASE RcConnect
  BY <1>5 DEF RcConnect, NewConnection
<1>6. CASE RcConnectFails
  BY <1>6 DEF RcConnectFails, Go, Fault, Release
<1>7. CASE RcSend
  BY <1>7 DEF RcSend, Go, SendResume, SendIdentify, OpenGate, Release, Fault
<1>8. CASE RcSendFails
  BY <1>8 DEF RcSendFails, Go, Release
<1>9. CASE PassGate
  BY <1>9 DEF PassGate, Go
<1>10. CASE ReceiveClose
  BY <1>10 DEF ReceiveClose, Take, CallReconnect, ClearReady
<1>11. CASE ReceiveFatal
  BY <1>11 DEF ReceiveFatal, Take, Go
<1>12. CASE ReceiveClosed
  BY <1>12 DEF ReceiveClosed, CallReconnect, Go, ClearReady
<1>13. CASE ReceivePart
  BY <1>13 DEF ReceivePart, Take, Go
<1>14. CASE ReceiveCorrupt
  BY <1>14 DEF ReceiveCorrupt, Take, Go
<1>15. CASE HandleEvent
  BY <1>15 DEF HandleEvent, Handle, Go, Take
<1>16. CASE HandleBadEvent
  BY <1>16 DEF HandleBadEvent, Handle, Go, Take
<1>17. CASE HandleReady
  BY <1>17 DEF HandleReady, Handle, Go, Take
<1>18. CASE HandleAck
  BY <1>18 DEF HandleAck, Handle, Go, Take
<1>19. CASE HandleReconnect
  BY <1>19 DEF HandleReconnect, Handle, CallReconnect, Take, ClearReady
<1>20. CASE HandleHeartbeat
  BY <1>20 DEF HandleHeartbeat, Handle, Go, Take
<1>21. CASE RunReturns
  BY <1>21 DEF RunReturns
<1>22. CASE LoginHandler
  BY <1>22 DEF LoginHandler, Go
<1>23. CASE Logout
  BY <1>23 DEF Logout, Go
<1>24. CASE HbCancelled
  BY <1>24 DEF HbCancelled, Go, Release
<1>25. CASE HbStart
  BY <1>25 DEF HbStart, Go, Rearm
<1>26. CASE HbTimeout
  BY <1>26 DEF HbTimeout, ClearReady
<1>27. CASE HbEnd
  BY <1>27 DEF HbEnd, Go
<1>28. CASE ServerEvent
  BY <1>28 DEF ServerEvent, ServerSends
<1>29. CASE ServerBadEvent
  BY <1>29 DEF ServerBadEvent, Fault, ServerSends
<1>30. CASE ServerPart
  BY <1>30 DEF ServerPart, Fault, ServerSends
<1>31. CASE ServerAsks
  BY <1>31 DEF ServerAsks, Fault, ServerSends
<1>32. CASE ServerInvalidates
  BY <1>32 DEF ServerInvalidates, Fault, ServerSends
<1>33. CASE ServerCloses
  BY <1>33 DEF ServerCloses, Fault, ServerSends
<1>34. CASE Drop
  BY <1>34 DEF Drop, Fault
<1>35. CASE Stop
  BY <1>35 DEF Stop
<1>36. ASSUME NEW u \in Users, Call(u) PROVE PcType'
  BY <1>36 DEF Call, Go
<1>37. CASE ServerReady
  BY <1>37 DEF ServerReady, ServerSends
<1>38. CASE ServerAck
  BY <1>38 DEF ServerAck, ServerSends
<1>39. ASSUME NEW t \in Tasks, RcLock(t) PROVE PcType'
  BY <1>39 DEF RcLock, Go, Acquire, ShutGate
<1>40. ASSUME NEW t \in Tasks, SendLock(t) PROVE PcType'
  BY <1>40 DEF SendLock, Go, Acquire
<1>41. ASSUME NEW t \in Tasks, RcClose(t) PROVE PcType'
  BY <1>41 DEF RcClose, HbAlive
<1>42. ASSUME NEW t \in Tasks, Send(t) PROVE PcType'
  BY <1>42 DEF Send, Go, AfterSend, Release
<1>43. ASSUME NEW t \in Tasks, SendFails(t) PROVE PcType'
  BY <1>43 DEF SendFails, Go, Release
<1>44. CASE UNCHANGED vars
  BY <1>44 DEF vars
<1> QED
  BY <1>1, <1>2, <1>3, <1>4, <1>5, <1>6, <1>7, <1>8, <1>9, <1>10, <1>11,
       <1>12, <1>13, <1>14, <1>15, <1>16, <1>17, <1>18, <1>19, <1>20, <1>21,
       <1>22, <1>23, <1>24, <1>25, <1>26, <1>27, <1>28, <1>29, <1>30, <1>31,
       <1>32, <1>33, <1>34, <1>35, <1>36, <1>37, <1>38, <1>39, <1>40, <1>41,
       <1>42, <1>43, <1>44 DEF Next, Main, Heartbeat, Environment, Answers,
       Locked, Unlocks

\* Events, flags and the transport stay Boolean.
LEMMA FlagStep ==
  ASSUME TypeOK, [Next]_vars
  PROVE  FlagType'
<1> USE DEF TypeOK, FlagType, localVars, eventVars, stopVars, connVars,
         sessionVars, serverVars, netVars
<1>1. CASE RunConnect
  BY <1>1 DEF RunConnect, NewConnection
<1>2. CASE RunConnectFails
  BY <1>2 DEF RunConnectFails, Go, Fault
<1>3. CASE RunIdentify
  BY <1>3 DEF RunIdentify, Go, SendIdentify, OpenGate
<1>4. CASE RunIdentifyFails
  BY <1>4 DEF RunIdentifyFails, Go
<1>5. CASE RcConnect
  BY <1>5 DEF RcConnect, NewConnection
<1>6. CASE RcConnectFails
  BY <1>6 DEF RcConnectFails, Go, Fault, Release
<1>7. CASE RcSend
  BY <1>7 DEF RcSend, Go, SendResume, SendIdentify, OpenGate, Release, Fault
<1>8. CASE RcSendFails
  BY <1>8 DEF RcSendFails, Go, Release
<1>9. CASE PassGate
  BY <1>9 DEF PassGate, Go
<1>10. CASE ReceiveClose
  BY <1>10 DEF ReceiveClose, Take, CallReconnect, ClearReady
<1>11. CASE ReceiveFatal
  BY <1>11 DEF ReceiveFatal, Take, Go
<1>12. CASE ReceiveClosed
  BY <1>12 DEF ReceiveClosed, CallReconnect, Go, ClearReady
<1>13. CASE ReceivePart
  BY <1>13 DEF ReceivePart, Take, Go
<1>14. CASE ReceiveCorrupt
  BY <1>14 DEF ReceiveCorrupt, Take, Go
<1>15. CASE HandleEvent
  BY <1>15 DEF HandleEvent, Handle, Go, Take
<1>16. CASE HandleBadEvent
  BY <1>16 DEF HandleBadEvent, Handle, Go, Take
<1>17. CASE HandleReady
  BY <1>17 DEF HandleReady, Handle, Go, Take
<1>18. CASE HandleAck
  BY <1>18 DEF HandleAck, Handle, Go, Take
<1>19. CASE HandleReconnect
  BY <1>19 DEF HandleReconnect, Handle, CallReconnect, Take, ClearReady
<1>20. CASE HandleHeartbeat
  BY <1>20 DEF HandleHeartbeat, Handle, Go, Take
<1>21. CASE RunReturns
  BY <1>21 DEF RunReturns
<1>22. CASE LoginHandler
  BY <1>22 DEF LoginHandler, Go
<1>23. CASE Logout
  BY <1>23 DEF Logout, Go
<1>24. CASE HbCancelled
  BY <1>24 DEF HbCancelled, Go, Release
<1>25. CASE HbStart
  BY <1>25 DEF HbStart, Go, Rearm
<1>26. CASE HbTimeout
  BY <1>26 DEF HbTimeout, ClearReady
<1>27. CASE HbEnd
  BY <1>27 DEF HbEnd, Go
<1>28. CASE ServerEvent
  BY <1>28 DEF ServerEvent, ServerSends
<1>29. CASE ServerBadEvent
  BY <1>29 DEF ServerBadEvent, Fault, ServerSends
<1>30. CASE ServerPart
  BY <1>30 DEF ServerPart, Fault, ServerSends
<1>31. CASE ServerAsks
  BY <1>31 DEF ServerAsks, Fault, ServerSends
<1>32. CASE ServerInvalidates
  BY <1>32 DEF ServerInvalidates, Fault, ServerSends
<1>33. CASE ServerCloses
  BY <1>33 DEF ServerCloses, Fault, ServerSends
<1>34. CASE Drop
  BY <1>34 DEF Drop, Fault
<1>35. CASE Stop
  BY <1>35 DEF Stop
<1>36. ASSUME NEW u \in Users, Call(u) PROVE FlagType'
  BY <1>36 DEF Call, Go
<1>37. CASE ServerReady
  BY <1>37 DEF ServerReady, ServerSends
<1>38. CASE ServerAck
  BY <1>38 DEF ServerAck, ServerSends
<1>39. ASSUME NEW t \in Tasks, RcLock(t) PROVE FlagType'
  BY <1>39 DEF RcLock, Go, Acquire, ShutGate
<1>40. ASSUME NEW t \in Tasks, SendLock(t) PROVE FlagType'
  BY <1>40 DEF SendLock, Go, Acquire
<1>41. ASSUME NEW t \in Tasks, RcClose(t) PROVE FlagType'
  BY <1>41 DEF RcClose, Tasks, HbAlive
<1>42. ASSUME NEW t \in Tasks, Send(t) PROVE FlagType'
  BY <1>42 DEF Send, Go, AfterSend, Release
<1>43. ASSUME NEW t \in Tasks, SendFails(t) PROVE FlagType'
  BY <1>43 DEF SendFails, Go, Release
<1>44. CASE UNCHANGED vars
  BY <1>44 DEF vars
<1> QED
  BY <1>1, <1>2, <1>3, <1>4, <1>5, <1>6, <1>7, <1>8, <1>9, <1>10, <1>11,
       <1>12, <1>13, <1>14, <1>15, <1>16, <1>17, <1>18, <1>19, <1>20, <1>21,
       <1>22, <1>23, <1>24, <1>25, <1>26, <1>27, <1>28, <1>29, <1>30, <1>31,
       <1>32, <1>33, <1>34, <1>35, <1>36, <1>37, <1>38, <1>39, <1>40, <1>41,
       <1>42, <1>43, <1>44 DEF Next, Main, Heartbeat, Environment, Answers,
       Locked, Unlocks

\* What Discord replays after RESUME is a sequence of frames, empty when the
\* client asks for more than there is.
LEMMA MissedType ==
  ASSUME srvLast \in Nat, sequence \in Nat
  PROVE  Missed \in Seq(Frame)
<1>1. CASE srvLast >= sequence
  BY <1>1 DEF Missed, Frame, Ops, Numbered
<1>2. CASE srvLast < sequence
  <2>1. 1..(srvLast - sequence) = 1..0
    BY <1>2
  <2> QED
    BY <2>1 DEF Missed, Frame, Ops, Numbered
<1> QED
  BY <1>1, <1>2

\* A frame taken off the inbox leaves a sequence of frames.
LEMMA TakeType ==
  ASSUME inbox \in Seq(Frame), inbox # <<>>
  PROVE  /\ Head(inbox) \in Frame /\ Head(inbox).s \in Nat
         /\ Tail(inbox) \in Seq(Frame)
<1>1. Head(inbox) \in Frame
  OBVIOUS
<1>2. Head(inbox).s \in Nat
  BY <1>1 DEF Frame
<1> QED
  BY <1>1, <1>2

\* The lock, the queue of frames and the counters stay in their types.
LEMMA DataStep ==
  ASSUME TypeOK, [Next]_vars
  PROVE  DataType'
<1> USE GatewayAssumption DEF TypeOK, DataType, Tasks, localVars, eventVars,
         stopVars, connVars, sessionVars, serverVars, netVars
<1>1. CASE RunConnect
  BY <1>1 DEF RunConnect, NewConnection
<1>2. CASE RunConnectFails
  BY <1>2 DEF RunConnectFails, Go, Fault
<1>3. CASE RunIdentify
  BY <1>3 DEF RunIdentify, Go, SendIdentify, OpenGate
<1>4. CASE RunIdentifyFails
  BY <1>4 DEF RunIdentifyFails, Go
<1>5. CASE RcConnect
  BY <1>5 DEF RcConnect, NewConnection
<1>6. CASE RcConnectFails
  BY <1>6 DEF RcConnectFails, Go, Fault, Release
<1>7. CASE RcSend
  <2>1. CASE resume
    <3>1. inbox' \in Seq(Frame)
      <4>1. Missed \in Seq(Frame)
        BY MissedType
      <4>2. /\ [op |-> "RESUMED", s |-> 0] \in Frame
            /\ [op |-> "INVALID", s |-> 0] \in Frame
        BY DEF Frame, Ops, Numbered
      <4>3. \/ inbox' = (inbox \o Missed) \o <<[op |-> "RESUMED", s |-> 0]>>
            \/ inbox' = Append(inbox, [op |-> "INVALID", s |-> 0])
        BY <1>7, <2>1 DEF RcSend, SendResume
      <4>4. inbox \o Missed \in Seq(Frame)
        BY <4>1
      <4>5. CASE inbox' = Append(inbox, [op |-> "INVALID", s |-> 0])
        BY <4>2, <4>5
      <4>6. CASE inbox' = (inbox \o Missed) \o <<[op |-> "RESUMED", s |-> 0]>>
        <5>1. <<[op |-> "RESUMED", s |-> 0]>> \in Seq(Frame)
          BY <4>2
        <5> QED
          BY <4>4, <4>6, <5>1, ConcatProperties
      <4> QED
        BY <4>3, <4>5, <4>6
    <3> QED
      BY <1>7, <2>1, <3>1 DEF RcSend, SendResume, Fault, Release
  <2>2. CASE ~resume
    BY <1>7, <2>2 DEF RcSend, SendIdentify, Release
  <2> QED
    BY <2>1, <2>2
<1>8. CASE RcSendFails
  BY <1>8 DEF RcSendFails, Go, Release
<1>9. CASE PassGate
  BY <1>9 DEF PassGate, Go
<1>10. CASE ReceiveClose
  BY <1>10, TakeType DEF ReceiveClose, Take, CallReconnect, ClearReady
<1>11. CASE ReceiveFatal
  BY <1>11, TakeType DEF ReceiveFatal, Take, Go
<1>12. CASE ReceiveClosed
  BY <1>12, TakeType DEF ReceiveClosed, CallReconnect, Go, ClearReady
<1>13. CASE ReceivePart
  BY <1>13, TakeType DEF ReceivePart, Take, Go
<1>14. CASE ReceiveCorrupt
  BY <1>14, TakeType DEF ReceiveCorrupt, Take, Go
<1>15. CASE HandleEvent
  BY <1>15, TakeType DEF HandleEvent, Handle, Go, Take, Recorded
<1>16. CASE HandleBadEvent
  BY <1>16, TakeType DEF HandleBadEvent, Handle, Go, Take, Recorded
<1>17. CASE HandleReady
  BY <1>17, TakeType DEF HandleReady, Handle, Go, Take, Recorded
<1>18. CASE HandleAck
  BY <1>18, TakeType DEF HandleAck, Handle, Go, Take, Recorded
<1>19. CASE HandleReconnect
  BY <1>19, TakeType DEF HandleReconnect, Handle, CallReconnect, Take,
       Recorded, ClearReady
<1>20. CASE HandleHeartbeat
  BY <1>20, TakeType DEF HandleHeartbeat, Handle, Go, Take, Recorded
<1>21. CASE RunReturns
  BY <1>21 DEF RunReturns
<1>22. CASE LoginHandler
  BY <1>22 DEF LoginHandler, Go
<1>23. CASE Logout
  BY <1>23 DEF Logout, Go
<1>24. CASE HbCancelled
  BY <1>24 DEF HbCancelled, Go, Release
<1>25. CASE HbStart
  BY <1>25 DEF HbStart, Go, Rearm
<1>26. CASE HbTimeout
  BY <1>26 DEF HbTimeout, ClearReady
<1>27. CASE HbEnd
  BY <1>27 DEF HbEnd, Go
<1>28. CASE ServerEvent
  BY <1>28 DEF ServerEvent, ServerSends, Frame, Ops, Numbered
<1>29. CASE ServerBadEvent
  BY <1>29 DEF ServerBadEvent, Fault, ServerSends, Frame, Ops, Numbered
<1>30. CASE ServerPart
  BY <1>30 DEF ServerPart, Fault, ServerSends, Frame, Ops, Numbered
<1>31. CASE ServerAsks
  <2>1. CASE Fault("beat") /\ ServerSends("HEARTBEAT", 0)
    BY <1>31, <2>1 DEF ServerAsks, Fault, ServerSends, Frame, Ops, Numbered
  <2>2. CASE Fault("reconnect") /\ ServerSends("RECONNECT", 0)
    BY <1>31, <2>2 DEF ServerAsks, Fault, ServerSends, Frame, Ops, Numbered
  <2> QED
    BY <1>31, <2>1, <2>2 DEF ServerAsks
<1>32. CASE ServerInvalidates
  <2>1. PICK op \in {"INVALID", "INVALID_RESUMABLE"} : ServerSends(op, 0)
    BY <1>32 DEF ServerInvalidates
  <2> QED
    BY <1>32, <2>1 DEF ServerInvalidates, Fault, ServerSends, Frame, Ops, Numbered
<1>33. CASE ServerCloses
  <2>1. PICK op \in {"CLOSE_1000", "CLOSE_OTHER", "CLOSE_4000"} : ServerSends(op, 0)
    BY <1>33 DEF ServerCloses
  <2>2. budget' \in 0..MaxFaults
    BY <1>33 DEF ServerCloses, Fault
  <2> QED
    BY <1>33, <2>1, <2>2 DEF ServerCloses, ServerSends, Frame, Ops, Numbered
<1>34. CASE Drop
  <2>1. PICK n \in 0..Len(inbox) : inbox' = SubSeq(inbox, 1, n)
    BY <1>34 DEF Drop
  <2>2. inbox' \in Seq(Frame)
    BY <2>1
  <2> QED
    BY <1>34, <2>2 DEF Drop, Fault
<1>35. CASE Stop
  BY <1>35 DEF Stop
<1>36. ASSUME NEW u \in Users, Call(u) PROVE DataType'
  BY <1>36 DEF Call, Go
<1>37. CASE ServerReady
  BY <1>37 DEF ServerReady, ServerSends, Frame, Ops, Numbered
<1>38. CASE ServerAck
  BY <1>38 DEF ServerAck, ServerSends, Frame, Ops, Numbered
<1>39. ASSUME NEW t \in Tasks, RcLock(t) PROVE DataType'
  BY <1>39 DEF RcLock, Go, Acquire, ShutGate
<1>40. ASSUME NEW t \in Tasks, SendLock(t) PROVE DataType'
  BY <1>40 DEF SendLock, Go, Acquire
<1>41. ASSUME NEW t \in Tasks, RcClose(t) PROVE DataType'
  BY <1>41 DEF RcClose, HbAlive
<1>42. ASSUME NEW t \in Tasks, Send(t) PROVE DataType'
  BY <1>42 DEF Send, Go, AfterSend, Release
<1>43. ASSUME NEW t \in Tasks, SendFails(t) PROVE DataType'
  BY <1>43 DEF SendFails, Go, Release
<1>44. CASE UNCHANGED vars
  BY <1>44 DEF vars
<1> QED
  BY <1>1, <1>2, <1>3, <1>4, <1>5, <1>6, <1>7, <1>8, <1>9, <1>10, <1>11,
       <1>12, <1>13, <1>14, <1>15, <1>16, <1>17, <1>18, <1>19, <1>20, <1>21,
       <1>22, <1>23, <1>24, <1>25, <1>26, <1>27, <1>28, <1>29, <1>30, <1>31,
       <1>32, <1>33, <1>34, <1>35, <1>36, <1>37, <1>38, <1>39, <1>40, <1>41,
       <1>42, <1>43, <1>44 DEF Next, Main, Heartbeat, Environment, Answers,
       Locked, Unlocks

\* The client, Discord and the network start in their types.
LEMMA TypeInit == ASSUME Init PROVE TypeOK
<1> USE GatewayAssumption DEF Init
<1>1. PcType
  BY DEF PcType, Tasks, MainPcs, HbPcs, Finished
<1>2. FlagType
  BY DEF FlagType
<1>3. DataType
  BY DEF DataType
<1> QED
  BY <1>1, <1>2, <1>3 DEF TypeOK

\* TypeOK is an invariant: no step of any task, of Discord or of the network
\* takes a variable out of its type.
THEOREM TypeCorrect == Spec => []TypeOK
<1>1. Init => TypeOK
  BY TypeInit
<1>2. TypeOK /\ [Next]_vars => TypeOK'
  BY PcStep, FlagStep, DataStep DEF TypeOK
<1> QED
  BY <1>1, <1>2, PTL DEF Spec

----------------------------------------------------------------------------
(* The lock and the gate.                                                  *)

\* A task enters a stage that needs reconnect_lock only with the lock, and
\* leaves the last such stage without it.
LEMMA LockStep ==
  ASSUME TypeOK, LockInv, StartInv, [Next]_vars
  PROVE  LockInv'
<1> USE GatewayAssumption DEF TypeOK, PcType, Tasks, MainPcs, HbPcs, Finished,
         LockInv, StartInv, Rebuilding, Holding, localVars, eventVars,
         stopVars, connVars, sessionVars, serverVars, netVars
<1>1. CASE RunConnect
  BY <1>1 DEF RunConnect, NewConnection
<1>2. CASE RunConnectFails
  BY <1>2 DEF RunConnectFails, Go, Fault
<1>3. CASE RunIdentify
  BY <1>3 DEF RunIdentify, Go, SendIdentify, OpenGate, DataType
<1>4. CASE RunIdentifyFails
  BY <1>4 DEF RunIdentifyFails, Go
<1>5. CASE RcConnect
  BY <1>5 DEF RcConnect, NewConnection
<1>6. CASE RcConnectFails
  BY <1>6 DEF RcConnectFails, Go, Fault, Release
<1>7. CASE RcSend
  <2>1. CASE resume
    BY <1>7, <2>1 DEF RcSend, Go, SendResume, OpenGate, Release
  <2>2. CASE ~resume
    BY <1>7, <2>2 DEF RcSend, Go, SendIdentify, OpenGate, Release, DataType
  <2> QED
    BY <2>1, <2>2
<1>8. CASE RcSendFails
  BY <1>8 DEF RcSendFails, Go, Release
<1>9. CASE PassGate
  BY <1>9 DEF PassGate, Go
<1>10. CASE ReceiveClose
  BY <1>10 DEF ReceiveClose, Take, CallReconnect, ClearReady
<1>11. CASE ReceiveFatal
  BY <1>11 DEF ReceiveFatal, Take, Go
<1>12. CASE ReceiveClosed
  BY <1>12 DEF ReceiveClosed, CallReconnect, Go, ClearReady
<1>13. CASE ReceivePart
  BY <1>13 DEF ReceivePart, Take, Go
<1>14. CASE ReceiveCorrupt
  BY <1>14 DEF ReceiveCorrupt, Take, Go
<1>15. CASE HandleEvent
  BY <1>15 DEF HandleEvent, Handle, Go, Take
<1>16. CASE HandleBadEvent
  BY <1>16 DEF HandleBadEvent, Handle, Go, Take
<1>17. CASE HandleReady
  BY <1>17 DEF HandleReady, Handle, Go, Take
<1>18. CASE HandleAck
  BY <1>18 DEF HandleAck, Handle, Go, Take
<1>19. CASE HandleReconnect
  BY <1>19 DEF HandleReconnect, Handle, CallReconnect, Take, ClearReady
<1>20. CASE HandleHeartbeat
  BY <1>20 DEF HandleHeartbeat, Handle, Go, Take
<1>21. CASE RunReturns
  BY <1>21 DEF RunReturns
<1>22. CASE LoginHandler
  BY <1>22 DEF LoginHandler, Go
<1>23. CASE Logout
  BY <1>23 DEF Logout, Go
<1>24. CASE HbCancelled
  BY <1>24 DEF HbCancelled, Running, Go, Release
<1>25. CASE HbStart
  BY <1>25 DEF HbStart, Running, Go, Rearm
<1>26. CASE HbTimeout
  BY <1>26 DEF HbTimeout, Running, ClearReady
<1>27. CASE HbEnd
  BY <1>27 DEF HbEnd, Running, Go
<1>28. CASE ServerEvent
  BY <1>28 DEF ServerEvent, ServerSends
<1>29. CASE ServerBadEvent
  BY <1>29 DEF ServerBadEvent, Fault, ServerSends
<1>30. CASE ServerPart
  BY <1>30 DEF ServerPart, Fault, ServerSends
<1>31. CASE ServerAsks
  BY <1>31 DEF ServerAsks, Fault, ServerSends
<1>32. CASE ServerInvalidates
  BY <1>32 DEF ServerInvalidates, Fault, ServerSends
<1>33. CASE ServerCloses
  BY <1>33 DEF ServerCloses, Fault, ServerSends
<1>34. CASE Drop
  BY <1>34 DEF Drop, Fault
<1>35. CASE Stop
  BY <1>35 DEF Stop, Running
<1>36. ASSUME NEW u \in Users, Call(u) PROVE LockInv'
  BY <1>36 DEF Call, Running, Go
<1>37. CASE ServerReady
  BY <1>37 DEF ServerReady, ServerSends
<1>38. CASE ServerAck
  BY <1>38 DEF ServerAck, ServerSends
<1>39. ASSUME NEW t \in Tasks, RcLock(t) PROVE LockInv'
  BY <1>39 DEF RcLock, Running, Go, Acquire, ShutGate
<1>40. ASSUME NEW t \in Tasks, SendLock(t) PROVE LockInv'
  BY <1>40 DEF SendLock, Running, Go, Acquire
<1>41. ASSUME NEW t \in Tasks, RcClose(t) PROVE LockInv'
  BY <1>41 DEF RcClose, Running, HbAlive
<1>42. ASSUME NEW t \in Tasks, Send(t) PROVE LockInv'
  BY <1>42 DEF Send, Running, Go, AfterSend, Release
<1>43. ASSUME NEW t \in Tasks, SendFails(t) PROVE LockInv'
  BY <1>43 DEF SendFails, Running, Go, Release
<1>44. CASE UNCHANGED vars
  BY <1>44 DEF vars
<1> QED
  BY <1>1, <1>2, <1>3, <1>4, <1>5, <1>6, <1>7, <1>8, <1>9, <1>10, <1>11,
       <1>12, <1>13, <1>14, <1>15, <1>16, <1>17, <1>18, <1>19, <1>20, <1>21,
       <1>22, <1>23, <1>24, <1>25, <1>26, <1>27, <1>28, <1>29, <1>30, <1>31,
       <1>32, <1>33, <1>34, <1>35, <1>36, <1>37, <1>38, <1>39, <1>40, <1>41,
       <1>42, <1>43, <1>44 DEF Next, Main, Heartbeat, Environment, Answers,
       Locked, Unlocks

\* run() up to its loop is alone: no reconnection and no user runs yet.
LEMMA StartStep ==
  ASSUME TypeOK, LockInv, StartInv, [Next]_vars
  PROVE  StartInv'
<1> USE GatewayAssumption DEF TypeOK, PcType, Tasks, MainPcs, HbPcs, Finished,
         LockInv, StartInv, Rebuilding, Holding, localVars, eventVars,
         stopVars, connVars, sessionVars, serverVars, netVars
<1>1. CASE RunConnect
  BY <1>1 DEF RunConnect, NewConnection
<1>2. CASE RunConnectFails
  BY <1>2 DEF RunConnectFails, Go, Fault
<1>3. CASE RunIdentify
  BY <1>3 DEF RunIdentify, Go, SendIdentify, OpenGate, DataType
<1>4. CASE RunIdentifyFails
  BY <1>4 DEF RunIdentifyFails, Go
<1>5. CASE RcConnect
  BY <1>5 DEF RcConnect, NewConnection
<1>6. CASE RcConnectFails
  BY <1>6 DEF RcConnectFails, Go, Fault, Release
<1>7. CASE RcSend
  <2>1. CASE resume
    BY <1>7, <2>1 DEF RcSend, Go, SendResume, OpenGate, Release
  <2>2. CASE ~resume
    BY <1>7, <2>2 DEF RcSend, Go, SendIdentify, OpenGate, Release, DataType
  <2> QED
    BY <2>1, <2>2
<1>8. CASE RcSendFails
  BY <1>8 DEF RcSendFails, Go, Release
<1>9. CASE PassGate
  BY <1>9 DEF PassGate, Go
<1>10. CASE ReceiveClose
  BY <1>10 DEF ReceiveClose, Take, CallReconnect, ClearReady
<1>11. CASE ReceiveFatal
  BY <1>11 DEF ReceiveFatal, Take, Go
<1>12. CASE ReceiveClosed
  BY <1>12 DEF ReceiveClosed, CallReconnect, Go, ClearReady
<1>13. CASE ReceivePart
  BY <1>13 DEF ReceivePart, Take, Go
<1>14. CASE ReceiveCorrupt
  BY <1>14 DEF ReceiveCorrupt, Take, Go
<1>15. CASE HandleEvent
  BY <1>15 DEF HandleEvent, Handle, Go, Take
<1>16. CASE HandleBadEvent
  BY <1>16 DEF HandleBadEvent, Handle, Go, Take
<1>17. CASE HandleReady
  BY <1>17 DEF HandleReady, Handle, Go, Take
<1>18. CASE HandleAck
  BY <1>18 DEF HandleAck, Handle, Go, Take
<1>19. CASE HandleReconnect
  BY <1>19 DEF HandleReconnect, Handle, CallReconnect, Take, ClearReady
<1>20. CASE HandleHeartbeat
  BY <1>20 DEF HandleHeartbeat, Handle, Go, Take
<1>21. CASE RunReturns
  BY <1>21 DEF RunReturns
<1>22. CASE LoginHandler
  BY <1>22 DEF LoginHandler, Go
<1>23. CASE Logout
  BY <1>23 DEF Logout, Go
<1>24. CASE HbCancelled
  BY <1>24 DEF HbCancelled, Running, Go, Release
<1>25. CASE HbStart
  BY <1>25 DEF HbStart, Running, Go, Rearm
<1>26. CASE HbTimeout
  BY <1>26 DEF HbTimeout, Running, ClearReady
<1>27. CASE HbEnd
  BY <1>27 DEF HbEnd, Running, Go
<1>28. CASE ServerEvent
  BY <1>28 DEF ServerEvent, ServerSends
<1>29. CASE ServerBadEvent
  BY <1>29 DEF ServerBadEvent, Fault, ServerSends
<1>30. CASE ServerPart
  BY <1>30 DEF ServerPart, Fault, ServerSends
<1>31. CASE ServerAsks
  BY <1>31 DEF ServerAsks, Fault, ServerSends
<1>32. CASE ServerInvalidates
  BY <1>32 DEF ServerInvalidates, Fault, ServerSends
<1>33. CASE ServerCloses
  BY <1>33 DEF ServerCloses, Fault, ServerSends
<1>34. CASE Drop
  BY <1>34 DEF Drop, Fault
<1>35. CASE Stop
  BY <1>35 DEF Stop, Running
<1>36. ASSUME NEW u \in Users, Call(u) PROVE StartInv'
  BY <1>36 DEF Call, Running, Go
<1>37. CASE ServerReady
  BY <1>37 DEF ServerReady, ServerSends
<1>38. CASE ServerAck
  BY <1>38 DEF ServerAck, ServerSends
<1>39. ASSUME NEW t \in Tasks, RcLock(t) PROVE StartInv'
  BY <1>39 DEF RcLock, Running, Go, Acquire, ShutGate
<1>40. ASSUME NEW t \in Tasks, SendLock(t) PROVE StartInv'
  BY <1>40 DEF SendLock, Running, Go, Acquire
<1>41. ASSUME NEW t \in Tasks, RcClose(t) PROVE StartInv'
  BY <1>41 DEF RcClose, Running, HbAlive
<1>42. ASSUME NEW t \in Tasks, Send(t) PROVE StartInv'
  BY <1>42 DEF Send, Running, Go, AfterSend, Release
<1>43. ASSUME NEW t \in Tasks, SendFails(t) PROVE StartInv'
  BY <1>43 DEF SendFails, Running, Go, Release
<1>44. CASE UNCHANGED vars
  BY <1>44 DEF vars
<1> QED
  BY <1>1, <1>2, <1>3, <1>4, <1>5, <1>6, <1>7, <1>8, <1>9, <1>10, <1>11,
       <1>12, <1>13, <1>14, <1>15, <1>16, <1>17, <1>18, <1>19, <1>20, <1>21,
       <1>22, <1>23, <1>24, <1>25, <1>26, <1>27, <1>28, <1>29, <1>30, <1>31,
       <1>32, <1>33, <1>34, <1>35, <1>36, <1>37, <1>38, <1>39, <1>40, <1>41,
       <1>42, <1>43, <1>44 DEF Next, Main, Heartbeat, Environment, Answers,
       Locked, Unlocks

\* __closed is set again only by the handshake that ends a connection's
\* replacement.
LEMMA GateStep ==
  ASSUME TypeOK, LockInv, StartInv, GateInv, [Next]_vars
  PROVE  GateInv'
<1> USE GatewayAssumption DEF TypeOK, PcType, Tasks, MainPcs, HbPcs, Finished,
         LockInv, StartInv, GateInv, Live, Rebuilding, Holding, localVars,
         eventVars, stopVars, connVars, sessionVars, serverVars, netVars
<1>1. CASE RunConnect
  BY <1>1 DEF RunConnect, NewConnection
<1>2. CASE RunConnectFails
  BY <1>2 DEF RunConnectFails, Go, Fault
<1>3. CASE RunIdentify
  BY <1>3 DEF RunIdentify, Go, SendIdentify, OpenGate
<1>4. CASE RunIdentifyFails
  BY <1>4 DEF RunIdentifyFails, Go
<1>5. CASE RcConnect
  BY <1>5 DEF RcConnect, NewConnection
<1>6. CASE RcConnectFails
  BY <1>6 DEF RcConnectFails, Go, Fault, Release
<1>7. CASE RcSend
  BY <1>7 DEF RcSend, Go, SendResume, SendIdentify, OpenGate, Release, Fault
<1>8. CASE RcSendFails
  BY <1>8 DEF RcSendFails, Go, Release
<1>9. CASE PassGate
  BY <1>9 DEF PassGate, Go
<1>10. CASE ReceiveClose
  BY <1>10 DEF ReceiveClose, Take, CallReconnect, ClearReady
<1>11. CASE ReceiveFatal
  BY <1>11 DEF ReceiveFatal, Take, Go
<1>12. CASE ReceiveClosed
  BY <1>12 DEF ReceiveClosed, CallReconnect, Go, ClearReady
<1>13. CASE ReceivePart
  BY <1>13 DEF ReceivePart, Take, Go
<1>14. CASE ReceiveCorrupt
  BY <1>14 DEF ReceiveCorrupt, Take, Go
<1>15. CASE HandleEvent
  BY <1>15 DEF HandleEvent, Handle, Go, Take
<1>16. CASE HandleBadEvent
  BY <1>16 DEF HandleBadEvent, Handle, Go, Take
<1>17. CASE HandleReady
  BY <1>17 DEF HandleReady, Handle, Go, Take
<1>18. CASE HandleAck
  BY <1>18 DEF HandleAck, Handle, Go, Take
<1>19. CASE HandleReconnect
  BY <1>19 DEF HandleReconnect, Handle, CallReconnect, Take, ClearReady
<1>20. CASE HandleHeartbeat
  BY <1>20 DEF HandleHeartbeat, Handle, Go, Take
<1>21. CASE RunReturns
  BY <1>21 DEF RunReturns
<1>22. CASE LoginHandler
  BY <1>22 DEF LoginHandler, Go
<1>23. CASE Logout
  BY <1>23 DEF Logout, Go
<1>24. CASE HbCancelled
  BY <1>24 DEF HbCancelled, Running, Go, Release
<1>25. CASE HbStart
  BY <1>25 DEF HbStart, Running, Go, Rearm
<1>26. CASE HbTimeout
  BY <1>26 DEF HbTimeout, Running, ClearReady
<1>27. CASE HbEnd
  BY <1>27 DEF HbEnd, Running, Go
<1>28. CASE ServerEvent
  BY <1>28 DEF ServerEvent, ServerSends
<1>29. CASE ServerBadEvent
  BY <1>29 DEF ServerBadEvent, Fault, ServerSends
<1>30. CASE ServerPart
  BY <1>30 DEF ServerPart, Fault, ServerSends
<1>31. CASE ServerAsks
  BY <1>31 DEF ServerAsks, Fault, ServerSends
<1>32. CASE ServerInvalidates
  BY <1>32 DEF ServerInvalidates, Fault, ServerSends
<1>33. CASE ServerCloses
  BY <1>33 DEF ServerCloses, Fault, ServerSends
<1>34. CASE Drop
  BY <1>34 DEF Drop, Fault
<1>35. CASE Stop
  BY <1>35 DEF Stop, Running
<1>36. ASSUME NEW u \in Users, Call(u) PROVE GateInv'
  BY <1>36 DEF Call, Running, Go
<1>37. CASE ServerReady
  BY <1>37 DEF ServerReady, ServerSends
<1>38. CASE ServerAck
  BY <1>38 DEF ServerAck, ServerSends
<1>39. ASSUME NEW t \in Tasks, RcLock(t) PROVE GateInv'
  BY <1>39 DEF RcLock, Running, Go, Acquire, ShutGate
<1>40. ASSUME NEW t \in Tasks, SendLock(t) PROVE GateInv'
  BY <1>40 DEF SendLock, Running, Go, Acquire
<1>41. ASSUME NEW t \in Tasks, RcClose(t) PROVE GateInv'
  BY <1>41 DEF RcClose, Running, HbAlive
<1>42. ASSUME NEW t \in Tasks, Send(t) PROVE GateInv'
  BY <1>42 DEF Send, Running, Go, AfterSend, Release
<1>43. ASSUME NEW t \in Tasks, SendFails(t) PROVE GateInv'
  BY <1>43 DEF SendFails, Running, Go, Release
<1>44. CASE UNCHANGED vars
  BY <1>44 DEF vars
<1> QED
  BY <1>1, <1>2, <1>3, <1>4, <1>5, <1>6, <1>7, <1>8, <1>9, <1>10, <1>11,
       <1>12, <1>13, <1>14, <1>15, <1>16, <1>17, <1>18, <1>19, <1>20, <1>21,
       <1>22, <1>23, <1>24, <1>25, <1>26, <1>27, <1>28, <1>29, <1>30, <1>31,
       <1>32, <1>33, <1>34, <1>35, <1>36, <1>37, <1>38, <1>39, <1>40, <1>41,
       <1>42, <1>43, <1>44 DEF Next, Main, Heartbeat, Environment, Answers,
       Locked, Unlocks

\* Who holds the lock, what precedes the loop of run() and when the gate is
\* open, together.
LEMMA GateInvariant == Spec => [](TypeOK /\ LockInv /\ StartInv /\ GateInv)
<1>1. Init => LockInv /\ StartInv /\ GateInv
  BY GatewayAssumption
     DEF Init, LockInv, StartInv, GateInv, Live, Finished, Holding, Rebuilding,
         Tasks
<1>2. TypeOK /\ LockInv /\ StartInv /\ GateInv /\ [Next]_vars
        => LockInv' /\ StartInv' /\ GateInv'
  BY LockStep, StartStep, GateStep
<1> QED
  BY <1>1, <1>2, TypeCorrect, PTL DEF Spec

\* GateOpensOnSession is an invariant: while __closed lets the client read,
\* it has a connection that was identified, whichever task reconnects.
THEOREM GateSafe == Spec => []GateOpensOnSession
<1>1. GateInv => GateOpensOnSession
  BY DEF GateInv, GateOpensOnSession
<1> QED
  BY <1>1, GateInvariant, PTL

\* PacketsFollowHandshake is an invariant: the packets of the bot's own code
\* wait, by reconnect_lock, until the connection was identified.
THEOREM HandshakeFirst == Spec => []PacketsFollowHandshake
<1>1. TypeOK /\ LockInv /\ StartInv /\ GateInv => PacketsFollowHandshake
  <2> SUFFICES ASSUME TypeOK, LockInv, StartInv, GateInv,
                      NEW u \in Users, pc[u] = "send", client, Live
               PROVE  shaken
    BY DEF PacketsFollowHandshake
  <2>1. owner = u /\ u # "main"
    BY GatewayAssumption DEF LockInv, Holding, Tasks
  <2>2. pc["main"] # "rcSend"
    BY <2>1 DEF LockInv, Holding, Rebuilding, Tasks
  <2>3. pc["main"] # "identify"
    BY DEF StartInv
  <2> QED
    BY <2>2, <2>3 DEF GateInv, TypeOK, FlagType
<1> QED
  BY <1>1, GateInvariant, PTL

----------------------------------------------------------------------------
(* The heartbeat.                                                          *)

\* When sending IDENTIFY or RESUME does not suspend the handshake,
\* __heartbeat_event.set() comes before the new heartbeat task clears it.
LEMMA BeatStep ==
  ASSUME ~HandshakeYields, TypeOK, LockInv, StartInv, GateInv, BeatInv, [Next]_vars
  PROVE  BeatInv'
<1> USE GatewayAssumption DEF TypeOK, PcType, Tasks, MainPcs, HbPcs, Finished,
         LockInv, StartInv, GateInv, BeatInv, Live, HbAlive, Rebuilding,
         Holding, localVars, eventVars, stopVars, connVars, sessionVars,
         serverVars, netVars
<1>1. CASE RunConnect
  BY <1>1 DEF RunConnect, NewConnection
<1>2. CASE RunConnectFails
  BY <1>2 DEF RunConnectFails, Go, Fault
<1>3. CASE RunIdentify
  BY <1>3 DEF RunIdentify, Go, SendIdentify, OpenGate
<1>4. CASE RunIdentifyFails
  BY <1>4 DEF RunIdentifyFails, Go
<1>5. CASE RcConnect
  BY <1>5 DEF RcConnect, NewConnection
<1>6. CASE RcConnectFails
  BY <1>6 DEF RcConnectFails, Go, Fault, Release
<1>7. CASE RcSend
  BY <1>7 DEF RcSend, Go, SendResume, SendIdentify, OpenGate, Release, Fault
<1>8. CASE RcSendFails
  BY <1>8 DEF RcSendFails, Go, Release
<1>9. CASE PassGate
  BY <1>9 DEF PassGate, Go
<1>10. CASE ReceiveClose
  BY <1>10 DEF ReceiveClose, Take, CallReconnect, ClearReady
<1>11. CASE ReceiveFatal
  BY <1>11 DEF ReceiveFatal, Take, Go
<1>12. CASE ReceiveClosed
  BY <1>12 DEF ReceiveClosed, CallReconnect, Go, ClearReady
<1>13. CASE ReceivePart
  BY <1>13 DEF ReceivePart, Take, Go
<1>14. CASE ReceiveCorrupt
  BY <1>14 DEF ReceiveCorrupt, Take, Go
<1>15. CASE HandleEvent
  BY <1>15 DEF HandleEvent, Handle, Go, Take
<1>16. CASE HandleBadEvent
  BY <1>16 DEF HandleBadEvent, Handle, Go, Take
<1>17. CASE HandleReady
  BY <1>17 DEF HandleReady, Handle, Go, Take
<1>18. CASE HandleAck
  BY <1>18 DEF HandleAck, Handle, Go, Take
<1>19. CASE HandleReconnect
  BY <1>19 DEF HandleReconnect, Handle, CallReconnect, Take, ClearReady
<1>20. CASE HandleHeartbeat
  BY <1>20 DEF HandleHeartbeat, Handle, Go, Take
<1>21. CASE RunReturns
  BY <1>21 DEF RunReturns
<1>22. CASE LoginHandler
  BY <1>22 DEF LoginHandler, Go
<1>23. CASE Logout
  BY <1>23 DEF Logout, Go
<1>24. CASE HbCancelled
  BY <1>24 DEF HbCancelled, Running, Go, Release
<1>25. CASE HbStart
  BY <1>25 DEF HbStart, Running, Go, Rearm
<1>26. CASE HbTimeout
  BY <1>26 DEF HbTimeout, Running, ClearReady
<1>27. CASE HbEnd
  BY <1>27 DEF HbEnd, Running, Go
<1>28. CASE ServerEvent
  BY <1>28 DEF ServerEvent, ServerSends
<1>29. CASE ServerBadEvent
  BY <1>29 DEF ServerBadEvent, Fault, ServerSends
<1>30. CASE ServerPart
  BY <1>30 DEF ServerPart, Fault, ServerSends
<1>31. CASE ServerAsks
  BY <1>31 DEF ServerAsks, Fault, ServerSends
<1>32. CASE ServerInvalidates
  BY <1>32 DEF ServerInvalidates, Fault, ServerSends
<1>33. CASE ServerCloses
  BY <1>33 DEF ServerCloses, Fault, ServerSends
<1>34. CASE Drop
  BY <1>34 DEF Drop, Fault
<1>35. CASE Stop
  BY <1>35 DEF Stop, Running
<1>36. ASSUME NEW u \in Users, Call(u) PROVE BeatInv'
  BY <1>36 DEF Call, Running, Go
<1>37. CASE ServerReady
  BY <1>37 DEF ServerReady, ServerSends
<1>38. CASE ServerAck
  BY <1>38 DEF ServerAck, ServerSends
<1>39. ASSUME NEW t \in Tasks, RcLock(t) PROVE BeatInv'
  BY <1>39 DEF RcLock, Running, Go, Acquire, ShutGate
<1>40. ASSUME NEW t \in Tasks, SendLock(t) PROVE BeatInv'
  BY <1>40 DEF SendLock, Running, Go, Acquire
<1>41. ASSUME NEW t \in Tasks, RcClose(t) PROVE BeatInv'
  BY <1>41 DEF RcClose, Running
<1>42. ASSUME NEW t \in Tasks, Send(t) PROVE BeatInv'
  BY <1>42 DEF Send, Running, Go, AfterSend, Release
<1>43. ASSUME NEW t \in Tasks, SendFails(t) PROVE BeatInv'
  BY <1>43 DEF SendFails, Running, Go, Release
<1>44. CASE UNCHANGED vars
  BY <1>44 DEF vars
<1> QED
  BY <1>1, <1>2, <1>3, <1>4, <1>5, <1>6, <1>7, <1>8, <1>9, <1>10, <1>11,
       <1>12, <1>13, <1>14, <1>15, <1>16, <1>17, <1>18, <1>19, <1>20, <1>21,
       <1>22, <1>23, <1>24, <1>25, <1>26, <1>27, <1>28, <1>29, <1>30, <1>31,
       <1>32, <1>33, <1>34, <1>35, <1>36, <1>37, <1>38, <1>39, <1>40, <1>41,
       <1>42, <1>43, <1>44 DEF Next, Main, Heartbeat, Environment, Answers,
       Locked, Unlocks

\* HeartbeatSurvives is an invariant when sending IDENTIFY or RESUME does not
\* suspend the handshake: the event that ends the old heartbeat task is set
\* before the new task clears it, never after.
THEOREM HeartbeatSafe ==
  ASSUME ~HandshakeYields
  PROVE  Spec => []HeartbeatSurvives
<1>1. Init => BeatInv
  BY DEF Init, BeatInv, Live, Finished, HbAlive, Tasks
<1>2. TypeOK /\ LockInv /\ StartInv /\ GateInv /\ BeatInv /\ [Next]_vars => BeatInv'
  BY BeatStep
<1>3. BeatInv => HeartbeatSurvives
  BY DEF BeatInv, HeartbeatSurvives
<1> QED
  BY <1>1, <1>2, <1>3, GateInvariant, PTL DEF Spec
=============================================================================
