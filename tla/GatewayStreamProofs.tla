------------------------ MODULE GatewayStreamProofs -------------------------
(*****************************************************************************)
(* Proofs about what the bot sees of its session, for any set of users, any  *)
(* faults and any bounds: the events arrive in order, none lost and none     *)
(* twice, so that Gateway implements EventStream.                            *)
(*****************************************************************************)
EXTENDS GatewayProofs

----------------------------------------------------------------------------
(* Queues of frames that continue a session.                               *)

\* What is known of any sequence of frames.
LEMMA FramesType ==
  ASSUME NEW q \in Seq(Frame)
  PROVE  /\ Len(q) \in Nat
         /\ \A i \in 1..Len(q) : q[i] \in Frame /\ q[i].s \in Nat /\ q[i].op \in Ops
<1>1. \A i \in 1..Len(q) : q[i] \in Frame
  OBVIOUS
<1> QED
  BY <1>1 DEF Frame

\* The first event of such a queue is the next one.
LEMMA ContinuesHead ==
  ASSUME NEW q \in Seq(Frame), q # <<>>, NEW b \in Nat, NEW last \in Nat,
         Continues(q, b, last)
  PROVE  /\ Head(q) \in Frame /\ Tail(q) \in Seq(Frame)
         /\ Head(q).s # 0 => Head(q).s = b + 1 /\ b + 1 <= last
         /\ Head(q).op = "READY" <=> Head(q).s = 1
<1>1. Head(q) = q[1] /\ Tail(q) \in Seq(Frame) /\ 1 \in 1..Len(q)
  OBVIOUS
<1>2. q[1] \in Frame /\ q[1].s \in Nat
  BY <1>1, FramesType, Zenon
<1>3. /\ q[1].s # 0 => q[1].s > b /\ q[1].s <= last
      /\ q[1].op = "READY" <=> q[1].s = 1
      /\ q[1].s > b + 1 => \E j \in 1..Len(q) : j < 1 /\ q[j].s = q[1].s - 1
  BY <1>1 DEF Continues
<1>4. ~ \E j \in 1..Len(q) : j < 1
  BY FramesType
<1> QED
  BY <1>1, <1>2, <1>3, <1>4

\* What is left after the first frame continues from there.
LEMMA ContinuesTail ==
  ASSUME NEW q \in Seq(Frame), q # <<>>, NEW b \in Nat, NEW last \in Nat,
         Continues(q, b, last),
         NEW c, c = IF Head(q).s # 0 THEN Head(q).s ELSE b
  PROVE  /\ Continues(Tail(q), c, last)
         /\ Reaches(q, b, last) => Reaches(Tail(q), c, last)
<1> DEFINE t == Tail(q)
           m == Len(t)
<1>1. m \in Nat /\ Len(q) = m + 1 /\ Head(q) = q[1] /\ 1 \in 1..Len(q)
  OBVIOUS
<1>2. \A i \in 1..m : t[i] = q[i+1] /\ i+1 \in 1..Len(q)
  OBVIOUS
<1>3. \A i \in 1..Len(q) : q[i].s \in Nat
  BY FramesType
<1>4. c \in Nat /\ ((q[1].s = 0 /\ c = b) \/ (q[1].s = b + 1 /\ c = b + 1))
  <2>1. Head(q).s # 0 => Head(q).s = b + 1
    BY ContinuesHead
  <2> QED
    BY <1>1, <2>1
<1> HIDE DEF t, m
<1>5. ASSUME NEW i \in 1..m, t[i].s # 0
      PROVE  t[i].s > c /\ t[i].s <= last
  <2>1. i + 1 \in 1..Len(q) /\ t[i] = q[i+1] /\ 1 < i + 1
    BY <1>1, <1>2
  <2>2. q[i+1].s > b /\ q[i+1].s <= last
    BY <2>1, <1>5 DEF Continues
  <2>3. q[1].s # 0 => q[1].s < q[i+1].s
    BY <1>1, <2>1, <1>5 DEF Continues
  <2> QED
    BY <2>1, <2>2, <2>3, <1>4
<1>6. ASSUME NEW i \in 1..m, NEW j \in 1..m,
             i < j, t[i].s # 0, t[j].s # 0
      PROVE  t[i].s < t[j].s
  <2>1. i + 1 \in 1..Len(q) /\ j + 1 \in 1..Len(q) /\ i + 1 < j + 1
    BY <1>1, <1>2, <1>6
  <2>2. q[i+1].s # 0 /\ q[j+1].s # 0
    BY <1>2, <1>6
  <2>3. q[i+1].s < q[j+1].s
    BY <2>1, <2>2 DEF Continues
  <2> QED
    BY <1>2, <2>3
<1>7. ASSUME NEW i \in 1..m, t[i].s > c + 1
      PROVE  \E j \in 1..m : j < i /\ t[j].s = t[i].s - 1
  <2>1. i + 1 \in 1..Len(q) /\ t[i] = q[i+1] /\ q[i+1].s \in Nat
    BY <1>1, <1>2, <1>3
  <2>2. q[i+1].s > b + 1
    BY <1>4, <1>7, <2>1
  <2>3. PICK j \in 1..Len(q) : j < i+1 /\ q[j].s = q[i+1].s - 1
    BY <2>1, <2>2 DEF Continues
  <2>4. j # 1
    BY <2>1, <2>3, <1>4, <1>7
  <2>5. j - 1 \in 1..m /\ j - 1 < i
    BY <1>1, <2>3, <2>4
  <2>6. t[j-1] = q[j]
    BY <1>2, <2>5
  <2> QED
    BY <2>1, <2>3, <2>5, <2>6
<1>8. \A i \in 1..m : t[i].op = "READY" <=> t[i].s = 1
  BY <1>2 DEF Continues
<1>9. Continues(t, c, last)
  BY <1>5, <1>6, <1>7, <1>8 DEF Continues, m
<1>10. ASSUME Reaches(q, b, last) PROVE Reaches(t, c, last)
  <2>1. CASE last = b
    <3>1. q[1].s # 0 => q[1].s <= b
      BY <2>1, <1>1 DEF Continues
    <3> QED
      BY <2>1, <3>1, <1>4 DEF Reaches
  <2>2. ASSUME NEW j \in 1..Len(q), q[j].s # 0, q[j].s = last
        PROVE  Reaches(t, c, last)
    <3>1. CASE j = 1
      BY <3>1, <2>2, <1>4 DEF Reaches
    <3>2. CASE j # 1
      <4>1. j - 1 \in 1..m
        BY <3>2, <1>1
      <4>2. t[j-1] = q[j]
        BY <4>1, <1>2
      <4> QED
        BY <4>1, <4>2, <2>2 DEF Reaches, m
    <3> QED
      BY <3>1, <3>2
  <2> QED
    BY <1>10, <2>1, <2>2 DEF Reaches
<1> QED
  BY <1>9, <1>10 DEF t

\* A frame without an event may be added.
LEMMA ContinuesQuiet ==
  ASSUME NEW q \in Seq(Frame), NEW b \in Nat, NEW last \in Nat,
         Continues(q, b, last), NEW f \in Frame, f.s = 0, f.op # "READY"
  PROVE  /\ Continues(Append(q, f), b, last)
         /\ Reaches(q, b, last) => Reaches(Append(q, f), b, last)
<1> DEFINE a == Append(q, f)
<1>1. /\ Len(a) = Len(q) + 1 /\ a[Len(q) + 1] = f
      /\ \A i \in 1..Len(q) : a[i] = q[i] /\ i \in 1..Len(a)
      /\ \A i \in 1..Len(a) : i \in 1..Len(q) \/ i = Len(q) + 1
      /\ Len(q) \in Nat
  OBVIOUS
<1>2. \A i \in 1..Len(a) : a[i].s # 0 => i \in 1..Len(q) /\ a[i] = q[i]
  BY <1>1
<1> HIDE DEF a
<1>3. \A i \in 1..Len(a) : a[i].s # 0 => a[i].s > b /\ a[i].s <= last
  BY <1>2 DEF Continues
<1>4. \A i, j \in 1..Len(a) :
        i < j /\ a[i].s # 0 /\ a[j].s # 0 => a[i].s < a[j].s
  BY <1>2 DEF Continues
<1>5. ASSUME NEW i \in 1..Len(a), a[i].s > b + 1
      PROVE  \E j \in 1..Len(a) : j < i /\ a[j].s = a[i].s - 1
  <2>1. a[i].s # 0
    BY <1>5, <1>1, FramesType
  <2>2. PICK j \in 1..Len(q) : j < i /\ q[j].s = q[i].s - 1
    BY <1>2, <1>5, <2>1 DEF Continues
  <2> QED
    BY <1>1, <1>2, <2>1, <2>2
<1>6. ASSUME NEW i \in 1..Len(a) PROVE a[i].op = "READY" <=> a[i].s = 1
  <2>1. CASE i \in 1..Len(q)
    BY <2>1, <1>1 DEF Continues
  <2>2. CASE i = Len(q) + 1
    BY <2>2, <1>1
  <2> QED
    BY <1>1, <2>1, <2>2
<1>7. Reaches(q, b, last) => Reaches(a, b, last)
  BY <1>1 DEF Reaches
<1> QED
  BY <1>3, <1>4, <1>5, <1>6, <1>7 DEF Continues, a

\* So may the event that follows the last recorded one.
LEMMA ContinuesNext ==
  ASSUME NEW q \in Seq(Frame), NEW b \in Nat, NEW last \in Nat, b <= last,
         Continues(q, b, last), Reaches(q, b, last),
         NEW f \in Frame, f.s = last + 1, f.op = "READY" <=> last = 0
  PROVE  /\ Continues(Append(q, f), b, last + 1)
         /\ Reaches(Append(q, f), b, last + 1)
<1> DEFINE a == Append(q, f)
           n == Len(q)
<1>1. /\ n \in Nat /\ Len(a) = n + 1 /\ a[n + 1] = f
      /\ \A i \in 1..n : a[i] = q[i] /\ i \in 1..Len(a)
      /\ \A i \in 1..Len(a) : i \in 1..n \/ i = n + 1
  OBVIOUS
<1>2. /\ \A i \in 1..n : q[i].s \in Nat
      /\ \A i \in 1..n : q[i].s # 0 => q[i].s > b /\ q[i].s <= last
  BY FramesType DEF Continues
<1> HIDE DEF a, n
<1>3. ASSUME NEW i \in 1..Len(a), a[i].s # 0
      PROVE  a[i].s > b /\ a[i].s <= last + 1
  <2>1. CASE i \in 1..n
    BY <2>1, <1>1, <1>2, <1>3
  <2>2. CASE i = n + 1
    BY <2>2, <1>1
  <2> QED
    BY <1>1, <2>1, <2>2
<1>4. ASSUME NEW i \in 1..Len(a), NEW j \in 1..Len(a),
             i < j, a[i].s # 0, a[j].s # 0
      PROVE  a[i].s < a[j].s
  <2>1. i \in 1..n /\ a[i] = q[i] /\ a[i].s <= last
    BY <1>1, <1>2, <1>4
  <2>2. CASE j \in 1..n
    BY <1>1, <1>4, <2>1, <2>2 DEF Continues, n
  <2>3. CASE j = n + 1
    BY <1>1, <1>2, <2>1, <2>3
  <2> QED
    BY <1>1, <2>2, <2>3
<1>5. ASSUME NEW i \in 1..Len(a), a[i].s > b + 1
      PROVE  \E j \in 1..Len(a) : j < i /\ a[j].s = a[i].s - 1
  <2>1. CASE i \in 1..n
    <3>1. PICK j \in 1..n : j < i /\ q[j].s = q[i].s - 1
      BY <1>1, <1>5, <2>1 DEF Continues, n
    <3> QED
      BY <1>1, <2>1, <3>1
  <2>2. CASE i = n + 1
    <3>1. a[i].s - 1 = last /\ last # b
      BY <1>1, <1>5, <2>2
    <3>2. PICK j \in 1..n : q[j].s = last
      BY <3>1 DEF Reaches, n
    <3> QED
      BY <1>1, <2>2, <3>1, <3>2
  <2> QED
    BY <1>1, <2>1, <2>2
<1>6. ASSUME NEW i \in 1..Len(a) PROVE a[i].op = "READY" <=> a[i].s = 1
  <2>1. CASE i \in 1..n
    BY <2>1, <1>1 DEF Continues, n
  <2>2. CASE i = n + 1
    BY <2>2, <1>1
  <2> QED
    BY <1>1, <2>1, <2>2
<1>7. Reaches(a, b, last + 1)
  BY <1>1 DEF Reaches
<1> QED
  BY <1>3, <1>4, <1>5, <1>6, <1>7 DEF Continues, a

\* The frames before some point continue as well.
LEMMA ContinuesPrefix ==
  ASSUME NEW q \in Seq(Frame), NEW b \in Nat, NEW last \in Nat,
         Continues(q, b, last), NEW n \in 0..Len(q)
  PROVE  /\ SubSeq(q, 1, n) \in Seq(Frame)
         /\ Continues(SubSeq(q, 1, n), b, last)
<1> DEFINE p == SubSeq(q, 1, n)
<1>1. p \in Seq(Frame) /\ Len(p) = n
  OBVIOUS
<1>2. \A i \in 1..n : p[i] = q[i] /\ i \in 1..Len(q)
  OBVIOUS
<1> HIDE DEF p
<1>3. ASSUME NEW i \in 1..n, p[i].s > b + 1
      PROVE  \E j \in 1..n : j < i /\ p[j].s = p[i].s - 1
  <2>1. PICK j \in 1..Len(q) : j < i /\ q[j].s = q[i].s - 1
    BY <1>2, <1>3 DEF Continues
  <2>2. j \in 1..n
    BY <2>1
  <2> QED
    BY <2>1, <2>2, <1>2
<1>4. \A i \in 1..n : p[i].s # 0 => p[i].s > b /\ p[i].s <= last
  BY <1>2 DEF Continues
<1>5. \A i, j \in 1..n :
        i < j /\ p[i].s # 0 /\ p[j].s # 0 => p[i].s < p[j].s
  BY <1>2 DEF Continues
<1>6. \A i \in 1..n : p[i].op = "READY" <=> p[i].s = 1
  BY <1>2 DEF Continues
<1> QED
  BY <1>1, <1>3, <1>4, <1>5, <1>6 DEF Continues, p

\* Nothing continues anything.
LEMMA ContinuesEmpty ==
  ASSUME NEW b, NEW last
  PROVE  Continues(<<>>, b, last)
BY DEF Continues

\* The n events after the first b of a session.
Replay(b, n) == [i \in 1..n |-> [op |-> "EVENT", s |-> b + i]]

\* They continue it, as far as its last event.
LEMMA ContinuesReplay ==
  ASSUME NEW b \in Nat, b > 0, NEW n \in Nat
  PROVE  /\ Replay(b, n) \in Seq(Frame)
         /\ Continues(Replay(b, n), b, b + n)
         /\ Reaches(Replay(b, n), b, b + n)
<1> DEFINE q == Replay(b, n)
<1>1. \A i \in 1..n : [op |-> "EVENT", s |-> b + i] \in Frame
  BY DEF Frame, Ops, Numbered
<1>2. q \in [1..n -> Frame]
  BY <1>1, Zenon DEF Replay
<1>3. \A i \in 1..n : q[i].op = "EVENT" /\ q[i].s = b + i
  BY DEF Replay
<1> HIDE DEF q
<1>10. q \in Seq(Frame) /\ Len(q) = n
  BY <1>2
<1>4. ASSUME NEW i \in 1..n, q[i].s > b + 1
      PROVE  \E j \in 1..n : j < i /\ q[j].s = q[i].s - 1
  <2>1. i - 1 \in 1..n /\ i - 1 < i
    BY <1>3, <1>4
  <2>2. q[i-1].s = q[i].s - 1
    BY <1>3, <2>1
  <2> QED
    BY <2>1, <2>2
<1>5. \A i \in 1..n : q[i].s # 0 => q[i].s > b /\ q[i].s <= b + n
  BY <1>3
<1>6. \A i, j \in 1..n :
        i < j /\ q[i].s # 0 /\ q[j].s # 0 => q[i].s < q[j].s
  BY <1>3
<1>7. \A i \in 1..n : q[i].op = "READY" <=> q[i].s = 1
  BY <1>3
<1>8. Continues(q, b, b + n)
  BY <1>10, <1>4, <1>5, <1>6, <1>7 DEF Continues
<1>9. Reaches(q, b, b + n)
  <2>1. CASE n = 0
    BY <2>1 DEF Reaches
  <2>2. CASE n # 0
    <3>1. n \in 1..n /\ q[n].s = b + n /\ q[n].s # 0
      BY <1>3, <2>2
    <3> QED
      BY <1>10, <3>1 DEF Reaches
  <2> QED
    BY <2>1, <2>2
<1> QED
  BY <1>10, <1>8, <1>9 DEF q

----------------------------------------------------------------------------
(* What the steps do to the frames on their way.                           *)

\* A frame without an event is taken off: nothing is missing from the rest.
LEMMA TakenFrame ==
  ASSUME TypeOK, InboxInv, Live, NEW ops, Take(ops), ops \cap Numbered = {}
  PROVE  /\ Continues(inbox', Base, srvLast)
         /\ attached => Reaches(inbox', Base, srvLast)
<1>1. inbox \in Seq(Frame) /\ inbox # <<>> /\ srvLast \in Nat /\ Base \in Nat
  BY DEF Take, TypeOK, DataType, Base
<1>2. Continues(inbox, Base, srvLast) /\ (attached => Reaches(inbox, Base, srvLast))
  BY DEF InboxInv
<1>3. inbox' = Tail(inbox) /\ Head(inbox).op \notin Numbered
  BY DEF Take
<1>4. Head(inbox).s = 0
  BY <1>1, <1>2, <1>3, ContinuesHead DEF Frame
<1> QED
  BY <1>1, <1>2, <1>3, <1>4, ContinuesTail

\* The frame that Handle() takes, when it carries an event, carries the next
\* one of the session; the rest continues from there.
LEMMA HandledFrame ==
  ASSUME TypeOK, SessionInv, InboxInv, Live, NEW ops, Handle(ops)
  PROVE  /\ Head(inbox) \in Frame /\ Head(inbox).op \in ops
         /\ Head(inbox).op = "READY" <=> Head(inbox).s = 1
         /\ Head(inbox).s # 0 => Head(inbox).s = Base + 1 /\ Base + 1 <= srvLast
         /\ Continues(inbox', IF Head(inbox).s # 0 THEN Head(inbox).s ELSE Base, srvLast)
         /\ attached => Reaches(inbox', IF Head(inbox).s # 0 THEN Head(inbox).s ELSE Base, srvLast)
<1>1. inbox \in Seq(Frame) /\ inbox # <<>> /\ srvLast \in Nat /\ Base \in Nat
  BY DEF Handle, Take, TypeOK, DataType, Base
<1>2. Continues(inbox, Base, srvLast) /\ (attached => Reaches(inbox, Base, srvLast))
  BY DEF InboxInv
<1>3. inbox' = Tail(inbox) /\ Head(inbox).op \in ops
  BY DEF Handle, Take
<1> QED
  BY <1>1, <1>2, <1>3, ContinuesHead, ContinuesTail

\* An event other than READY is the next one of the session the client has;
\* a message without an event changes nothing of the stream.
LEMMA HandledOther ==
  ASSUME TypeOK, SessionInv, InboxInv, Live,
         NEW ops, Handle(ops), "READY" \notin ops, session_id' = session_id
  PROVE  /\ Continues(inbox', Base', srvLast')
         /\ attached' => Reaches(inbox', Base', srvLast')
         /\ sequence' = handled'
         /\ \/ handled' = handled
            \/ /\ session_id = srvSession /\ session_id # 0
               /\ handled' = handled + 1 /\ handled + 1 <= srvLast
<1>1. /\ Head(inbox) \in Frame /\ Head(inbox).op \in ops
      /\ Head(inbox).op = "READY" <=> Head(inbox).s = 1
      /\ Head(inbox).s # 0 => Head(inbox).s = Base + 1 /\ Base + 1 <= srvLast
      /\ Continues(inbox', IF Head(inbox).s # 0 THEN Head(inbox).s ELSE Base, srvLast)
      /\ attached => Reaches(inbox', IF Head(inbox).s # 0 THEN Head(inbox).s ELSE Base, srvLast)
  BY HandledFrame
<1>2. Head(inbox).s # 1
  BY <1>1
<1>3. /\ sequence' = Recorded(Head(inbox))
      /\ handled' = IF Head(inbox).s # 0 THEN Head(inbox).s ELSE handled
      /\ inbox # <<>> /\ UNCHANGED <<srvSession, srvLast, attached>>
  BY DEF Handle, Take, serverVars
<1>4. /\ session_id \in Nat /\ srvSession \in Nat /\ handled \in Nat /\ sequence = handled
      /\ srvSession # 0
  BY <1>3 DEF TypeOK, DataType, SessionInv
<1>5. CASE Head(inbox).s = 0
  <2>1. handled' = handled /\ sequence' = handled' /\ Base' = Base
    BY <1>3, <1>4, <1>5 DEF Recorded, Base
  <2> QED
    BY <1>1, <1>3, <1>5, <2>1
<1>6. CASE Head(inbox).s # 0
  <2>1. session_id = srvSession /\ Base = handled
    BY <1>1, <1>2, <1>6 DEF Base
  <2>2. handled' = Head(inbox).s /\ sequence' = handled' /\ Base' = Head(inbox).s
    BY <1>3, <1>6, <2>1 DEF Recorded, Base
  <2> QED
    BY <1>1, <1>3, <1>4, <1>6, <2>1, <2>2
<1> QED
  BY <1>5, <1>6

\* READY is the first event of a session that is new to the client.
LEMMA HandledReady ==
  ASSUME TypeOK, SessionInv, InboxInv, Live,
         Handle({"READY"}), session_id' = srvSession
  PROVE  /\ Continues(inbox', Base', srvLast')
         /\ attached' => Reaches(inbox', Base', srvLast')
         /\ sequence' = 1 /\ handled' = 1 /\ srvLast >= 1
         /\ srvSession # session_id /\ srvSession # 0
<1>1. /\ Head(inbox).op = "READY" /\ Head(inbox).s = 1
      /\ Base = 0 /\ srvLast >= 1
      /\ Continues(inbox', 1, srvLast)
      /\ attached => Reaches(inbox', 1, srvLast)
  <2>1. /\ Head(inbox) \in Frame /\ Head(inbox).op \in {"READY"}
        /\ Head(inbox).op = "READY" <=> Head(inbox).s = 1
        /\ Head(inbox).s # 0 => Head(inbox).s = Base + 1 /\ Base + 1 <= srvLast
        /\ Continues(inbox', IF Head(inbox).s # 0 THEN Head(inbox).s ELSE Base, srvLast)
        /\ attached => Reaches(inbox', IF Head(inbox).s # 0 THEN Head(inbox).s ELSE Base, srvLast)
    BY HandledFrame
  <2>2. Base \in Nat /\ srvLast \in Nat
    BY DEF TypeOK, DataType, Base
  <2> QED
    BY <2>1, <2>2
<1>2. /\ sequence' = 1 /\ handled' = 1
      /\ inbox # <<>> /\ UNCHANGED <<srvSession, srvLast, attached>>
  BY <1>1 DEF Handle, Take, serverVars, Recorded
<1>3. srvSession # 0 /\ session_id # srvSession
  BY <1>1, <1>2 DEF TypeOK, DataType, SessionInv, Base
<1>4. Base' = 1
  BY <1>2 DEF Base
<1> QED
  BY <1>1, <1>2, <1>3, <1>4

\* Discord sends a frame without an event.
LEMMA QuietFrame ==
  ASSUME TypeOK, InboxInv, NEW op \in Ops \ Numbered, ServerSends(op, 0),
         srvLast' = srvLast, attached' => attached
  PROVE  InboxInv'
<1>1. /\ inbox' = Append(inbox, [op |-> op, s |-> 0])
      /\ Base' = Base /\ (Live' <=> Live)
  BY DEF ServerSends, Base, Live, sessionVars
<1>2. /\ [op |-> op, s |-> 0] \in Frame /\ op # "READY"
      /\ inbox \in Seq(Frame) /\ srvLast \in Nat /\ Base \in Nat
  BY DEF TypeOK, DataType, Base, Frame, Numbered
<1>3. ASSUME Live
      PROVE  /\ Continues(inbox', Base, srvLast)
             /\ attached => Reaches(inbox', Base, srvLast)
  <2>1. Continues(inbox, Base, srvLast) /\ (attached => Reaches(inbox, Base, srvLast))
    BY <1>3 DEF InboxInv
  <2>2. [op |-> op, s |-> 0].s = 0 /\ [op |-> op, s |-> 0].op # "READY"
    BY <1>2
  <2> QED
    BY <1>1, <1>2, <2>1, <2>2, ContinuesQuiet
<1> QED
  BY <1>1, <1>3 DEF InboxInv

\* Discord records an event and sends it.
LEMMA NumberedFrame ==
  ASSUME TypeOK, SessionInv, InboxInv, attached,
         NEW op \in Numbered, ServerSends(op, srvLast + 1), op = "READY" <=> srvLast = 0,
         srvLast' = srvLast + 1, attached' = attached
  PROVE  InboxInv'
<1> DEFINE f == [op |-> op, s |-> srvLast + 1]
<1>1. inbox' = Append(inbox, f) /\ Base' = Base /\ (Live' <=> Live)
  BY DEF ServerSends, Base, Live, sessionVars
<1>2. inbox \in Seq(Frame) /\ srvLast \in Nat /\ Base \in Nat /\ Base <= srvLast
  BY DEF TypeOK, DataType, SessionInv, Base
<1>3. f \in Frame /\ f.s = srvLast + 1 /\ (f.op = "READY" <=> srvLast = 0)
  BY <1>2 DEF Frame, Numbered, Ops
<1> HIDE DEF f
<1>4. ASSUME Live
      PROVE  /\ Continues(inbox', Base, srvLast + 1)
             /\ Reaches(inbox', Base, srvLast + 1)
  <2>1. Continues(inbox, Base, srvLast) /\ Reaches(inbox, Base, srvLast)
    BY <1>4 DEF InboxInv
  <2> QED
    BY <1>1, <1>2, <1>3, <2>1, ContinuesNext
<1> QED
  BY <1>1, <1>4 DEF InboxInv

\* The answer to RESUME: what the client has missed, or nothing at all.
LEMMA ResumedFrames ==
  ASSUME TypeOK, SessionInv, pc["main"] = "rcSend", resume, SendResume,
         UNCHANGED sessionVars
  PROVE  InboxInv'
<1>1. /\ inbox = <<>> /\ sequence = handled /\ session_id # 0
      /\ UNCHANGED <<Base, srvLast>> /\ srvLast \in Nat /\ handled \in Nat
  BY DEF SessionInv, SendResume, sessionVars, Base, TypeOK, DataType
<1>2. CASE /\ session_id = srvSession
           /\ inbox' = (inbox \o Missed) \o <<[op |-> "RESUMED", s |-> 0]>>
  <2> DEFINE n == srvLast - handled
             f == [op |-> "RESUMED", s |-> 0]
             q == Replay(handled, n)
  <2>1. n \in Nat /\ handled > 0 /\ handled + n = srvLast /\ Base = handled
    BY <1>1, <1>2 DEF SessionInv, TypeOK, DataType, Base
  <2>2. Missed = q
    BY <1>1 DEF Missed, Replay
  <2>3. f \in Frame /\ f.s = 0 /\ f.op # "READY"
    BY DEF Frame, Ops, Numbered
  <2> HIDE DEF n, f
  <2>4. q \in Seq(Frame) /\ Continues(q, handled, srvLast) /\ Reaches(q, handled, srvLast)
    BY <1>1, <2>1, ContinuesReplay
  <2> HIDE DEF q
  <2>5. inbox' = Append(q, f)
    <3>1. inbox' = (<<>> \o q) \o <<f>>
      BY <1>1, <1>2, <2>2 DEF f
    <3>2. <<>> \o q = q
      BY <2>4
    <3> QED
      BY <2>4, <3>1, <3>2
  <2>6. Continues(inbox', handled, srvLast) /\ Reaches(inbox', handled, srvLast)
    BY <1>1, <2>3, <2>4, <2>5, ContinuesQuiet
  <2> QED
    BY <1>1, <2>1, <2>6 DEF InboxInv
<1>3. CASE ~attached' /\ inbox' = Append(inbox, [op |-> "INVALID", s |-> 0])
  <2> DEFINE f == [op |-> "INVALID", s |-> 0]
  <2>1. f \in Frame /\ f.s = 0 /\ f.op # "READY"
    BY DEF Frame, Ops, Numbered
  <2>2. Base \in Nat /\ inbox \in Seq(Frame) /\ Continues(inbox, Base, srvLast)
    BY <1>1, ContinuesEmpty DEF TypeOK, DataType, Base
  <2>3. inbox' = Append(inbox, f)
    BY <1>3
  <2> HIDE DEF f
  <2>4. Continues(inbox', Base, srvLast)
    BY <1>1, <2>1, <2>2, <2>3, ContinuesQuiet
  <2> QED
    BY <1>1, <1>3, <2>4 DEF InboxInv
<1> QED
  BY <1>2, <1>3 DEF SendResume

\* The client's session and its events stay within what Discord recorded.
LEMMA SessionStep ==
  ASSUME TypeOK, LockInv, StartInv, SessionInv, InboxInv, [Next]_vars
  PROVE  SessionInv'
<1> USE GatewayAssumption DEF TypeOK, PcType, FlagType, DataType, Tasks,
         SessionInv, StartInv, LockInv, Live, Finished, localVars, eventVars,
         stopVars, connVars, sessionVars, serverVars, netVars
<1>1. CASE RunConnect
  BY <1>1 DEF RunConnect, NewConnection
<1>2. CASE RunConnectFails
  BY <1>2 DEF RunConnectFails, Go, Fault
<1>3. CASE RunIdentify
  BY <1>3 DEF RunIdentify, Go, SendIdentify, OpenGate
<1>4. CASE RunIdentifyFails
  BY <1>4 DEF RunIdentifyFails, Go
<1>5. CASE RcConnect
  BY <1>5 DEF RcConnect, NewConnection
<1>6. CASE RcConnectFails
  BY <1>6 DEF RcConnectFails, Go, Release, Fault
<1>7. CASE RcSend
  <2>1. CASE resume
    BY <1>7, <2>1 DEF RcSend, Go, SendResume
  <2>2. CASE ~resume
    BY <1>7, <2>2 DEF RcSend, Go, SendIdentify
  <2> QED
    BY <2>1, <2>2
<1>8. CASE RcSendFails
  BY <1>8 DEF RcSendFails, Go, Release
<1>9. CASE PassGate
  BY <1>9 DEF PassGate, Go
<1>10. CASE ReceiveClose
  BY <1>10 DEF ReceiveClose, CallReconnect, ClearReady, Take
<1>11. CASE ReceiveFatal
  BY <1>11 DEF ReceiveFatal, Go, Take
<1>12. CASE ReceiveClosed
  BY <1>12 DEF ReceiveClosed, CallReconnect, Go, ClearReady, Take
<1>13. CASE ReceivePart
  BY <1>13 DEF ReceivePart, Go, Take
<1>14. CASE ReceiveCorrupt
  BY <1>14 DEF ReceiveCorrupt, Go, Take
<1>15. CASE HandleEvent
  <2>1. Live /\ Handle({"EVENT", "RESUMED"}) /\ session_id' = session_id
    BY <1>15 DEF HandleEvent, Handle, Take
  <2>2. /\ sequence' = handled'
        /\ \/ handled' = handled
           \/ /\ session_id = srvSession /\ session_id # 0
              /\ handled' = handled + 1 /\ handled + 1 <= srvLast
    BY <2>1, HandledOther
  <2>3. pc'["main"] \notin {"connect", "identify", "rcSend"}
    BY <1>15 DEF HandleEvent, Go
  <2> QED
    BY <2>1, <2>2, <2>3 DEF Handle, Take
<1>16. CASE HandleBadEvent
  <2>1. Live /\ Handle({"BAD_EVENT"}) /\ session_id' = session_id
    BY <1>16 DEF HandleBadEvent, Handle, Take
  <2>2. /\ sequence' = handled'
        /\ \/ handled' = handled
           \/ /\ session_id = srvSession /\ session_id # 0
              /\ handled' = handled + 1 /\ handled + 1 <= srvLast
    BY <2>1, HandledOther
  <2>3. pc'["main"] \notin {"connect", "identify", "rcSend"}
    BY <1>16 DEF HandleBadEvent, Go
  <2> QED
    BY <2>1, <2>2, <2>3 DEF Handle, Take
<1>17. CASE HandleReady
  BY <1>17, HandledReady DEF HandleReady, Go, Handle, Take
<1>18. CASE HandleAck
  <2>1. Live /\ Handle({"ACK"}) /\ session_id' = session_id
    BY <1>18 DEF HandleAck, Handle, Take
  <2>2. /\ sequence' = handled'
        /\ \/ handled' = handled
           \/ /\ session_id = srvSession /\ session_id # 0
              /\ handled' = handled + 1 /\ handled + 1 <= srvLast
    BY <2>1, HandledOther
  <2>3. pc'["main"] \notin {"connect", "identify", "rcSend"}
    BY <1>18 DEF HandleAck, Go
  <2> QED
    BY <2>1, <2>2, <2>3 DEF Handle, Take
<1>19. CASE HandleReconnect
  <2>1. Live /\ Handle({"RECONNECT", "INVALID", "INVALID_RESUMABLE"}) /\ session_id' = session_id
    BY <1>19 DEF HandleReconnect, Handle, Take
  <2>2. /\ sequence' = handled'
        /\ \/ handled' = handled
           \/ /\ session_id = srvSession /\ session_id # 0
              /\ handled' = handled + 1 /\ handled + 1 <= srvLast
    BY <2>1, HandledOther
  <2>3. pc'["main"] \notin {"connect", "identify", "rcSend"}
    BY <1>19 DEF HandleReconnect, CallReconnect
  <2> QED
    BY <2>1, <2>2, <2>3 DEF Handle, Take
<1>20. CASE HandleHeartbeat
  <2>1. Live /\ Handle({"HEARTBEAT"}) /\ session_id' = session_id
    BY <1>20 DEF HandleHeartbeat, Handle, Take
  <2>2. /\ sequence' = handled'
        /\ \/ handled' = handled
           \/ /\ session_id = srvSession /\ session_id # 0
              /\ handled' = handled + 1 /\ handled + 1 <= srvLast
    BY <2>1, HandledOther
  <2>3. pc'["main"] \notin {"connect", "identify", "rcSend"}
    BY <1>20 DEF HandleHeartbeat, Go
  <2> QED
    BY <2>1, <2>2, <2>3 DEF Handle, Take
<1>21. CASE RunReturns
  BY <1>21 DEF RunReturns
<1>22. CASE LoginHandler
  BY <1>22 DEF LoginHandler, Go
<1>23. CASE Logout
  BY <1>23 DEF Logout, Go
<1>24. CASE HbCancelled
  BY <1>24 DEF HbCancelled, Running, Go, Release
<1>25. CASE HbStart
  BY <1>25 DEF HbStart, Running, Go, Rearm
<1>26. CASE HbTimeout
  BY <1>26 DEF HbTimeout, Running, ClearReady
<1>27. CASE HbEnd
  BY <1>27 DEF HbEnd, Running, Go
<1>28. CASE ServerEvent
  BY <1>28 DEF ServerEvent, ServerSends
<1>29. CASE ServerBadEvent
  BY <1>29 DEF ServerBadEvent, ServerSends
<1>30. CASE ServerPart
  BY <1>30 DEF ServerPart, ServerSends
<1>31. CASE ServerAsks
  BY <1>31 DEF ServerAsks, ServerSends
<1>32. CASE ServerInvalidates
  BY <1>32 DEF ServerInvalidates, ServerSends
<1>33. CASE ServerCloses
  BY <1>33 DEF ServerCloses, ServerSends
<1>34. CASE Drop
  BY <1>34 DEF Drop
<1>35. CASE Stop
  BY <1>35 DEF Stop, Running
<1>36. ASSUME NEW u \in Users, Call(u) PROVE SessionInv'
  BY <1>36 DEF Call, Running, Go
<1>37. CASE ServerReady
  BY <1>37 DEF ServerReady, ServerSends
<1>38. CASE ServerAck
  BY <1>38 DEF ServerAck, ServerSends
<1>39. ASSUME NEW t \in Tasks, RcLock(t) PROVE SessionInv'
  BY <1>39 DEF RcLock, Running, Go, Acquire, ShutGate
<1>40. ASSUME NEW t \in Tasks, SendLock(t) PROVE SessionInv'
  BY <1>40 DEF SendLock, Running, Go, Acquire
<1>41. ASSUME NEW t \in Tasks, RcClose(t) PROVE SessionInv'
  BY <1>41 DEF RcClose, Running, HbAlive
<1>42. ASSUME NEW t \in Tasks, Send(t) PROVE SessionInv'
  BY <1>42 DEF Send, Running, Go, AfterSend, Release
<1>43. ASSUME NEW t \in Tasks, SendFails(t) PROVE SessionInv'
  BY <1>43 DEF SendFails, Running, Go, Release
<1>44. CASE UNCHANGED vars
  BY <1>44 DEF vars
<1> QED
  BY <1>1, <1>2, <1>3, <1>4, <1>5, <1>6, <1>7, <1>8, <1>9, <1>10, <1>11,
       <1>12, <1>13, <1>14, <1>15, <1>16, <1>17, <1>18, <1>19, <1>20, <1>21,
       <1>22, <1>23, <1>24, <1>25, <1>26, <1>27, <1>28, <1>29, <1>30, <1>31,
       <1>32, <1>33, <1>34, <1>35, <1>36, <1>37, <1>38, <1>39, <1>40, <1>41,
       <1>42, <1>43, <1>44 DEF Next, Main, Heartbeat, Environment, Answers,
       Locked, Unlocks

\* The frames on their way always continue what the client has handled.
LEMMA InboxStep ==
  ASSUME TypeOK, LockInv, StartInv, SessionInv, InboxInv, [Next]_vars
  PROVE  InboxInv'
<1> USE GatewayAssumption DEF TypeOK, PcType, FlagType, DataType, Tasks,
         SessionInv, StartInv, InboxInv, Base, Live, Finished, localVars,
         eventVars, stopVars, connVars, sessionVars, serverVars, netVars
<1>1. CASE RunConnect
  BY <1>1, ContinuesEmpty DEF RunConnect, NewConnection
<1>2. CASE RunConnectFails
  BY <1>2 DEF RunConnectFails, Go, Fault
<1>3. CASE RunIdentify
  <2>1. inbox' = <<>> /\ session_id' # srvSession' /\ srvLast' = 0
    BY <1>3 DEF RunIdentify, SendIdentify, Go
  <2> QED
    BY <2>1, ContinuesEmpty DEF Reaches
<1>4. CASE RunIdentifyFails
  BY <1>4 DEF RunIdentifyFails, Go
<1>5. CASE RcConnect
  BY <1>5, ContinuesEmpty DEF RcConnect, NewConnection
<1>6. CASE RcConnectFails
  BY <1>6 DEF RcConnectFails, Go, Release, Fault
<1>7. CASE RcSend
  <2>1. CASE resume
    <3>1. /\ pc["main"] = "rcSend" /\ SendResume
          /\ UNCHANGED <<session_id, sequence, handled>>
      BY <1>7, <2>1 DEF RcSend, Go
    <3> QED
      BY <2>1, <3>1, ResumedFrames
  <2>2. CASE ~resume
    <3>1. inbox' = <<>> /\ session_id' # srvSession' /\ srvLast' = 0
      BY <1>7, <2>2 DEF RcSend, SendIdentify, Go
    <3> QED
      BY <3>1, ContinuesEmpty DEF Reaches
  <2> QED
    BY <2>1, <2>2
<1>8. CASE RcSendFails
  BY <1>8 DEF RcSendFails, Go, Release
<1>9. CASE PassGate
  BY <1>9 DEF PassGate, Go
<1>10. CASE ReceiveClose
  <2>1. Live /\ Take({"CLOSE_1000", "CLOSE_OTHER"})
    BY <1>10 DEF ReceiveClose, Take
  <2>2. /\ Continues(inbox', Base, srvLast)
        /\ attached => Reaches(inbox', Base, srvLast)
    BY <2>1, TakenFrame DEF Numbered
  <2> QED
    BY <1>10, <2>2 DEF ReceiveClose, Take
<1>11. CASE ReceiveFatal
  BY <1>11 DEF ReceiveFatal, Go, Take
<1>12. CASE ReceiveClosed
  BY <1>12 DEF ReceiveClosed, CallReconnect, Go, ClearReady, Take
<1>13. CASE ReceivePart
  <2>1. Live /\ Take({"PART"})
    BY <1>13 DEF ReceivePart, Take
  <2>2. /\ Continues(inbox', Base, srvLast)
        /\ attached => Reaches(inbox', Base, srvLast)
    BY <2>1, TakenFrame DEF Numbered
  <2> QED
    BY <1>13, <2>2 DEF ReceivePart, Take
<1>14. CASE ReceiveCorrupt
  BY <1>14 DEF ReceiveCorrupt, Go, Take
<1>15. CASE HandleEvent
  BY <1>15, HandledOther DEF HandleEvent, Go, Handle, Take
<1>16. CASE HandleBadEvent
  BY <1>16, HandledOther DEF HandleBadEvent, Go, Handle, Take
<1>17. CASE HandleReady
  BY <1>17, HandledReady DEF HandleReady, Go, Handle, Take
<1>18. CASE HandleAck
  BY <1>18, HandledOther DEF HandleAck, Go, Handle, Take
<1>19. CASE HandleReconnect
  BY <1>19, HandledOther DEF HandleReconnect, CallReconnect, ClearReady,
       Handle, Take
<1>20. CASE HandleHeartbeat
  BY <1>20, HandledOther DEF HandleHeartbeat, Go, Handle, Take
<1>21. CASE RunReturns
  BY <1>21 DEF RunReturns
<1>22. CASE LoginHandler
  BY <1>22 DEF LoginHandler, Go
<1>23. CASE Logout
  BY <1>23 DEF Logout, Go
<1>24. CASE HbCancelled
  BY <1>24 DEF HbCancelled, Running, Go, Release
<1>25. CASE HbStart
  BY <1>25 DEF HbStart, Running, Go, Rearm
<1>26. CASE HbTimeout
  BY <1>26 DEF HbTimeout, Running, ClearReady
<1>27. CASE HbEnd
  BY <1>27 DEF HbEnd, Running, Go
<1>28. CASE ServerEvent
  BY <1>28, NumberedFrame DEF ServerEvent, Ops, Numbered
<1>29. CASE ServerBadEvent
  BY <1>29, NumberedFrame DEF ServerBadEvent, Ops, Numbered
<1>30. CASE ServerPart
  BY <1>30, QuietFrame DEF ServerPart, Ops, Numbered
<1>31. CASE ServerAsks
  BY <1>31, QuietFrame DEF ServerAsks, Ops, Numbered
<1>32. CASE ServerInvalidates
  BY <1>32, QuietFrame DEF ServerInvalidates, Ops, Numbered
<1>33. CASE ServerCloses
  BY <1>33, QuietFrame DEF ServerCloses, Ops, Numbered
<1>34. CASE Drop
  <2>1. PICK n \in 0..Len(inbox) : inbox' = SubSeq(inbox, 1, n)
    BY <1>34 DEF Drop
  <2>2. Live' => Live
    BY <1>34 DEF Drop
  <2> QED
    BY <1>34, <2>1, <2>2, ContinuesPrefix DEF Drop
<1>35. CASE Stop
  BY <1>35 DEF Stop, Running
<1>36. ASSUME NEW u \in Users, Call(u) PROVE InboxInv'
  BY <1>36 DEF Call, Running, Go
<1>37. CASE ServerReady
  BY <1>37, NumberedFrame DEF ServerReady, Ops, Numbered
<1>38. CASE ServerAck
  BY <1>38, QuietFrame DEF ServerAck, Ops, Numbered
<1>39. ASSUME NEW t \in Tasks, RcLock(t) PROVE InboxInv'
  BY <1>39 DEF RcLock, Running, Go, Acquire, ShutGate
<1>40. ASSUME NEW t \in Tasks, SendLock(t) PROVE InboxInv'
  BY <1>40 DEF SendLock, Running, Go, Acquire
<1>41. ASSUME NEW t \in Tasks, RcClose(t) PROVE InboxInv'
  BY <1>41, ContinuesEmpty DEF RcClose, Running, HbAlive
<1>42. ASSUME NEW t \in Tasks, Send(t) PROVE InboxInv'
  BY <1>42 DEF Send, Running, Go, AfterSend, Release
<1>43. ASSUME NEW t \in Tasks, SendFails(t) PROVE InboxInv'
  BY <1>43 DEF SendFails, Running, Go, Release
<1>44. CASE UNCHANGED vars
  BY <1>44 DEF vars
<1> QED
  BY <1>1, <1>2, <1>3, <1>4, <1>5, <1>6, <1>7, <1>8, <1>9, <1>10, <1>11,
       <1>12, <1>13, <1>14, <1>15, <1>16, <1>17, <1>18, <1>19, <1>20, <1>21,
       <1>22, <1>23, <1>24, <1>25, <1>26, <1>27, <1>28, <1>29, <1>30, <1>31,
       <1>32, <1>33, <1>34, <1>35, <1>36, <1>37, <1>38, <1>39, <1>40, <1>41,
       <1>42, <1>43, <1>44 DEF Next, Main, Heartbeat, Environment, Answers,
       Locked, Unlocks

\* Inv is an invariant.
THEOREM Invariant == Spec => []Inv
<1>1. Init => SessionInv /\ InboxInv
  BY ContinuesEmpty
     DEF Init, SessionInv, InboxInv, Base, Reaches, Tasks, Live, Finished
<1>2. /\ TypeOK /\ LockInv /\ StartInv /\ SessionInv /\ InboxInv
      /\ [Next]_vars
      => SessionInv' /\ InboxInv'
  BY SessionStep, InboxStep
<1> QED
  BY <1>1, <1>2, GateInvariant, PTL DEF Spec, Inv

----------------------------------------------------------------------------
(* The stream the bot sees.                                                *)

\* What EventsInOrder says of a step.
OrderKept ==
  \/ handled' = handled
  \/ session_id' # session_id /\ handled' = 1
  \/ session_id' = session_id /\ handled' = handled + 1

\* No step skips an event, gives one twice or goes back in the session.
LEMMA OrderStep ==
  ASSUME TypeOK, LockInv, SessionInv, InboxInv, [Next]_vars
  PROVE  OrderKept
<1> USE DEF OrderKept, Live, Finished, localVars, eventVars, stopVars,
         connVars, sessionVars, serverVars, netVars
<1>1. CASE RunConnect
  BY <1>1 DEF RunConnect
<1>2. CASE RunConnectFails
  BY <1>2 DEF RunConnectFails
<1>3. CASE RunIdentify
  BY <1>3 DEF RunIdentify, OpenGate
<1>4. CASE RunIdentifyFails
  BY <1>4 DEF RunIdentifyFails
<1>5. CASE RcConnect
  BY <1>5 DEF RcConnect
<1>6. CASE RcConnectFails
  BY <1>6 DEF RcConnectFails, Release
<1>7. CASE RcSend
  BY <1>7 DEF RcSend, OpenGate, Release
<1>8. CASE RcSendFails
  BY <1>8 DEF RcSendFails, Release
<1>9. CASE PassGate
  BY <1>9 DEF PassGate
<1>10. CASE ReceiveClose
  BY <1>10 DEF ReceiveClose, Take
<1>11. CASE ReceiveFatal
  BY <1>11 DEF ReceiveFatal, Take
<1>12. CASE ReceiveClosed
  BY <1>12 DEF ReceiveClosed, Take
<1>13. CASE ReceivePart
  BY <1>13 DEF ReceivePart, Take
<1>14. CASE ReceiveCorrupt
  BY <1>14 DEF ReceiveCorrupt, Take
<1>15. CASE HandleEvent
  <2>1. Live /\ Handle({"EVENT", "RESUMED"}) /\ session_id' = session_id
    BY <1>15 DEF HandleEvent, Handle, Take
  <2>2. \/ handled' = handled
        \/ /\ session_id = srvSession /\ session_id # 0
           /\ handled' = handled + 1 /\ handled + 1 <= srvLast
    BY <2>1, HandledOther
  <2> QED
    BY <2>1, <2>2
<1>16. CASE HandleBadEvent
  <2>1. Live /\ Handle({"BAD_EVENT"}) /\ session_id' = session_id
    BY <1>16 DEF HandleBadEvent, Handle, Take
  <2>2. \/ handled' = handled
        \/ /\ session_id = srvSession /\ session_id # 0
           /\ handled' = handled + 1 /\ handled + 1 <= srvLast
    BY <2>1, HandledOther
  <2> QED
    BY <2>1, <2>2
<1>17. CASE HandleReady
  <2>1. Live /\ Handle({"READY"}) /\ session_id' = srvSession
    BY <1>17 DEF HandleReady, Handle, Take
  <2>2. /\ handled' = 1 /\ srvLast >= 1
        /\ srvSession # session_id /\ srvSession # 0
    BY <2>1, HandledReady
  <2> QED
    BY <2>1, <2>2
<1>18. CASE HandleAck
  <2>1. Live /\ Handle({"ACK"}) /\ session_id' = session_id
    BY <1>18 DEF HandleAck, Handle, Take
  <2>2. \/ handled' = handled
        \/ /\ session_id = srvSession /\ session_id # 0
           /\ handled' = handled + 1 /\ handled + 1 <= srvLast
    BY <2>1, HandledOther
  <2> QED
    BY <2>1, <2>2
<1>19. CASE HandleReconnect
  <2>1. Live /\ Handle({"RECONNECT", "INVALID", "INVALID_RESUMABLE"}) /\ session_id' = session_id
    BY <1>19 DEF HandleReconnect, Handle, Take
  <2>2. \/ handled' = handled
        \/ /\ session_id = srvSession /\ session_id # 0
           /\ handled' = handled + 1 /\ handled + 1 <= srvLast
    BY <2>1, HandledOther
  <2> QED
    BY <2>1, <2>2
<1>20. CASE HandleHeartbeat
  <2>1. Live /\ Handle({"HEARTBEAT"}) /\ session_id' = session_id
    BY <1>20 DEF HandleHeartbeat, Handle, Take
  <2>2. \/ handled' = handled
        \/ /\ session_id = srvSession /\ session_id # 0
           /\ handled' = handled + 1 /\ handled + 1 <= srvLast
    BY <2>1, HandledOther
  <2> QED
    BY <2>1, <2>2
<1>21. CASE RunReturns
  BY <1>21 DEF RunReturns
<1>22. CASE LoginHandler
  BY <1>22 DEF LoginHandler
<1>23. CASE Logout
  BY <1>23 DEF Logout
<1>24. CASE HbCancelled
  BY <1>24 DEF HbCancelled, Release
<1>25. CASE HbStart
  BY <1>25 DEF HbStart, Rearm
<1>26. CASE HbTimeout
  BY <1>26 DEF HbTimeout, ClearReady
<1>27. CASE HbEnd
  BY <1>27 DEF HbEnd
<1>28. CASE ServerEvent
  BY <1>28 DEF ServerEvent, ServerSends
<1>29. CASE ServerBadEvent
  BY <1>29 DEF ServerBadEvent, ServerSends
<1>30. CASE ServerPart
  BY <1>30 DEF ServerPart, ServerSends
<1>31. CASE ServerAsks
  BY <1>31 DEF ServerAsks, ServerSends
<1>32. CASE ServerInvalidates
  BY <1>32 DEF ServerInvalidates, ServerSends
<1>33. CASE ServerCloses
  BY <1>33 DEF ServerCloses, ServerSends
<1>34. CASE Drop
  BY <1>34 DEF Drop
<1>35. CASE Stop
  BY <1>35 DEF Stop
<1>36. ASSUME NEW u \in Users, Call(u) PROVE OrderKept
  BY <1>36 DEF Call
<1>37. CASE ServerReady
  BY <1>37 DEF ServerReady, ServerSends
<1>38. CASE ServerAck
  BY <1>38 DEF ServerAck, ServerSends
<1>39. ASSUME NEW t \in Tasks, RcLock(t) PROVE OrderKept
  BY <1>39 DEF RcLock, Acquire, ShutGate
<1>40. ASSUME NEW t \in Tasks, SendLock(t) PROVE OrderKept
  BY <1>40 DEF SendLock, Acquire
<1>41. ASSUME NEW t \in Tasks, RcClose(t) PROVE OrderKept
  BY <1>41 DEF RcClose, Tasks, HbAlive
<1>42. ASSUME NEW t \in Tasks, Send(t) PROVE OrderKept
  BY <1>42 DEF Send, Release
<1>43. ASSUME NEW t \in Tasks, SendFails(t) PROVE OrderKept
  BY <1>43 DEF SendFails, Release
<1>44. CASE UNCHANGED vars
  BY <1>44 DEF vars
<1> QED
  BY <1>1, <1>2, <1>3, <1>4, <1>5, <1>6, <1>7, <1>8, <1>9, <1>10, <1>11,
       <1>12, <1>13, <1>14, <1>15, <1>16, <1>17, <1>18, <1>19, <1>20, <1>21,
       <1>22, <1>23, <1>24, <1>25, <1>26, <1>27, <1>28, <1>29, <1>30, <1>31,
       <1>32, <1>33, <1>34, <1>35, <1>36, <1>37, <1>38, <1>39, <1>40, <1>41,
       <1>42, <1>43, <1>44 DEF Next, Main, Heartbeat, Environment, Answers,
       Locked, Unlocks

\* EventsInOrder holds of every step: across any number of reconnections the
\* bot is given the events of a session one by one.
THEOREM InOrder == Spec => EventsInOrder
<1>1. Inv /\ [Next]_vars
        => [handled' # handled =>
              \/ session_id' # session_id /\ handled' = 1
              \/ session_id' = session_id /\ handled' = handled + 1]_vars
  BY OrderStep DEF Inv, OrderKept
<1> QED
  BY <1>1, Invariant, PTL DEF Spec, EventsInOrder

\* A step that changes nothing of the stream.
LEMMA StreamStutters ==
  ASSUME Live' <=> Live, UNCHANGED <<session_id, handled, srvSession, srvLast>>
  PROVE  UNCHANGED Stream!vars
BY DEF Stream!vars

\* A step that ends the client.
LEMMA StreamEnds ==
  ASSUME Live, ~Live', UNCHANGED <<session_id, handled, srvSession, srvLast>>
  PROVE  Stream!Next
BY DEF Stream!Next, Stream!End

\* IDENTIFY gives up the session Discord held.
LEMMA StreamAbandons ==
  ASSUME TypeOK, SessionInv, SendIdentify, Live' <=> Live,
         UNCHANGED <<session_id, handled>>
  PROVE  Stream!Next
<1>1. session_id' # srvSession'
  BY DEF SendIdentify, SessionInv, TypeOK, DataType
<1> QED
  BY <1>1 DEF Stream!Next, Stream!Abandon

\* An event recorded by Discord is published to the session it belongs to.
LEMMA StreamPublishes ==
  ASSUME TypeOK, SessionInv, srvLast' = srvLast + 1, Live' <=> Live,
         UNCHANGED <<session_id, handled, srvSession>>
  PROVE  [Stream!Next]_(Stream!vars)
<1>1. CASE session_id = srvSession
  <2>1. srvLast' - handled' = (srvLast - handled) + 1
    BY DEF TypeOK, DataType
  <2> QED
    BY <1>1, <2>1 DEF Stream!Next, Stream!Publish
<1>2. CASE session_id # srvSession
  BY <1>2 DEF Stream!vars
<1> QED
  BY <1>1, <1>2

\* A message other than READY delivers at most the next event.
LEMMA StreamDelivers ==
  ASSUME TypeOK, SessionInv, InboxInv, Live, UNCHANGED <<session_id, srvSession, srvLast>>,
         \/ handled' = handled
         \/ /\ session_id = srvSession /\ session_id # 0
            /\ handled' = handled + 1 /\ handled + 1 <= srvLast
  PROVE  [Stream!Next]_(Stream!vars)
<1>1. CASE handled' = handled /\ Live'
  BY <1>1, StreamStutters
<1>2. CASE handled' = handled /\ ~Live'
  BY <1>2, StreamEnds
<1>3. CASE /\ session_id = srvSession
           /\ handled' = handled + 1 /\ handled + 1 <= srvLast
  <2>1. Live' \in BOOLEAN
    BY DEF Live
  <2>2. srvLast - handled > 0 /\ srvLast' - handled' = srvLast - handled - 1
    BY <1>3 DEF TypeOK, DataType
  <2>3. Stream!Deliver
    BY <1>3, <2>1, <2>2 DEF Stream!Deliver
  <2> QED
    BY <2>3 DEF Stream!Next
<1> QED
  BY <1>1, <1>2, <1>3

\* READY switches to another session.
LEMMA StreamSwitches ==
  ASSUME TypeOK, SessionInv, Live, Live', srvLast >= 1,
         srvSession # session_id, srvSession # 0, session_id' = srvSession,
         handled' = 1, UNCHANGED <<srvSession, srvLast>>
  PROVE  Stream!Next
<1>1. srvLast' - handled' \in Nat /\ session_id' \in Nat \ {0}
  BY DEF TypeOK, DataType
<1>2. Stream!Switch
  BY <1>1 DEF Stream!Switch
<1> QED
  BY <1>2 DEF Stream!Next

\* Every step is a step of EventStream or changes nothing of the stream.
LEMMA StreamStep ==
  ASSUME TypeOK, LockInv, SessionInv, InboxInv, [Next]_vars
  PROVE  [Stream!Next]_(Stream!vars)
<1> USE GatewayAssumption DEF PcType, TypeOK, Tasks, Live, Finished,
         localVars, eventVars, stopVars, connVars, sessionVars, serverVars,
         netVars
<1>1. CASE RunConnect
  BY <1>1, StreamStutters DEF RunConnect, NewConnection
<1>2. CASE RunConnectFails
  BY <1>2, StreamEnds DEF RunConnectFails, Go, Fault
<1>3. CASE RunIdentify
  BY <1>3, StreamAbandons DEF RunIdentify, Go, OpenGate
<1>4. CASE RunIdentifyFails
  BY <1>4, StreamEnds DEF RunIdentifyFails, Go
<1>5. CASE RcConnect
  BY <1>5, StreamStutters DEF RcConnect, NewConnection
<1>6. CASE RcConnectFails
  BY <1>6, StreamEnds DEF RcConnectFails, Go, Release, Fault
<1>7. CASE RcSend
  <2>1. CASE resume
    BY <1>7, <2>1, StreamStutters DEF RcSend, Go, SendResume
  <2>2. CASE ~resume
    BY <1>7, <2>2, StreamAbandons DEF RcSend, Go
  <2> QED
    BY <2>1, <2>2
<1>8. CASE RcSendFails
  BY <1>8, StreamEnds DEF RcSendFails, Go, Release
<1>9. CASE PassGate
  BY <1>9, StreamStutters DEF PassGate, Go
<1>10. CASE ReceiveClose
  BY <1>10, StreamStutters DEF ReceiveClose, CallReconnect, ClearReady, Take
<1>11. CASE ReceiveFatal
  BY <1>11, StreamEnds DEF ReceiveFatal, Go, Take
<1>12. CASE ReceiveClosed
  BY <1>12, StreamStutters DEF ReceiveClosed, CallReconnect, Go, ClearReady,
       Take
<1>13. CASE ReceivePart
  BY <1>13, StreamStutters DEF ReceivePart, Go, Take
<1>14. CASE ReceiveCorrupt
  BY <1>14, StreamEnds DEF ReceiveCorrupt, Go, Take
<1>15. CASE HandleEvent
  <2>1. Live /\ Handle({"EVENT", "RESUMED"}) /\ session_id' = session_id
    BY <1>15 DEF HandleEvent, Handle, Take
  <2>2. \/ handled' = handled
        \/ /\ session_id = srvSession /\ session_id # 0
           /\ handled' = handled + 1 /\ handled + 1 <= srvLast
    BY <2>1, HandledOther
  <2> QED
    BY <2>1, <2>2, StreamDelivers DEF Handle, Take
<1>16. CASE HandleBadEvent
  <2>1. Live /\ Handle({"BAD_EVENT"}) /\ session_id' = session_id
    BY <1>16 DEF HandleBadEvent, Handle, Take
  <2>2. \/ handled' = handled
        \/ /\ session_id = srvSession /\ session_id # 0
           /\ handled' = handled + 1 /\ handled + 1 <= srvLast
    BY <2>1, HandledOther
  <2> QED
    BY <2>1, <2>2, StreamDelivers DEF Handle, Take
<1>17. CASE HandleReady
  <2>1. Live /\ Handle({"READY"}) /\ session_id' = srvSession
    BY <1>17 DEF HandleReady, Handle, Take
  <2>2. /\ handled' = 1 /\ srvLast >= 1
        /\ srvSession # session_id /\ srvSession # 0
    BY <2>1, HandledReady
  <2>3. Live' /\ UNCHANGED <<srvSession, srvLast>>
    BY <1>17 DEF HandleReady, Handle, Take, Go
  <2> QED
    BY <2>1, <2>2, <2>3, StreamSwitches
<1>18. CASE HandleAck
  <2>1. Live /\ Handle({"ACK"}) /\ session_id' = session_id
    BY <1>18 DEF HandleAck, Handle, Take
  <2>2. \/ handled' = handled
        \/ /\ session_id = srvSession /\ session_id # 0
           /\ handled' = handled + 1 /\ handled + 1 <= srvLast
    BY <2>1, HandledOther
  <2> QED
    BY <2>1, <2>2, StreamDelivers DEF Handle, Take
<1>19. CASE HandleReconnect
  <2>1. Live /\ Handle({"RECONNECT", "INVALID", "INVALID_RESUMABLE"}) /\ session_id' = session_id
    BY <1>19 DEF HandleReconnect, Handle, Take
  <2>2. \/ handled' = handled
        \/ /\ session_id = srvSession /\ session_id # 0
           /\ handled' = handled + 1 /\ handled + 1 <= srvLast
    BY <2>1, HandledOther
  <2> QED
    BY <2>1, <2>2, StreamDelivers DEF Handle, Take
<1>20. CASE HandleHeartbeat
  <2>1. Live /\ Handle({"HEARTBEAT"}) /\ session_id' = session_id
    BY <1>20 DEF HandleHeartbeat, Handle, Take
  <2>2. \/ handled' = handled
        \/ /\ session_id = srvSession /\ session_id # 0
           /\ handled' = handled + 1 /\ handled + 1 <= srvLast
    BY <2>1, HandledOther
  <2> QED
    BY <2>1, <2>2, StreamDelivers DEF Handle, Take
<1>21. CASE RunReturns
  BY <1>21, StreamEnds DEF RunReturns
<1>22. CASE LoginHandler
  BY <1>22, StreamStutters DEF LoginHandler, Go
<1>23. CASE Logout
  BY <1>23, StreamStutters DEF Logout, Go
<1>24. CASE HbCancelled
  BY <1>24, StreamStutters DEF HbCancelled, Go, Release
<1>25. CASE HbStart
  BY <1>25, StreamStutters DEF HbStart, Go, Rearm
<1>26. CASE HbTimeout
  BY <1>26, StreamStutters DEF HbTimeout, ClearReady
<1>27. CASE HbEnd
  BY <1>27, StreamStutters DEF HbEnd, Go
<1>28. CASE ServerEvent
  BY <1>28, StreamPublishes DEF ServerEvent, ServerSends, Fault
<1>29. CASE ServerBadEvent
  BY <1>29, StreamPublishes DEF ServerBadEvent, ServerSends, Fault
<1>30. CASE ServerPart
  BY <1>30, StreamStutters DEF ServerPart, ServerSends, Fault
<1>31. CASE ServerAsks
  BY <1>31, StreamStutters DEF ServerAsks, ServerSends, Fault
<1>32. CASE ServerInvalidates
  BY <1>32, StreamStutters DEF ServerInvalidates, ServerSends, Fault
<1>33. CASE ServerCloses
  BY <1>33, StreamStutters DEF ServerCloses, ServerSends, Fault
<1>34. CASE Drop
  BY <1>34, StreamStutters DEF Drop, Fault
<1>35. CASE Stop
  BY <1>35, StreamStutters DEF Stop, Fault
<1>36. ASSUME NEW u \in Users, Call(u) PROVE [Stream!Next]_(Stream!vars)
  BY <1>36, StreamStutters DEF Call, Go
<1>37. CASE ServerReady
  BY <1>37, StreamPublishes DEF ServerReady, ServerSends
<1>38. CASE ServerAck
  BY <1>38, StreamStutters DEF ServerAck, ServerSends
<1>39. ASSUME NEW t \in Tasks, RcLock(t) PROVE [Stream!Next]_(Stream!vars)
  BY <1>39, StreamStutters DEF RcLock, Go, Acquire, ShutGate
<1>40. ASSUME NEW t \in Tasks, SendLock(t) PROVE [Stream!Next]_(Stream!vars)
  BY <1>40, StreamStutters DEF SendLock, Go, Acquire
<1>41. ASSUME NEW t \in Tasks, RcClose(t) PROVE [Stream!Next]_(Stream!vars)
  BY <1>41, StreamStutters DEF RcClose, HbAlive
<1>42. ASSUME NEW t \in Tasks, Send(t) PROVE [Stream!Next]_(Stream!vars)
  BY <1>42, StreamStutters DEF Send, Go, Release, AfterSend
<1>43. ASSUME NEW t \in Tasks, SendFails(t) PROVE [Stream!Next]_(Stream!vars)
  BY <1>43, StreamStutters, StreamEnds DEF SendFails, Go, Release
<1>44. CASE UNCHANGED vars
  BY <1>44, StreamStutters DEF vars
<1> QED
  BY <1>1, <1>2, <1>3, <1>4, <1>5, <1>6, <1>7, <1>8, <1>9, <1>10, <1>11,
       <1>12, <1>13, <1>14, <1>15, <1>16, <1>17, <1>18, <1>19, <1>20, <1>21,
       <1>22, <1>23, <1>24, <1>25, <1>26, <1>27, <1>28, <1>29, <1>30, <1>31,
       <1>32, <1>33, <1>34, <1>35, <1>36, <1>37, <1>38, <1>39, <1>40, <1>41,
       <1>42, <1>43, <1>44 DEF Next, Main, Heartbeat, Environment, Answers,
       Locked, Unlocks

\* Gateway implements EventStream: whatever happens to the connections, the bot
\* follows one session at a time and sees its events one by one.
THEOREM Implements == Spec => IsEventStream
<1>1. Init => Stream!Init
  BY DEF Init, Stream!Init, Live, Finished, Tasks
<1>2. Inv /\ [Next]_vars => [Stream!Next]_(Stream!vars)
  BY StreamStep DEF Inv
<1> QED
  BY <1>1, <1>2, Invariant, PTL DEF Spec, IsEventStream, Stream!Spec
=============================================================================
