---------------------------- MODULE TxtPathProofs ----------------------------
(***************************************************************************)
(* Chunks in TXT records, and the way of a query, for any queries, chunks, *)
(* bounds and numbers of requests: whole chunks, the right answer to each  *)
(* request, and who is to blame for a timeout.                             *)
(***************************************************************************)
EXTENDS TxtPath, FiniteSetTheorems, TLAPS

-----------------------------------------------------------------------------
(* One record                                                              *)

LEMMA DigitsType == ASSUME NEW n PROVE Digits(n) \in Nat
<1>1. 1 \in Int /\ 9 \in Int
  OBVIOUS
<1>2. IsFiniteSet(1..9)
  BY ONLY <1>1, FS_Interval, Zenon
<1>3. IsFiniteSet({k \in 1..9 : 10^k <= n})
  BY <1>2, FS_Subset
<1> QED
  BY <1>3, FS_CardinalityType DEF Digits

LEMMA LengthsType ==
  ASSUME NEW q \in Query, Exists(q)
  PROVE  /\ Part(q) \in Nat
         /\ Len(Chunks[q.batch]) \in Nat
         /\ BodyLen(q) \in Nat
<1>1. /\ Part(q) \in 1..Len(Chunks[q.batch])
      /\ Chunks[q.batch] \in Seq(Nat)
  BY RecordAssumption DEF Exists
<1>2. Chunks[q.batch][Part(q)] \in Nat /\ Len(Chunks[q.batch]) \in Nat
  BY <1>1
<1>3. HeaderLen(q) \in Nat
  BY DigitsType DEF HeaderLen
<1> QED
  BY <1>1, <1>2, <1>3 DEF BodyLen

LEMMA DrawnType == Drawn \subseteq Nat
  BY RecordAssumption DEF Drawn

(* What the loop does: it ends with the greatest padding that fits, from   *)
(* the drawn one downwards.                                                *)
LEMMA PaddingFits ==
  ASSUME NEW q \in Query, Exists(q), NEW d \in Nat, Fits(q, 0)
  PROVE  /\ Padding(q, d) \in 0..d
         /\ Fits(q, Padding(q, d))
         /\ \A p \in 0..d : Fits(q, p) => p <= Padding(q, d)
<1>1. BodyLen(q) \in Nat /\ q.len \in Nat /\ MaxBytes \in Nat
  BY LengthsType, RecordAssumption DEF Query
<1>2. CASE Fits(q, d)
  BY <1>2 DEF Padding
<1>3. CASE ~Fits(q, d)
  <2>1. BodyLen(q) <= 255
    BY <1>1, <1>3 DEF Fits, ResponseLen, TxtLen
  <2>2. Padding(q, d) = MaxBytes - (q.len + 13 + BodyLen(q))
    BY <1>1, <1>3, <2>1 DEF Padding, ResponseLen, TxtLen
  <2>3. Padding(q, d) \in 0..d
    BY <1>1, <1>3, <2>1, <2>2 DEF Fits, ResponseLen, TxtLen
  <2>4. Fits(q, Padding(q, d))
    BY <1>1, <1>3, <2>1, <2>2, <2>3 DEF Fits, ResponseLen, TxtLen
  <2>5. ASSUME NEW p \in 0..d, Fits(q, p) PROVE p <= Padding(q, d)
    BY <1>1, <1>3, <2>1, <2>2, <2>5 DEF Fits, ResponseLen, TxtLen
  <2> QED
    BY <2>3, <2>4, <2>5
<1> QED
  BY <1>2, <1>3

(* What thefeed sends keeps to --max-dns-response-bytes (the packet budget *)
(* of technical-implementation-blueprint.md:108), whatever is drawn.       *)
THEOREM BudgetKept ==
  ASSUME NEW q \in Query, Exists(q), Fits(q, 0), NEW d \in Drawn
  PROVE  ResponseLen(q, Padding(q, d)) <= MaxBytes
  BY PaddingFits, DrawnType DEF Fits

(* A chunk that fits into a character-string with its header arrives       *)
(* whole, with the numbers it was asked by: only padding is cut off.       *)
THEOREM ChunkWhole ==
  ASSUME NEW q \in Query, BodyLen(q) <= 255, NEW r \in Replies(q)
  PROVE  r.batch = q.batch /\ r.part = Part(q) /\ r.whole
<1>1. PICK d \in Drawn : Exists(q) /\ Fits(q, 0) /\ r = Reply(q, d)
  BY DEF Replies
<1>2. Padding(q, d) \in Nat
  BY <1>1, PaddingFits, DrawnType
<1>3. BodyLen(q) \in Nat
  BY <1>1, LengthsType
<1>4. TxtLen(q, Padding(q, d)) >= BodyLen(q)
  BY <1>2, <1>3 DEF TxtLen
<1> QED
  BY <1>1, <1>4 DEF Reply

-----------------------------------------------------------------------------
(* Types                                                                   *)

LEMMA TypeInit == Init => TypeOK
<1> SUFFICES ASSUME Init PROVE TypeOK
  OBVIOUS
<1>1. queue \in Seq(Datagram) /\ Len(queue) <= Buffer
  BY PathAssumption DEF Init
<1>2. asked \in [Sockets -> Names \cup {None}]
  BY DEF Init
<1>3. left \in [Sockets -> 0..Wait] /\ stalls \in [Sockets -> 0..2]
  BY PathAssumption DEF Init
<1>4. \A s \in Sockets : left[s] = 0
  BY DEF Init
<1>5. gate \in Forward \cup {None} /\ air \subseteq Answer /\ reused \in BOOLEAN
  BY DEF Init
<1> QED
  BY <1>1, <1>2, <1>3, <1>4, <1>5 DEF TypeOK

LEMMA CloseType ==
  ASSUME TypeOK, NEW s \in Sockets, Close(s)
  PROVE  /\ asked' \in [Sockets -> Names \cup {None}]
         /\ left' \in [Sockets -> 0..Wait]
         /\ stalls' \in [Sockets -> 0..2]
         /\ \A o \in Sockets \ Open' : left'[o] = 0
  BY PathAssumption DEF TypeOK, Close, Open

(* The queries a connection is made for, and what is sent to its port.     *)
LEMMA DialFacts ==
  ASSUME TypeOK, Dial
  PROVE  \E p \in Ports :
           /\ gate \in Forward /\ gate # None
           /\ gate' = [socket |-> gate.socket, name |-> gate.name, port |-> p,
                       left |-> Patience]
           /\ \E sent \in Sent(gate, p) : air' = air \cup sent
           /\ reused' = (reused \/ \E m \in air : m.port = p)
<1>1. gate \in Forward /\ gate # None
  BY DEF Dial, Dialing, TypeOK
<1>2. PICK p \in Ports :
          /\ gate' = [gate EXCEPT !.port = p, !.left = Patience]
          /\ \E sent \in Sent(gate, p) : air' = air \cup sent
          /\ reused' = (reused \/ \E m \in air : m.port = p)
  BY DEF Dial
<1>3. gate' = [socket |-> gate.socket, name |-> gate.name, port |-> p, left |-> Patience]
  BY <1>1, <1>2 DEF Forward
<1> QED
  BY <1>1, <1>2, <1>3

LEMMA DialType ==
  ASSUME TypeOK, Dial
  PROVE  gate' \in Forward /\ air' \subseteq Answer /\ reused' \in BOOLEAN
<1>1. PICK p \in Ports :
          /\ gate \in Forward
          /\ gate' = [socket |-> gate.socket, name |-> gate.name, port |-> p,
                      left |-> Patience]
          /\ \E sent \in Sent(gate, p) : air' = air \cup sent
          /\ reused' = (reused \/ \E m \in air : m.port = p)
  BY DialFacts
<1>2. gate' \in Forward
  BY <1>1, PathAssumption DEF Forward
<1>3. ASSUME NEW sent \in Sent(gate, p) PROVE sent \subseteq Answer
  BY <1>1, <1>3 DEF Sent, Answer, Forward
<1>4. reused' \in BOOLEAN
  BY <1>1 DEF TypeOK
<1> QED
  BY <1>1, <1>2, <1>3, <1>4 DEF TypeOK

LEMMA TypeStep == TypeOK /\ [Next]_vars => TypeOK'
<1> SUFFICES ASSUME TypeOK, [Next]_vars PROVE TypeOK'
  OBVIOUS
<1> USE PathAssumption
<1>1. ASSUME NEW s \in Sockets, Timeout(s)
      PROVE  TypeOK'
  BY <1>1, CloseType DEF Timeout, TypeOK
<1>2. ASSUME NEW s \in Sockets, NEW n \in Names, Get(s, n)
      PROVE  TypeOK'
  <2>1. /\ asked' \in [Sockets -> Names \cup {None}]
        /\ left' \in [Sockets -> 0..Wait]
        /\ stalls' \in [Sockets -> 0..2]
        /\ \A o \in Sockets \ Open' : left'[o] = 0
    BY <1>2 DEF Get, TypeOK, Open
  <2>2. queue' \in Seq(Datagram) /\ Len(queue') <= Buffer
    <3>1. [socket |-> s, name |-> n] \in Datagram
      BY DEF Datagram
    <3> QED
      BY <1>2, <3>1 DEF Get, TypeOK
  <2>3. reused' \in BOOLEAN
    BY <1>2 DEF Get, TypeOK
  <2> QED
    BY <1>2, <2>1, <2>2, <2>3 DEF Get, TypeOK
<1>3. ASSUME Take
      PROVE  TypeOK'
  <2>1. Head(queue) \in Datagram /\ Tail(queue) \in Seq(Datagram) /\ Len(Tail(queue)) <= Buffer
    BY <1>3 DEF Take, TypeOK
  <2>2. gate' \in Forward \cup {None}
    BY <1>3, <2>1 DEF Take, Datagram, Forward
  <2> QED
    BY <1>3, <2>1, <2>2 DEF Take, TypeOK, Open, history
<1>4. ASSUME NEW m \in air, Relay(m)
      PROVE  TypeOK'
  <2>1. gate.socket \in Sockets
    BY <1>4 DEF Relay, Reaches, TypeOK, Forward
  <2>2. CASE gate.socket \in Open
    BY <1>4, <2>1, <2>2, CloseType DEF Relay, TypeOK
  <2>3. CASE gate.socket \notin Open
    BY <1>4, <2>3 DEF Relay, TypeOK, Open
  <2> QED
    BY <2>2, <2>3
<1>5. ASSUME NEW m \in air, Lose(m)
      PROVE  TypeOK'
  BY <1>5 DEF Lose, TypeOK, Open, history
<1>6. ASSUME GiveUp \/ Refused
      PROVE  TypeOK'
  BY <1>6 DEF GiveUp, Refused, TypeOK, Open, history
<1>7. ASSUME Tick
      PROVE  TypeOK'
  <2>1. gate' \in Forward \cup {None}
    <3>1. CASE gate = None
      BY <1>7, <3>1 DEF Tick
    <3>2. CASE gate # None
      <4>1. gate \in Forward /\ gate.left - 1 \in 0..Patience
        BY <1>7, <3>2 DEF Tick, TypeOK, Forward
      <4>2. gate' = [gate EXCEPT !.left = gate.left - 1]
        BY <1>7, <3>2 DEF Tick
      <4> QED
        BY <4>1, <4>2 DEF Forward
    <3> QED
      BY <3>1, <3>2
  <2>2. left' \in [Sockets -> 0..Wait] /\ \A o \in Sockets \ Open' : left'[o] = 0
    BY <1>7 DEF Tick, TypeOK, Open
  <2>3. stalls' \in [Sockets -> 0..2]
    BY <1>7 DEF Tick, TypeOK
  <2> QED
    BY <1>7, <2>1, <2>2, <2>3 DEF Tick, TypeOK
<1>8. ASSUME Dial
      PROVE  TypeOK'
  BY <1>8, DialType DEF Dial, TypeOK, Open
<1>9. CASE UNCHANGED vars
  BY <1>9 DEF vars, history, TypeOK, Open
<1> QED
  BY <1>1, <1>2, <1>3, <1>4, <1>5, <1>6, <1>7, <1>8, <1>9 DEF Next

(* Whatever is late or lost, the variables keep their types: in particular *)
(* slipgate's socket never holds more than it has room for, and a closed   *)
(* socket has no timer left.                                               *)
THEOREM TypeCorrect == Spec => []TypeOK
  BY TypeInit, TypeStep, PTL DEF Spec

-----------------------------------------------------------------------------
(* Whose answer it is                                                      *)

(* Chunks and headers are short enough for a record.                       *)
Short == \A n \in Names : Exists(n) => BodyLen(n) <= 255

(* Before a port is used again too soon, its answers belong to the query   *)
(* that slipgate forwards, and a query to the request of its socket.       *)
Owned ==
    ~reused =>
        /\ \A m \in air : Reaches(m) => m.reply \in Replies(gate.name)
        /\ gate # None /\ gate.socket \in Open => asked[gate.socket] = gate.name
        /\ \A i \in DOMAIN queue :
              queue[i].socket \in Open => asked[queue[i].socket] = queue[i].name

(* A query that is taken out of the queue has no port yet.                 *)
LEMMA OwnedTake ==
  ASSUME TypeOK, Owned, Take
  PROVE  Owned'
<1> SUFFICES ASSUME ~reused' PROVE Owned'
  BY DEF Owned
<1> DEFINE q == Head(queue)
<1>1. /\ q \in Datagram /\ q = queue[1] /\ 1 \in DOMAIN queue
      /\ \A i \in DOMAIN Tail(queue) : i + 1 \in DOMAIN queue /\ Tail(queue)[i] = queue[i+1]
  BY DEF Take, TypeOK
<1>2. queue' = Tail(queue) /\ UNCHANGED <<asked, air, reused>> /\ Open' = Open
  BY DEF Take, Open, history
<1>3. \/ gate' = None
      \/ gate' = [socket |-> q.socket, name |-> q.name, port |-> None, left |-> Patience]
  BY DEF Take
<1>4. \A m \in air' : ~Reaches(m)'
  <2>1. \A m \in air : m.port # None
    BY PathAssumption DEF TypeOK, Answer
  <2>2. gate' # None => gate'.port = None
    BY <1>3
  <2> QED
    BY <1>2, <2>1, <2>2 DEF Reaches
<1>5. gate' # None /\ gate'.socket \in Open => asked[gate'.socket] = gate'.name
  BY <1>1, <1>2, <1>3 DEF Owned
<1>6. \A i \in DOMAIN queue' :
          queue'[i].socket \in Open => asked[queue'[i].socket] = queue'[i].name
  BY <1>1, <1>2 DEF Owned
<1> QED
  BY <1>2, <1>4, <1>5, <1>6 DEF Owned

(* Its port is new, so that what reaches it was sent for it.               *)
LEMMA OwnedDial ==
  ASSUME TypeOK, Owned, Dial
  PROVE  Owned'
<1> SUFFICES ASSUME ~reused' PROVE Owned'
  BY DEF Owned
<1>1. PICK p \in Ports :
          /\ gate \in Forward /\ gate # None
          /\ gate' = [socket |-> gate.socket, name |-> gate.name, port |-> p,
                      left |-> Patience]
          /\ \E sent \in Sent(gate, p) : air' = air \cup sent
          /\ reused' = (reused \/ \E m \in air : m.port = p)
  BY DialFacts
<1>2. ~reused /\ \A m \in air : m.port # p
  BY <1>1
<1>3. UNCHANGED <<asked, queue>> /\ Open' = Open
  BY DEF Dial, Open
<1>4. ASSUME NEW m \in air', Reaches(m)' PROVE m.reply \in Replies(gate'.name)
  <2>1. m.port = p /\ m \notin air
    BY <1>1, <1>2, <1>4 DEF Reaches
  <2>2. PICK sent \in Sent(gate, p) : air' = air \cup sent
    BY <1>1
  <2>3. m \in sent
    BY <1>4, <2>1, <2>2
  <2>4. m.reply \in Replying[gate.name]
    BY <2>2, <2>3 DEF Sent
  <2> QED
    BY <1>1, <2>4 DEF Replying, Forward
<1>5. gate'.socket \in Open => asked[gate'.socket] = gate'.name
  BY <1>1, <1>2 DEF Owned
<1> QED
  BY <1>2, <1>3, <1>4, <1>5 DEF Owned

LEMMA OwnedStep == TypeOK /\ Owned /\ [Next]_vars => Owned'
<1> SUFFICES ASSUME TypeOK, Owned, [Next]_vars PROVE Owned'
  OBVIOUS
<1>1. ASSUME NEW s \in Sockets, Timeout(s)
      PROVE  Owned'
  <2>1. asked' = [asked EXCEPT ![s] = None] /\ UNCHANGED <<queue, gate, air, reused>>
    BY <1>1 DEF Timeout, Close
  <2>2. \A o \in Open' : o \in Open /\ asked'[o] = asked[o]
    BY <2>1 DEF Open, TypeOK
  <2> QED
    BY <2>1, <2>2 DEF Owned, Reaches
<1>2. ASSUME NEW s \in Sockets, NEW n \in Names, Get(s, n)
      PROVE  Owned'
  <2> SUFFICES ASSUME ~reused' PROVE Owned'
    BY DEF Owned
  <2>1. ~reused /\ ~(gate # None /\ gate.socket = s) /\ ~Queued(s)
    BY <1>2 DEF Get
  <2>2. asked' = [asked EXCEPT ![s] = n] /\ UNCHANGED <<gate, air>>
    BY <1>2 DEF Get
  <2>3. asked'[s] = n /\ \A o \in Sockets : o # s => asked'[o] = asked[o] /\ (o \in Open' <=> o \in Open)
    BY <2>2 DEF TypeOK, Open
  <2>4. gate # None => gate.socket \in Sockets
    BY DEF TypeOK, Forward
  <2>5. ASSUME NEW i \in DOMAIN queue', queue'[i].socket \in Open'
        PROVE  asked'[queue'[i].socket] = queue'[i].name
    <3>1. ASSUME i \in DOMAIN queue, queue'[i] = queue[i]
          PROVE  asked'[queue'[i].socket] = queue'[i].name
      <4>1. queue[i].socket \in Sockets /\ queue[i].socket # s
        <5>1. queue[i] \in Datagram
          BY <3>1 DEF TypeOK
        <5>2. queue[i].socket # s
          BY <2>1, <3>1 DEF Queued
        <5> QED
          BY <5>1, <5>2 DEF Datagram
      <4> QED
        BY <2>1, <2>3, <2>5, <3>1, <4>1 DEF Owned
    <3>2. ASSUME queue'[i] = [socket |-> s, name |-> n]
          PROVE  asked'[queue'[i].socket] = queue'[i].name
      BY <2>3, <3>2
    <3>3. \/ i \in DOMAIN queue /\ queue'[i] = queue[i]
          \/ queue'[i] = [socket |-> s, name |-> n]
      BY <1>2 DEF Get, TypeOK
    <3> QED
      BY <3>1, <3>2, <3>3
  <2>6. gate' # None /\ gate'.socket \in Open' => asked'[gate'.socket] = gate'.name
    BY <2>1, <2>2, <2>3, <2>4 DEF Owned
  <2>7. \A m \in air' : Reaches(m)' => m.reply \in Replies(gate'.name)
    BY <2>1, <2>2 DEF Owned, Reaches
  <2> QED
    BY <2>5, <2>6, <2>7 DEF Owned
<1>3. ASSUME Take
      PROVE  Owned'
  BY <1>3, OwnedTake
<1>4. ASSUME NEW m \in air, Relay(m)
      PROVE  Owned'
  <2>1. gate' = None /\ air' \subseteq air /\ UNCHANGED <<queue, reused>>
    BY <1>4 DEF Relay
  <2>2. gate.socket \in Sockets
    BY <1>4 DEF Relay, Reaches, TypeOK, Forward
  <2>3. \A o \in Open' : o \in Open /\ asked'[o] = asked[o]
    BY <1>4, <2>2 DEF Relay, Close, Open, TypeOK
  <2> QED
    BY <2>1, <2>3 DEF Owned, Reaches
<1>5. ASSUME (\E m \in air : Lose(m)) \/ GiveUp \/ Refused
      PROVE  Owned'
  <2>1. /\ air' \subseteq air /\ (gate' = gate \/ gate' = None)
        /\ UNCHANGED <<asked, queue, reused>>
    BY <1>5 DEF Lose, GiveUp, Refused, history
  <2>2. Open' = Open
    BY <2>1 DEF Open
  <2> QED
    BY <2>1, <2>2 DEF Owned, Reaches
<1>6. ASSUME Tick
      PROVE  Owned'
  <2>1. UNCHANGED <<asked, queue, air, reused>>
    BY <1>6 DEF Tick
  <2>2. Open' = Open
    BY <2>1 DEF Open
  <2>3. \/ gate = None /\ gate' = None
        \/ /\ gate # None
           /\ gate'.socket = gate.socket /\ gate'.name = gate.name /\ gate'.port = gate.port
    <3>1. CASE gate = None
      BY <1>6, <3>1 DEF Tick
    <3>2. CASE gate # None
      <4>1. gate \in Forward /\ gate' = [gate EXCEPT !.left = gate.left - 1]
        BY <1>6, <3>2 DEF Tick, TypeOK
      <4>2. gate'.socket = gate.socket /\ gate'.name = gate.name /\ gate'.port = gate.port
        BY <4>1 DEF Forward
      <4> QED
        BY <3>2, <4>1, <4>2
    <3> QED
      BY <3>1, <3>2
  <2> QED
    BY <2>1, <2>2, <2>3 DEF Owned, Reaches
<1>7. CASE UNCHANGED vars
  BY <1>7 DEF vars, history, Owned, Reaches, Open
<1> QED
  BY <1>1, <1>2, <1>3, <1>4, <1>5, <1>6, <1>7, OwnedDial DEF Next

(* Nobody compares the IDs of queries and answers.  Yet every text the     *)
(* page is given is the whole chunk it asked for, however answers are      *)
(* delayed, lost and overtaken, as long as no port is used again while     *)
(* datagrams of its last user are under way.                               *)
THEOREM AnswersMatchHolds ==
  ASSUME Short
  PROVE  Spec => []AnswersMatch
<1>1. Init => Owned
  BY DEF Init, Owned, Open
<1>2. ASSUME TypeOK, Owned PROVE AnswersMatch
  <2> SUFFICES ASSUME NEW m \in air, Reaches(m), gate.socket \in Open, ~reused
               PROVE  /\ m.reply.batch = asked[gate.socket].batch
                      /\ m.reply.part = Part(asked[gate.socket])
                      /\ m.reply.whole
    BY DEF AnswersMatch
  <2>1. m.reply \in Replies(gate.name) /\ asked[gate.socket] = gate.name
    BY <1>2 DEF Owned, Reaches
  <2>2. gate.name \in Names /\ gate.name \in Query
    BY <1>2, PathAssumption DEF Reaches, TypeOK, Forward
  <2>3. Exists(gate.name)
    BY <2>1 DEF Replies
  <2>4. BodyLen(gate.name) <= 255
    BY <2>2, <2>3 DEF Short
  <2> QED
    BY <2>1, <2>2, <2>4, ChunkWhole
<1> QED
  BY <1>1, <1>2, OwnedStep, TypeCorrect, PTL DEF Spec

-----------------------------------------------------------------------------
(* Who is to blame for a timeout                                           *)

(* How long a request can have waited, if it has seen one of slipgate's    *)
(* waits: as long as the present one has taken; or Patience, if that is    *)
(* just beginning, for the one before it.                                  *)
Spent == IF gate = None \/ gate.left = Patience THEN Patience
                                               ELSE Patience - gate.left

(* A request in the queue has waited as long as slipgate in the waits that *)
(* are counted in stalls, and for nothing else: while the queue is not     *)
(* empty, slipgate is in one of them whenever a second passes.             *)
BehindInv ==
    \A s \in Open : Queued(s) =>
        /\ stalls[s] = 0 => left[s] = Wait /\ (gate # None => gate.left = Patience)
        /\ stalls[s] = 1 => Wait <= left[s] + Spent

LEMMA GateLeft == TypeOK /\ gate # None => gate.left \in 0..Patience
  BY DEF TypeOK, Forward

LEMMA SpentType == TypeOK => Spent \in 0..Patience
<1> SUFFICES ASSUME TypeOK PROVE Spent \in 0..Patience
  OBVIOUS
<1>1. Patience \in Nat
  BY PathAssumption
<1>2. CASE gate = None \/ gate.left = Patience
  BY <1>1, <1>2 DEF Spent
<1>3. CASE ~(gate = None \/ gate.left = Patience)
  BY <1>1, <1>3, GateLeft DEF Spent
<1> QED
  BY <1>2, <1>3

(* Time stands still, no request joins, and slipgate goes on waiting,      *)
(* ends with its query, or begins a wait, for the next one or for the same *)
(* one's answer.                                                           *)
LEMMA BehindKept ==
  ASSUME TypeOK, BehindInv,
         \A o \in Open' : /\ o \in Open
                          /\ left'[o] = left[o] /\ stalls'[o] = stalls[o]
                          /\ Queued(o)' => Queued(o),
         \/ gate' = gate
         \/ gate' = None
         \/ gate'.left = Patience
  PROVE  BehindInv'
<1>1. Spent \in 0..Patience /\ Patience \in Nat
  BY SpentType, PathAssumption
<1>2. PICK n \in Nat : Spent' = n /\ Spent <= n
  <2>1. CASE gate' = gate
    BY <1>1, <2>1 DEF Spent
  <2>2. CASE gate' = None \/ gate'.left = Patience
    <3>1. Spent' = Patience
      BY <2>2 DEF Spent
    <3> QED
      BY <1>1, <3>1
  <2> QED
    BY <2>1, <2>2
<1> SUFFICES ASSUME NEW o \in Open', Queued(o)'
             PROVE  /\ stalls'[o] = 0 =>
                          /\ left'[o] = Wait
                          /\ gate' # None => gate'.left = Patience
                    /\ stalls'[o] = 1 => Wait <= left'[o] + Spent'
  BY DEF BehindInv
<1>3. /\ left'[o] = left[o] /\ stalls'[o] = stalls[o] /\ left[o] \in Nat
      /\ stalls[o] = 0 => left[o] = Wait /\ (gate # None => gate.left = Patience)
      /\ stalls[o] = 1 => Wait <= left[o] + Spent
  BY PathAssumption DEF BehindInv, TypeOK, Open
<1>4. stalls[o] = 1 => Wait <= left[o] + n
  BY <1>1, <1>2, <1>3, PathAssumption
<1> QED
  BY <1>2, <1>3, <1>4

(* A second passes: for the query that slipgate has just turned to, which  *)
(* counts from now on, or for one that the request has seen wait.          *)
LEMMA BehindTick ==
  ASSUME TypeOK, BehindInv, Tick
  PROVE  BehindInv'
<1>1. UNCHANGED <<asked, queue>> /\ Open' = Open
  BY DEF Tick, Open
<1> SUFFICES ASSUME NEW s \in Open, Queued(s)
             PROVE  /\ stalls'[s] = 0 =>
                          /\ left'[s] = Wait
                          /\ gate' # None => gate'.left = Patience
                    /\ stalls'[s] = 1 => Wait <= left'[s] + Spent'
  BY <1>1 DEF BehindInv, Queued
<1>2. queue # <<>>
  BY DEF Queued
<1>3. gate # None /\ gate \in Forward
  BY <1>2 DEF Tick, TypeOK
<1>4. PICK g \in 1..Patience : g = gate.left
  BY <1>3, PathAssumption DEF Tick, Forward
<1>5. PICK l \in 1..Wait : l = left[s]
  BY PathAssumption DEF Tick, TypeOK, Open
<1>6. left'[s] = l - 1
  BY <1>5 DEF Tick, Open
<1>7. gate'.left = g - 1
  <2>1. gate' = [gate EXCEPT !.left = gate.left - 1]
    BY <1>3 DEF Tick
  <2> QED
    BY <1>3, <1>4, <2>1 DEF Forward
<1>8. PICK k \in 0..2 : k = stalls[s]
  BY DEF TypeOK, Open
<1>9. stalls'[s] = IF g = Patience /\ k < 2 THEN k + 1 ELSE k
  BY <1>3, <1>4, <1>8 DEF Tick, TypeOK, Open
<1>10. Spent' \in {Patience, Patience - (g - 1)}
  BY <1>7 DEF Spent
<1>11. /\ k = 0 => l = Wait /\ g = Patience
       /\ k = 1 => Wait <= l + (IF g = Patience THEN Patience ELSE Patience - g)
  BY <1>3, <1>4, <1>5, <1>8 DEF BehindInv, Spent
<1>12. /\ Wait \in Nat /\ Patience \in Nat
       /\ l \in 1..Wait /\ g \in 1..Patience /\ k \in 0..2
  BY PathAssumption
<1>13. stalls'[s] # 0
  BY <1>9, <1>11, <1>12
<1>14. ASSUME stalls'[s] = 1
       PROVE  /\ Wait <= (l - 1) + (Patience - (g - 1))
              /\ Wait <= (l - 1) + Patience
  <2>1. CASE k = 0
    BY <1>11, <1>12, <2>1
  <2>2. CASE k = 1 /\ g # Patience
    BY <1>11, <1>12, <2>2
  <2> QED
    BY <1>9, <1>12, <1>14, <2>1, <2>2
<1> QED
  BY <1>6, <1>10, <1>13, <1>14

(* A new request has its whole time left, and has seen the query before it *)
(* wait if that has been waited for already.                               *)
LEMMA BehindGet ==
  ASSUME TypeOK, BehindInv, NEW s \in Sockets, NEW n \in Names, Get(s, n)
  PROVE  BehindInv'
<1>1. UNCHANGED gate /\ Spent' = Spent
  BY DEF Get, Spent
<1>2. /\ left'[s] = Wait
      /\ stalls'[s] = IF gate # None /\ gate.left < Patience THEN 1 ELSE 0
      /\ \A o \in Sockets : o # s => left'[o] = left[o] /\ stalls'[o] = stalls[o]
  BY DEF Get, TypeOK
<1>3. \A o \in Open' : o # s => o \in Open
  BY DEF Get, Open, TypeOK
<1>4. ASSUME NEW o \in Sockets, o # s, Queued(o)'
      PROVE  Queued(o)
  <2>1. CASE queue' = queue
    BY <1>4, <2>1 DEF Queued
  <2>2. CASE queue' = Append(queue, [socket |-> s, name |-> n])
    <3>1. PICK i \in DOMAIN queue' : queue'[i].socket = o
      BY <1>4 DEF Queued
    <3>2. i \in DOMAIN queue /\ queue'[i] = queue[i]
      <4>1. \/ i \in DOMAIN queue /\ queue'[i] = queue[i]
            \/ queue'[i] = [socket |-> s, name |-> n]
        BY <2>2 DEF TypeOK
      <4> QED
        BY <1>4, <3>1, <4>1
    <3> QED
      BY <3>1, <3>2 DEF Queued
  <2> QED
    BY <2>1, <2>2 DEF Get
<1>5. /\ stalls'[s] = 0 => (gate # None => gate.left = Patience)
      /\ Wait <= Wait + Spent
  <2>1. gate # None => gate.left \in 0..Patience
    BY GateLeft
  <2> QED
    BY <1>2, <2>1, SpentType, PathAssumption
<1> QED
  BY <1>1, <1>2, <1>3, <1>4, <1>5 DEF BehindInv, Open

LEMMA BehindStep == TypeOK /\ BehindInv /\ [Next]_vars => BehindInv'
<1> SUFFICES ASSUME TypeOK, BehindInv, [Next]_vars PROVE BehindInv'
  OBVIOUS
<1>1. ASSUME NEW s \in Sockets, Timeout(s)
      PROVE  BehindInv'
  <2>1. /\ asked' = [asked EXCEPT ![s] = None] /\ left' = [left EXCEPT ![s] = 0]
        /\ stalls' = [stalls EXCEPT ![s] = 0]
        /\ UNCHANGED <<queue, gate>>
    BY <1>1 DEF Timeout, Close
  <2>2. \A o \in Open' : /\ o \in Open
                         /\ left'[o] = left[o] /\ stalls'[o] = stalls[o]
    BY <2>1 DEF Open, TypeOK
  <2> QED
    BY <2>1, <2>2, BehindKept DEF Queued
<1>2. ASSUME Take
      PROVE  BehindInv'
  <2>1. UNCHANGED <<asked, left, stalls>> /\ Open' = Open
    BY <1>2 DEF Take, Open, history
  <2>2. ASSUME NEW o, Queued(o)'
        PROVE  Queued(o)
    <3>1. queue' = Tail(queue) /\ queue # <<>> /\ queue \in Seq(Datagram)
      BY <1>2 DEF Take, TypeOK
    <3>2. PICK i \in DOMAIN Tail(queue) : Tail(queue)[i].socket = o
      BY <2>2, <3>1 DEF Queued
    <3>3. i + 1 \in DOMAIN queue /\ Tail(queue)[i] = queue[i + 1]
      BY <3>1
    <3> QED
      BY <3>2, <3>3 DEF Queued
  <2>3. gate' = None \/ gate'.left = Patience
    BY <1>2 DEF Take
  <2> QED
    BY <2>1, <2>2, <2>3, BehindKept
<1>3. ASSUME NEW m \in air, Relay(m)
      PROVE  BehindInv'
  <2>1. gate' = None /\ UNCHANGED queue
    BY <1>3 DEF Relay
  <2>2. gate.socket \in Sockets
    BY <1>3 DEF Relay, Reaches, TypeOK, Forward
  <2>3. \A o \in Open' : /\ o \in Open
                         /\ left'[o] = left[o] /\ stalls'[o] = stalls[o]
    BY <1>3, <2>2 DEF Relay, Close, Open, TypeOK
  <2> QED
    BY <2>1, <2>3, BehindKept DEF Queued
<1>4. ASSUME (\E m \in air : Lose(m)) \/ GiveUp \/ Refused \/ UNCHANGED vars
      PROVE  BehindInv'
  <2>1. /\ gate' = gate \/ gate' = None
        /\ UNCHANGED <<asked, left, queue, stalls>>
    BY <1>4 DEF Lose, GiveUp, Refused, vars, history
  <2> QED
    BY <2>1, BehindKept DEF Open, Queued
<1>5. ASSUME Dial
      PROVE  BehindInv'
  <2>1. gate'.left = Patience
    BY <1>5, DialFacts
  <2>2. UNCHANGED <<asked, left, queue, stalls>>
    BY <1>5 DEF Dial
  <2> QED
    BY <2>1, <2>2, BehindKept DEF Open, Queued
<1> QED
  BY <1>1, <1>2, <1>3, <1>4, <1>5, BehindGet, BehindTick DEF Next

(* As long as the bridge is more patient than slipgate (3 s to 2 s),       *)
(* neither a single slow lookup of thefeed's address nor a single answer   *)
(* that does not come makes another request run out of time in slipgate's  *)
(* queue: whoever does has seen two of these waits, of one query or of     *)
(* two, for any number of sockets, ports and queries, and any length of    *)
(* the queue.                                                              *)
THEOREM TimeoutCauseHolds ==
  ASSUME Wait > Patience
  PROVE  Spec => []TimeoutHasCause
<1>1. Init => BehindInv
  BY DEF Init, BehindInv, Open
<1>2. ASSUME TypeOK, BehindInv PROVE TimeoutHasCause
  <2> SUFFICES ASSUME NEW s \in Sockets, OutOfTime(s), Queued(s),
                      stalls[s] \in {0, 1}
               PROVE  FALSE
    BY <1>2 DEF TimeoutHasCause, TypeOK
  <2>1. /\ stalls[s] = 0 => Wait = 0
        /\ stalls[s] = 1 => Wait <= 0 + Spent
    BY <1>2 DEF BehindInv, OutOfTime
  <2>2. Spent \in 0..Patience
    BY <1>2, SpentType
  <2> QED
    BY <2>1, <2>2, PathAssumption
<1> QED
  BY <1>1, <1>2, BehindStep, TypeCorrect, PTL DEF Spec
=============================================================================
