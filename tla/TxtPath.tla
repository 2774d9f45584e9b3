------------------------------ MODULE TxtPath -------------------------------
(***************************************************************************)
(* The way of a TXT query in a local deployment: from the bridge           *)
(* (web/src/app/api/local-dns/route.ts), which opens a socket for each     *)
(* request and waits 3 s, through slipgate (server/cmd/slipgate/main.go),  *)
(* which forwards one query at a time and waits for its answer, to         *)
(* thefeed, which answers the queries it likes and drops all others.       *)
(* slipgate waits twice for each query, 2 s at most each time: until it    *)
(* has looked up the address of thefeed, and for the answer.               *)
(*                                                                         *)
(* Nobody compares the IDs of queries and answers: an answer belongs to    *)
(* the socket it reaches.  A socket is its port here, so that the next     *)
(* user of a port may be taken for the one before.                         *)
(*                                                                         *)
(* Time passes in ticks of a second.  Between two ticks slipgate takes all *)
(* the queries it can, but answers may be on their way for any time.       *)
(***************************************************************************)
EXTENDS TxtRecord

CONSTANTS Sockets,  \* ports of the bridge
          Ports,    \* ports of slipgate's connections to thefeed
          Names,    \* the queries the page sends
          Wait,     \* the bridge's 3 s
          Patience, \* slipgate's 2 s, for the address and for the answer
          Buffer,   \* queries slipgate's socket holds
          None

ASSUME PathAssumption ==
    /\ Names \subseteq Query
    /\ Wait \in Nat \ {0} /\ Patience \in Nat \ {0} /\ Buffer \in Nat
    /\ None \notin Sockets \cup Ports \cup Names

VARIABLES asked,   \* the query of the request that has a socket open
          left,    \* the seconds left to it
          queue,   \* datagrams in slipgate's socket
          gate,    \* the query slipgate forwards at the moment; it has no
                   \* port while thefeed's address is looked up
          air,     \* answers of thefeed under way
          stalls,  \* history: how many of slipgate's waits took longer than
                   \* an instant meanwhile, up to 2
          reused   \* history: whether a port was used while another's
                   \* datagrams were still under way

history == <<stalls, reused>>
vars    == <<asked, left, queue, gate, air, history>>

(* What thefeed may answer to each query; nothing to some.                 *)
Replying == [n \in Names |-> Replies(n)]

Datagram == [socket : Sockets, name : Names]
Forward  == [socket : Sockets, name : Names, port : Ports \cup {None},
             left : 0..Patience]
Answer   == [port : Ports, reply : UNION {Replying[n] : n \in Names}]

(* The sockets of requests that are under way.                             *)
Open == {s \in Sockets : asked[s] # None}

TypeOK ==
    /\ asked \in [Sockets -> Names \cup {None}]
    /\ left \in [Sockets -> 0..Wait]
    /\ queue \in Seq(Datagram) /\ Len(queue) <= Buffer
    /\ gate \in Forward \cup {None}
    /\ air \subseteq Answer
    /\ stalls \in [Sockets -> 0..2]
    /\ reused \in BOOLEAN
    /\ \A s \in Sockets \ Open : left[s] = 0

Init ==
    /\ asked = [s \in Sockets |-> None]
    /\ left = [s \in Sockets |-> 0]
    /\ queue = <<>>
    /\ gate = None
    /\ air = {}
    /\ stalls = [s \in Sockets |-> 0]
    /\ reused = FALSE

-----------------------------------------------------------------------------
(* The bridge                                                              *)

Queued(s) == \E i \in DOMAIN queue : queue[i].socket = s

(* GET: buildTXTQuery and udpQuery, up to the datagram in slipgate's       *)
(* socket, unless that is full.                                            *)
Get(s, n) ==
    /\ s \notin Open
    /\ asked' = [asked EXCEPT ![s] = n]
    /\ left' = [left EXCEPT ![s] = Wait]
    /\ queue' = IF Len(queue) < Buffer THEN Append(queue, [socket |-> s, name |-> n])
                                       ELSE queue
    /\ stalls' = [stalls EXCEPT ![s] = IF gate # None /\ gate.left < Patience THEN 1 ELSE 0]
    /\ reused' = (\/ reused
                  \/ gate # None /\ gate.socket = s
                  \/ Queued(s))
    /\ UNCHANGED <<gate, air>>

(* Mutant: the timer is not cleared.                                       *)
CloseUncleared(s) ==
    /\ asked' = [asked EXCEPT ![s] = None]
    /\ UNCHANGED <<left, stalls>>

(* The request is over: clearTimeout, sock.close, and the reply of the     *)
(* route: 200 with a text, 502 without.                                    *)
Close(s) ==
    /\ asked' = [asked EXCEPT ![s] = None]
    /\ left' = [left EXCEPT ![s] = 0]
    /\ stalls' = [stalls EXCEPT ![s] = 0]

(* Mutant: the timer starts again instead of ending the request.           *)
TimeoutAgain(s) ==
    /\ s \in Open /\ left[s] = 0
    /\ left' = [left EXCEPT ![s] = Wait]
    /\ UNCHANGED <<asked, queue, gate, air, history>>

Timeout(s) ==
    /\ s \in Open /\ left[s] = 0
    /\ Close(s)
    /\ UNCHANGED <<queue, gate, air, reused>>

-----------------------------------------------------------------------------
(* slipgate and thefeed                                                    *)

(* What thefeed sends to a port.                                           *)
Sent(q, p) ==
    IF Replying[q.name] = {} THEN {{}}
                             ELSE {{[port |-> p, reply |-> r]} : r \in Replying[q.name]}

(* The loop of main, up to forwardUDP's lookup of thefeed's address; a     *)
(* name outside the domain is dropped at once.                             *)
Take ==
    /\ gate = None /\ queue # <<>>
    /\ queue' = Tail(queue)
    /\ LET q == Head(queue) IN
       gate' = IF q.name.zone
                 THEN [socket |-> q.socket, name |-> q.name, port |-> None, left |-> Patience]
                 ELSE None
    /\ UNCHANGED <<asked, left, air, history>>

(* DialTimeout has not returned yet.                                       *)
Dialing == gate # None /\ gate.port = None

(* Mutant: one connection to thefeed serves all queries.                   *)
DialOnce ==
    LET p == CHOOSE p \in Ports : TRUE IN
    /\ Dialing
    /\ gate' = [gate EXCEPT !.port = p, !.left = Patience]
    /\ \E sent \in Sent(gate, p) : air' = air \cup sent
    /\ UNCHANGED <<asked, left, queue, history>>

(* Mutant: slipgate waits for an answer as long as the bridge.             *)
DialLong ==
    /\ Dialing
    /\ \E p \in Ports :
          /\ gate' = [gate EXCEPT !.port = p, !.left = Wait]
          /\ \E sent \in Sent(gate, p) : air' = air \cup sent
    /\ UNCHANGED <<asked, left, queue, history>>

(* forwardUDP has the address, and makes a connection of its own for each  *)
(* query, with a deadline that counts from now.                            *)
Dial ==
    /\ Dialing
    /\ \E p \in Ports :
          /\ gate' = [gate EXCEPT !.port = p, !.left = Patience]
          /\ \E sent \in Sent(gate, p) : air' = air \cup sent
          /\ reused' = (reused \/ \E m \in air : m.port = p)
    /\ UNCHANGED <<asked, left, queue, stalls>>

(* Whether an answer reaches slipgate's open connection.                   *)
Reaches(m) == gate # None /\ gate.port = m.port

Relay(m) ==
    /\ m \in air /\ Reaches(m)
    /\ air' = air \ {m}
    /\ gate' = None
    /\ IF gate.socket \in Open
         THEN Close(gate.socket)
         ELSE UNCHANGED <<asked, left, stalls>>
    /\ UNCHANGED <<queue, reused>>

(* A datagram is lost, or comes when its connection is closed.             *)
Lose(m) ==
    /\ m \in air
    /\ air' = air \ {m}
    /\ UNCHANGED <<asked, left, queue, gate, history>>

(* Mutant: after the deadline slipgate goes on waiting.                    *)
GiveUpAgain ==
    /\ gate # None /\ gate.left = 0
    /\ gate' = [gate EXCEPT !.left = Patience]
    /\ UNCHANGED <<asked, left, queue, air, history>>

(* No address, or no answer, before its deadline: the loop goes on with    *)
(* the next query.                                                         *)
GiveUp ==
    /\ gate # None /\ gate.left = 0
    /\ gate' = None
    /\ UNCHANGED <<asked, left, queue, air, history>>

(* thefeed is down: its name is unknown, no route to it, an ICMP error.    *)
Refused ==
    /\ gate # None
    /\ gate' = None
    /\ UNCHANGED <<asked, left, queue, air, history>>

-----------------------------------------------------------------------------
(* A second passes when nothing is left to do in this one.                 *)
Tick ==
    /\ gate = None => queue = <<>>
    /\ gate # None => gate.left > 0
    /\ \A s \in Open : left[s] > 0
    /\ left' = [s \in Sockets |-> IF s \in Open THEN left[s] - 1 ELSE left[s]]
    /\ gate' = IF gate = None THEN None ELSE [gate EXCEPT !.left = @ - 1]
    /\ stalls' = IF gate # None /\ gate.left = Patience
                    THEN [s \in Sockets |-> IF s \in Open /\ stalls[s] < 2
                                              THEN stalls[s] + 1 ELSE stalls[s]]
                    ELSE stalls
    /\ UNCHANGED <<asked, queue, air, reused>>

Next ==
    \/ \E s \in Sockets : Timeout(s) \/ \E n \in Names : Get(s, n)
    \/ Take \/ Dial \/ GiveUp \/ Refused
    \/ \E m \in air : Relay(m) \/ Lose(m)
    \/ Tick

Spec == Init /\ [][Next]_vars

(* Event loop, timers and slipgate's loop run on, so that time does not    *)
(* stand still while a request waits.                                      *)
FairSpec == Spec /\ ([]<>(Open = {}) \/ []<><<Tick>>_vars)

-----------------------------------------------------------------------------
(* Properties.                                                             *)

(* The page is given the chunk it asked for, whole, whatever is late: only *)
(* a port that is used again too soon lets an answer go astray.            *)
AnswersMatch ==
    \A m \in air : Reaches(m) /\ gate.socket \in Open /\ ~reused =>
        LET asking == asked[gate.socket] IN
        /\ m.reply.batch = asking.batch
        /\ m.reply.part = Part(asking)
        /\ m.reply.whole

OutOfTime(s) == s \in Open /\ left[s] = 0

(* slipgate keeps all other queries waiting while it waits for thefeed's   *)
(* address, and then for an answer, which never comes to a query for what  *)
(* thefeed has not got: 2 s each time, and each counted anew.  The 3 s of  *)
(* the bridge outlast one such wait: a request that runs out of time       *)
(* before slipgate has turned to it has seen two, be they of two queries   *)
(* or of one.                                                              *)
TimeoutHasCause == \A s \in Sockets : OutOfTime(s) /\ Queued(s) => stalls[s] >= 2

(* Every request of the page is answered, with a text or with 502.         *)
EveryGetEnds == \A s \in Sockets : s \in Open ~> s \notin Open

(* A datagram is lost or late, or finds thefeed down, or the address of    *)
(* thefeed is slow to be found.                                            *)
Harm ==
    \/ Refused
    \/ Dialing /\ Tick
    \/ \E m \in air : Reaches(m) /\ (Lose(m) \/ Tick)

(* When the page no longer asks for what is not there, nothing is lost any *)
(* more and lookups are quick, the queue of old queries drains and no      *)
(* request runs out of time, provided that slipgate's socket has room for  *)
(* all requests that wait at a time.                                       *)
Recovers ==
    \/ []<>(\E s \in Open : Replying[asked[s]] = {})
    \/ []<><<Harm>>_vars
    \/ <>[](\A s \in Sockets : ~OutOfTime(s))
=============================================================================
