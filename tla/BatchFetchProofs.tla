-------------------------- MODULE BatchFetchProofs --------------------------
(***************************************************************************)
(* The fetch of a batch for any number of resolvers, parts, attempts,      *)
(* tries, generations and restarts: types, what the parts of a finished    *)
(* fetch have in common, the count of queries, and the atomic read that    *)
(* the fetch implements.                                                   *)
(***************************************************************************)
EXTENDS BatchFetch, FiniteSetTheorems, SequenceTheorems, TLAPS

LEMMA ResolverCount == Cardinality(Resolvers) \in Nat
  BY FetchAssumption, FS_CardinalityType

(* Appending a generation changes nothing about the earlier ones.          *)
LEMMA PublishFacts ==
  ASSUME TypeOK, Publish
  PROVE  /\ gen' = gen + 1 /\ gen' \in 1..MaxGens
         /\ totals' \in Seq(Sizes) /\ Len(totals') = gen'
         /\ \A g \in 1..gen : totals'[g] = totals[g]
         /\ UNCHANGED <<client, sent, startGen>>
<1>1. PICK n \in Sizes : totals' = Append(totals, n)
  BY DEF Publish
<1>2. gen \in Nat /\ MaxGens \in Nat /\ gen < MaxGens /\ gen' = gen + 1
  BY FetchAssumption DEF TypeOK, Publish
<1> QED
  BY <1>1, <1>2 DEF TypeOK, Publish

(* What the tail of a scatter leaves: the client's bookkeeping is typed.   *)
LEMMA ScatterType ==
  ASSUME TypeOK, NEW n \in 1..MaxRetries, NEW already \in Nat, Scatter(n, already)
  PROVE  /\ pc' = "ask"
         /\ try' \in 0..MaxRetries
         /\ jobs' \in [Resolvers -> Job]
         /\ attempted' \in Nat /\ sent' \in Nat
<1>1. Asked \in Job
  BY FetchAssumption DEF Asked, Job
<1> QED
  BY <1>1, ResolverCount, FetchAssumption DEF Scatter, TypeOK

LEMMA StopType ==
  ASSUME TypeOK, NEW place, Stop(place)
  PROVE  /\ pc' = place
         /\ try' \in 0..MaxRetries
         /\ jobs' \in [Resolvers -> Job]
         /\ attempted' = 0
         /\ UNCHANGED <<server, attempt, ghosts>>
<1>1. Asked \in Job
  BY FetchAssumption DEF Asked, Job
<1> QED
  BY <1>1, FetchAssumption DEF Stop

LEMMA ReceiveType ==
  ASSUME TypeOK, NEW v, NEW g, Receive(v, g)
  PROVE  counted' \in Nat
  BY DEF TypeOK, Receive

LEMMA TypeInit == Init => TypeOK
<1>1. Asked \in Job
  BY FetchAssumption DEF Asked, Job
<1> SUFFICES ASSUME Init PROVE TypeOK
  OBVIOUS
<1>2. totals \in Seq(Sizes) /\ Len(totals) = 1
  BY DEF Init
<1>3. parts \in Seq(1..gen) /\ Len(parts) = 0
  BY DEF Init
<1>4. /\ gen \in 1..MaxGens /\ oldest \in 1..gen /\ startGen \in 0..gen
      /\ restarts \in 0..MaxRestarts
      /\ attempt \in 0..MaxAttempts /\ try \in 0..MaxRetries
  BY FetchAssumption DEF Init
<1>5. /\ jobs \in [Resolvers -> Job]
      /\ attempted \in Nat /\ counted \in Nat /\ sent \in Nat
      /\ quiet \in BOOLEAN
      /\ pc = "idle" /\ gen = 1
  BY <1>1 DEF Init
<1> QED
  BY <1>2, <1>3, <1>4, <1>5, FetchAssumption DEF TypeOK

LEMMA TypeStep == TypeOK /\ [Next]_vars => TypeOK'
<1> SUFFICES ASSUME TypeOK, [Next]_vars PROVE TypeOK'
  OBVIOUS
<1> USE FetchAssumption
<1> USE DEF server, client, ghosts
<1>1. ASSUME Publish, oldest' \in {gen, oldest}, restarts' \in 0..MaxRestarts
      PROVE  TypeOK'
  <2>1. /\ gen' = gen + 1 /\ gen' \in 1..MaxGens /\ gen \in Nat
        /\ totals' \in Seq(Sizes) /\ Len(totals') = gen'
        /\ UNCHANGED <<client, sent, startGen>>
        /\ quiet' = FALSE
    BY <1>1, PublishFacts DEF TypeOK, Publish
  <2>2. oldest' \in 1..gen' /\ startGen' \in 0..gen'
    BY <1>1, <2>1 DEF TypeOK
  <2>3. parts' \in Seq(1..gen')
    <3>1. parts \in Seq(1..gen) /\ 1..gen \subseteq 1..gen'
      BY <2>1 DEF TypeOK
    <3> QED
      BY <2>1, <3>1
  <2> QED
    BY <1>1, <2>1, <2>2, <2>3 DEF TypeOK
<1>2. CASE Refresh \/ Restart
  <2>1. oldest' \in {gen, oldest} /\ restarts' \in 0..MaxRestarts /\ Publish
    BY <1>2 DEF Refresh, Restart, TypeOK
  <2> QED
    BY <1>1, <2>1
<1>3. CASE CachesExpire
  BY <1>3 DEF CachesExpire, TypeOK
<1>4. ASSUME NEW v \in Resolvers, Query(v)
      PROVE  TypeOK'
  <2>1. PICK job \in Job : Settle(v, job)
    <3>1. /\ [state |-> "absent", gen |-> 0] \in Job
          /\ [state |-> "lost", gen |-> 0] \in Job
          /\ [state |-> "coming", gen |-> 0] \in Job
          /\ \A g \in oldest..gen : [state |-> "coming", gen |-> g] \in Job
      BY DEF Job, Rejected, TypeOK
    <3> QED
      BY <1>4, <3>1 DEF Query, Answer, NoSuchPart, Lose, Garble
  <2> QED
    BY <2>1 DEF Settle, TypeOK
<1>5. CASE Start
  <2>1. Scatter(1, 0) /\ 1 \in 1..MaxRetries /\ 0 \in Nat
    BY <1>5 DEF Start
  <2>2. /\ pc' = "ask" /\ try' \in 0..MaxRetries /\ jobs' \in [Resolvers -> Job]
        /\ attempted' \in Nat /\ sent' \in Nat
    BY <2>1, ScatterType
  <2> QED
    BY <1>5, <2>2 DEF Start, TypeOK
<1>6. ASSUME NEW v \in Resolvers, TakePart(v)
      PROVE  TypeOK'
  <2>1. PICK g \in 1..gen :
          /\ Receive(v, g)
          /\ parts' = Append(parts, g)
          /\ \/ Len(parts') = totals[g] /\ Stop("done")
             \/ /\ Scatter(1, 0) /\ Len(parts') # totals[g]
                /\ UNCHANGED <<server, attempt, startGen, quiet>>
    BY <1>6 DEF TakePart
  <2>2. parts' \in Seq(1..gen) /\ counted' \in Nat
    BY <2>1, ReceiveType DEF TypeOK
  <2>3. 1 \in 1..MaxRetries /\ 0 \in Nat
    OBVIOUS
  <2>4. /\ pc' \in {"ask", "done"} /\ try' \in 0..MaxRetries
        /\ jobs' \in [Resolvers -> Job]
        /\ attempted' \in Nat /\ sent' \in Nat
        /\ UNCHANGED <<server, attempt, startGen, quiet>>
    BY <2>1, <2>3, ScatterType, StopType DEF TypeOK
  <2> QED
    BY <2>2, <2>4 DEF TypeOK
<1>7. ASSUME NEW place \in {"backoff", "failed"}, Stop(place), UNCHANGED parts,
             counted' \in Nat
      PROVE  TypeOK'
  <2>1. /\ pc' = place /\ try' \in 0..MaxRetries /\ jobs' \in [Resolvers -> Job]
        /\ attempted' = 0
        /\ UNCHANGED <<server, attempt, ghosts>>
    BY <1>7, StopType
  <2> QED
    BY <1>7, <2>1 DEF TypeOK
<1>8. ASSUME NEW v \in Resolvers, WrongPart(v) \/ NoHeader(v)
      PROVE  TypeOK'
  BY <1>7, <1>8, ReceiveType DEF WrongPart, NoHeader
<1>9. CASE TryFails
  <2>1. CASE try < MaxRetries
    <3>1. Asked \in Job
      BY DEF Asked, Job
    <3> QED
      BY <1>9, <2>1, <3>1 DEF TryFails, TypeOK
  <2>2. CASE ~(try < MaxRetries)
    BY <1>7, <1>9, <2>2 DEF TryFails, TypeOK
  <2> QED
    BY <2>1, <2>2
<1>10. CASE TryAgain
  <2>1. try + 1 \in 1..MaxRetries
    BY <1>10 DEF TryAgain, TypeOK
  <2>2. /\ pc' = "ask" /\ try' \in 0..MaxRetries /\ jobs' \in [Resolvers -> Job]
        /\ attempted' \in Nat /\ sent' \in Nat
    BY <1>10, <2>1, ScatterType DEF TryAgain, TypeOK
  <2> QED
    BY <1>10, <2>2 DEF TryAgain, TypeOK
<1>11. CASE NextAttempt
  <2>1. Scatter(1, 0) /\ 1 \in 1..MaxRetries /\ 0 \in Nat
    BY <1>11 DEF NextAttempt
  <2>2. /\ pc' = "ask" /\ try' \in 0..MaxRetries /\ jobs' \in [Resolvers -> Job]
        /\ attempted' \in Nat /\ sent' \in Nat
    BY <2>1, ScatterType
  <2>3. parts' \in Seq(1..gen)
    BY <1>11 DEF NextAttempt, FreshParts
  <2> QED
    BY <1>11, <2>2, <2>3 DEF NextAttempt, AttemptsLeft, TypeOK
<1>12. CASE GiveUp
  BY <1>7, <1>12 DEF GiveUp, TypeOK
<1>13. CASE Forget
  <2>1. parts' \in Seq(1..gen)
    BY <1>13 DEF Forget
  <2>2. /\ pc' = "idle" /\ attempt' = 0 /\ counted' = 0 /\ sent' = 0
        /\ startGen' = 0 /\ quiet' = FALSE
        /\ UNCHANGED <<server, try, jobs, attempted>>
    BY <1>13 DEF Forget
  <2>3. /\ attempt' \in 0..MaxAttempts /\ counted' \in Nat /\ sent' \in Nat
        /\ startGen' \in 0..gen'
    BY <1>13 DEF Forget, TypeOK
  <2>4. quiet' \in BOOLEAN
    BY <1>13 DEF Forget
  <2>5. /\ gen' \in 1..MaxGens
        /\ totals' \in Seq(Sizes) /\ Len(totals') = gen'
        /\ oldest' \in 1..gen' /\ restarts' \in 0..MaxRestarts
        /\ parts' \in Seq(1..gen')
    BY <2>1, <2>2 DEF TypeOK
  <2>6. /\ try' \in 0..MaxRetries
        /\ jobs' \in [Resolvers -> Job] /\ attempted' \in Nat
    BY <2>2 DEF TypeOK
  <2> QED
    BY <2>2, <2>3, <2>4, <2>5, <2>6 DEF TypeOK
<1>14. CASE UNCHANGED vars
  BY <1>14 DEF vars, TypeOK
<1> QED
  BY <1>2, <1>3, <1>4, <1>5, <1>6, <1>8, <1>9, <1>10, <1>11, <1>12, <1>13,
     <1>14 DEF Next, Client

(* No interleaving of refreshes, restarts, answers and retries takes a     *)
(* variable out of its type: in particular neither loop of the fetch runs  *)
(* past its bound, and no resolver serves a generation not yet published.  *)
THEOREM TypeCorrect == Spec => []TypeOK
  BY TypeInit, TypeStep, PTL DEF Spec

-----------------------------------------------------------------------------
(* Three facts about a fetch under way, each inductive.                    *)

(* The parts collected all come from batches of the count announced by the *)
(* first; a fetch is done when it has that many.                           *)
CountsInv ==
    /\ \A i \in 1..Len(parts) : totals[parts[i]] = totals[parts[1]]
    /\ pc = "done" => Len(parts) > 0 /\ Len(parts) = totals[parts[1]]

(* While nothing is refreshed, the current generation is all there is, in  *)
(* the resolvers, on the wire and among the parts.                         *)
QuietInv ==
    quiet /\ pc # "idle" =>
        /\ oldest = gen
        /\ \A i \in 1..Len(parts) : parts[i] = gen
        /\ \A v \in Resolvers : jobs[v].gen \in {0, gen}

(* Each query is in one of the two counters; only a scatter that fails for *)
(* good, and the fetch with it, leaves queries out.                        *)
LedgerInv ==
    /\ pc \in {"ask", "pause", "backoff", "done"} => counted + attempted = sent
    /\ pc \in {"idle", "backoff", "done", "failed"} => attempted = 0
    /\ pc = "idle" => counted = 0 /\ sent = 0 /\ parts = <<>>

FetchInv == TypeOK /\ CountsInv /\ QuietInv /\ LedgerInv

LEMMA FetchInit == Init => FetchInv
<1> SUFFICES ASSUME Init PROVE FetchInv
  OBVIOUS
<1>1. TypeOK
  BY TypeInit
<1>2. CountsInv /\ QuietInv /\ LedgerInv
  BY DEF Init, CountsInv, QuietInv, LedgerInv
<1> QED
  BY <1>1, <1>2 DEF FetchInv

(* A step that collects no part and finishes nothing, on the same server.  *)
LEMMA CountsKept ==
  ASSUME CountsInv, UNCHANGED totals, pc' # "done" \/ UNCHANGED pc,
         parts' = parts \/ parts' = <<>>, parts' = parts \/ pc' # "done"
  PROVE  CountsInv'
<1>1. CASE parts' = parts
  BY <1>1 DEF CountsInv
<1>2. CASE parts' = <<>> /\ pc' # "done"
  BY <1>2 DEF CountsInv
<1> QED
  BY <1>1, <1>2

LEMMA CountsStep ==
  ASSUME TypeOK, CountsInv, [Next]_vars
  PROVE  CountsInv'
<1> USE DEF server, client, ghosts
<1>1. CASE Refresh \/ Restart
  <2>1. Publish
    BY <1>1 DEF Refresh, Restart
  <2>2. /\ \A g \in 1..gen : totals'[g] = totals[g]
        /\ UNCHANGED <<pc, parts>>
    BY <2>1, PublishFacts
  <2>3. parts \in Seq(1..gen)
    BY DEF TypeOK
  <2>4. \A i \in 1..Len(parts) :
           totals'[parts[i]] = totals[parts[i]] /\ totals'[parts[1]] = totals[parts[1]]
    <3> TAKE i \in 1..Len(parts)
    <3>1. Len(parts) \in Nat /\ 1 \in 1..Len(parts)
      BY <2>3
    <3>2. parts[i] \in 1..gen /\ parts[1] \in 1..gen
      BY <2>3, <3>1, ElementOfSeq
    <3> QED
      BY <2>2, <3>2
  <2> QED
    BY <2>2, <2>3, <2>4 DEF CountsInv
<1>2. ASSUME NEW v \in Resolvers, TakePart(v)
      PROVE  CountsInv'
  <2>1. PICK g \in 1..gen : /\ Matches(g)
                            /\ parts' = Append(parts, g)
                            /\ UNCHANGED totals
                            /\ pc' = "done" => Len(parts') = totals[g]
    BY <1>2 DEF TakePart, Stop, Scatter
  <2>2. /\ parts \in Seq(1..gen)
        /\ Len(parts') = Len(parts) + 1 /\ Len(parts) \in Nat
        /\ parts'[Len(parts) + 1] = g
        /\ \A i \in 1..Len(parts) : parts'[i] = parts[i]
    BY <2>1 DEF TypeOK
  <2>3. CASE parts = <<>>
    <3>1. Len(parts') = 1 /\ parts'[1] = g
      BY <2>2, <2>3
    <3> QED
      BY <2>1, <3>1 DEF CountsInv
  <2>4. CASE parts # <<>>
    <3>1. /\ Len(parts) > 0 /\ parts'[1] = parts[1]
          /\ totals[g] = totals[parts[1]]
      BY <2>1, <2>2, <2>4 DEF Matches
    <3>2. \A i \in 1..Len(parts') : totals[parts'[i]] = totals[parts'[1]]
      BY <2>2, <3>1 DEF CountsInv
    <3> QED
      BY <2>1, <2>2, <3>1, <3>2 DEF CountsInv
  <2> QED
    BY <2>3, <2>4
<1>3. ASSUME NEW v \in Resolvers, Query(v)
      PROVE  CountsInv'
  BY <1>3, CountsKept DEF Query, Answer, NoSuchPart, Lose, Garble, Settle
<1>4. ASSUME NEW v \in Resolvers, WrongPart(v) \/ NoHeader(v)
      PROVE  CountsInv'
  BY <1>4, CountsKept DEF WrongPart, NoHeader, Stop
<1>5. CASE Start \/ CachesExpire \/ Forget
  BY <1>5, CountsKept DEF Start, Scatter, CachesExpire, Forget
<1>6. CASE TryFails \/ TryAgain \/ NextAttempt \/ GiveUp
  BY <1>6, CountsKept
     DEF TryFails, TryAgain, NextAttempt, GiveUp, Stop, Scatter, FreshParts
<1>7. CASE UNCHANGED vars
  BY <1>7, CountsKept DEF vars
<1> QED
  BY <1>1, <1>2, <1>3, <1>4, <1>5, <1>6, <1>7 DEF Next, Client

LEMMA QuietStep ==
  ASSUME TypeOK, QuietInv, LedgerInv, [Next]_vars
  PROVE  QuietInv'
<1> USE DEF server, client, ghosts
<1>1. CASE Refresh \/ Restart
  BY <1>1 DEF Refresh, Restart, Publish, QuietInv
<1>2. CASE CachesExpire
  BY <1>2 DEF CachesExpire, QuietInv
<1>3. ASSUME NEW v \in Resolvers, NEW job \in Job, Settle(v, job),
             job.gen \in {0} \cup (oldest..gen)
      PROVE  QuietInv'
  <2>1. /\ UNCHANGED <<quiet, pc, oldest, gen, parts>>
        /\ jobs' = [jobs EXCEPT ![v] = job]
    BY <1>3 DEF Settle
  <2>2. ASSUME quiet, pc # "idle", NEW w \in Resolvers
        PROVE  jobs'[w].gen \in {0, gen}
    <3>1. oldest = gen /\ jobs[w].gen \in {0, gen} /\ gen \in Nat
      BY <2>2 DEF QuietInv, TypeOK
    <3>2. CASE w = v
      BY <1>3, <2>1, <3>1, <3>2 DEF TypeOK
    <3>3. CASE w # v
      BY <2>1, <3>1, <3>3 DEF TypeOK
    <3> QED
      BY <3>2, <3>3
  <2> QED
    BY <2>1, <2>2 DEF QuietInv
<1>4. ASSUME NEW v \in Resolvers, Query(v)
      PROVE  QuietInv'
  <2>1. /\ [state |-> "absent", gen |-> 0] \in Job
        /\ [state |-> "lost", gen |-> 0] \in Job
        /\ [state |-> "coming", gen |-> 0] \in Job
        /\ \A g \in oldest..gen : [state |-> "coming", gen |-> g] \in Job
    BY FetchAssumption DEF Job, Rejected, TypeOK
  <2>2. CASE Answer(v)
    <3>1. PICK g \in oldest..gen : Settle(v, [state |-> "coming", gen |-> g])
      BY <2>2 DEF Answer
    <3> QED
      BY <1>3, <2>1, <3>1
  <2>3. CASE NoSuchPart(v) \/ Lose(v) \/ Garble(v)
    BY <1>3, <2>1, <2>3 DEF NoSuchPart, Lose, Garble
  <2> QED
    BY <1>4, <2>2, <2>3 DEF Query
<1>5. ASSUME jobs' = [v \in Resolvers |-> Asked], UNCHANGED <<gen, oldest>>,
             quiet' => oldest = gen,
             quiet' => \A i \in 1..Len(parts') : parts'[i] = gen
      PROVE  QuietInv'
  BY <1>5 DEF QuietInv, Asked
<1>6. CASE Start
  <2>1. /\ jobs' = [w \in Resolvers |-> Asked] /\ UNCHANGED <<gen, oldest>>
        /\ Len(parts') = 0
    BY <1>6 DEF Start, Scatter, LedgerInv
  <2>2. quiet' = (oldest = gen)
    BY <1>6 DEF Start
  <2>3. quiet' => oldest = gen
    BY <2>2, Zenon
  <2> QED
    BY <1>5, <2>1, <2>3
<1>7. ASSUME NEW v \in Resolvers, TakePart(v)
      PROVE  QuietInv'
  <2>1. PICK g \in 1..gen : /\ Receive(v, g)
                            /\ parts' = Append(parts, g)
                            /\ jobs' = [w \in Resolvers |-> Asked]
                            /\ UNCHANGED <<gen, oldest, quiet>>
    BY <1>7 DEF TakePart, Stop, Scatter
  <2>2. quiet => g = gen /\ oldest = gen /\ \A i \in 1..Len(parts) : parts[i] = gen
    <3>1. pc = "ask" /\ jobs[v].gen = g /\ g # 0
      BY <2>1 DEF Receive, TypeOK
    <3> QED
      BY <3>1 DEF QuietInv
  <2>3. parts \in Seq(1..gen)
    BY DEF TypeOK
  <2>4. quiet => \A i \in 1..Len(parts') : parts'[i] = gen
    BY <2>1, <2>2, <2>3
  <2> QED
    BY <1>5, <2>1, <2>2, <2>4
<1>8. ASSUME NEW v \in Resolvers, WrongPart(v) \/ NoHeader(v)
      PROVE  QuietInv'
  <2>1. /\ pc # "idle" /\ jobs' = [w \in Resolvers |-> Asked]
        /\ UNCHANGED <<gen, oldest, quiet, parts>>
    BY <1>8 DEF WrongPart, NoHeader, Receive, Stop
  <2> QED
    BY <1>5, <2>1 DEF QuietInv
<1>9. CASE TryFails \/ TryAgain \/ GiveUp
  <2>1. /\ pc # "idle" /\ jobs' = [w \in Resolvers |-> Asked]
        /\ UNCHANGED <<gen, oldest, quiet, parts>>
    BY <1>9 DEF TryFails, TryAgain, GiveUp, Stop, Scatter
  <2> QED
    BY <1>5, <2>1 DEF QuietInv
<1>10. CASE NextAttempt
  <2>1. /\ jobs' = [w \in Resolvers |-> Asked] /\ parts' = <<>>
        /\ UNCHANGED <<gen, oldest>>
    BY <1>10 DEF NextAttempt, Scatter, FreshParts
  <2>2. quiet' = (oldest = gen)
    BY <1>10 DEF NextAttempt
  <2>3. quiet' => oldest = gen
    BY <2>2, Zenon
  <2> QED
    BY <1>5, <2>1, <2>3
<1>11. CASE Forget
  BY <1>11 DEF Forget, QuietInv
<1>12. CASE UNCHANGED vars
  BY <1>12 DEF vars, QuietInv
<1> QED
  BY <1>1, <1>2, <1>4, <1>6, <1>7, <1>8, <1>9, <1>10, <1>11, <1>12
     DEF Next, Client

LEMMA LedgerStep ==
  ASSUME TypeOK, LedgerInv, [Next]_vars
  PROVE  LedgerInv'
<1> USE DEF server, client, ghosts
<1>1. attempted \in Nat /\ counted \in Nat /\ sent \in Nat
  BY DEF TypeOK
<1>2. CASE Refresh \/ Restart \/ CachesExpire
  BY <1>2 DEF Refresh, Restart, Publish, CachesExpire, LedgerInv
<1>3. ASSUME NEW v \in Resolvers, Query(v)
      PROVE  LedgerInv'
  BY <1>3 DEF Query, Answer, NoSuchPart, Lose, Garble, Settle, LedgerInv
<1>4. CASE Start
  BY <1>1, <1>4, ResolverCount DEF Start, Scatter, LedgerInv
<1>5. ASSUME NEW v \in Resolvers, TakePart(v)
      PROVE  LedgerInv'
  <2>1. /\ pc = "ask" /\ counted' = counted + attempted
        /\ \/ Stop("done")
           \/ Scatter(1, 0)
    BY <1>5 DEF TakePart, Receive
  <2>2. counted' = sent
    BY <2>1 DEF LedgerInv
  <2>3. CASE Stop("done")
    BY <1>1, <2>2, <2>3 DEF Stop, LedgerInv
  <2>4. CASE Scatter(1, 0)
    BY <1>1, <2>2, <2>4, ResolverCount DEF Scatter, LedgerInv
  <2> QED
    BY <2>1, <2>3, <2>4
<1>6. ASSUME NEW v \in Resolvers, WrongPart(v) \/ NoHeader(v)
      PROVE  LedgerInv'
  <2>1. /\ pc = "ask" /\ counted' = counted + attempted
        /\ Stop("backoff") \/ Stop("failed")
    BY <1>6 DEF WrongPart, NoHeader, Receive
  <2> QED
    BY <1>1, <2>1 DEF Stop, LedgerInv
<1>7. CASE TryFails
  BY <1>7 DEF TryFails, Stop, LedgerInv
<1>8. CASE TryAgain
  BY <1>1, <1>8, ResolverCount DEF TryAgain, Scatter, LedgerInv
<1>9. CASE NextAttempt
  BY <1>1, <1>9, ResolverCount DEF NextAttempt, Scatter, LedgerInv
<1>10. CASE GiveUp
  BY <1>10 DEF GiveUp, Stop, LedgerInv
<1>11. CASE Forget
  BY <1>11 DEF Forget, LedgerInv
<1>12. CASE UNCHANGED vars
  BY <1>12 DEF vars, LedgerInv
<1> QED
  BY <1>2, <1>3, <1>4, <1>5, <1>6, <1>7, <1>8, <1>9, <1>10, <1>11, <1>12
     DEF Next, Client

(* What one fetch knows of counts, of quiet attempts and of its queries    *)
(* holds throughout.                                                       *)
THEOREM FetchInvariant == Spec => []FetchInv
<1>1. FetchInv /\ [Next]_vars => FetchInv'
  BY TypeStep, CountsStep, QuietStep, LedgerStep DEF FetchInv
<1> QED
  BY <1>1, FetchInit, PTL DEF Spec

(* A refresh that changes the number of chunks never gets into the result. *)
THEOREM CountsHold == Spec => []CountsAgree
<1>1. FetchInv => CountsAgree
  BY DEF FetchInv, CountsInv, CountsAgree
<1> QED
  BY <1>1, FetchInvariant, PTL

(* An attempt that saw no refresh yields one generation, whole, however    *)
(* many attempts, tries and resolvers came before it.                      *)
THEOREM QuietHolds == Spec => []QuietAttemptIsWhole
<1>1. FetchInv => QuietAttemptIsWhole
  <2> SUFFICES ASSUME FetchInv, pc = "done", quiet PROVE Whole
    BY DEF QuietAttemptIsWhole
  <2>1. \A i \in 1..Len(parts) : parts[i] = gen
    BY DEF FetchInv, QuietInv
  <2>2. Len(parts) \in Nat
    BY DEF FetchInv, TypeOK
  <2> QED
    BY <2>1, <2>2 DEF Whole
<1> QED
  BY <1>1, FetchInvariant, PTL

(* The number of queries shown on the page is the number sent, for any     *)
(* number of resolvers.                                                    *)
THEOREM QueryCountHolds == Spec => []QueryCountExact
<1>1. FetchInv => QueryCountExact
  BY DEF FetchInv, LedgerInv, QueryCountExact, TypeOK
<1> QED
  BY <1>1, FetchInvariant, PTL

-----------------------------------------------------------------------------
(* The refinement.  How far behind a part can be is settled when the fetch *)
(* begins: the caches then lag by the restarts and one refresh at most,    *)
(* and what they hold never grows older.                                   *)
Lag == 1 + restarts

AgeInv ==
    /\ gen <= oldest + Lag
    /\ pc # "idle" =>
          /\ startGen <= oldest + Lag
          /\ \A i \in 1..Len(parts) : startGen <= parts[i] + Lag
          /\ \A v \in Resolvers :
                jobs[v].gen # 0 => startGen <= jobs[v].gen + Lag

LEMMA AgeInit == Init => AgeInv
  BY DEF Init, AgeInv, Lag

(* A step of the fetch that asks for nothing more, or asks anew, and keeps *)
(* its parts or drops them.                                                *)
LEMMA AgeKept ==
  ASSUME TypeOK, AgeInv, pc # "idle", UNCHANGED <<server, startGen>>,
         jobs' = [v \in Resolvers |-> Asked], parts' \in {parts, <<>>}
  PROVE  AgeInv'
<1>1. \A i \in 1..Len(parts') : startGen <= parts'[i] + Lag
  <2>1. CASE parts' = parts
    BY <2>1 DEF AgeInv
  <2>2. CASE parts' = <<>>
    BY <2>2
  <2> QED
    BY <2>1, <2>2
<1>2. \A v \in Resolvers : jobs'[v].gen = 0
  BY DEF Asked
<1>3. UNCHANGED <<gen, oldest, startGen, Lag>>
  BY DEF server, Lag
<1> QED
  BY <1>1, <1>2, <1>3 DEF AgeInv

LEMMA AgeStep ==
  ASSUME FetchInv, AgeInv, [Next]_vars
  PROVE  AgeInv'
<1> USE DEF server, client, ghosts
<1>1. TypeOK /\ LedgerInv
  BY DEF FetchInv
<1>2. /\ gen \in Nat /\ oldest \in Nat /\ startGen \in Nat /\ restarts \in Nat
      /\ oldest <= gen /\ startGen <= gen
      /\ \A i \in 1..Len(parts) : parts[i] \in Nat
      /\ \A v \in Resolvers : jobs[v].gen \in Nat
  <2>1. parts \in Seq(1..gen) /\ gen \in Nat
    BY <1>1, FetchAssumption DEF TypeOK
  <2>2. \A i \in 1..Len(parts) : parts[i] \in Nat
    BY <2>1, ElementOfSeq
  <2> QED
    BY <1>1, <2>1, <2>2, FetchAssumption DEF TypeOK, Job
<1>3. ASSUME NEW g \in Nat, NEW o \in Nat, NEW k \in Nat,
             gen' = g /\ oldest' = o /\ restarts' = k,
             oldest <= o, restarts <= k, g <= o + 1 + k,
             UNCHANGED <<pc, parts, jobs, startGen>>
      PROVE  AgeInv'
  <2>1. Lag' = 1 + k
    BY <1>3 DEF Lag
  <2>2. ASSUME NEW n \in Nat, startGen <= n + Lag
        PROVE  startGen <= n + (1 + k)
    BY <1>2, <1>3, <2>2 DEF Lag
  <2>3. startGen <= oldest + Lag => startGen <= o + (1 + k)
    BY <1>2, <1>3 DEF Lag
  <2>4. g <= o + (1 + k)
    BY <1>3
  <2> HIDE DEF Lag
  <2> QED
    BY <1>2, <1>3, <2>1, <2>2, <2>3, <2>4 DEF AgeInv
<1>4. CASE Refresh \/ Restart
  <2>1. gen' = gen + 1 /\ UNCHANGED <<pc, parts, jobs, startGen>>
    BY <1>4 DEF Refresh, Restart, Publish
  <2>2. CASE Refresh
    <3>1. oldest' = gen /\ restarts' = restarts
      BY <2>2 DEF Refresh
    <3> QED
      BY <1>2, <1>3, <2>1, <3>1
  <2>3. CASE Restart
    <3>1. oldest' = oldest /\ restarts' = restarts + 1
      BY <2>3 DEF Restart
    <3>2. gen <= oldest + 1 + restarts
      BY <1>2 DEF AgeInv, Lag
    <3> QED
      BY <1>2, <1>3, <2>1, <3>1, <3>2
  <2> QED
    BY <1>4, <2>2, <2>3
<1>5. CASE CachesExpire
  <2>1. oldest' = gen /\ UNCHANGED <<gen, restarts, pc, parts, jobs, startGen>>
    BY <1>5 DEF CachesExpire
  <2> QED
    BY <1>2, <1>3, <2>1
<1>6. ASSUME NEW v \in Resolvers, NEW job, Settle(v, job),
             job.gen \in {0} \cup (oldest..gen)
      PROVE  AgeInv'
  <2>1. /\ pc # "idle" /\ UNCHANGED <<gen, oldest, restarts, pc, parts, startGen>>
        /\ jobs' = [jobs EXCEPT ![v] = job] /\ jobs \in [Resolvers -> Job]
    BY <1>1, <1>6 DEF Settle, TypeOK
  <2>2. ASSUME NEW w \in Resolvers, jobs'[w].gen # 0
        PROVE  startGen <= jobs'[w].gen + Lag
    <3>1. CASE w = v
      <4>1. jobs'[w].gen = job.gen /\ job.gen \in oldest..gen
        BY <1>6, <2>1, <2>2, <3>1
      <4>2. startGen <= oldest + Lag
        BY <2>1 DEF AgeInv
      <4> QED
        BY <1>2, <4>1, <4>2 DEF Lag
    <3>2. CASE w # v
      <4>1. jobs'[w] = jobs[w]
        BY <2>1, <3>2
      <4> QED
        BY <2>1, <2>2, <4>1 DEF AgeInv
    <3> QED
      BY <3>1, <3>2
  <2>3. UNCHANGED Lag
    BY <2>1 DEF Lag
  <2> QED
    BY <2>1, <2>2, <2>3 DEF AgeInv
<1>7. ASSUME NEW v \in Resolvers, Query(v)
      PROVE  AgeInv'
  <2>1. CASE Answer(v)
    <3>1. PICK g \in oldest..gen : Settle(v, [state |-> "coming", gen |-> g])
      BY <2>1 DEF Answer
    <3> QED
      BY <1>6, <3>1
  <2>2. CASE NoSuchPart(v) \/ Lose(v) \/ Garble(v)
    BY <1>6, <2>2 DEF NoSuchPart, Lose, Garble
  <2> QED
    BY <1>7, <2>1, <2>2 DEF Query
<1>8. CASE Start
  <2>1. /\ startGen' = gen /\ UNCHANGED <<gen, oldest, restarts>>
        /\ Len(parts') = 0
        /\ jobs' = [w \in Resolvers |-> Asked]
    BY <1>1, <1>8 DEF Start, Scatter, LedgerInv
  <2>2. \A v \in Resolvers : jobs'[v].gen = 0
    BY <2>1 DEF Asked
  <2> QED
    BY <1>2, <2>1, <2>2 DEF AgeInv, Lag
<1>9. ASSUME NEW v \in Resolvers, TakePart(v)
      PROVE  AgeInv'
  <2>1. PICK g \in 1..gen : /\ pc = "ask" /\ jobs[v].gen = g
                            /\ parts' = Append(parts, g)
                            /\ jobs' = [w \in Resolvers |-> Asked]
                            /\ UNCHANGED <<server, startGen>>
    BY <1>9 DEF TakePart, Receive, Stop, Scatter
  <2>2. startGen <= g + Lag /\ \A i \in 1..Len(parts) : startGen <= parts[i] + Lag
    BY <2>1 DEF AgeInv
  <2>3. parts \in Seq(1..gen)
    BY <1>1 DEF TypeOK
  <2>4. \A i \in 1..Len(parts') : startGen <= parts'[i] + Lag
    BY <2>1, <2>2, <2>3
  <2>5. \A w \in Resolvers : jobs'[w].gen = 0
    BY <2>1 DEF Asked
  <2>6. UNCHANGED <<gen, oldest, startGen, Lag>>
    BY <2>1 DEF Lag
  <2> QED
    BY <2>1, <2>4, <2>5, <2>6 DEF AgeInv
<1>10. ASSUME NEW v \in Resolvers, WrongPart(v) \/ NoHeader(v)
       PROVE  AgeInv'
  <2>1. /\ pc = "ask" /\ UNCHANGED <<server, startGen, parts>>
        /\ jobs' = [w \in Resolvers |-> Asked]
    BY <1>10 DEF WrongPart, NoHeader, Receive, Stop
  <2> QED
    BY <1>1, <2>1, AgeKept
<1>11. CASE TryFails \/ TryAgain \/ NextAttempt \/ GiveUp
  <2>1. /\ pc # "idle" /\ UNCHANGED <<server, startGen>>
        /\ jobs' = [w \in Resolvers |-> Asked] /\ parts' \in {parts, <<>>}
    BY <1>11 DEF TryFails, TryAgain, NextAttempt, GiveUp, Stop, Scatter, FreshParts
  <2> QED
    BY <1>1, <2>1, AgeKept
<1>12. CASE Forget
  BY <1>12 DEF Forget, AgeInv, Lag
<1>13. CASE UNCHANGED vars
  BY <1>13 DEF vars, AgeInv, Lag
<1> QED
  BY <1>4, <1>5, <1>7, <1>8, <1>9, <1>10, <1>11, <1>12, <1>13 DEF Next, Client

(* The abstract phase and result of a fetch that is at a place with these  *)
(* parts: a mixture of generations is a failure, by its decryption.        *)
AllOne(ps) == \A i \in 1..Len(ps) : ps[i] = ps[1]

PhaseAt(place, ps) ==
    CASE place = "idle" -> "idle"
      [] place = "done" /\ AllOne(ps) -> "read"
      [] place = "failed" \/ (place = "done" /\ ~AllOne(ps)) -> "failed"
      [] OTHER -> "reading"

ResultAt(place, ps) == IF place = "done" /\ AllOne(ps) THEN ps[1] ELSE 0

LEMMA AbstractFetch ==
  ASSUME NEW place, NEW ps
  PROVE  /\ place = "idle" => PhaseAt(place, ps) = "idle"
         /\ place \in {"ask", "pause", "backoff"} => PhaseAt(place, ps) = "reading"
         /\ place = "done" /\ AllOne(ps) =>
               PhaseAt(place, ps) = "read" /\ ResultAt(place, ps) = ps[1]
         /\ place = "failed" \/ (place = "done" /\ ~AllOne(ps)) =>
               PhaseAt(place, ps) = "failed"
         /\ ~(place = "done" /\ AllOne(ps)) => ResultAt(place, ps) = 0
<1> HIDE DEF AllOne
<1> QED
  BY DEF PhaseAt, ResultAt

(* The steps of the abstract read, in terms of the two.                    *)
LEMMA AbstractSteps ==
  /\ Read!vars = <<gen, Lag, PhaseAt(pc, parts), startGen, ResultAt(pc, parts)>>
  /\ Read!Publish <=>
        /\ gen' = gen + 1
        /\ Lag' \in {Lag, Lag + 1}
        /\ UNCHANGED <<PhaseAt(pc, parts), startGen, ResultAt(pc, parts)>>
  /\ Read!Start <=>
        /\ PhaseAt(pc, parts) = "idle"
        /\ PhaseAt(pc, parts)' = "reading" /\ startGen' = gen
        /\ UNCHANGED <<gen, Lag, ResultAt(pc, parts)>>
  /\ Read!Return <=>
        /\ PhaseAt(pc, parts) = "reading"
        /\ PhaseAt(pc, parts)' = "read"
        /\ \E g \in 1..gen : g >= startGen - Lag /\ ResultAt(pc, parts)' = g
        /\ UNCHANGED <<gen, Lag, startGen>>
  /\ Read!Fail <=>
        /\ PhaseAt(pc, parts) = "reading"
        /\ PhaseAt(pc, parts)' = "failed"
        /\ UNCHANGED <<gen, Lag, startGen, ResultAt(pc, parts)>>
  /\ Read!Forget <=>
        /\ PhaseAt(pc, parts) \in {"read", "failed"}
        /\ PhaseAt(pc, parts)' = "idle" /\ startGen' = 0
        /\ ResultAt(pc, parts)' = 0
        /\ UNCHANGED <<gen, Lag>>
  BY DEF Read!vars, Read!Publish, Read!Start, Read!Return, Read!Fail, Read!Forget,
         PhaseAt, ResultAt, AllOne, Whole, Lag

LEMMA ReadStep ==
  ASSUME FetchInv, AgeInv, FetchInv', AgeInv', [Next]_vars
  PROVE  [Read!Next]_Read!vars
<1> USE DEF server, client, ghosts
<1> DEFINE phase == PhaseAt(pc, parts)
           result == ResultAt(pc, parts)
<1>1. /\ gen \in Nat /\ startGen \in Nat /\ restarts \in Nat
      /\ parts \in Seq(1..gen) /\ parts' \in Seq(1..gen')
  BY FetchAssumption DEF FetchInv, TypeOK
<1>2. ASSUME UNCHANGED <<gen, restarts, startGen, phase, result>>
      PROVE  UNCHANGED Read!vars
  <2>1. Lag' = Lag
    BY <1>2 DEF Lag
  <2>2. Read!vars' = <<gen', Lag', phase', startGen', result'>>
    BY DEF Read!vars, PhaseAt, ResultAt, AllOne, Whole, Lag
  <2>3. Read!vars = <<gen, Lag, phase, startGen, result>>
    BY AbstractSteps
  <2> QED
    BY <1>2, <2>1, <2>2, <2>3
<1>3. ASSUME pc \in {"ask", "pause", "backoff"}, pc' \in {"ask", "pause", "backoff"}
      PROVE  UNCHANGED <<phase, result>>
  <2>1. phase = "reading" /\ result = 0
    BY <1>3, AbstractFetch
  <2>2. phase' = "reading" /\ result' = 0
    BY <1>3, AbstractFetch
  <2> QED
    BY <2>1, <2>2
<1>4. ASSUME pc \in {"ask", "backoff"}, pc' = "failed", UNCHANGED <<gen, restarts, startGen>>
      PROVE  Read!Fail
  <2>1. phase = "reading" /\ result = 0
    BY <1>4, AbstractFetch
  <2>2. phase' = "failed" /\ result' = 0
    BY <1>4, AbstractFetch
  <2> QED
    BY <1>4, <2>1, <2>2, AbstractSteps DEF Lag
<1>5. CASE Refresh \/ Restart
  <2>1. gen' = gen + 1 /\ UNCHANGED <<pc, parts, startGen>>
    BY <1>5 DEF Refresh, Restart, Publish
  <2>2. restarts' \in {restarts, restarts + 1}
    BY <1>5 DEF Refresh, Restart
  <2>3. Lag' \in {Lag, Lag + 1}
    <3>1. CASE restarts' = restarts
      BY <3>1 DEF Lag
    <3>2. CASE restarts' = restarts + 1
      BY <1>1, <3>2 DEF Lag
    <3> QED
      BY <2>2, <3>1, <3>2
  <2>4. Read!Publish
    BY <2>1, <2>3, AbstractSteps
  <2> QED
    BY <2>4 DEF Read!Next
<1>6. CASE CachesExpire
  BY <1>2, <1>6 DEF CachesExpire
<1>7. ASSUME NEW v \in Resolvers, Query(v)
      PROVE  UNCHANGED Read!vars
  BY <1>2, <1>7 DEF Query, Answer, NoSuchPart, Lose, Garble, Settle
<1>8. CASE Start
  <2>1. pc = "idle" /\ pc' = "ask" /\ startGen' = gen /\ UNCHANGED <<gen, restarts>>
    BY <1>8 DEF Start, Scatter
  <2>2. phase = "idle" /\ result = 0
    BY <2>1, AbstractFetch
  <2>3. phase' = "reading" /\ result' = 0
    BY <2>1, AbstractFetch
  <2>4. Read!Start
    BY <2>1, <2>2, <2>3, AbstractSteps DEF Lag
  <2> QED
    BY <2>4 DEF Read!Next
<1>9. ASSUME NEW v \in Resolvers, TakePart(v)
      PROVE  [Read!Next]_Read!vars
  <2>1. /\ pc = "ask" /\ pc' \in {"ask", "done"}
        /\ UNCHANGED <<gen, restarts, startGen>>
    BY <1>9 DEF TakePart, Receive, Stop, Scatter
  <2>2. phase = "reading" /\ result = 0
    BY <2>1, AbstractFetch
  <2>3. CASE pc' = "ask"
    BY <1>2, <1>3, <2>1, <2>3
  <2>4. CASE pc' = "done" /\ AllOne(parts')
    <3>1. phase' = "read" /\ result' = parts'[1]
      BY <2>4, AbstractFetch
    <3>2. 1 \in 1..Len(parts')
      BY <1>1, <2>4 DEF FetchInv, CountsInv
    <3>3. parts'[1] \in 1..gen
      BY <1>1, <2>1, <3>2, ElementOfSeq
    <3>4. startGen <= parts'[1] + Lag
      BY <2>1, <2>4, <3>2 DEF AgeInv, Lag
    <3>5. parts'[1] >= startGen - Lag
      BY <1>1, <3>3, <3>4 DEF Lag
    <3>6. Read!Return
      BY <2>1, <2>2, <3>1, <3>3, <3>5, AbstractSteps DEF Lag
    <3> QED
      BY <3>6 DEF Read!Next
  <2>5. CASE pc' = "done" /\ ~AllOne(parts')
    <3>1. phase' = "failed" /\ result' = 0
      BY <2>5, AbstractFetch
    <3>2. Read!Fail
      BY <2>1, <2>2, <3>1, AbstractSteps DEF Lag
    <3> QED
      BY <3>2 DEF Read!Next
  <2> QED
    BY <2>1, <2>3, <2>4, <2>5
<1>10. ASSUME NEW v \in Resolvers, WrongPart(v)
       PROVE  UNCHANGED Read!vars
  <2>1. pc = "ask" /\ pc' = "backoff" /\ UNCHANGED <<gen, restarts, startGen>>
    BY <1>10 DEF WrongPart, Receive, Stop
  <2> QED
    BY <1>2, <1>3, <2>1
<1>11. ASSUME NEW v \in Resolvers, NoHeader(v)
       PROVE  Read!Fail
  BY <1>4, <1>11 DEF NoHeader, Receive, Stop
<1>12. CASE TryFails
  <2>1. /\ pc = "ask" /\ pc' \in {"pause", "failed"}
        /\ UNCHANGED <<gen, restarts, startGen>>
    BY <1>12 DEF TryFails, Stop
  <2> QED
    BY <1>2, <1>3, <1>4, <2>1 DEF Read!Next
<1>13. CASE TryAgain \/ NextAttempt
  <2>1. /\ pc \in {"pause", "backoff"} /\ pc' = "ask"
        /\ UNCHANGED <<gen, restarts, startGen>>
    BY <1>13 DEF TryAgain, NextAttempt, Scatter
  <2> QED
    BY <1>2, <1>3, <2>1
<1>14. CASE GiveUp
  BY <1>4, <1>14 DEF GiveUp, Stop, Read!Next
<1>15. CASE Forget
  <2>1. /\ pc \in {"done", "failed"} /\ pc' = "idle"
        /\ startGen' = 0 /\ UNCHANGED <<gen, restarts>>
    BY <1>15 DEF Forget
  <2>2. phase \in {"read", "failed"}
    BY <2>1, AbstractFetch
  <2>3. phase' = "idle" /\ result' = 0
    BY <2>1, AbstractFetch
  <2>4. Read!Forget
    BY <2>1, <2>2, <2>3, AbstractSteps DEF Lag
  <2> QED
    BY <2>4 DEF Read!Next
<1>16. CASE UNCHANGED vars
  BY <1>2, <1>16 DEF vars
<1> QED
  BY <1>5, <1>6, <1>7, <1>8, <1>9, <1>10, <1>11, <1>12, <1>13, <1>14, <1>15,
     <1>16 DEF Next, Client, Read!Next

(* With the decryption that follows it, the fetch is an atomic read of one *)
(* published generation, at most one refresh and the restarts behind the   *)
(* one that was current when it began: for any number of parts, resolvers, *)
(* attempts and refreshes, whatever is lost, garbled or served from caches.*)
THEOREM FetchIsARead == Spec => ImplementsRead
<1>1. Init => Read!Init
  BY DEF Init, Read!Init
<1>2. FetchInv /\ AgeInv /\ [Next]_vars => AgeInv'
  BY AgeStep
<1>3. FetchInv /\ AgeInv /\ FetchInv' /\ AgeInv' /\ [Next]_vars
         => [Read!Next]_Read!vars
  BY ReadStep
<1> QED
  BY <1>1, <1>2, <1>3, AgeInit, FetchInvariant, PTL
     DEF Spec, ImplementsRead, Read!Spec

-----------------------------------------------------------------------------
(* What a fetch has used up of the queries it may send.                    *)

(* Nothing is served for a part the batch does not have, so that a fetch   *)
(* that is not done has room for a part more.                              *)
RoomInv ==
    /\ \A v \in Resolvers :
          jobs[v].gen # 0 => jobs[v].gen <= gen /\ Len(parts) < totals[jobs[v].gen]
    /\ pc \in {"ask", "pause"} /\ parts # <<>> => Len(parts) < totals[parts[1]]
    /\ pc # "idle" => attempt >= 1

(* The rounds of queries begun so far are at most those of the attempts    *)
(* before this one, the parts of this one, and the tries of this part.     *)
Rounds(n) ==
    CASE pc = "idle"             -> 0
      [] pc \in {"ask", "pause"} -> (attempt - 1) * (n * MaxRetries)
                                      + Len(parts) * MaxRetries + try
      [] OTHER                   -> attempt * (n * MaxRetries)

Largest(n) == n \in Nat \ {0} /\ \A m \in Sizes : m <= n

BudgetInv ==
    \A n \in Sizes : Largest(n) => sent <= Rounds(n) * Cardinality(Resolvers)

(* Multiplication as the proofs need it.                                   *)
LEMMA TimesNext ==
  \A a, b \in Nat : a * b \in Nat /\ (a + 1) * b = a * b + b
  OBVIOUS

LEMMA TimesGrows ==
  \A a, b, c \in Nat : a <= b => a * c <= b * c /\ c * a <= c * b
  OBVIOUS

LEMMA TotalsNat == TypeOK => \A g \in 1..gen : totals[g] \in Nat
<1> SUFFICES ASSUME TypeOK, NEW g \in 1..gen PROVE totals[g] \in Nat
  OBVIOUS
<1>1. totals \in Seq(Sizes) /\ g \in 1..Len(totals)
  BY DEF TypeOK
<1>2. totals[g] \in Sizes
  BY <1>1, ElementOfSeq
<1> QED
  BY <1>2, FetchAssumption

LEMMA RoomInit == Init => RoomInv
  BY FetchAssumption DEF Init, RoomInv, Asked

(* A step that puts no answer on the wire and has no part left over.       *)
LEMMA RoomKept ==
  ASSUME RoomInv, UNCHANGED <<gen, totals>>,
         jobs' = [v \in Resolvers |-> Asked],
         pc # "idle" /\ UNCHANGED attempt,
         pc' \in {"ask", "pause"} =>
            \/ pc \in {"ask", "pause"} /\ UNCHANGED parts
            \/ parts' = <<>>
  PROVE  RoomInv'
<1>1. \A v \in Resolvers : jobs'[v].gen = 0
  BY DEF Asked
<1> QED
  BY <1>1 DEF RoomInv

LEMMA RoomStep ==
  ASSUME FetchInv, RoomInv, [Next]_vars
  PROVE  RoomInv'
<1> USE DEF server, client, ghosts
<1>1. TypeOK /\ CountsInv /\ LedgerInv /\ parts \in Seq(1..gen) /\ gen \in Nat
  BY FetchAssumption DEF FetchInv, TypeOK
<1>2. CASE Refresh \/ Restart
  <2>1. Publish
    BY <1>2 DEF Refresh, Restart
  <2>2. /\ gen' = gen + 1
        /\ \A g \in 1..gen : totals'[g] = totals[g]
        /\ UNCHANGED <<pc, parts, jobs, attempt>>
    BY <1>1, <2>1, PublishFacts
  <2>3. ASSUME NEW v \in Resolvers, jobs[v].gen # 0
        PROVE  jobs[v].gen <= gen' /\ Len(parts) < totals'[jobs[v].gen]
    <3>1. jobs[v].gen <= gen /\ jobs[v].gen \in Nat /\ Len(parts) < totals[jobs[v].gen]
      BY <1>1, <2>3, FetchAssumption DEF RoomInv, TypeOK, Job
    <3>2. jobs[v].gen \in 1..gen
      BY <1>1, <2>3, <3>1
    <3> QED
      BY <1>1, <2>2, <3>1, <3>2
  <2>4. ASSUME pc \in {"ask", "pause"}, parts # <<>>
        PROVE  Len(parts) < totals'[parts[1]]
    <3>1. 1 \in 1..Len(parts)
      BY <1>1, <2>4
    <3>2. parts[1] \in 1..gen
      BY <1>1, <3>1, ElementOfSeq
    <3> QED
      BY <2>2, <2>4, <3>2 DEF RoomInv
  <2> QED
    BY <2>2, <2>3, <2>4 DEF RoomInv
<1>3. CASE CachesExpire
  BY <1>3 DEF CachesExpire, RoomInv
<1>4. ASSUME NEW v \in Resolvers, NEW job, Settle(v, job),
             job.gen # 0 => job.gen <= gen /\ Len(parts) < totals[job.gen]
      PROVE  RoomInv'
  <2>1. /\ UNCHANGED <<gen, totals, pc, parts, attempt>>
        /\ jobs' = [jobs EXCEPT ![v] = job] /\ jobs \in [Resolvers -> Job]
    BY <1>1, <1>4 DEF Settle, TypeOK
  <2>2. ASSUME NEW w \in Resolvers, jobs'[w].gen # 0
        PROVE  jobs'[w].gen <= gen /\ Len(parts) < totals[jobs'[w].gen]
    <3>1. jobs'[w] = IF w = v THEN job ELSE jobs[w]
      BY <2>1
    <3> QED
      BY <1>4, <2>2, <3>1 DEF RoomInv
  <2> QED
    BY <2>1, <2>2 DEF RoomInv
<1>5. ASSUME NEW v \in Resolvers, Query(v)
      PROVE  RoomInv'
  <2>1. CASE Answer(v)
    <3>1. PICK g \in oldest..gen : /\ Len(parts) + 1 <= totals[g]
                                   /\ Settle(v, [state |-> "coming", gen |-> g])
      BY <2>1 DEF Answer, NextPart
    <3>2. g \in 1..gen
      BY <1>1 DEF TypeOK
    <3>3. totals[g] \in Nat
      BY <1>1, <3>2, TotalsNat
    <3>4. g <= gen /\ Len(parts) < totals[g]
      BY <1>1, <3>1, <3>2, <3>3
    <3> QED
      BY <1>4, <3>1, <3>4
  <2>2. CASE NoSuchPart(v) \/ Lose(v) \/ Garble(v)
    BY <1>4, <2>2 DEF NoSuchPart, Lose, Garble
  <2> QED
    BY <1>5, <2>1, <2>2 DEF Query
<1>6. CASE Start
  <2>1. /\ UNCHANGED <<gen, totals>> /\ attempt' = 1 /\ parts' = <<>>
        /\ jobs' = [w \in Resolvers |-> Asked]
    BY <1>1, <1>6 DEF Start, Scatter, LedgerInv
  <2>2. \A v \in Resolvers : jobs'[v].gen = 0
    BY <2>1 DEF Asked
  <2> QED
    BY <2>1, <2>2 DEF RoomInv
<1>7. ASSUME NEW v \in Resolvers, TakePart(v)
      PROVE  RoomInv'
  <2>1. PICK g \in 1..gen :
          /\ pc = "ask" /\ jobs[v].gen = g /\ Matches(g)
          /\ parts' = Append(parts, g)
          /\ jobs' = [w \in Resolvers |-> Asked]
          /\ pc' = "ask" => Len(parts') # totals[g]
          /\ pc' \in {"ask", "done"}
          /\ UNCHANGED <<gen, totals, attempt>>
    BY <1>7 DEF TakePart, Receive, Stop, Scatter
  <2>2. Len(parts) < totals[g] /\ attempt >= 1
    BY <1>1, <2>1 DEF RoomInv
  <2>3. Len(parts') = Len(parts) + 1 /\ Len(parts) \in Nat
    BY <1>1, <2>1
  <2>4. totals[g] \in Nat
    BY <1>1, TotalsNat
  <2>5. totals[parts'[1]] = totals[g]
    BY <1>1, <2>1 DEF Matches
  <2>6. pc' = "ask" => Len(parts') < totals[g]
    BY <2>1, <2>2, <2>3, <2>4
  <2>7. \A w \in Resolvers : jobs'[w].gen = 0
    BY <2>1 DEF Asked
  <2> QED
    BY <2>1, <2>2, <2>5, <2>6, <2>7 DEF RoomInv
<1>8. ASSUME NEW v \in Resolvers, WrongPart(v) \/ NoHeader(v)
      PROVE  RoomInv'
  BY <1>8, RoomKept DEF WrongPart, NoHeader, Receive, Stop
<1>9. CASE TryFails \/ TryAgain \/ GiveUp
  BY <1>9, RoomKept DEF TryFails, TryAgain, GiveUp, Stop, Scatter
<1>10. CASE NextAttempt
  <2>1. /\ UNCHANGED <<gen, totals>> /\ attempt' = attempt + 1 /\ parts' = <<>>
        /\ jobs' = [w \in Resolvers |-> Asked]
        /\ attempt \in Nat
    BY <1>1, <1>10, FetchAssumption DEF NextAttempt, Scatter, FreshParts, TypeOK
  <2>2. \A v \in Resolvers : jobs'[v].gen = 0
    BY <2>1 DEF Asked
  <2>3. attempt' >= 1
    BY <2>1
  <2> QED
    BY <2>1, <2>2, <2>3 DEF RoomInv
<1>11. CASE Forget
  <2>1. /\ pc' = "idle" /\ parts' = <<>> /\ UNCHANGED <<jobs, gen, totals>>
    BY <1>11 DEF Forget
  <2>2. ASSUME NEW v \in Resolvers, jobs[v].gen # 0
        PROVE  jobs[v].gen <= gen /\ 0 < totals[jobs[v].gen]
    <3>1. jobs[v].gen <= gen /\ Len(parts) < totals[jobs[v].gen]
      BY <2>2 DEF RoomInv
    <3>2. jobs[v].gen \in 1..gen
      BY <1>1, <2>2, <3>1, FetchAssumption DEF TypeOK, Job
    <3>3. totals[jobs[v].gen] \in Nat
      BY <1>1, <3>2, TotalsNat
    <3> QED
      BY <1>1, <3>1, <3>3
  <2> QED
    BY <2>1, <2>2 DEF RoomInv
<1>12. CASE UNCHANGED vars
  BY <1>12 DEF vars, RoomInv
<1> QED
  BY <1>2, <1>3, <1>5, <1>6, <1>7, <1>8, <1>9, <1>10, <1>11, <1>12
     DEF Next, Client

(* Rounds, case by case.                                                   *)
LEMMA RoundsAt ==
  ASSUME NEW n
  PROVE  /\ pc = "idle" => Rounds(n) = 0
         /\ pc \in {"ask", "pause"} =>
               Rounds(n) = (attempt - 1) * (n * MaxRetries) + Len(parts) * MaxRetries + try
         /\ pc \in {"backoff", "done", "failed"} => Rounds(n) = attempt * (n * MaxRetries)
  BY DEF Rounds

(* A scatter takes a round, and other steps give none back.                *)
LEMMA BudgetKept ==
  ASSUME NEW q \in Nat, NEW r \in Nat, NEW s \in Nat, s <= q * Cardinality(Resolvers)
  PROVE  /\ q <= r => s <= r * Cardinality(Resolvers)
         /\ q + 1 <= r => s + Cardinality(Resolvers) <= r * Cardinality(Resolvers)
<1> DEFINE c == Cardinality(Resolvers)
<1>1. c \in Nat
  BY ResolverCount
<1> HIDE DEF c
<1>2. q \in Nat /\ q + 1 \in Nat /\ q * c \in Nat /\ r * c \in Nat /\ (q + 1) * c = q * c + c
  BY <1>1, TimesNext
<1>3. q <= r => q * c <= r * c
  BY <1>1, TimesGrows
<1>4. q + 1 <= r => (q + 1) * c <= r * c
  BY <1>1, <1>2, TimesGrows
<1>5. s <= q * c
  BY DEF c
<1>6. /\ q <= r => s <= r * c
      /\ q + 1 <= r => s + c <= r * c
  BY <1>1, <1>2, <1>3, <1>4, <1>5
<1> QED
  BY <1>6 DEF c

(* Within an attempt: with k of at most n parts collected, and t tries for *)
(* the next, its rounds are at most n * MaxRetries.                        *)
LEMMA RoundsOfAttempt ==
  ASSUME NEW n \in Nat, NEW k \in Nat, NEW t \in 0..MaxRetries, k < n
  PROVE  /\ k * MaxRetries \in Nat /\ n * MaxRetries \in Nat
         /\ (k + 1) * MaxRetries = k * MaxRetries + MaxRetries
         /\ k * MaxRetries + t <= (k + 1) * MaxRetries
         /\ k * MaxRetries + t <= n * MaxRetries
<1>1. MaxRetries \in Nat /\ k + 1 \in Nat /\ k + 1 <= n
  BY FetchAssumption
<1>2. /\ k * MaxRetries \in Nat /\ n * MaxRetries \in Nat
      /\ (k + 1) * MaxRetries = k * MaxRetries + MaxRetries
  BY <1>1, TimesNext
<1>3. (k + 1) * MaxRetries <= n * MaxRetries
  BY <1>1, TimesGrows
<1> QED
  BY <1>1, <1>2, <1>3

(* What the types say of the rounds, for a bound n on the parts.           *)
LEMMA RoundsType ==
  ASSUME FetchInv, RoomInv, NEW n \in Sizes, Largest(n)
  PROVE  /\ n \in Nat /\ n >= 1 /\ Rounds(n) \in Nat /\ sent \in Nat
         /\ n * MaxRetries \in Nat /\ attempt * (n * MaxRetries) \in Nat
         /\ pc \in {"ask", "pause"} =>
               /\ attempt - 1 \in Nat
               /\ (attempt - 1) * (n * MaxRetries) \in Nat
               /\ attempt * (n * MaxRetries) = (attempt - 1) * (n * MaxRetries) + n * MaxRetries
               /\ Len(parts) \in Nat /\ Len(parts) < n
               /\ Rounds(n) <= attempt * (n * MaxRetries)
<1> DEFINE b == n * MaxRetries
<1>1. /\ n \in Nat /\ n >= 1 /\ attempt \in Nat /\ Len(parts) \in Nat
      /\ MaxRetries \in Nat /\ try \in 0..MaxRetries /\ sent \in Nat /\ gen \in Nat
      /\ parts \in Seq(1..gen) /\ totals \in Seq(Sizes) /\ Len(totals) = gen
  BY FetchAssumption DEF FetchInv, TypeOK, Largest
<1>2. b \in Nat
  BY <1>1, TimesNext
<1> HIDE DEF b
<1>3. attempt * b \in Nat
  BY <1>1, <1>2, TimesNext
<1>4. ASSUME pc \in {"ask", "pause"}
      PROVE  /\ attempt - 1 \in Nat
             /\ (attempt - 1) * b \in Nat
             /\ attempt * b = (attempt - 1) * b + b
             /\ Len(parts) < n
             /\ Rounds(n) \in Nat /\ Rounds(n) <= attempt * b
  <2>1. attempt >= 1
    BY <1>4 DEF RoomInv
  <2>2. attempt - 1 \in Nat /\ (attempt - 1) + 1 = attempt
    BY <1>1, <2>1
  <2>3. (attempt - 1) * b \in Nat /\ attempt * b = (attempt - 1) * b + b
    BY <1>2, <2>2, TimesNext
  <2>4. Len(parts) < n
    <3>1. CASE parts = <<>>
      BY <1>1, <3>1
    <3>2. CASE parts # <<>>
      <4>1. 1 \in 1..Len(parts)
        BY <1>1, <3>2
      <4>2. parts[1] \in 1..gen
        BY <1>1, <4>1, ElementOfSeq
      <4>3. totals[parts[1]] \in Sizes
        BY <1>1, <4>2, ElementOfSeq
      <4>4. totals[parts[1]] <= n /\ totals[parts[1]] \in Nat
        BY <4>3, FetchAssumption DEF Largest
      <4>5. Len(parts) < totals[parts[1]]
        BY <1>4, <3>2 DEF RoomInv
      <4> QED
        BY <1>1, <4>4, <4>5
    <3> QED
      BY <3>1, <3>2
  <2>5. Len(parts) * MaxRetries \in Nat /\ Len(parts) * MaxRetries + try <= b
    BY <1>1, <2>4, RoundsOfAttempt DEF b
  <2>6. Rounds(n) = (attempt - 1) * b + Len(parts) * MaxRetries + try
    BY <1>4, RoundsAt DEF b
  <2> QED
    BY <1>1, <1>2, <2>2, <2>3, <2>4, <2>5, <2>6
<1>5. Rounds(n) \in Nat
  <2>1. CASE pc = "idle"
    BY <2>1, RoundsAt
  <2>2. CASE pc \in {"ask", "pause"}
    BY <1>4, <2>2
  <2>3. CASE pc \in {"backoff", "done", "failed"}
    BY <1>3, <2>3, RoundsAt DEF b
  <2> QED
    BY <2>1, <2>2, <2>3 DEF FetchInv, TypeOK
<1> QED
  BY <1>1, <1>2, <1>3, <1>4, <1>5 DEF b

LEMMA BudgetStep ==
  ASSUME FetchInv, RoomInv, BudgetInv, [Next]_vars
  PROVE  BudgetInv'
<1> USE DEF server, client, ghosts
<1> SUFFICES ASSUME NEW n \in Sizes, Largest(n)
             PROVE  sent' <= Rounds(n)' * Cardinality(Resolvers)
  BY DEF BudgetInv, Largest
<1> DEFINE b == n * MaxRetries
           c == Cardinality(Resolvers)
<1>1. /\ n \in Nat /\ n >= 1 /\ Rounds(n) \in Nat /\ sent \in Nat
      /\ b \in Nat /\ attempt * b \in Nat /\ attempt \in Nat
      /\ MaxRetries \in Nat /\ try \in 0..MaxRetries /\ MaxRetries >= 1
      /\ parts \in Seq(1..gen)
      /\ sent <= Rounds(n) * c
  BY RoundsType, FetchAssumption DEF FetchInv, TypeOK, BudgetInv
<1>2. ASSUME pc \in {"ask", "pause"}
      PROVE  /\ attempt - 1 \in Nat /\ (attempt - 1) * b \in Nat
             /\ attempt * b = (attempt - 1) * b + b
             /\ Len(parts) \in Nat /\ Len(parts) < n
             /\ Rounds(n) = (attempt - 1) * b + Len(parts) * MaxRetries + try
             /\ Rounds(n) <= attempt * b
             /\ Len(parts) * MaxRetries \in Nat
  BY <1>1, <1>2, RoundsType, RoundsAt, TimesNext
<1>3. c \in Nat
  BY ResolverCount
<1>4. /\ pc' = "idle" => Rounds(n)' = 0
      /\ pc' \in {"ask", "pause"} =>
            Rounds(n)' = (attempt' - 1) * b + Len(parts') * MaxRetries + try'
      /\ pc' \in {"backoff", "done", "failed"} => Rounds(n)' = attempt' * b
  BY DEF Rounds
<1> SUFFICES sent' <= Rounds(n)' * c
  OBVIOUS
<1> HIDE DEF b, c
<1>5. ASSUME sent' = sent, NEW r \in Nat, Rounds(n)' = r, Rounds(n) <= r
      PROVE  sent' <= Rounds(n)' * c
  BY <1>1, <1>5, BudgetKept DEF c
<1>6. ASSUME sent' = sent + c, NEW r \in Nat, Rounds(n)' = r, Rounds(n) + 1 <= r
      PROVE  sent' <= Rounds(n)' * c
  BY <1>1, <1>6, BudgetKept DEF c
<1>7. ASSUME UNCHANGED <<sent, pc, attempt, parts, try>>
      PROVE  sent' <= Rounds(n)' * c
  <2>1. Rounds(n)' = Rounds(n)
    BY <1>7 DEF Rounds
  <2>2. Rounds(n) <= Rounds(n)
    BY <1>1
  <2> QED
    BY <1>1, <1>5, <1>7, <2>1, <2>2
<1>8. ASSUME Refresh \/ Restart \/ CachesExpire
      PROVE  sent' <= Rounds(n)' * c
  BY <1>7, <1>8 DEF Refresh, Restart, CachesExpire, Publish
<1>9. ASSUME NEW v \in Resolvers, Query(v)
      PROVE  sent' <= Rounds(n)' * c
  BY <1>7, <1>9 DEF Query, Answer, NoSuchPart, Lose, Garble, Settle
<1>10. CASE Start
  <2>1. /\ pc = "idle" /\ pc' = "ask" /\ attempt' = 1 /\ try' = 1
        /\ sent' = sent + c /\ Len(parts') = 0
    BY <1>10 DEF Start, Scatter, FetchInv, LedgerInv, c
  <2>2. Rounds(n) = 0
    BY <2>1, RoundsAt
  <2>3. Rounds(n)' = 1
    <3>1. 0 * b = 0 /\ 0 * MaxRetries = 0
      BY <1>1
    <3>2. Rounds(n)' = (1 - 1) * b + 0 * MaxRetries + 1
      BY <1>4, <2>1
    <3> QED
      BY <3>1, <3>2
  <2> QED
    BY <1>6, <2>1, <2>2, <2>3
<1>11. ASSUME NEW v \in Resolvers, TakePart(v)
       PROVE  sent' <= Rounds(n)' * c
  <2>1. PICK g \in 1..gen :
          /\ pc = "ask" /\ UNCHANGED attempt
          /\ parts' = Append(parts, g)
          /\ \/ pc' = "done" /\ UNCHANGED sent
             \/ pc' = "ask" /\ try' = 1 /\ sent' = sent + c
    BY <1>11 DEF TakePart, Receive, Stop, Scatter, c
  <2>2. CASE pc' = "done" /\ UNCHANGED sent
    BY <1>1, <1>2, <1>4, <1>5, <2>1, <2>2
  <2>3. CASE pc' = "ask" /\ try' = 1 /\ sent' = sent + c
    <3> DEFINE k == Len(parts)
               a == (attempt - 1) * b
    <3>1. /\ k \in Nat /\ k < n /\ a \in Nat
          /\ Rounds(n) = a + k * MaxRetries + try
      BY <1>2, <2>1
    <3>2. Rounds(n)' = a + (k + 1) * MaxRetries + 1
      BY <1>1, <1>4, <2>1, <2>3
    <3> HIDE DEF k, a
    <3>3. /\ (k + 1) * MaxRetries \in Nat
          /\ k * MaxRetries \in Nat
          /\ k * MaxRetries + try <= (k + 1) * MaxRetries
      BY <1>1, <3>1, RoundsOfAttempt, TimesNext
    <3>4. a + (k + 1) * MaxRetries + 1 \in Nat
      BY <3>1, <3>3
    <3>5. Rounds(n) + 1 <= a + (k + 1) * MaxRetries + 1
      BY <1>1, <3>1, <3>3
    <3> QED
      BY <1>6, <2>3, <3>2, <3>4, <3>5
  <2> QED
    BY <2>1, <2>2, <2>3
<1>12. ASSUME pc = "ask", pc' \in {"backoff", "failed"}, UNCHANGED <<sent, attempt>>
       PROVE  sent' <= Rounds(n)' * c
  BY <1>1, <1>2, <1>4, <1>5, <1>12
<1>13. ASSUME NEW v \in Resolvers, WrongPart(v) \/ NoHeader(v)
       PROVE  sent' <= Rounds(n)' * c
  BY <1>12, <1>13 DEF WrongPart, NoHeader, Receive, Stop
<1>14. CASE TryFails
  <2>1. CASE pc' = "pause"
    <3>1. pc = "ask" /\ UNCHANGED <<sent, attempt, parts, try>>
      BY <1>14, <2>1 DEF TryFails, Stop
    <3>2. Rounds(n)' = Rounds(n)
      BY <1>2, <1>4, <2>1, <3>1
    <3> QED
      BY <1>1, <1>5, <3>1, <3>2
  <2>2. CASE pc' # "pause"
    BY <1>12, <1>14, <2>2 DEF TryFails, Stop
  <2> QED
    BY <2>1, <2>2
<1>15. CASE TryAgain
  <2>1. /\ pc = "pause" /\ pc' = "ask" /\ try' = try + 1 /\ sent' = sent + c
        /\ UNCHANGED <<attempt, parts>>
    BY <1>15 DEF TryAgain, Scatter, c
  <2>2. Rounds(n)' = Rounds(n) + 1
    BY <1>1, <1>2, <1>4, <2>1
  <2> QED
    BY <1>1, <1>6, <2>1, <2>2
<1>16. CASE NextAttempt
  <2>1. /\ pc = "backoff" /\ pc' = "ask" /\ attempt' = attempt + 1 /\ try' = 1
        /\ sent' = sent + c /\ Len(parts') = 0
    BY <1>16 DEF NextAttempt, Scatter, FreshParts, c
  <2>2. Rounds(n) = attempt * b
    BY <2>1, RoundsAt DEF b
  <2>3. Rounds(n)' = attempt * b + 1
    <3>1. (attempt + 1) - 1 = attempt /\ 0 * MaxRetries = 0
      BY <1>1
    <3>2. Rounds(n)' = ((attempt + 1) - 1) * b + 0 * MaxRetries + 1
      BY <1>4, <2>1
    <3> QED
      BY <1>1, <3>1, <3>2
  <2> QED
    BY <1>1, <1>6, <2>1, <2>2, <2>3
<1>17. CASE GiveUp
  <2>1. /\ pc = "backoff" /\ pc' = "failed" /\ UNCHANGED <<sent, attempt>>
    BY <1>17 DEF GiveUp, Stop
  <2>2. Rounds(n)' = Rounds(n)
    BY <1>4, <2>1, RoundsAt DEF b
  <2> QED
    BY <1>1, <1>5, <2>1, <2>2
<1>18. CASE Forget
  <2>1. sent' = 0 /\ pc' = "idle"
    BY <1>18 DEF Forget
  <2>2. Rounds(n)' = 0
    BY <1>4, <2>1
  <2> QED
    BY <1>3, <2>1, <2>2
<1>19. CASE UNCHANGED vars
  BY <1>7, <1>19 DEF vars
<1> QED
  BY <1>8, <1>9, <1>10, <1>11, <1>13, <1>14, <1>15, <1>16, <1>17, <1>18, <1>19
     DEF Next, Client

LEMMA WithinBudget ==
  ASSUME FetchInv, RoomInv, BudgetInv
  PROVE  QueriesBounded
<1> SUFFICES ASSUME NEW n \in Sizes \ {0}, \A m \in Sizes : m <= n
             PROVE  sent <= (MaxAttempts * (n * MaxRetries)) * Cardinality(Resolvers)
  BY DEF QueriesBounded
<1> DEFINE b == n * MaxRetries
<1>1. Largest(n)
  BY FetchAssumption DEF Largest
<1>2. /\ Rounds(n) \in Nat /\ b \in Nat /\ attempt * b \in Nat /\ sent \in Nat
      /\ MaxAttempts \in Nat /\ attempt \in Nat /\ attempt <= MaxAttempts
      /\ pc \in {"ask", "pause"} => Rounds(n) <= attempt * b
  BY <1>1, RoundsType, FetchAssumption DEF FetchInv, TypeOK
<1>3. pc \notin {"ask", "pause"} => Rounds(n) = 0 \/ Rounds(n) = attempt * b
  BY RoundsAt DEF FetchInv, TypeOK
<1>4. sent <= Rounds(n) * Cardinality(Resolvers)
  BY <1>1 DEF BudgetInv
<1> HIDE DEF b
<1>5. attempt * b <= MaxAttempts * b /\ MaxAttempts * b \in Nat
  BY <1>2, TimesGrows, TimesNext
<1>6. Rounds(n) <= MaxAttempts * b
  BY <1>2, <1>3, <1>5
<1>7. sent <= (MaxAttempts * b) * Cardinality(Resolvers)
  BY <1>2, <1>4, <1>5, <1>6, BudgetKept
<1> QED
  BY <1>7 DEF b

(* No refresh, restart or loss makes a fetch send more queries than its    *)
(* loops allow for the largest batch: with c resolvers, n parts at most,   *)
(* MaxAttempts * n * MaxRetries * c.                                       *)
THEOREM QueriesBoundHolds == Spec => []QueriesBounded
<1>1. Init => BudgetInv
  BY RoundsAt, ResolverCount DEF Init, BudgetInv
<1>2. FetchInv /\ RoomInv /\ [Next]_vars => RoomInv'
  BY RoomStep
<1>3. FetchInv /\ RoomInv /\ BudgetInv /\ [Next]_vars => BudgetInv'
  BY BudgetStep
<1>4. FetchInv /\ RoomInv /\ BudgetInv => QueriesBounded
  BY WithinBudget
<1> QED
  BY <1>1, <1>2, <1>3, <1>4, RoomInit, FetchInvariant, PTL DEF Spec
=============================================================================
