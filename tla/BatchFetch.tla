----------------------------- MODULE BatchFetch -----------------------------
(***************************************************************************)
(* One batch of the feed on its way from thefeed to the page:              *)
(* refreshChunks and buildTXTResponse (server/cmd/thefeed/main.go), the    *)
(* public resolvers that cache answers, and fetchMultipartCiphertext       *)
(* (web/src/lib/dns-fetcher.ts), which collects the parts one by one.      *)
(*                                                                         *)
(* Every refresh encrypts the batch under a fresh nonce, so a chunk is     *)
(* known by its number and its generation.  totals[g] is the number of     *)
(* chunks of generation g, 0 when it lacks the batch.                      *)
(***************************************************************************)
EXTENDS Integers, Sequences, FiniteSets

CONSTANTS Resolvers,   \* the resolvers every query is scattered to
          MaxAttempts, \* maxFetchAttempts
          MaxRetries,  \* maxRetries of fetchTXTScatter
          Sizes,       \* bound: the numbers of chunks a batch may have
          MaxGens,     \* bound: generations published
          MaxRestarts  \* bound: restarts of thefeed

ASSUME FetchAssumption ==
    /\ IsFiniteSet(Resolvers) /\ Resolvers # {}
    /\ MaxAttempts \in Nat \ {0}
    /\ MaxRetries \in Nat \ {0}
    /\ Sizes \subseteq Nat
    /\ MaxGens \in Nat \ {0}
    /\ MaxRestarts \in Nat

VARIABLES gen,       \* the generation chunkCache holds
          totals,    \* history: the chunk counts of the generations so far
          oldest,    \* the oldest generation a resolver may still have cached
          restarts,  \* how often thefeed came up again
          pc,        \* where the fetch is
          attempt,   \* attempt of fetchMultipartCiphertext, from 1
          try,       \* attempt of fetchTXTScatter, from 1
          jobs,      \* the queries of this try, by resolver
          parts,     \* the generations of the parts collected
          attempted, \* totalAttempted of fetchTXTScatter
          counted,   \* totalDnsQueries
          sent,      \* history: queries sent since the fetch began
          startGen,  \* history: gen when the fetch began
          quiet      \* history: this attempt saw one generation only

server == <<gen, totals, oldest, restarts>>
client == <<pc, attempt, try, jobs, parts, attempted, counted>>
ghosts == <<sent, startGen, quiet>>
vars   == <<server, client, ghosts>>

(* asked: under way; coming: answered with a chunk of generation gen (0:   *)
(* something else than a chunk); absent: the server does not answer for    *)
(* this part; lost: the network or the resolver failed.                    *)
Rejected == {"absent", "lost"}
Job      == [state : {"asked", "coming"} \cup Rejected, gen : 0..MaxGens]

Asked == [state |-> "asked", gen |-> 0]

TypeOK ==
    /\ gen \in 1..MaxGens
    /\ totals \in Seq(Sizes) /\ Len(totals) = gen
    /\ oldest \in 1..gen
    /\ restarts \in 0..MaxRestarts
    /\ pc \in {"idle", "ask", "pause", "backoff", "done", "failed"}
    /\ attempt \in 0..MaxAttempts
    /\ try \in 0..MaxRetries /\ (pc = "pause" => try < MaxRetries)
    /\ jobs \in [Resolvers -> Job]
    /\ parts \in Seq(1..gen)
    /\ attempted \in Nat /\ counted \in Nat /\ sent \in Nat
    /\ startGen \in 0..gen
    /\ quiet \in BOOLEAN

Init ==
    /\ gen = 1
    /\ \E n \in Sizes : totals = <<n>>
    /\ oldest = 1 /\ restarts = 0
    /\ pc = "idle" /\ attempt = 0 /\ try = 0
    /\ jobs = [v \in Resolvers |-> Asked]
    /\ parts = <<>>
    /\ attempted = 0 /\ counted = 0 /\ sent = 0
    /\ startGen = 0 /\ quiet = FALSE

-----------------------------------------------------------------------------
(* thefeed and the resolvers.                                              *)

(* A new map replaces the old one in one step, under the lock.             *)
Publish ==
    /\ gen < MaxGens
    /\ gen' = gen + 1
    /\ \E n \in Sizes : totals' = Append(totals, n)
    /\ quiet' = FALSE
    /\ UNCHANGED <<client, sent, startGen>>

(* Mutant: answers live longer than a refresh period.                      *)
RefreshLongTTL == Publish /\ UNCHANGED <<oldest, restarts>>

(* The ticker: 60 s after the last refresh all that was cached before it   *)
(* has outlived its TTL of 15 s.                                           *)
Refresh == Publish /\ oldest' = gen /\ UNCHANGED restarts

(* A restart refreshes at once, before it listens.                         *)
Restart ==
    /\ restarts < MaxRestarts
    /\ restarts' = restarts + 1
    /\ Publish
    /\ UNCHANGED oldest

(* 15 s without a refresh.                                                 *)
CachesExpire ==
    /\ oldest < gen
    /\ oldest' = gen
    /\ UNCHANGED <<gen, totals, restarts, client, ghosts>>

-----------------------------------------------------------------------------
(* fetchTXT: one query to one resolver.                                    *)

NextPart == Len(parts) + 1

Settle(v, job) ==
    /\ pc = "ask" /\ jobs[v] = Asked
    /\ jobs' = [jobs EXCEPT ![v] = job]
    /\ UNCHANGED <<server, pc, attempt, try, parts, attempted, counted,
                   sent, startGen, quiet>>

(* buildTXTResponse answers for the parts it has; a resolver may answer    *)
(* from its cache instead.                                                 *)
Answer(v) ==
    \E g \in oldest..gen :
        /\ NextPart <= totals[g]
        /\ Settle(v, [state |-> "coming", gen |-> g])

(* buildTXTResponse returns false: nobody answers.                         *)
NoSuchPart(v) ==
    /\ NextPart > totals[gen]
    /\ Settle(v, [state |-> "absent", gen |-> 0])

Lose(v) == Settle(v, [state |-> "lost", gen |-> 0])

Garble(v) == Settle(v, [state |-> "coming", gen |-> 0])

-----------------------------------------------------------------------------
(* fetchTXTScatter and fetchMultipartCiphertext.                           *)

(* order.map((r) => fetchTXT(r, qname)) *)
Scatter(n, already) ==
    /\ pc' = "ask"
    /\ try' = n
    /\ jobs' = [v \in Resolvers |-> Asked]
    /\ attempted' = already + Cardinality(Resolvers)
    /\ sent' = sent + Cardinality(Resolvers)

Start ==
    /\ pc = "idle"
    /\ attempt' = 1
    /\ Scatter(1, 0)
    /\ startGen' = gen
    /\ quiet' = (oldest = gen)
    /\ UNCHANGED <<server, parts, counted>>

(* Mutant: of the tries of a scatter only the successful one is counted.   *)
ReceiveCountsLastTry(v, g) ==
    /\ pc = "ask"
    /\ jobs[v] = [state |-> "coming", gen |-> g]
    /\ counted' = counted + Cardinality(Resolvers)

(* Promise.any: the first answer is the scatter's; the others are ignored. *)
Receive(v, g) ==
    /\ pc = "ask"
    /\ jobs[v] = [state |-> "coming", gen |-> g]
    /\ counted' = counted + attempted

Stop(place) ==
    /\ pc' = place
    /\ try' = 0 /\ attempted' = 0
    /\ jobs' = [v \in Resolvers |-> Asked]
    /\ UNCHANGED <<server, attempt, ghosts>>

(* Mutant: parts are checked by their number only.                         *)
MatchesAnything(g) == TRUE

(* parsed.total # firstParsed.total; the first part has nothing to match.  *)
Matches(g) == parts # <<>> => totals[g] = totals[parts[1]]

TakePart(v) ==
    \E g \in 1..gen :
        /\ Receive(v, g) /\ Matches(g)
        /\ parts' = Append(parts, g)
        /\ IF Len(parts') = totals[g]
             THEN Stop("done")
             ELSE /\ Scatter(1, 0)
                  /\ UNCHANGED <<server, attempt, startGen, quiet>>

(* "invalid chunk i/n": caught, retried after a second.                    *)
WrongPart(v) ==
    \E g \in 0..gen :
        /\ Receive(v, g) /\ parts # <<>>
        /\ g # 0 => ~Matches(g)
        /\ Stop("backoff") /\ UNCHANGED parts

(* "invalid TXT chunk header": thrown at once.                             *)
NoHeader(v) ==
    /\ Receive(v, 0) /\ parts = <<>>
    /\ Stop("failed") /\ UNCHANGED parts

AllRejected == \A v \in Resolvers : jobs[v].state \in Rejected

(* Promise.any rejects; two seconds to the next try, if there is one.      *)
TryFails ==
    /\ pc = "ask" /\ AllRejected
    /\ IF try < MaxRetries
         THEN /\ pc' = "pause"
              /\ jobs' = [v \in Resolvers |-> Asked]
              /\ UNCHANGED <<server, attempt, try, attempted, ghosts>>
         ELSE Stop("failed")
    /\ UNCHANGED <<parts, counted>>

TryAgain ==
    /\ pc = "pause"
    /\ Scatter(try + 1, attempted)
    /\ UNCHANGED <<server, attempt, parts, counted, startGen, quiet>>

(* Mutant: the next attempt goes on where the last one stopped.            *)
KeptParts == parts

(* parts is a new array in every attempt.                                  *)
FreshParts == <<>>

(* Mutant: attempts without end.                                           *)
AttemptsLeftAlways == TRUE

(* Mutant: one attempt too many.                                           *)
AttemptsLeftOnceMore == attempt <= MaxAttempts

AttemptsLeft == attempt < MaxAttempts

(* The second is over: the next attempt begins again with part 1.          *)
NextAttempt ==
    /\ pc = "backoff" /\ AttemptsLeft
    /\ attempt' = attempt + 1
    /\ parts' = FreshParts
    /\ Scatter(1, 0)
    /\ quiet' = (oldest = gen)
    /\ UNCHANGED <<server, counted, startGen>>

(* Mutant: the last error is thrown one attempt too late.                  *)
GiveUpLate ==
    /\ pc = "backoff" /\ attempt > MaxAttempts
    /\ Stop("failed")
    /\ UNCHANGED <<parts, counted>>

GiveUp ==
    /\ pc = "backoff" /\ ~AttemptsLeft
    /\ Stop("failed")
    /\ UNCHANGED <<parts, counted>>

(* The page has taken the result and will fetch again some time.           *)
Forget ==
    /\ pc \in {"done", "failed"}
    /\ pc' = "idle" /\ attempt' = 0 /\ parts' = <<>> /\ counted' = 0
    /\ sent' = 0 /\ startGen' = 0 /\ quiet' = FALSE
    /\ UNCHANGED <<server, try, jobs, attempted>>

-----------------------------------------------------------------------------
Query(v) == Answer(v) \/ NoSuchPart(v) \/ Lose(v) \/ Garble(v)

Client ==
    \/ \E v \in Resolvers : TakePart(v) \/ WrongPart(v) \/ NoHeader(v)
    \/ TryFails \/ TryAgain \/ NextAttempt \/ GiveUp

Next ==
    \/ Refresh \/ Restart \/ CachesExpire
    \/ \E v \in Resolvers : Query(v)
    \/ Start \/ Client \/ Forget

Spec == Init /\ [][Next]_vars

(* An HTTP request is answered or fails some time, timers fire, and the    *)
(* browser runs what is ready.  No server or network behaves well.         *)
FairSpec ==
    /\ Spec
    /\ \A v \in Resolvers : WF_vars(Query(v))
    /\ WF_vars(Client)

-----------------------------------------------------------------------------
(* Properties.                                                             *)

(* All parts are of one generation: what AES-GCM accepts.                  *)
Whole == \A i \in 1..Len(parts) : parts[i] = parts[1]

(* The parts of a finished fetch are those of the count the first part     *)
(* announced, every one of them from a batch with that count: a rotation   *)
(* that changes the count never gets through.                              *)
CountsAgree ==
    pc = "done" => \A i \in 1..Len(parts) : totals[parts[i]] = Len(parts)

(* An attempt during which nothing was refreshed, begun when the caches    *)
(* had caught up, yields the batch whole, whatever earlier attempts saw.   *)
QuietAttemptIsWhole == pc = "done" /\ quiet => Whole

(* dnsQueryCount, which the page shows, is the number of queries sent,     *)
(* those of the failed attempts included.                                  *)
QueryCountExact == pc = "done" => counted = sent

(* A fetch asks no more often than its two loops allow: every part, in     *)
(* every attempt, in every try, once of every resolver, for a batch of n   *)
(* parts at most.  It bounds the requests one refresh of the page makes.   *)
QueriesBounded ==
    \A n \in Sizes \ {0} :
        (\A m \in Sizes : m <= n) =>
            sent <= (MaxAttempts * (n * MaxRetries)) * Cardinality(Resolvers)

(* A fetch ends, whatever is lost and however often the batch rotates.     *)
EveryFetchEnds == pc \in {"ask", "pause", "backoff"} ~> pc \in {"done", "failed"}

(* With the decryption that follows it, the fetch is an atomic read of a   *)
(* published generation, one refresh behind at most, plus the restarts     *)
(* that made thefeed refresh ahead of its ticker.                          *)
Read == INSTANCE BatchRead WITH
    lag      <- 1 + restarts,
    phase    <- CASE pc = "idle" -> "idle"
                  [] pc = "done" /\ Whole -> "read"
                  [] pc = "failed" \/ (pc = "done" /\ ~Whole) -> "failed"
                  [] OTHER -> "reading",
    result   <- IF pc = "done" /\ Whole THEN parts[1] ELSE 0

ImplementsRead == Read!Spec

(* dns-fetcher.ts:107 says of a refresh in the middle of a fetch: "Cache   *)
(* might have rotated on the server mid-fetch, delay and retry".  So no    *)
(* mixture of generations is handed to the page, and a fetch that has      *)
(* begun to collect parts of a batch that is still there does not fail     *)
(* before its last attempt because the next part is not.                   *)
RotationIsRetried ==
    [][/\ pc' = "done" => Whole'
       /\ /\ pc = "ask" /\ pc' = "failed"
          /\ parts # <<>> /\ totals[gen] > 0
          /\ \A v \in Resolvers : jobs[v].state = "absent"
          => attempt = MaxAttempts]_vars
=============================================================================
