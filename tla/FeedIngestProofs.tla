-------------------------- MODULE FeedIngestProofs --------------------------
(***************************************************************************)
(* The ingestion of any number of feeds, by any number of workers at a     *)
(* time, for any number of restarts.                                       *)
(***************************************************************************)
EXTENDS FeedIngest, FiniteSetTheorems, TLAPS

LEMMA ListFacts ==
  /\ IsFiniteSet(Workers)
  /\ \A w \in Workers : List[w] \in Feeds
  /\ Workers \subseteq Nat
<1>1. List \in Seq(Feeds) /\ Len(List) \in Nat /\ Workers = 1..Len(List)
  BY IngestAssumption DEF Workers
<1>2. \A w \in Workers : List[w] \in Feeds
  BY <1>1
<1>3. IsFiniteSet(1..Len(List))
  BY <1>1, FS_Interval
<1> QED
  BY <1>1, <1>2, <1>3

LEMMA DateFacts == Dates = 0..Unparsed /\ Unparsed \in Nat /\ 0 \in Dates /\ Dates \subseteq Nat
                   /\ 1..MaxTime \subseteq Dates
  BY IngestAssumption DEF Dates, Unparsed

(* Everything of TypeOK but the semaphore.                                 *)
Types ==
    /\ now \in 1..MaxTime
    /\ listing \in [Feeds -> SUBSET Item]
    /\ top \in [Feeds -> Dates]
    /\ orderly \in [Feeds -> BOOLEAN]
    /\ cursor \in [Feeds -> Dates]
    /\ rows \in [Posts -> 0..MaxTime]
    /\ stored \subseteq Posts
    /\ phase \in {"refresh", "sleep"}
    /\ pc \in [Workers -> Busy \cup {"listed", "done"}]
    /\ since \in [Workers -> Dates]
    /\ batch \in [Workers -> SUBSET Item]
    /\ newest \in [Workers -> Dates]
    /\ crashes \in 0..MaxCrashes

LEMMA TypeSplit == TypeOK <=> Types /\ Cardinality(Active) <= Slots
  BY DEF TypeOK, Types

LEMMA TypesInit == Init => Types
  BY IngestAssumption, DateFacts DEF Init, Types, Busy, Dates

LEMMA ReturnTypes ==
  ASSUME Types, NEW w \in Workers, Return(w)
  PROVE  /\ pc' \in [Workers -> Busy \cup {"listed", "done"}]
         /\ since' \in [Workers -> Dates]
         /\ batch' \in [Workers -> SUBSET Item]
         /\ newest' \in [Workers -> Dates]
  BY DateFacts DEF Types, Return, Move

LEMMA TakeTypes ==
  ASSUME Types, NEW w \in Workers, NEW items \in SUBSET Item, Take(w, items)
  PROVE  /\ pc' \in [Workers -> Busy \cup {"listed", "done"}]
         /\ since' \in [Workers -> Dates]
         /\ batch' \in [Workers -> SUBSET Item]
         /\ newest' \in [Workers -> Dates]
<1>1. CASE items = {}
  BY <1>1, ReturnTypes DEF Take
<1>2. CASE items # {}
  <2>1. PICK i \in items : newest' = [newest EXCEPT ![w] = i.date]
    BY <1>2 DEF Take
  <2>2. i.date \in Dates
    BY DEF Item
  <2> QED
    BY <1>2, <2>1, <2>2 DEF Take, Types, Move, Busy
<1> QED
  BY <1>1, <1>2

LEMMA TypesStep == Types /\ [Next]_vars => Types'
<1> SUFFICES ASSUME Types, [Next]_vars PROVE Types'
  OBVIOUS
<1> USE DEF upstream, store, workers
<1>1. ASSUME NEW w \in Workers, Start(w) PROVE Types'
  BY <1>1 DEF Types, Start, Move, Busy
<1>2. ASSUME NEW w \in Workers, GetCursor(w) PROVE Types'
  <2>1. PICK c \in Reads(w) : since' = [since EXCEPT ![w] = c]
    BY <1>2 DEF GetCursor
  <2>2. c \in Dates
    BY ListFacts, DateFacts DEF Reads, Types
  <2> QED
    BY <1>2, <2>1, <2>2 DEF GetCursor, Types, Move, Busy
<1>3. ASSUME NEW w \in Workers, Fetch(w) PROVE Types'
  <2>1. PICK items \in SUBSET Item : Take(w, items)
    <3>1. CASE FetchRSS(w)
      <4>1. {i \in listing[List[w]] : Newer(i.date, since[w])} \in SUBSET Item
        BY ListFacts DEF Types
      <4> QED
        BY <3>1, <4>1 DEF FetchRSS
    <3>2. CASE FetchTelegram(w)
      <4>1. PICK i \in listing[List[w]] :
               Take(w, IF now > since[w] THEN {[post |-> i.post, date |-> now]} ELSE {})
        BY <3>2 DEF FetchTelegram
      <4>2. i \in Item
        BY ListFacts DEF Types
      <4>3. [post |-> i.post, date |-> now] \in Item
        BY <4>2, DateFacts DEF Item, Types
      <4> QED
        BY <4>1, <4>3
    <3> QED
      BY <1>3, <3>1, <3>2 DEF Fetch
  <2> QED
    BY <1>3, <2>1, TakeTypes DEF Fetch, Types
<1>4. ASSUME NEW w \in Workers, FetchFails(w) \/ InsertFails(w) PROVE Types'
  BY <1>4, ReturnTypes DEF FetchFails, InsertFails, Types
<1>5. ASSUME NEW w \in Workers, Insert(w) PROVE Types'
  <2>1. PICK ps \in SUBSET PostsOf(batch[w]) : Add(ps)
    BY <1>5 DEF Insert
  <2>2. ps \subseteq Posts
    BY DEF PostsOf, Types, Item
  <2>3. rows' \in [Posts -> 0..MaxTime] /\ stored' \subseteq Posts
    BY <2>1, <2>2, IngestAssumption DEF Add, Types
  <2> QED
    BY <1>5, <2>3 DEF Insert, Types, Move, Busy
<1>6. ASSUME NEW w \in Workers, Advance(w) PROVE Types'
  <2>1. cursor' \in [Feeds -> Dates]
    BY <1>6, ListFacts DEF Advance, Types
  <2> QED
    BY <1>6, <2>1, ReturnTypes DEF Advance, Types
<1>7. CASE Prune
  BY <1>7, IngestAssumption DEF Prune, Types
<1>8. CASE Wake
  BY <1>8 DEF Wake, Types
<1>9. ASSUME NEW f \in Feeds, Publish(f) \/ Withdraw(f) PROVE Types'
  <2>1. CASE Publish(f)
    <3>1. PICK i \in Offers[f] :
            /\ listing' = [listing EXCEPT ![f] = @ \cup {i}]
            /\ top' = [top EXCEPT ![f] = IF i.date > @ THEN i.date ELSE @]
            /\ orderly' = [orderly EXCEPT ![f] = @ /\ i.date > top[f]]
            /\ UNCHANGED <<now, store, phase, workers, crashes>>
      BY <2>1 DEF Publish
    <3>2. i \in Item /\ i.date \in Dates
      BY IngestAssumption DEF Item
    <3>3. listing' \in [Feeds -> SUBSET Item] /\ top' \in [Feeds -> Dates]
      BY <3>1, <3>2 DEF Types
    <3>4. orderly' \in [Feeds -> BOOLEAN]
      BY <3>1 DEF Types
    <3> QED
      BY <3>1, <3>3, <3>4 DEF Types
  <2>2. CASE Withdraw(f)
    BY <2>2 DEF Withdraw, Types
  <2> QED
    BY <1>9, <2>1, <2>2
<1>10. CASE Tick
  BY <1>10, IngestAssumption DEF Tick, Types
<1>11. CASE Crash
  BY <1>11, IngestAssumption, DateFacts DEF Crash, Types
<1>12. CASE UNCHANGED vars
  BY <1>12 DEF vars, Types
<1> QED
  BY <1>1, <1>2, <1>3, <1>4, <1>5, <1>6, <1>7, <1>8, <1>9, <1>10, <1>11,
     <1>12 DEF Next, Ingest

LEMMA ActiveFinite == IsFiniteSet(Active) /\ Cardinality(Active) \in Nat
<1>1. Active \subseteq Workers
  BY DEF Active
<1> QED
  BY <1>1, ListFacts, FS_Subset, FS_CardinalityType

(* A step that starts no worker takes no slot.                             *)
LEMMA NoMoreActive ==
  ASSUME Cardinality(Active) <= Slots, Active' \subseteq Active
  PROVE  Cardinality(Active') <= Slots
<1>1. Cardinality(Active') <= Cardinality(Active) /\ Cardinality(Active') \in Nat
  BY ActiveFinite, FS_Subset, FS_CardinalityType
<1> QED
  BY <1>1, ActiveFinite, IngestAssumption

LEMMA SlotsStep ==
  ASSUME Types, Cardinality(Active) <= Slots, [Next]_vars
  PROVE  Cardinality(Active') <= Slots
<1> USE DEF upstream, store, workers
<1>1. ASSUME NEW w \in Workers, Start(w) PROVE Cardinality(Active') <= Slots
  <2>1. w \notin Active /\ Active' = Active \cup {w}
    BY <1>1 DEF Start, Move, Active, Busy, Types
  <2>2. Cardinality(Active') = Cardinality(Active) + 1
    BY <2>1, ActiveFinite, FS_AddElement
  <2>3. Cardinality(Active) < Slots
    BY <1>1 DEF Start, SlotFree
  <2> QED
    BY <2>2, <2>3, ActiveFinite, IngestAssumption
<1>2. ASSUME NEW w \in Workers, pc[w] \in Busy, NEW place, Move(w, place)
      PROVE  Active' \subseteq Active
  BY <1>2 DEF Move, Active, Types
<1>3. ASSUME NEW w \in Workers,
             \/ GetCursor(w) \/ Fetch(w) \/ FetchFails(w)
             \/ Insert(w) \/ InsertFails(w) \/ Advance(w)
      PROVE  Active' \subseteq Active
  <2>1. pc[w] \in Busy /\ \E place : Move(w, place)
    BY <1>3 DEF GetCursor, Fetch, FetchRSS, FetchTelegram, Take, Return,
                FetchFails, Insert, InsertFails, Advance, Busy
  <2> QED
    BY <1>2, <2>1
<1>4. CASE Wake \/ Crash
  <2>1. \A w \in Workers : pc'[w] = "listed"
    BY <1>4 DEF Wake, Crash
  <2>2. Active' = {}
    BY <2>1 DEF Active, Busy
  <2> QED
    BY <2>2, NoMoreActive
<1>5. CASE Prune \/ Tick \/ UNCHANGED vars
  BY <1>5 DEF Prune, Tick, vars, Active
<1>6. ASSUME NEW f \in Feeds, Publish(f) \/ Withdraw(f)
      PROVE  Active' \subseteq Active
  BY <1>6 DEF Publish, Withdraw, Active
<1> QED
  BY <1>1, <1>3, <1>4, <1>5, <1>6, NoMoreActive DEF Next, Ingest

(* Types, and at no time more fetches under way than the semaphore has     *)
(* room for, whichever way workers end and however often thefeed restarts. *)
THEOREM TypeCorrect == Spec => []TypeOK
<1>1. Init => TypeOK
  <2> SUFFICES ASSUME Init PROVE TypeOK
    OBVIOUS
  <2>1. Active = {}
    BY DEF Init, Active, Busy
  <2> QED
    BY <2>1, TypesInit, TypeSplit, FS_EmptySet, IngestAssumption
<1>2. TypeOK /\ [Next]_vars => TypeOK'
  <2> SUFFICES ASSUME TypeOK, [Next]_vars PROVE TypeOK'
    OBVIOUS
  <2>1. Types' /\ Cardinality(Active') <= Slots
    BY TypeSplit, TypesStep, SlotsStep
  <2> QED
    BY <2>1 DEF TypeOK, Types
<1> QED
  BY <1>1, <1>2, PTL DEF Spec

-----------------------------------------------------------------------------
(* No item is left behind.                                                 *)

(* Of what orderly f lists, the cursor value d has passed stored posts     *)
(* only.                                                                   *)
Covered(f, d) ==
    orderly[f] =>
        \A i \in listing[f] : i.post \in stored \/ Newer(i.date, d)

RSSWorkers == {w \in Workers : List[w] \notin Telegram}

(* No date a worker or a cursor holds is later than what was listed.       *)
TopInv ==
    /\ \A f \in Feeds \ Telegram :
          /\ cursor[f] <= top[f]
          /\ \A i \in listing[f] : i.date <= top[f]
    /\ \A w \in RSSWorkers : since[w] <= top[List[w]] /\ newest[w] <= top[List[w]]

(* The cursors are sound, those in the workers' hands too, and a batch     *)
(* with what is stored already makes its own last date a sound cursor.     *)
CoverInv ==
    /\ \A f \in Feeds \ Telegram : Covered(f, cursor[f])
    /\ \A w \in RSSWorkers :
          /\ Covered(List[w], since[w])
          /\ pc[w] = "insert" /\ orderly[List[w]] =>
                \A i \in listing[List[w]] :
                    i.date <= newest[w] => i.post \in PostsOf(batch[w]) \cup stored
          /\ pc[w] = "advance" /\ orderly[List[w]] =>
                \A i \in listing[List[w]] : i.date <= newest[w] => i.post \in stored

IngestInv == Types /\ TopInv /\ CoverInv

LEMMA IngestInit == Init => IngestInv
<1> SUFFICES ASSUME Init PROVE IngestInv
  OBVIOUS
<1>1. Types
  BY TypesInit
<1>2. TopInv
  BY ListFacts DEF Init, TopInv, RSSWorkers
<1>3. CoverInv
  BY ListFacts DEF Init, CoverInv, Covered, RSSWorkers
<1> QED
  BY <1>1, <1>2, <1>3 DEF IngestInv

(* What the worker of an RSS feed is left with: nothing, or the newer      *)
(* items and the greatest of their dates.                                  *)
LEMMA FetchRSSFacts ==
  ASSUME Types, NEW w \in Workers, FetchRSS(w)
  PROVE  \/ Return(w)
         \/ /\ pc' = [pc EXCEPT ![w] = "insert"]
            /\ UNCHANGED since
            /\ batch'[w] = {i \in listing[List[w]] : Newer(i.date, since[w])}
            /\ \A u \in Workers \ {w} : batch'[u] = batch[u] /\ newest'[u] = newest[u]
            /\ \E i \in listing[List[w]] : newest'[w] = i.date
            /\ \A i \in batch'[w] : i.date <= newest'[w]
  BY DEF FetchRSS, Take, Move, Types

(* A step that leaves feeds and cursors alone, forgets no stored post and  *)
(* only lets workers return.                                               *)
LEMMA WorkersReturn ==
  ASSUME IngestInv, UNCHANGED <<upstream, cursor>>, stored \subseteq stored',
         \A w \in RSSWorkers :
            \/ since'[w] = since[w] /\ newest'[w] = newest[w] /\ batch'[w] = batch[w]
               /\ pc'[w] = pc[w]
            \/ since'[w] = 0 /\ newest'[w] = 0 /\ pc'[w] \in {"listed", "done"}
  PROVE  TopInv' /\ CoverInv'
<1> USE DEF upstream
<1>1. \A f \in Feeds : cursor'[f] = cursor[f] /\ listing'[f] = listing[f]
                       /\ top'[f] = top[f] /\ orderly'[f] = orderly[f]
  OBVIOUS
<1>2. \A w \in RSSWorkers : List[w] \in Feeds \ Telegram
  BY ListFacts DEF RSSWorkers
<1>3. RSSWorkers' = RSSWorkers
  BY DEF RSSWorkers
<1>4. \A f \in Feeds : top[f] >= 0
  BY DateFacts DEF IngestInv, Types
<1>5. TopInv'
  BY <1>1, <1>2, <1>3, <1>4 DEF IngestInv, TopInv
<1>6. \A f \in Feeds, d \in Dates : Covered(f, d) => Covered(f, d)'
  BY <1>1 DEF Covered
<1>7. \A f \in Feeds \ Telegram : Covered(f, cursor[f])'
  BY <1>1, <1>6 DEF IngestInv, CoverInv, Types
<1>8. ASSUME NEW w \in RSSWorkers
      PROVE  /\ Covered(List[w], since[w])'
             /\ pc'[w] = "insert" /\ orderly'[List[w]] =>
                   \A i \in listing'[List[w]] :
                       i.date <= newest'[w] => i.post \in PostsOf(batch'[w]) \cup stored'
             /\ pc'[w] = "advance" /\ orderly'[List[w]] =>
                   \A i \in listing'[List[w]] : i.date <= newest'[w] => i.post \in stored'
  <2>1. CASE /\ since'[w] = since[w] /\ newest'[w] = newest[w] /\ batch'[w] = batch[w]
             /\ pc'[w] = pc[w]
    BY <1>1, <1>2, <2>1 DEF IngestInv, CoverInv, Covered
  <2>2. CASE since'[w] = 0 /\ newest'[w] = 0 /\ pc'[w] \in {"listed", "done"}
    BY <2>2 DEF Covered, Newer
  <2> QED
    BY <2>1, <2>2
<1>9. CoverInv'
  BY <1>3, <1>7, <1>8 DEF CoverInv
<1> QED
  BY <1>5, <1>9

LEMMA PublishStep ==
  ASSUME IngestInv, NEW f \in Feeds, Publish(f)
  PROVE  TopInv' /\ CoverInv'
<1>1. PICK i \in Offers[f] :
        /\ listing' = [listing EXCEPT ![f] = @ \cup {i}]
        /\ top' = [top EXCEPT ![f] = IF i.date > @ THEN i.date ELSE @]
        /\ orderly' = [orderly EXCEPT ![f] = @ /\ i.date > top[f]]
        /\ UNCHANGED <<now, store, phase, workers, crashes>>
  BY DEF Publish
<1>2. i \in Item /\ i.date \in Nat /\ \A g \in Feeds : top[g] \in Nat /\ cursor[g] \in Nat
  BY IngestAssumption, DateFacts DEF Item, IngestInv, Types
<1>3. /\ UNCHANGED <<cursor, stored, pc, since, batch, newest>>
      /\ listing'[f] = listing[f] \cup {i}
      /\ top'[f] >= top[f] /\ top'[f] >= i.date
      /\ \A g \in Feeds \ {f} : /\ listing'[g] = listing[g] /\ top'[g] = top[g]
                                /\ orderly'[g] = orderly[g]
  BY <1>1, <1>2 DEF IngestInv, Types, store, workers
<1>4. orderly'[f] => orderly[f] /\ i.date > top[f]
  BY <1>1 DEF IngestInv, Types
<1>5. \A w \in RSSWorkers : /\ List[w] \in Feeds \ Telegram
                            /\ since[w] \in Nat /\ newest[w] \in Nat
  BY ListFacts, DateFacts DEF RSSWorkers, IngestInv, Types
<1>6. RSSWorkers' = RSSWorkers
  BY DEF RSSWorkers
<1>7. \A g \in Feeds : \A j \in listing[g] : j.date \in Nat
  BY DateFacts DEF IngestInv, Types, Item
<1>8. TopInv'
  <2>1. ASSUME NEW g \in Feeds \ Telegram
        PROVE  cursor'[g] <= top'[g] /\ \A j \in listing'[g] : j.date <= top'[g]
    <3>1. cursor[g] <= top[g] /\ \A j \in listing[g] : j.date <= top[g]
      BY DEF IngestInv, TopInv
    <3>2. CASE g = f
      BY <1>1, <1>2, <1>3, <1>7, <3>1, <3>2
    <3>3. CASE g # f
      BY <1>3, <3>1, <3>3
    <3> QED
      BY <3>2, <3>3
  <2>2. ASSUME NEW w \in RSSWorkers
        PROVE  since'[w] <= top'[List[w]] /\ newest'[w] <= top'[List[w]]
    <3>1. since[w] <= top[List[w]] /\ newest[w] <= top[List[w]]
      BY DEF IngestInv, TopInv
    <3>2. top'[List[w]] >= top[List[w]] /\ top'[List[w]] \in Nat
      BY <1>1, <1>2, <1>3, <1>5 DEF IngestInv, Types
    <3> QED
      BY <1>2, <1>3, <1>5, <3>1, <3>2
  <2> QED
    BY <1>6, <2>1, <2>2 DEF TopInv
<1>9. ASSUME NEW g \in Feeds, NEW d \in Nat, d <= top[g], Covered(g, d)
      PROVE  Covered(g, d)'
  <2>1. CASE g = f
    BY <1>2, <1>3, <1>4, <1>9, <2>1 DEF Covered, Newer
  <2>2. CASE g # f
    BY <1>3, <1>9, <2>2 DEF Covered
  <2> QED
    BY <2>1, <2>2
<1>10. \A g \in Feeds \ Telegram : Covered(g, cursor[g])'
  <2> TAKE g \in Feeds \ Telegram
  <2>1. Covered(g, cursor[g]) /\ cursor[g] <= top[g]
    BY DEF IngestInv, CoverInv, TopInv
  <2>2. cursor'[g] = cursor[g]
    BY <1>3
  <2> QED
    BY <1>2, <1>9, <2>1, <2>2 DEF Covered
<1>11. ASSUME NEW w \in RSSWorkers
       PROVE  /\ Covered(List[w], since[w])'
              /\ pc'[w] = "insert" /\ orderly'[List[w]] =>
                    \A j \in listing'[List[w]] :
                        j.date <= newest'[w] => j.post \in PostsOf(batch'[w]) \cup stored'
              /\ pc'[w] = "advance" /\ orderly'[List[w]] =>
                    \A j \in listing'[List[w]] : j.date <= newest'[w] => j.post \in stored'
  <2>1. /\ Covered(List[w], since[w]) /\ since[w] <= top[List[w]]
        /\ newest[w] <= top[List[w]]
    BY DEF IngestInv, CoverInv, TopInv
  <2>2. Covered(List[w], since[w])'
    BY <1>3, <1>5, <1>9, <2>1 DEF Covered
  <2>3. orderly'[List[w]] => /\ orderly[List[w]]
                             /\ \A j \in listing'[List[w]] :
                                   j.date <= newest[w] => j \in listing[List[w]]
    BY <1>2, <1>3, <1>4, <1>5, <2>1
  <2> QED
    BY <1>3, <2>2, <2>3 DEF IngestInv, CoverInv
<1>12. CoverInv'
  BY <1>6, <1>10, <1>11 DEF CoverInv
<1> QED
  BY <1>8, <1>12

LEMMA WithdrawStep ==
  ASSUME IngestInv, NEW f \in Feeds, Withdraw(f)
  PROVE  TopInv' /\ CoverInv'
<1>1. /\ UNCHANGED <<cursor, stored, pc, since, batch, newest, top, orderly>>
      /\ \A g \in Feeds : listing'[g] \subseteq listing[g]
  BY DEF Withdraw, store, workers, IngestInv, Types
<1>2. \A w \in RSSWorkers : List[w] \in Feeds
  BY ListFacts DEF RSSWorkers
<1>3. RSSWorkers' = RSSWorkers
  BY DEF RSSWorkers
<1>4. TopInv'
  BY <1>1, <1>2, <1>3 DEF IngestInv, TopInv
<1>5. \A g \in Feeds \ Telegram : Covered(g, cursor[g])'
  BY <1>1 DEF IngestInv, CoverInv, Covered
<1>6. \A w \in RSSWorkers : Covered(List[w], since[w])'
  BY <1>1, <1>2 DEF IngestInv, CoverInv, Covered
<1>7. CoverInv'
  BY <1>1, <1>2, <1>3, <1>5, <1>6 DEF IngestInv, CoverInv
<1> QED
  BY <1>4, <1>7

(* A worker w reaches its next step, with new values in its hands.         *)
LEMMA WorkerStep ==
  ASSUME IngestInv, UNCHANGED <<upstream, cursor>>, stored \subseteq stored',
         NEW w \in Workers,
         \A u \in Workers \ {w} : /\ since'[u] = since[u] /\ newest'[u] = newest[u]
                                  /\ batch'[u] = batch[u] /\ pc'[u] = pc[u],
         w \in RSSWorkers =>
             /\ since'[w] <= top[List[w]] /\ newest'[w] <= top[List[w]]
             /\ Covered(List[w], since[w]) => Covered(List[w], since[w])'
             /\ pc'[w] = "insert" /\ orderly[List[w]] =>
                   \A i \in listing[List[w]] :
                       i.date <= newest'[w] => i.post \in PostsOf(batch'[w]) \cup stored'
             /\ pc'[w] = "advance" /\ orderly[List[w]] =>
                   \A i \in listing[List[w]] : i.date <= newest'[w] => i.post \in stored'
  PROVE  TopInv' /\ CoverInv'
<1> USE DEF upstream
<1>1. \A f \in Feeds : cursor'[f] = cursor[f] /\ listing'[f] = listing[f]
                       /\ top'[f] = top[f] /\ orderly'[f] = orderly[f]
  OBVIOUS
<1>2. \A u \in RSSWorkers : List[u] \in Feeds \ Telegram /\ u \in Workers
  BY ListFacts DEF RSSWorkers
<1>3. RSSWorkers' = RSSWorkers
  BY DEF RSSWorkers
<1>4. TopInv'
  BY <1>1, <1>2, <1>3 DEF IngestInv, TopInv
<1>5. \A f \in Feeds \ Telegram : Covered(f, cursor[f])'
  BY <1>1 DEF IngestInv, CoverInv, Covered
<1>6. ASSUME NEW u \in RSSWorkers
      PROVE  /\ Covered(List[u], since[u])'
             /\ pc'[u] = "insert" /\ orderly'[List[u]] =>
                   \A i \in listing'[List[u]] :
                       i.date <= newest'[u] => i.post \in PostsOf(batch'[u]) \cup stored'
             /\ pc'[u] = "advance" /\ orderly'[List[u]] =>
                   \A i \in listing'[List[u]] : i.date <= newest'[u] => i.post \in stored'
  <2>1. CASE u = w
    BY <1>1, <1>2, <2>1 DEF IngestInv, CoverInv
  <2>2. CASE u # w
    BY <1>1, <1>2, <2>2 DEF IngestInv, CoverInv, Covered
  <2> QED
    BY <2>1, <2>2
<1>7. CoverInv'
  BY <1>3, <1>5, <1>6 DEF CoverInv
<1> QED
  BY <1>4, <1>7

LEMMA CoverKept ==
  ASSUME UNCHANGED <<upstream, since>>, stored \subseteq stored', NEW w \in Workers,
         Covered(List[w], since[w])
  PROVE  Covered(List[w], since[w])'
  BY DEF Covered, upstream

LEMMA StartStep ==
  ASSUME IngestInv, NEW w \in Workers, Start(w)
  PROVE  TopInv' /\ CoverInv'
<1>1. /\ UNCHANGED <<upstream, cursor, stored, since, newest, batch>>
      /\ pc'[w] = "begin" /\ \A u \in Workers \ {w} : pc'[u] = pc[u]
  BY DEF Start, Move, store, IngestInv, Types
<1> QED
  BY <1>1, WorkerStep, CoverKept DEF IngestInv, TopInv

LEMMA GetCursorStep ==
  ASSUME IngestInv, NEW w \in Workers, GetCursor(w)
  PROVE  TopInv' /\ CoverInv'
<1>1. /\ UNCHANGED <<upstream, cursor, stored, newest, batch>>
      /\ pc'[w] = "fetch" /\ since'[w] \in {0, cursor[List[w]]}
      /\ \A u \in Workers \ {w} : pc'[u] = pc[u] /\ since'[u] = since[u]
  BY DEF GetCursor, Reads, Move, store, IngestInv, Types
<1>2. ASSUME w \in RSSWorkers
      PROVE  since'[w] <= top[List[w]] /\ Covered(List[w], since[w])'
  <2>1. List[w] \in Feeds \ Telegram
    BY <1>2, ListFacts DEF RSSWorkers
  <2>2. /\ cursor[List[w]] <= top[List[w]] /\ top[List[w]] \in Nat
        /\ Covered(List[w], cursor[List[w]])
    BY <2>1, DateFacts DEF IngestInv, TopInv, CoverInv, Types
  <2>3. CASE since'[w] = 0
    BY <2>2, <2>3 DEF Covered, Newer
  <2>4. CASE since'[w] = cursor[List[w]]
    BY <1>1, <2>2, <2>4 DEF Covered, upstream
  <2> QED
    BY <1>1, <2>3, <2>4
<1> QED
  BY <1>1, <1>2, WorkerStep DEF IngestInv, TopInv

(* A worker that returns lets go of what it held.                          *)
LEMMA ReturnFacts ==
  ASSUME Types, NEW w \in Workers, Return(w)
  PROVE  /\ since'[w] = 0 /\ newest'[w] = 0 /\ pc'[w] = "done"
         /\ \A u \in Workers \ {w} : /\ since'[u] = since[u] /\ newest'[u] = newest[u]
                                     /\ batch'[u] = batch[u] /\ pc'[u] = pc[u]
  BY DEF Return, Move, Types

LEMMA ReturnStep ==
  ASSUME IngestInv, NEW w \in Workers, Return(w),
         UNCHANGED <<upstream, cursor, stored>>
  PROVE  TopInv' /\ CoverInv'
<1>1. \A u \in RSSWorkers :
         \/ since'[u] = since[u] /\ newest'[u] = newest[u] /\ batch'[u] = batch[u]
            /\ pc'[u] = pc[u]
         \/ since'[u] = 0 /\ newest'[u] = 0 /\ pc'[u] \in {"listed", "done"}
  BY ReturnFacts DEF RSSWorkers, IngestInv
<1> QED
  BY <1>1, WorkersReturn

LEMMA FetchStep ==
  ASSUME IngestInv, NEW w \in Workers, Fetch(w)
  PROVE  TopInv' /\ CoverInv'
<1>1. UNCHANGED <<upstream, cursor, stored>>
  BY DEF Fetch, store
<1>2. CASE Return(w)
  BY <1>1, <1>2, ReturnStep
<1>3. CASE FetchTelegram(w) /\ ~Return(w)
  <2>1. /\ w \notin RSSWorkers
        /\ \A u \in Workers \ {w} : /\ since'[u] = since[u] /\ newest'[u] = newest[u]
                                    /\ batch'[u] = batch[u] /\ pc'[u] = pc[u]
    BY <1>3 DEF FetchTelegram, Take, Move, RSSWorkers, IngestInv, Types
  <2> QED
    BY <1>1, <2>1, WorkerStep
<1>4. CASE FetchRSS(w) /\ ~Return(w)
  <2>1. /\ pc' = [pc EXCEPT ![w] = "insert"]
        /\ UNCHANGED since
        /\ batch'[w] = {i \in listing[List[w]] : Newer(i.date, since[w])}
        /\ \A u \in Workers \ {w} : batch'[u] = batch[u] /\ newest'[u] = newest[u]
        /\ \E i \in listing[List[w]] : newest'[w] = i.date
    BY <1>4, FetchRSSFacts DEF IngestInv
  <2>2. pc'[w] = "insert" /\ \A u \in Workers \ {w} : pc'[u] = pc[u]
    BY <2>1 DEF IngestInv, Types
  <2>3. ASSUME w \in RSSWorkers
        PROVE  /\ since'[w] <= top[List[w]] /\ newest'[w] <= top[List[w]]
               /\ orderly[List[w]] =>
                     \A i \in listing[List[w]] :
                         i.date <= newest'[w] => i.post \in PostsOf(batch'[w]) \cup stored'
    <3>1. List[w] \in Feeds \ Telegram
      BY <2>3, ListFacts DEF RSSWorkers
    <3>2. /\ since[w] <= top[List[w]]
          /\ \A i \in listing[List[w]] : i.date <= top[List[w]]
          /\ Covered(List[w], since[w])
      BY <2>3, <3>1 DEF IngestInv, TopInv, CoverInv
    <3> QED
      BY <1>1, <2>1, <3>2 DEF Covered, PostsOf
  <2> QED
    BY <1>1, <2>1, <2>2, <2>3, WorkerStep, CoverKept
<1> QED
  BY <1>2, <1>3, <1>4 DEF Fetch

LEMMA InsertStep ==
  ASSUME ~StatementsFail, IngestInv, NEW w \in Workers, Insert(w)
  PROVE  TopInv' /\ CoverInv'
<1>1. /\ UNCHANGED <<upstream, cursor, since, newest, batch>>
      /\ stored' = stored \cup PostsOf(batch[w])
      /\ pc[w] = "insert" /\ pc'[w] = "advance"
      /\ \A u \in Workers \ {w} : pc'[u] = pc[u]
  BY DEF Insert, Add, Move, IngestInv, Types
<1>2. w \in RSSWorkers =>
         /\ since'[w] <= top[List[w]] /\ newest'[w] <= top[List[w]]
         /\ orderly[List[w]] =>
               \A i \in listing[List[w]] : i.date <= newest'[w] => i.post \in stored'
  BY <1>1 DEF IngestInv, TopInv, CoverInv
<1> QED
  BY <1>1, <1>2, WorkerStep, CoverKept

LEMMA AdvanceStep ==
  ASSUME IngestInv, NEW w \in Workers, Advance(w)
  PROVE  TopInv' /\ CoverInv'
<1>1. UNCHANGED <<upstream, stored>> /\ Return(w) /\ pc[w] = "advance"
  BY DEF Advance
<1>2. CASE UNCHANGED cursor
  BY <1>1, <1>2, ReturnStep
<1>3. CASE /\ newest[w] > since[w]
           /\ cursor' = [cursor EXCEPT ![List[w]] = newest[w]]
  <2> DEFINE f == List[w]
  <2>1. f \in Feeds /\ newest[w] \in Nat /\ since[w] \in Nat /\ newest[w] # 0
    BY <1>3, ListFacts, DateFacts DEF IngestInv, Types
  <2>2. cursor'[f] = newest[w] /\ \A g \in Feeds \ {f} : cursor'[g] = cursor[g]
    BY <1>3, <2>1 DEF IngestInv, Types
  <2>3. /\ \A g \in Feeds : listing'[g] = listing[g] /\ top'[g] = top[g]
                            /\ orderly'[g] = orderly[g] /\ top[g] >= 0
        /\ stored' = stored /\ RSSWorkers' = RSSWorkers
    BY <1>1, DateFacts DEF upstream, RSSWorkers, IngestInv, Types
  <2>4. \A u \in RSSWorkers : u \in Workers /\ List[u] \in Feeds \ Telegram
    BY ListFacts DEF RSSWorkers
  <2>5. \A u \in Workers \ {w} : /\ since'[u] = since[u] /\ newest'[u] = newest[u]
                                 /\ batch'[u] = batch[u] /\ pc'[u] = pc[u]
    BY <1>1, ReturnFacts DEF IngestInv
  <2>6. since'[w] = 0 /\ newest'[w] = 0 /\ pc'[w] = "done"
    BY <1>1, ReturnFacts DEF IngestInv
  <2>7. ASSUME f \notin Telegram
        PROVE  newest[w] <= top[f] /\ Covered(f, newest[w])
    <3>1. w \in RSSWorkers
      BY <2>7 DEF RSSWorkers
    <3>2. /\ newest[w] <= top[f]
          /\ orderly[f] => \A i \in listing[f] : i.date <= newest[w] => i.post \in stored
      BY <1>1, <3>1 DEF IngestInv, TopInv, CoverInv
    <3>3. \A i \in listing[f] : i.date \in Nat
      BY <2>1, DateFacts DEF IngestInv, Types, Item
    <3> QED
      BY <2>1, <3>2, <3>3 DEF Covered, Newer
  <2>8. ASSUME NEW g \in Feeds \ Telegram
        PROVE  /\ cursor'[g] <= top'[g] /\ \A i \in listing'[g] : i.date <= top'[g]
               /\ Covered(g, cursor[g])'
    <3>1. CASE g = f
      BY <2>2, <2>3, <2>7, <3>1 DEF Covered, IngestInv, TopInv
    <3>2. CASE g # f
      BY <2>2, <2>3, <3>2 DEF Covered, IngestInv, TopInv, CoverInv
    <3> QED
      BY <3>1, <3>2
  <2>9. ASSUME NEW u \in RSSWorkers
        PROVE  /\ since'[u] <= top'[List[u]] /\ newest'[u] <= top'[List[u]]
               /\ Covered(List[u], since[u])'
               /\ pc'[u] = "insert" /\ orderly'[List[u]] =>
                     \A i \in listing'[List[u]] :
                         i.date <= newest'[u] => i.post \in PostsOf(batch'[u]) \cup stored'
               /\ pc'[u] = "advance" /\ orderly'[List[u]] =>
                     \A i \in listing'[List[u]] : i.date <= newest'[u] => i.post \in stored'
    <3>1. CASE u = w
      BY <2>3, <2>4, <2>6, <3>1 DEF Covered, Newer
    <3>2. CASE u # w
      BY <2>3, <2>4, <2>5, <3>2 DEF Covered, IngestInv, TopInv, CoverInv
    <3> QED
      BY <3>1, <3>2
  <2> QED
    BY <2>3, <2>8, <2>9 DEF TopInv, CoverInv
<1> QED
  BY <1>2, <1>3 DEF Advance

LEMMA IngestStep ==
  ASSUME ~StatementsFail, IngestInv, [Next]_vars
  PROVE  IngestInv'
<1>1. Types'
  BY TypesStep DEF IngestInv
<1>2. ASSUME NEW w \in Workers, Ingest(w) PROVE TopInv' /\ CoverInv'
  <2>1. CASE FetchFails(w) \/ InsertFails(w)
    BY <2>1, ReturnStep DEF FetchFails, InsertFails, store
  <2> QED
    BY <1>2, <2>1, StartStep, GetCursorStep, FetchStep, InsertStep, AdvanceStep
       DEF Ingest
<1>3. ASSUME Prune \/ Tick \/ UNCHANGED vars PROVE TopInv' /\ CoverInv'
  <2>1. UNCHANGED <<upstream, cursor, stored, workers>>
    BY <1>3 DEF Prune, Tick, vars, store
  <2>2. \A w \in RSSWorkers : /\ since'[w] = since[w] /\ newest'[w] = newest[w]
                              /\ batch'[w] = batch[w] /\ pc'[w] = pc[w]
    BY <2>1 DEF workers
  <2>3. stored \subseteq stored' /\ UNCHANGED <<upstream, cursor>>
    BY <2>1
  <2> QED
    BY <2>2, <2>3, WorkersReturn
<1>4. ASSUME Wake PROVE TopInv' /\ CoverInv'
  <2>1. /\ UNCHANGED <<listing, top, orderly, cursor, stored, since, batch, newest>>
        /\ \A w \in RSSWorkers : pc'[w] = "listed"
    BY <1>4 DEF Wake, store, upstream, RSSWorkers
  <2>2. RSSWorkers' = RSSWorkers
    BY DEF RSSWorkers
  <2>3. TopInv'
    BY <2>1, <2>2 DEF IngestInv, TopInv
  <2>4. CoverInv'
    BY <2>1, <2>2 DEF IngestInv, CoverInv, Covered
  <2> QED
    BY <2>3, <2>4
<1>5. ASSUME Crash PROVE TopInv' /\ CoverInv'
  <2>1. UNCHANGED <<upstream, cursor>> /\ stored \subseteq stored'
    BY <1>5 DEF Crash, store
  <2>2. \A w \in RSSWorkers : since'[w] = 0 /\ newest'[w] = 0 /\ pc'[w] = "listed"
    BY <1>5 DEF Crash, RSSWorkers
  <2> QED
    BY <2>1, <2>2, WorkersReturn
<1>6. ASSUME NEW f \in Feeds, Publish(f) \/ Withdraw(f) PROVE TopInv' /\ CoverInv'
  BY <1>6, PublishStep, WithdrawStep
<1>7. TopInv' /\ CoverInv'
  <2>1. CASE \E w \in Workers : Ingest(w)
    BY <1>2, <2>1
  <2>2. CASE \E f \in Feeds : Publish(f) \/ Withdraw(f)
    BY <1>6, <2>2
  <2> QED
    BY <1>3, <1>4, <1>5, <2>1, <2>2 DEF Next
<1> QED
  BY <1>1, <1>7 DEF IngestInv

(* As long as single statements do not fail, an orderly feed loses nothing *)
(* to the cursor, however workers of the same feed interleave and wherever *)
(* a fetch, a commit, the update of the cursor or thefeed itself fails.    *)
THEOREM NothingLost == ASSUME ~StatementsFail PROVE Spec => []NoneLeftBehind
<1>1. IngestInv /\ [Next]_vars => IngestInv'
  BY IngestStep
<1>2. IngestInv => NoneLeftBehind
  BY DEF IngestInv, CoverInv, Covered, NoneLeftBehind
<1> QED
  BY <1>1, <1>2, IngestInit, PTL DEF Spec

-----------------------------------------------------------------------------
(* Cursors.                                                                *)

(* No feed is in the two files twice.                                      *)
NoDuplicates == \A u, w \in Workers : List[u] = List[w] => u = w

(* What a worker has read is still the cursor.                             *)
SinceInv ==
    \A w \in Workers :
        pc[w] \in {"fetch", "insert", "advance"} => since[w] = cursor[List[w]]

LEMMA SinceStep ==
  ASSUME ~StatementsFail, NoDuplicates, Types, SinceInv, [Next]_vars
  PROVE  SinceInv'
<1> USE DEF upstream, store, workers
<1>1. ASSUME NEW w \in Workers, UNCHANGED cursor,
             \A u \in Workers \ {w} : pc'[u] = pc[u] /\ since'[u] = since[u],
             pc'[w] \in {"fetch", "insert", "advance"} => since'[w] = cursor[List[w]]
      PROVE  SinceInv'
  BY <1>1 DEF SinceInv
<1>2. ASSUME NEW w \in Workers, Return(w), UNCHANGED cursor PROVE SinceInv'
  BY <1>1, <1>2, ReturnFacts
<1>3. ASSUME NEW w \in Workers, Start(w) PROVE SinceInv'
  <2>1. pc'[w] = "begin" /\ UNCHANGED <<cursor, since>>
        /\ \A u \in Workers \ {w} : pc'[u] = pc[u]
    BY <1>3 DEF Start, Move, Types
  <2> QED
    BY <1>1, <2>1
<1>4. ASSUME NEW w \in Workers, GetCursor(w) PROVE SinceInv'
  <2>1. since'[w] = cursor[List[w]] /\ UNCHANGED cursor
        /\ \A u \in Workers \ {w} : pc'[u] = pc[u] /\ since'[u] = since[u]
    BY <1>4 DEF GetCursor, Reads, Move, Types
  <2> QED
    BY <1>1, <2>1
<1>5. ASSUME NEW w \in Workers, Fetch(w), ~Return(w) PROVE SinceInv'
  <2>1. pc[w] = "fetch" /\ UNCHANGED <<cursor, since>>
        /\ \A u \in Workers \ {w} : pc'[u] = pc[u]
    BY <1>5 DEF Fetch, FetchRSS, FetchTelegram, Take, Move, Types
  <2> QED
    BY <1>1, <2>1 DEF SinceInv
<1>6. ASSUME NEW w \in Workers, Insert(w) PROVE SinceInv'
  <2>1. pc[w] = "insert" /\ UNCHANGED <<cursor, since>>
        /\ \A u \in Workers \ {w} : pc'[u] = pc[u]
    BY <1>6 DEF Insert, Move, Types
  <2> QED
    BY <1>1, <2>1 DEF SinceInv
<1>7. ASSUME NEW w \in Workers, Advance(w) PROVE SinceInv'
  <2>1. \A g \in Feeds : g # List[w] => cursor'[g] = cursor[g]
    BY <1>7 DEF Advance, Types
  <2>2. /\ pc'[w] = "done"
        /\ \A u \in Workers \ {w} : pc'[u] = pc[u] /\ since'[u] = since[u]
    BY <1>7, ReturnFacts DEF Advance
  <2>3. \A u \in Workers \ {w} : List[u] \in Feeds /\ List[u] # List[w]
    BY ListFacts DEF NoDuplicates
  <2> QED
    BY <2>1, <2>2, <2>3 DEF SinceInv
<1>8. ASSUME NEW w \in Workers, Ingest(w) PROVE SinceInv'
  <2>1. CASE FetchFails(w) \/ InsertFails(w)
    BY <1>2, <2>1 DEF FetchFails, InsertFails
  <2>2. CASE Fetch(w) /\ Return(w)
    BY <1>2, <2>2 DEF Fetch
  <2> QED
    BY <1>3, <1>4, <1>5, <1>6, <1>7, <1>8, <2>1, <2>2 DEF Ingest
<1>9. ASSUME Wake \/ Crash PROVE SinceInv'
  <2>1. \A w \in Workers : pc'[w] = "listed"
    BY <1>9 DEF Wake, Crash
  <2> QED
    BY <2>1 DEF SinceInv
<1>10. ASSUME \/ Prune \/ Tick \/ UNCHANGED vars
              \/ \E f \in Feeds : Publish(f) \/ Withdraw(f)
       PROVE  SinceInv'
  <2>1. UNCHANGED <<cursor, pc, since>>
    BY <1>10 DEF Prune, Tick, vars, Publish, Withdraw
  <2> QED
    BY <2>1 DEF SinceInv
<1> QED
  BY <1>8, <1>9, <1>10 DEF Next

LEMMA CursorStep ==
  ASSUME Types, SinceInv, [Next]_vars
  PROVE  [\A f \in Feeds : cursor'[f] >= cursor[f]]_vars
<1> SUFFICES \A f \in Feeds : cursor'[f] >= cursor[f]
  OBVIOUS
<1> TAKE f \in Feeds
<1> USE DEF upstream, store, workers
<1>1. \A g \in Feeds : cursor[g] \in Nat
  BY DateFacts DEF Types
<1>2. CASE UNCHANGED cursor
  BY <1>1, <1>2
<1>3. ASSUME NEW w \in Workers, Advance(w) PROVE cursor'[f] >= cursor[f]
  <2>1. CASE /\ newest[w] > since[w]
             /\ cursor' = [cursor EXCEPT ![List[w]] = newest[w]]
    <3>1. since[w] = cursor[List[w]] /\ newest[w] \in Nat /\ List[w] \in Feeds
      BY <1>3, ListFacts, DateFacts DEF Advance, SinceInv, Types
    <3>2. cursor'[f] = IF f = List[w] THEN newest[w] ELSE cursor[f]
      BY <2>1 DEF Types
    <3> QED
      BY <1>1, <2>1, <3>1, <3>2
  <2> QED
    BY <1>2, <1>3, <2>1 DEF Advance
<1>4. UNCHANGED cursor \/ \E w \in Workers : Advance(w)
  <2>1. ASSUME NEW w \in Workers, Ingest(w), ~Advance(w) PROVE UNCHANGED cursor
    BY <2>1 DEF Ingest, Start, GetCursor, Fetch, FetchFails, Insert, InsertFails
  <2>2. CASE \E w \in Workers : Ingest(w)
    BY <2>1, <2>2
  <2>3. CASE \E g \in Feeds : Publish(g) \/ Withdraw(g)
    BY <2>3 DEF Publish, Withdraw
  <2>4. CASE Prune \/ Wake \/ Tick \/ Crash \/ UNCHANGED vars
    BY <2>4 DEF Prune, Wake, Tick, Crash, vars
  <2> QED
    BY <2>2, <2>3, <2>4 DEF Next
<1> QED
  BY <1>2, <1>3, <1>4

(* Without a feed that is listed twice no cursor ever moves back, wherever *)
(* workers and thefeed are cut off.                                        *)
THEOREM CursorsMoveOn ==
  ASSUME ~StatementsFail, NoDuplicates
  PROVE  Spec => CursorNeverBack
<1>1. Init => Types /\ SinceInv
  BY TypesInit DEF Init, SinceInv
<1>2. Types /\ SinceInv /\ [Next]_vars => Types' /\ SinceInv'
  BY TypesStep, SinceStep
<1>3. Types /\ SinceInv /\ [Next]_vars =>
         [\A f \in Feeds : cursor'[f] >= cursor[f]]_vars
  BY CursorStep
<1> QED
  BY <1>1, <1>2, <1>3, PTL DEF Spec, CursorNeverBack

-----------------------------------------------------------------------------
(* What the two disagreements with store.go's comments come down to.       *)

(* Every date f may bring is a timestamp: those of a channel are made by   *)
(* time.Now, those of an RSS feed by its publisher.                        *)
Timely(f) == f \in Telegram \/ \A i \in Offers[f] : i.date <= MaxTime

TimestampInv(f) ==
    /\ listing[f] \subseteq Offers[f]
    /\ \A w \in Workers : List[w] = f => newest[w] <= MaxTime
    /\ cursor[f] <= MaxTime

LEMMA TimestampStep ==
  ASSUME NEW f \in Feeds, Timely(f), Types, TimestampInv(f), [Next]_vars
  PROVE  TimestampInv(f)'
<1> USE DEF upstream, store, workers
<1>1. MaxTime \in Nat /\ now <= MaxTime /\ \A i \in Item : i.date \in Nat
  BY IngestAssumption, DateFacts DEF Types, Item
<1>2. ASSUME UNCHANGED listing, UNCHANGED cursor,
             \A w \in Workers : List[w] = f =>
                newest'[w] = newest[w] \/ newest'[w] <= MaxTime
      PROVE  TimestampInv(f)'
  BY <1>2 DEF TimestampInv
<1>3. ASSUME NEW w \in Workers, Return(w), UNCHANGED <<listing, cursor>>
      PROVE  TimestampInv(f)'
  BY <1>1, <1>2, <1>3, ReturnFacts
<1>4. ASSUME NEW w \in Workers, Fetch(w), ~Return(w)
      PROVE  TimestampInv(f)'
  <2>1. UNCHANGED <<listing, cursor>>
    BY <1>4 DEF Fetch
  <2>2. \A u \in Workers \ {w} : newest'[u] = newest[u]
    BY <1>4 DEF Fetch, FetchRSS, FetchTelegram, Take, Types
  <2>3. List[w] = f => newest'[w] <= MaxTime
    <3>1. CASE FetchRSS(w)
      <4>1. PICK i \in listing[List[w]] : newest'[w] = i.date
        BY <1>4, <3>1, FetchRSSFacts
      <4>2. List[w] \notin Telegram
        BY <3>1 DEF FetchRSS
      <4> QED
        BY <4>1, <4>2 DEF Timely, TimestampInv
    <3>2. CASE FetchTelegram(w)
      <4>1. newest'[w] = now
        BY <1>4, <3>2 DEF FetchTelegram, Take, Types
      <4> QED
        BY <1>1, <4>1
    <3> QED
      BY <1>4, <3>1, <3>2 DEF Fetch
  <2> QED
    BY <1>2, <2>1, <2>2, <2>3
<1>5. ASSUME NEW w \in Workers, Advance(w)
      PROVE  TimestampInv(f)'
  <2>1. Return(w) /\ UNCHANGED listing
    BY <1>5 DEF Advance
  <2>2. \A u \in Workers : newest'[u] = newest[u] \/ newest'[u] <= MaxTime
    BY <1>1, <2>1, ReturnFacts
  <2>3. cursor'[f] = cursor[f] \/ (List[w] = f /\ cursor'[f] = newest[w])
    BY <1>5 DEF Advance, Types
  <2> QED
    BY <2>1, <2>2, <2>3 DEF TimestampInv
<1>6. ASSUME NEW w \in Workers, Ingest(w)
      PROVE  TimestampInv(f)'
  <2>1. CASE Start(w) \/ GetCursor(w) \/ Insert(w)
    BY <1>2, <2>1 DEF Start, GetCursor, Insert
  <2>2. CASE FetchFails(w) \/ InsertFails(w) \/ (Fetch(w) /\ Return(w))
    BY <1>3, <2>2 DEF FetchFails, InsertFails, Fetch
  <2> QED
    BY <1>4, <1>5, <1>6, <2>1, <2>2 DEF Ingest
<1>7. ASSUME Prune \/ Wake \/ Tick \/ UNCHANGED vars
      PROVE  TimestampInv(f)'
  BY <1>2, <1>7 DEF Prune, Wake, Tick, vars
<1>8. CASE Crash
  BY <1>1, <1>2, <1>8 DEF Crash
<1>9. ASSUME NEW g \in Feeds, Publish(g) \/ Withdraw(g)
      PROVE  TimestampInv(f)'
  <2>1. UNCHANGED <<cursor, newest>>
    BY <1>9 DEF Publish, Withdraw
  <2>2. listing'[f] \subseteq Offers[f]
    BY <1>9 DEF Publish, Withdraw, Types, TimestampInv
  <2> QED
    BY <2>1, <2>2 DEF TimestampInv
<1> QED
  BY <1>6, <1>7, <1>8, <1>9 DEF Next

(* A cursor that is no timestamp takes a feed that lists an item with a    *)
(* date parseRSSDate could not parse: no channel ever has one, and no feed *)
(* gets one from another feed, a restart or an error.                      *)
THEOREM TimelyCursors ==
  ASSUME NEW f \in Feeds, Timely(f)
  PROVE  Spec => [](cursor[f] \in 0..MaxTime)
<1>1. Init => Types /\ TimestampInv(f)
  BY TypesInit, IngestAssumption DEF Init, TimestampInv
<1>2. Types /\ TimestampInv(f) /\ [Next]_vars => Types' /\ TimestampInv(f)'
  BY TypesStep, TimestampStep
<1>3. Types /\ TimestampInv(f) => cursor[f] \in 0..MaxTime
  BY DateFacts, IngestAssumption DEF Types, TimestampInv
<1> QED
  BY <1>1, <1>2, <1>3, PTL DEF Spec

(* If the dates of all feeds are timestamps, what store.go:113 says of the *)
(* cursor holds.                                                           *)
THEOREM TimestampsHold ==
  ASSUME \A f \in Feeds : Timely(f)
  PROVE  Spec => []CursorIsTimestamp
<1> DEFINE Inv == Types /\ \A f \in Feeds : TimestampInv(f)
<1>1. Init => Inv
  BY TypesInit, IngestAssumption DEF Init, TimestampInv
<1>2. Inv /\ [Next]_vars => Inv'
  BY TypesStep, TimestampStep
<1>3. Inv => CursorIsTimestamp
  BY DateFacts, IngestAssumption DEF Types, TimestampInv, CursorIsTimestamp
<1> HIDE DEF Inv
<1> QED
  BY <1>1, <1>2, <1>3, PTL DEF Spec

(* Without a feed that is listed twice, a cursor that sorts behind the     *)
(* timestamps does so for good, and no item with a timestamp is newer ever *)
(* again: the feed is dead, whatever it publishes and however often        *)
(* thefeed is restarted.                                                   *)
THEOREM UnparsedStays ==
  ASSUME ~StatementsFail, NoDuplicates, NEW f \in Feeds
  PROVE  Spec => [][cursor[f] = Unparsed =>
                      /\ cursor'[f] = Unparsed
                      /\ \A d \in 0..MaxTime : ~Newer(d, cursor'[f])]_vars
<1>1. Init => Types /\ SinceInv
  BY TypesInit DEF Init, SinceInv
<1>2. Types /\ SinceInv /\ [Next]_vars => Types' /\ SinceInv'
  BY TypesStep, SinceStep
<1>3. ASSUME Types, SinceInv, [Next]_vars, Types'
      PROVE  [cursor[f] = Unparsed =>
                /\ cursor'[f] = Unparsed
                /\ \A d \in 0..MaxTime : ~Newer(d, cursor'[f])]_vars
  <2>1. CASE UNCHANGED vars
    BY <2>1
  <2>2. CASE ~UNCHANGED vars
    <3>1. cursor'[f] >= cursor[f]
      BY <1>3, <2>2, CursorStep
    <3>2. PICK c \in Dates : c = cursor'[f]
      BY <1>3 DEF Types
    <3>3. Unparsed > 0 /\ Unparsed \in Nat /\ c \in 0..Unparsed
      BY <3>2, DateFacts, IngestAssumption DEF Unparsed
    <3>4. cursor[f] = Unparsed => c = Unparsed
      BY <3>1, <3>2, <3>3
    <3>5. c = Unparsed => \A d \in 0..MaxTime : ~Newer(d, c)
      BY <3>3, IngestAssumption DEF Newer, Unparsed
    <3> QED
      BY <3>2, <3>4, <3>5
  <2> QED
    BY <2>1, <2>2
<1> QED
  BY <1>1, <1>2, <1>3, PTL DEF Spec

LEMMA InsertedStep ==
  ASSUME ~StatementsFail, Types, BatchIsInserted, [Next]_vars
  PROVE  BatchIsInserted'
<1> USE DEF upstream, store, workers
<1>1. ASSUME NEW w \in Workers, stored \subseteq stored',
             \A u \in Workers \ {w} : pc'[u] = pc[u] /\ batch'[u] = batch[u],
             pc'[w] = "advance" => PostsOf(batch'[w]) \subseteq stored'
      PROVE  BatchIsInserted'
  BY <1>1 DEF BatchIsInserted, PostsOf
<1>2. ASSUME NEW w \in Workers, Return(w), UNCHANGED stored
      PROVE  BatchIsInserted'
  BY <1>1, <1>2, ReturnFacts
<1>3. ASSUME NEW w \in Workers, Start(w) \/ GetCursor(w)
      PROVE  BatchIsInserted'
  <2>1. /\ UNCHANGED <<stored, batch>> /\ pc'[w] \in {"begin", "fetch"}
        /\ \A u \in Workers \ {w} : pc'[u] = pc[u]
    BY <1>3 DEF Start, GetCursor, Move, Types
  <2> QED
    BY <1>1, <2>1
<1>4. ASSUME NEW w \in Workers, Fetch(w), ~Return(w)
      PROVE  BatchIsInserted'
  <2>1. /\ UNCHANGED stored /\ pc'[w] = "insert"
        /\ \A u \in Workers \ {w} : pc'[u] = pc[u] /\ batch'[u] = batch[u]
    BY <1>4 DEF Fetch, FetchRSS, FetchTelegram, Take, Move, Types
  <2> QED
    BY <1>1, <2>1
<1>5. ASSUME NEW w \in Workers, Insert(w)
      PROVE  BatchIsInserted'
  <2>1. /\ stored' = stored \cup PostsOf(batch[w]) /\ UNCHANGED batch
        /\ \A u \in Workers \ {w} : pc'[u] = pc[u]
    BY <1>5 DEF Insert, Add, Move, Types
  <2> QED
    BY <1>1, <2>1
<1>6. ASSUME NEW w \in Workers, Ingest(w)
      PROVE  BatchIsInserted'
  <2>1. CASE FetchFails(w) \/ InsertFails(w) \/ Advance(w) \/ (Fetch(w) /\ Return(w))
    BY <1>2, <2>1 DEF FetchFails, InsertFails, Advance, Fetch
  <2> QED
    BY <1>3, <1>4, <1>5, <1>6, <2>1 DEF Ingest
<1>7. ASSUME Wake \/ Crash
      PROVE  BatchIsInserted'
  <2>1. \A w \in Workers : pc'[w] = "listed"
    BY <1>7 DEF Wake, Crash
  <2> QED
    BY <2>1 DEF BatchIsInserted
<1>8. ASSUME \/ Prune \/ Tick \/ UNCHANGED vars
             \/ \E f \in Feeds : Publish(f) \/ Withdraw(f)
      PROVE  BatchIsInserted'
  <2>1. UNCHANGED <<stored, pc, batch>>
    BY <1>8 DEF Prune, Tick, vars, Publish, Withdraw
  <2> QED
    BY <2>1 DEF BatchIsInserted, PostsOf
<1> QED
  BY <1>6, <1>7, <1>8 DEF Next

(* A failed statement is all that can separate what InsertBatch was given  *)
(* from what is stored: no crash, duplicate or other worker does.          *)
THEOREM InsertedHolds == ASSUME ~StatementsFail PROVE Spec => []BatchIsInserted
<1>1. Init => Types /\ BatchIsInserted
  BY TypesInit DEF Init, BatchIsInserted
<1>2. Types /\ BatchIsInserted /\ [Next]_vars => Types' /\ BatchIsInserted'
  BY TypesStep, InsertedStep
<1> QED
  BY <1>1, <1>2, PTL DEF Spec
=============================================================================
