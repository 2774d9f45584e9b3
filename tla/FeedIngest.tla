----------------------------- MODULE FeedIngest -----------------------------
(***************************************************************************)
(* How posts get into thefeed: refreshCache and ingestSource               *)
(* (server/internal/feed/fetch.go) over the post store                     *)
(* (server/internal/store/store.go).                                       *)
(*                                                                         *)
(* A worker per listed feed reads the feed's cursor, fetches the feed,     *)
(* inserts what is newer and moves the cursor: four separate steps, and a  *)
(* crash or an error may come between any two of them.                     *)
(*                                                                         *)
(* Dates are compared as strings, and parseRSSDate leaves a date it cannot *)
(* parse as it is.  A date is here its rank in that order: 0 is the empty  *)
(* string, which as a cursor means none; 1..MaxTime are timestamps, and    *)
(* Unparsed is a text that sorts behind all of them.  A text that sorts    *)
(* before them compares like an early timestamp.                           *)
(***************************************************************************)
EXTENDS Integers, Sequences, FiniteSets

CONSTANTS Feeds,          \* addresses of feeds
          List,           \* the lines of the two source files, in order
          Telegram,       \* the feeds scraped from t.me
          Posts,          \* source label and text: what hashPost tells apart
          Offers,         \* the items a feed may ever list
          Slots,          \* capacity of the semaphore
          Keep,           \* the age at which posts are pruned
          StatementsFail, \* whether SQLite may fail a row or a cursor's read
          MaxTime,        \* bound: the clock stops here
          MaxCrashes      \* bound: restarts of thefeed

Unparsed == MaxTime + 1
Dates    == 0..Unparsed
Item     == [post : Posts, date : Dates]
Workers  == DOMAIN List

ASSUME IngestAssumption ==
    /\ List \in Seq(Feeds)
    /\ Telegram \subseteq Feeds
    /\ Offers \in [Feeds -> SUBSET Item]
    /\ Slots \in Nat \ {0}
    /\ Keep \in Nat
    /\ StatementsFail \in BOOLEAN
    /\ MaxTime \in Nat \ {0}
    /\ MaxCrashes \in Nat

VARIABLES now,     \* time.Now()
          listing, \* what each feed lists at the moment
          cursor,  \* the table cursors
          rows,    \* the table posts: when each was fetched, 0 if not there
          phase,   \* whether a refresh is running
          pc,      \* where each worker is
          since,   \* cursor, as the worker has read it
          batch,   \* posts, with their dates
          newest,  \* the greatest date of the batch
          top,     \* history: the greatest date a feed has listed so far
          orderly, \* history: each item a feed listed was later than those before
          stored,  \* history: the posts that have ever been stored
          crashes  \* history: how often thefeed went down

upstream == <<listing, top, orderly>>
store    == <<cursor, rows, stored>>
workers  == <<pc, since, batch, newest>>
vars     == <<now, upstream, store, phase, workers, crashes>>

(* listed: not started yet; begin, fetch, insert, advance: the next step   *)
(* of ingestSource.                                                        *)
Busy == {"begin", "fetch", "insert", "advance"}

Active == {w \in Workers : pc[w] \in Busy}

(* The semaphore caps the fetches under way, whatever ends a worker.       *)
TypeOK ==
    /\ now \in 1..MaxTime
    /\ listing \in [Feeds -> SUBSET Item]
    /\ top \in [Feeds -> Dates]
    /\ orderly \in [Feeds -> BOOLEAN]
    /\ cursor \in [Feeds -> Dates]
    /\ rows \in [Posts -> 0..MaxTime]
    /\ stored \subseteq Posts
    /\ phase \in {"refresh", "sleep"}
    /\ pc \in [Workers -> Busy \cup {"listed", "done"}]
    /\ since \in [Workers -> Dates]
    /\ batch \in [Workers -> SUBSET Item]
    /\ newest \in [Workers -> Dates]
    /\ crashes \in 0..MaxCrashes
    /\ Cardinality(Active) <= Slots

(* NewService refreshes before anything is served.                         *)
Init ==
    /\ now = 1
    /\ listing = [f \in Feeds |-> {}]
    /\ top = [f \in Feeds |-> 0]
    /\ orderly = [f \in Feeds |-> TRUE]
    /\ cursor = [f \in Feeds |-> 0]
    /\ rows = [p \in Posts |-> 0]
    /\ stored = {}
    /\ phase = "refresh"
    /\ pc = [w \in Workers |-> "listed"]
    /\ since = [w \in Workers |-> 0]
    /\ batch = [w \in Workers |-> {}]
    /\ newest = [w \in Workers |-> 0]
    /\ crashes = 0

-----------------------------------------------------------------------------
(* ingestSource                                                            *)

Move(w, place) == pc' = [pc EXCEPT ![w] = place]

(* The worker returns, and its deferred calls free its slot.               *)
Return(w) ==
    /\ Move(w, "done")
    /\ since' = [since EXCEPT ![w] = 0]
    /\ batch' = [batch EXCEPT ![w] = {}]
    /\ newest' = [newest EXCEPT ![w] = 0]

(* Mutant: no semaphore.                                                   *)
SlotAlwaysFree == TRUE

SlotFree == Cardinality(Active) < Slots

(* The loop of refreshCache goes through the list and waits for a slot.    *)
Start(w) ==
    /\ phase = "refresh"
    /\ pc[w] = "listed" /\ \A u \in Workers : u < w => pc[u] # "listed"
    /\ SlotFree
    /\ Move(w, "begin")
    /\ UNCHANGED <<now, upstream, store, phase, since, batch, newest, crashes>>

(* Mutant: the cursor is read as if there were none.                       *)
ReadsNothing(w) == {0}

(* An error leaves the string empty.                                       *)
Reads(w) == {cursor[List[w]]} \cup (IF StatementsFail THEN {0} ELSE {})

GetCursor(w) ==
    /\ pc[w] = "begin"
    /\ \E c \in Reads(w) : since' = [since EXCEPT ![w] = c]
    /\ Move(w, "fetch")
    /\ UNCHANGED <<now, upstream, store, phase, batch, newest, crashes>>

Newer(d, c) == c = 0 \/ d > c

(* What the response leaves to insert: of an RSS feed all items newer than *)
(* the cursor, of a Telegram channel its latest message, dated now.        *)
Take(w, items) ==
    IF items = {}
      THEN Return(w)
      ELSE /\ batch' = [batch EXCEPT ![w] = items]
           /\ \E i \in items : /\ \A j \in items : j.date <= i.date
                               /\ newest' = [newest EXCEPT ![w] = i.date]
           /\ Move(w, "insert")
           /\ UNCHANGED since

FetchRSS(w) ==
    /\ List[w] \notin Telegram
    /\ listing[List[w]] # {}
    /\ Take(w, {i \in listing[List[w]] : Newer(i.date, since[w])})

FetchTelegram(w) ==
    /\ List[w] \in Telegram
    /\ \E i \in listing[List[w]] :
          Take(w, IF now > since[w] THEN {[post |-> i.post, date |-> now]} ELSE {})

Fetch(w) ==
    /\ pc[w] = "fetch"
    /\ FetchRSS(w) \/ FetchTelegram(w)
    /\ UNCHANGED <<now, upstream, store, phase, crashes>>

(* Mutant: a feed that fails is fetched again until it answers.            *)
FetchUntilOK(w) == pc[w] = "fetch" /\ UNCHANGED vars

(* No connection, another status, no XML, no items, or the deadline.       *)
FetchFails(w) ==
    /\ pc[w] = "fetch"
    /\ Return(w)
    /\ UNCHANGED <<now, upstream, store, phase, crashes>>

PostsOf(items) == {i.post : i \in items}

(* INSERT OR IGNORE, in one transaction.                                   *)
Add(ps) ==
    /\ rows' = [p \in Posts |-> IF p \in ps /\ rows[p] = 0 THEN now ELSE rows[p]]
    /\ stored' = stored \cup ps

(* Mutant: INSERT without OR IGNORE, so that one duplicate aborts all.     *)
InsertAborts(w) ==
    /\ pc[w] = "insert"
    /\ IF \A p \in PostsOf(batch[w]) : rows[p] = 0
         THEN Add(PostsOf(batch[w])) /\ Move(w, "advance") /\ UNCHANGED <<since, batch, newest>>
         ELSE Return(w) /\ UNCHANGED <<rows, stored>>
    /\ UNCHANGED <<now, upstream, cursor, phase, crashes>>

(* InsertBatch goes on when a row fails, and reports no error.             *)
Insert(w) ==
    /\ pc[w] = "insert"
    /\ \E ps \in (IF StatementsFail THEN SUBSET PostsOf(batch[w])
                                    ELSE {PostsOf(batch[w])}) : Add(ps)
    /\ Move(w, "advance")
    /\ UNCHANGED <<now, upstream, cursor, phase, since, batch, newest, crashes>>

(* Mutant: the error is logged and the cursor moved all the same.          *)
InsertFailsUnseen(w) ==
    /\ pc[w] = "insert"
    /\ Move(w, "advance")
    /\ UNCHANGED <<now, upstream, store, phase, since, batch, newest, crashes>>

(* Begin, Prepare or Commit fails.                                         *)
InsertFails(w) ==
    /\ pc[w] = "insert"
    /\ Return(w)
    /\ UNCHANGED <<now, upstream, store, phase, crashes>>

(* The error of SetCursor is dropped.                                      *)
Advance(w) ==
    /\ pc[w] = "advance"
    /\ \/ /\ newest[w] > since[w]
          /\ cursor' = [cursor EXCEPT ![List[w]] = newest[w]]
       \/ UNCHANGED cursor
    /\ Return(w)
    /\ UNCHANGED <<now, upstream, rows, stored, phase, crashes>>

-----------------------------------------------------------------------------
(* refreshCache                                                            *)

(* After wg.Wait; an error of Prune is dropped.                            *)
Prune ==
    /\ phase = "refresh"
    /\ \A w \in Workers : pc[w] = "done"
    /\ phase' = "sleep"
    /\ \/ rows' = [p \in Posts |-> IF rows[p] < now - Keep THEN 0 ELSE rows[p]]
       \/ UNCHANGED rows
    /\ UNCHANGED <<now, upstream, cursor, stored, workers, crashes>>

Wake ==
    /\ phase = "sleep"
    /\ phase' = "refresh"
    /\ pc' = [w \in Workers |-> "listed"]
    /\ UNCHANGED <<now, upstream, store, since, batch, newest, crashes>>

-----------------------------------------------------------------------------
(* The environment.                                                        *)

(* The feed lists another item.                                            *)
Publish(f) ==
    \E i \in Offers[f] \ listing[f] :
        /\ listing' = [listing EXCEPT ![f] = @ \cup {i}]
        /\ top' = [top EXCEPT ![f] = IF i.date > @ THEN i.date ELSE @]
        /\ orderly' = [orderly EXCEPT ![f] = @ /\ i.date > top[f]]
        /\ UNCHANGED <<now, store, phase, workers, crashes>>

(* An item is no longer listed.                                            *)
Withdraw(f) ==
    \E i \in listing[f] :
        /\ listing' = [listing EXCEPT ![f] = @ \ {i}]
        /\ UNCHANGED <<now, top, orderly, store, phase, workers, crashes>>

Tick ==
    /\ now < MaxTime
    /\ now' = now + 1
    /\ UNCHANGED <<upstream, store, phase, workers, crashes>>

(* Commits are on the disk: WAL with SQLite's default synchronous=FULL.    *)
Crash ==
    /\ crashes < MaxCrashes
    /\ crashes' = crashes + 1
    /\ phase' = "refresh"
    /\ pc' = [w \in Workers |-> "listed"]
    /\ since' = [w \in Workers |-> 0]
    /\ batch' = [w \in Workers |-> {}]
    /\ newest' = [w \in Workers |-> 0]
    /\ UNCHANGED <<now, upstream, store>>

Ingest(w) ==
    \/ Start(w) \/ GetCursor(w) \/ Fetch(w) \/ FetchFails(w)
    \/ Insert(w) \/ InsertFails(w) \/ Advance(w)

Next ==
    \/ \E w \in Workers : Ingest(w)
    \/ Prune \/ Wake
    \/ \E f \in Feeds : Publish(f) \/ Withdraw(f)
    \/ Tick \/ Crash

Spec == Init /\ [][Next]_vars

(* Goroutines run, requests end by their timeouts, and the ticker ticks.   *)
FairSpec ==
    /\ Spec
    /\ \A w \in Workers : WF_vars(Ingest(w))
    /\ WF_vars(Prune) /\ WF_vars(Wake)

-----------------------------------------------------------------------------
(* Properties.                                                             *)

(* A feed that lists its items in the order of their dates loses none: an  *)
(* item the cursor has passed was stored, whatever failed or crashed in    *)
(* between, even if the feed is in the list twice.                         *)
NoneLeftBehind ==
    \A f \in Feeds \ Telegram : \A i \in listing[f] :
        orderly[f] => i.post \in stored \/ Newer(i.date, cursor[f])

(* Listed once, a feed never gets an older cursor, so that what has been   *)
(* ingested and pruned does not come back by that way.                     *)
CursorNeverBack == [][\A f \in Feeds : cursor'[f] >= cursor[f]]_vars

(* Every refresh ends, with a slot for every feed in turn: the cache is    *)
(* refreshed again and again.                                              *)
RefreshesEnd == []<>(phase = "sleep")

(* In the long run feeds answer and the disk accepts.                      *)
Working == \A w \in Workers : SF_vars(Fetch(w)) /\ SF_vars(Insert(w))

(* Then an item an orderly feed lists is stored in the end, unless it      *)
(* disappears first, also after a crash between the insert and the cursor. *)
NewPostsStored ==
    Working =>
        \A f \in Feeds \ Telegram : \A i \in Offers[f] :
            i \in listing[f] /\ orderly[f] ~>
                i.post \in stored \/ i \notin listing[f] \/ ~orderly[f]

(* store.go:113: "GetCursor returns the last_seen timestamp for source, or *)
(* "" if none."                                                            *)
CursorIsTimestamp == \A f \in Feeds : cursor[f] \in 0..MaxTime

(* store.go:60: "InsertBatch inserts posts, ignoring duplicates."  So what *)
(* it was given and did not report as failed is in the table.              *)
BatchIsInserted ==
    \A w \in Workers : pc[w] = "advance" => PostsOf(batch[w]) \subseteq stored
=============================================================================
