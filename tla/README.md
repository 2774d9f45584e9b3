# xfeed: specification and verification

TLA+ models of xfeed, the TLC runs that check them on small instances, and
TLAPS proofs of what they promise for all instances. The models are translated
from the sources; `PROJECT.json` maps every definition to the lines it stands for.

    tlc -workers 2 -config AuthService.cfg MCAuthService     # a run
    tlapm AuthServiceProofs.tla                              # the proofs

## 1. The system

xfeed gives a reader behind a censoring network a feed of posts over DNS.
`thefeed` collects posts from RSS feeds, encrypts the latest hundred in ten
batches and serves them as numbered TXT records. `slipgate` passes the queries on
to it. `authd` exchanges an invite token for the session key. The web page
exchanges the token, fetches the parts of each batch from public DNS-over-HTTPS
resolvers, joins and decrypts them, and shows the posts.

| Component | State | Operations | Interacts with |
|---|---|---|---|
| authd rate limiter (`auth/service.go:42-79`) | map address -> count and end of window, under a mutex | `Allow` | called first by every exchange |
| token store (`tokenstore/store.go`) | SQLite table `token_allowlist` (WAL, `synchronous=NORMAL`) | `ValidateAndConsume`, `Insert` | shared by authd's handlers, tokenctl, the operator |
| authd endpoints (`auth/service.go`) | handlers under way; context of 2 s | `exchangeToken`, `createToken`, `handleDoH`, `health` | limiter, token store; answers the page |
| tokenctl | none | inserts tokens | token store |
| feed ingestion (`feed/fetch.go`) | workers of the running refresh, semaphore of 10 | `refreshCache` every 60 s, `ingestSource` | feed servers; post store |
| post store (`store/store.go`) | SQLite tables `posts` and `cursors`, one connection | `InsertBatch`, `GetCursor`, `SetCursor`, `Prune`, `Latest` | ingestion writes, the chunk cache reads |
| chunk cache (`cmd/thefeed/main.go`) | map batch -> chunks, replaced every 60 s under a lock | `refreshChunks`, `get` | post store; DNS responder |
| DNS responder (`cmd/thefeed/main.go`) | none | `buildTXTResponse` | chunk cache; resolvers through slipgate |
| slipgate (`cmd/slipgate/main.go`) | a socket, and one connection at a time | forwards a query: waits 2 s for thefeed's address, 2 s for its answer | resolvers or the bridge; DNS responder |
| bridge to local DNS (`web/src/app/api/local-dns/route.ts`) | a socket and a timer of 3 s per request | `GET`: `buildTXTQuery`, `udpQuery`, `parseFirstTXT` | the page (in place of resolvers); slipgate |
| master key (`crypto/keys.go`, `session-envelope.ts`, `feed-crypto.ts`) | none | `ParseKey32`; `decryptSessionEnvelope`, `decryptFeedCiphertext` | thefeed; authd and the page |
| DNS fetcher (`web/src/lib/dns-fetcher.ts`) | loops of one fetch | `fetchMultipartCiphertext`, `fetchTXTScatter`, `fetchTXT` | resolvers (which cache for 15 s); the page |
| token flow (`token-flow.ts`, `api/auth/exchange/route.ts`) | none | exchange, unwrap | authd; the page |
| feed page (`page.tsx`), `cache.ts` | session key, merged feed, flags; one cached ciphertext | submit, refresh, timer of 2 min | all of `web/` |
| DoH proxy, telemetry, layout, deployment, `test_tg.go` | none | - | - |

Where it is hard, and what makes each part correct:

* **Token exchange.** Concurrent deferred SQLite transactions, other writers,
  deadlines, disconnects, restarts, power failures. One key per invitation; no
  key long after a revocation; no lock lost; every request answered; the whole
  indistinguishable from atomic operations.
* **Rate limiter.** Fixed windows: how much gets through at their boundary, and
  that nobody within the rate is denied.
* **Batch fetch.** Parts are fetched one by one while the server replaces the
  batch and resolvers answer from caches of different age; answers are lost or
  garbled; two nested retry loops. A fetch yields one generation, not too old,
  or fails; it ends; the number of queries it reports is right.
* **Ingestion.** Cursor and posts are updated in separate transactions, by
  workers that run concurrently and fail at any step. Nothing is lost to the
  cursor, no cursor moves back, every refresh ends.
* **Page.** Nine batches fetched in the background while posts move between them,
  overlapping submits and refreshes, deduplication, login failing under a running
  session. No post twice, no spinner for ever; what stays published is shown.

* **Query path.** One loop forwards all queries and waits for each answer; the
  responder never says no; nobody compares the IDs of queries and answers; three
  timeouts of different length. A request ends with the chunk it asked for, whole, or
  with an error, and a query without an answer does not starve the others.
* **Keys.** Server and page derive the key of the feed in different languages
  and different ways, from a text both are configured with; restarts may change it
  in one before the other.

The full list of hazards, each at its line and with the properties that cover it,
is in `PROJECT.json`.

## 2. The modules

| Module | Models |
|---|---|
| `LimiterEntry` | one entry of the limiter: `Admits`, `Charge` (no state) |
| `RateLimiter` | the limiter over time, with a log of what it granted |
| `TokenAllowlist` | abstract: an allowlist with atomic invite, withdraw, redeem |
| `AuthService` | exchanges step by step over the transactional database; uses `LimiterEntry`; implements `TokenAllowlist` |
| `BatchRead` | abstract: an atomic read of a published generation, or a failure |
| `BatchFetch` | chunk cache, caching resolvers and the fetch of one batch; implements `BatchRead` |
| `FeedIngest` | ingestion over the post store |
| `KeyForms` | the ways of the master key through thefeed, authd and the page (no state) |
| `FeedPage` | the batches cut from the latest posts, the page that merges them, and the keys all three hold; uses `KeyForms` |
| `TxtRecord` | one answer: which chunk, with how much padding, within which limits (no state) |
| `TxtPath` | queries through bridge, slipgate and thefeed, with timers and ports; uses `TxtRecord` |
| `MC*` | symmetry sets and constant values for TLC |
| `*Proofs` | theorems and their proofs |

Operators named in a comment `Mutant: ...` are not part of any specification.
They are what a plausible bug would make of the definition below them, and show
that the properties notice it.

### RateLimiter, LimiterEntry

`Allow` runs under a mutex, hence one step: `Grant` or `Deny`. Time is an integer;
`Second` ticks are a second. `WindowOver` is `now.After(windowEnd)`, strict. An
absent entry behaves like one whose window ended before time 0 (`NoEntry`).
`log` and `verdict` are history.

### AuthService

A handler goes `Arrive` (limiter, body, start of the 2 s) -> `Select` -> `Update` ->
`Commit` -> `Reply`; `TooMany`, `BadRequest`, `TimeOut` and `Disconnect` are the early
returns. Since `ValidateAndConsume` is a deferred transaction, its snapshot dates
from the SELECT, and its UPDATE must turn a reader into a writer. SQLite refuses
that, at once, when another connection holds the lock (`wlock`) or has committed
since (`stale`): `MayWrite`. Without `--consume-on-issue` there is no UPDATE.
The commit and the grant of the key are one step, as no code between them can
fail. `Insert` and `Revoke` are autocommit statements of other connections and
wait for the lock (`busy_timeout`). `disk` is what a power failure leaves under
`synchronous=NORMAL`: any checkpointed state may be older than `db`. A restart
loses the handlers and the limiter, not the database. `redeemed` counts the keys
granted since a token was last invited.

External parts, modelled from how the code uses them: SQLite's locking and
recovery, the operator who revokes (the repository has no tool for it).

### BatchFetch

A refresh encrypts under a fresh nonce, so the chunks of different refreshes do
not fit together even if the posts are the same; a chunk is its number and its
generation. `totals` records each generation's number of chunks (0: the batch is
missing, or the map holds the placeholder of a failing `Latest` only). A
resolver answers with any generation from `oldest` on: a refresh comes 60 s after
the one before, when all earlier answers have outlived their TTL of 15 s; a
restart may come at any time.

`Scatter` sends a query to every resolver; the first good answer wins (`Receive`),
all rejected is `TryFails`. `TakePart`, `WrongPart` and `NoHeader` are what
`fetchMultipartCiphertext` makes of an answer; only `WrongPart` leads to another
attempt. AES-GCM accepts a result exactly if it is of one generation (`Whole`).
A chunk with a `total` of one generation and the payload of another does not
exist, as both come from one lookup.

### FeedIngest

`refreshCache` starts a worker per line of the source files, in order, while the
semaphore has room; a worker takes the steps `GetCursor`, `Fetch`, `Insert`,
`Advance`, each of which may fail; `Prune` follows when all are done. There is one
database connection, so that statements do not overlap. Dates are ranks in the
order of strings: `Unparsed` stands for a text `parseRSSDate` could not parse and
that sorts behind all timestamps. A post is what `hashPost` tells apart: two feeds
may carry the same one. Feeds list and withdraw items at will. `StatementsFail`
adds the two errors the code swallows: of a single row, and of a cursor's read.

### FeedPage

A round is one run of `handleTokenSubmit` or `handleRefresh` with the fetches it leaves
behind; `pc` is the `await` it stands at. `answers[r][b]` holds what the fetch of batch
`b` may still bring: the contents of the batch in each generation that was current, or in
a resolver's cache, since it began (empty: no such fetch). That is the atomic read which
`ImplementsRead` shows a fetch to be; the further generation a restart of thefeed may leave in
caches is left out. What a generation has to bring is empty if the key the round has `held` since
its submit or start does not open it, which comes to a failure of the fetch. A post is its rank in
the order of `Latest`; `Batch` cuts the ranks into batches. The notice that replaces the posts when `Latest` fails is a post like another.

`FirstArrives` stands for everything from the answer to batch 0 to `finally`, which runs without
an `await`. `FirstUncached` is the same with `sessionStorage.setItem` throwing, after which the batches
1 to 9 are not launched; `storage` says whether it takes what it is given, and turns at any time
(`StorageTurns`). `FirstFails` is any failure of fetch or decryption. `Submit` may come while another one is under way, as the
input field takes Enter when the button is disabled; `HandleRefresh` may too, as the timer
does not look at `refreshing`. Left out: the error text, telemetry, filter, order and grouping,
and the cached record, of which only the date is ever shown.

Keys are indices into `Keys`, the texts `THEFEED_MASTER_KEY` is set to one after the other.
`RestartFeed` and `RestartAuth` bring the next one in, in any order; a page keeps the one it was
`Granted`, and nothing takes it back to the login when no batch can be decrypted any more.

### KeyForms

A text is a secret written in base64, in base64 without padding, in hex, or in any other way (a
phrase), perhaps with white space around it or with a `|` in it. `ParseKey32` decodes the
first three and hashes the trimmed text otherwise; authd puts the text as it is in the envelope,
`SessionKey` is what the page takes out of it (up to the first `|`), and `NormalizedKey`
hashes that. Hashes are taken to be distinct from each other and from anyone's secret.

### TxtRecord, TxtPath

In a local deployment (`NEXT_PUBLIC_DNS_BRIDGE_URL`) the page sends its queries to the
bridge, which passes them to slipgate. `Get` is a request up to its datagram in slipgate's
socket, which a full `queue` drops; `Take` is one turn of slipgate's loop, up to the lookup of thefeed's address in
`forwardUDP` (`Dialing`), which `net.DialTimeout` gives 2 s. `Dial` is that lookup's end: a port, 2 s anew (`SetDeadline`), the
query sent, and thefeed's answer, if any, put on the `air`. `Relay` takes an
answer from slipgate's `Read` to the end of the request (`clearTimeout`, `sock.close`, the text); it is one
step, since the last hop is on one machine. `GiveUp` is either deadline, `Refused` an error
of the dial, the write or the read. `Lose` is a datagram that is lost, or finds its port closed; an answer
may also stay on the air while slipgate's port is given to another connection, or a socket of
the bridge to another request. That is where an answer may go to the wrong request; `reused`
notes it. `stalls[s]` counts the waits of slipgate, for an address or for an answer, that took some time while
request `s` was open.
A failing lookup or send in the bridge is left out (it is the same `Close`, earlier), and so are
requests without a name, which are refused at once.

`TxtRecord` has the lengths that decide what thefeed sends: header, chunk, dot, padding, the 255 bytes
of a character-string and `--max-dns-response-bytes`. `Padding` is in closed form what the loop
of `buildTXTWithinCap` arrives at: the most that fits, up to what was drawn (`PaddingFits` in the proofs).
Malformed packets are not answered, like a chunk that does not exist.

## 3. The runs

| Run | Question | Result |
|---|---|---|
| `rate_limiter` | `BurstBound`: what a second can let through; `DeniedOnlyAtTheRate` | holds |
| `auth_consume` | `SingleUse`, `ImplementsAllowlist`, `EveryRequestEnds`, `WritersGetTheirTurn`, with consumption on | holds |
| `auth_reusable` | `RevocationTakesHold` with consumption off (the default), power failures included | holds |
| `auth_busy` | are only bad tokens refused? | no: a concurrent commit refuses a good one |
| `batch_fetch` | `CountsAgree`, `QuietAttemptIsWhole`, `QueryCountExact`, `QueriesBounded`, `ImplementsRead`, `EveryFetchEnds` | holds |
| `batch_rotation` | is a rotation noticed and retried? | no: not if the number of chunks stays |
| `feed_ingest` | `NoneLeftBehind`, `CursorNeverBack`, `RefreshesEnd`, `NewPostsStored`, the semaphore's bound | holds |
| `feed_dates` | is a cursor always a timestamp? | no: an unparsable date becomes one |
| `feed_rows` | is a batch inserted that was not reported as failed? | no: failing rows are skipped |
| `feed_page` | `OncePerPost`, `FlagsHaveOwners`, `StayingPostShown` | holds |
| `key_forms` | does the key that `.env.example` asks for open the feed? | no: the page hashes what thefeed decodes |
| `txt_path` | `AnswersMatch`, `TimeoutHasCause`, `EveryGetEnds`, `Recovers` | holds |

`BurstBound` caps a second at `2*rps`, not at the `rps` of the flag's name: the end of one
window and the start of the next may meet. The power failures of `SingleUse` and the
feed that is listed twice are not in these runs; the theorems `SingleUseHolds` and
`NothingLost` cover both. `RotationIsRetried` has a second way to fail, which the
counterexample of the run does not take: when chunks disappear, the fetch fails in its
first attempt. `TimeoutHasCause` says how much the 3 s of the bridge are worth: they outlast one
wait of slipgate, not two. The two need not be of two queries: as `slipgate/main.go:48` looks up `thefeed`
for up to 2 s and line 53 then starts 2 s anew, one query may keep the loop for 4 s and cost a request
behind it all its time (a lookup of 1 s and an answer that does not come will do). If thefeed is given by its address or its lookup takes no
time, two queries are needed. `StayingPostShown` needs the session storage for all batches but the
first: without the premise `storage` it fails, as TLC shows: a page that gets batch 0 again and again may never ask for another.

Three sentences of the documents the code does not keep are too plain for a run. A token is
"consumed" when a key is issued (`system-architecture.md:78`, and SEC-07 of `dns-feed-requirements.md`) only
with `--consume-on-issue`, which defaults to false and is not set by `deploy/docker-compose.yml`. And the page does
not route queries "to the fastest responder" (`system-architecture.md:26`): `fetchTXTScatter` ignores the resolver it
is given and asks both. And `CLI-03` of `dns-feed-requirements.md` (line 55) has "no automatic polling or
background refresh", where `page.tsx` calls `handleRefresh` every 2 minutes; `StayingPostShown` rests on that timer, and would
need a user who presses the button for ever without it.

The runs that fail check a sentence of the repository's documents or comments, which
`PROJECT.json` ("findings") quotes.

**Bounds, and why they are enough.**

* `RateLimiter`: two clients, 2 requests per window, seconds of 2 ticks, a clock to 7. As a
  window is over only after its last tick, windows open at 0, 3 and 6 at the earliest: the fifth grant, about
  which `BurstBound` says something, falls into the third, and times up to 7 let windows open later than that.
* `AuthService`: two requests are what a race needs; two tokens let a commit for one
  make the snapshot of the other stale. With a clock to 2 (4 without consumption), a
  deadline of 1 and invitations of 0 or 1 ticks, an expiry, a deadline and a revocation
  come before, between and after the steps of a request. One restart or outage. More
  requests and tokens are covered by the proofs.
* `BatchFetch`: two resolvers, two attempts of two tries (the code has 3 and 3), two
  or three parts, three generations and a restart: batches grow and shrink, a fetch can
  see a rotation, recover from it and see another. Attempts and tries differ in nothing
  but being the last. Other sizes, empty batches among them, are covered by the proofs.
* `FeedIngest`: a feed and a Telegram channel that share a post, dates that are
  missing and unparsable, a clock of 2 with `Keep` 0 so that posts are pruned, one restart, and
  a single slot, for which the second worker has to wait. With two slots, so that
  workers overlap, the same properties hold on 467,368 states, which takes too long for every day; overlapping
  workers, in any number, are covered by the proofs of the two safety properties.
* `FeedPage`: two rounds overlap in every way (a third, tried once, changes nothing but
  the size); two posts in batches of one move between two batches, appear and disappear; the key
  changes once, in authd and thefeed at different times, so that a page may be ahead or behind; the storage
  turns as often as it likes. More
  rounds, and posts of the same source and time, of which one may hide the other, are
  covered by the proofs of the two invariants.
* `TxtPath`: the real seconds (3, 2 and 2). Two sockets, so that one request waits behind the other, and
  behind queries whose request has timed out; slipgate's buffer of two can be full; two ports of slipgate
  come round again while an answer is late. A chunk of the greatest length, one that does not exist and a name
  outside the domain are the three kinds of query: an answer that goes astray is noticed as
  its request asks for something else. `MaxBytes` is small enough for the padding to shrink. A second chunk
  that exists makes more than two million states; more of each kind, and padding that is cut off at 255 bytes,
  are covered by the proofs of `AnswersMatch` and `TimeoutHasCause`.

`CHECK_DEADLOCK FALSE` stands where the bounded clock and the bounded numbers of
generations and restarts let a model come to rest; `FeedIngest` and `FeedPage` never do.

**Fairness.** `AuthService`: weak fairness of each handler's own steps, since
goroutines are scheduled and SQLite answers each statement, and of the deadline.
Nothing for clients, clock and operator; `EveryRequestEnds` holds even though the
clock may stop before any deadline. `BatchFetch`: weak fairness of each query (an HTTP request is
answered or fails some time; the code sets no timeout of its own, so this is an
assumption about the browser) and of the client (timers, event loop).
`FeedIngest`: weak fairness of each worker (every request has a timeout of 10 s, and
the refresh one of 60 s), of `Prune` and of the ticker. `NewPostsStored` has a premise, `Working`:
strong fairness of successful fetches and inserts, as without feeds that answer there
is nothing to store. `FeedPage`: weak fairness of the end of each request
(`EveryFetchEnds`), of the timer, and of the expiry of caches; none for refreshes of
thefeed, submits, reloads and the storage. `StayingPostShown` has three premises: fetches of a batch succeed in the
end if they are tried for ever (`Working`: strong fairness of `FirstBrought`, whichever way the storage takes it, and
of `Arrives`); the page's key is thefeed's; and for posts of other batches than the first, the session storage
accepts from some time on. `TxtPath`: time does not stand still for ever while
a request is open (`Tick` waits for all that takes no time, so that this is the progress of timers and of slipgate's
loop). `Recovers` has the premise that from some time on no request asks for what is not there, no datagram
is lost or late and no lookup is slow; each of these is needed. The runs with liveness properties use no symmetry.

## 4. The proofs

| Theorem | For all instances |
|---|---|
| `RateLimiterProofs!TypeCorrect`, `BurstBounded` | 2*rps + 1 grants take more than a second |
| `RateLimiterProofs!DeniedFairly` | `DeniedOnlyAtTheRate`: a denial follows rps grants within a second |
| `AuthServiceProofs!TypeCorrect` | types |
| `AuthServiceProofs!SingleUseHolds` | one key per invitation, and one more per power failure at most |
| `AuthServiceProofs!Refinement` | `AuthService` implements `TokenAllowlist`, if it consumes tokens and power does not fail |
| `AuthServiceProofs!RevocationHolds` | `RevocationTakesHold`, with or without consumption and power failures |
| `AuthServiceProofs!RefusedByConflict`, `GoodTokensPass` | a good token is refused in time only by a conflict of writers; never, without consumption |
| `BatchFetchProofs!TypeCorrect`, `CountsHold`, `QuietHolds`, `QueryCountHolds`, `QueriesBoundHolds` | the invariants of `batch_fetch` |
| `BatchFetchProofs!FetchIsARead` | `BatchFetch` implements `BatchRead` |
| `FeedIngestProofs!TypeCorrect` | types and the semaphore's bound |
| `FeedIngestProofs!NothingLost` | `NoneLeftBehind`, if single statements do not fail |
| `FeedIngestProofs!CursorsMoveOn` | `CursorNeverBack`, if moreover no feed is listed twice |
| `FeedIngestProofs!TimelyCursors`, `TimestampsHold`, `UnparsedStays` | only a feed's own unparsed date spoils its cursor, and then for good, if no feed is listed twice and statements do not fail |
| `FeedIngestProofs!InsertedHolds` | `BatchIsInserted`, if single statements do not fail |
| `FeedPageProofs!TypeCorrect`, `OncePerPostHolds`, `FlagsOwned` | the invariants of `feed_page` |
| `FeedPageProofs!BatchesCutPosts` | batches are runs of the newest posts, of `Size` at most, and each post is in one of them if `Latest` is asked for no more than fit |
| `FeedPageProofs!KeysAgree` | thefeed and the page agree on the key exactly if it is a phrase without white space around it and without a `\|` |
| `TxtPathProofs!BudgetKept`, `ChunkWhole` | answers keep to the limit; they carry a chunk of at most 255 bytes, with header, whole |
| `TxtPathProofs!TypeCorrect`, `AnswersMatchHolds` | types; a request gets the chunk it asked for, whole, while no port is reused too soon |
| `TxtPathProofs!TimeoutCauseHolds` | `TimeoutHasCause`, if `Wait > Patience` |

All rest on the named assumptions about constants only (`LimiterAssumption`,
`AuthAssumption`, `FetchAssumption`, `IngestAssumption`, `PageAssumption`, `RecordAssumption`,
`PathAssumption`), which TLC evaluates in the runs, and
on the premises stated in the theorems.

* *BurstBounded.* `log` alone is not inductive: the invariant ties the entry to the
  log. The last `count` grants belong to the current window, and the `Rps` grants
  before any grant of a later window lie behind that window's start.
* *DeniedFairly.* The same invariant, and a last part (`Counted`): the grants the window
  has counted are the last of the log and none is older than the window. A denial finds
  the window open and the count at `Rps`.
* *SingleUseHolds, Refinement.* `ExchangeInv`: the lock is held exactly by
  a request that has updated (`LockInv`); a snapshot that is not stale still shows
  the row as it is (`SnapshotInv`); a row not consumed has given no key but those
  of outages (`LedgerInv`). So a commit finds the row it read and spends it.
* *RevocationHolds.* Without consumption nothing protects the row between check and commit, so
  that `SnapshotInv` is of no use. What holds, stale snapshot or not, is `GraceInv`: if
  the row of a request that has passed its check is revoked or expired by now, it became so
  after the request began. A revocation carries the time it is written, an invitation one that
  is not over yet, and a power failure, which can bring back any older row, ends all requests.
* *RefusedByConflict, GoodTokensPass* say where the finding of `auth_busy` ends: besides the
  write lock and a stale snapshot no step refuses a good token in time.
* *BatchFetch.* `FetchInv`: all parts come from generations of one count (`CountsInv`);
  while an attempt is quiet the current generation is the only one around, in
  caches, on the wire and among the parts (`QuietInv`); each query is in one of two
  counters (`LedgerInv`). Earlier attempts do not matter as each begins with no parts.
* *FetchIsARead.* `AgeInv`: how far a part may be behind is settled when the fetch begins. Caches
  are then behind by one refresh and the restarts so far (`Lag`) at most, and what is in caches, on the wire and
  among the parts never becomes older. Each step of the fetch then is a step of `BatchRead` or
  invisible (`ReadStep`): a result of one generation is a read of that generation, a mixture a failure.
* *QueriesBoundHolds.* `BudgetInv` counts rounds of queries: those of the attempts before, of the
  parts of this one, of the tries for this part. It needs `RoomInv`: no answer is under way
  for a part that its generation does not have, so that an attempt never asks for more parts than a batch has.
* *NothingLost.* `IngestInv`: each cursor, and each copy of one in a worker's hands,
  has passed stored posts only; a batch together with what is stored covers all that
  its feed lists up to the batch's last date; and no date anywhere exceeds what the
  feed has listed, so that a new item of an orderly feed is ahead of all of them.
* *TimelyCursors, TimestampsHold, UnparsedStays, InsertedHolds* draw the limits of the findings of `feed_dates`
  and `feed_rows`. A feed whose own dates are timestamps, like every channel, keeps a good
  cursor whatever other feeds, errors and restarts do. `UnparsedStays` follows from `CursorsMoveOn`;
  the model gives all texts behind the timestamps one rank, so it speaks of items with timestamps.
* *FeedPage.* `TypeOK` says that a handler waits for batch 0 exactly while it is under way;
  with it both invariants are inductive. A handler clears its flags in its last step, and those
  another one of its kind may still need too: a spinner may vanish early, never late.
* *BatchesCutPosts* shows `Batch` to be the slicing of `main.go`: ranks differ, so that by the pigeonhole
  principle no more than `Size` of them have the same quotient. Its premise is met by the code,
  which asks for 100 posts and cuts ten batches of ten.
* *AnswersMatchHolds.* `AnswersMatch` does not say where an answer comes from. `Owned` does: what
  reaches slipgate's connection was sent for the query it forwards, and that query, like each one
  in the queue, is the one of the request that has its socket open, if there is one. The premise
  `Short` is met by thefeed: chunks have at most 220 bytes (`maxTXTChunkLen`), and the header of one of ten batches
  is far below the 34 that leaves. `PaddingFits` shows the closed form of the padding to be what the loop finds.
* *TimeoutCauseHolds.* `BehindInv`: a request still in the queue has lost time only while slipgate
  was in one of its waits, each of `Patience` at most; with none counted in `stalls` it has all its
  time left, with one it lacks no more than that wait has taken. `Dial` ends one wait and begins the next, like
  `Take` after `GiveUp`. The premise is exact: with `Wait = Patience` TLC finds a request that one wait costs its whole time.

Every invariant, action property and refinement of the runs that hold is thus a theorem. The liveness properties
(`EveryRequestEnds`, `WritersGetTheirTurn`, `EveryFetchEnds`, `RefreshesEnd`, `NewPostsStored`,
`StayingPostShown`, `EveryGetEnds`, `Recovers`) are model-checked only: fairness and ENABLED are
beyond the prover. TLC has also checked the inductive invariants behind the runs' properties, on the instances of those runs.

## 5. Plan

Done: `LimiterEntry`, `RateLimiter`, `TokenAllowlist`, `AuthService`, `BatchRead`, `BatchFetch`,
`FeedIngest`, `FeedPage`, `KeyForms`, `TxtRecord`, `TxtPath`, in this order of importance: access,
delivery, content, display, and the path of a single query.

Proved: every safety property of the runs that hold, both refinements, and the limits of the findings.

Next:

1. The composition of `FeedIngest` and `FeedPage` in one state space. By their properties they
   already fit: `FeedPage` lets thefeed cut its batches from any posts, hence from whatever
   `FeedIngest` has stored; a post is stored (`NewPostsStored`), and shown once it stays in one
   batch (`StayingPostShown`).
2. Proofs about that composition, and about what a page shows of a post that moves between batches.

## 6. Not modelled

The DoH bridge of authd, the web proxy in front of it and the health check keep no state, and
what they bring is used for a warm-up only. The containers in
`deploy/` build third-party tunnels whose sources are not here. Telemetry, layout and styles
only present. `test_tg.go` is an experiment nothing calls. Of the modelled parts,
cryptography is abstract (a token is its HMAC, a ciphertext of one generation decrypts, a
mixture does not); formats and logging are left out.
