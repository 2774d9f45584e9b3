------------------------------ MODULE FeedPage ------------------------------
(***************************************************************************)
(* The feed page (web/src/app/page.tsx) over the batches thefeed cuts from *)
(* the latest posts (server/cmd/thefeed/main.go).                          *)
(*                                                                         *)
(* authd and thefeed may be restarted, one after the other, with a new     *)
(* THEFEED_MASTER_KEY, while pages hold the one before.                    *)
(*                                                                         *)
(* A round is one run of handleTokenSubmit or handleRefresh together with  *)
(* the fetches it leaves running in the background; rounds overlap, and    *)
(* their fetches return in any order, while posts move from one batch to   *)
(* the next.  A fetch is the atomic read of BatchRead: it brings the batch *)
(* of one generation, current or still cached since the fetch began, or it *)
(* fails.                                                                  *)
(*                                                                         *)
(* A post is its rank in the order of Latest (pub_date, then id), so that  *)
(* a greater post is a newer one.  feed is kept as the number of times it  *)
(* contains a post: the page sorts it before showing it.                   *)
(***************************************************************************)
EXTENDS Integers, FiniteSets, Sequences, KeyForms

CONSTANTS Rounds,  \* slots for rounds
          Posts,   \* all posts there may be
          Key,     \* source and time of a post: what fetchFeed tells apart
          Keys,    \* the texts THEFEED_MASTER_KEY is set to, one by one
          Size,    \* batchSize
          Last     \* the last batch, 9

Batches    == 0..Last
Background == 1..Last

ASSUME PageAssumption ==
    /\ Posts \subseteq Nat
    /\ DOMAIN Key = Posts
    /\ Keys \in Seq(MasterKey) /\ Keys # <<>>
    /\ Size \in Nat \ {0}
    /\ Last \in Nat

(* A batch is cut from the posts in the cache and sealed with the key.     *)
Generation == [posts : SUBSET Posts, key : 1..Len(Keys)]

VARIABLES current,        \* thefeed's generation of batches
          before,         \* the one a resolver may still have cached
          authKey,        \* which of Keys authd has
          sessionKey,     \* which one the page has, 0 if none
          feed,           \* how often each post is in the feed
          loading, initialLoading, refreshing,
          pc,             \* where the handler of each round is
          held,           \* the key that each round decrypts with
          answers,        \* for each fetch under way, what it may bring
          storage         \* whether the session storage takes a batch

server == <<current, before, authKey>>
flags  == <<loading, initialLoading, refreshing>>
vars   == <<server, sessionKey, feed, flags, pc, held, answers, storage>>

(* exchange, probe, first: handleTokenSubmit awaits the session key, the   *)
(* resolvers, batch 0; refresh: handleRefresh awaits batch 0.              *)
Places == {"idle", "exchange", "probe", "first", "refresh"}

TypeOK ==
    /\ current \in Generation /\ before \in Generation
    /\ authKey \in 1..Len(Keys)
    /\ sessionKey \in 0..Len(Keys)
    /\ feed \in [Posts -> Nat]
    /\ loading \in BOOLEAN /\ initialLoading \in BOOLEAN /\ refreshing \in BOOLEAN
    /\ pc \in [Rounds -> Places]
    /\ held \in [Rounds -> 0..Len(Keys)]
    /\ answers \in [Rounds -> [Batches -> SUBSET SUBSET Posts]]
    /\ storage \in BOOLEAN
    /\ \A r \in Rounds : pc[r] \in {"first", "refresh"} <=> answers[r][0] # {}

(* What refreshChunks may find.  If Latest fails or has nothing, a notice   *)
(* takes the place of the posts; it counts as a post here.                 *)
Found == {g \in Generation : g.posts # {}}

NoFetch == [b \in Batches |-> {}]

Init ==
    /\ current \in Found /\ current.key = 1 /\ before = current
    /\ authKey = 1
    /\ sessionKey = 0
    /\ feed = [p \in Posts |-> 0]
    /\ loading = FALSE /\ initialLoading = FALSE /\ refreshing = FALSE
    /\ pc = [r \in Rounds |-> "idle"]
    /\ held = [r \in Rounds |-> 0]
    /\ answers = [r \in Rounds |-> NoFetch]
    /\ storage \in BOOLEAN

-----------------------------------------------------------------------------
(* thefeed                                                                 *)

(* all[i:end], for all = Latest(100) and i = b * batchSize.                *)
Batch(ps, b) == {p \in ps : Cardinality({q \in ps : q > p}) \div Size = b}

(* What a fetch brings to a page with a key: a batch that does not exist   *)
(* is not answered, and one that the key does not open fails.              *)
Read(key, g, b) == IF key # 0 /\ Opens(Keys[key], Keys[g.key]) THEN Batch(g.posts, b) ELSE {}

Cut(g) ==
    /\ current' = g
    /\ before' = current
    /\ answers' = [r \in Rounds |-> [b \in Batches |->
                     IF answers[r][b] = {} THEN {}
                     ELSE answers[r][b] \cup {Read(held[r], g, b)}]]
    /\ UNCHANGED <<authKey, sessionKey, feed, flags, pc, held, storage>>

(* Ingestion has added and pruned posts, and the ticker cuts new batches.  *)
Refresh == \E g \in Found \ {current} : g.key = current.key /\ Cut(g)

(* thefeed and authd are restarted with the next key.                      *)
RestartFeed == \E g \in Found : g.key = current.key + 1 /\ Cut(g)

RestartAuth ==
    /\ authKey < Len(Keys)
    /\ authKey' = authKey + 1
    /\ UNCHANGED <<current, before, sessionKey, feed, flags, pc, held, answers, storage>>

(* 15 s without a refresh.                                                 *)
CachesExpire ==
    /\ before # current
    /\ before' = current
    /\ UNCHANGED <<current, authKey, sessionKey, feed, flags, pc, held, answers, storage>>

-----------------------------------------------------------------------------
(* fetchFeed                                                               *)

Fetching(key, b) == {Read(key, before, b), Read(key, current, b)}

(* Mutant: what is already in the feed is not looked at.                   *)
UnseenAll(ps) == ps

(* The de-duplication, by the keys in the feed as it is at that time.      *)
Unseen(ps) == {p \in ps : ~\E q \in Posts : feed[q] > 0 /\ Key[q] = Key[p]}

(* setFeed, after a batch that was answered and decrypted.                 *)
Bring(r, b) ==
    \E ps \in answers[r][b] :
        /\ ps # {}
        /\ feed' = [p \in Posts |-> feed[p] + IF p \in Unseen(ps) THEN 1 ELSE 0]

-----------------------------------------------------------------------------
(* handleTokenSubmit and handleRefresh                                     *)

(* The input field takes Enter while an earlier submit is under way.       *)
Submit(r) ==
    /\ sessionKey = 0
    /\ pc[r] = "idle" /\ answers[r] = NoFetch
    /\ pc' = [pc EXCEPT ![r] = "exchange"]
    /\ loading' = TRUE
    /\ UNCHANGED <<server, sessionKey, feed, initialLoading, refreshing, held, answers, storage>>

(* The envelope is opened with the invite token.                           *)
Granted(r) ==
    /\ pc[r] = "exchange"
    /\ pc' = [pc EXCEPT ![r] = "probe"]
    /\ held' = [held EXCEPT ![r] = authKey]
    /\ sessionKey' = authKey /\ initialLoading' = TRUE
    /\ UNCHANGED <<server, feed, loading, refreshing, answers, storage>>

(* finally                                                                 *)
SubmitOver(r) ==
    /\ pc' = [pc EXCEPT ![r] = "idle"]
    /\ loading' = FALSE /\ initialLoading' = FALSE
    /\ UNCHANGED refreshing

(* "token exchange failed": back to the login, whatever another submit     *)
(* has achieved.  authd has refused, or the route in front of it has not   *)
(* reached it, which is a 500.                                             *)
Refused(r) ==
    /\ pc[r] = "exchange"
    /\ sessionKey' = 0
    /\ SubmitOver(r)
    /\ UNCHANGED <<server, feed, held, answers, storage>>

(* Any other error: the route is not reached, the envelope does not open.  *)
Unreachable(r) ==
    /\ pc[r] = "exchange"
    /\ SubmitOver(r)
    /\ UNCHANGED <<server, sessionKey, feed, held, answers, storage>>

(* probeResolvers has its result, and never fails.                         *)
Probed(r) ==
    /\ pc[r] = "probe"
    /\ pc' = [pc EXCEPT ![r] = "first"]
    /\ answers' = [answers EXCEPT ![r][0] = Fetching(held[r], 0)]
    /\ UNCHANGED <<server, sessionKey, feed, flags, held, storage>>

(* The button, unless it is disabled, or the timer, which does not ask.    *)
HandleRefresh(r) ==
    /\ sessionKey # 0
    /\ pc[r] = "idle" /\ answers[r] = NoFetch
    /\ pc' = [pc EXCEPT ![r] = "refresh"]
    /\ held' = [held EXCEPT ![r] = sessionKey]
    /\ refreshing' = TRUE
    /\ answers' = [answers EXCEPT ![r][0] = Fetching(sessionKey, 0)]
    /\ UNCHANGED <<server, sessionKey, feed, loading, initialLoading, storage>>

RefreshOver(r) ==
    /\ pc' = [pc EXCEPT ![r] = "idle"]
    /\ refreshing' = FALSE
    /\ UNCHANGED <<loading, initialLoading>>

(* Mutant: an error skips what finally does to the flags.                  *)
OverUnflagged(r) ==
    /\ pc[r] \in {"first", "refresh"}
    /\ pc' = [pc EXCEPT ![r] = "idle"]
    /\ UNCHANGED flags

Over(r) ==
    \/ pc[r] = "first" /\ SubmitOver(r)
    \/ pc[r] = "refresh" /\ RefreshOver(r)

(* A round that is over holds no key.                                      *)
Release(r) == held' = IF answers'[r] = NoFetch THEN [held EXCEPT ![r] = 0] ELSE held

(* Mutant: the loop over the other batches ends one too early.             *)
FirstArrivesShort(r) ==
    /\ storage
    /\ Bring(r, 0) /\ Over(r)
    /\ answers' = [answers EXCEPT ![r] =
                     [b \in Batches |-> IF b \in {0, Last} THEN {} ELSE Fetching(held[r], b)]]
    /\ UNCHANGED <<server, sessionKey, held, storage>>

(* Batch 0 is there; the others are launched in the background.            *)
FirstArrives(r) ==
    /\ storage
    /\ Bring(r, 0) /\ Over(r)
    /\ answers' = [answers EXCEPT ![r] =
                     [b \in Batches |-> IF b = 0 THEN {} ELSE Fetching(held[r], b)]]
    /\ UNCHANGED <<server, sessionKey, held, storage>>

(* The session storage refuses the ciphertext after the feed was set.      *)
FirstUncached(r) ==
    /\ ~storage
    /\ Bring(r, 0) /\ Over(r)
    /\ answers' = [answers EXCEPT ![r] = NoFetch]
    /\ UNCHANGED <<server, sessionKey, storage>>
    /\ Release(r)

(* Mutant: a batch 0 that failed is fetched again, but not awaited.        *)
FirstFailsRetried(r) ==
    /\ Over(r)
    /\ answers' = [answers EXCEPT ![r][0] = Fetching(held[r], 0)]
    /\ UNCHANGED <<server, sessionKey, feed, storage>>
    /\ Release(r)

FirstFails(r) ==
    /\ Over(r)
    /\ answers' = [answers EXCEPT ![r] = NoFetch]
    /\ UNCHANGED <<server, sessionKey, feed, storage>>
    /\ Release(r)

Arrives(r, b) ==
    /\ Bring(r, b)
    /\ answers' = [answers EXCEPT ![r][b] = {}]
    /\ UNCHANGED <<server, sessionKey, flags, pc, storage>>
    /\ Release(r)

(* .catch(() => {}) *)
Fails(r, b) ==
    /\ answers[r][b] # {}
    /\ answers' = [answers EXCEPT ![r][b] = {}]
    /\ UNCHANGED <<server, sessionKey, feed, flags, pc, storage>>
    /\ Release(r)

(* The user reloads the page.                                              *)
Reload ==
    /\ sessionKey' = 0
    /\ feed' = [p \in Posts |-> 0]
    /\ loading' = FALSE /\ initialLoading' = FALSE /\ refreshing' = FALSE
    /\ pc' = [r \in Rounds |-> "idle"]
    /\ held' = [r \in Rounds |-> 0]
    /\ answers' = [r \in Rounds |-> NoFetch]
    /\ UNCHANGED <<server, storage>>

(* The session storage fills up or is cleared, is forbidden or allowed.    *)
StorageTurns ==
    /\ storage' = ~storage
    /\ UNCHANGED <<server, sessionKey, feed, flags, pc, held, answers>>

-----------------------------------------------------------------------------
Submitting(r) == Unreachable(r) \/ Refused(r) \/ Granted(r) \/ Probed(r)

FirstBrought(r) == FirstUncached(r) \/ FirstArrives(r)

FirstEnds(r) == FirstFails(r) \/ FirstBrought(r)

Next ==
    \/ Refresh \/ RestartFeed \/ RestartAuth \/ CachesExpire \/ Reload \/ StorageTurns
    \/ \E r \in Rounds :
          \/ Submit(r) \/ HandleRefresh(r) \/ Submitting(r) \/ FirstEnds(r)
          \/ \E b \in Background : Arrives(r, b) \/ Fails(r, b)

Spec == Init /\ [][Next]_vars

(* Requests end, fetches end (EveryFetchEnds of BatchFetch), caches expire *)
(* and the timer ticks.  Nobody submits, publishes or reloads for sure.    *)
FairSpec ==
    /\ Spec
    /\ WF_vars(CachesExpire)
    /\ WF_vars(\E r \in Rounds : HandleRefresh(r))
    /\ \A r \in Rounds :
          /\ WF_vars(Submitting(r) \/ FirstEnds(r))
          /\ WF_vars(\E b \in Background : Fails(r, b) \/ Arrives(r, b))

-----------------------------------------------------------------------------
(* Properties.                                                             *)

(* However rounds overlap and posts move between batches, no post is in    *)
(* the feed twice.                                                         *)
OncePerPost == \A p \in Posts : feed[p] <= 1

(* No spinner, skeleton or disabled button outlives the handlers: each     *)
(* flag is set only while a round that will clear it is under way.         *)
FlagsHaveOwners ==
    /\ loading => \E r \in Rounds : pc[r] \in {"exchange", "probe", "first"}
    /\ initialLoading => \E r \in Rounds : pc[r] \in {"probe", "first"}
    /\ refreshing => \E r \in Rounds : pc[r] = "refresh"

(* A batch that can be fetched and decrypted again and again is, in the    *)
(* end.  Of the session storage this says nothing.                         *)
Working ==
    /\ SF_vars(\E r \in Rounds : FirstBrought(r))
    /\ \A b \in Background : SF_vars(\E r \in Rounds : Arrives(r, b))

(* Then a post that comes to stay in one batch is shown to a user who      *)
(* stays, or one of the same source and time is, even if the other posts   *)
(* change without end.  The page's key must be the text thefeed was        *)
(* started with, and unless the post is in batch 0, the session storage    *)
(* must take what it is given: else batches 1 to 9 are never fetched.      *)
(* This rests on the timer of handleRefresh: nobody has to press a button. *)
StayingPostShown ==
    Working =>
        \A p \in Posts : \A b \in Batches :
            <>[](/\ sessionKey = current.key
                 /\ p \in Batch(current.posts, b)
                 /\ b = 0 \/ storage) =>
                <>(\E q \in Posts : feed[q] > 0 /\ Key[q] = Key[p])

(* What deploy/.env.example asks for, 32 bytes in base64 or hex, serves:   *)
(* the page can read the feed with the key authd gives it when thefeed was *)
(* started with the same.                                                  *)
GrantedKeyOpens ==
    sessionKey # 0 /\ Keys[sessionKey] = Keys[current.key] /\ Keys[sessionKey].form \in Coded =>
        Opens(Keys[sessionKey], Keys[current.key])
=============================================================================
