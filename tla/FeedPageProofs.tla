--------------------------- MODULE FeedPageProofs ---------------------------
(***************************************************************************)
(* The feed page for any number of overlapping rounds, posts and batches.  *)
(***************************************************************************)
EXTENDS FeedPage, FiniteSetTheorems, TLAPS

LEMMA NoFetchType == NoFetch \in [Batches -> SUBSET SUBSET Posts]
  BY DEF NoFetch

LEMMA ZeroIsBatch == 0 \in Batches
  BY PageAssumption DEF Batches

LEMMA KeyIndices ==
  /\ 1 \in 1..Len(Keys)
  /\ 0 \in 0..Len(Keys)
  /\ 1..Len(Keys) \subseteq 0..Len(Keys)
  BY PageAssumption

LEMMA ReadType ==
  ASSUME NEW k, NEW g \in Generation, NEW b
  PROVE  Read(k, g, b) \in SUBSET Posts
  BY DEF Read, Batch, Generation

LEMMA FetchingType ==
  ASSUME TypeOK, NEW k, NEW b \in Batches
  PROVE  /\ Fetching(k, b) \in SUBSET SUBSET Posts
         /\ Fetching(k, b) # {}
  BY ReadType DEF TypeOK, Fetching

(* Bringing a batch adds a post at most once, and only if it is not there. *)
LEMMA BringFacts ==
  ASSUME TypeOK, NEW r \in Rounds, NEW b \in Batches, Bring(r, b)
  PROVE  /\ feed' \in [Posts -> Nat]
         /\ OncePerPost => OncePerPost'
<1>1. PICK ps : feed' = [p \in Posts |-> feed[p] + IF p \in Unseen(ps) THEN 1 ELSE 0]
  BY DEF Bring
<1>2. ASSUME NEW p \in Posts
      PROVE  /\ feed[p] \in Nat
             /\ feed'[p] = feed[p] + (IF p \in Unseen(ps) THEN 1 ELSE 0)
             /\ p \in Unseen(ps) => feed[p] = 0
  BY <1>1 DEF TypeOK, Unseen
<1>3. feed' \in [Posts -> Nat]
  BY <1>1 DEF TypeOK
<1>4. ASSUME OncePerPost PROVE OncePerPost'
  BY <1>2, <1>4 DEF OncePerPost
<1> QED
  BY <1>3, <1>4

(* The end of a handler: its flags, and its place.                         *)
LEMMA OverFacts ==
  ASSUME TypeOK, NEW r \in Rounds, Over(r) \/ SubmitOver(r)
  PROVE  /\ pc' = [pc EXCEPT ![r] = "idle"]
         /\ loading' \in BOOLEAN
         /\ initialLoading' \in BOOLEAN
         /\ refreshing' \in BOOLEAN
  BY DEF TypeOK, Over, SubmitOver, RefreshOver

(* A handler that comes to its end with no fetch of batch 0 left.          *)
LEMMA OverType ==
  ASSUME TypeOK, NEW r \in Rounds, Over(r) \/ SubmitOver(r),
         held' \in [Rounds -> 0..Len(Keys)],
         NEW f \in [Batches -> SUBSET SUBSET Posts], f[0] = {},
         answers' = [answers EXCEPT ![r] = f],
         feed' \in [Posts -> Nat], sessionKey' \in 0..Len(Keys),
         UNCHANGED <<server, storage>>
  PROVE  TypeOK'
<1>1. pc' \in [Rounds -> Places] /\ answers' \in [Rounds -> [Batches -> SUBSET SUBSET Posts]]
  BY OverFacts DEF TypeOK, Places
<1>2. ASSUME NEW q \in Rounds
      PROVE  pc'[q] \in {"first", "refresh"} <=> answers'[q][0] # {}
  <2>1. CASE q = r
    BY <2>1, OverFacts DEF TypeOK
  <2>2. CASE q # r
    BY <2>2, OverFacts DEF TypeOK
  <2> QED
    BY <2>1, <2>2
<1> QED
  BY <1>1, <1>2, OverFacts DEF TypeOK, server

LEMMA ReleaseType ==
  ASSUME TypeOK, NEW r \in Rounds, Release(r)
  PROVE  held' \in [Rounds -> 0..Len(Keys)]
  BY PageAssumption DEF TypeOK, Release

LEMMA TypeInit == Init => TypeOK
<1> SUFFICES ASSUME Init PROVE TypeOK
  OBVIOUS
<1>1. pc \in [Rounds -> Places] /\ answers \in [Rounds -> [Batches -> SUBSET SUBSET Posts]]
  BY NoFetchType DEF Init, Places
<1>2. ASSUME NEW r \in Rounds
      PROVE  pc[r] = "idle" /\ answers[r][0] = {}
  BY ZeroIsBatch DEF Init, NoFetch
<1>3. /\ current \in Generation /\ before \in Generation /\ authKey \in 1..Len(Keys)
      /\ feed \in [Posts -> Nat]
      /\ sessionKey \in 0..Len(Keys) /\ held \in [Rounds -> 0..Len(Keys)]
      /\ loading \in BOOLEAN /\ initialLoading \in BOOLEAN /\ refreshing \in BOOLEAN
      /\ storage \in BOOLEAN
  BY KeyIndices DEF Init, Found
<1> QED
  BY <1>1, <1>2, <1>3 DEF TypeOK

LEMMA TypeStep == TypeOK /\ [Next]_vars => TypeOK'
<1> SUFFICES ASSUME TypeOK, [Next]_vars PROVE TypeOK'
  OBVIOUS
<1> USE ZeroIsBatch, NoFetchType
<1> USE DEF server, flags
<1>1. ASSUME Refresh \/ RestartFeed
      PROVE  TypeOK'
  <2>1. PICK g \in Generation : Cut(g)
    BY <1>1 DEF Refresh, RestartFeed, Found
  <2>2. answers' \in [Rounds -> [Batches -> SUBSET SUBSET Posts]]
    BY <2>1, ReadType DEF Cut, TypeOK
  <2>3. \A r \in Rounds : answers'[r][0] # {} <=> answers[r][0] # {}
    BY <2>1 DEF Cut, TypeOK
  <2> QED
    BY <2>1, <2>2, <2>3 DEF Cut, TypeOK
<1>2. ASSUME CachesExpire \/ RestartAuth
      PROVE  TypeOK'
  BY <1>2, PageAssumption DEF CachesExpire, RestartAuth, TypeOK
<1>3. ASSUME Reload
      PROVE  TypeOK'
  BY <1>3, KeyIndices DEF Reload, TypeOK, NoFetch, Places
<1>4. ASSUME NEW r \in Rounds, Submit(r) \/ Granted(r)
      PROVE  TypeOK'
  BY <1>4, KeyIndices DEF Submit, Granted, TypeOK, Places
<1>5. ASSUME NEW r \in Rounds, Refused(r) \/ Unreachable(r)
      PROVE  TypeOK'
  <2>1. /\ SubmitOver(r) /\ UNCHANGED <<server, feed, held, answers, storage>>
        /\ sessionKey' \in 0..Len(Keys)
    BY <1>5, KeyIndices DEF Refused, Unreachable, TypeOK
  <2>2. /\ answers[r] \in [Batches -> SUBSET SUBSET Posts]
        /\ answers[r][0] = {}
        /\ answers' = [answers EXCEPT ![r] = answers[r]]
    BY <1>5, <2>1 DEF Refused, Unreachable, TypeOK
  <2>3. feed' \in [Posts -> Nat] /\ held' \in [Rounds -> 0..Len(Keys)]
    BY <2>1 DEF TypeOK
  <2> QED
    BY <2>1, <2>2, <2>3, OverType
<1>6. ASSUME NEW r \in Rounds, Probed(r) \/ HandleRefresh(r)
      PROVE  TypeOK'
  <2>1. /\ \E k \in 0..Len(Keys) : answers' = [answers EXCEPT ![r][0] = Fetching(k, 0)]
        /\ UNCHANGED <<server, sessionKey, feed, loading, initialLoading, storage>>
        /\ held' \in [Rounds -> 0..Len(Keys)]
        /\ refreshing' \in BOOLEAN
        /\ pc' \in [Rounds -> Places]
        /\ pc'[r] \in {"first", "refresh"}
        /\ \A q \in Rounds : q # r => pc'[q] = pc[q]
    BY <1>6 DEF Probed, HandleRefresh, TypeOK, Places
  <2>2. answers' \in [Rounds -> [Batches -> SUBSET SUBSET Posts]]
    BY <2>1, FetchingType DEF TypeOK
  <2>3. /\ answers'[r][0] # {}
        /\ \A q \in Rounds : q # r => answers'[q] = answers[q]
    BY <2>1, FetchingType DEF TypeOK
  <2>4. ASSUME NEW q \in Rounds
        PROVE  pc'[q] \in {"first", "refresh"} <=> answers'[q][0] # {}
    <3>1. CASE q = r
      BY <2>1, <2>3, <3>1
    <3>2. CASE q # r
      BY <2>1, <2>3, <3>2 DEF TypeOK
    <3> QED
      BY <3>1, <3>2
  <2> QED
    BY <2>1, <2>2, <2>4 DEF TypeOK
<1>7. ASSUME NEW r \in Rounds, FirstArrives(r)
      PROVE  TypeOK'
  <2> DEFINE f == [b \in Batches |-> IF b = 0 THEN {} ELSE Fetching(held[r], b)]
  <2>1. f \in [Batches -> SUBSET SUBSET Posts] /\ f[0] = {}
    BY FetchingType
  <2>2. /\ answers' = [answers EXCEPT ![r] = f]
        /\ Over(r) /\ UNCHANGED <<server, storage>>
        /\ sessionKey' \in 0..Len(Keys) /\ held' \in [Rounds -> 0..Len(Keys)]
    BY <1>7 DEF FirstArrives, TypeOK
  <2>3. feed' \in [Posts -> Nat]
    BY <1>7, BringFacts DEF FirstArrives
  <2> HIDE DEF f
  <2> QED
    BY <2>1, <2>2, <2>3, OverType
<1>8. ASSUME NEW r \in Rounds, FirstUncached(r) \/ FirstFails(r)
      PROVE  TypeOK'
  <2>1. NoFetch[0] = {}
    BY DEF NoFetch
  <2>2. /\ answers' = [answers EXCEPT ![r] = NoFetch]
        /\ Over(r) /\ UNCHANGED <<server, storage>>
        /\ sessionKey' \in 0..Len(Keys) /\ held' \in [Rounds -> 0..Len(Keys)]
    BY <1>8, ReleaseType DEF FirstUncached, FirstFails, TypeOK
  <2>3. feed' \in [Posts -> Nat]
    BY <1>8, BringFacts DEF FirstUncached, FirstFails, TypeOK
  <2> QED
    BY <2>1, <2>2, <2>3, OverType
<1>9. ASSUME NEW r \in Rounds, NEW b \in Background, Arrives(r, b) \/ Fails(r, b)
      PROVE  TypeOK'
  <2>1. b \in Batches /\ b # 0
    BY PageAssumption DEF Background, Batches
  <2>2. /\ answers' = [answers EXCEPT ![r][b] = {}]
        /\ UNCHANGED <<server, sessionKey, flags, pc, storage>>
        /\ held' \in [Rounds -> 0..Len(Keys)]
    BY <1>9, ReleaseType DEF Arrives, Fails
  <2>3. feed' \in [Posts -> Nat]
    BY <1>9, <2>1, BringFacts DEF Arrives, Fails, TypeOK
  <2>4. /\ answers' \in [Rounds -> [Batches -> SUBSET SUBSET Posts]]
        /\ \A q \in Rounds : answers'[q][0] = answers[q][0]
    BY <2>1, <2>2 DEF TypeOK
  <2> QED
    BY <2>2, <2>3, <2>4 DEF TypeOK
<1>10. ASSUME StorageTurns
       PROVE  TypeOK'
  BY <1>10 DEF StorageTurns, TypeOK
<1>11. CASE UNCHANGED vars
  BY <1>11 DEF vars, TypeOK
<1> QED
  BY <1>1, <1>2, <1>3, <1>4, <1>5, <1>6, <1>7, <1>8, <1>9, <1>10, <1>11
     DEF Next, Submitting, FirstEnds, FirstBrought

(* No interleaving of rounds, fetches and refreshes takes a variable out   *)
(* of its type: in particular a handler awaits batch 0 exactly while that  *)
(* is being fetched, so that none is left waiting for nothing.             *)
THEOREM TypeCorrect == Spec => []TypeOK
  BY TypeInit, TypeStep, PTL DEF Spec

-----------------------------------------------------------------------------
(* De-duplication                                                          *)

LEMMA OnceStep == TypeOK /\ OncePerPost /\ [Next]_vars => OncePerPost'
<1> SUFFICES ASSUME TypeOK, OncePerPost, [Next]_vars PROVE OncePerPost'
  OBVIOUS
<1>1. ASSUME NEW r \in Rounds, NEW b \in Batches, Bring(r, b)
      PROVE  OncePerPost'
  BY <1>1, BringFacts
<1>2. ASSUME NEW r \in Rounds, FirstArrives(r) \/ FirstUncached(r)
      PROVE  OncePerPost'
  BY <1>1, <1>2, ZeroIsBatch DEF FirstArrives, FirstUncached
<1>3. ASSUME NEW r \in Rounds, NEW b \in Background, Arrives(r, b)
      PROVE  OncePerPost'
  <2>1. b \in Batches
    BY PageAssumption DEF Background, Batches
  <2> QED
    BY <1>1, <1>3, <2>1 DEF Arrives
<1>4. ASSUME UNCHANGED feed
      PROVE  OncePerPost'
  BY <1>4 DEF OncePerPost
<1>5. ASSUME Reload
      PROVE  OncePerPost'
  BY <1>5 DEF Reload, OncePerPost
<1>6. ASSUME NEW r \in Rounds, \/ Submit(r) \/ HandleRefresh(r) \/ Submitting(r)
                               \/ FirstFails(r)
      PROVE  UNCHANGED feed
  BY <1>6 DEF Submit, HandleRefresh, Submitting, Granted, Refused, Unreachable,
              Probed, FirstFails
<1>7. ASSUME \/ Refresh \/ RestartFeed \/ RestartAuth \/ CachesExpire \/ StorageTurns
             \/ UNCHANGED vars
             \/ \E r \in Rounds, b \in Background : Fails(r, b)
      PROVE  UNCHANGED feed
  BY <1>7 DEF Refresh, RestartFeed, Cut, RestartAuth, CachesExpire, StorageTurns, vars, Fails
<1> QED
  BY <1>2, <1>3, <1>4, <1>5, <1>6, <1>7 DEF Next, FirstEnds, FirstBrought

(* Any number of rounds may fetch the same and overlapping batches at the  *)
(* same time: the updater of setFeed sees what the others have added.      *)
THEOREM OncePerPostHolds == Spec => []OncePerPost
<1>1. Init => OncePerPost
  BY DEF Init, OncePerPost
<1> QED
  BY <1>1, OnceStep, TypeCorrect, PTL DEF Spec

-----------------------------------------------------------------------------
(* Flags                                                                   *)

LEMMA FlagsStep == TypeOK /\ FlagsHaveOwners /\ [Next]_vars => FlagsHaveOwners'
<1> SUFFICES ASSUME TypeOK, FlagsHaveOwners, [Next]_vars PROVE FlagsHaveOwners'
  OBVIOUS
<1> USE DEF server, flags
<1>1. ASSUME NEW r \in Rounds, SubmitOver(r), pc[r] \in {"exchange", "first"}
      PROVE  FlagsHaveOwners'
  <2>1. /\ ~loading' /\ ~initialLoading' /\ refreshing' = refreshing
        /\ \A q \in Rounds : q # r => pc'[q] = pc[q]
    BY <1>1 DEF SubmitOver, TypeOK
  <2> QED
    BY <1>1, <2>1 DEF FlagsHaveOwners
<1>2. ASSUME NEW r \in Rounds, RefreshOver(r), pc[r] = "refresh"
      PROVE  FlagsHaveOwners'
  <2>1. /\ ~refreshing' /\ loading' = loading /\ initialLoading' = initialLoading
        /\ \A q \in Rounds : q # r => pc'[q] = pc[q]
    BY <1>2 DEF RefreshOver, TypeOK
  <2> QED
    BY <1>2, <2>1 DEF FlagsHaveOwners
<1>3. ASSUME NEW r \in Rounds, Over(r)
      PROVE  FlagsHaveOwners'
  BY <1>1, <1>2, <1>3 DEF Over
<1>4. ASSUME NEW r \in Rounds, Submit(r) \/ HandleRefresh(r)
      PROVE  FlagsHaveOwners'
  <2>1. /\ pc[r] = "idle"
        /\ \A q \in Rounds : q # r => pc'[q] = pc[q]
        /\ initialLoading' = initialLoading
    BY <1>4 DEF Submit, HandleRefresh, TypeOK
  <2>2. \/ pc'[r] = "exchange" /\ refreshing' = refreshing
        \/ pc'[r] = "refresh" /\ loading' = loading
    BY <1>4 DEF Submit, HandleRefresh, TypeOK
  <2> QED
    BY <2>1, <2>2 DEF FlagsHaveOwners
<1>5. ASSUME NEW r \in Rounds, Granted(r) \/ Probed(r)
      PROVE  FlagsHaveOwners'
  <2>1. /\ pc[r] \in {"exchange", "probe"} /\ pc'[r] \in {"probe", "first"}
        /\ \A q \in Rounds : q # r => pc'[q] = pc[q]
        /\ refreshing' = refreshing
    BY <1>5 DEF Granted, Probed, TypeOK
  <2> QED
    BY <2>1 DEF FlagsHaveOwners
<1>6. ASSUME NEW r \in Rounds, Refused(r) \/ Unreachable(r)
      PROVE  FlagsHaveOwners'
  BY <1>1, <1>6 DEF Refused, Unreachable
<1>7. ASSUME NEW r \in Rounds, FirstEnds(r)
      PROVE  FlagsHaveOwners'
  BY <1>3, <1>7 DEF FirstEnds, FirstBrought, FirstArrives, FirstUncached, FirstFails
<1>8. ASSUME UNCHANGED <<flags, pc>>
      PROVE  FlagsHaveOwners'
  BY <1>8 DEF FlagsHaveOwners
<1>9. ASSUME \/ Refresh \/ RestartFeed \/ RestartAuth \/ CachesExpire \/ StorageTurns
             \/ UNCHANGED vars
             \/ \E r \in Rounds, b \in Background : Arrives(r, b) \/ Fails(r, b)
      PROVE  UNCHANGED <<flags, pc>>
  BY <1>9 DEF Refresh, RestartFeed, Cut, RestartAuth, CachesExpire, StorageTurns, vars,
              Arrives, Fails
<1>10. ASSUME Reload
       PROVE  FlagsHaveOwners'
  BY <1>10 DEF Reload, FlagsHaveOwners
<1> QED
  BY <1>4, <1>5, <1>6, <1>7, <1>8, <1>9, <1>10 DEF Next, Submitting

(* Whatever fails and however submits and refreshes overlap, a flag that   *)
(* disables a button or shows a skeleton has a handler under way that      *)
(* clears it.                                                              *)
THEOREM FlagsOwned == Spec => []FlagsHaveOwners
<1>1. Init => FlagsHaveOwners
  BY DEF Init, FlagsHaveOwners
<1> QED
  BY <1>1, FlagsStep, TypeCorrect, PTL DEF Spec

-----------------------------------------------------------------------------
(* Keys                                                                    *)

(* authd and thefeed, given the same text, give the page a key that opens  *)
(* the feed just if that text is a phrase, without white space around it   *)
(* and without a bar.                                                      *)
THEOREM KeysAgree ==
  ASSUME NEW t \in MasterKey
  PROVE  Opens(t, t) <=> t.form = "phrase" /\ ~t.margin /\ ~t.bar
<1>1. t \in [word : Words, form : Coded \cup {"phrase"},
              margin : BOOLEAN, bar : BOOLEAN, cut : BOOLEAN]
  BY DEF MasterKey, Text
<1>2. CASE t.form \in Coded
  <2>1. ParseKey32(t).hashed = FALSE /\ NormalizedKey(SessionKey(t)).hashed = TRUE
    BY <1>2 DEF ParseKey32, NormalizedKey
  <2> QED
    BY <1>2, <2>1 DEF Opens, Coded
<1>3. CASE t.form \notin Coded
  <2>1. Opens(t, t) <=> SessionKey(t) = TrimSpace(t)
    BY <1>3 DEF Opens, ParseKey32, NormalizedKey
  <2>2. SessionKey(t) = TrimSpace(t) <=> t.cut = t.bar /\ t.margin = FALSE
    BY <1>1 DEF SessionKey, TrimSpace
  <2> QED
    BY <1>1, <1>3, <2>1, <2>2 DEF MasterKey, Coded
<1> QED
  BY <1>2, <1>3

-----------------------------------------------------------------------------
(* How thefeed cuts the latest posts into batches                          *)

NewerThan(ps, p) == {q \in ps : q > p}

Rank(ps, p) == Cardinality(NewerThan(ps, p))

LEMMA RankType ==
  ASSUME NEW ps \in SUBSET Posts, IsFiniteSet(ps), NEW p \in ps
  PROVE  /\ Rank(ps, p) \in Nat /\ Cardinality(ps) \in Nat
         /\ Rank(ps, p) < Cardinality(ps)
<1>1. NewerThan(ps, p) \in SUBSET ps /\ p \notin NewerThan(ps, p) /\ p \in Nat
  BY PageAssumption DEF NewerThan
<1>2. /\ IsFiniteSet(NewerThan(ps, p))
      /\ Rank(ps, p) <= Cardinality(ps)
      /\ Cardinality(ps) # Rank(ps, p)
  BY <1>1, FS_Subset DEF Rank
<1> QED
  BY <1>2, FS_CardinalityType DEF Rank

(* The newer of two posts has the smaller rank.                            *)
LEMMA RankFalls ==
  ASSUME NEW ps \in SUBSET Posts, IsFiniteSet(ps), NEW p \in ps, NEW q \in ps, p > q
  PROVE  Rank(ps, p) < Rank(ps, q)
<1>1. /\ NewerThan(ps, p) \in SUBSET NewerThan(ps, q)
      /\ p \in NewerThan(ps, q) /\ p \notin NewerThan(ps, p)
      /\ NewerThan(ps, q) \in SUBSET ps
  <2>1. p \in Nat /\ q \in Nat /\ \A x \in ps : x \in Nat
    BY PageAssumption
  <2>2. \A x \in ps : x > p => x > q
    BY <2>1
  <2>3. ~(p > p)
    BY <2>1
  <2> QED
    BY <2>2, <2>3 DEF NewerThan
<1>2. IsFiniteSet(NewerThan(ps, q))
  BY <1>1, FS_Subset
<1>3. /\ Rank(ps, p) <= Rank(ps, q)
      /\ Rank(ps, q) # Rank(ps, p)
  BY <1>1, <1>2, FS_Subset DEF Rank
<1> QED
  BY <1>3, RankType

LEMMA Division ==
  ASSUME NEW r \in Nat
  PROVE  /\ r \div Size \in Nat
         /\ (r \div Size) * Size \in Nat
         /\ (r \div Size) * Size <= r /\ r < (r \div Size) * Size + Size
  BY PageAssumption

LEMMA BatchMembers ==
  ASSUME NEW ps, NEW b
  PROVE  Batch(ps, b) = {p \in ps : Rank(ps, p) \div Size = b}
  BY DEF Batch, Rank, NewerThan

(* Batches are runs of the posts from the newest on, of Size at most; and  *)
(* as Latest is asked for no more posts than there is room for, every post *)
(* is in one of them, and in no other.                                     *)
THEOREM BatchesCutPosts ==
  ASSUME NEW ps \in SUBSET Posts, IsFiniteSet(ps)
  PROVE  /\ \A b \in Nat : Cardinality(Batch(ps, b)) <= Size
         /\ \A b, c \in Nat : \A p \in Batch(ps, b), q \in Batch(ps, c) :
               b < c => p > q
         /\ Cardinality(ps) <= (Last + 1) * Size =>
               \A p \in ps : \E b \in Batches :
                  \A c \in Nat : p \in Batch(ps, c) <=> c = b
<1>1. ASSUME NEW b \in Nat
      PROVE  Cardinality(Batch(ps, b)) <= Size
  <2> DEFINE S == Batch(ps, b)
             low == b * Size
             T == low..(low + Size - 1)
             rank == [p \in S |-> Rank(ps, p)]
  <2>1. low \in Nat /\ Size \in Nat /\ Size >= 1
    BY PageAssumption
  <2>2. IsFiniteSet(T) /\ Cardinality(T) = Size
    <3> HIDE DEF low
    <3>1. low + Size - 1 \in Int /\ low \in Int /\ ~(low > low + Size - 1)
          /\ (low + Size - 1) - low + 1 = Size
      BY <2>1
    <3> QED
      BY <3>1, FS_Interval
  <2>3. S \in SUBSET ps /\ IsFiniteSet(S)
    BY FS_Subset DEF Batch
  <2>4. ASSUME NEW p \in S PROVE Rank(ps, p) \in T
    <3>1. Rank(ps, p) \div Size = b /\ Rank(ps, p) \in Nat
      BY <2>3, BatchMembers, RankType
    <3>2. low <= Rank(ps, p) /\ Rank(ps, p) < low + Size
      BY <3>1, Division
    <3> QED
      BY <2>1, <3>1, <3>2
  <2>5. rank \in [S -> T]
    BY <2>4
  <2>6. ASSUME Cardinality(T) < Cardinality(S) PROVE FALSE
    <3>1. PICK x, y \in S : x # y /\ rank[x] = rank[y]
      <4> HIDE DEF S, T, rank
      <4> QED
        BY <2>2, <2>3, <2>5, <2>6, FS_PigeonHole
    <3>2. x \in ps /\ y \in ps /\ x \in Nat /\ y \in Nat /\ Rank(ps, x) = Rank(ps, y)
      BY <2>3, <3>1, PageAssumption
    <3>3. x > y \/ y > x
      BY <3>1, <3>2
    <3>4. Rank(ps, x) < Rank(ps, y) \/ Rank(ps, y) < Rank(ps, x)
      BY <3>2, <3>3, RankFalls
    <3> QED
      BY <3>2, <3>4, RankType
  <2>7. Cardinality(S) \in Nat
    BY <2>3, FS_CardinalityType
  <2> QED
    BY <2>1, <2>2, <2>6, <2>7
<1>2. ASSUME NEW b \in Nat, NEW c \in Nat, NEW p \in Batch(ps, b), NEW q \in Batch(ps, c),
             b < c, ~(p > q)
      PROVE  FALSE
  <2>1. /\ p \in ps /\ q \in ps /\ p \in Nat /\ q \in Nat
        /\ Rank(ps, p) \div Size = b /\ Rank(ps, q) \div Size = c
        /\ Rank(ps, p) \in Nat /\ Rank(ps, q) \in Nat
    BY PageAssumption, BatchMembers, RankType
  <2>2. p # q
    BY <1>2, <2>1
  <2>3. Rank(ps, q) < Rank(ps, p)
    BY <1>2, <2>1, <2>2, RankFalls
  <2>4. /\ Rank(ps, p) < b * Size + Size /\ c * Size <= Rank(ps, q)
        /\ b * Size \in Nat /\ c * Size \in Nat
    BY <2>1, Division
  <2>5. b * Size + Size <= c * Size
    BY <1>2, PageAssumption
  <2>6. Rank(ps, p) < Rank(ps, q)
    <3> DEFINE u == b * Size
               v == c * Size
    <3>1. /\ u \in Nat /\ v \in Nat /\ u + Size <= v /\ Size \in Nat
          /\ Rank(ps, p) < u + Size /\ v <= Rank(ps, q)
      BY <2>4, <2>5, PageAssumption
    <3> HIDE DEF u, v
    <3> QED
      BY <2>1, <3>1
  <2> QED
    BY <2>1, <2>3, <2>6
<1>3. ASSUME Cardinality(ps) <= (Last + 1) * Size, NEW p \in ps
      PROVE  \E b \in Batches : \A c \in Nat : p \in Batch(ps, c) <=> c = b
  <2> DEFINE b == Rank(ps, p) \div Size
  <2>1. /\ Rank(ps, p) \in Nat /\ b \in Nat /\ b * Size <= Rank(ps, p)
        /\ Rank(ps, p) < (Last + 1) * Size
    <3> DEFINE room == (Last + 1) * Size
    <3>1. room \in Nat /\ Cardinality(ps) <= room
      BY <1>3, PageAssumption
    <3> HIDE DEF room
    <3>2. Rank(ps, p) < room /\ Rank(ps, p) \in Nat
      BY <3>1, RankType
    <3> QED
      BY <3>2, Division DEF room
  <2>2. b < Last + 1
    <3> HIDE DEF b
    <3>1. ASSUME b >= Last + 1 PROVE FALSE
      <4>1. (Last + 1) * Size <= b * Size
        BY <2>1, <3>1, PageAssumption
      <4> QED
        BY <2>1, <4>1, PageAssumption
    <3> QED
      BY <2>1, <3>1, PageAssumption
  <2>3. b \in Batches
    BY <2>1, <2>2, PageAssumption DEF Batches
  <2>4. \A c \in Nat : p \in Batch(ps, c) <=> c = b
    BY BatchMembers
  <2> QED
    BY <2>3, <2>4
<1> QED
  BY <1>1, <1>2, <1>3
=============================================================================
