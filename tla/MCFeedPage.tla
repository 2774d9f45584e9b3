----------------------------- MODULE MCFeedPage -----------------------------
(* FeedPage with a newer and an older post, which takes the newer one's    *)
(* batch when that is pruned, and with master keys that are changed once   *)
(* or coded.                                                               *)
EXTENDS FeedPage, TLC

Written(word, form) ==
    [word |-> word, form |-> form, margin |-> FALSE, bar |-> FALSE, cut |-> FALSE]

Phrases == <<Written("old", "phrase"), Written("new", "phrase")>>
Base64  == <<Written("old", "base64")>>

Pair == (1 :> "x") @@ (2 :> "y")
=============================================================================
