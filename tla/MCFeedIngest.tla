---------------------------- MODULE MCFeedIngest ----------------------------
(* FeedIngest with an RSS feed and a Telegram channel.                     *)
EXTENDS FeedIngest

CONSTANTS x, channel, \* feeds
          p, q        \* posts

ListedOnce == <<x, channel>>
Alone      == <<x>>

Of(post, date) == [post |-> post, date |-> date]

(* The feed may give a post an unparsable date; the channel, which has no  *)
(* dates, carries a post that the feed has too.                            *)
MCOffers ==
    [f \in Feeds |-> IF f = x THEN {Of(p, 1), Of(q, 2), Of(q, Unparsed)} ELSE {Of(p, 0)}]
=============================================================================
