----------------------------- MODULE MCFeedReader -----------------------------
(* FeedReader with two feeds, one of which may fall silent once.           *)
EXTENDS FeedReader

MCFirst == <<"f1", "f2">>
MCPublishedAt == <<1>>
MCFeedOf == <<"f1">>
MCAbout == <<"AAA">>

=============================================================================
