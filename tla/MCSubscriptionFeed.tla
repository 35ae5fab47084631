------------------------- MODULE MCSubscriptionFeed -------------------------
EXTENDS SubscriptionFeed

(* Empty, and two documents that differ in a character after insignificant  *)
(* white space, so that a position in one spelling is not one in the other. *)
MCValues == {<< >>, <<" ", "a">>, <<" ", "b">>}
MCRowKeys == {<<"k">>, <<"l">>}
MCLiterals == [ADD |-> {<<"A">>}, UPDATE |-> {<<"u">>}, DELETE |-> {<<"D">>}]
=============================================================================
