-------------------------- MODULE MC_HttpConnection --------------------------
(* A small instance of HttpConnection. *)
EXTENDS HttpConnection

MCUrls == {<<"a">>, <<"a", Variable>>, <<"a", "c">>, Wildcard}
MCRequestUrls == {<<"a">>, <<"a", "b">>, <<"d">>}
=============================================================================
