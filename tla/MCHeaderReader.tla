--------------------------- MODULE MCHeaderReader ---------------------------
(* A client that sends any of a few request and header lines.              *)
EXTENDS HeaderReader

RequestLines == {
  <<"GET", " ", "/", " ", "HTTP/1.0">>,
  <<" ", "GET", " ", " ", "/", "?", "a", "#", "?", " ", "HTTP/1.1">>,
  <<"GET", " ", "/", "a", "/", ".", ".", "/", "b", " ", "HTTP/1.1", " ">>,
  <<"GET", " ", "a", " ", "HTTP/1.1">>,
  <<"GET", " ", "HTTP/1.1">>,
  <<"a", " ", "/", " ", "HTTP/1.1">>,
  <<"GET", " ", "/", " ", "a", " ", "HTTP/1.1">>}

HeaderLines == {
  <<>>,
  <<"a", ":", " ", "b", " ", ":", " ">>,
  <<"a", ":", " ", " ">>,
  <<":", "CR">>,
  <<"a", " ">>,
  <<"Connection", ":", "close">>,
  <<"Connection", ":", " ", "keep-alive">>,
  <<"LF", "a", ":">>}

MCLines == RequestLines \cup HeaderLines
=============================================================================
