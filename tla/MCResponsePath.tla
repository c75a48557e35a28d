---------------------------- MODULE MCResponsePath ----------------------------
(* Streams: requests of every framing, each first and second, and HTTP/2       *)
(* connections with two streams whose frames lie between each other.  Contents: *)
(* text and thoughts, long and short; a request whose prompt comes first, or     *)
(* late and with a reminder behind it.                                           *)
EXTENDS ResponsePath

Request(model, framing, chunks, trailers) ==
  [model |-> model, framing |-> framing, chunks |-> chunks, trailers |-> trailers]
Other    == Request(FALSE, "none", <<>>, 0)
Length   == Request(TRUE, "length", <<2>>, 0)
Chunked  == Request(TRUE, "chunked", <<1, 1>>, 0)
Trailers == Request(TRUE, "chunked", <<1>>, 1)
Requests == {<<Other, Trailers>>, <<Length, Other>>, <<Chunked, Length>>, <<Trailers, Chunked>>}

F(type, sid, endHeaders, endStream) ==
  [type |-> type, sid |-> sid, endHeaders |-> endHeaders, endStream |-> endStream]
Frames == {
  \* two answers in turns, one with its headers in two frames
  <<F("headers", 1, FALSE, FALSE), F("continuation", 1, TRUE, FALSE), F("headers", 3, TRUE, FALSE),
    F("data", 1, FALSE, FALSE), F("data", 3, FALSE, TRUE), F("data", 1, FALSE, TRUE)>>,
  \* a message that ends with its headers, which a continuation completes
  <<F("settings", 0, FALSE, FALSE), F("headers", 1, TRUE, FALSE), F("headers", 3, FALSE, TRUE),
    F("continuation", 3, TRUE, FALSE), F("data", 1, FALSE, TRUE)>>,
  \* trailers in two frames; a stream that is reset
  <<F("headers", 1, TRUE, FALSE), F("headers", 3, TRUE, FALSE), F("data", 3, FALSE, FALSE),
    F("reset", 3, FALSE, FALSE), F("data", 1, FALSE, FALSE), F("headers", 1, FALSE, TRUE),
    F("continuation", 1, TRUE, FALSE)>>}

MCScripts == {[http1 |-> pair] : pair \in Requests}
             \cup {[h2 |-> frames] : frames \in Frames}

MCReplies == {<<"text">>, <<"think">>, <<"think", "text">>, <<"text", "think", "text">>}
MCHistories == {<<"prompt">>, <<"prompt", "answer", "tool", "prompt", "reminder">>}
==============================================================================
