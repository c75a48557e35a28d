------------------------------ MODULE WireStreams ------------------------------
(* How agy's requests come off the wire.  A book on tls.Conn.Write hands the   *)
(* plaintext of every connection to the bridge, in pieces; the pieces of        *)
(* different connections mix, for their writers are different goroutines.       *)
(* BaseCorrelator.feed (wirecap/decode/capture.py) keeps the streams apart by   *)
(* the address of the connection, finds out which protocol each one speaks and  *)
(* takes it apart: HTTP/1.1 requests (http1sse.py), of which the model requests *)
(* are remembered, and HTTP/2 messages (h2reassemble.py), which are recorded.   *)
(*                                                                              *)
(* Plaintext is a sequence of tokens, the parts between which a piece may end   *)
(* and the decoders tell apart.  of is the message that a token belongs to.     *)
EXTENDS Naturals, SequencesExt

CONSTANTS Connections,   \* the connections agy opens
          Addresses,     \* where their tls.Conn may lie
          Scripts,       \* what a connection may send: [http1 |-> messages] or [h2 |-> frames]
          MaxPiece,      \* bound: tokens of one piece
          Reclaim,       \* tokens that are parsed before the decoder drops them (1 MiB)
          Reuse,         \* may a closed connection's address be used again?
          None

VARIABLES owner,    \* per address, the connection there now
          script,   \* per connection, what it sends
          sent,     \* per connection, how many tokens of it the book has handed over
          kind,     \* _kind: per address, None, "http1" or "h2"
          pre,      \* _pre: what came before the kind was known
          dec,      \* _dec: StreamDecoder.buf and pos
          side,     \* Reassembler.conns
          remembered, \* the model requests
          recorded    \* the h2msg events

vars == <<owner, script, sent, kind, pre, dec, side, remembered, recorded>>

-----------------------------------------------------------------------------
(* What Go's HTTP client writes *)

Token(k, m) == [k |-> k, of |-> m]

\* A message is [model, framing, chunks, trailers]: chunks are the sizes of the
\* pieces of its body, of which there is one when a length frames it.
Pieces(sizes, of, marks) ==
  FlattenSeq([i \in DOMAIN sizes |->
    (IF marks THEN <<[k |-> "size", of |-> of, n |-> sizes[i]]>> ELSE <<>>)
    \o [j \in 1 .. sizes[i] |-> [k |-> "data", of |-> of, n |-> <<i, j>>]]
    \o (IF marks THEN <<Token("crlf", of)>> ELSE <<>>)])

Http1Message(m, of) ==
  <<Token("method", of), [k |-> "line", of |-> of, model |-> m.model],
    [k |-> "head", of |-> of, framing |-> m.framing, n |-> IF m.chunks = <<>> THEN 0 ELSE m.chunks[1]]>>
  \o Pieces(m.chunks, of, m.framing = "chunked")
  \o (IF m.framing = "chunked"
      THEN <<[k |-> "size", of |-> of, n |-> 0]>> \o [i \in 1 .. m.trailers |-> Token("trailer", of)]
           \o <<Token("blank", of)>>
      ELSE <<>>)

Preface == <<Token("pri", None), Token("pri2", None), Token("sm", None)>>

\* A frame is [type, sid, endHeaders, endStream] and comes in two tokens.  Headers
\* that do not fit one frame go on in continuations, with no other frame between.
Http2Frames(frames, c) == FlattenSeq([i \in DOMAIN frames |->
  <<[k |-> "frame", of |-> c, f |-> frames[i]], [k |-> "payload", of |-> c, n |-> i]>>])

IsHttp1(s) == "http1" \in DOMAIN s
Plaintext(c) == LET s == script[c] IN
  IF IsHttp1(s) THEN FlattenSeq([i \in DOMAIN s.http1 |-> Http1Message(s.http1[i], <<c, i>>)])
                ELSE Preface \o Http2Frames(s.h2, c)

-----------------------------------------------------------------------------
(* http1sse.py *)

\* classify, for what a client sends: a request line or the preface of HTTP/2 tell
\* the protocol, a beginning of either does not, and anything else counts as HTTP/2.
Classify(buf) ==
  CASE buf[1].k = "pri"    -> IF Len(buf) = 1 THEN None ELSE "h2"
    [] buf[1].k = "method" -> IF Len(buf) = 1 THEN None ELSE IF buf[2].k = "line" THEN "http1" ELSE "h2"
    [] OTHER -> "h2"

First(b, from, Test(_)) == SelectInSubSeq(b, from, Len(b), Test)

\* _HDR.search: a request line, whatever lies before it
Start(b, pos) ==
  LET at == {i \in pos .. Len(b) - 1 : b[i].k = "method" /\ b[i + 1].k = "line"}
  IN  IF at = {} THEN 0 ELSE CHOOSE i \in at : \A j \in at : i <= j

\* Mutant: the size line 0 ends the body, as if no trailers could follow.
DechunkNoTrailers(b) ==
  LET end[i \in Nat] ==
        IF i > Len(b) \/ b[i].k # "size" THEN 0
        ELSE IF b[i].n = 0 THEN i + 1
        ELSE LET next == i + b[i].n + 1 IN
             IF next > Len(b) \/ b[next].k # "crlf" THEN 0 ELSE end[next + 1]
  IN  end

\* dechunk: where a chunked body that starts at i ends, or 0 if that cannot be
\* said yet; trailers belong to it and only an empty line closes them.
Dechunk(b) ==
  LET end[i \in Nat] ==
        IF i > Len(b) \/ b[i].k # "size" THEN 0
        ELSE IF b[i].n = 0
        THEN LET last == First(b, i + 1, LAMBDA t : t.k = "blank") IN IF last = 0 THEN 0 ELSE last + 1
        ELSE LET next == i + b[i].n + 1 IN
             IF next > Len(b) \/ b[next].k # "crlf" THEN 0 ELSE end[next + 1]
  IN  end

\* _try_one: the next whole message and where it ends (0: none)
End(b, head) ==
  CASE head = 0 -> 0
    [] head # 0 /\ b[head].framing = "chunked" -> Dechunk(b)[head + 1]
    [] head # 0 /\ b[head].framing = "length"  -> IF Len(b) - head < b[head].n THEN 0 ELSE head + 1 + b[head].n
    [] head # 0 /\ b[head].framing = "none"    -> head + 1
Between(b, start, head, end) ==
  [end |-> end,
   message |-> IF end = 0 THEN <<>>
               ELSE <<[line |-> b[start + 1], head |-> b[head].of,
                       body |-> SelectSeq(SubSeq(b, head + 1, end - 1), LAMBDA t : t.k = "data")]>>]
HeadAfter(b, start) == IF start = 0 THEN 0 ELSE First(b, start, LAMBDA t : t.k = "head")
TryOne(b, pos) ==
  LET start == Start(b, pos)
      head  == HeadAfter(b, start)
  IN  Between(b, start, head, End(b, head))

\* StreamDecoder.feed: all messages that are whole by now
Decoded(b, pos) ==
  LET from[p \in Nat] ==
        LET one == TryOne(b, p)
        IN  IF one.end = 0 THEN [messages |-> <<>>, pos |-> p]
            ELSE [from[one.end] EXCEPT !.messages = one.message \o @]
  IN  from[pos]

-----------------------------------------------------------------------------
(* h2reassemble.py *)

\* _Side; blocks is the state of the HPACK decoder, whose table depends on all
\* earlier blocks: how many it has decoded, or None without a decoder.
NewSide(hpack) == [buf |-> <<>>, saw |-> FALSE, streams |-> <<>>, headers |-> None,
                   failed |-> FALSE, blocks |-> IF hpack THEN 0 ELSE None]

\* feed: an invalid frame sequence cannot be reassembled, the direction is given up.
Fail(s) == [s EXCEPT !.failed = TRUE, !.buf = <<>>, !.streams = <<>>, !.headers = None]

Message == {"data", "headers", "continuation"}
Pending(s) == s.headers # None
Invalid(s, f) == \/ Pending(s) /\ (f.type # "continuation" \/ f.sid # s.headers.sid)
                 \/ f.type = "continuation" /\ ~Pending(s)

StreamOf(s, sid) == IF sid \in DOMAIN s.streams THEN s.streams[sid] ELSE [headers |-> <<>>, data |-> <<>>]

\* What has come of a stream is kept; at its end it is emitted and forgotten.
Stored(s, sid, stream, end) ==
  [side |-> [s EXCEPT !.streams = IF end THEN [i \in DOMAIN @ \ {sid} |-> @[i]]
                                         ELSE [i \in DOMAIN @ \cup {sid} |-> IF i = sid THEN stream ELSE @[i]]],
   out  |-> IF end THEN <<[sid |-> sid, headers |-> stream.headers, data |-> stream.data]>> ELSE <<>>]

DataFrame(s, f, payload) ==
  Stored(s, f.sid, [StreamOf(s, f.sid) EXCEPT !.data = Append(@, payload)], f.endStream)

\* HEADERS begin a block, CONTINUATION goes on with it.
Block(s, f, payload) ==
  IF f.type = "headers" THEN [sid |-> f.sid, data |-> <<payload>>, endStream |-> f.endStream]
                        ELSE [s.headers EXCEPT !.data = Append(@, payload)]

\* END_STREAM on HEADERS waits for the continuations.
HeaderFrame(s, f, payload) ==
  LET block   == Block(s, f, payload)
      decoded == [s EXCEPT !.headers = None, !.blocks = IF @ = None THEN None ELSE @ + 1]
      stream  == [StreamOf(s, f.sid) EXCEPT !.headers = IF s.blocks = None THEN @ ELSE @ \o block.data]
  IN  IF f.endHeaders THEN Stored(decoded, f.sid, stream, block.endStream)
                      ELSE [side |-> [s EXCEPT !.headers = block], out |-> <<>>]

\* _frame
Frame(s, f, payload) ==
  IF Invalid(s, f) THEN [side |-> Fail(s), out |-> <<>>]
  ELSE IF f.type = "data" THEN DataFrame(s, f, payload)
  ELSE IF f.type \notin Message THEN [side |-> s, out |-> <<>>]
  ELSE HeaderFrame(s, f, payload)

\* _parse, token by token: a frame is handled when it is whole.  Text at the place
\* of a frame reads as the length of one that never becomes whole.
Parsed(acc, token) ==
  LET s == acc.side IN
  IF s.failed THEN acc
  ELSE IF s.buf # <<>> /\ s.buf[1].k = "frame"
  THEN LET step == Frame([s EXCEPT !.buf = <<>>], s.buf[1].f, token)
       IN  [side |-> step.side, out |-> acc.out \o step.out]
  ELSE [acc EXCEPT !.side.buf = Append(@, token)]

Reassembled(s, data) ==
  LET b == s.buf \o data
      p == Len(Preface)
  IN  IF s.failed THEN [side |-> s, out |-> <<>>]
      ELSE IF ~s.saw /\ Len(b) < p THEN [side |-> [s EXCEPT !.buf = b], out |-> <<>>]
      ELSE FoldLeft(Parsed, [side |-> [s EXCEPT !.buf = <<>>, !.saw = TRUE], out |-> <<>>],
                    IF ~s.saw /\ SubSeq(b, 1, p) = Preface THEN SubSeq(b, p + 1, Len(b)) ELSE b)

-----------------------------------------------------------------------------
(* capture.py *)

Init ==
  /\ owner = [a \in Addresses |-> None] /\ script = [c \in Connections |-> None]
  /\ sent = [c \in Connections |-> 0]
  /\ kind = [a \in Addresses |-> None] /\ pre = [a \in Addresses |-> <<>>]
  /\ dec = [a \in Addresses |-> [buf |-> <<>>, pos |-> 1]]
  /\ \E hpack \in BOOLEAN : side = [a \in Addresses |-> NewSide(hpack)]
  /\ remembered = <<>> /\ recorded = <<>>

\* agy opens a connection.  The one at the address before has sent all it had to
\* send and is closed, and its tls.Conn has been collected.
Open(c, a) ==
  /\ c \notin Range(owner) /\ script[c] = None
  /\ owner[a] # None => Reuse /\ sent[owner[a]] = Len(Plaintext(owner[a]))
  /\ owner' = [owner EXCEPT ![a] = c]
  /\ \E s \in Scripts : script' = [script EXCEPT ![c] = s]
  /\ UNCHANGED <<sent, kind, pre, dec, side, remembered, recorded>>

\* _feed_http1: the model requests among the messages are remembered.
FeedHttp1(a, data) ==
  LET b == dec[a].buf \o data IN
  \E d \in {Decoded(b, dec[a].pos)} :
      /\ dec' = [dec EXCEPT ![a] = IF d.pos - 1 > Reclaim THEN [buf |-> SubSeq(b, d.pos, Len(b)), pos |-> 1]
                                                        ELSE [buf |-> b, pos |-> d.pos]]
      /\ remembered' = remembered \o SelectSeq(d.messages, LAMBDA m : m.line.model)
      /\ UNCHANGED <<side, recorded>>

FeedH2(a, data) ==
  \E r \in {Reassembled(side[a], data)} :
      /\ side' = [side EXCEPT ![a] = r.side]
      /\ recorded' = recorded \o [i \in DOMAIN r.out |-> [at |-> a] @@ r.out[i]]
      /\ UNCHANGED <<dec, remembered>>

Route(a, k, data) == \/ k = "http1" /\ FeedHttp1(a, data)
                     \/ k = "h2" /\ FeedH2(a, data)

\* feed: what came before the kind was known is replayed into the router; once
\* it is known nothing is kept back.
Feed(a, piece) ==
  LET buf == pre[a] \o piece
      k   == IF kind[a] = None THEN Classify(buf) ELSE kind[a]
  IN  /\ kind' = [kind EXCEPT ![a] = k]
      /\ pre' = [pre EXCEPT ![a] = IF k = None THEN buf ELSE <<>>]
      /\ \/ k = None /\ UNCHANGED <<dec, side, remembered, recorded>>
         \/ Route(a, k, buf)

\* The book hands over the next piece of a write, and dispatch feeds it.
TlsWrite(a) ==
  /\ owner[a] # None
  /\ LET c == owner[a] IN \E text \in {Plaintext(c)}, n \in 1 .. MaxPiece :
       /\ sent[c] + n <= Len(text)
       /\ sent' = [sent EXCEPT ![c] = @ + n]
       /\ Feed(a, SubSeq(text, sent[c] + 1, sent[c] + n))
  /\ UNCHANGED <<owner, script>>

Next == \E a \in Addresses : TlsWrite(a) \/ \E c \in Connections : Open(c, a)
Spec == Init /\ [][Next]_vars

-----------------------------------------------------------------------------
(* Properties *)

Sending == {c \in Connections : script[c] # None}

\* The model requests of a connection that were sent whole
WholeRequests(c) ==
  LET m == script[c].http1
      Size(i) == Len(Http1Message(m[i], <<c, i>>))
      Upto(i) == FoldLeft(LAMBDA n, j : n + Size(j), 0, [j \in 1 .. i |-> j])
  IN  SelectSeq([i \in DOMAIN m |-> i], LAMBDA i : m[i].model /\ Upto(i) <= sent[c])

\* Half of StreamsExact: however a connection's requests are cut into pieces and mixed with those of
\* other connections, each model request is remembered as soon as its last byte
\* is there, once, in order, with its own headers and its own body.
RequestsExact ==
  \A c \in Sending : IsHttp1(script[c]) =>
    LET seen  == SelectSeq(remembered, LAMBDA m : m.line.of[1] = c)
        whole == WholeRequests(c)
    IN  seen = [i \in DOMAIN whole |->
                 LET of == <<c, whole[i]>> IN
                 [line |-> [k |-> "line", of |-> of, model |-> TRUE], head |-> of,
                  body |-> SelectSeq(Http1Message(script[c].http1[whole[i]], of), LAMBDA t : t.k = "data")]]

\* The messages that the first n frames of a connection complete: for each the
\* payloads of its stream's frames, by what they are.
Ended(fs, n) ==
  SelectSeq([k \in 1 .. n |-> k], LAMBDA k :
    \/ fs[k].type = "data" /\ fs[k].endStream
    \/ /\ fs[k].type \in {"headers", "continuation"} /\ fs[k].endHeaders
       /\ \E j \in 1 .. k : /\ fs[j].type = "headers" /\ fs[j].endStream
                            /\ \A i \in j + 1 .. k : fs[i].type = "continuation")
FramePayloads(c, sid, k, types) ==
  LET own == SelectSeq([i \in 1 .. k |-> i], LAMBDA i : script[c].h2[i].sid = sid /\ script[c].h2[i].type \in types)
  IN  [i \in DOMAIN own |-> [k |-> "payload", of |-> c, n |-> own[i]]]

\* The other half: every HTTP/2 message that has ended is recorded once, in the order of their
\* ends, with all of its own data and headers and with nothing of a stream whose
\* frames lie between; without the optional decoder it has no headers.
MessagesExact ==
  \A a \in Addresses, c \in Sending : owner[a] = c /\ ~IsHttp1(script[c]) =>
    LET fs    == script[c].h2
        ended == Ended(fs, IF sent[c] < Len(Preface) THEN 0 ELSE (sent[c] - Len(Preface)) \div 2)
    IN  SelectSeq(recorded, LAMBDA m : m.at = a) =
          [i \in DOMAIN ended |->
            LET k == ended[i] IN
            [at |-> a, sid |-> fs[k].sid,
             headers |-> IF side[a].blocks = None THEN <<>>
                         ELSE FramePayloads(c, fs[k].sid, k, {"headers", "continuation"}),
             data |-> FramePayloads(c, fs[k].sid, k, {"data"})]]

\* What feed() takes off the wire is what agy sent, over either protocol: each
\* model request and each HTTP/2 message once, whole and in order.
StreamsExact == RequestsExact /\ MessagesExact
==============================================================================
