-------------------------- MODULE ClaudeCodeProofs --------------------------
(***************************************************************************)
(* Theorems about the two ways to use Claude Code: for any number of SDK   *)
(* clients, queries, mounts of the UI and frames, and for any number of    *)
(* threads and turns of a Session.                                         *)
(*                                                                         *)
(* The bridge's invariant follows each client's own frames: two halves of  *)
(* a frame stand next to each other on the way to the bridge; a handshake  *)
(* and a query are each in one place; and the frames of an answer that are *)
(* on their way go on where those that were read end, up to what the UI    *)
(* has sent.  A Session's says that the id it keeps is of a conversation   *)
(* with every turn that it was told of.                                    *)
(***************************************************************************)
EXTENDS ClaudeCode, SequenceTheorems, TLAPS

----------------------------------------------------------------------------
(* The inductive invariant of the bridge.                                  *)

Frames   == {"init", "query", "interrupt"}
Half     == Frames \X {1, 2}
Uuid     == Clients \X Nat
Prompts  == Uuid \cup ({"human"} \X Nat)
Mount    == Nat \X Engines

Answer   == [kind : {"reply"}, to : Frames, ok : BOOLEAN]
TurnPart == [kind : {"turn"}, of : Prompts, index : Nat, last : BOOLEAN]
Message  == Answer \cup TurnPart \cup {BridgeError}

Transport == [closed : BOOLEAN, socket : {"none", "opening", "open"}, out : Seq(Half), want : SUBSET Frames]
SdkClient == [stage : {"new", "handshake", "ready", "asking", "gone"}, asked : Nat, got : Seq(TurnPart)]
Wire      == [up : Seq(Half), down : Seq(Message), bridge : {"none", "open", "ended", "destroyed"}]
Conn      == [live : BOOLEAN, busy : Mount \cup {None}, inited : BOOLEAN]
UiTurn    == [prompt : Prompts \cup {None}, phase : {"none", "reserved", "running", "ended"}, sent : Nat,
              stopper : Clients \cup {None}]
Ui        == [engine : Engines, queue : SUBSET Prompts, turn : [Engines -> UiTurn], typed : Nat]

ClientType == tp \in [Clients -> Transport] /\ sdk \in [Clients -> SdkClient] /\ wire \in [Clients -> Wire]
BridgeType == /\ host \in Mount \cup {None} /\ mounts \in Nat
              /\ active \in Prompts \cup {None} /\ pending \subseteq Uuid
              /\ conns \in [Clients -> Conn] /\ ui \in Ui

\* A client connects once.
Lifecycle(c) ==
    /\ sdk[c].stage = "new" => wire[c].bridge = "none" /\ sdk[c].asked = 0 /\ sdk[c].got = << >>
    /\ tp[c].socket = "opening" => sdk[c].stage = "new"
    /\ tp[c].socket = "open" => sdk[c].stage # "new"
    /\ tp[c].closed => sdk[c].stage = "gone"
    /\ sdk[c].stage = "gone" => tp[c].closed /\ tp[c].want = {} /\ tp[c].out = << >> /\ sdk[c].got = << >>
                                /\ tp[c].socket = "none"
    /\ wire[c].bridge = "none" => /\ wire[c].up = << >> /\ wire[c].down = << >> /\ conns[c].busy = None
                                  /\ tp[c].want = {} /\ tp[c].out = << >> /\ ~conns[c].live
                                  /\ sdk[c].stage \in {"new", "gone"}

\* What is on the way to the bridge are two halves of each frame, one after the
\* other, and the second half of the last one is there or comes next.
Aligned(c) ==
    LET up == wire[c].up IN
    wire[c].bridge = "open" =>
        /\ up # << >> => up[1][2] = 1
        /\ \A i \in 1..(Len(up) - 1) : IF up[i][2] = 1 THEN up[i + 1] = Part(up[i][1], 2)
                                       ELSE up[i + 1][2] = 1
        /\ tp[c].out # << >> => up # << >> /\ up[Len(up)][2] = 1 /\ tp[c].out = << Part(up[Len(up)][1], 2) >>
        /\ tp[c].out = << >> /\ ~tp[c].closed => up = << >> \/ up[Len(up)][2] = 2

\* Where a frame of the client begins, on its way to an open bridge.
Begun(c, f) == {i \in 1..Len(wire[c].up) : wire[c].bridge = "open" /\ wire[c].up[i] = Part(f, 1)}

InitReplies(c) == {j \in 1..Len(wire[c].down) : wire[c].down[j].kind = "reply" /\ wire[c].down[j].to = "init"}

\* One handshake: it is to be written, on its way, awaited by the bridge or
\* answered, and when the client is ready it is none of these.
InitOnce(c) ==
    /\ sdk[c].stage \in {"ready", "asking"} => "init" \notin tp[c].want
    /\ "init" \in tp[c].want \/ sdk[c].stage \in {"ready", "asking"} => Begun(c, "init") = {}
    /\ "init" \in tp[c].want \/ Begun(c, "init") # {} \/ sdk[c].stage \in {"ready", "asking"} =>
          conns[c].busy = None
    /\ "init" \in tp[c].want \/ Begun(c, "init") # {} \/ conns[c].busy # None
          \/ sdk[c].stage \in {"ready", "asking"} => InitReplies(c) = {}
    /\ \A i, j \in Begun(c, "init") : i = j
    /\ \A i, j \in InitReplies(c) : i = j

\* One query: it is to be written, on its way, or with the UI.
Unsent(c) == "query" \in tp[c].want \/ Begun(c, "query") # {}

TurnAt(c) == {j \in 1..Len(wire[c].down) : wire[c].down[j].kind = "turn"}

QueryOnce(c) ==
    /\ sdk[c].stage \in {"new", "handshake", "ready"} =>
          ~Unsent(c) /\ Prompt(c) \notin pending /\ TurnAt(c) = {}
    /\ "query" \in tp[c].want => Begun(c, "query") = {}
    /\ \A i, j \in Begun(c, "query") : i = j
    /\ Unsent(c) => Prompt(c) \notin pending /\ sdk[c].got = << >> /\ TurnAt(c) = {}

\* How much of the answer to c the UI has sent.
Progress(c) == IF ui.turn[ui.engine].prompt = Prompt(c) THEN ui.turn[ui.engine].sent ELSE 0

\* The frames of the answer on their way follow on those that were read, and
\* the next one will follow on them.
Continues(c) ==
    LET down == wire[c].down IN
    sdk[c].stage = "asking" =>
        /\ \A j \in TurnAt(c) : down[j].of = Prompt(c)
        /\ \A j \in TurnAt(c) : (\A i \in TurnAt(c) : j <= i) => down[j].index = Len(sdk[c].got) + 1
        /\ \A j, k \in TurnAt(c) : j < k /\ (\A i \in TurnAt(c) : i <= j \/ k <= i) =>
              down[k].index = down[j].index + 1
        /\ \A j \in TurnAt(c) : down[j].last => Prompt(c) \notin pending /\ \A i \in TurnAt(c) : i <= j
        /\ wire[c].bridge = "open" /\ Prompt(c) \in pending =>
              /\ TurnAt(c) = {} => Len(sdk[c].got) = Progress(c)
              /\ \A j \in TurnAt(c) : (\A i \in TurnAt(c) : i <= j) => down[j].index = Progress(c)

\* The bridge and the mounted UI.
HostInv ==
    /\ host = None => pending = {} /\ active = None
    /\ host # None => EngineOf(host) = ui.engine
    /\ \A u, v \in pending : u = v
    /\ \A u \in pending : u = Prompt(Owner(u))
    /\ active # None => active \in pending /\ ui.turn[ui.engine].prompt = active

ClientInv(c) == Lifecycle(c) /\ Aligned(c) /\ InitOnce(c) /\ QueryOnce(c) /\ Continues(c)

BridgeInv ==
    /\ ClientType /\ BridgeType /\ HostInv
    /\ \A c \in Clients : ClientInv(c)
    /\ TurnsKeptApart

----------------------------------------------------------------------------
(* Types, and what is written to a connection.                             *)

LEMMA NoneIsNothing ==
  /\ None \notin Clients /\ None \notin Prompts /\ None \notin Mount /\ None \notin Uuid
  /\ Uuid \subseteq Prompts
  /\ \A u \in Uuid : u = << Owner(u), u[2] >> /\ Owner(u) \in Clients
<1>1. Engines \subseteq Nat
  BY BridgeAssumption DEF Engines
<1>2. None \notin Clients /\ None \notin Prompts
  BY BridgeAssumption DEF Prompts, Uuid
<1>3. None \notin Mount
  BY <1>1, BridgeAssumption DEF Mount
<1>4. Uuid \subseteq Prompts
  BY DEF Prompts
<1>5. \A u \in Uuid : u = << Owner(u), u[2] >> /\ Owner(u) \in Clients
  BY DEF Uuid, Owner
<1>6. QED
  BY <1>2, <1>3, <1>4, <1>5

LEMMA ClientFields ==
  ASSUME ClientType, NEW c \in Clients
  PROVE  /\ tp[c] \in Transport /\ sdk[c] \in SdkClient /\ wire[c] \in Wire
         /\ tp[c].out \in Seq(Half) /\ tp[c].want \in SUBSET Frames /\ tp[c].closed \in BOOLEAN
         /\ sdk[c].asked \in Nat /\ sdk[c].got \in Seq(TurnPart) /\ Prompt(c) \in Uuid
         /\ wire[c].up \in Seq(Half) /\ wire[c].down \in Seq(Message)
<1>1. tp[c] \in Transport /\ sdk[c] \in SdkClient /\ wire[c] \in Wire
  BY DEF ClientType
<1>2. /\ tp[c].out \in Seq(Half) /\ tp[c].want \in SUBSET Frames /\ tp[c].closed \in BOOLEAN
  BY <1>1 DEF Transport
<1>3. sdk[c].asked \in Nat /\ sdk[c].got \in Seq(TurnPart)
  BY <1>1 DEF SdkClient
<1>4. wire[c].up \in Seq(Half) /\ wire[c].down \in Seq(Message)
  BY <1>1 DEF Wire
<1>5. Prompt(c) \in Uuid
  BY <1>3 DEF Prompt, Uuid
<1>6. QED
  BY <1>1, <1>2, <1>3, <1>4, <1>5

\* What send() makes of a connection.
LEMMA SentFacts ==
  ASSUME NEW w \in Wire, NEW m \in Message
  PROVE  /\ Sent(w, m) \in Wire /\ Sent(w, m).up = w.up
         /\ Sent(w, m).bridge \in {w.bridge, "destroyed"}
         /\ Sent(w, m).down \in {w.down, Append(w.down, m)}
         /\ Sent(w, m).bridge = "open" => w.bridge = "open" /\ Sent(w, m).down = Append(w.down, m)
         /\ Sent(w, m).bridge # "open" => Sent(w, m).down = w.down
         /\ w.bridge = "none" => Sent(w, m) = w
         /\ Sent(w, m).bridge = "none" => w.bridge = "none"
<1>1. w.down \in Seq(Message) /\ Append(w.down, m) \in Seq(Message)
  BY DEF Wire
<1>2. CASE w.bridge # "open"
  <2>1. Sent(w, m) = w
    BY <1>2 DEF Sent
  <2>2. QED
    BY <1>2, <2>1
<1>3. CASE w.bridge = "open" /\ Len(w.down) = MaxOut
  BY <1>3 DEF Sent, Destroyed, Wire
<1>4. CASE w.bridge = "open" /\ Len(w.down) # MaxOut
  BY <1>1, <1>4 DEF Sent, Wire
<1>5. QED
  BY <1>2, <1>3, <1>4

\* What fail() makes of a connection.
LEMMA FailedFacts ==
  ASSUME NEW w \in Wire
  PROVE  /\ Failed(w) \in Wire /\ Failed(w).up = w.up /\ Failed(w).bridge # "open"
         /\ Failed(w).down \in {w.down, Append(w.down, BridgeError)}
         /\ w.bridge = "none" => Failed(w) = w
         /\ Failed(w).bridge = "none" => w.bridge = "none"
<1>1. BridgeError \in Message
  BY DEF Message
<1>2. PICK v \in Wire : v = Sent(w, BridgeError)
  BY <1>1, SentFacts
<1>3. /\ v.up = w.up /\ v.down \in {w.down, Append(w.down, BridgeError)}
      /\ w.bridge = "none" => v = w
      /\ v.bridge = "none" => w.bridge = "none"
  BY <1>1, <1>2, SentFacts
<1>4. Failed(w) = Ended(v)
  BY <1>2 DEF Failed
<1>5. CASE v.bridge = "open"
  <2>1. Ended(v) = [v EXCEPT !.bridge = "ended"]
    BY <1>5 DEF Ended
  <2>2. QED
    BY <1>2, <1>3, <1>4, <1>5, <2>1 DEF Wire
<1>6. CASE v.bridge # "open"
  BY <1>2, <1>3, <1>4, <1>6 DEF Ended
<1>7. QED
  BY <1>5, <1>6

\* What reject() makes of a connection.
LEMMA RejectFacts ==
  ASSUME NEW w \in Wire, NEW v, v = [Failed(w) EXCEPT !.up = << >>]
  PROVE  /\ v \in Wire /\ v.up = << >> /\ v.bridge # "open"
         /\ v.down \in {w.down, Append(w.down, BridgeError)}
         /\ v.bridge = "none" => w.bridge = "none"
<1>1. PICK u \in Wire : u = Failed(w)
  BY FailedFacts
<1>2. v = [u EXCEPT !.up = << >>] /\ << >> \in Seq(Half)
  BY <1>1
<1>3. /\ u.bridge # "open" /\ u.down \in {w.down, Append(w.down, BridgeError)}
      /\ u.bridge = "none" => w.bridge = "none"
  BY <1>1, FailedFacts
<1>4. v.up = << >> /\ v.bridge = u.bridge /\ v.down = u.down /\ v \in Wire
  BY <1>2 DEF Wire
<1>5. QED
  BY <1>3, <1>4

\* Of the two frames of a connection's queue that come first.
LEMMA LineFacts ==
  ASSUME ClientType, NEW c \in Clients, Aligned(c), wire[c].bridge = "open", Ends(wire[c].up) # {}
  PROVE  /\ Min(Ends(wire[c].up)) = 2 /\ Len(wire[c].up) >= 2
         /\ Line(wire[c].up)[1] = wire[c].up[1]
         /\ wire[c].up[1] \in Half /\ wire[c].up[1] = Part(wire[c].up[1][1], 1)
         /\ wire[c].up[2] = Part(wire[c].up[1][1], 2)
         /\ Whole(Line(wire[c].up))
         /\ Rest(wire[c].up) = SubSeq(wire[c].up, 3, Len(wire[c].up))
<1> DEFINE up == wire[c].up
<1>1. up \in Seq(Half) /\ Len(up) \in Nat /\ \A i \in 1..Len(up) : up[i] \in Half
  BY ClientFields
<1>2. PICK k \in 1..Len(up) : up[k][2] = 2
  BY <1>1 DEF Ends
<1>3. up[1][2] = 1 /\ k # 1
  BY <1>1, <1>2 DEF Aligned
<1>4. Len(up) >= 2 /\ up[2] = Part(up[1][1], 2)
  <2>1. Len(up) >= 2
    BY <1>1, <1>2, <1>3
  <2>2. 1 \in 1..(Len(up) - 1) /\ 1 + 1 = 2
    BY <1>1, <2>1
  <2>3. QED
    BY <1>3, <2>1, <2>2 DEF Aligned
<1>5. up[2][2] = 2
  BY <1>4 DEF Part
<1>6. Ends(up) \subseteq Nat /\ 2 \in Ends(up) /\ 1 \notin Ends(up) /\ 0 \notin Ends(up)
  BY <1>1, <1>3, <1>4, <1>5 DEF Ends
<1>7. \A y \in Ends(up) : 2 <= y
  BY <1>6
<1>8. Min(Ends(up)) = 2
  BY <1>6, <1>7 DEF Min
<1>9. Line(up)[1] = up[1] /\ Line(up)[2] = up[2] /\ Len(Line(up)) = 2
  <2>1. Line(up) = SubSeq(up, 1, 2)
    BY <1>8 DEF Line
  <2>2. QED
    BY <1>1, <1>4, <2>1
<1>10. up[1] \in Half /\ up[1] = Part(up[1][1], 1)
  BY <1>1, <1>3, <1>4 DEF Half, Part
<1>11. Rest(up) = SubSeq(up, 3, Len(up))
  BY <1>8 DEF Rest
<1>12. Whole(Line(up))
  <2>1. up[2][1] = up[1][1]
    BY <1>4 DEF Part
  <2>2. QED
    BY <1>9, <1>10, <2>1 DEF Whole
<1>13. QED
  BY <1>4, <1>8, <1>9, <1>10, <1>11, <1>12

\* What stays as it is for a client, whose query is not handed in, keeps its
\* invariant.
Fixed(d) == tp'[d] = tp[d] /\ sdk'[d] = sdk[d] /\ wire'[d] = wire[d] /\ conns'[d] = conns[d]

LEMMA Untouched ==
  ASSUME NEW d \in Clients, ClientInv(d), Fixed(d),
         Prompt(d) \in pending' => Prompt(d) \in pending /\ Progress(d)' = Progress(d)
  PROVE  ClientInv(d)'
<1>1. Lifecycle(d)' /\ Aligned(d)'
  BY DEF ClientInv, Fixed, Lifecycle, Aligned
<1>2. InitOnce(d)'
  BY DEF ClientInv, Fixed, InitOnce, Begun, InitReplies
<1>3. QueryOnce(d)'
  BY DEF ClientInv, Fixed, QueryOnce, Unsent, Begun, TurnAt, Prompt
<1>4. Continues(d)'
  <2>1. Prompt(d)' = Prompt(d) /\ TurnAt(d)' = TurnAt(d) /\ wire'[d] = wire[d] /\ sdk'[d] = sdk[d]
    BY DEF Fixed, Prompt, TurnAt
  <2>2. Continues(d)
    BY DEF ClientInv
  <2>3. QED
    BY <2>1, <2>2 DEF Continues
<1>5. QED
  BY <1>1, <1>2, <1>3, <1>4 DEF ClientInv

----------------------------------------------------------------------------
(* The client's own steps: what they change.                               *)

\* A step of one client leaves the others alone.
Only(c) == \A d \in Clients : d # c => tp'[d] = tp[d] /\ sdk'[d] = sdk[d] /\ wire'[d] = wire[d]

LEMMA CloseEffect ==
  ASSUME ClientType, NEW c \in Clients, Close(c)
  PROVE  /\ ClientType' /\ Only(c)
         /\ tp'[c].closed /\ tp'[c].socket = "none" /\ tp'[c].out = << >> /\ tp'[c].want = {}
         /\ sdk'[c].stage = "gone" /\ sdk'[c].got = << >> /\ sdk'[c].asked = sdk[c].asked
         /\ wire'[c].down = << >> /\ wire'[c].up = wire[c].up /\ wire'[c].bridge = wire[c].bridge
<1>1. tp[c] \in Transport /\ sdk[c] \in SdkClient /\ wire[c] \in Wire
  BY ClientFields
<1>2. << >> \in Seq(Half) /\ << >> \in Seq(TurnPart) /\ << >> \in Seq(Message)
  OBVIOUS
<1>3. PICK t \in Transport, s \in SdkClient, w \in Wire :
        /\ t = [closed |-> TRUE, socket |-> "none", out |-> << >>, want |-> {}]
        /\ s = [sdk[c] EXCEPT !.stage = "gone", !.got = << >>]
        /\ w = [wire[c] EXCEPT !.down = << >>]
  BY <1>1, <1>2 DEF Transport, SdkClient, Wire
<1>4. tp' = [tp EXCEPT ![c] = t] /\ sdk' = [sdk EXCEPT ![c] = s] /\ wire' = [wire EXCEPT ![c] = w]
  BY <1>3 DEF Close
<1>5. ClientType' /\ Only(c) /\ tp'[c] = t /\ sdk'[c] = s /\ wire'[c] = w
  BY <1>4 DEF ClientType, Only
<1>6. s.stage = "gone" /\ s.got = << >> /\ s.asked = sdk[c].asked
  BY <1>1, <1>3 DEF SdkClient
<1>7. w.down = << >> /\ w.up = wire[c].up /\ w.bridge = wire[c].bridge
  BY <1>1, <1>3 DEF Wire
<1>8. QED
  BY <1>3, <1>5, <1>6, <1>7

LEMMA ConnectEffect ==
  ASSUME ClientType, NEW c \in Clients, Connect(c) \/ ConnectTimesOut(c)
  PROVE  /\ ClientType' /\ Only(c)
         /\ \E k \in {"opening", "none"} : tp'[c] = [tp[c] EXCEPT !.socket = k] /\ (k = "opening" => sdk[c].stage = "new")
         /\ UNCHANGED << sdk, wire >>
<1>1. tp[c] \in Transport
  BY ClientFields
<1>2. PICK k \in {"opening", "none"} : /\ tp' = [tp EXCEPT ![c] = [tp[c] EXCEPT !.socket = k]]
                                       /\ (k = "opening" => sdk[c].stage = "new")
  BY DEF Connect, ConnectTimesOut
<1>3. PICK t \in Transport : t = [tp[c] EXCEPT !.socket = k]
  BY <1>1 DEF Transport
<1>4. tp' = [tp EXCEPT ![c] = t] /\ UNCHANGED << sdk, wire >>
  BY <1>2, <1>3 DEF Connect, ConnectTimesOut
<1>5. QED
  BY <1>2, <1>3, <1>4 DEF ClientType, Only

LEMMA SendQueryEffect ==
  ASSUME ClientType, NEW c \in Clients, SendQuery(c)
  PROVE  /\ ClientType' /\ Only(c) /\ sdk[c].stage = "ready"
         /\ tp'[c] = [tp[c] EXCEPT !.want = @ \cup {"query"}]
         /\ sdk'[c] = [sdk[c] EXCEPT !.stage = "asking", !.asked = @ + 1, !.got = << >>]
         /\ wire' = wire
<1>1. tp[c] \in Transport /\ sdk[c] \in SdkClient
  BY ClientFields
<1>2. PICK t \in Transport : t = [tp[c] EXCEPT !.want = @ \cup {"query"}]
  BY <1>1 DEF Transport, Frames
<1>3. PICK s \in SdkClient : s = [sdk[c] EXCEPT !.stage = "asking", !.asked = @ + 1, !.got = << >>]
  <2>1. << >> \in Seq(TurnPart) /\ sdk[c].asked + 1 \in Nat
    BY ClientFields
  <2>2. QED
    BY <1>1, <2>1 DEF SdkClient
<1>4. tp' = [tp EXCEPT ![c] = t] /\ sdk' = [sdk EXCEPT ![c] = s] /\ wire' = wire /\ sdk[c].stage = "ready"
  BY <1>2, <1>3 DEF SendQuery, Wants
<1>5. QED
  BY <1>2, <1>3, <1>4 DEF ClientType, Only

LEMMA SendInterruptEffect ==
  ASSUME ClientType, NEW c \in Clients, SendInterrupt(c)
  PROVE  /\ ClientType' /\ Only(c) /\ sdk[c].stage \in {"ready", "asking"}
         /\ tp'[c] = [tp[c] EXCEPT !.want = @ \cup {"interrupt"}] /\ UNCHANGED << sdk, wire >>
<1>1. tp[c] \in Transport
  BY ClientFields
<1>2. PICK t \in Transport : t = [tp[c] EXCEPT !.want = @ \cup {"interrupt"}]
  BY <1>1 DEF Transport, Frames
<1>3. tp' = [tp EXCEPT ![c] = t] /\ UNCHANGED << sdk, wire >> /\ sdk[c].stage \in {"ready", "asking"}
  BY <1>2 DEF SendInterrupt, Wants
<1>4. QED
  BY <1>2, <1>3 DEF ClientType, Only

LEMMA WriteEffect ==
  ASSUME ClientType, NEW c \in Clients, Write(c)
  PROVE  /\ ClientType' /\ Only(c) /\ sdk' = sdk /\ tp[c].out = << >>
         /\ \E f \in tp[c].want : /\ tp'[c] = [tp[c] EXCEPT !.want = @ \ {f}, !.out = << Part(f, 2) >>]
                                  /\ wire'[c] = [wire[c] EXCEPT !.up = Append(@, Part(f, 1))]
<1>1. tp[c] \in Transport /\ wire[c] \in Wire
  BY ClientFields
<1>2. PICK f \in tp[c].want :
        /\ tp' = [tp EXCEPT ![c].want = @ \ {f}, ![c].out = << Part(f, 2) >>]
        /\ wire' = [wire EXCEPT ![c].up = Append(@, Part(f, 1))]
  BY DEF Write
<1>3. f \in Frames /\ Part(f, 1) \in Half /\ Part(f, 2) \in Half
  BY <1>1 DEF Transport, Part, Half
<1>4. PICK t \in Transport : t = [tp[c] EXCEPT !.want = @ \ {f}, !.out = << Part(f, 2) >>]
  <2>1. << Part(f, 2) >> \in Seq(Half) /\ tp[c].want \ {f} \in SUBSET Frames
    BY <1>3, ClientFields
  <2>2. QED
    BY <1>1, <2>1 DEF Transport
<1>5. PICK w \in Wire : w = [wire[c] EXCEPT !.up = Append(@, Part(f, 1))]
  <2>1. Append(wire[c].up, Part(f, 1)) \in Seq(Half)
    BY <1>3, ClientFields
  <2>2. QED
    BY <1>1, <2>1 DEF Wire
<1>6. tp' = [tp EXCEPT ![c] = t] /\ wire' = [wire EXCEPT ![c] = w] /\ sdk' = sdk /\ tp[c].out = << >>
  BY <1>2, <1>4, <1>5 DEF Write
<1>7. ClientType' /\ tp'[c] = t /\ wire'[c] = w
  BY <1>6 DEF ClientType
<1>8. Only(c)
  BY <1>6 DEF ClientType, Only
<1>9. QED
  BY <1>4, <1>5, <1>6, <1>7, <1>8

LEMMA WriteRestEffect ==
  ASSUME ClientType, NEW c \in Clients, WriteRest(c)
  PROVE  /\ ClientType' /\ Only(c) /\ sdk' = sdk /\ tp[c].out # << >>
         /\ tp'[c] = [tp[c] EXCEPT !.out = Tail(@)]
         /\ wire'[c] = [wire[c] EXCEPT !.up = Append(@, Head(tp[c].out))]
<1>1. tp[c] \in Transport /\ wire[c] \in Wire /\ tp[c].out \in Seq(Half) /\ tp[c].out # << >>
  BY ClientFields DEF WriteRest
<1>2. Head(tp[c].out) \in Half /\ Tail(tp[c].out) \in Seq(Half)
  BY <1>1
<1>3. PICK t \in Transport : t = [tp[c] EXCEPT !.out = Tail(@)]
  BY <1>1, <1>2 DEF Transport
<1>4. PICK w \in Wire : w = [wire[c] EXCEPT !.up = Append(@, Head(tp[c].out))]
  <2>1. Append(wire[c].up, Head(tp[c].out)) \in Seq(Half)
    BY <1>2, ClientFields
  <2>2. QED
    BY <1>1, <2>1 DEF Wire
<1>5. tp' = [tp EXCEPT ![c] = t] /\ wire' = [wire EXCEPT ![c] = w] /\ sdk' = sdk
  BY <1>3, <1>4 DEF WriteRest
<1>6. QED
  BY <1>1, <1>3, <1>4, <1>5 DEF ClientType, Only

----------------------------------------------------------------------------
(* What a change of a connection does to a client's invariant.             *)

\* The connection is broken, or is so already: nothing more is sent to it.
Broken(c) ==
    /\ wire[c].bridge = "none" => wire'[c] = wire[c] /\ conns'[c] = conns[c]
    /\ wire[c].bridge # "none" => wire'[c].bridge \in {"ended", "destroyed"}
    /\ wire'[c].down \in {wire[c].down, Append(wire[c].down, BridgeError), << >>}
    /\ conns'[c].busy \in {conns[c].busy, None}

LEMMA BrokenKeeps ==
  ASSUME ClientType, ClientType', NEW c \in Clients, ClientInv(c), Broken(c),
         tp'[c] = tp[c], sdk'[c] = sdk[c], Prompt(c) \in pending' => Prompt(c) \in pending
  PROVE  ClientInv(c)'
<1>1. Prompt(c)' = Prompt(c)
  BY DEF Prompt
<1>2. \A f : Begun(c, f)' \subseteq Begun(c, f)
  BY DEF Broken, Begun
<1>3. InitReplies(c)' \subseteq InitReplies(c) /\ TurnAt(c)' \subseteq TurnAt(c)
      /\ \A j \in TurnAt(c)' : wire'[c].down[j] = wire[c].down[j]
      /\ (TurnAt(c)' = TurnAt(c) \/ TurnAt(c)' = {})
  <2>1. wire[c].down \in Seq(Message) /\ BridgeError.kind = "error"
    BY ClientFields DEF BridgeError
  <2>2. CASE wire'[c].down = wire[c].down
    BY <2>2 DEF InitReplies, TurnAt
  <2>3. CASE wire'[c].down = << >>
    BY <2>3 DEF InitReplies, TurnAt
  <2>4. CASE wire'[c].down = Append(wire[c].down, BridgeError)
    <3>1. /\ Len(wire'[c].down) = Len(wire[c].down) + 1 /\ Len(wire[c].down) \in Nat
          /\ wire'[c].down[Len(wire[c].down) + 1] = BridgeError
          /\ \A j \in 1..Len(wire[c].down) : wire'[c].down[j] = wire[c].down[j]
      BY <2>1, <2>4
    <3>2. \A j \in 1..Len(wire'[c].down) : wire'[c].down[j].kind # "error" =>
             j \in 1..Len(wire[c].down) /\ wire'[c].down[j] = wire[c].down[j]
      BY <2>1, <3>1
    <3>3. InitReplies(c)' \subseteq InitReplies(c)
      BY <3>2 DEF InitReplies
    <3>4. TurnAt(c)' \subseteq TurnAt(c)
      BY <3>2 DEF TurnAt
    <3>5. TurnAt(c) \subseteq TurnAt(c)'
      BY <3>1 DEF TurnAt
    <3>6. \A j \in TurnAt(c)' : wire'[c].down[j] = wire[c].down[j]
      BY <3>1, <3>4 DEF TurnAt
    <3>7. QED
      BY <3>3, <3>4, <3>5, <3>6
  <2>5. QED
    BY <2>2, <2>3, <2>4 DEF Broken
<1>4. Lifecycle(c)'
  BY DEF ClientInv, Lifecycle, Broken
<1>5. Aligned(c)'
  BY DEF ClientInv, Aligned, Broken
<1>6. InitOnce(c)'
  <2>1. conns'[c].busy # None => conns[c].busy # None
    BY DEF Broken
  <2>2. QED
    BY <1>2, <1>3, <2>1 DEF ClientInv, InitOnce
<1>7. QueryOnce(c)'
  BY <1>1, <1>2, <1>3 DEF ClientInv, QueryOnce, Unsent
<1>8. Continues(c)'
  <2>1. wire'[c].bridge # "open"
    BY DEF ClientInv, Lifecycle, Broken
  <2>2. CASE TurnAt(c)' = {}
    BY <2>1, <2>2 DEF Continues
  <2>3. CASE TurnAt(c)' = TurnAt(c) /\ sdk[c].stage = "asking"
    <3>1. /\ \A j \in TurnAt(c) : wire[c].down[j].of = Prompt(c)
          /\ \A j \in TurnAt(c) : (\A i \in TurnAt(c) : j <= i) => wire[c].down[j].index = Len(sdk[c].got) + 1
          /\ \A j, k \in TurnAt(c) : j < k /\ (\A i \in TurnAt(c) : i <= j \/ k <= i) =>
                wire[c].down[k].index = wire[c].down[j].index + 1
          /\ \A j \in TurnAt(c) : wire[c].down[j].last => Prompt(c) \notin pending /\ \A i \in TurnAt(c) : i <= j
      BY <2>3 DEF ClientInv, Continues
    <3>2. \A j \in TurnAt(c) : wire'[c].down[j] = wire[c].down[j]
      BY <1>3, <2>3
    <3>3. QED
      BY <1>1, <2>1, <2>3, <3>1, <3>2 DEF Continues
  <2>4. QED
    BY <1>3, <2>2, <2>3 DEF Continues
<1>9. QED
  BY <1>4, <1>5, <1>6, <1>7, <1>8 DEF ClientInv

\* What moves along a connection: two halves of a frame are taken off, or one is
\* written; and messages are sent and read.
Consumed(c) == wire'[c].up = SubSeq(wire[c].up, 3, Len(wire[c].up))

LEMMA ConsumedKeeps ==
  ASSUME ClientType, NEW c \in Clients, Aligned(c), Consumed(c), tp'[c] = tp[c],
         wire[c].bridge = "open", Len(wire[c].up) >= 2, wire[c].up[2][2] = 2
  PROVE  /\ Aligned(c)'
         /\ \A f : \A i \in Begun(c, f)' : i + 2 \in Begun(c, f)
<1> DEFINE up == wire[c].up
           rest == SubSeq(up, 3, Len(up))
<1>1. up \in Seq(Half) /\ Len(up) \in Nat /\ (Len(up) = 2 \/ Len(up) > 2)
  <2>1. up \in Seq(Half)
    BY ClientFields
  <2>2. \A n \in Nat : n >= 2 => n = 2 \/ n > 2
    OBVIOUS
  <2>3. Len(up) \in Nat
    BY <2>1
  <2>4. QED
    BY <2>1, <2>2, <2>3
<1>2. /\ Len(rest) = Len(up) - 2
      /\ \A i \in 1..Len(rest) : rest[i] = up[i + 2] /\ i + 2 \in 1..Len(up)
  <2>1. Len(rest) = Len(up) - 2
    BY <1>1
  <2>2. \A i \in 1..Len(rest) : rest[i] = up[i + 2] /\ i + 2 \in 1..Len(up)
    BY <1>1, <2>1
  <2>3. QED
    BY <2>1, <2>2
<1>3. wire'[c].up = rest
  BY DEF Consumed
<1>4. \A f : \A i \in Begun(c, f)' : i + 2 \in Begun(c, f)
  BY <1>2, <1>3 DEF Begun
<1>5. rest # << >> <=> Len(up) > 2
  <2>1. rest \in Seq(Half)
    BY <1>1
  <2>2. rest # << >> <=> Len(rest) # 0
    BY <2>1, EmptySeq
  <2>3. Len(up) - 2 # 0 <=> Len(up) > 2
    <3>1. \A n \in Nat : n = 2 \/ n > 2 => (n - 2 # 0 <=> n > 2)
      OBVIOUS
    <3>2. QED
      BY <1>1, <3>1
  <2>4. QED
    BY <1>2, <2>2, <2>3
<1>6. rest # << >> => rest[1][2] = 1 /\ rest[Len(rest)] = up[Len(up)]
  <2>1. SUFFICES ASSUME Len(up) > 2 PROVE rest[1][2] = 1 /\ rest[Len(rest)] = up[Len(up)]
    BY <1>5
  <2>2. 2 \in 1..(Len(up) - 1) /\ 2 + 1 = 3 /\ rest[1] = up[3] /\ rest[Len(rest)] = up[Len(up)]
    BY <1>1, <1>2, <2>1
  <2>3. up[3][2] = 1
    BY <2>2 DEF Aligned
  <2>4. QED
    BY <2>2, <2>3
<1>7. \A i \in 1..(Len(rest) - 1) : IF rest[i][2] = 1 THEN rest[i + 1] = Part(rest[i][1], 2)
                                    ELSE rest[i + 1][2] = 1
  <2>1. TAKE i \in 1..(Len(rest) - 1)
  <2>2. /\ i + 2 \in 1..(Len(up) - 1) /\ i \in 1..Len(rest) /\ i + 1 \in 1..Len(rest)
        /\ (i + 2) + 1 = (i + 1) + 2
    <3>1. i \in Nat /\ i >= 1 /\ i <= Len(up) - 3 /\ Len(rest) = Len(up) - 2 /\ Len(up) \in Nat
      BY <1>1, <1>2, <2>1
    <3>2. \A m, n, k \in Nat : n >= 1 /\ n <= k - 3 /\ m = k - 2 =>
             n + 2 \in 1..(k - 1) /\ n \in 1..m /\ n + 1 \in 1..m /\ (n + 2) + 1 = (n + 1) + 2
      OBVIOUS
    <3>3. Len(rest) \in Nat
      BY <1>1, <3>1
    <3>4. QED
      BY <3>1, <3>2, <3>3
  <2>3. rest[i] = up[i + 2] /\ rest[i + 1] = up[(i + 2) + 1]
    <3>1. rest[i] = up[i + 2]
      BY <1>2, <2>2
    <3>2. rest[i + 1] = up[(i + 1) + 2]
      BY <1>2, <2>2
    <3>3. QED
      BY <2>2, <3>1, <3>2
  <2>4. QED
    BY <2>2, <2>3 DEF Aligned
<1>8. tp[c].out # << >> => rest # << >>
  <2>1. SUFFICES ASSUME tp[c].out # << >>, Len(up) = 2 PROVE FALSE
    <3>1. Len(up) > 2 \/ Len(up) = 2
      BY <1>1
    <3>2. QED
      BY <1>5, <3>1
  <2>2. up # << >> /\ up[Len(up)][2] = 1
    BY <2>1 DEF Aligned
  <2>3. QED
    BY <2>1, <2>2
<1>9. tp[c].out = << >> /\ ~tp[c].closed => rest = << >> \/ up[Len(up)][2] = 2
  BY <1>1, <1>5 DEF Aligned
<1>10. tp[c].out # << >> => up[Len(up)][2] = 1 /\ tp[c].out = << Part(up[Len(up)][1], 2) >>
  BY DEF Aligned
<1>11. Aligned(c)'
  BY <1>3, <1>6, <1>7, <1>8, <1>9, <1>10 DEF Aligned
<1>12. QED
  BY <1>4, <1>11

LEMMA WrittenKeeps ==
  ASSUME ClientType, NEW c \in Clients, NEW h \in Half, Aligned(c),
         wire'[c].up = Append(wire[c].up, h), wire'[c].bridge = wire[c].bridge
  PROVE  /\ \A f : \A i \in Begun(c, f)' : i \in Begun(c, f) \/ (i = Len(wire[c].up) + 1 /\ h = Part(f, 1))
         /\ wire[c].up = << >> /\ h[2] = 1 /\ tp'[c].out = << Part(h[1], 2) >> => Aligned(c)'
         /\ wire[c].up # << >> /\ wire[c].up[Len(wire[c].up)][2] = 2 /\ h[2] = 1
               /\ tp'[c].out = << Part(h[1], 2) >> => Aligned(c)'
         /\ wire[c].up # << >> /\ wire[c].up[Len(wire[c].up)][2] = 1
               /\ h = Part(wire[c].up[Len(wire[c].up)][1], 2) /\ tp'[c].out = << >> => Aligned(c)'
<1> DEFINE up == wire[c].up
           new == Append(up, h)
<1>1. up \in Seq(Half) /\ Len(up) \in Nat
  BY ClientFields
<1>2. /\ Len(new) = Len(up) + 1 /\ new[Len(up) + 1] = h /\ new # << >>
      /\ \A i \in 1..Len(up) : new[i] = up[i]
  <2>1. Len(new) = Len(up) + 1 /\ new[Len(up) + 1] = h
    BY <1>1
  <2>2. \A i \in 1..Len(up) : new[i] = up[i]
    BY <1>1
  <2>3. new # << >>
    <3>1. new \in Seq(Half)
      BY <1>1
    <3>2. Len(new) # 0
      BY <1>1, <2>1
    <3>3. QED
      BY <3>1, <3>2, EmptySeq
  <2>4. QED
    BY <2>1, <2>2, <2>3
<1>3. \A f : \A i \in Begun(c, f)' : i \in Begun(c, f) \/ (i = Len(up) + 1 /\ h = Part(f, 1))
  BY <1>1, <1>2 DEF Begun
<1>4. ASSUME up = << >> /\ h[2] = 1 /\ tp'[c].out = << Part(h[1], 2) >>
      PROVE  Aligned(c)'
  <2>1. Len(new) = 1 /\ new[1] = h
    BY <1>2, <1>4
  <2>2. << Part(h[1], 2) >> # << >>
    OBVIOUS
  <2>3. /\ new[1][2] = 1
        /\ \A i \in 1..(Len(new) - 1) : IF new[i][2] = 1 THEN new[i + 1] = Part(new[i][1], 2)
                                        ELSE new[i + 1][2] = 1
        /\ tp'[c].out # << >> /\ new[Len(new)] = h
    BY <1>4, <2>1, <2>2
  <2>4. QED
    BY <1>2, <1>4, <2>3 DEF Aligned
<1>5. ASSUME up # << >>, wire[c].bridge = "open",
             IF up[Len(up)][2] = 1 THEN h = Part(up[Len(up)][1], 2) ELSE h[2] = 1
      PROVE  /\ new[1][2] = 1
             /\ \A i \in 1..(Len(new) - 1) : IF new[i][2] = 1 THEN new[i + 1] = Part(new[i][1], 2)
                                             ELSE new[i + 1][2] = 1
  <2>1. new[1] = up[1] /\ up[1][2] = 1
    BY <1>1, <1>2, <1>5 DEF Aligned
  <2>2. ASSUME NEW i \in 1..(Len(new) - 1)
        PROVE  IF new[i][2] = 1 THEN new[i + 1] = Part(new[i][1], 2) ELSE new[i + 1][2] = 1
    <3>1. CASE i = Len(up)
      <4>1. new[i] = up[Len(up)] /\ new[i + 1] = h
        BY <1>1, <1>2, <2>2, <3>1
      <4>2. QED
        BY <1>5, <3>1, <4>1
    <3>2. CASE i # Len(up)
      <4>1. i \in 1..(Len(up) - 1) /\ new[i] = up[i] /\ new[i + 1] = up[i + 1]
        BY <1>1, <1>2, <2>2, <3>2
      <4>2. QED
        BY <1>5, <4>1 DEF Aligned
    <3>3. QED
      BY <3>1, <3>2
  <2>3. QED
    BY <2>1, <2>2
<1>6. ASSUME up # << >> /\ up[Len(up)][2] = 2 /\ h[2] = 1 /\ tp'[c].out = << Part(h[1], 2) >>
      PROVE  Aligned(c)'
  <2>1. tp'[c].out # << >>
    BY <1>6
  <2>2. new[Len(new)] = h
    BY <1>1, <1>2
  <2>3. SUFFICES ASSUME wire[c].bridge = "open" PROVE Aligned(c)'
    BY DEF Aligned
  <2>4. QED
    BY <1>2, <1>5, <1>6, <2>1, <2>2, <2>3 DEF Aligned
<1>7. ASSUME up # << >> /\ up[Len(up)][2] = 1 /\ h = Part(up[Len(up)][1], 2) /\ tp'[c].out = << >>
      PROVE  Aligned(c)'
  <2>1. h[2] = 2
    BY <1>7 DEF Part
  <2>2. new[Len(new)] = h
    BY <1>1, <1>2
  <2>3. SUFFICES ASSUME wire[c].bridge = "open" PROVE Aligned(c)'
    BY DEF Aligned
  <2>4. /\ new[1][2] = 1 /\ tp'[c].out = << >> /\ new[Len(new)][2] = 2
        /\ \A i \in 1..(Len(new) - 1) : IF new[i][2] = 1 THEN new[i + 1] = Part(new[i][1], 2)
                                        ELSE new[i + 1][2] = 1
    BY <1>5, <1>7, <2>1, <2>2, <2>3
  <2>5. QED
    BY <2>4 DEF Aligned
<1>8. QED
  BY <1>3, <1>4, <1>6, <1>7

LEMMA DownSame ==
  ASSUME NEW c \in Clients, wire'[c].down = wire[c].down
  PROVE  InitReplies(c)' = InitReplies(c) /\ TurnAt(c)' = TurnAt(c)
BY DEF InitReplies, TurnAt

LEMMA DownAppended ==
  ASSUME ClientType, NEW c \in Clients, NEW m \in Message, wire'[c].down = Append(wire[c].down, m)
  PROVE  /\ Len(wire[c].down) \in Nat /\ wire'[c].down[Len(wire[c].down) + 1] = m
         /\ \A j \in 1..Len(wire[c].down) : wire'[c].down[j] = wire[c].down[j]
         /\ InitReplies(c)' = InitReplies(c) \cup
               (IF m.kind = "reply" /\ m.to = "init" THEN {Len(wire[c].down) + 1} ELSE {})
         /\ TurnAt(c)' = TurnAt(c) \cup (IF m.kind = "turn" THEN {Len(wire[c].down) + 1} ELSE {})
<1> DEFINE down == wire[c].down
           new == wire'[c].down
           n == Len(down)
<1>1. down \in Seq(Message) /\ n \in Nat
  BY ClientFields
<1>2. Len(new) = n + 1 /\ new[n + 1] = m /\ \A j \in 1..n : new[j] = down[j]
  BY <1>1
<1>3. 1..Len(new) = 1..n \cup {n + 1} /\ n + 1 \notin 1..n
  BY <1>1, <1>2
<1>4. InitReplies(c)' = {j \in 1..Len(new) : new[j].kind = "reply" /\ new[j].to = "init"}
      /\ TurnAt(c)' = {j \in 1..Len(new) : new[j].kind = "turn"}
      /\ InitReplies(c) = {j \in 1..n : down[j].kind = "reply" /\ down[j].to = "init"}
      /\ TurnAt(c) = {j \in 1..n : down[j].kind = "turn"}
  BY DEF InitReplies, TurnAt
<1> HIDE DEF down, new, n
<1>5. InitReplies(c)' = InitReplies(c) \cup (IF m.kind = "reply" /\ m.to = "init" THEN {n + 1} ELSE {})
  BY <1>2, <1>3, <1>4
<1>6. TurnAt(c)' = TurnAt(c) \cup (IF m.kind = "turn" THEN {n + 1} ELSE {})
  BY <1>2, <1>3, <1>4
<1>7. QED
  BY <1>1, <1>2, <1>5, <1>6 DEF down, new, n

LEMMA DownRead ==
  ASSUME ClientType, NEW c \in Clients, wire[c].down # << >>, wire'[c].down = Tail(wire[c].down)
  PROVE  /\ Head(wire[c].down) = wire[c].down[1] /\ 1 \in 1..Len(wire[c].down)
         /\ Head(wire[c].down) \in Message
         /\ \A j \in 1..Len(wire'[c].down) : wire'[c].down[j] = wire[c].down[j + 1]
         /\ \A j : j \in InitReplies(c)' <=> j \in Nat \ {0} /\ j + 1 \in InitReplies(c)
         /\ \A j : j \in TurnAt(c)' <=> j \in Nat \ {0} /\ j + 1 \in TurnAt(c)
<1> DEFINE down == wire[c].down
           new == wire'[c].down
<1>1. down \in Seq(Message) /\ Len(down) \in Nat \ {0} /\ down # << >>
  BY ClientFields, EmptySeq
<1>2. Head(down) = down[1] /\ Head(down) \in Message /\ 1 \in 1..Len(down)
  BY <1>1
<1>3. Len(new) = Len(down) - 1 /\ \A j \in 1..Len(new) : new[j] = down[j + 1]
  BY <1>1
<1>4. \A j : j \in 1..Len(new) <=> j \in Nat \ {0} /\ j + 1 \in 1..Len(down)
  BY <1>1, <1>3
<1>5. InitReplies(c)' = {j \in 1..Len(new) : new[j].kind = "reply" /\ new[j].to = "init"}
      /\ TurnAt(c)' = {j \in 1..Len(new) : new[j].kind = "turn"}
      /\ InitReplies(c) = {j \in 1..Len(down) : down[j].kind = "reply" /\ down[j].to = "init"}
      /\ TurnAt(c) = {j \in 1..Len(down) : down[j].kind = "turn"}
  BY DEF InitReplies, TurnAt
<1> HIDE DEF down, new
<1>6. \A j : j \in InitReplies(c)' <=> j \in Nat \ {0} /\ j + 1 \in InitReplies(c)
  BY <1>3, <1>4, <1>5
<1>7. \A j : j \in TurnAt(c)' <=> j \in Nat \ {0} /\ j + 1 \in TurnAt(c)
  BY <1>3, <1>4, <1>5
<1>8. QED
  BY <1>2, <1>3, <1>6, <1>7 DEF down, new

----------------------------------------------------------------------------
(* The client's own steps keep its invariant.                              *)

Answered(c) == \A i \in 1..Len(sdk[c].got) : sdk[c].got[i].of = Prompt(c) /\ sdk[c].got[i].index = i

ClientKept(c) == /\ ClientType' /\ Only(c) /\ ClientInv(c)' /\ Answered(c)'
                 /\ sdk'[c].asked = sdk[c].asked \/ Prompt(c) \notin pending

LEMMA CloseKeeps ==
  ASSUME ClientType, NEW c \in Clients, ClientInv(c), UNCHANGED bvars, Close(c)
  PROVE  ClientKept(c)
<1>1. /\ ClientType' /\ Only(c)
      /\ tp'[c].closed /\ tp'[c].socket = "none" /\ tp'[c].out = << >> /\ tp'[c].want = {}
      /\ sdk'[c].stage = "gone" /\ sdk'[c].got = << >> /\ sdk'[c].asked = sdk[c].asked
      /\ wire'[c].down = << >> /\ wire'[c].up = wire[c].up /\ wire'[c].bridge = wire[c].bridge
  BY CloseEffect
<1>2. conns' = conns /\ pending' = pending /\ Prompt(c)' = Prompt(c)
  BY <1>1 DEF bvars, Prompt
<1>3. InitReplies(c)' = {} /\ TurnAt(c)' = {} /\ \A f : Begun(c, f)' = Begun(c, f)
  BY <1>1 DEF InitReplies, TurnAt, Begun
<1>4. Lifecycle(c)'
  BY <1>1, <1>2 DEF ClientInv, Lifecycle
<1>5. Aligned(c)'
  BY <1>1 DEF ClientInv, Aligned
<1>6. InitOnce(c)'
  BY <1>1, <1>2, <1>3 DEF ClientInv, InitOnce
<1>7. QueryOnce(c)'
  BY <1>1, <1>2, <1>3 DEF ClientInv, QueryOnce, Unsent
<1>8. Continues(c)' /\ Answered(c)'
  BY <1>1 DEF Continues, Answered
<1>9. QED
  BY <1>1, <1>4, <1>5, <1>6, <1>7, <1>8 DEF ClientInv, ClientKept

LEMMA ConnectKeeps ==
  ASSUME ClientType, NEW c \in Clients, ClientInv(c), Answered(c), UNCHANGED bvars,
         Connect(c) \/ ConnectTimesOut(c)
  PROVE  ClientKept(c)
<1>1. PICK k \in {"opening", "none"} : tp'[c] = [tp[c] EXCEPT !.socket = k] /\ (k = "opening" => sdk[c].stage = "new")
  BY ConnectEffect
<1>2. ClientType' /\ Only(c) /\ sdk' = sdk /\ wire' = wire
  BY ConnectEffect
<1>3. tp'[c].socket = k /\ tp'[c].closed = tp[c].closed /\ tp'[c].out = tp[c].out /\ tp'[c].want = tp[c].want
  <2>1. tp[c] \in Transport
    BY ClientFields
  <2>2. QED
    BY <1>1, <2>1 DEF Transport
<1>4. conns' = conns /\ pending' = pending /\ Prompt(c)' = Prompt(c) /\ Progress(c)' = Progress(c)
  BY <1>2 DEF bvars, Prompt, Progress
<1>5. InitReplies(c)' = InitReplies(c) /\ TurnAt(c)' = TurnAt(c) /\ \A f : Begun(c, f)' = Begun(c, f)
  BY <1>2 DEF InitReplies, TurnAt, Begun
<1>6. Lifecycle(c)'
  BY <1>1, <1>2, <1>3, <1>4 DEF ClientInv, Lifecycle
<1>7. Aligned(c)'
  BY <1>2, <1>3 DEF ClientInv, Aligned
<1>8. InitOnce(c)'
  BY <1>2, <1>3, <1>4, <1>5 DEF ClientInv, InitOnce
<1>9. QueryOnce(c)'
  BY <1>2, <1>3, <1>4, <1>5 DEF ClientInv, QueryOnce, Unsent
<1>10. Continues(c)' /\ Answered(c)'
  BY <1>2, <1>4, <1>5 DEF ClientInv, Continues, Answered
<1>11. QED
  BY <1>2, <1>6, <1>7, <1>8, <1>9, <1>10 DEF ClientInv, ClientKept

LEMMA SendQueryKeeps ==
  ASSUME ClientType, NEW c \in Clients, ClientInv(c), HostInv, UNCHANGED bvars, SendQuery(c)
  PROVE  ClientKept(c)
<1>1. /\ ClientType' /\ Only(c) /\ sdk[c].stage = "ready"
      /\ tp'[c] = [tp[c] EXCEPT !.want = @ \cup {"query"}]
      /\ sdk'[c] = [sdk[c] EXCEPT !.stage = "asking", !.asked = @ + 1, !.got = << >>]
      /\ wire' = wire
  BY SendQueryEffect
<1>2. /\ tp'[c].socket = tp[c].socket /\ tp'[c].closed = tp[c].closed /\ tp'[c].out = tp[c].out
      /\ tp'[c].want = tp[c].want \cup {"query"}
  <2>1. tp[c] \in Transport
    BY ClientFields
  <2>2. QED
    BY <1>1, <2>1 DEF Transport
<1>3. sdk'[c].stage = "asking" /\ sdk'[c].asked = sdk[c].asked + 1 /\ sdk'[c].got = << >>
  <2>1. sdk[c] \in SdkClient
    BY ClientFields
  <2>2. QED
    BY <1>1, <2>1 DEF SdkClient
<1>4. conns' = conns /\ pending' = pending
  BY DEF bvars
<1>5. Prompt(c) \notin pending /\ Prompt(c)' \notin pending
  <2>1. Prompt(c) \notin pending
    BY <1>1 DEF ClientInv, QueryOnce
  <2>2. sdk[c].asked \in Nat
    BY ClientFields
  <2>3. Owner(Prompt(c)') = c /\ Prompt(c)' # Prompt(c)
    BY <1>3, <2>2 DEF Owner, Prompt
  <2>4. QED
    BY <2>1, <2>3 DEF HostInv
<1>6. InitReplies(c)' = InitReplies(c) /\ TurnAt(c)' = {} /\ (\A f : Begun(c, f)' = Begun(c, f)) /\ Begun(c, "query") = {}
  BY <1>1 DEF InitReplies, TurnAt, Begun, ClientInv, QueryOnce, Unsent
<1>7. Lifecycle(c)'
  BY <1>1, <1>2, <1>3, <1>4 DEF ClientInv, Lifecycle
<1>8. Aligned(c)'
  BY <1>1, <1>2 DEF ClientInv, Aligned
<1>9. InitOnce(c)'
  BY <1>1, <1>2, <1>3, <1>4, <1>6 DEF ClientInv, InitOnce
<1>10. QueryOnce(c)'
  BY <1>3, <1>4, <1>5, <1>6 DEF QueryOnce, Unsent
<1>11. Continues(c)' /\ Answered(c)'
  BY <1>3, <1>4, <1>5, <1>6 DEF Continues, Answered
<1>12. QED
  BY <1>1, <1>5, <1>7, <1>8, <1>9, <1>10, <1>11 DEF ClientInv, ClientKept

LEMMA SendInterruptKeeps ==
  ASSUME ClientType, NEW c \in Clients, ClientInv(c), Answered(c), UNCHANGED bvars, SendInterrupt(c)
  PROVE  ClientKept(c)
<1>1. /\ ClientType' /\ Only(c) /\ sdk[c].stage \in {"ready", "asking"}
      /\ tp'[c] = [tp[c] EXCEPT !.want = @ \cup {"interrupt"}] /\ sdk' = sdk /\ wire' = wire
  BY SendInterruptEffect
<1>2. /\ tp'[c].socket = tp[c].socket /\ tp'[c].closed = tp[c].closed /\ tp'[c].out = tp[c].out
      /\ tp'[c].want = tp[c].want \cup {"interrupt"}
  <2>1. tp[c] \in Transport
    BY ClientFields
  <2>2. QED
    BY <1>1, <2>1 DEF Transport
<1>3. conns' = conns /\ pending' = pending /\ Prompt(c)' = Prompt(c) /\ Progress(c)' = Progress(c)
  BY <1>1 DEF bvars, Prompt, Progress
<1>4. InitReplies(c)' = InitReplies(c) /\ TurnAt(c)' = TurnAt(c) /\ \A f : Begun(c, f)' = Begun(c, f)
  BY <1>1 DEF InitReplies, TurnAt, Begun
<1>5. Lifecycle(c)'
  BY <1>1, <1>2, <1>3 DEF ClientInv, Lifecycle
<1>6. Aligned(c)'
  BY <1>1, <1>2 DEF ClientInv, Aligned
<1>7. InitOnce(c)'
  BY <1>1, <1>2, <1>3, <1>4 DEF ClientInv, InitOnce
<1>8. QueryOnce(c)'
  BY <1>1, <1>2, <1>3, <1>4 DEF ClientInv, QueryOnce, Unsent
<1>9. Continues(c)' /\ Answered(c)'
  BY <1>1, <1>3, <1>4 DEF ClientInv, Continues, Answered
<1>10. QED
  BY <1>1, <1>5, <1>6, <1>7, <1>8, <1>9 DEF ClientInv, ClientKept

LEMMA WriteKeeps ==
  ASSUME ClientType, NEW c \in Clients, ClientInv(c), Answered(c), UNCHANGED bvars, Write(c)
  PROVE  ClientKept(c)
<1>1. PICK f \in tp[c].want : /\ tp'[c] = [tp[c] EXCEPT !.want = @ \ {f}, !.out = << Part(f, 2) >>]
                              /\ wire'[c] = [wire[c] EXCEPT !.up = Append(@, Part(f, 1))]
  BY WriteEffect
<1>2. ClientType' /\ Only(c) /\ sdk' = sdk /\ tp[c].out = << >>
  BY WriteEffect
<1>3. /\ tp'[c].socket = tp[c].socket /\ tp'[c].closed = tp[c].closed /\ tp'[c].out = << Part(f, 2) >>
      /\ tp'[c].want = tp[c].want \ {f}
  <2>1. tp[c] \in Transport
    BY ClientFields
  <2>2. QED
    BY <1>1, <2>1 DEF Transport
<1>4. wire'[c].up = Append(wire[c].up, Part(f, 1)) /\ wire'[c].bridge = wire[c].bridge /\ wire'[c].down = wire[c].down
  <2>1. wire[c] \in Wire
    BY ClientFields
  <2>2. QED
    BY <1>1, <2>1 DEF Wire
<1>5. f \in Frames /\ Part(f, 1) \in Half
  BY ClientFields DEF Part, Half
<1>6. conns' = conns /\ pending' = pending /\ Prompt(c)' = Prompt(c) /\ Progress(c)' = Progress(c)
  BY <1>2 DEF bvars, Prompt, Progress
<1>7. InitReplies(c)' = InitReplies(c) /\ TurnAt(c)' = TurnAt(c)
  BY <1>4, DownSame
<1>8. \A g : \A i \in Begun(c, g)' : i \in Begun(c, g) \/ (i = Len(wire[c].up) + 1 /\ f = g)
  <2>1. \A g : \A i \in Begun(c, g)' : i \in Begun(c, g) \/ (i = Len(wire[c].up) + 1 /\ Part(f, 1) = Part(g, 1))
    BY <1>4, <1>5, WrittenKeeps DEF ClientInv
  <2>2. QED
    BY <2>1 DEF Part
<1>9. Lifecycle(c)'
  BY <1>2, <1>3, <1>4, <1>6 DEF ClientInv, Lifecycle
<1>10. Aligned(c)'
  <2>1. ~tp[c].closed
    BY <1>1 DEF ClientInv, Lifecycle
  <2>2. Part(f, 1)[2] = 1 /\ Part(f, 1)[1] = f
    BY DEF Part
  <2>3. CASE wire[c].bridge # "open"
    BY <1>4, <2>3 DEF Aligned
  <2>4. CASE wire[c].bridge = "open"
    <3>1. wire[c].up = << >> \/ wire[c].up[Len(wire[c].up)][2] = 2
      BY <1>2, <2>1, <2>4 DEF ClientInv, Aligned
    <3>2. QED
      BY <1>3, <1>4, <1>5, <2>2, <3>1, WrittenKeeps DEF ClientInv
  <2>5. QED
    BY <2>3, <2>4
<1>11. InitOnce(c)'
  <2>1. CASE f = "init"
    <3>1. Begun(c, "init") = {} /\ conns[c].busy = None /\ InitReplies(c) = {} /\ sdk[c].stage \notin {"ready", "asking"}
      BY <1>1, <2>1 DEF ClientInv, InitOnce
    <3>2. \A i, j \in Begun(c, "init")' : i = j
      BY <1>8, <3>1
    <3>3. QED
      BY <1>2, <1>3, <1>6, <1>7, <2>1, <3>1, <3>2 DEF InitOnce
  <2>2. CASE f # "init"
    <3>1. Begun(c, "init")' \subseteq Begun(c, "init")
      BY <1>8, <2>2
    <3>2. "init" \in tp'[c].want => "init" \in tp[c].want
      BY <1>3
    <3>3. QED
      BY <1>2, <1>3, <1>6, <1>7, <2>2, <3>1, <3>2 DEF ClientInv, InitOnce
  <2>3. QED
    BY <2>1, <2>2
<1>12. QueryOnce(c)'
  <2>1. CASE f = "query"
    <3>1. Begun(c, "query") = {} /\ Unsent(c)
      BY <1>1, <2>1 DEF ClientInv, QueryOnce, Unsent
    <3>2. \A i, j \in Begun(c, "query")' : i = j
      BY <1>8, <3>1
    <3>3. "query" \notin tp'[c].want
      BY <1>3, <2>1
    <3>4. QED
      BY <1>2, <1>3, <1>6, <1>7, <3>1, <3>2, <3>3 DEF ClientInv, QueryOnce
  <2>2. CASE f # "query"
    <3>1. Begun(c, "query")' \subseteq Begun(c, "query")
      BY <1>8, <2>2
    <3>2. "query" \in tp'[c].want => "query" \in tp[c].want
      BY <1>3
    <3>3. QED
      BY <1>2, <1>3, <1>6, <1>7, <3>1, <3>2 DEF ClientInv, QueryOnce, Unsent
  <2>3. QED
    BY <2>1, <2>2
<1>13. Continues(c)' /\ Answered(c)'
  BY <1>2, <1>4, <1>6, <1>7 DEF ClientInv, Continues, Answered
<1>14. QED
  BY <1>2, <1>9, <1>10, <1>11, <1>12, <1>13 DEF ClientInv, ClientKept

LEMMA WriteRestKeeps ==
  ASSUME ClientType, NEW c \in Clients, ClientInv(c), Answered(c), UNCHANGED bvars, WriteRest(c)
  PROVE  ClientKept(c)
<1> DEFINE h == Head(tp[c].out)
<1>1. /\ ClientType' /\ Only(c) /\ sdk' = sdk /\ tp[c].out # << >>
      /\ tp'[c] = [tp[c] EXCEPT !.out = Tail(@)]
      /\ wire'[c] = [wire[c] EXCEPT !.up = Append(@, h)]
  BY WriteRestEffect
<1>2. /\ tp'[c].socket = tp[c].socket /\ tp'[c].closed = tp[c].closed /\ tp'[c].out = Tail(tp[c].out)
      /\ tp'[c].want = tp[c].want
  <2>1. tp[c] \in Transport
    BY ClientFields
  <2>2. QED
    BY <1>1, <2>1 DEF Transport
<1>3. wire'[c].up = Append(wire[c].up, h) /\ wire'[c].bridge = wire[c].bridge /\ wire'[c].down = wire[c].down
  <2>1. wire[c] \in Wire
    BY ClientFields
  <2>2. QED
    BY <1>1, <2>1 DEF Wire
<1>4. h \in Half
  BY <1>1, ClientFields
<1>5. conns' = conns /\ pending' = pending /\ Prompt(c)' = Prompt(c) /\ Progress(c)' = Progress(c)
  BY <1>1 DEF bvars, Prompt, Progress
<1>6. InitReplies(c)' = InitReplies(c) /\ TurnAt(c)' = TurnAt(c)
  BY <1>3, DownSame
<1>7. wire[c].bridge = "open" => /\ h[2] = 2 /\ tp'[c].out = << >>
                                 /\ wire[c].up # << >> /\ wire[c].up[Len(wire[c].up)][2] = 1
                                 /\ h = Part(wire[c].up[Len(wire[c].up)][1], 2)
  <2>1. SUFFICES ASSUME wire[c].bridge = "open"
                 PROVE  /\ h[2] = 2 /\ tp'[c].out = << >>
                        /\ wire[c].up # << >> /\ wire[c].up[Len(wire[c].up)][2] = 1
                        /\ h = Part(wire[c].up[Len(wire[c].up)][1], 2)
    OBVIOUS
  <2>2. /\ wire[c].up # << >> /\ wire[c].up[Len(wire[c].up)][2] = 1
        /\ tp[c].out = << Part(wire[c].up[Len(wire[c].up)][1], 2) >>
    BY <1>1, <2>1 DEF ClientInv, Aligned
  <2>3. h = Part(wire[c].up[Len(wire[c].up)][1], 2) /\ tp'[c].out = << >>
    BY <1>2, <2>2
  <2>4. QED
    BY <2>2, <2>3 DEF Part
<1>8. \A g : Begun(c, g)' \subseteq Begun(c, g)
  <2>1. \A g : \A i \in Begun(c, g)' : i \in Begun(c, g) \/ (wire[c].bridge = "open" /\ h = Part(g, 1))
    <3>1. \A g : \A i \in Begun(c, g)' : i \in Begun(c, g) \/ (i = Len(wire[c].up) + 1 /\ h = Part(g, 1))
      BY <1>3, <1>4, WrittenKeeps DEF ClientInv
    <3>2. \A g : \A i \in Begun(c, g)' : wire[c].bridge = "open"
      BY <1>3 DEF Begun
    <3>3. QED
      BY <3>1, <3>2
  <2>2. QED
    BY <1>7, <2>1 DEF Part
<1>9. Lifecycle(c)'
  BY <1>1, <1>2, <1>3, <1>5 DEF ClientInv, Lifecycle
<1>10. Aligned(c)'
  <2>1. CASE wire[c].bridge # "open"
    BY <1>3, <2>1 DEF Aligned
  <2>2. CASE wire[c].bridge = "open"
    BY <1>3, <1>4, <1>7, <2>2, WrittenKeeps DEF ClientInv
  <2>3. QED
    BY <2>1, <2>2
<1>11. InitOnce(c)'
  <2>1. Begun(c, "init")' \subseteq Begun(c, "init")
    BY <1>8
  <2>2. QED
    BY <1>1, <1>2, <1>5, <1>6, <2>1 DEF ClientInv, InitOnce
<1>12. QueryOnce(c)'
  <2>1. Begun(c, "query")' \subseteq Begun(c, "query")
    BY <1>8
  <2>2. QED
    BY <1>1, <1>2, <1>5, <1>6, <2>1 DEF ClientInv, QueryOnce, Unsent
<1>13. Continues(c)' /\ Answered(c)'
  BY <1>1, <1>3, <1>5, <1>6 DEF ClientInv, Continues, Answered
<1>14. QED
  BY <1>1, <1>9, <1>10, <1>11, <1>12, <1>13 DEF ClientInv, ClientKept

\* What the reader makes of an answer of the bridge, and of a frame of a turn.
LEMMA ReadEffect ==
  ASSUME ClientType, NEW c \in Clients, Read(c), Head(wire[c].down).kind # "error"
  PROVE  /\ ClientType' /\ Only(c) /\ tp' = tp /\ IsOpen(c) /\ wire[c].down # << >>
         /\ wire'[c].down = Tail(wire[c].down) /\ wire'[c].up = wire[c].up /\ wire'[c].bridge = wire[c].bridge
         /\ sdk'[c].asked = sdk[c].asked
         /\ \/ /\ Head(wire[c].down) \in TurnPart
               /\ sdk'[c].got = Append(sdk[c].got, Head(wire[c].down))
               /\ sdk'[c].stage = IF Head(wire[c].down).last THEN "ready" ELSE sdk[c].stage
            \/ /\ Head(wire[c].down) \in Answer
               /\ sdk'[c].got = sdk[c].got
               /\ sdk'[c].stage = IF Head(wire[c].down).to = "init" THEN "ready" ELSE sdk[c].stage
<1> DEFINE m == Head(wire[c].down)
           rest == Tail(wire[c].down)
<1>1. sdk[c] \in SdkClient /\ wire[c] \in Wire /\ wire[c].down \in Seq(Message)
  BY ClientFields
<1>2. wire[c].down # << >> /\ IsOpen(c) /\ tp' = tp
      /\ sdk' = [sdk EXCEPT ![c] = Understood(@, m)] /\ wire' = [wire EXCEPT ![c].down = Tail(@)]
  BY DEF Read
<1>3. m \in Message /\ rest \in Seq(Message)
  BY <1>1, <1>2
<1>4. m \in TurnPart \/ m \in Answer
  BY <1>3 DEF Message, BridgeError
<1> HIDE DEF m, rest
<1>5. PICK w \in Wire : w = [wire[c] EXCEPT !.down = rest]
  BY <1>1, <1>3 DEF Wire
<1>6. wire' = [wire EXCEPT ![c] = w]
  BY <1>2, <1>5 DEF rest
<1>7. w.down = rest /\ w.up = wire[c].up /\ w.bridge = wire[c].bridge
  BY <1>1, <1>5 DEF Wire
<1>8. wire' \in [Clients -> Wire] /\ wire'[c] = w /\ \A d \in Clients : d # c => wire'[d] = wire[d]
  BY <1>6 DEF ClientType
<1>9. CASE m \in TurnPart
  <2>1. m.kind = "turn" /\ m.last \in BOOLEAN
    BY <1>9 DEF TurnPart
  <2>2. Understood(sdk[c], m) = [sdk[c] EXCEPT !.got = Append(@, m), !.stage = IF m.last THEN "ready" ELSE @]
    BY <2>1 DEF Understood
  <2>3. Append(sdk[c].got, m) \in Seq(TurnPart)
    BY <1>9, ClientFields
  <2>4. PICK k \in {"new", "handshake", "ready", "asking", "gone"} : k = IF m.last THEN "ready" ELSE sdk[c].stage
    BY <1>1 DEF SdkClient
  <2>5. PICK s \in SdkClient : s = [sdk[c] EXCEPT !.got = Append(@, m), !.stage = k]
    BY <1>1, <2>3 DEF SdkClient
  <2>6. Understood(sdk[c], m) = s
    BY <2>2, <2>4, <2>5
  <2>7. s.got = Append(sdk[c].got, m) /\ s.stage = k /\ s.asked = sdk[c].asked
    BY <1>1, <2>5 DEF SdkClient
  <2>8. sdk' = [sdk EXCEPT ![c] = s]
    BY <1>2, <2>6
  <2>9. sdk' \in [Clients -> SdkClient] /\ sdk'[c] = s /\ \A d \in Clients : d # c => sdk'[d] = sdk[d]
    BY <2>8 DEF ClientType
  <2>10. QED
    BY <1>2, <1>7, <1>8, <1>9, <2>4, <2>7, <2>9 DEF ClientType, Only, m, rest
<1>10. CASE m \in Answer
  <2>1. m.kind = "reply"
    BY <1>10 DEF Answer
  <2>2. Understood(sdk[c], m) = IF m.to = "init" THEN [sdk[c] EXCEPT !.stage = "ready"] ELSE sdk[c]
    BY <2>1 DEF Understood
  <2>3. PICK s \in SdkClient : s = Understood(sdk[c], m)
    BY <1>1, <2>2 DEF SdkClient
  <2>4. s.got = sdk[c].got /\ s.asked = sdk[c].asked /\ s.stage = IF m.to = "init" THEN "ready" ELSE sdk[c].stage
    BY <1>1, <2>2, <2>3 DEF SdkClient
  <2>5. sdk' = [sdk EXCEPT ![c] = s]
    BY <1>2, <2>3
  <2>6. sdk' \in [Clients -> SdkClient] /\ sdk'[c] = s /\ \A d \in Clients : d # c => sdk'[d] = sdk[d]
    BY <2>5 DEF ClientType
  <2>7. QED
    BY <1>2, <1>7, <1>8, <1>10, <2>4, <2>6 DEF ClientType, Only, m, rest
<1>11. QED
  BY <1>4, <1>9, <1>10

LEMMA ReadTurnKeeps ==
  ASSUME ClientType, NEW c \in Clients, ClientInv(c), Answered(c), UNCHANGED bvars,
         Read(c), Head(wire[c].down) \in TurnPart
  PROVE  ClientKept(c)
<1> DEFINE m == Head(wire[c].down)
<1>1. m.kind = "turn" /\ m.last \in BOOLEAN
  BY DEF TurnPart
<1>2. /\ ClientType' /\ Only(c) /\ tp' = tp /\ IsOpen(c) /\ wire[c].down # << >>
      /\ wire'[c].down = Tail(wire[c].down) /\ wire'[c].up = wire[c].up /\ wire'[c].bridge = wire[c].bridge
      /\ sdk'[c].asked = sdk[c].asked
      /\ sdk'[c].got = Append(sdk[c].got, m)
      /\ sdk'[c].stage = IF m.last THEN "ready" ELSE sdk[c].stage
  BY <1>1, ReadEffect DEF Answer
<1>3. conns' = conns /\ pending' = pending /\ Prompt(c)' = Prompt(c) /\ Progress(c)' = Progress(c)
  BY <1>2 DEF bvars, Prompt, Progress
<1>4. /\ m = wire[c].down[1] /\ 1 \in 1..Len(wire[c].down)
      /\ \A j \in 1..Len(wire'[c].down) : wire'[c].down[j] = wire[c].down[j + 1]
      /\ \A j : j \in InitReplies(c)' <=> j \in Nat \ {0} /\ j + 1 \in InitReplies(c)
      /\ \A j : j \in TurnAt(c)' <=> j \in Nat \ {0} /\ j + 1 \in TurnAt(c)
  BY <1>2, DownRead
<1>5. 1 \in TurnAt(c) /\ TurnAt(c) \subseteq Nat \ {0} /\ TurnAt(c)' \subseteq Nat \ {0}
      /\ (\A i \in TurnAt(c) : 1 <= i)
  BY <1>1, <1>4 DEF TurnAt
<1>6. sdk[c].stage = "asking"
  <2>1. sdk[c].stage \notin {"new", "handshake", "ready"}
    BY <1>5 DEF ClientInv, QueryOnce
  <2>2. sdk[c].stage # "gone"
    BY <1>2 DEF ClientInv, Lifecycle, IsOpen
  <2>3. sdk[c].stage \in {"new", "handshake", "ready", "asking", "gone"}
    BY ClientFields DEF SdkClient
  <2>4. QED
    BY <2>1, <2>2, <2>3
<1>7. m.of = Prompt(c) /\ m.index = Len(sdk[c].got) + 1
  BY <1>4, <1>5, <1>6 DEF ClientInv, Continues
<1>8. m.last => Prompt(c) \notin pending /\ \A i \in TurnAt(c) : i = 1
  <2>1. m.last => Prompt(c) \notin pending /\ \A i \in TurnAt(c) : i <= 1
    BY <1>4, <1>5, <1>6 DEF ClientInv, Continues
  <2>2. QED
    BY <1>5, <2>1
<1>9. sdk[c].got \in Seq(TurnPart) /\ Len(sdk[c].got) \in Nat
      /\ Len(sdk'[c].got) = Len(sdk[c].got) + 1 /\ sdk'[c].got[Len(sdk[c].got) + 1] = m
      /\ \A i \in 1..Len(sdk[c].got) : sdk'[c].got[i] = sdk[c].got[i]
  <2>1. sdk[c].got \in Seq(TurnPart)
    BY ClientFields
  <2>2. QED
    BY <1>2, <2>1
<1>10. Answered(c)'
  <2>1. 1..Len(sdk'[c].got) = 1..Len(sdk[c].got) \cup {Len(sdk[c].got) + 1}
    BY <1>9
  <2>2. QED
    BY <1>3, <1>7, <1>9, <2>1 DEF Answered
<1>11. ~Unsent(c)
  BY <1>5 DEF ClientInv, QueryOnce
<1>12. (\A f : Begun(c, f)' = Begun(c, f)) /\ Unsent(c)' = Unsent(c)
  BY <1>2 DEF Begun, Unsent
<1>13. sdk'[c].stage \in {"ready", "asking"}
  BY <1>2, <1>6
<1>14. Lifecycle(c)'
  <2>1. wire[c].bridge # "none" /\ ~tp[c].closed
    BY <1>6 DEF ClientInv, Lifecycle
  <2>2. QED
    BY <1>2, <1>13, <2>1 DEF ClientInv, Lifecycle, IsOpen
<1>15. Aligned(c)'
  BY <1>2 DEF ClientInv, Aligned
<1>16. InitOnce(c)'
  <2>1. "init" \notin tp[c].want /\ Begun(c, "init") = {} /\ conns[c].busy = None /\ InitReplies(c) = {}
    BY <1>6 DEF ClientInv, InitOnce
  <2>2. InitReplies(c)' = {}
    BY <1>4, <2>1
  <2>3. QED
    BY <1>2, <1>3, <1>12, <2>1, <2>2 DEF InitOnce
<1>17. QueryOnce(c)'
  <2>1. sdk'[c].stage = "ready" => Prompt(c) \notin pending /\ TurnAt(c)' = {}
    <3>1. sdk'[c].stage = "ready" => m.last
      BY <1>2, <1>6
    <3>2. m.last => TurnAt(c)' = {}
      BY <1>4, <1>8
    <3>3. QED
      BY <1>8, <3>1, <3>2
  <2>2. QED
    BY <1>2, <1>3, <1>11, <1>12, <1>13, <2>1 DEF ClientInv, QueryOnce
<1>18. Continues(c)'
  <2>1. SUFFICES ASSUME sdk'[c].stage = "asking" PROVE Continues(c)'
    BY DEF Continues
  <2>2. /\ \A j \in TurnAt(c) : wire[c].down[j].of = Prompt(c)
        /\ \A j \in TurnAt(c) : (\A i \in TurnAt(c) : j <= i) => wire[c].down[j].index = Len(sdk[c].got) + 1
        /\ \A j, k \in TurnAt(c) : j < k /\ (\A i \in TurnAt(c) : i <= j \/ k <= i) =>
              wire[c].down[k].index = wire[c].down[j].index + 1
        /\ \A j \in TurnAt(c) : wire[c].down[j].last => Prompt(c) \notin pending /\ \A i \in TurnAt(c) : i <= j
        /\ wire[c].bridge = "open" /\ Prompt(c) \in pending =>
              /\ TurnAt(c) = {} => Len(sdk[c].got) = Progress(c)
              /\ \A j \in TurnAt(c) : (\A i \in TurnAt(c) : i <= j) => wire[c].down[j].index = Progress(c)
    BY <1>6 DEF ClientInv, Continues
  <2>3. \A j \in TurnAt(c)' : j \in Nat \ {0} /\ j + 1 \in TurnAt(c) /\ wire'[c].down[j] = wire[c].down[j + 1]
    <3>1. \A j \in TurnAt(c)' : j \in 1..Len(wire'[c].down)
      BY DEF TurnAt
    <3>2. QED
      BY <1>4, <3>1
  <2>4. \A i \in TurnAt(c) : i = 1 \/ (i > 1 /\ i - 1 \in TurnAt(c)' /\ (i - 1) + 1 = i)
    <3>1. TAKE i \in TurnAt(c)
    <3>2. i \in Nat \ {0}
      BY <1>5
    <3>3. CASE i # 1
      <4>1. i - 1 \in Nat \ {0} /\ (i - 1) + 1 = i /\ i > 1
        BY <3>2, <3>3
      <4>2. QED
        BY <1>4, <4>1
    <3>4. QED
      BY <3>3
  <2>5. ASSUME NEW j \in TurnAt(c)', \A i \in TurnAt(c)' : j <= i
        PROVE  wire'[c].down[j].index = Len(sdk'[c].got) + 1
    <3>1. 1 < j + 1 /\ \A i \in TurnAt(c) : i <= 1 \/ j + 1 <= i
      <4>1. j \in Nat \ {0}
        BY <2>3
      <4>2. QED
        BY <1>5, <2>4, <2>5, <4>1
    <3>2. wire[c].down[j + 1].index = wire[c].down[1].index + 1
      BY <1>5, <2>2, <2>3, <3>1
    <3>3. QED
      BY <1>4, <1>7, <1>9, <2>3, <3>2
  <2>6. ASSUME NEW j \in TurnAt(c)', NEW k \in TurnAt(c)', j < k, \A i \in TurnAt(c)' : i <= j \/ k <= i
        PROVE  wire'[c].down[k].index = wire'[c].down[j].index + 1
    <3>1. j \in Nat \ {0} /\ k \in Nat \ {0} /\ j + 1 \in TurnAt(c) /\ k + 1 \in TurnAt(c)
      BY <2>3
    <3>2. j + 1 < k + 1 /\ \A i \in TurnAt(c) : i <= j + 1 \/ k + 1 <= i
      <4>1. j + 1 < k + 1
        BY <2>6, <3>1
      <4>2. ASSUME NEW i \in TurnAt(c) PROVE i <= j + 1 \/ k + 1 <= i
        <5>1. i \in Nat
          BY <1>5
        <5>2. CASE i = 1
          BY <3>1, <5>2
        <5>3. CASE i - 1 \in TurnAt(c)'
          BY <2>6, <3>1, <5>1, <5>3
        <5>4. QED
          BY <2>4, <5>2, <5>3
      <4>3. QED
        BY <4>1, <4>2
    <3>3. QED
      BY <2>2, <2>3, <3>1, <3>2
  <2>7. ASSUME NEW j \in TurnAt(c)', wire'[c].down[j].last
        PROVE  Prompt(c) \notin pending /\ \A i \in TurnAt(c)' : i <= j
    <3>1. Prompt(c) \notin pending /\ \A i \in TurnAt(c) : i <= j + 1
      BY <2>2, <2>3, <2>7
    <3>2. \A i \in TurnAt(c)' : i + 1 <= j + 1 /\ i \in Nat /\ j \in Nat
      BY <2>3, <3>1
    <3>3. QED
      BY <3>1, <3>2
  <2>8. ASSUME wire[c].bridge = "open", Prompt(c) \in pending, TurnAt(c)' = {}
        PROVE  Len(sdk'[c].got) = Progress(c)
    <3>1. \A i \in TurnAt(c) : i = 1
      BY <2>4, <2>8
    <3>2. wire[c].down[1].index = Progress(c)
      BY <1>5, <2>2, <2>8, <3>1
    <3>3. QED
      BY <1>4, <1>7, <1>9, <3>2
  <2>9. ASSUME wire[c].bridge = "open", Prompt(c) \in pending, NEW j \in TurnAt(c)', \A i \in TurnAt(c)' : i <= j
        PROVE  wire'[c].down[j].index = Progress(c)
    <3>1. j \in Nat \ {0}
      BY <2>3
    <3>2. \A i \in TurnAt(c) : i <= j + 1
      <4>1. TAKE i \in TurnAt(c)
      <4>2. i \in Nat
        BY <1>5
      <4>3. CASE i = 1
        BY <3>1, <4>3
      <4>4. CASE i - 1 \in TurnAt(c)'
        BY <2>9, <3>1, <4>2, <4>4
      <4>5. QED
        BY <2>4, <4>3, <4>4
    <3>3. QED
      BY <2>2, <2>3, <2>9, <3>2
  <2>10. \A j \in TurnAt(c)' : wire'[c].down[j].of = Prompt(c)
    BY <2>2, <2>3
  <2>11. QED
    BY <1>2, <1>3, <2>5, <2>6, <2>7, <2>8, <2>9, <2>10 DEF Continues
<1>19. QED
  BY <1>2, <1>10, <1>14, <1>15, <1>16, <1>17, <1>18 DEF ClientInv, ClientKept

LEMMA ReadReplyKeeps ==
  ASSUME ClientType, NEW c \in Clients, ClientInv(c), Answered(c), UNCHANGED bvars,
         Read(c), Head(wire[c].down) \in Answer
  PROVE  ClientKept(c)
<1> DEFINE m == Head(wire[c].down)
<1>1. m.kind = "reply"
  BY DEF Answer
<1>2. /\ ClientType' /\ Only(c) /\ tp' = tp /\ IsOpen(c) /\ wire[c].down # << >>
      /\ wire'[c].down = Tail(wire[c].down) /\ wire'[c].up = wire[c].up /\ wire'[c].bridge = wire[c].bridge
      /\ sdk'[c].asked = sdk[c].asked /\ sdk'[c].got = sdk[c].got
      /\ sdk'[c].stage = IF m.to = "init" THEN "ready" ELSE sdk[c].stage
  BY <1>1, ReadEffect DEF TurnPart
<1>3. conns' = conns /\ pending' = pending /\ Prompt(c)' = Prompt(c) /\ Progress(c)' = Progress(c)
  BY <1>2 DEF bvars, Prompt, Progress
<1>4. /\ m = wire[c].down[1] /\ 1 \in 1..Len(wire[c].down)
      /\ \A j \in 1..Len(wire'[c].down) : wire'[c].down[j] = wire[c].down[j + 1]
      /\ \A j : j \in InitReplies(c)' <=> j \in Nat \ {0} /\ j + 1 \in InitReplies(c)
      /\ \A j : j \in TurnAt(c)' <=> j \in Nat \ {0} /\ j + 1 \in TurnAt(c)
  BY <1>2, DownRead
<1>5. /\ TurnAt(c) \subseteq Nat \ {0} /\ 1 \notin TurnAt(c) /\ InitReplies(c) \subseteq Nat \ {0}
      /\ m.to = "init" => 1 \in InitReplies(c)
  BY <1>1, <1>4 DEF TurnAt, InitReplies
<1>6. (\A f : Begun(c, f)' = Begun(c, f)) /\ Unsent(c)' = Unsent(c)
  BY <1>2 DEF Begun, Unsent
<1>7. m.to = "init" => sdk[c].stage = "handshake" /\ InitReplies(c)' = {}
  <2>1. SUFFICES ASSUME m.to = "init" PROVE sdk[c].stage = "handshake" /\ InitReplies(c)' = {}
    OBVIOUS
  <2>2. sdk[c].stage \notin {"ready", "asking"}
    BY <1>5, <2>1 DEF ClientInv, InitOnce
  <2>3. sdk[c].stage \notin {"gone", "new"}
    BY <1>2 DEF ClientInv, Lifecycle, IsOpen
  <2>4. sdk[c].stage \in {"new", "handshake", "ready", "asking", "gone"}
    BY ClientFields DEF SdkClient
  <2>5. \A i \in InitReplies(c) : i = 1
    BY <1>5, <2>1 DEF ClientInv, InitOnce
  <2>6. InitReplies(c)' = {}
    BY <1>4, <2>5
  <2>7. QED
    BY <2>2, <2>3, <2>4, <2>6
<1>8. Lifecycle(c)'
  <2>1. wire[c].bridge # "none" /\ ~tp[c].closed
    BY <1>2 DEF ClientInv, Lifecycle, IsOpen
  <2>2. QED
    BY <1>2, <1>3, <2>1 DEF ClientInv, Lifecycle, IsOpen
<1>9. Aligned(c)'
  BY <1>2 DEF ClientInv, Aligned
<1>10. InitOnce(c)'
  <2>1. CASE m.to = "init"
    <3>1. "init" \notin tp[c].want /\ Begun(c, "init") = {} /\ conns[c].busy = None
      BY <1>5, <2>1 DEF ClientInv, InitOnce
    <3>2. QED
      BY <1>2, <1>3, <1>6, <1>7, <2>1, <3>1 DEF InitOnce
  <2>2. CASE m.to # "init"
    <3>1. sdk'[c].stage = sdk[c].stage
      BY <1>2, <2>2
    <3>2. InitReplies(c) = {} => InitReplies(c)' = {}
      BY <1>4
    <3>3. \A i, j \in InitReplies(c)' : i = j
      <4>1. \A i, j \in InitReplies(c)' : i + 1 = j + 1 /\ i \in Nat /\ j \in Nat
        BY <1>4 DEF ClientInv, InitOnce
      <4>2. QED
        BY <4>1
    <3>4. QED
      BY <1>2, <1>3, <1>6, <3>1, <3>2, <3>3 DEF ClientInv, InitOnce
  <2>3. QED
    BY <2>1, <2>2
<1>11. QueryOnce(c)'
  <2>1. TurnAt(c) = {} => TurnAt(c)' = {}
    BY <1>4
  <2>2. sdk'[c].stage \in {"new", "handshake", "ready"} => sdk[c].stage \in {"new", "handshake", "ready"}
    BY <1>2, <1>7
  <2>3. QED
    BY <1>2, <1>3, <1>6, <2>1, <2>2 DEF ClientInv, QueryOnce
<1>12. Continues(c)'
  <2>1. SUFFICES ASSUME sdk'[c].stage = "asking" PROVE Continues(c)'
    BY DEF Continues
  <2>2. /\ \A j \in TurnAt(c) : wire[c].down[j].of = Prompt(c)
        /\ \A j \in TurnAt(c) : (\A i \in TurnAt(c) : j <= i) => wire[c].down[j].index = Len(sdk[c].got) + 1
        /\ \A j, k \in TurnAt(c) : j < k /\ (\A i \in TurnAt(c) : i <= j \/ k <= i) =>
              wire[c].down[k].index = wire[c].down[j].index + 1
        /\ \A j \in TurnAt(c) : wire[c].down[j].last => Prompt(c) \notin pending /\ \A i \in TurnAt(c) : i <= j
        /\ wire[c].bridge = "open" /\ Prompt(c) \in pending =>
              /\ TurnAt(c) = {} => Len(sdk[c].got) = Progress(c)
              /\ \A j \in TurnAt(c) : (\A i \in TurnAt(c) : i <= j) => wire[c].down[j].index = Progress(c)
    <3>1. sdk[c].stage = "asking"
      BY <1>2, <2>1
    <3>2. QED
      BY <3>1 DEF ClientInv, Continues
  <2>3. \A j \in TurnAt(c)' : j \in Nat \ {0} /\ j + 1 \in TurnAt(c) /\ wire'[c].down[j] = wire[c].down[j + 1]
    <3>1. \A j \in TurnAt(c)' : j \in 1..Len(wire'[c].down)
      BY DEF TurnAt
    <3>2. QED
      BY <1>4, <3>1
  <2>4. \A i \in TurnAt(c) : i \in Nat /\ i - 1 \in TurnAt(c)' /\ (i - 1) + 1 = i
    <3>1. TAKE i \in TurnAt(c)
    <3>2. i \in Nat \ {0} /\ i # 1
      BY <1>5
    <3>3. i - 1 \in Nat \ {0} /\ (i - 1) + 1 = i
      BY <3>2
    <3>4. QED
      BY <1>4, <3>2, <3>3
  <2>5. ASSUME NEW j \in TurnAt(c)', \A i \in TurnAt(c)' : j <= i
        PROVE  wire'[c].down[j].index = Len(sdk[c].got) + 1
    <3>1. \A i \in TurnAt(c) : j + 1 <= i
      BY <2>3, <2>4, <2>5
    <3>2. QED
      BY <2>2, <2>3, <3>1
  <2>6. ASSUME NEW j \in TurnAt(c)', NEW k \in TurnAt(c)', j < k, \A i \in TurnAt(c)' : i <= j \/ k <= i
        PROVE  wire'[c].down[k].index = wire'[c].down[j].index + 1
    <3>1. j \in Nat \ {0} /\ k \in Nat \ {0} /\ j + 1 \in TurnAt(c) /\ k + 1 \in TurnAt(c)
      BY <2>3
    <3>2. j + 1 < k + 1
      BY <2>6, <3>1
    <3>3. \A i \in TurnAt(c) : i <= j + 1 \/ k + 1 <= i
      BY <2>4, <2>6, <3>1
    <3>4. QED
      BY <2>2, <2>3, <3>1, <3>2, <3>3
  <2>7. ASSUME NEW j \in TurnAt(c)', wire'[c].down[j].last
        PROVE  Prompt(c) \notin pending /\ \A i \in TurnAt(c)' : i <= j
    <3>1. Prompt(c) \notin pending /\ \A i \in TurnAt(c) : i <= j + 1
      BY <2>2, <2>3, <2>7
    <3>2. \A i \in TurnAt(c)' : i + 1 <= j + 1 /\ i \in Nat /\ j \in Nat
      BY <2>3, <3>1
    <3>3. QED
      BY <3>1, <3>2
  <2>8. TurnAt(c)' = {} => TurnAt(c) = {}
    BY <2>4
  <2>9. ASSUME wire[c].bridge = "open", Prompt(c) \in pending, NEW j \in TurnAt(c)', \A i \in TurnAt(c)' : i <= j
        PROVE  wire'[c].down[j].index = Progress(c)
    <3>1. \A i \in TurnAt(c) : i <= j + 1
      BY <2>3, <2>4, <2>9
    <3>2. QED
      BY <2>2, <2>3, <2>9, <3>1
  <2>10. \A j \in TurnAt(c)' : wire'[c].down[j].of = Prompt(c)
    BY <2>2, <2>3
  <2>11. wire[c].bridge = "open" /\ Prompt(c) \in pending /\ TurnAt(c) = {} => Len(sdk[c].got) = Progress(c)
    BY <2>2
  <2>12. QED
    BY <1>2, <1>3, <2>5, <2>6, <2>7, <2>8, <2>9, <2>10, <2>11 DEF Continues
<1>13. Answered(c)'
  BY <1>2, <1>3 DEF Answered
<1>14. QED
  BY <1>2, <1>8, <1>9, <1>10, <1>11, <1>12, <1>13 DEF ClientInv, ClientKept

\* Every step of a client keeps its own invariant, and so all of them.
LEMMA OwnStepKeeps ==
  ASSUME ClientType, NEW c \in Clients, ClientInv(c), Answered(c), HostInv, UNCHANGED bvars, ClientStep(c)
  PROVE  ClientKept(c)
<1>1. CASE Connect(c) \/ ConnectTimesOut(c)
  BY <1>1, ConnectKeeps
<1>2. CASE Disconnect(c) \/ WriteFails(c) \/ CancelWrite(c) \/ ReadEnd(c)
  BY <1>2, CloseKeeps DEF Disconnect, WriteFails, CancelWrite, ReadEnd
<1>3. CASE SendQuery(c)
  BY <1>3, SendQueryKeeps
<1>4. CASE SendInterrupt(c)
  BY <1>4, SendInterruptKeeps
<1>5. CASE Write(c)
  BY <1>5, WriteKeeps
<1>6. CASE WriteRest(c)
  BY <1>6, WriteRestKeeps
<1>7. CASE Read(c)
  <2>1. wire[c].down \in Seq(Message) /\ wire[c].down # << >>
    BY <1>7, ClientFields DEF Read
  <2>2. Head(wire[c].down) \in Message
    BY <2>1
  <2>3. CASE Head(wire[c].down) = BridgeError
    <3>1. Close(c)
      BY <1>7, <2>3 DEF Read, BridgeError
    <3>2. QED
      BY <3>1, CloseKeeps
  <2>4. CASE Head(wire[c].down) \in TurnPart
    BY <1>7, <2>4, ReadTurnKeeps
  <2>5. CASE Head(wire[c].down) \in Answer
    BY <1>7, <2>5, ReadReplyKeeps
  <2>6. QED
    BY <2>2, <2>3, <2>4, <2>5 DEF Message
<1>8. QED
  BY <1>1, <1>2, <1>3, <1>4, <1>5, <1>6, <1>7 DEF ClientStep


LEMMA ClientSteps ==
  ASSUME BridgeInv, NEW c \in Clients, Client(c)
  PROVE  BridgeInv'
<1>1. ClientStep(c) /\ UNCHANGED bvars /\ ClientType /\ HostInv /\ BridgeType
  BY DEF BridgeInv, Client
<1>2. /\ \A d \in Clients : ClientInv(d) /\ Answered(d)
  BY DEF BridgeInv, TurnsKeptApart, OwnAnswers, Answered
<1>3. ClientKept(c)
  BY <1>1, <1>2, OwnStepKeeps
<1>4. ASSUME NEW d \in Clients, d # c PROVE ClientInv(d)' /\ Answered(d)'
  <2>1. Fixed(d)
    BY <1>1, <1>3, <1>4 DEF ClientKept, Only, Fixed, bvars
  <2>2. Prompt(d)' = Prompt(d)
    BY <2>1 DEF Fixed, Prompt
  <2>3. pending' = pending /\ Progress(d)' = Progress(d)
    BY <1>1, <2>2 DEF bvars, Progress
  <2>4. ClientInv(d)'
    BY <1>2, <2>1, <2>2, <2>3, Untouched
  <2>5. Answered(d)'
    BY <1>2, <2>1, <2>2 DEF Answered, Fixed
  <2>6. QED
    BY <2>4, <2>5
<1>5. \A d \in Clients : ClientInv(d)' /\ Answered(d)'
  BY <1>3, <1>4 DEF ClientKept
<1>6. OwnAnswers'
  BY <1>5 DEF OwnAnswers, Answered
<1>7. InterruptsOwnTurn' /\ BridgeType'
  BY <1>1 DEF BridgeInv, TurnsKeptApart, InterruptsOwnTurn, BridgeType, bvars
<1>8. HostInv'
  <2>1. \A u \in pending : u = Prompt(Owner(u))'
    <3>1. TAKE u \in pending
    <3>2. u = Prompt(Owner(u)) /\ u \in Uuid /\ Owner(u) \in Clients
      BY <1>1, NoneIsNothing DEF HostInv, BridgeType
    <3>3. sdk'[Owner(u)].asked = sdk[Owner(u)].asked
      BY <1>3, <3>2 DEF ClientKept, Only
    <3>4. QED
      BY <3>2, <3>3 DEF Prompt
  <2>2. QED
    BY <1>1, <2>1 DEF HostInv, bvars
<1>9. ClientType'
  BY <1>3 DEF ClientKept
<1>10. QED
  BY <1>5, <1>6, <1>7, <1>8, <1>9 DEF BridgeInv, TurnsKeptApart

----------------------------------------------------------------------------
(* The bridge's handlers of a connection.                                  *)

LEMMA BecomesFacts ==
  ASSUME ClientType, NEW c \in Clients, NEW w \in Wire, tp' = tp, sdk' = sdk, Becomes(c, w)
  PROVE  ClientType' /\ wire'[c] = w /\ \A d \in Clients : d # c => wire'[d] = wire[d]
BY DEF ClientType, Becomes

LEMMA ConnFacts ==
  ASSUME BridgeType, NEW c \in Clients, NEW v \in Conn, conns' = [conns EXCEPT ![c] = v]
  PROVE  conns' \in [Clients -> Conn] /\ conns'[c] = v /\ \A d \in Clients : d # c => conns'[d] = conns[d]
BY DEF BridgeType

\* A step that leaves the host, the queue and the turns alone.
LEMMA HandlerKeeps ==
  ASSUME BridgeInv, NEW c \in Clients, sdk' = sdk, UNCHANGED << host, mounts, active, pending, ui >>,
         conns' \in [Clients -> Conn], ClientType', ClientInv(c)',
         \A d \in Clients : d # c => Fixed(d)
  PROVE  BridgeInv'
<1>1. \A d \in Clients : Prompt(d)' = Prompt(d)
  BY DEF Prompt
<1>2. \A d \in Clients : d # c => ClientInv(d)'
  <2>1. TAKE d \in Clients
  <2>2. Progress(d)' = Progress(d)
    BY <1>1 DEF Progress
  <2>3. ClientInv(d)
    BY DEF BridgeInv
  <2>4. QED
    BY <1>1, <2>2, <2>3, Untouched
<1>3. \A d \in Clients : ClientInv(d)'
  BY <1>2
<1>4. OwnAnswers' /\ InterruptsOwnTurn'
  BY <1>1 DEF BridgeInv, TurnsKeptApart, OwnAnswers, InterruptsOwnTurn
<1>5. BridgeType'
  BY DEF BridgeInv, BridgeType
<1>6. HostInv'
  <2>1. \A u \in pending : u = Prompt(Owner(u))'
    BY <1>1, NoneIsNothing DEF BridgeInv, BridgeType, HostInv
  <2>2. QED
    BY <2>1 DEF BridgeInv, HostInv
<1>7. QED
  BY <1>3, <1>4, <1>5, <1>6 DEF BridgeInv, TurnsKeptApart

LEMMA RejectKeeps ==
  ASSUME ClientType, NEW c \in Clients, ClientInv(c), wire[c].bridge # "none", tp' = tp, sdk' = sdk, Reject(c),
         conns'[c].busy \in {conns[c].busy, None}, pending' = pending
  PROVE  ClientType' /\ ClientInv(c)' /\ \A d \in Clients : d # c => wire'[d] = wire[d]
<1>1. wire[c] \in Wire
  BY ClientFields
<1>2. PICK w : w = [Failed(wire[c]) EXCEPT !.up = << >>]
  OBVIOUS
<1>3. /\ w \in Wire /\ w.up = << >> /\ w.bridge # "open"
      /\ w.down \in {wire[c].down, Append(wire[c].down, BridgeError)}
      /\ w.bridge = "none" => wire[c].bridge = "none"
  BY <1>1, <1>2, RejectFacts
<1>4. Becomes(c, w)
  BY <1>2 DEF Reject
<1>5. ClientType' /\ wire'[c] = w /\ \A d \in Clients : d # c => wire'[d] = wire[d]
  BY <1>3, <1>4, BecomesFacts
<1>6. w.bridge \in {"ended", "destroyed"}
  BY <1>3 DEF Wire
<1>7. Broken(c)
  BY <1>3, <1>5, <1>6 DEF Broken
<1>8. Prompt(c)' = Prompt(c)
  BY DEF Prompt
<1>9. QED
  BY <1>5, <1>7, <1>8, BrokenKeeps

LEMMA RefusalKeeps ==
  ASSUME BridgeInv, NEW c \in Clients, Malformed(c) \/ RefuseQuery(c)
  PROVE  BridgeInv'
<1>1. /\ Reject(c) /\ UNCHANGED << conns, active, pending, ui >> /\ Kept /\ wire[c].bridge = "open"
  BY DEF Malformed, RefuseQuery, Takes, Arrived
<1>2. ClientType /\ ClientInv(c) /\ conns \in [Clients -> Conn]
  BY DEF BridgeInv, BridgeType
<1>3. tp' = tp /\ sdk' = sdk /\ UNCHANGED << host, mounts, active, pending, ui >> /\ conns' = conns
  BY <1>1 DEF Kept
<1>4. ClientType' /\ ClientInv(c)' /\ \A d \in Clients : d # c => wire'[d] = wire[d]
  BY <1>1, <1>2, <1>3, RejectKeeps
<1>5. \A d \in Clients : d # c => Fixed(d)
  BY <1>3, <1>4 DEF Fixed
<1>6. QED
  BY <1>2, <1>3, <1>4, <1>5, HandlerKeeps

LEMMA ClosesKeeps ==
  ASSUME BridgeInv, NEW c \in Clients, Closes(c)
  PROVE  BridgeInv'
<1>1. ClientType /\ ClientInv(c) /\ BridgeType
  BY DEF BridgeInv
<1>2. conns[c] \in Conn /\ wire[c] \in Wire
  BY <1>1, ClientFields DEF BridgeType
<1>3. PICK v \in Conn : v = [conns[c] EXCEPT !.live = FALSE]
  BY <1>2 DEF Conn
<1>4. conns' \in [Clients -> Conn] /\ conns'[c].busy = conns[c].busy /\ \A d \in Clients : d # c => conns'[d] = conns[d]
  <2>1. conns' = [conns EXCEPT ![c] = v]
    BY <1>3 DEF Closes
  <2>2. v.busy = conns[c].busy
    BY <1>2, <1>3 DEF Conn
  <2>3. QED
    BY <1>1, <2>1, <2>2, ConnFacts
<1>5. PICK w \in Wire : w = [Destroyed(wire[c]) EXCEPT !.up = << >>]
  <2>1. << >> \in Seq(Half)
    OBVIOUS
  <2>2. QED
    BY <1>2, <2>1 DEF Destroyed, Wire
<1>6. w.bridge = "destroyed" /\ w.down = wire[c].down
  BY <1>2, <1>5 DEF Destroyed, Wire
<1>7. tp' = tp /\ sdk' = sdk /\ UNCHANGED << host, mounts, active, pending, ui >> /\ Becomes(c, w)
  BY <1>5 DEF Closes, Kept
<1>8. ClientType' /\ wire'[c] = w /\ \A d \in Clients : d # c => wire'[d] = wire[d]
  BY <1>1, <1>7, BecomesFacts
<1>9. wire[c].bridge # "none"
  BY <1>1 DEF Closes, ClientInv, Lifecycle
<1>10. Broken(c)
  BY <1>4, <1>6, <1>8, <1>9 DEF Broken
<1>11. ClientInv(c)'
  <2>1. Prompt(c)' = Prompt(c)
    BY <1>7 DEF Prompt
  <2>2. QED
    BY <1>1, <1>7, <1>8, <1>10, <2>1, BrokenKeeps
<1>12. \A d \in Clients : d # c => Fixed(d)
  BY <1>4, <1>7, <1>8 DEF Fixed
<1>13. QED
  BY <1>4, <1>7, <1>8, <1>11, <1>12, HandlerKeeps

LEMMA TakenFacts ==
  ASSUME ClientType, NEW c \in Clients, ClientInv(c), NEW f \in Frames, Takes(c, f)
  PROVE  /\ Taken(c) \in Wire /\ Taken(c).down = wire[c].down /\ Taken(c).bridge = "open"
         /\ Taken(c).up = SubSeq(wire[c].up, 3, Len(wire[c].up))
         /\ wire[c].bridge = "open" /\ Len(wire[c].up) >= 2 /\ wire[c].up[2][2] = 2
         /\ 1 \in Begun(c, f) /\ conns[c].live /\ conns[c].busy = None /\ host # None
<1>1. wire[c] \in Wire /\ wire[c].bridge = "open" /\ Ends(wire[c].up) # {} /\ conns[c].live /\ conns[c].busy = None
      /\ host # None /\ Line(wire[c].up)[1][1] = f
  BY ClientFields DEF Takes, Arrived
<1>2. /\ Len(wire[c].up) >= 2
      /\ Line(wire[c].up)[1] = wire[c].up[1]
      /\ wire[c].up[1] = Part(wire[c].up[1][1], 1)
      /\ wire[c].up[2] = Part(wire[c].up[1][1], 2)
      /\ Rest(wire[c].up) = SubSeq(wire[c].up, 3, Len(wire[c].up))
  BY <1>1, LineFacts DEF ClientInv
<1>3. wire[c].up \in Seq(Half) /\ Len(wire[c].up) \in Nat
  BY ClientFields
<1>4. 1 \in Begun(c, f)
  BY <1>1, <1>2, <1>3 DEF Begun
<1>5. wire[c].up[2][2] = 2
  BY <1>2 DEF Part
<1>6. Rest(wire[c].up) \in Seq(Half)
  BY <1>2, <1>3
<1>7. Taken(c) = [wire[c] EXCEPT !.up = Rest(wire[c].up)]
  BY DEF Taken
<1>8. Taken(c) \in Wire /\ Taken(c).down = wire[c].down /\ Taken(c).bridge = "open" /\ Taken(c).up = Rest(wire[c].up)
  BY <1>1, <1>6, <1>7 DEF Wire
<1>9. QED
  BY <1>1, <1>2, <1>4, <1>5, <1>8

\* What a frame that is taken off leaves of its client's invariant.
LEMMA TakenKeeps ==
  ASSUME ClientType, NEW c \in Clients, ClientInv(c), NEW f \in Frames, Takes(c, f), tp' = tp, sdk' = sdk,
         wire'[c].up = Taken(c).up
  PROVE  /\ Aligned(c)'
         /\ \A g : \A i \in Begun(c, g)' : i \in Nat /\ i + 2 \in Begun(c, g)
         /\ f \in {"init", "query"} => Begun(c, f)' = {}
<1>1. /\ wire'[c].up = SubSeq(wire[c].up, 3, Len(wire[c].up))
      /\ wire[c].bridge = "open" /\ Len(wire[c].up) >= 2 /\ wire[c].up[2][2] = 2
      /\ 1 \in Begun(c, f)
  BY TakenFacts
<1>2. Aligned(c)' /\ \A g : \A i \in Begun(c, g)' : i + 2 \in Begun(c, g)
  BY <1>1, ConsumedKeeps DEF ClientInv, Consumed
<1>3. \A g : \A i \in Begun(c, g)' : i \in Nat \ {0}
  BY DEF Begun
<1>4. f \in {"init", "query"} => \A i \in Begun(c, f) : i = 1
  BY <1>1 DEF ClientInv, InitOnce, QueryOnce
<1>5. f \in {"init", "query"} => Begun(c, f)' = {}
  <2>1. SUFFICES ASSUME f \in {"init", "query"}, NEW i \in Begun(c, f)' PROVE FALSE
    OBVIOUS
  <2>2. i + 2 = 1 /\ i \in Nat
    BY <1>2, <1>3, <1>4, <2>1
  <2>3. QED
    BY <2>2
<1>6. QED
  BY <1>2, <1>3, <1>5

LEMMA InitializeKeeps ==
  ASSUME BridgeInv, NEW c \in Clients, Initialize(c)
  PROVE  BridgeInv'
<1>1. ClientType /\ ClientInv(c) /\ BridgeType
  BY DEF BridgeInv
<1>2. "init" \in Frames /\ Takes(c, "init")
  BY DEF Initialize, Frames
<1>3. /\ Taken(c) \in Wire /\ Taken(c).down = wire[c].down /\ Taken(c).bridge = "open" /\ wire[c].bridge = "open"
      /\ 1 \in Begun(c, "init") /\ host # None
  BY <1>1, <1>2, TakenFacts
<1>4. tp' = tp /\ sdk' = sdk /\ UNCHANGED << host, mounts, active, pending, ui >> /\ Becomes(c, Taken(c))
  BY DEF Initialize, Kept
<1>5. ClientType' /\ wire'[c] = Taken(c) /\ \A d \in Clients : d # c => wire'[d] = wire[d]
  BY <1>1, <1>3, <1>4, BecomesFacts
<1>6. conns[c] \in Conn /\ host \in Mount
  BY <1>1, <1>3 DEF BridgeType
<1>7. PICK v \in Conn : v = [conns[c] EXCEPT !.busy = host]
  BY <1>6 DEF Conn
<1>8. conns' \in [Clients -> Conn] /\ conns'[c].busy = host /\ conns'[c].live = conns[c].live
      /\ \A d \in Clients : d # c => conns'[d] = conns[d]
  <2>1. conns' = [conns EXCEPT ![c] = v]
    BY <1>7 DEF Initialize
  <2>2. v.busy = host /\ v.live = conns[c].live
    BY <1>6, <1>7 DEF Conn
  <2>3. QED
    BY <1>1, <2>1, <2>2, ConnFacts
<1>9. /\ Aligned(c)'
      /\ \A i \in Begun(c, "query")' : i \in Nat /\ i + 2 \in Begun(c, "query")
      /\ Begun(c, "init")' = {}
  BY <1>1, <1>2, <1>4, <1>5, TakenKeeps
<1>10. InitReplies(c)' = InitReplies(c) /\ TurnAt(c)' = TurnAt(c)
  BY <1>3, <1>5, DownSame
<1>11. Prompt(c)' = Prompt(c) /\ Progress(c)' = Progress(c)
  BY <1>4 DEF Prompt, Progress
<1>12. Lifecycle(c)'
  BY <1>1, <1>3, <1>4, <1>5 DEF ClientInv, Lifecycle
<1>13. InitOnce(c)'
  <2>1. "init" \notin tp[c].want /\ sdk[c].stage \notin {"ready", "asking"} /\ InitReplies(c) = {}
    BY <1>1, <1>3 DEF ClientInv, InitOnce
  <2>2. QED
    BY <1>4, <1>9, <1>10, <2>1 DEF InitOnce
<1>14. QueryOnce(c)'
  <2>1. Begun(c, "query") = {} => Begun(c, "query")' = {}
    BY <1>9
  <2>2. \A i, j \in Begun(c, "query")' : i = j
    <3>1. \A i, j \in Begun(c, "query")' : i + 2 = j + 2 /\ i \in Nat /\ j \in Nat
      BY <1>1, <1>9 DEF ClientInv, QueryOnce
    <3>2. QED
      BY <3>1
  <2>3. QED
    BY <1>1, <1>4, <1>10, <1>11, <2>1, <2>2 DEF ClientInv, QueryOnce, Unsent
<1>15. Continues(c)'
  BY <1>1, <1>3, <1>4, <1>5, <1>10, <1>11 DEF ClientInv, Continues
<1>16. \A d \in Clients : d # c => Fixed(d)
  BY <1>4, <1>5, <1>8 DEF Fixed
<1>17. ClientInv(c)'
  BY <1>9, <1>12, <1>13, <1>14, <1>15 DEF ClientInv
<1>18. QED
  BY <1>4, <1>5, <1>8, <1>16, <1>17, HandlerKeeps

LEMMA InitializedKeeps ==
  ASSUME BridgeInv, NEW c \in Clients, Initialized(c)
  PROVE  BridgeInv'
<1>1. ClientType /\ ClientInv(c) /\ BridgeType
  BY DEF BridgeInv
<1>2. tp' = tp /\ sdk' = sdk /\ UNCHANGED << host, mounts, active, pending, ui >> /\ conns[c].busy # None
  BY DEF Initialized, Kept
<1>3. conns[c] \in Conn /\ wire[c] \in Wire /\ wire[c].bridge # "none"
  BY <1>1, <1>2, ClientFields DEF BridgeType, ClientInv, Lifecycle
<1>4. PICK k \in BOOLEAN : k = (conns[c].busy = host)
  OBVIOUS
<1>5. PICK v \in Conn : v = [[conns[c] EXCEPT !.busy = None] EXCEPT !.inited = k]
  BY <1>3 DEF Conn
<1>6. conns' \in [Clients -> Conn] /\ conns'[c].busy = None /\ conns'[c].live = conns[c].live
      /\ \A d \in Clients : d # c => conns'[d] = conns[d]
  <2>1. conns' = [conns EXCEPT ![c].busy = None, ![c].inited = k]
    BY <1>4 DEF Initialized
  <2>2. conns' = [conns EXCEPT ![c] = v]
    BY <1>1, <1>5, <2>1 DEF BridgeType
  <2>3. v.busy = None /\ v.live = conns[c].live
    BY <1>3, <1>5 DEF Conn
  <2>4. QED
    BY <1>1, <2>2, <2>3, ConnFacts
<1>7. Prompt(c)' = Prompt(c) /\ Progress(c)' = Progress(c)
  BY <1>2 DEF Prompt, Progress
<1>8. CASE conns[c].busy # host
  <2>1. Reject(c)
    BY <1>8 DEF Initialized
  <2>2. ClientType' /\ ClientInv(c)' /\ \A d \in Clients : d # c => wire'[d] = wire[d]
    BY <1>1, <1>2, <1>3, <1>6, <2>1, RejectKeeps
  <2>3. \A d \in Clients : d # c => Fixed(d)
    BY <1>2, <1>6, <2>2 DEF Fixed
  <2>4. QED
    BY <1>2, <1>6, <2>2, <2>3, HandlerKeeps
<1>9. CASE conns[c].busy = host
  <2>1. Becomes(c, Sent(wire[c], Reply("init", TRUE)))
    BY <1>9 DEF Initialized
  <2>2. Reply("init", TRUE) \in Message /\ Reply("init", TRUE).kind = "reply" /\ Reply("init", TRUE).to = "init"
    BY DEF Reply, Message, Answer, Frames
  <2>3. PICK m \in Message : m = Reply("init", TRUE)
    BY <2>2
  <2>4. PICK w \in Wire : w = Sent(wire[c], m)
    BY <1>3, SentFacts
  <2>5. /\ w.up = wire[c].up /\ w.bridge \in {wire[c].bridge, "destroyed"}
        /\ w.down \in {wire[c].down, Append(wire[c].down, m)}
        /\ w.bridge = "open" => wire[c].bridge = "open" /\ w.down = Append(wire[c].down, m)
    BY <1>3, <2>4, SentFacts
  <2>6. ClientType' /\ wire'[c] = w /\ \A d \in Clients : d # c => wire'[d] = wire[d]
    BY <1>1, <1>2, <2>1, <2>3, <2>4, BecomesFacts
  <2>7. \A d \in Clients : d # c => Fixed(d)
    BY <1>2, <1>6, <2>6 DEF Fixed
  <2>8. /\ InitReplies(c) = {} /\ sdk[c].stage \notin {"ready", "asking"} /\ Begun(c, "init") = {}
        /\ "init" \notin tp[c].want
    BY <1>1, <1>2 DEF ClientInv, InitOnce
  <2>9. (\A i, j \in InitReplies(c)' : i = j) /\ TurnAt(c)' = TurnAt(c)
    <3>1. CASE w.down = wire[c].down
      BY <2>6, <2>8, <3>1, DownSame
    <3>2. CASE w.down = Append(wire[c].down, m)
      <4>1. InitReplies(c)' = {} \cup {Len(wire[c].down) + 1} /\ TurnAt(c)' = TurnAt(c) \cup {}
        BY <1>1, <2>2, <2>3, <2>6, <2>8, <3>2, DownAppended
      <4>2. QED
        BY <4>1
    <3>3. QED
      BY <2>5, <3>1, <3>2
  <2>10. \A f : Begun(c, f)' \subseteq Begun(c, f)
    BY <2>5, <2>6 DEF Begun
  <2>11. Lifecycle(c)'
    BY <1>1, <1>2, <1>3, <1>6, <2>5, <2>6 DEF ClientInv, Lifecycle, Wire
  <2>12. Aligned(c)'
    BY <1>1, <1>2, <2>5, <2>6 DEF ClientInv, Aligned
  <2>13. InitOnce(c)'
    <3>1. Begun(c, "init")' = {}
      BY <2>8, <2>10
    <3>2. QED
      BY <1>2, <1>6, <2>8, <2>9, <3>1 DEF InitOnce
  <2>14. QueryOnce(c)'
    <3>1. Begun(c, "query")' \subseteq Begun(c, "query")
      BY <2>10
    <3>2. QED
      BY <1>1, <1>2, <1>7, <2>9, <3>1 DEF ClientInv, QueryOnce, Unsent
  <2>15. Continues(c)'
    BY <1>2, <2>8 DEF Continues
  <2>16. ClientInv(c)'
    BY <2>11, <2>12, <2>13, <2>14, <2>15 DEF ClientInv
  <2>17. QED
    BY <1>2, <1>6, <2>6, <2>7, <2>16, HandlerKeeps
<1>10. QED
  BY <1>8, <1>9

\* A change of one turn of the UI.
LEMMA TurnFacts ==
  ASSUME NEW u \in Ui, NEW e \in Engines, NEW t \in UiTurn, NEW v, v = [u EXCEPT !.turn[e] = t]
  PROVE  /\ v \in Ui /\ v.engine = u.engine /\ v.queue = u.queue /\ v.typed = u.typed
         /\ v.turn[e] = t /\ \A g \in Engines : g # e => v.turn[g] = u.turn[g]
<1>1. u.turn \in [Engines -> UiTurn]
  BY DEF Ui
<1>2. PICK f \in [Engines -> UiTurn] : f = [u.turn EXCEPT ![e] = t]
  BY <1>1
<1>3. f[e] = t /\ \A g \in Engines : g # e => f[g] = u.turn[g]
  BY <1>1, <1>2
<1>4. v = [u EXCEPT !.turn = f]
  BY <1>2
<1>5. v \in Ui /\ v.engine = u.engine /\ v.queue = u.queue /\ v.typed = u.typed /\ v.turn = f
  BY <1>4 DEF Ui
<1>6. QED
  BY <1>3, <1>5

\* The parts of the invariant, put together again.
LEMMA Together ==
  ASSUME BridgeInv, \A d \in Clients : sdk'[d].got = sdk[d].got /\ sdk'[d].asked = sdk[d].asked,
         ClientType', BridgeType', HostInv', InterruptsOwnTurn', \A d \in Clients : ClientInv(d)'
  PROVE  BridgeInv'
<1>1. \A d \in Clients : Prompt(d)' = Prompt(d)
  BY DEF Prompt
<1>2. OwnAnswers'
  BY <1>1 DEF BridgeInv, TurnsKeptApart, OwnAnswers
<1>3. QED
  BY <1>2 DEF BridgeInv, TurnsKeptApart

LEMMA InterruptTurnKeeps ==
  ASSUME BridgeInv, NEW c \in Clients, InterruptTurn(c)
  PROVE  BridgeInv'
<1>1. ClientType /\ ClientInv(c) /\ BridgeType /\ HostInv
  BY DEF BridgeInv
<1>2. "interrupt" \in Frames /\ Takes(c, "interrupt")
  BY DEF InterruptTurn, Frames
<1>3. /\ Taken(c) \in Wire /\ Taken(c).down = wire[c].down /\ Taken(c).bridge = "open" /\ wire[c].bridge = "open"
  BY <1>1, <1>2, TakenFacts
<1>4. tp' = tp /\ sdk' = sdk /\ UNCHANGED << host, mounts, active, pending, conns >>
  BY DEF InterruptTurn, Kept
<1>5. PICK m \in Message : m = Reply("interrupt", OwnsTurn(c))
  BY DEF Reply, Message, Answer, Frames, OwnsTurn
<1>6. m.kind = "reply" /\ m.to = "interrupt"
  BY <1>5 DEF Reply
<1>7. PICK w \in Wire : w = Sent(Taken(c), m)
  BY <1>3, SentFacts
<1>8. /\ w.up = Taken(c).up /\ w.bridge \in {"open", "destroyed"}
      /\ w.down \in {wire[c].down, Append(wire[c].down, m)}
      /\ w.bridge = "open" => w.down = Append(wire[c].down, m)
  <2>1. /\ w.up = Taken(c).up /\ w.bridge \in {Taken(c).bridge, "destroyed"}
        /\ w.down \in {Taken(c).down, Append(Taken(c).down, m)}
        /\ w.bridge = "open" => w.down = Append(Taken(c).down, m)
    BY <1>3, <1>7, SentFacts
  <2>2. QED
    BY <1>3, <2>1
<1>9. Becomes(c, w)
  BY <1>5, <1>7 DEF InterruptTurn
<1>10. ClientType' /\ wire'[c] = w /\ \A d \in Clients : d # c => wire'[d] = wire[d]
  BY <1>1, <1>4, <1>9, BecomesFacts
<1>11. /\ ui' \in Ui /\ ui'.engine = ui.engine
       /\ \A e \in Engines : /\ ui'.turn[e].prompt = ui.turn[e].prompt /\ ui'.turn[e].sent = ui.turn[e].sent
                             /\ \/ ui'.turn[e].stopper = ui.turn[e].stopper
                                \/ e = ui.engine /\ OwnsTurn(c) /\ ui'.turn[e].stopper = c
  <2>1. ui \in Ui /\ ui.engine \in Engines /\ ui.turn[ui.engine] \in UiTurn
    BY <1>1 DEF BridgeType, Ui
  <2>2. CASE ui' = ui
    BY <2>1, <2>2
  <2>3. CASE OwnsTurn(c) /\ ui' = [ui EXCEPT !.turn[ui.engine].stopper = c]
    <3>1. PICK t \in UiTurn : t = [ui.turn[ui.engine] EXCEPT !.stopper = c]
      BY <2>1 DEF UiTurn
    <3>2. t.prompt = ui.turn[ui.engine].prompt /\ t.sent = ui.turn[ui.engine].sent /\ t.stopper = c
      BY <2>1, <3>1 DEF UiTurn
    <3>3. ui' = [ui EXCEPT !.turn[ui.engine] = t]
      BY <2>3, <3>1
    <3>4. /\ ui' \in Ui /\ ui'.engine = ui.engine /\ ui'.turn[ui.engine] = t
          /\ \A g \in Engines : g # ui.engine => ui'.turn[g] = ui.turn[g]
      BY <2>1, <3>3, TurnFacts
    <3>5. QED
      BY <2>3, <3>2, <3>4
  <2>4. QED
    BY <2>2, <2>3 DEF InterruptTurn
<1>12. \A d \in Clients : Prompt(d)' = Prompt(d) /\ Progress(d)' = Progress(d)
  <2>1. ui.engine \in Engines
    BY <1>1 DEF BridgeType, Ui
  <2>2. \A d \in Clients : Prompt(d)' = Prompt(d)
    BY <1>4 DEF Prompt
  <2>3. QED
    BY <1>11, <2>1, <2>2 DEF Progress
<1>13. BridgeType'
  BY <1>1, <1>4, <1>11 DEF BridgeType
<1>14. HostInv'
  <2>1. \A u \in pending : u = Prompt(Owner(u))'
    BY <1>1, <1>12, NoneIsNothing DEF BridgeType, HostInv
  <2>2. ui.engine \in Engines
    BY <1>1 DEF BridgeType, Ui
  <2>3. QED
    BY <1>1, <1>4, <1>11, <2>1, <2>2 DEF HostInv
<1>15. InterruptsOwnTurn'
  <2>1. OwnsTurn(c) => Owner(ui.turn[ui.engine].prompt) = c
    <3>1. OwnsTurn(c) => active \in pending /\ Owner(active) = c
      BY DEF OwnsTurn
    <3>2. active \in pending => active # None
      BY <1>1, NoneIsNothing DEF BridgeType
    <3>3. QED
      BY <1>1, <3>1, <3>2 DEF HostInv
  <2>2. \A e \in Engines : ui.turn[e].stopper # None => Owner(ui.turn[e].prompt) = ui.turn[e].stopper
    BY DEF BridgeInv, TurnsKeptApart, InterruptsOwnTurn
  <2>3. QED
    BY <1>11, <2>1, <2>2 DEF InterruptsOwnTurn
<1>16. ASSUME NEW d \in Clients, d # c PROVE ClientInv(d)'
  <2>1. Fixed(d) /\ ClientInv(d)
    BY <1>4, <1>10, <1>16 DEF Fixed, BridgeInv
  <2>2. QED
    BY <1>4, <1>12, <2>1, Untouched
<1>17. /\ Aligned(c)'
       /\ \A g : \A i \in Begun(c, g)' : i \in Nat /\ i + 2 \in Begun(c, g)
  BY <1>1, <1>2, <1>4, <1>8, <1>10, TakenKeeps
<1>18. InitReplies(c)' = InitReplies(c) /\ TurnAt(c)' = TurnAt(c)
       /\ \A j \in TurnAt(c) : wire'[c].down[j] = wire[c].down[j]
  <2>1. CASE w.down = wire[c].down
    BY <1>10, <2>1, DownSame
  <2>2. CASE w.down = Append(wire[c].down, m)
    <3>1. /\ InitReplies(c)' = InitReplies(c) \cup {} /\ TurnAt(c)' = TurnAt(c) \cup {}
          /\ \A j \in 1..Len(wire[c].down) : wire'[c].down[j] = wire[c].down[j]
      BY <1>1, <1>6, <1>10, <2>2, DownAppended
    <3>2. QED
      BY <3>1 DEF TurnAt
  <2>3. QED
    BY <1>8, <2>1, <2>2
<1>19. Lifecycle(c)'
  BY <1>1, <1>3, <1>4, <1>8, <1>10 DEF ClientInv, Lifecycle
<1>20. (\A f : Begun(c, f) = {} => Begun(c, f)' = {}) /\ \A f : (\A i, j \in Begun(c, f) : i = j) => \A i, j \in Begun(c, f)' : i = j
  <2>1. \A f : Begun(c, f) = {} => Begun(c, f)' = {}
    BY <1>17
  <2>2. ASSUME NEW f, \A i, j \in Begun(c, f) : i = j, NEW i \in Begun(c, f)', NEW j \in Begun(c, f)' PROVE i = j
    <3>1. i + 2 = j + 2 /\ i \in Nat /\ j \in Nat
      BY <1>17, <2>2
    <3>2. QED
      BY <3>1
  <2>3. QED
    BY <2>1, <2>2
<1>21. InitOnce(c)'
  BY <1>1, <1>4, <1>18, <1>20 DEF ClientInv, InitOnce
<1>22. QueryOnce(c)'
  BY <1>1, <1>4, <1>12, <1>18, <1>20 DEF ClientInv, QueryOnce, Unsent
<1>23. Continues(c)'
  BY <1>1, <1>3, <1>4, <1>8, <1>10, <1>12, <1>18 DEF ClientInv, Continues
<1>24. ClientInv(c)'
  BY <1>17, <1>19, <1>21, <1>22, <1>23 DEF ClientInv
<1>25. \A d \in Clients : ClientInv(d)'
  BY <1>16, <1>24
<1>26. QED
  BY <1>4, <1>10, <1>13, <1>14, <1>15, <1>25, Together

LEMMA EnqueueKeeps ==
  ASSUME BridgeInv, NEW c \in Clients, Enqueue(c)
  PROVE  BridgeInv'
<1>1. ClientType /\ ClientInv(c) /\ BridgeType /\ HostInv
  BY DEF BridgeInv
<1>2. "query" \in Frames /\ Takes(c, "query")
  BY DEF Enqueue, Frames
<1>3. /\ Taken(c) \in Wire /\ Taken(c).down = wire[c].down /\ Taken(c).bridge = "open" /\ wire[c].bridge = "open"
      /\ 1 \in Begun(c, "query") /\ host # None
  BY <1>1, <1>2, TakenFacts
<1>4. tp' = tp /\ sdk' = sdk /\ UNCHANGED << host, mounts, active, conns >> /\ Becomes(c, Taken(c))
      /\ pending' = {Prompt(c)} /\ pending = {} /\ ui.turn[ui.engine] = Idle
      /\ ui' = [ui EXCEPT !.queue = @ \cup {Prompt(c)}]
  BY DEF Enqueue, Kept, Acceptable, IsBusy, Turn
<1>5. ClientType' /\ wire'[c] = Taken(c) /\ \A d \in Clients : d # c => wire'[d] = wire[d]
  BY <1>1, <1>3, <1>4, BecomesFacts
<1>6. Prompt(c) \in Uuid /\ Prompt(c) \in Prompts
  BY <1>1, ClientFields, NoneIsNothing
<1>7. ui' \in Ui /\ ui'.turn = ui.turn /\ ui'.engine = ui.engine
  BY <1>1, <1>4, <1>6 DEF BridgeType, Ui
<1>8. \A d \in Clients : Prompt(d)' = Prompt(d) /\ Progress(d)' = Progress(d)
  BY <1>4, <1>7 DEF Prompt, Progress
<1>9. BridgeType'
  BY <1>1, <1>4, <1>6, <1>7 DEF BridgeType
<1>10. HostInv'
  <2>1. active = None
    BY <1>1, <1>4 DEF HostInv
  <2>2. \A u \in pending' : u = Prompt(Owner(u))'
    <3>1. Owner(Prompt(c)) = c
      BY DEF Owner, Prompt
    <3>2. QED
      BY <1>4, <1>8, <3>1
  <2>3. \A u, v \in pending' : u = v
    BY <1>4
  <2>4. host' = host /\ host # None /\ active' = None /\ EngineOf(host) = ui'.engine
    BY <1>1, <1>3, <1>4, <1>7, <2>1 DEF HostInv
  <2>5. QED
    BY <2>2, <2>3, <2>4 DEF HostInv
<1>11. InterruptsOwnTurn'
  BY <1>7 DEF BridgeInv, TurnsKeptApart, InterruptsOwnTurn
<1>12. ASSUME NEW d \in Clients, d # c PROVE ClientInv(d)'
  <2>1. Fixed(d) /\ ClientInv(d)
    BY <1>4, <1>5, <1>12 DEF Fixed, BridgeInv
  <2>2. Prompt(d) \notin pending'
    BY <1>4, <1>12 DEF Prompt
  <2>3. QED
    BY <2>1, <2>2, Untouched
<1>13. /\ Aligned(c)'
       /\ \A i \in Begun(c, "init")' : i \in Nat /\ i + 2 \in Begun(c, "init")
       /\ Begun(c, "query")' = {}
  BY <1>1, <1>2, <1>4, <1>5, TakenKeeps
<1>14. InitReplies(c)' = InitReplies(c) /\ TurnAt(c)' = TurnAt(c)
  BY <1>3, <1>5, DownSame
<1>15. Lifecycle(c)'
  BY <1>1, <1>3, <1>4, <1>5 DEF ClientInv, Lifecycle
<1>16. InitOnce(c)'
  <2>1. Begun(c, "init") = {} => Begun(c, "init")' = {}
    BY <1>13
  <2>2. \A i, j \in Begun(c, "init")' : i = j
    <3>1. \A i, j \in Begun(c, "init")' : i + 2 = j + 2 /\ i \in Nat /\ j \in Nat
      BY <1>1, <1>13 DEF ClientInv, InitOnce
    <3>2. QED
      BY <3>1
  <2>3. QED
    BY <1>1, <1>4, <1>14, <2>1, <2>2 DEF ClientInv, InitOnce
<1>17. "query" \notin tp[c].want /\ sdk[c].stage \notin {"new", "handshake", "ready"} /\ sdk[c].got = << >>
       /\ TurnAt(c) = {}
  BY <1>1, <1>3 DEF ClientInv, QueryOnce, Unsent
<1>18. QueryOnce(c)'
  BY <1>4, <1>13, <1>17 DEF QueryOnce, Unsent
<1>19. Continues(c)'
  <2>1. Progress(c) = 0
    <3>1. Idle.prompt = None /\ None # Prompt(c)
      BY <1>6, NoneIsNothing DEF Idle
    <3>2. QED
      BY <1>4, <3>1 DEF Progress
  <2>2. Len(<< >>) = 0
    OBVIOUS
  <2>3. QED
    BY <1>4, <1>8, <1>14, <1>17, <2>1, <2>2 DEF Continues
<1>20. \A d \in Clients : ClientInv(d)'
  BY <1>12, <1>13, <1>15, <1>16, <1>18, <1>19 DEF ClientInv
<1>21. QED
  BY <1>4, <1>5, <1>9, <1>10, <1>11, <1>20, Together

\* A client's connection is accepted, and its handshake is to be written.
LEMMA AcceptKeeps ==
  ASSUME BridgeInv, NEW c \in Clients, Accept(c)
  PROVE  BridgeInv'
<1>1. ClientType /\ ClientInv(c) /\ BridgeType /\ HostInv
  BY DEF BridgeInv
<1>2. tp[c] \in Transport /\ sdk[c] \in SdkClient /\ wire[c] \in Wire /\ conns[c] \in Conn
  BY <1>1, ClientFields DEF BridgeType
<1>3. UNCHANGED << host, mounts, active, pending, ui >> /\ tp[c].socket = "opening" /\ ~tp[c].closed
      /\ tp' = [tp EXCEPT ![c].socket = "open", ![c].want = {"init"}]
      /\ sdk' = [sdk EXCEPT ![c].stage = "handshake"]
      /\ wire' = [wire EXCEPT ![c].bridge = "open"]
      /\ conns' = [conns EXCEPT ![c].live = TRUE]
  BY DEF Accept, Connected
<1>4. PICK t \in Transport : t = [tp[c] EXCEPT !.socket = "open", !.want = {"init"}]
  BY <1>2 DEF Transport, Frames
<1>5. PICK s \in SdkClient : s = [sdk[c] EXCEPT !.stage = "handshake"]
  BY <1>2 DEF SdkClient
<1>6. PICK w \in Wire : w = [wire[c] EXCEPT !.bridge = "open"]
  BY <1>2 DEF Wire
<1>7. PICK v \in Conn : v = [conns[c] EXCEPT !.live = TRUE]
  BY <1>2 DEF Conn
<1>8. /\ tp' = [tp EXCEPT ![c] = t] /\ sdk' = [sdk EXCEPT ![c] = s]
      /\ wire' = [wire EXCEPT ![c] = w] /\ conns' = [conns EXCEPT ![c] = v]
  BY <1>1, <1>3, <1>4, <1>5, <1>6, <1>7 DEF ClientType, BridgeType
<1>9. ClientType' /\ tp'[c] = t /\ sdk'[c] = s /\ wire'[c] = w
  BY <1>1, <1>8 DEF ClientType
<1>10. conns' \in [Clients -> Conn] /\ conns'[c] = v
  BY <1>1, <1>8, ConnFacts
<1>11. t.socket = "open" /\ t.want = {"init"} /\ t.out = tp[c].out /\ t.closed = tp[c].closed
  BY <1>2, <1>4 DEF Transport
<1>12. s.stage = "handshake" /\ s.asked = sdk[c].asked /\ s.got = sdk[c].got
  BY <1>2, <1>5 DEF SdkClient
<1>13. w.bridge = "open" /\ w.up = wire[c].up /\ w.down = wire[c].down
  BY <1>2, <1>6 DEF Wire
<1>14. v.busy = conns[c].busy
  BY <1>2, <1>7 DEF Conn
<1>15. sdk[c].stage = "new" /\ wire[c].bridge = "none" /\ wire[c].up = << >> /\ wire[c].down = << >>
       /\ conns[c].busy = None /\ tp[c].out = << >> /\ Prompt(c) \notin pending /\ sdk[c].got = << >>
  BY <1>1, <1>3 DEF ClientInv, Lifecycle, QueryOnce
<1>16. \A d \in Clients : sdk'[d].got = sdk[d].got /\ sdk'[d].asked = sdk[d].asked
  BY <1>1, <1>8, <1>9, <1>12 DEF ClientType
<1>17. \A d \in Clients : Prompt(d)' = Prompt(d) /\ Progress(d)' = Progress(d)
  BY <1>3, <1>16 DEF Prompt, Progress
<1>18. ASSUME NEW d \in Clients, d # c PROVE ClientInv(d)'
  <2>1. Fixed(d)
    BY <1>1, <1>8, <1>18 DEF Fixed, ClientType, BridgeType
  <2>2. ClientInv(d)
    BY DEF BridgeInv
  <2>3. QED
    BY <1>3, <1>17, <2>1, <2>2, Untouched
<1>19. InitReplies(c)' = {} /\ TurnAt(c)' = {} /\ \A f : Begun(c, f)' = {}
  BY <1>9, <1>13, <1>15 DEF InitReplies, TurnAt, Begun
<1>20. Lifecycle(c)'
  BY <1>3, <1>9, <1>11, <1>12, <1>13 DEF Lifecycle
<1>21. Aligned(c)'
  BY <1>9, <1>11, <1>13, <1>15 DEF Aligned
<1>22. InitOnce(c)'
  BY <1>9, <1>10, <1>12, <1>14, <1>15, <1>19 DEF InitOnce
<1>23. QueryOnce(c)'
  BY <1>3, <1>9, <1>11, <1>15, <1>17, <1>19 DEF QueryOnce, Unsent
<1>24. Continues(c)'
  BY <1>9, <1>12 DEF Continues
<1>25. \A d \in Clients : ClientInv(d)'
  BY <1>18, <1>20, <1>21, <1>22, <1>23, <1>24 DEF ClientInv
<1>26. BridgeType' /\ InterruptsOwnTurn'
  BY <1>1, <1>3, <1>10 DEF BridgeType, BridgeInv, TurnsKeptApart, InterruptsOwnTurn
<1>27. HostInv'
  <2>1. \A u \in pending : u = Prompt(Owner(u))'
    BY <1>1, <1>17, NoneIsNothing DEF BridgeType, HostInv
  <2>2. QED
    BY <1>1, <1>3, <2>1 DEF HostInv
<1>28. QED
  BY <1>9, <1>16, <1>25, <1>26, <1>27, Together

----------------------------------------------------------------------------
(* The mount's life, and the UI.                                           *)

\* A step that sends nothing, and takes no query.
LEMMA QuietKeeps ==
  ASSUME BridgeInv, UNCHANGED << tp, sdk, wire, conns >>, BridgeType', InterruptsOwnTurn',
         pending' \subseteq pending,
         host' = None => pending' = {} /\ active' = None,
         host' # None => EngineOf(host') = ui'.engine,
         active' # None => active' \in pending' /\ ui'.turn[ui'.engine].prompt = active',
         \A d \in Clients : Prompt(d) \in pending' => Progress(d)' = Progress(d)
  PROVE  BridgeInv'
<1>1. \A d \in Clients : Prompt(d)' = Prompt(d) /\ Fixed(d) /\ ClientInv(d)
  BY DEF Prompt, Fixed, BridgeInv
<1>2. \A d \in Clients : ClientInv(d)'
  BY <1>1, Untouched
<1>3. ClientType'
  BY DEF BridgeInv, ClientType
<1>4. HostInv'
  <2>1. \A u \in pending : u = Prompt(Owner(u))'
    BY <1>1, NoneIsNothing DEF BridgeInv, BridgeType, HostInv
  <2>2. \A u, v \in pending' : u = v
    BY DEF BridgeInv, HostInv
  <2>3. QED
    BY <2>1, <2>2 DEF HostInv
<1>5. QED
  BY <1>2, <1>3, <1>4, Together

LEMMA QueueKeeps ==
  ASSUME BridgeInv, UNCHANGED << tp, sdk, wire, conns, host, mounts, active, pending >>,
         ui' \in Ui, ui'.engine = ui.engine, ui'.turn = ui.turn
  PROVE  BridgeInv'
<1>1. BridgeType' /\ InterruptsOwnTurn'
  BY DEF BridgeInv, BridgeType, TurnsKeptApart, InterruptsOwnTurn
<1>2. \A d \in Clients : Progress(d)' = Progress(d)
  BY DEF Progress, Prompt
<1>3. QED
  BY <1>1, <1>2, QuietKeeps DEF BridgeInv, HostInv

LEMMA MountKeeps ==
  ASSUME BridgeInv, Attach \/ Listen \/ ServerClosed
  PROVE  BridgeInv'
<1>1. BridgeType /\ HostInv /\ ui \in Ui
  BY DEF BridgeInv, BridgeType
<1>2. CASE Attach
  <2>1. /\ host = None /\ mounts < MaxMounts /\ mounts' = mounts + 1 /\ pending = {} /\ active = None
        /\ UNCHANGED << tvars, active, pending, conns >>
    BY <1>1, <1>2 DEF Attach, HostInv
  <2>2. PICK e \in {ui.engine, mounts'} : host' = << mounts', e >> /\ ui' = [ui EXCEPT !.engine = e]
    BY <1>2 DEF Attach
  <2>3. e \in Engines /\ mounts' \in Nat
    <3>1. ui.engine \in Engines /\ mounts \in Nat /\ MaxMounts \in Nat
      BY <1>1, BridgeAssumption DEF BridgeType, Ui
    <3>2. mounts + 1 \in 1..MaxMounts
      BY <2>1, <3>1
    <3>3. QED
      BY <2>1, <2>2, <3>1, <3>2 DEF Engines
  <2>4. host' \in Mount /\ EngineOf(host') = e
    BY <2>2, <2>3 DEF Mount, EngineOf
  <2>5. ui' \in Ui /\ ui'.engine = e /\ ui'.turn = ui.turn
    BY <1>1, <2>2, <2>3 DEF Ui
  <2>6. BridgeType' /\ InterruptsOwnTurn'
    BY <1>1, <2>1, <2>3, <2>4, <2>5 DEF BridgeType, BridgeInv, TurnsKeptApart, InterruptsOwnTurn
  <2>7. UNCHANGED << tp, sdk, wire, conns >>
    BY <2>1 DEF tvars
  <2>8. host' # None
    BY <2>4, NoneIsNothing
  <2>9. QED
    BY <2>1, <2>4, <2>5, <2>6, <2>7, <2>8, QuietKeeps
<1>3. CASE Listen \/ ServerClosed
  <2>1. UNCHANGED << tp, sdk, wire, conns, host, mounts, active, pending, ui >>
    BY <1>3 DEF Listen, ServerClosed, tvars
  <2>2. QED
    BY <1>1, <2>1, QueueKeeps
<1>4. QED
  BY <1>2, <1>3

LEMMA TypeKeeps ==
  ASSUME BridgeInv, Type \/ Remove
  PROVE  BridgeInv'
<1>1. ui \in Ui /\ UNCHANGED << tp, sdk, wire, conns, host, mounts, active, pending >>
  BY DEF BridgeInv, BridgeType, Type, Remove, Calls
<1>2. PICK q \in SUBSET Prompts, n \in Nat : ui' = [ui EXCEPT !.typed = n, !.queue = q]
  <2>1. ui.typed \in Nat /\ ui.queue \subseteq Prompts
    BY <1>1 DEF Ui
  <2>2. CASE Type
    <3>1. ui' = [ui EXCEPT !.typed = @ + 1, !.queue = @ \cup {<< "human", ui.typed + 1 >>}]
      BY <2>2 DEF Type
    <3>2. ui.queue \cup {<< "human", ui.typed + 1 >>} \subseteq Prompts /\ ui.typed + 1 \in Nat
      BY <2>1 DEF Prompts
    <3>3. QED
      BY <3>1, <3>2
  <2>3. CASE Remove
    <3>1. PICK p \in ui.queue : ui' = [ui EXCEPT !.queue = @ \ {p}]
      BY <2>3 DEF Remove
    <3>2. ui' = [ui EXCEPT !.typed = ui.typed, !.queue = ui.queue \ {p}]
      BY <1>1, <3>1 DEF Ui
    <3>3. ui.queue \ {p} \in SUBSET Prompts
      BY <2>1
    <3>4. QED
      BY <2>1, <3>2, <3>3
  <2>4. QED
    BY <2>2, <2>3
<1>3. ui' \in Ui /\ ui'.engine = ui.engine /\ ui'.turn = ui.turn
  BY <1>1, <1>2 DEF Ui
<1>4. QED
  BY <1>1, <1>3, QueueKeeps

LEMMA IdleFacts ==
  Idle \in UiTurn /\ Idle.prompt = None /\ Idle.sent = 0 /\ Idle.stopper = None
<1>1. Idle.prompt = None /\ Idle.sent = 0 /\ Idle.stopper = None
  BY DEF Idle
<1>2. None \in Prompts \cup {None} /\ None \in Clients \cup {None} /\ 0 \in Nat
      /\ "none" \in {"none", "reserved", "running", "ended"}
  OBVIOUS
<1>3. Idle \in UiTurn
  BY <1>2, Zenon DEF Idle, UiTurn
<1>4. QED
  BY <1>1, <1>3

LEMMA StartTurnKeeps ==
  ASSUME BridgeInv, StartTurn
  PROVE  BridgeInv'
<1>1. BridgeType /\ HostInv /\ ui \in Ui /\ ui.engine \in Engines /\ ui.queue \subseteq Prompts
      /\ ui.turn \in [Engines -> UiTurn]
  BY DEF BridgeInv, BridgeType, Ui
<1>2. UNCHANGED << tp, sdk, wire, conns, host, mounts, active, pending >> /\ ui.turn[ui.engine] = Idle
  BY DEF StartTurn, Calls, IsBusy, Turn
<1>3. PICK p \in ui.queue :
        ui' = [ui EXCEPT !.queue = @ \ {p},
                         !.turn[ui.engine] = [Idle EXCEPT !.prompt = p, !.phase = "reserved"]]
  BY DEF StartTurn
<1>4. PICK t \in UiTurn : /\ t = [Idle EXCEPT !.prompt = p, !.phase = "reserved"]
                          /\ t.prompt = p /\ t.sent = 0 /\ t.stopper = None
  <2>1. p \in Prompts
    BY <1>1
  <2>2. PICK i \in UiTurn : i = Idle /\ i.sent = 0 /\ i.stopper = None
    BY IdleFacts
  <2>3. PICK t \in UiTurn : t = [i EXCEPT !.prompt = p, !.phase = "reserved"]
    BY <2>1 DEF UiTurn
  <2>4. t.prompt = p /\ t.sent = i.sent /\ t.stopper = i.stopper
    BY <2>3 DEF UiTurn
  <2>5. QED
    BY <2>2, <2>3, <2>4
<1>5. PICK u \in Ui : u = [ui EXCEPT !.queue = @ \ {p}]
  BY <1>1 DEF Ui
<1>6. u.engine = ui.engine /\ u.turn = ui.turn
  BY <1>1, <1>5 DEF Ui
<1>7. ui' = [u EXCEPT !.turn[ui.engine] = t]
  BY <1>3, <1>4, <1>5
<1>8. /\ ui' \in Ui /\ ui'.engine = ui.engine /\ ui'.turn[ui.engine] = t
      /\ \A g \in Engines : g # ui.engine => ui'.turn[g] = ui.turn[g]
  BY <1>1, <1>6, <1>7, TurnFacts
<1>9. Idle.prompt = None
  BY DEF Idle
<1>10. active = None
  BY <1>1, <1>2, <1>9 DEF HostInv
<1>11. InterruptsOwnTurn'
  BY <1>4, <1>8 DEF BridgeInv, TurnsKeptApart, InterruptsOwnTurn
<1>12. \A d \in Clients : Progress(d)' = 0 /\ Progress(d) = 0
  <2>1. TAKE d \in Clients
  <2>2. Prompt(d) # None
    BY ClientFields, NoneIsNothing DEF BridgeInv
  <2>3. QED
    BY <1>2, <1>4, <1>8, <1>9, <2>2 DEF Progress
<1>13. BridgeType'
  BY <1>1, <1>2, <1>8 DEF BridgeType
<1>14. QED
  BY <1>1, <1>2, <1>8, <1>10, <1>11, <1>12, <1>13, QuietKeeps DEF HostInv

\* The UI is unmounted, or the monitor finds queries lost: connections break.
LEMMA BreakKeeps ==
  ASSUME BridgeInv, UNCHANGED << tp, sdk, conns, ui, mounts >>, wire' \in [Clients -> Wire],
         pending' \subseteq pending, host' \in {host, None},
         host' = None => pending' = {} /\ active' = None,
         active' # None => active' = active /\ active' \in pending',
         \A d \in Clients : wire'[d] = wire[d] \/ Broken(d)
  PROVE  BridgeInv'
<1>1. ClientType /\ ClientType' /\ BridgeType /\ HostInv
  BY DEF BridgeInv, ClientType
<1>2. BridgeType'
  BY <1>1 DEF BridgeType
<1>3. \A d \in Clients : Prompt(d)' = Prompt(d) /\ Progress(d)' = Progress(d)
  BY DEF Prompt, Progress
<1>4. ASSUME NEW d \in Clients PROVE ClientInv(d)'
  <2>1. ClientInv(d)
    BY DEF BridgeInv
  <2>2. CASE wire'[d] = wire[d]
    BY <1>3, <2>1, <2>2, Untouched DEF Fixed
  <2>3. CASE Broken(d)
    BY <1>1, <1>3, <2>1, <2>3, BrokenKeeps
  <2>4. QED
    BY <2>2, <2>3
<1>5. HostInv'
  <2>1. \A u \in pending : u = Prompt(Owner(u))'
    BY <1>1, <1>3, NoneIsNothing DEF BridgeType, HostInv
  <2>2. \A u, v \in pending' : u = v
    BY <1>1 DEF HostInv
  <2>3. QED
    BY <1>1, <2>1, <2>2 DEF HostInv
<1>6. InterruptsOwnTurn'
  BY DEF BridgeInv, TurnsKeptApart, InterruptsOwnTurn
<1>7. QED
  BY <1>1, <1>2, <1>4, <1>5, <1>6, Together

\* fail() breaks a connection.
LEMMA FailedBreaks ==
  ASSUME ClientType, NEW c \in Clients, wire'[c] = Failed(wire[c]), conns' = conns
  PROVE  Failed(wire[c]) \in Wire /\ Broken(c)
<1>1. wire[c] \in Wire
  BY ClientFields
<1>2. /\ Failed(wire[c]) \in Wire /\ Failed(wire[c]).bridge # "open"
      /\ Failed(wire[c]).down \in {wire[c].down, Append(wire[c].down, BridgeError)}
      /\ wire[c].bridge = "none" => Failed(wire[c]) = wire[c]
      /\ Failed(wire[c]).bridge = "none" => wire[c].bridge = "none"
  BY <1>1, FailedFacts
<1>3. Failed(wire[c]).bridge \in {"none", "open", "ended", "destroyed"}
  BY <1>2 DEF Wire
<1>4. QED
  BY <1>2, <1>3 DEF Broken

LEMMA StopKeeps ==
  ASSUME BridgeInv, Stop
  PROVE  BridgeInv'
<1>1. ClientType /\ BridgeType /\ HostInv
  BY DEF BridgeInv
<1>2. UNCHANGED << tp, sdk, conns, ui, mounts >> /\ host' = None /\ active' = None /\ pending' = {}
  BY DEF Stop
<1>3. PICK lost \in BOOLEAN :
        wire' = [d \in Clients |-> IF conns[d].live THEN Cut(wire[d], lost) ELSE wire[d]]
  BY DEF Stop
<1>4. ASSUME NEW d \in Clients, conns[d].live
      PROVE  Cut(wire[d], lost) \in Wire /\ Broken(d)
  <2>1. wire[d] \in Wire /\ wire[d].down \in Seq(Message) /\ << >> \in Seq(Message)
    BY <1>1, ClientFields
  <2>2. PICK x \in {wire[d].down, << >>} : x = IF lost THEN << >> ELSE wire[d].down
    OBVIOUS
  <2>3. PICK w \in Wire : w = [wire[d] EXCEPT !.bridge = "destroyed", !.down = x]
    BY <2>1 DEF Wire
  <2>4. Destroyed(wire[d]) = [wire[d] EXCEPT !.bridge = "destroyed"] /\ Destroyed(wire[d]).down = wire[d].down
    BY <2>1 DEF Destroyed, Wire
  <2>5. Cut(wire[d], lost) = w
    BY <2>1, <2>2, <2>3, <2>4 DEF Cut, Wire
  <2>6. w.bridge = "destroyed" /\ w.down = x
    BY <2>1, <2>3 DEF Wire
  <2>7. wire[d].bridge # "none"
    BY <1>4 DEF BridgeInv, ClientInv, Lifecycle
  <2>8. wire'[d] = w
    BY <1>3, <1>4, <2>5
  <2>9. QED
    BY <1>2, <2>2, <2>5, <2>6, <2>7, <2>8 DEF Broken
<1>5. wire' \in [Clients -> Wire] /\ \A d \in Clients : wire'[d] = wire[d] \/ Broken(d)
  <2>1. \A d \in Clients : wire[d] \in Wire
    BY <1>1 DEF ClientType
  <2>2. QED
    BY <1>3, <1>4, <2>1
<1>6. QED
  BY <1>2, <1>5, BreakKeeps

LEMMA MonitorKeeps ==
  ASSUME BridgeInv, Monitor
  PROVE  BridgeInv'
<1>1. ClientType /\ BridgeType /\ HostInv
  BY DEF BridgeInv
<1>2. /\ UNCHANGED << tp, sdk, conns, ui, mounts, host >> /\ pending' = pending \ Lost /\ host # None
      /\ active' = IF active \in Lost THEN None ELSE active
      /\ wire' = [d \in Clients |-> IF \E u \in Lost : Owner(u) = d THEN Failed(wire[d]) ELSE wire[d]]
  BY DEF Monitor
<1>3. ASSUME NEW d \in Clients, wire'[d] = Failed(wire[d]) PROVE wire'[d] \in Wire /\ Broken(d)
  BY <1>1, <1>2, <1>3, FailedBreaks
<1>4. wire' \in [Clients -> Wire] /\ \A d \in Clients : wire'[d] = wire[d] \/ Broken(d)
  <2>1. \A d \in Clients : wire[d] \in Wire
    BY <1>1 DEF ClientType
  <2>2. \A d \in Clients : wire'[d] = wire[d] \/ wire'[d] = Failed(wire[d])
    BY <1>2
  <2>3. \A d \in Clients : wire'[d] \in Wire /\ (wire'[d] = wire[d] \/ Broken(d))
    BY <1>3, <2>1, <2>2
  <2>4. DOMAIN wire' = Clients /\ wire' = [d \in Clients |-> wire'[d]]
    BY <1>2
  <2>5. QED
    BY <2>3, <2>4
<1>5. active' # None => active' = active /\ active' \in pending'
  BY <1>1, <1>2 DEF HostInv
<1>6. QED
  BY <1>2, <1>4, <1>5, BreakKeeps

\* One turn's phase, or how much it has sent, changes.
LEMMA BeginKeeps ==
  ASSUME BridgeInv, NEW e \in Engines, Begin(e)
  PROVE  BridgeInv'
<1>1. BridgeType /\ HostInv /\ ui \in Ui /\ ui.turn \in [Engines -> UiTurn] /\ ui.engine \in Engines
  BY DEF BridgeInv, BridgeType, Ui
<1>2. UNCHANGED << tp, sdk, wire, conns, host, mounts, pending >>
      /\ ui' = [ui EXCEPT !.turn[e].phase = "running"]
      /\ active' = IF ~Hosting(e) THEN active
                   ELSE IF ui.turn[e].prompt \in pending THEN ui.turn[e].prompt ELSE None
  BY DEF Begin, Calls
<1>3. PICK t \in UiTurn : t = [ui.turn[e] EXCEPT !.phase = "running"]
  BY <1>1 DEF UiTurn
<1>4. t.prompt = ui.turn[e].prompt /\ t.sent = ui.turn[e].sent /\ t.stopper = ui.turn[e].stopper
  BY <1>1, <1>3 DEF UiTurn
<1>5. ui' = [ui EXCEPT !.turn[e] = t]
  BY <1>2, <1>3
<1>6. /\ ui' \in Ui /\ ui'.engine = ui.engine /\ ui'.turn[e] = t
      /\ \A g \in Engines : g # e => ui'.turn[g] = ui.turn[g]
  BY <1>1, <1>5, TurnFacts
<1>7. \A g \in Engines : /\ ui'.turn[g].prompt = ui.turn[g].prompt /\ ui'.turn[g].sent = ui.turn[g].sent
                         /\ ui'.turn[g].stopper = ui.turn[g].stopper
  BY <1>4, <1>6
<1>8. InterruptsOwnTurn'
  BY <1>7 DEF BridgeInv, TurnsKeptApart, InterruptsOwnTurn
<1>9. \A d \in Clients : Progress(d)' = Progress(d)
  BY <1>1, <1>2, <1>6, <1>7 DEF Progress, Prompt
<1>10. active' # None => active' \in pending /\ ui.turn[ui.engine].prompt = active'
  <2>1. Hosting(e) => e = ui.engine
    BY <1>1 DEF Hosting, HostInv
  <2>2. QED
    BY <1>1, <1>2, <2>1 DEF HostInv
<1>11. active' \in Prompts \cup {None}
  BY <1>1, <1>2, NoneIsNothing DEF BridgeType
<1>12. BridgeType'
  BY <1>1, <1>2, <1>6, <1>11 DEF BridgeType
<1>13. host = None => active' = None
  BY <1>1, <1>2 DEF Hosting, HostInv
<1>14. QED
  BY <1>1, <1>2, <1>6, <1>7, <1>8, <1>9, <1>10, <1>12, <1>13, QuietKeeps DEF HostInv

\* Who gets the frames of a turn.
LEMMA ReceiverFacts ==
  ASSUME BridgeInv, NEW e \in Engines
  PROVE  /\ Receivers(e) # {} => e = ui.engine /\ ui.turn[e].prompt \in pending
         /\ \A c \in Receivers(e) : c \in Clients /\ ui.turn[e].prompt = Prompt(c) /\ Receivers(e) = {c}
         /\ \A d \in Clients : Prompt(d) \in pending /\ d \notin Receivers(e) =>
               e # ui.engine \/ ui.turn[e].prompt # Prompt(d)
         /\ \A c \in Receivers(e), d \in Clients : Prompt(d) \in pending => d = c
<1>1. BridgeType /\ HostInv
  BY DEF BridgeInv
<1>2. Receivers(e) # {} => Hosting(e) /\ ui.turn[e].prompt \in pending /\ Receivers(e) = {Owner(ui.turn[e].prompt)}
  BY DEF Receivers
<1>3. Hosting(e) => e = ui.engine
  BY <1>1 DEF Hosting, HostInv
<1>4. \A u \in pending : u = Prompt(Owner(u)) /\ Owner(u) \in Clients
  BY <1>1, NoneIsNothing DEF BridgeType, HostInv
<1>5. \A d \in Clients : Owner(Prompt(d)) = d
  BY DEF Owner, Prompt
<1>6. \A d \in Clients : Prompt(d) \in pending /\ d \notin Receivers(e) =>
               e # ui.engine \/ ui.turn[e].prompt # Prompt(d)
  <2>1. SUFFICES ASSUME NEW d \in Clients, Prompt(d) \in pending, d \notin Receivers(e), e = ui.engine,
                        ui.turn[e].prompt = Prompt(d)
                 PROVE  FALSE
    OBVIOUS
  <2>2. Hosting(e)
    BY <1>1, <2>1 DEF HostInv, Hosting
  <2>3. Receivers(e) = {Owner(Prompt(d))}
    BY <2>1, <2>2 DEF Receivers
  <2>4. QED
    BY <1>5, <2>1, <2>3
<1>7. \A c \in Receivers(e), d \in Clients : Prompt(d) \in pending => d = c
  BY <1>1, <1>2, <1>5 DEF HostInv
<1>8. QED
  BY <1>2, <1>3, <1>4, <1>6, <1>7

\* A frame of its turn is sent to a client.
LEMMA SentTurnKeeps ==
  ASSUME BridgeInv, ClientType', UNCHANGED << tp, sdk, conns >>, NEW c \in Clients, NEW last \in BOOLEAN,
         Prompt(c) \in pending,
         wire'[c] = Sent(wire[c], TurnFrame(Prompt(c), Progress(c) + 1, last)),
         IF last THEN Prompt(c) \notin pending' ELSE Prompt(c) \in pending' /\ Progress(c)' = Progress(c) + 1
  PROVE  ClientInv(c)'
<1>1. ClientType /\ BridgeType /\ ClientInv(c)
  BY DEF BridgeInv
<1>2. Progress(c) \in Nat /\ Prompt(c) \in Prompts /\ wire[c] \in Wire
  <2>1. ui.turn[ui.engine] \in UiTurn
    BY <1>1 DEF BridgeType, Ui
  <2>2. ui.turn[ui.engine].sent \in Nat
    BY <2>1 DEF UiTurn
  <2>3. QED
    BY <1>1, <2>2, ClientFields, NoneIsNothing DEF Progress
<1>3. PICK m \in Message : /\ m = TurnFrame(Prompt(c), Progress(c) + 1, last)
                           /\ m.kind = "turn" /\ m.of = Prompt(c) /\ m.index = Progress(c) + 1 /\ m.last = last
  BY <1>2 DEF TurnFrame, Message, TurnPart
<1>4. PICK w \in Wire : w = Sent(wire[c], m)
  BY <1>2, SentFacts
<1>5. /\ w.up = wire[c].up /\ w.bridge \in {wire[c].bridge, "destroyed"}
      /\ w.bridge = "open" => wire[c].bridge = "open" /\ w.down = Append(wire[c].down, m)
      /\ w.bridge # "open" => w.down = wire[c].down
      /\ wire[c].bridge = "none" => w = wire[c]
      /\ w.bridge = "none" => wire[c].bridge = "none"
  BY <1>2, <1>4, SentFacts
<1>6. wire'[c] = w /\ Prompt(c)' = Prompt(c)
  BY <1>3, <1>4 DEF Prompt
<1>7. ~Unsent(c) /\ sdk[c].stage \notin {"new", "handshake", "ready"}
  BY <1>1 DEF ClientInv, QueryOnce
<1>8. CASE w.bridge # "open"
  <2>1. w.bridge \in {"none", "open", "ended", "destroyed"}
    BY <1>4 DEF Wire
  <2>2. Broken(c)
    BY <1>5, <1>6, <1>8, <2>1 DEF Broken
  <2>3. QED
    BY <1>1, <1>6, <2>2, BrokenKeeps
<1>9. CASE w.bridge = "open"
  <2> DEFINE n == Len(wire[c].down) + 1
             down == wire'[c].down
  <2>1. wire[c].bridge = "open" /\ down = Append(wire[c].down, m)
    BY <1>5, <1>6, <1>9
  <2>2. /\ Len(wire[c].down) \in Nat /\ down[n] = m
        /\ \A j \in 1..Len(wire[c].down) : down[j] = wire[c].down[j]
        /\ InitReplies(c)' = InitReplies(c) \cup {} /\ TurnAt(c)' = TurnAt(c) \cup {n}
    BY <1>1, <1>3, <2>1, DownAppended
  <2>3. \A j \in TurnAt(c) : j \in Nat /\ j < n /\ down[j] = wire[c].down[j]
    BY <2>2 DEF TurnAt
  <2> HIDE DEF n, down
  <2>4. (\A f : Begun(c, f)' = Begun(c, f)) /\ Unsent(c)' = Unsent(c)
    BY <1>5, <1>6, <1>9, <2>1 DEF Begun, Unsent
  <2>5. Lifecycle(c)'
    BY <1>1, <1>5, <1>6, <1>9, <2>1 DEF ClientInv, Lifecycle
  <2>6. Aligned(c)'
    BY <1>1, <1>5, <1>6, <2>1 DEF ClientInv, Aligned
  <2>7. InitOnce(c)'
    <3>1. InitReplies(c)' = InitReplies(c)
      BY <2>2
    <3>2. QED
      BY <1>1, <2>4, <3>1 DEF ClientInv, InitOnce
  <2>8. QueryOnce(c)'
    BY <1>1, <1>7, <2>4 DEF ClientInv, QueryOnce
  <2>9. Continues(c)'
    <3>1. SUFFICES ASSUME sdk[c].stage = "asking" PROVE Continues(c)'
      BY DEF Continues
    <3>2. /\ \A j \in TurnAt(c) : wire[c].down[j].of = Prompt(c)
          /\ \A j \in TurnAt(c) : (\A i \in TurnAt(c) : j <= i) => wire[c].down[j].index = Len(sdk[c].got) + 1
          /\ \A j, k \in TurnAt(c) : j < k /\ (\A i \in TurnAt(c) : i <= j \/ k <= i) =>
                wire[c].down[k].index = wire[c].down[j].index + 1
          /\ \A j \in TurnAt(c) : ~wire[c].down[j].last
          /\ TurnAt(c) = {} => Len(sdk[c].got) = Progress(c)
          /\ \A j \in TurnAt(c) : (\A i \in TurnAt(c) : i <= j) => wire[c].down[j].index = Progress(c)
      BY <1>1, <2>1, <3>1 DEF ClientInv, Continues
    <3>3. n \in Nat
      BY <2>2 DEF n
    <3>4. \A j \in TurnAt(c)' : down[j].of = Prompt(c)
      BY <1>3, <2>2, <2>3, <3>2
    <3>5. ASSUME NEW j \in TurnAt(c)', \A i \in TurnAt(c)' : j <= i
          PROVE  down[j].index = Len(sdk[c].got) + 1
      <4>1. CASE j \in TurnAt(c)
        BY <2>2, <2>3, <3>2, <3>5, <4>1
      <4>2. CASE j = n
        <5>1. TurnAt(c) = {}
          BY <2>2, <2>3, <3>3, <3>5, <4>2
        <5>2. QED
          BY <1>3, <2>2, <3>2, <4>2, <5>1
      <4>3. QED
        BY <2>2, <4>1, <4>2
    <3>6. ASSUME NEW j \in TurnAt(c)', NEW k \in TurnAt(c)', j < k, \A i \in TurnAt(c)' : i <= j \/ k <= i
          PROVE  down[k].index = down[j].index + 1
      <4>1. j \in TurnAt(c)
        <5>1. j # n
          <6>1. k = n \/ k < n
            BY <2>2, <2>3
          <6>2. k \in Nat
            BY <2>2, <2>3, <3>3
          <6>3. QED
            BY <3>3, <3>6, <6>1, <6>2
        <5>2. QED
          BY <2>2, <5>1
      <4>2. CASE k \in TurnAt(c)
        <5>1. \A i \in TurnAt(c) : i <= j \/ k <= i
          BY <2>2, <3>6
        <5>2. QED
          BY <2>3, <3>2, <3>6, <4>1, <4>2, <5>1
      <4>3. CASE k = n
        <5>1. \A i \in TurnAt(c) : i <= j
          <6>1. TAKE i \in TurnAt(c)
          <6>2. i \in Nat /\ i < n /\ (i <= j \/ n <= i)
            BY <2>2, <2>3, <3>6, <4>3
          <6>3. QED
            BY <3>3, <6>2
        <5>2. down[j].index = Progress(c)
          BY <2>3, <3>2, <4>1, <5>1
        <5>3. QED
          BY <1>3, <2>2, <4>3, <5>2
      <4>4. QED
        BY <2>2, <4>2, <4>3
    <3>7. ASSUME NEW j \in TurnAt(c)', down[j].last
          PROVE  Prompt(c) \notin pending' /\ \A i \in TurnAt(c)' : i <= j
      <4>1. j = n
        BY <2>2, <2>3, <3>2, <3>7
      <4>2. last
        BY <1>3, <2>2, <3>7, <4>1
      <4>3. \A i \in TurnAt(c)' : i <= j
        BY <2>2, <2>3, <3>3, <4>1
      <4>4. QED
        BY <4>2, <4>3
    <3>8. ASSUME Prompt(c) \in pending', NEW j \in TurnAt(c)', \A i \in TurnAt(c)' : i <= j
          PROVE  down[j].index = Progress(c)'
      <4>1. j = n
        <5>1. n <= j
          BY <2>2, <3>8
        <5>2. j = n \/ (j \in Nat /\ j < n)
          BY <2>2, <2>3
        <5>3. QED
          BY <3>3, <5>1, <5>2
      <4>2. QED
        BY <1>3, <2>2, <3>8, <4>1
    <3>9. TurnAt(c)' # {}
      BY <2>2
    <3>10. QED
      BY <1>6, <3>4, <3>5, <3>6, <3>7, <3>8, <3>9 DEF Continues, down
  <2>10. QED
    BY <2>5, <2>6, <2>7, <2>8, <2>9 DEF ClientInv
<1>10. QED
  BY <1>8, <1>9

\* What a turn sends goes to its client.
LEMMA EmitKeeps ==
  ASSUME BridgeInv, NEW e \in Engines, NEW last \in BOOLEAN, NEW t \in UiTurn,
         UNCHANGED << tp, sdk, conns, host, mounts >>,
         ui' = [ui EXCEPT !.turn[e] = t],
         t.prompt = ui.turn[e].prompt, t.stopper = ui.turn[e].stopper,
         last => t.sent = ui.turn[e].sent, ~last => t.sent = ui.turn[e].sent + 1,
         Emit(e, TurnFrame(ui.turn[e].prompt, ui.turn[e].sent + 1, last)),
         pending' = IF last /\ Receivers(e) # {} THEN pending \ {ui.turn[e].prompt} ELSE pending,
         active' = IF Receivers(e) = {} THEN active ELSE IF last THEN None ELSE ui.turn[e].prompt
  PROVE  BridgeInv'
<1>1. ClientType /\ BridgeType /\ HostInv /\ ui \in Ui /\ ui.engine \in Engines /\ ui.turn \in [Engines -> UiTurn]
  BY DEF BridgeInv, BridgeType, Ui
<1>2. ui.turn[e].prompt \in Prompts \cup {None} /\ ui.turn[e].sent \in Nat
  BY <1>1 DEF UiTurn
<1>3. /\ ui' \in Ui /\ ui'.engine = ui.engine /\ ui'.turn[e] = t
      /\ \A g \in Engines : g # e => ui'.turn[g] = ui.turn[g]
  BY <1>1, TurnFacts
<1>4. /\ Receivers(e) # {} => e = ui.engine /\ ui.turn[e].prompt \in pending
      /\ \A c \in Receivers(e) : c \in Clients /\ ui.turn[e].prompt = Prompt(c) /\ Receivers(e) = {c}
      /\ \A d \in Clients : Prompt(d) \in pending /\ d \notin Receivers(e) =>
               e # ui.engine \/ ui.turn[e].prompt # Prompt(d)
  BY ReceiverFacts
<1>5. \A d \in Clients : Prompt(d)' = Prompt(d)
  BY DEF Prompt
<1> DEFINE m == TurnFrame(ui.turn[e].prompt, ui.turn[e].sent + 1, last)
<1>6. wire' = [d \in Clients |-> IF d \in Receivers(e) THEN Sent(wire[d], m) ELSE wire[d]]
  BY DEF Emit
<1>7. ASSUME NEW d \in Clients PROVE wire'[d] \in Wire
  <2>1. wire[d] \in Wire
    BY <1>1 DEF ClientType
  <2>2. CASE d \in Receivers(e)
    <3>1. ui.turn[e].prompt \in Prompts
      BY <1>1, <1>4, <2>2, NoneIsNothing DEF BridgeType
    <3>2. m \in Message
      BY <1>2, <3>1 DEF TurnFrame, Message, TurnPart
    <3>3. Sent(wire[d], m) \in Wire
      BY <2>1, <3>2, SentFacts
    <3>4. wire'[d] = Sent(wire[d], m)
      BY <1>6, <2>2
    <3>5. QED
      BY <3>3, <3>4
  <2>3. CASE d \notin Receivers(e)
    BY <1>6, <2>1, <2>3
  <2>4. QED
    BY <2>2, <2>3
<1>8. ClientType'
  <2>1. wire' \in [Clients -> Wire]
    <3>1. wire' = [d \in Clients |-> wire'[d]]
      BY <1>6
    <3>2. QED
      BY <1>7, <3>1
  <2>2. QED
    BY <1>1, <2>1 DEF ClientType
<1>9. active' \in Prompts \cup {None} /\ pending' \subseteq pending
  BY <1>1, <1>2 DEF BridgeType
<1>10. BridgeType'
  BY <1>1, <1>3, <1>9 DEF BridgeType
<1>11. \A g \in Engines : ui'.turn[g].prompt = ui.turn[g].prompt /\ ui'.turn[g].stopper = ui.turn[g].stopper
  BY <1>3
<1>12. InterruptsOwnTurn'
  BY <1>11 DEF BridgeInv, TurnsKeptApart, InterruptsOwnTurn
<1>13. HostInv'
  <2>1. \A u \in pending' : u = Prompt(Owner(u))'
    BY <1>1, <1>5, <1>9, NoneIsNothing DEF BridgeType, HostInv
  <2>2. \A u, v \in pending' : u = v
    BY <1>1, <1>9 DEF HostInv
  <2>3. host = None => pending' = {} /\ active' = None
    <3>1. host = None => Receivers(e) = {}
      BY DEF Receivers, Hosting
    <3>2. QED
      BY <1>1, <3>1 DEF HostInv
  <2>4. active' # None => active' \in pending' /\ ui'.turn[ui'.engine].prompt = active'
    <3>1. CASE Receivers(e) = {}
      BY <1>1, <1>3, <1>11, <3>1 DEF HostInv
    <3>2. CASE Receivers(e) # {}
      BY <1>1, <1>3, <1>4, <1>11, <3>2
    <3>3. QED
      BY <3>1, <3>2
  <2>5. QED
    BY <1>1, <1>3, <2>1, <2>2, <2>3, <2>4 DEF HostInv
<1>14. ASSUME NEW d \in Clients PROVE ClientInv(d)'
  <2>1. CASE d \notin Receivers(e)
    <3>1. wire'[d] = wire[d]
      BY <1>6, <2>1
    <3>2. Prompt(d) \in pending => Progress(d)' = Progress(d)
      BY <1>1, <1>3, <1>4, <1>5, <2>1 DEF Progress
    <3>3. ClientInv(d) /\ Fixed(d)
      BY <3>1 DEF BridgeInv, Fixed
    <3>4. QED
      BY <1>9, <3>2, <3>3, Untouched
  <2>2. CASE d \in Receivers(e)
    <3>1. e = ui.engine /\ ui.turn[e].prompt = Prompt(d) /\ Prompt(d) \in pending /\ Receivers(e) # {}
      BY <1>4, <2>2
    <3>2. Progress(d) = ui.turn[e].sent /\ Progress(d)' = t.sent
      BY <1>3, <1>5, <3>1 DEF Progress
    <3>3. wire'[d] = Sent(wire[d], TurnFrame(Prompt(d), Progress(d) + 1, last))
      BY <1>6, <2>2, <3>1, <3>2
    <3>4. IF last THEN Prompt(d) \notin pending' ELSE Prompt(d) \in pending' /\ Progress(d)' = Progress(d) + 1
      BY <3>1, <3>2
    <3>5. QED
      BY <1>8, <3>1, <3>3, <3>4, SentTurnKeeps
  <2>3. QED
    BY <2>1, <2>2
<1>15. QED
  BY <1>8, <1>10, <1>12, <1>13, <1>14, Together

LEMMA FrameKeeps ==
  ASSUME BridgeInv, NEW e \in Engines, Frame(e) \/ Result(e)
  PROVE  BridgeInv'
<1>1. ui \in Ui /\ ui.turn[e] \in UiTurn
  BY DEF BridgeInv, BridgeType, Ui
<1>2. UNCHANGED << tp, sdk, conns, host, mounts >>
  BY DEF Frame, Result, Calls
<1>3. CASE Frame(e)
  <2>1. ui.turn[e].sent + 1 \in Nat
    BY <1>1 DEF UiTurn
  <2>2. PICK t \in UiTurn : t = [ui.turn[e] EXCEPT !.sent = @ + 1]
    BY <1>1, <2>1 DEF UiTurn
  <2>3. t.prompt = ui.turn[e].prompt /\ t.stopper = ui.turn[e].stopper /\ t.sent = ui.turn[e].sent + 1
    BY <1>1, <2>2 DEF UiTurn
  <2>4. ui' = [ui EXCEPT !.turn[e] = t]
    BY <1>3, <2>2 DEF Frame
  <2>5. ui'.turn[e].sent = ui.turn[e].sent + 1
    BY <1>1, <2>3, <2>4, TurnFacts
  <2>6. Emit(e, TurnFrame(ui.turn[e].prompt, ui.turn[e].sent + 1, FALSE))
    BY <1>3, <2>5 DEF Frame
  <2>7. pending' = pending /\ active' = IF Receivers(e) = {} THEN active ELSE ui.turn[e].prompt
    BY <1>3 DEF Frame
  <2>8. QED
    BY <1>2, <2>3, <2>4, <2>6, <2>7, EmitKeeps
<1>4. CASE Result(e)
  <2>1. PICK t \in UiTurn : t = [ui.turn[e] EXCEPT !.phase = "ended"]
    BY <1>1 DEF UiTurn
  <2>2. t.prompt = ui.turn[e].prompt /\ t.stopper = ui.turn[e].stopper /\ t.sent = ui.turn[e].sent
    BY <1>1, <2>1 DEF UiTurn
  <2>3. ui' = [ui EXCEPT !.turn[e] = t]
    BY <1>4, <2>1 DEF Result
  <2>4. /\ Emit(e, TurnFrame(ui.turn[e].prompt, ui.turn[e].sent + 1, TRUE))
        /\ active' = IF Receivers(e) = {} THEN active ELSE None
        /\ pending' = IF Receivers(e) = {} THEN pending ELSE pending \ {ui.turn[e].prompt}
    BY <1>4 DEF Result
  <2>5. QED
    BY <1>2, <2>2, <2>3, <2>4, EmitKeeps
<1>5. QED
  BY <1>3, <1>4

\* The event loop is left.
LEMMA FinishKeeps ==
  ASSUME BridgeInv, NEW e \in Engines, Finish(e)
  PROVE  BridgeInv'
<1>1. ClientType /\ BridgeType /\ HostInv /\ ui \in Ui /\ ui.engine \in Engines
  BY DEF BridgeInv, BridgeType, Ui
<1>2. /\ UNCHANGED << tp, sdk, conns, host, mounts >> /\ ui' = [ui EXCEPT !.turn[e] = Idle]
      /\ wire' = FinishedWire(e)
      /\ pending' = IF Receivers(e) = {} THEN pending ELSE pending \ {ui.turn[e].prompt}
      /\ active' = IF Receivers(e) # {} /\ active = ui.turn[e].prompt THEN None ELSE active
  BY DEF Finish, Calls
<1>3. /\ ui' \in Ui /\ ui'.engine = ui.engine /\ ui'.turn[e] = Idle
      /\ \A g \in Engines : g # e => ui'.turn[g] = ui.turn[g]
  <2>1. PICK t \in UiTurn : t = Idle
    BY IdleFacts
  <2>2. ui' = [ui EXCEPT !.turn[e] = t]
    BY <1>2, <2>1
  <2>3. /\ ui' \in Ui /\ ui'.engine = ui.engine /\ ui'.turn[e] = t
        /\ \A g \in Engines : g # e => ui'.turn[g] = ui.turn[g]
    <3>1. ui \in Ui /\ ui.turn \in [Engines -> UiTurn]
      BY <1>1 DEF Ui
    <3>2. QED
      BY <2>2, <3>1, TurnFacts
  <2>4. QED
    BY <2>1, <2>3
<1>4. /\ Receivers(e) # {} => e = ui.engine /\ ui.turn[e].prompt \in pending
      /\ \A c \in Receivers(e) : c \in Clients /\ ui.turn[e].prompt = Prompt(c) /\ Receivers(e) = {c}
      /\ \A d \in Clients : Prompt(d) \in pending /\ d \notin Receivers(e) =>
               e # ui.engine \/ ui.turn[e].prompt # Prompt(d)
  BY ReceiverFacts
<1>5. \A d \in Clients : Prompt(d)' = Prompt(d)
  BY <1>2 DEF Prompt
<1>6. wire' = [d \in Clients |-> IF d \in Receivers(e) THEN Failed(wire[d]) ELSE wire[d]]
  BY <1>2 DEF FinishedWire
<1>7. ASSUME NEW d \in Clients PROVE wire'[d] \in Wire /\ (d \in Receivers(e) => Broken(d))
  <2>1. CASE d \in Receivers(e)
    <3>1. wire'[d] = Failed(wire[d])
      BY <1>6, <2>1
    <3>2. QED
      BY <1>1, <1>2, <3>1, FailedBreaks
  <2>2. CASE d \notin Receivers(e)
    BY <1>1, <1>6, <2>2 DEF ClientType
  <2>3. QED
    BY <2>1, <2>2
<1>8. ClientType'
  <2>1. wire' = [d \in Clients |-> wire'[d]]
    BY <1>6
  <2>2. wire' \in [Clients -> Wire]
    BY <1>7, <2>1
  <2>3. QED
    BY <1>1, <1>2, <2>2 DEF ClientType
<1>9. pending' \subseteq pending /\ active' \in Prompts \cup {None}
  BY <1>1, <1>2 DEF BridgeType
<1>10. BridgeType'
  BY <1>1, <1>2, <1>3, <1>9 DEF BridgeType
<1>11. InterruptsOwnTurn'
  <2>1. \A g \in Engines : ui.turn[g].stopper # None => Owner(ui.turn[g].prompt) = ui.turn[g].stopper
    BY DEF BridgeInv, TurnsKeptApart, InterruptsOwnTurn
  <2>2. QED
    BY <1>3, <2>1, IdleFacts DEF InterruptsOwnTurn
<1>12. HostInv'
  <2>1. \A u \in pending' : u = Prompt(Owner(u))'
    BY <1>1, <1>5, <1>9, NoneIsNothing DEF BridgeType, HostInv
  <2>2. \A u, v \in pending' : u = v
    BY <1>1, <1>9 DEF HostInv
  <2>3. active' # None => active' \in pending' /\ ui'.turn[ui'.engine].prompt = active'
    <3>1. SUFFICES ASSUME active' # None
                   PROVE  active' \in pending' /\ ui'.turn[ui'.engine].prompt = active'
      OBVIOUS
    <3>2. active' = active /\ active \in pending /\ ui.turn[ui.engine].prompt = active
      BY <1>1, <1>2, <3>1 DEF HostInv
    <3>3. PICK c \in Clients : active = Prompt(c)
      BY <1>1, <3>2, NoneIsNothing DEF BridgeType, HostInv
    <3>4. e # ui.engine
      <4>1. SUFFICES ASSUME e = ui.engine PROVE FALSE
        OBVIOUS
      <4>2. c \in Receivers(e)
        BY <1>4, <3>2, <3>3, <4>1
      <4>3. active' = None
        BY <1>2, <3>2, <4>1, <4>2
      <4>4. QED
        BY <3>1, <4>3
    <3>5. pending' = pending
      BY <1>2, <1>4, <3>4
    <3>6. QED
      BY <1>1, <1>3, <3>2, <3>4, <3>5
  <2>4. host = None => pending' = {} /\ active' = None
    BY <1>1, <1>2, <1>9 DEF HostInv
  <2>5. QED
    BY <1>1, <1>2, <1>3, <2>1, <2>2, <2>3, <2>4 DEF HostInv
<1>13. ASSUME NEW d \in Clients PROVE ClientInv(d)'
  <2>1. ClientInv(d)
    BY DEF BridgeInv
  <2>2. CASE d \in Receivers(e)
    BY <1>1, <1>2, <1>5, <1>7, <1>8, <1>9, <2>1, <2>2, BrokenKeeps
  <2>3. CASE d \notin Receivers(e)
    <3>1. Fixed(d)
      BY <1>2, <1>6, <2>3 DEF Fixed
    <3>2. Prompt(d) \in pending => Progress(d)' = Progress(d)
      <4>1. SUFFICES ASSUME Prompt(d) \in pending PROVE Progress(d)' = Progress(d)
        OBVIOUS
      <4>2. Prompt(d) # None
        BY <1>1, ClientFields, NoneIsNothing
      <4>3. CASE e # ui.engine
        BY <1>1, <1>3, <1>5, <4>3 DEF Progress
      <4>4. CASE e = ui.engine
        BY <1>3, <1>4, <1>5, <2>3, <4>1, <4>2, <4>4, IdleFacts DEF Progress
      <4>5. QED
        BY <4>3, <4>4
    <3>3. QED
      BY <1>9, <2>1, <3>1, <3>2, Untouched
  <2>4. QED
    BY <2>2, <2>3
<1>14. QED
  BY <1>2, <1>8, <1>10, <1>11, <1>12, <1>13, Together

----------------------------------------------------------------------------
(* The program begins in the invariant and no step leaves it.              *)

LEMMA InitHolds == CodeInit => BridgeInv
<1>1. SUFFICES ASSUME CodeInit PROVE BridgeInv
  OBVIOUS
<1>2. /\ tp = [c \in Clients |-> [closed |-> FALSE, socket |-> "none", out |-> << >>, want |-> {}]]
      /\ sdk = [c \in Clients |-> [stage |-> "new", asked |-> 0, got |-> << >>]]
      /\ wire = [c \in Clients |-> [up |-> << >>, down |-> << >>, bridge |-> "none"]]
      /\ host = None /\ mounts = 0 /\ active = None /\ pending = {}
      /\ conns = [c \in Clients |-> [live |-> FALSE, busy |-> None, inited |-> FALSE]]
      /\ ui = [engine |-> 1, queue |-> {}, turn |-> [e \in Engines |-> Idle], typed |-> 0]
  BY <1>1 DEF CodeInit, Init, TInit
<1>3. << >> \in Seq(Half) /\ << >> \in Seq(TurnPart) /\ << >> \in Seq(Message)
  OBVIOUS
<1>4. ClientType
  BY <1>2, <1>3 DEF ClientType, Transport, SdkClient, Wire
<1>5. ui \in Ui
  <2>1. 1 \in Engines
    BY BridgeAssumption DEF Engines
  <2>2. PICK f \in [Engines -> UiTurn] : f = [e \in Engines |-> Idle]
    BY IdleFacts
  <2>3. QED
    BY <1>2, <2>1, <2>2 DEF Ui
<1>6. BridgeType
  BY <1>2, <1>5 DEF BridgeType, Conn
<1>7. HostInv
  BY <1>2 DEF HostInv
<1>8. ASSUME NEW c \in Clients PROVE ClientInv(c)
  <2>1. /\ tp[c].closed = FALSE /\ tp[c].socket = "none" /\ tp[c].out = << >> /\ tp[c].want = {}
        /\ sdk[c].stage = "new" /\ sdk[c].asked = 0 /\ sdk[c].got = << >>
        /\ wire[c].up = << >> /\ wire[c].down = << >> /\ wire[c].bridge = "none"
        /\ conns[c].live = FALSE /\ conns[c].busy = None
    BY <1>2
  <2>2. Lifecycle(c)
    BY <2>1 DEF Lifecycle
  <2>3. Aligned(c)
    BY <2>1 DEF Aligned
  <2>4. (\A f : Begun(c, f) = {}) /\ InitReplies(c) = {} /\ TurnAt(c) = {}
    BY <2>1 DEF Begun, InitReplies, TurnAt
  <2>5. InitOnce(c)
    BY <2>1, <2>4 DEF InitOnce
  <2>6. QueryOnce(c)
    BY <1>2, <2>1, <2>4 DEF QueryOnce, Unsent
  <2>7. Continues(c)
    BY <2>1 DEF Continues
  <2>8. QED
    BY <2>2, <2>3, <2>5, <2>6, <2>7 DEF ClientInv
<1>9. TurnsKeptApart
  <2>1. OwnAnswers
    BY <1>2 DEF OwnAnswers
  <2>2. InterruptsOwnTurn
    BY <1>2, IdleFacts DEF InterruptsOwnTurn
  <2>3. QED
    BY <2>1, <2>2 DEF TurnsKeptApart
<1>10. QED
  BY <1>4, <1>6, <1>7, <1>8, <1>9 DEF BridgeInv

LEMMA StepHolds == BridgeInv /\ [CodeNext]_allvars => BridgeInv'
<1>1. SUFFICES ASSUME BridgeInv, [CodeNext]_allvars PROVE BridgeInv'
  OBVIOUS
<1>2. CASE Attached
  <2>1. Next
    BY <1>2 DEF Attached
  <2>2. CASE \E c \in Clients : Client(c) \/ Accept(c) \/ Received(c) \/ Closes(c)
    <3>1. PICK c \in Clients : Client(c) \/ Accept(c) \/ Received(c) \/ Closes(c)
      BY <2>2
    <3>2. CASE Client(c)
      BY <1>1, <3>2, ClientSteps
    <3>3. CASE Accept(c)
      BY <1>1, <3>3, AcceptKeeps
    <3>4. CASE Received(c)
      <4>1. CASE Malformed(c) \/ RefuseQuery(c)
        BY <1>1, <4>1, RefusalKeeps
      <4>2. CASE Initialize(c)
        BY <1>1, <4>2, InitializeKeeps
      <4>3. CASE Initialized(c)
        BY <1>1, <4>3, InitializedKeeps
      <4>4. CASE InterruptTurn(c)
        BY <1>1, <4>4, InterruptTurnKeeps
      <4>5. CASE Enqueue(c)
        BY <1>1, <4>5, EnqueueKeeps
      <4>6. QED
        BY <3>4, <4>1, <4>2, <4>3, <4>4, <4>5 DEF Received
    <3>5. CASE Closes(c)
      BY <1>1, <3>5, ClosesKeeps
    <3>6. QED
      BY <3>1, <3>2, <3>3, <3>4, <3>5
  <2>3. CASE \E e \in Engines : Turns(e)
    <3>1. PICK e \in Engines : Turns(e)
      BY <2>3
    <3>2. CASE Begin(e)
      BY <1>1, <3>2, BeginKeeps
    <3>3. CASE Frame(e) \/ Result(e)
      BY <1>1, <3>3, FrameKeeps
    <3>4. CASE Finish(e)
      BY <1>1, <3>4, FinishKeeps
    <3>5. QED
      BY <3>1, <3>2, <3>3, <3>4 DEF Turns
  <2>4. CASE Attach \/ Listen \/ ServerClosed
    BY <1>1, <2>4, MountKeeps
  <2>5. CASE Stop
    BY <1>1, <2>5, StopKeeps
  <2>6. CASE Monitor
    BY <1>1, <2>6, MonitorKeeps
  <2>7. CASE Type \/ Remove
    BY <1>1, <2>7, TypeKeeps
  <2>8. CASE StartTurn
    BY <1>1, <2>8, StartTurnKeeps
  <2>9. QED
    BY <2>1, <2>2, <2>3, <2>4, <2>5, <2>6, <2>7, <2>8 DEF Next
<1>3. CASE InSession \/ UNCHANGED allvars
  <2>1. UNCHANGED << tp, sdk, wire, host, mounts, active, pending, conns, ui >>
    BY <1>3 DEF InSession, allvars, vars, tvars, bvars
  <2>2. ui' \in Ui /\ ui'.engine = ui.engine /\ ui'.turn = ui.turn
    BY <1>1, <2>1 DEF BridgeInv, BridgeType
  <2>3. QED
    BY <1>1, <2>1, <2>2, QueueKeeps
<1>4. QED
  BY <1>1, <1>2, <1>3 DEF CodeNext

----------------------------------------------------------------------------
(* In every state of the program the handshake, the query and the answer of    *)
(* each client are in the place that the transport (NativeTransport in         *)
(* transport.py), the bridge (receive, emit, finish in native_bridge.mjs) and  *)
(* the UI's queue and turns agree on.                                          *)
THEOREM BridgeInvariant == CodeSpec => []BridgeInv
<1>1. CodeInit => BridgeInv
  BY InitHolds
<1>2. BridgeInv /\ [CodeNext]_allvars => BridgeInv'
  BY StepHolds
<1>3. QED
  BY <1>1, <1>2, PTL DEF CodeSpec

(* What a client has read since its last query is the beginning of that        *)
(* query's own turn, every frame once and in order, and an interrupt stops     *)
(* the turn of none but the client that asked for it (receive, begin, emit).   *)
THEOREM AnswersKeptApart == CodeSpec => []TurnsKeptApart
<1>1. BridgeInv => TurnsKeptApart
  BY DEF BridgeInv
<1>2. QED
  BY <1>1, BridgeInvariant, PTL

(* Every line the bridge takes from a client is one frame of one write,        *)
(* however the client's tasks write and are cancelled (write in transport.py). *)
THEOREM FramesWhole == CodeSpec => []WholeFrames
<1>1. BridgeInv => WholeFrames
  <2>1. SUFFICES ASSUME BridgeInv, NEW c \in Clients, Arrived(c) PROVE Whole(Line(wire[c].up))
    BY DEF WholeFrames
  <2>2. ClientType /\ Aligned(c)
    BY <2>1 DEF BridgeInv, ClientInv
  <2>3. wire[c].bridge = "open" /\ Ends(wire[c].up) # {}
    BY <2>1 DEF Arrived
  <2>4. QED
    BY <2>2, <2>3, LineFacts
<1>2. QED
  BY <1>1, BridgeInvariant, PTL

----------------------------------------------------------------------------
(* The other way: a Session and the conversation it goes on with.          *)

TurnIds == 0..MaxTurns
Id      == TurnIds \cup {None}
Run     == [turn : TurnIds, resume : Id, in : Id, id : Id, result : BOOLEAN]

SessionType ==
  /\ session \in [id : Id, flags : {"none", "new", "latest"}, fork : BOOLEAN, history : Seq(Run),
                  lock : Callers \cup {None}, closed : BOOLEAN]
  /\ running \in [Callers -> Run]
  /\ store \in [TurnIds -> Seq(Nat)] /\ seen \in Seq(Nat)
  /\ latest \in TurnIds /\ started \in TurnIds

\* A conversation has the turns in the order of their start; the one at work is
\* not in any of them before the CLI has recorded it.
Ordered(turns) == \A i, j \in DOMAIN turns : i < j => turns[i] < turns[j]
ConversationsInv ==
  \A i \in TurnIds :
    /\ Ordered(store[i]) /\ Range(store[i]) \subseteq 1..started
    /\ \A c \in Callers : S!Running(c) /\ running[c].in = None => started \notin Range(store[i])

\* The id that the session keeps is of a conversation with all it was told of.
Untold == \A c \in Callers : running[c].id = None
MemoryInv ==
  /\ session.flags # "none" => session.id = None
  /\ session.id = None /\ Untold => seen = << >>
  /\ session.id # None /\ Untold => Range(seen) \subseteq Range(store[session.id])

\* The turn at work holds the lock; where it writes is what it was told.
TurnInv(c) ==
  /\ S!Running(c) <=> session.lock = c
  /\ S!Running(c) =>
       /\ running[c].turn = started /\ started > 0 /\ running[c].resume = session.id
       /\ running[c].in = None => running[c].id = None
       /\ running[c].in # None => /\ Range(seen) \subseteq Range(store[running[c].in])
                                  /\ started \in Range(store[running[c].in])
       /\ running[c].id # None => running[c].id = running[c].in

SessionInv == SessionType /\ ConversationsInv /\ MemoryInv /\ ~clash /\ \A c \in Callers : TurnInv(c)

\* What Append adds to a conversation.
LEMMA RangeAppend ==
  ASSUME NEW s \in Seq(Nat), NEW x \in Nat
  PROVE  /\ Append(s, x) \in Seq(Nat) /\ Range(Append(s, x)) = Range(s) \cup {x}
         /\ Ordered(s) /\ (\A y \in Range(s) : y < x) => Ordered(Append(s, x))
<1> DEFINE t == Append(s, x)
<1>1. /\ t \in Seq(Nat) /\ Len(t) = Len(s) + 1 /\ t[Len(s) + 1] = x
      /\ \A i \in 1..Len(s) : t[i] = s[i]
      /\ DOMAIN s = 1..Len(s) /\ DOMAIN t = 1..(Len(s) + 1) /\ Len(s) \in Nat
  OBVIOUS
<1>2. 1..(Len(s) + 1) = (1..Len(s)) \cup {Len(s) + 1}
  BY <1>1
<1>3. Range(t) = Range(s) \cup {x}
  BY <1>1, <1>2 DEF Range
<1>4. ASSUME Ordered(s), \A y \in Range(s) : y < x PROVE Ordered(t)
  <2>1. SUFFICES ASSUME NEW i \in 1..(Len(s) + 1), NEW j \in 1..(Len(s) + 1), i < j
                 PROVE  t[i] < t[j]
    BY <1>1 DEF Ordered
  <2>2. i \in 1..Len(s) /\ t[i] = s[i] /\ s[i] \in Range(s)
    BY <1>1, <2>1 DEF Range
  <2>3. CASE j \in 1..Len(s)
    BY <1>1, <1>4, <2>1, <2>2, <2>3 DEF Ordered
  <2>4. CASE j = Len(s) + 1
    BY <1>1, <1>4, <2>2, <2>4
  <2>5. QED
    BY <1>2, <2>3, <2>4
<1>5. QED
  BY <1>1, <1>3, <1>4

\* The fields of a turn and of the session.
LEMMA SessionFields ==
  ASSUME SessionInv
  PROVE  /\ None \notin TurnIds /\ None \notin Callers /\ TurnIds \subseteq Nat /\ started \in Nat
         /\ session.id \in Id /\ session.history \in Seq(Run) /\ Run # {}
         /\ \A c \in Callers : /\ running[c] \in Run /\ running[c].turn \in TurnIds
                               /\ running[c].resume \in Id /\ running[c].in \in Id /\ running[c].id \in Id
         /\ S!Nothing \in Run /\ S!Nothing.id = None /\ S!Nothing.in = None
         /\ \A i \in TurnIds : store[i] \in Seq(Nat)
         /\ \A c, d \in Callers : S!Running(c) /\ S!Running(d) => c = d
         /\ \A c \in Callers : ~S!Running(c) => running[c] = S!Nothing
<1>1. None \notin TurnIds /\ None \notin Callers /\ TurnIds \subseteq Nat
  BY SessionAssumption DEF TurnIds
<1>2. started \in Nat /\ session.id \in Id /\ session.history \in Seq(Run)
      /\ \A i \in TurnIds : store[i] \in Seq(Nat)
  BY <1>1 DEF SessionInv, SessionType
<1>3. \A c \in Callers : /\ running[c] \in Run /\ running[c].turn \in TurnIds
                         /\ running[c].resume \in Id /\ running[c].in \in Id /\ running[c].id \in Id
  BY DEF SessionInv, SessionType, Run
<1>4. S!Nothing.id = None /\ S!Nothing.in = None
  BY DEF S!Nothing
<1>5. S!Nothing \in Run
  <2>1. 0 \in TurnIds /\ None \in Id /\ FALSE \in BOOLEAN
    BY SessionAssumption DEF TurnIds, Id
  <2>2. QED
    BY <2>1 DEF S!Nothing, Run
<1>6. \A c, d \in Callers : S!Running(c) /\ S!Running(d) => c = d
  BY <1>1 DEF SessionInv, TurnInv
<1>7. \A c \in Callers : ~S!Running(c) => running[c] = S!Nothing
  BY DEF S!Running
<1>8. QED
  BY <1>1, <1>2, <1>3, <1>4, <1>5, <1>6, <1>7

\* A turn begins.
LEMMA AskKeeps ==
  ASSUME SessionInv, NEW c \in Callers, S!Ask(c)
  PROVE  SessionInv'
<1>1. \A d \in Callers : ~S!Running(d) /\ running[d] = S!Nothing
  BY SessionFields DEF SessionInv, TurnInv, S!Ask, S!MayAsk
<1>2. ~S!Clashes
  BY DEF SessionInv, MemoryInv, S!Clashes, S!Known
<1>3. /\ started < MaxTurns /\ started' = started + 1 /\ session' = [session EXCEPT !.lock = c]
      /\ running' = [running EXCEPT ![c] = [S!Nothing EXCEPT !.turn = started', !.resume = session.id]]
      /\ UNCHANGED << store, latest, seen, clash >>
  BY <1>2 DEF S!Ask
<1>4. started \in Nat /\ started' \in TurnIds /\ started' > 0 /\ started' > started
  BY <1>3, SessionFields, SessionAssumption DEF TurnIds
<1>5. PICK r \in Run : r = [S!Nothing EXCEPT !.turn = started', !.resume = session.id]
  BY <1>4, SessionFields DEF Run, S!Nothing
<1>6. /\ r.turn = started' /\ r.resume = session.id /\ r.in = None /\ r.id = None
  BY <1>5 DEF S!Nothing
<1>7. /\ running' \in [Callers -> Run] /\ running'[c] = r /\ \A d \in Callers : d # c => running'[d] = running[d]
  BY <1>3, <1>5 DEF SessionInv, SessionType
<1>8. /\ session'.id = session.id /\ session'.flags = session.flags /\ session'.lock = c
  BY <1>3 DEF SessionInv, SessionType
<1>9. SessionType'
  <2>1. session' \in [id : Id, flags : {"none", "new", "latest"}, fork : BOOLEAN, history : Seq(Run),
                      lock : Callers \cup {None}, closed : BOOLEAN]
    BY <1>3 DEF SessionInv, SessionType
  <2>2. QED
    BY <1>3, <1>4, <1>7, <2>1 DEF SessionInv, SessionType
<1>10. ConversationsInv'
  <2>1. SUFFICES ASSUME NEW i \in TurnIds
                 PROVE  Ordered(store[i]) /\ Range(store[i]) \subseteq 1..started' /\ started' \notin Range(store[i])
    BY <1>3 DEF ConversationsInv
  <2>2. Ordered(store[i]) /\ Range(store[i]) \subseteq 1..started
    BY <2>1 DEF SessionInv, ConversationsInv
  <2>3. 1..started \subseteq 1..started' /\ started' \notin 1..started
    BY <1>3, <1>4
  <2>4. QED
    BY <2>2, <2>3
<1>11. Untold /\ Untold'
  BY <1>1, <1>6, <1>7, SessionFields DEF Untold
<1>12. MemoryInv'
  BY <1>3, <1>8, <1>11 DEF SessionInv, MemoryInv
<1>13. S!Running(c)'
  <2>1. started' # 0
    BY <1>4, SessionFields
  <2>2. r # S!Nothing
    BY <1>6, <2>1 DEF S!Nothing
  <2>3. QED
    BY <1>7, <2>2 DEF S!Running, S!Nothing
<1>14. ASSUME NEW d \in Callers PROVE TurnInv(d)'
  <2>1. CASE d = c
    BY <1>4, <1>6, <1>7, <1>8, <1>13, <2>1 DEF TurnInv
  <2>2. CASE d # c
    <3>1. ~S!Running(d)'
      BY <1>1, <1>7, <2>2 DEF S!Running, S!Nothing
    <3>2. QED
      BY <1>8, <2>2, <3>1 DEF TurnInv
  <2>3. QED
    BY <2>1, <2>2
<1>15. QED
  BY <1>3, <1>9, <1>10, <1>12, <1>14 DEF SessionInv

\* The CLI records the turn in the conversation it goes on with.
LEMMA RecordsKeeps ==
  ASSUME SessionInv, NEW c \in Callers, S!Records(c)
  PROVE  SessionInv'
<1> DEFINE from == S!From(c)
           past == IF S!Known(from) THEN store[from] ELSE << >>
           target == S!Target(c)
           turns == Append(past, running[c].turn)
<1>1. /\ S!Running(c) /\ running[c].in = None /\ running[c].id = None
      /\ running[c].turn = started /\ started > 0 /\ running[c].resume = session.id
  BY DEF SessionInv, TurnInv, S!Records, S!Known
<1>2. /\ store' = [store EXCEPT ![target] = turns] /\ latest' = target
      /\ running' = [running EXCEPT ![c].in = target]
      /\ UNCHANGED << session, started, seen, clash >>
  BY DEF S!Records
<1>3. \A d \in Callers : d # c => ~S!Running(d) /\ running[d] = S!Nothing
  BY <1>1, SessionFields
<1>4. from \in Id /\ (session.id # None => from = session.id) /\ target \in TurnIds
  <2>1. from \in Id
    BY SessionFields DEF S!From, SessionInv, SessionType, Id
  <2>2. session.id # None => from = session.id
    BY <1>1 DEF S!From, S!Known
  <2>3. target \in TurnIds
    BY <2>1, SessionFields DEF S!Target, S!Known, Id
  <2>4. QED
    BY <2>1, <2>2, <2>3
<1>5. /\ past \in Seq(Nat) /\ Ordered(past) /\ Range(past) \subseteq 1..started /\ started \notin Range(past)
  <2>1. CASE from = None
    <3>1. past = << >> /\ Range(past) = {} /\ Ordered(past) /\ << >> \in Seq(Nat)
      BY <2>1 DEF S!Known, Range, Ordered
    <3>2. QED
      BY <3>1
  <2>2. CASE from # None
    <3>1. from \in TurnIds /\ past = store[from]
      BY <1>4, <2>2 DEF Id, S!Known
    <3>2. QED
      BY <1>1, <3>1, SessionFields DEF SessionInv, ConversationsInv
  <2>3. QED
    BY <2>1, <2>2
<1>6. turns \in Seq(Nat) /\ Range(turns) = Range(past) \cup {started} /\ Ordered(turns)
  <2>1. started \in Nat /\ \A y \in Range(past) : y < started
    BY <1>5, SessionFields
  <2>2. QED
    BY <1>1, <1>5, <2>1, RangeAppend
<1> HIDE DEF turns, past, from, target
<1>7. PICK r \in Run : r = [running[c] EXCEPT !.in = target]
  BY <1>4, SessionFields DEF Run, Id
<1>8. /\ r.turn = started /\ r.resume = session.id /\ r.in = target /\ r.id = None
  <2>1. running[c] \in Run
    BY SessionFields
  <2>2. QED
    BY <1>1, <1>7, <2>1 DEF Run
<1>9. /\ running' \in [Callers -> Run] /\ running'[c] = r /\ \A d \in Callers : d # c => running'[d] = running[d]
  BY <1>2, <1>7 DEF SessionInv, SessionType
<1>10. /\ store' \in [TurnIds -> Seq(Nat)] /\ store'[target] = turns
       /\ \A i \in TurnIds : i # target => store'[i] = store[i]
  BY <1>2, <1>4, <1>6 DEF SessionInv, SessionType
<1>11. SessionType'
  BY <1>2, <1>4, <1>9, <1>10 DEF SessionInv, SessionType
<1>12. \A d \in Callers : S!Running(d)' => d = c
  BY <1>3, <1>9 DEF S!Running, S!Nothing
<1>13. target # None /\ started \in Nat
  BY <1>4, SessionFields
<1>14. ConversationsInv'
  <2>1. \A i \in TurnIds : Ordered(store'[i]) /\ Range(store'[i]) \subseteq 1..started
    <3>1. TAKE i \in TurnIds
    <3>2. CASE i = target
      BY <1>1, <1>5, <1>6, <1>10, <1>13, <3>2
    <3>3. CASE i # target
      BY <1>10, <3>3 DEF SessionInv, ConversationsInv
    <3>4. QED
      BY <3>2, <3>3
  <2>2. \A d \in Callers : S!Running(d)' => running'[d].in # None
    BY <1>8, <1>9, <1>12, <1>13
  <2>3. QED
    BY <1>2, <2>1, <2>2 DEF ConversationsInv
<1>15. Untold /\ Untold'
  BY <1>1, <1>3, <1>8, <1>9, SessionFields DEF Untold
<1>16. session.id # None => /\ Range(seen) \subseteq Range(store[session.id]) /\ past = store[session.id]
                            /\ session.id \in TurnIds
  BY <1>4, <1>15, SessionFields DEF SessionInv, MemoryInv, past, S!Known, Id
<1>17. session.id = None => Range(seen) = {}
  BY <1>15 DEF SessionInv, MemoryInv, Range
<1>18. MemoryInv'
  <2>1. session.id # None => Range(seen) \subseteq Range(store'[session.id])
    BY <1>6, <1>10, <1>16
  <2>2. QED
    BY <1>2, <1>15, <2>1 DEF SessionInv, MemoryInv
<1>19. Range(seen) \subseteq Range(store'[target]) /\ started \in Range(store'[target])
  BY <1>6, <1>10, <1>16, <1>17
<1>20. ASSUME NEW d \in Callers PROVE TurnInv(d)'
  <2>1. CASE d = c
    <3>1. S!Running(c)'
      <4>1. r # S!Nothing
        BY <1>1, <1>8 DEF S!Nothing
      <4>2. QED
        BY <1>9, <4>1 DEF S!Running, S!Nothing
    <3>2. session'.lock = c
      BY <1>1, <1>2 DEF SessionInv, TurnInv
    <3>3. QED
      BY <1>1, <1>2, <1>8, <1>9, <1>13, <1>19, <2>1, <3>1, <3>2 DEF TurnInv
  <2>2. CASE d # c
    <3>1. session.lock # d /\ ~S!Running(d)'
      BY <1>3, <1>12, <2>2 DEF SessionInv, TurnInv
    <3>2. QED
      BY <1>2, <3>1 DEF TurnInv
  <2>3. QED
    BY <2>1, <2>2
<1>21. QED
  BY <1>2, <1>11, <1>14, <1>18, <1>20 DEF SessionInv

\* The CLI tells the id.
LEMMA ToldKeeps ==
  ASSUME SessionInv, NEW c \in Callers, S!Opened(c) \/ S!Results(c)
  PROVE  SessionInv'
<1>1. /\ running[c].in # None /\ running[c].in \in TurnIds
      /\ seen' = IF running[c].id # None THEN seen ELSE Append(seen, running[c].turn)
      /\ UNCHANGED << session, store, latest, started, clash >>
      /\ \E k \in BOOLEAN : running' = [running EXCEPT ![c] = [running[c] EXCEPT !.result = k, !.id = running[c].in]]
  <2>1. running[c] \in Run
    BY SessionFields
  <2>2. [running[c] EXCEPT !.id = running[c].in] =
          [running[c] EXCEPT !.result = running[c].result, !.id = running[c].in]
    BY <2>1 DEF Run
  <2>3. [[running[c] EXCEPT !.result = TRUE] EXCEPT !.id = [running[c] EXCEPT !.result = TRUE].in] =
          [running[c] EXCEPT !.result = TRUE, !.id = running[c].in]
    BY <2>1 DEF Run
  <2>4. running[c].result \in BOOLEAN
    BY <2>1 DEF Run
  <2>5. \E k \in BOOLEAN : running' = [running EXCEPT ![c] = [running[c] EXCEPT !.result = k, !.id = running[c].in]]
    <3>1. CASE S!Opened(c)
      BY <2>2, <2>4, <3>1 DEF S!Opened, S!Told
    <3>2. CASE S!Results(c)
      BY <2>3, <3>2 DEF S!Results, S!Told
    <3>3. QED
      BY <3>1, <3>2
  <2>6. /\ running[c].in # None
        /\ seen' = IF running[c].id # None THEN seen ELSE Append(seen, running[c].turn)
        /\ UNCHANGED << session, store, latest, started, clash >>
    BY DEF S!Opened, S!Results, S!Told, S!Known
  <2>7. QED
    BY <2>5, <2>6, SessionFields DEF Id
<1>2. S!Running(c)
  BY <1>1, SessionFields
<1>3. /\ running[c].turn = started /\ started > 0 /\ running[c].resume = session.id /\ session.lock = c
      /\ Range(seen) \subseteq Range(store[running[c].in]) /\ started \in Range(store[running[c].in])
  BY <1>1, <1>2 DEF SessionInv, TurnInv
<1>4. \A d \in Callers : d # c => ~S!Running(d) /\ running[d] = S!Nothing
  BY <1>2, SessionFields
<1>5. PICK k \in BOOLEAN : running' = [running EXCEPT ![c] = [running[c] EXCEPT !.result = k, !.id = running[c].in]]
  BY <1>1
<1>6. PICK r \in Run : r = [running[c] EXCEPT !.result = k, !.id = running[c].in]
  BY SessionFields DEF Run
<1>7. r.turn = started /\ r.resume = session.id /\ r.in = running[c].in /\ r.id = running[c].in
  <2>1. running[c] \in Run
    BY SessionFields
  <2>2. QED
    BY <1>3, <1>6, <2>1 DEF Run
<1>8. /\ running' \in [Callers -> Run] /\ running'[c] = r /\ \A d \in Callers : d # c => running'[d] = running[d]
  BY <1>5, <1>6 DEF SessionInv, SessionType
<1>9. seen' \in Seq(Nat) /\ Range(seen') \subseteq Range(seen) \cup {started}
  <2>1. seen \in Seq(Nat) /\ started \in Nat
    BY SessionFields DEF SessionInv, SessionType
  <2>2. QED
    BY <1>1, <1>3, <2>1, RangeAppend
<1>10. SessionType'
  BY <1>1, <1>8, <1>9 DEF SessionInv, SessionType
<1>11. \A d \in Callers : S!Running(d)' => d = c
  BY <1>4, <1>8 DEF S!Running, S!Nothing
<1>12. ConversationsInv'
  <2>1. \A d \in Callers : S!Running(d)' => running'[d].in # None
    BY <1>1, <1>7, <1>8, <1>11
  <2>2. QED
    BY <1>1, <2>1 DEF SessionInv, ConversationsInv
<1>13. ~Untold'
  BY <1>1, <1>7, <1>8 DEF Untold
<1>14. MemoryInv'
  BY <1>1, <1>13 DEF SessionInv, MemoryInv
<1>15. ASSUME NEW d \in Callers PROVE TurnInv(d)'
  <2>1. CASE d = c
    <3>1. S!Running(c)'
      <4>1. r # S!Nothing
        BY <1>3, <1>7 DEF S!Nothing
      <4>2. QED
        BY <1>8, <4>1 DEF S!Running, S!Nothing
    <3>2. Range(seen') \subseteq Range(store[running[c].in])
      BY <1>3, <1>9
    <3>3. QED
      BY <1>1, <1>3, <1>7, <1>8, <2>1, <3>1, <3>2 DEF TurnInv
  <2>2. CASE d # c
    BY <1>1, <1>3, <1>11, <2>2 DEF TurnInv
  <2>3. QED
    BY <2>1, <2>2
<1>16. QED
  BY <1>1, <1>10, <1>12, <1>14, <1>15 DEF SessionInv

\* A turn ends: the session keeps the id it was told.
LEMMA LeaveKeeps ==
  ASSUME SessionInv, NEW c \in Callers, S!Returns(c) \/ S!Fails(c) \/ S!Interrupted(c)
  PROVE  SessionInv'
<1>1. /\ UNCHANGED << store, latest, started, seen, clash >>
      /\ running' = [running EXCEPT ![c] = S!Nothing]
      /\ \E how : session' = [S!Remembered(session, running[c], how) EXCEPT !.lock = None]
  BY DEF S!Returns, S!Fails, S!Interrupted, S!Leave
<1> DEFINE id == IF running[c].id # None THEN running[c].id ELSE session.id
           flags == IF running[c].id # None THEN "none" ELSE session.flags
<1>2. /\ session' \in [id : Id, flags : {"none", "new", "latest"}, fork : BOOLEAN, history : Seq(Run),
                       lock : Callers \cup {None}, closed : BOOLEAN]
      /\ session'.id = id /\ session'.flags = flags /\ session'.lock = None
  <2>1. running[c] \in Run /\ Append(session.history, running[c]) \in Seq(Run) /\ id \in Id
    BY SessionFields
  <2>2. session' = [[session EXCEPT !.history = Append(session.history, running[c]), !.id = id, !.flags = flags]
                      EXCEPT !.lock = None]
    BY <1>1 DEF S!Remembered, S!Known
  <2>3. QED
    BY <2>1, <2>2 DEF SessionInv, SessionType
<1>3. S!Running(c)
  BY DEF S!Returns, S!Fails, S!Interrupted, S!Running, S!Nothing
<1>4. \A d \in Callers : d # c => ~S!Running(d) /\ running[d] = S!Nothing
  BY <1>3, SessionFields
<1>5. running' \in [Callers -> Run] /\ \A d \in Callers : running'[d] = S!Nothing
  BY <1>1, <1>4, SessionFields DEF SessionInv, SessionType
<1>6. Untold' /\ \A d \in Callers : ~S!Running(d)'
  BY <1>5, SessionFields DEF Untold, S!Running, S!Nothing
<1>7. SessionType'
  BY <1>1, <1>2, <1>5 DEF SessionInv, SessionType
<1>8. ConversationsInv'
  BY <1>1, <1>6 DEF SessionInv, ConversationsInv
<1>9. MemoryInv'
  <2>1. CASE running[c].id # None
    <3>1. running[c].id = running[c].in /\ Range(seen) \subseteq Range(store[running[c].id])
      BY <1>3, <2>1 DEF SessionInv, TurnInv
    <3>2. QED
      BY <1>1, <1>2, <2>1, <3>1 DEF MemoryInv
  <2>2. CASE running[c].id = None
    <3>1. Untold
      BY <1>4, <2>2, SessionFields DEF Untold
    <3>2. QED
      BY <1>1, <1>2, <2>2, <3>1 DEF SessionInv, MemoryInv
  <2>3. QED
    BY <2>1, <2>2
<1>10. \A d \in Callers : TurnInv(d)'
  BY <1>2, <1>6, SessionFields DEF TurnInv
<1>11. QED
  BY <1>1, <1>7, <1>8, <1>9, <1>10 DEF SessionInv

\* The session is closed, or nothing happens to it.
LEMMA SessionStays ==
  ASSUME SessionInv, UNCHANGED << running, store, latest, started, seen, clash >>,
         session' = session \/ session' = [session EXCEPT !.closed = TRUE]
  PROVE  SessionInv'
<1>1. /\ session' \in [id : Id, flags : {"none", "new", "latest"}, fork : BOOLEAN, history : Seq(Run),
                       lock : Callers \cup {None}, closed : BOOLEAN]
      /\ session'.id = session.id /\ session'.flags = session.flags /\ session'.lock = session.lock
  BY DEF SessionInv, SessionType
<1>2. SessionType'
  BY <1>1 DEF SessionInv, SessionType
<1>3. \A d \in Callers : S!Running(d)' = S!Running(d)
  BY DEF S!Running, S!Nothing
<1>4. ConversationsInv'
  BY <1>3 DEF SessionInv, ConversationsInv
<1>5. MemoryInv'
  <2>1. Untold' = Untold
    BY DEF Untold
  <2>2. QED
    BY <1>1, <2>1 DEF SessionInv, MemoryInv
<1>6. \A d \in Callers : TurnInv(d)'
  BY <1>1, <1>3 DEF SessionInv, TurnInv
<1>7. QED
  BY <1>2, <1>4, <1>5, <1>6 DEF SessionInv

LEMMA SessionInit == CodeInit => SessionInv
<1>1. SUFFICES ASSUME CodeInit PROVE SessionInv
  OBVIOUS
<1>2. PICK flags \in {"none", "new", "latest"}, id \in {None, 0}, fork \in BOOLEAN :
        /\ flags # "none" => id = None
        /\ session = [id |-> id, flags |-> flags, fork |-> fork, history |-> << >>, lock |-> None, closed |-> FALSE]
  BY <1>1 DEF CodeInit, S!Init
<1>3. /\ running = [d \in Callers |-> S!Nothing] /\ store = [i \in TurnIds |-> << >>]
      /\ latest = 0 /\ started = 0 /\ seen = << >> /\ clash = FALSE
  BY <1>1 DEF CodeInit, S!Init, TurnIds
<1>4. 0 \in TurnIds /\ None \notin Callers /\ None \in Id /\ TurnIds \subseteq Id /\ FALSE \in BOOLEAN
  BY SessionAssumption DEF TurnIds, Id
<1>5. S!Nothing \in Run
  BY <1>4 DEF S!Nothing, Run
<1>6. SessionType
  <2>1. << >> \in Seq(Run) /\ << >> \in Seq(Nat)
    OBVIOUS
  <2>2. session \in [id : Id, flags : {"none", "new", "latest"}, fork : BOOLEAN, history : Seq(Run),
                     lock : Callers \cup {None}, closed : BOOLEAN]
    BY <1>2, <1>4, <2>1
  <2>3. QED
    BY <1>3, <1>4, <1>5, <2>1, <2>2 DEF SessionType
<1>7. Range(<< >>) = {} /\ Ordered(<< >>)
  BY DEF Range, Ordered
<1>8. \A d \in Callers : ~S!Running(d)
  BY <1>3 DEF S!Running
<1>9. ConversationsInv
  BY <1>3, <1>7, <1>8 DEF ConversationsInv
<1>10. MemoryInv
  BY <1>2, <1>3, <1>7 DEF MemoryInv
<1>11. \A d \in Callers : TurnInv(d)
  BY <1>2, <1>4, <1>8 DEF TurnInv
<1>12. QED
  BY <1>3, <1>6, <1>9, <1>10, <1>11 DEF SessionInv

(* In every state of a Session the id it keeps is that of a conversation with  *)
(* every turn it was told of (ask_async, _remember in client.py).              *)
THEOREM SessionInvariant == CodeSpec => []SessionInv
<1>1. SessionInv /\ [CodeNext]_allvars => SessionInv'
  <2>1. SUFFICES ASSUME SessionInv, [CodeNext]_allvars PROVE SessionInv'
    OBVIOUS
  <2>2. CASE InSession
    <3>1. PICK c \in Callers : \/ S!Ask(c) \/ S!Records(c) \/ S!Opened(c) \/ S!Results(c)
                               \/ S!Returns(c) \/ S!Fails(c) \/ S!Interrupted(c) \/ S!Close(c)
      BY <2>2 DEF InSession, S!Next
    <3>2. CASE S!Ask(c)
      BY <2>1, <3>2, AskKeeps
    <3>3. CASE S!Records(c)
      BY <2>1, <3>3, RecordsKeeps
    <3>4. CASE S!Opened(c) \/ S!Results(c)
      BY <2>1, <3>4, ToldKeeps
    <3>5. CASE S!Returns(c) \/ S!Fails(c) \/ S!Interrupted(c)
      BY <2>1, <3>5, LeaveKeeps
    <3>6. CASE S!Close(c)
      BY <2>1, <3>6, SessionStays DEF S!Close
    <3>7. QED
      BY <3>1, <3>2, <3>3, <3>4, <3>5, <3>6
  <2>3. CASE Attached \/ UNCHANGED allvars
    BY <2>1, <2>3, SessionStays DEF Attached, allvars, svars
  <2>4. QED
    BY <2>1, <2>2, <2>3 DEF CodeNext
<1>2. QED
  BY <1>1, SessionInit, PTL DEF CodeSpec

(* A follow-up goes on with a conversation that has every earlier turn whose id *)
(* the session was told, in their order, however those turns ended, and is      *)
(* never refused for the session's own options (ask_async, _remember).          *)
THEOREM FollowUpsContinue == CodeSpec => []TurnsContinue
<1>1. SessionInv => TurnsContinue
  <2>1. SUFFICES ASSUME SessionInv PROVE S!TurnsContinue
    BY DEF TurnsContinue
  <2>2. ~clash
    BY <2>1 DEF SessionInv
  <2>3. ASSUME NEW c \in Callers, S!Known(running[c].id) PROVE S!Remembers(store[running[c].id])
    <3>1. running[c].id # None /\ S!Running(c)
      BY <2>1, <2>3, SessionFields DEF S!Known
    <3>2. /\ running[c].id \in TurnIds /\ running[c].id = running[c].in
          /\ Range(seen) \subseteq Range(store[running[c].id])
      BY <2>1, <3>1, SessionFields DEF SessionInv, TurnInv, Id
    <3>3. Ordered(store[running[c].id])
      BY <2>1, <3>2 DEF SessionInv, ConversationsInv
    <3>4. QED
      BY <3>2, <3>3 DEF S!Remembers, S!Range, Range, Ordered
  <2>4. QED
    BY <2>2, <2>3 DEF S!TurnsContinue
<1>2. QED
  BY <1>1, SessionInvariant, PTL
=============================================================================
